\* The run ends with the tries, the scenario and the faults.
CHECK_DEADLOCK FALSE
CONSTANTS
    first = first
    second = second
    nameless1 = nameless1
    nameless2 = nameless2
    ssh = ssh
    https = https
    w1 = w1
    q1 = q1
    address = address
    simulator = simulator
    Event <- MCEvent
    At <- MCAt
    Worker = {w1}
    Request = {q1}
    Batch <- MCBatch
    Scenario <- MCScenario
    Rules <- MCRules
    ReadCount = 2
    MaxTries = 2
    MaxFaults = 2
    MaxExpired = 1
SPECIFICATION FairSpec
INVARIANTS
    TypeOK
    StoredIsPublished
    AckedIsCommitted
    ThresholdIsAlerted
    OneFreshAlertPerProcess
    AlertIsJustified
PROPERTIES
    EveryMessageSettles
