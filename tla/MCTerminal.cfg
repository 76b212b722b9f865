\* One alert whose playbook proposes a containment action, and an analyst with two
\* requests.
CHECK_DEADLOCK FALSE
CONSTANTS
    shell = shell
    scan = scan
    ransom = ransom
    w1 = w1
    w2 = w2
    u1 = u1
    u2 = u2
    r1 = r1
    Report = {}
    WSeverity = 30
    WConfidence = 20
    WAsset = 25
    WExposure = 10
    WIntel = 15
    Assets <- MCAssets
    Reputation <- MCReputation
    Alert = {ransom}
    KeyOf <- MCKeyOf
    SeverityOf <- MCSeverityOf
    ConfidenceOf <- MCConfidenceOf
    Dotted = {}
    Allowlisted = {}
    Playbooks <- MCPlaybooks
    Worker = {w1}
    Analyst = {u1}
    Postures = {"ask"}
    MaxManual = 2
    MaxFaults = 0
    MaxAged = 0
SPECIFICATION SpecWithReports
INVARIANTS
    TerminalIsFinal
