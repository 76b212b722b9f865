\* The run ends with the alerts and the requests.
CHECK_DEADLOCK FALSE
CONSTANTS
    scan = scan
    shell = shell
    ransom = ransom
    w1 = w1
    w2 = w2
    u1 = u1
    u2 = u2
    r1 = r1
    Report = {r1}
    WSeverity = 30
    WConfidence = 20
    WAsset = 25
    WExposure = 10
    WIntel = 15
    Assets <- MCAssets
    Reputation <- MCReputation
    Alert <- MCAlert
    KeyOf <- MCKeyOf
    SeverityOf <- MCSeverityOf
    ConfidenceOf <- MCConfidenceOf
    Dotted = {}
    Allowlisted = {}
    Playbooks <- MCPlaybooks
    Worker <- MCWorker
    Analyst <- MCAnalyst
    Postures = {"auto"}
    MaxManual = 2
    MaxFaults = 1
    MaxAged = 1
SYMMETRY MCSymmetry
SPECIFICATION SpecWithReports
INVARIANTS
    TypeOK
    ReferenceIdsAreConsecutive
    LedgerExplainsStatus
    ScoreCoversLatestAlert
    ReportIsAttested
    ReportsCanBeDownloaded
PROPERTIES
    AlertsAndTransitionsKeepTerminal
