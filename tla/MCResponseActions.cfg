CONSTANTS
    w1 = w1
    w2 = w2
    a1 = a1
    a2 = a2
    i1 = i1
    i2 = i2
    address = address
    resolver = resolver
    server = server
    webhook = webhook
    Incident = {i1, i2}
    Host = {}
    Channel = {}
    Sensitive = {}
    DefaultMode = "auto"
    MaxAuto = 1
    Worker <- MCWorker
    Ip = {address}
    Allowlisted = {}
    Proposals <- MCProposals
    Analyst <- MCAnalyst
    MaxManual = 2
    MaxOld = 1
SPECIFICATION Spec
SYMMETRY MCSymmetry
INVARIANTS
    TypeOK
    OrphanBlockIsARace
    AutomaticOnlyInAuto
    RateLimitHolds
\* Once every incident is concluded and MaxManual reached there is nothing to do.
CHECK_DEADLOCK FALSE
