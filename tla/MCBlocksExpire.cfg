CONSTANTS
    w1 = w1
    w2 = w2
    a1 = a1
    a2 = a2
    i1 = i1
    i2 = i2
    address = address
    resolver = resolver
    server = server
    webhook = webhook
    Incident = {i1, i2}
    Host = {server}
    Channel = {webhook}
    Sensitive = {server}
    DefaultMode = "auto"
    MaxAuto = 1
    Worker = {w1}
    Ip = {address, resolver}
    Allowlisted = {resolver}
    Proposals <- MCExpiryProposals
    Analyst = {a1}
    MaxManual = 1
    MaxOld = 4
SPECIFICATION TimedSpec
PROPERTY BlocksExpire
\* Once every incident is concluded and MaxManual reached there is nothing to do.
CHECK_DEADLOCK FALSE
