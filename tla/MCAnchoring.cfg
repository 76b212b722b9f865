\* A full ledger, all of it in batches, stops the system: MaxEntries is a bound
\* of the model.
CHECK_DEADLOCK FALSE
CONSTANTS
    worker = worker
    request = request
    wallet = wallet
    recorded = recorded
    forged = forged
    Anchorer <- MCAnchorer
    Worker = worker
    Wallet = wallet
    Body <- MCBody
    Forged = forged
    MaxPerBatch = 2
    MaxEntries = 3
    MaxCrashes = 1
SPECIFICATION FairSpec
INVARIANTS
    TypeOK
    RootsMatchLedger
    AnchoredIsPrefix
    ProofAvailable
PROPERTIES
    BacklogDrains
