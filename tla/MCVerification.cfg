CONSTANTS
    worker = worker
    wallet = wallet
    recorded = recorded
    forged = forged
    Anchorer <- MCAnchorer
    Worker = worker
    Wallet = wallet
    Body <- MCBody
    Forged = forged
    MaxPerBatch = 2
    MaxEntries = 3
    MaxCrashes = 1
SPECIFICATION AuditSpec
INVARIANTS
    TamperIsLocated
    VerifiedIsBatched
    AlarmWithoutTamperIsARace
