\* A full ledger stops the sessions: MaxEntries is a bound of the model.
CHECK_DEADLOCK FALSE
CONSTANTS
    s1 = s1
    s2 = s2
    s3 = s3
    b1 = b1
    b2 = b2
    Session <- MCSession
    Body <- MCBody
    MaxEntries = 3
SPECIFICATION FairSpec
INVARIANTS
    TypeOK
    LedgerIsAChain
    OneUncommittedWriter
    StaleReadIsCaught
PROPERTIES
    LedgerIsAppendOnly
    AppendIsAnswered
