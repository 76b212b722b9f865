CONSTANTS
    deployer = deployer
    other = other
    r1 = r1
    r2 = r2
    Address <- MCAddress
    Deployer = deployer
    Root <- MCRoot
    MaxSequence = 3
    MaxBatches = 3
    EntryHash = {h1, h2}
    MaxLeaves = 8
SPECIFICATION MCSpec
INVARIANTS
    TypeOK
    RangesAreDisjointAndOrdered
    RootIsTheReferenceRoot
    ProofRefusesAnotherLeaf
    RootCommitsToLeaves
PROPERTIES
    AnchoredRootsAreFinal
