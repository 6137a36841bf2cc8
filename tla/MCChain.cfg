SPECIFICATION Spec
CONSTANTS
    g = g
    a1 = a1
    a2 = a2
    b1 = b1
    b2 = b2
    e1 = e1
    c2 = c2
    x2 = x2
    zero = zero
    MaxBatch = 2
    Blocks <- MCBlocks
    Genesis = g
    ZeroHash = zero
    Parent <- MCParent
    Work <- MCWork
    Creates <- MCCreates
    Spends <- MCSpends
    Malformed = {x2}
    Own = {a1, a2}
    Peers = {honest, faulty}
    Honest = {honest}
    Sound = {g, a1, a2, b1, b2, e1, c2}
    Batches <- MCBatches
    NoPeer = NoPeer
    NoJob = NoJob
    EpochBlocks = 2
    CheckpointInterval = 2
    StorageMayFail = TRUE
    MaxGeneration = 5
INVARIANTS
    ChainLinked
    IndexExact
    DiskMirrorsChain
    JobFresh
PROPERTIES
    ChoosesForks
