SPECIFICATION SyncSpec
CONSTANTS
    n1 = n1
    n2 = n2
    n3 = n3
    h = h
    Node = {n1, n2, n3}
    Shares = {1, 2, 3}
    Mined <- MCMined
    Recollected <- MCRecollected
    Accepts <- MCAccepts
    CommitHash <- MCCommitHash
    PageSize = 1
    SwitchMargin = 1
    Absent = Absent
    MayRestart = {n2}
    MaxNodeRestarts = 2
INVARIANTS
    RootIsOfArchive
    OwnSharesServed
    OnlyAcceptable
PROPERTIES
    SmallExchangeEnds
CHECK_DEADLOCK FALSE
