SPECIFICATION Spec
CONSTANTS
    g = g
    a1 = a1
    a2 = a2
    bad2 = bad2
    b2 = b2
    x1 = x1
    good = good
    flaky = flaky
    Peers = {good, flaky}
    Timely = {good}
    Blocks <- MCBlocks
    Genesis = g
    Parent <- MCParent
    Spends <- MCSpends
    Malformed = {bad2}
    Own = {x1}
    StartTip <- MCStartTip
    BatchSize = 1
    MaxRetries = 2
    AllowSolo = FALSE
    MaxDisturbances = 2
INVARIANTS
    NeverBlind
    FlagFollowsSession
    NotAheadOfChain
    TimelyNotBanned
PROPERTIES
    SessionEnds
    CatchesUp
