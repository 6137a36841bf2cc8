SPECIFICATION Spec
CONSTANTS
    m1 = m1
    m2 = m2
    s1 = s1
    s2 = s2
    s3 = s3
    s4 = s4
    t1 = t1
    t2 = t2
    t3 = t3
    bad = bad
    u1 = u1
    Miner = {m1, m2}
    ShareIds <- MCShareIds
    MinerOf <- MCMinerOf
    HeightOf <- MCHeightOf
    Valid = {s1, s2, s3, s4, t1, t2, t3, u1}
    MaxShares = 2
    MaxMemory = 3
    EpochBlocks = 3
    MaxHeight = 3
    MaxTotal = 5
    MaxRestarts = 1
INVARIANTS
    CountsExact
PROPERTIES
    EvictionIsFair
CHECK_DEADLOCK FALSE
