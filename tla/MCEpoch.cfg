SPECIFICATION Spec
CONSTANTS
    Miners = {me, other}
    Self = me
    Suspects = {other}
    ZeroHash = ZeroHash
    EpochBlocks = 2
    EpochsPerYear = 2
    EpochReward <- MCEpochReward
    BlockReward = 3
    GenesisSupply = 5
    MaxSupply = 50
    TreasuryBps = 700
    MaxShares = 1
    MaxPool = 2
    MaxCredit = 1
    PoCI <- MCPoCI
    Scale = 10
    WeightShares = 6
    WeightLoyalty = 2
    WeightBond = 2
    MostShares = 1
    MostLoyalty = 4
    MostBond = 16
    MaxHeight = 4
    MaxCrashes = 1
INVARIANTS
    ReloadIsIdentity
    SharesMatchPool
    LoyaltyOncePerEpoch
    MintedIsCounted
    PaidWithinSupply
