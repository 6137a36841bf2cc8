CONSTANTS
    Txs <- MCTxs
    Inputs <- MCInputs
    Outputs <- MCOutputs
    Miners = {"me", "other"}
    Me = "me"
    BaseUtxo <- MCBaseUtxo
    BaseHeight = 2
    BlockReward = 2
    MinimumFee = 1
    DustLimit = 1
    MaxMempool = 2
    MaxBlockTxs = 2
    Retention = 1
    NoJob = NoJob
    MaxBlocks = 2
    MaxAppends = 2
    MaxCrashes = 1
SPECIFICATION Spec
INVARIANTS
    
    
    JobAcceptable
    NoStrayMark
PROPERTY PooledNotLost
CHECK_DEADLOCK FALSE
