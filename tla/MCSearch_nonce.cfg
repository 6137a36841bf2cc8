SPECIFICATION Spec
CONSTANTS
    Threads = {0, 1}
    Batch = 4
    Hash <- MCHash
    Passes = {0, 1, 2}
    BlockTarget = 2
    ShareTarget = 5
    Worst = 9
INVARIANT NonceOfHash
