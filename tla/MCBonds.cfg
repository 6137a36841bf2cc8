CONSTANTS
    Miners = {"self", "eve"}
    Self = "self"
    Headers <- MCHeaders
    Parent <- MCParent
    EpochOf <- MCEpochOf
    Signer <- MCSigner
    Unsigned = {"u"}
    WeakWork = {"w"}
    Proofs <- MCProofs
    Amounts = {1, 2, 3}
    ConfigBond = 1
    MinimumBond = 2
    EpochBlocks = 2
    MaxHeight = 5
    MaxRollbacks = 2
    MaxRestarts = 2
SPECIFICATION Spec
INVARIANT SlashedOnce
PROPERTIES
    InnocentKeepsBond
    EvidenceActedOn
