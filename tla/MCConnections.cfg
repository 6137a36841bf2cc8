CONSTANTS
    Nodes = {"a", "b"}
    Bootnodes <- MCBootnodes
    KnowsSelf = {"a"}
    MaxPeers = 2
    PerMessage = 1
    Conns = {1, 2, 3}
    Unknown = Unknown
    NoLink = NoLink
    MaxFailures = 1
    MaxOffences = 1
    MaxGossip = 1
SPECIFICATION Spec
INVARIANTS
    SlotsBounded
    BansDoNotEcho
PROPERTIES
    SelfLinksEnd
    Rejoins
CHECK_DEADLOCK FALSE
