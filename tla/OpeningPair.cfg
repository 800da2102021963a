CONSTANTS
    MaxPendingOutgoing = 2
    MaxPendingIncoming = 1
    MaxChannels = 2
    MaxTombstones = 1
    MaxNumber = 1
    GenerationMod = 1
SPECIFICATION Spec
INVARIANTS HonestPeerNeverAccused PairAgrees
PROPERTIES OpensResolved
