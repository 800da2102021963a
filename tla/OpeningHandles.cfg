CONSTANTS
    MaxPendingOutgoing = 2
    MaxPendingIncoming = 2
    MaxChannels = 3
    MaxTombstones = 1
    MaxNumber = 2
    GenerationMod = 5
    MaxInserts = 4
    MaxQueued = 2
SPECIFICATION HSpec
INVARIANTS RegistryExact NumbersUnique AnswersAgree
PROPERTY ImplementsModel
