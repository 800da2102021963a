CONSTANTS
    BufferCapacity = 1
    MaxPreKexPackets = 4
    MaxProtectedPackets = 2
    SequenceMod = 5
SPECIFICATION RunSpec
CHECK_DEADLOCK FALSE
INVARIANTS StrictTranscript
PROPERTIES RunEnds FollowsModel
