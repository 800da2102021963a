CONSTANTS
    BufferCapacity = 1
    MaxPreKexPackets = 5
    MaxProtectedPackets = 2
    SequenceMod = 4
SPECIFICATION Spec
CHECK_DEADLOCK FALSE
INVARIANTS TrustGate SecretsWhenNeeded SequenceNumbers ScriptFollowed
