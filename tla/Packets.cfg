SPECIFICATION Spec
CONSTANTS
    BlockSize = 4
    MinPadding = 2
    LengthLen = 1
    TagLen = 1
    MinPacketLength = 4
    LengthMax = 15
    CounterMax = 3
    MaxPacketLength = 8
    PayloadLens = {2, 9}
    OtherPaddings = {1, 2}
    AlteredLengths = {0, 4, 8}
    MaxWire = 2
    MaxFaults = 1
    KexNames = {"curve25519-sha256", "diffie-hellman-group14-sha256", "ext-info-c", "ext-info-s", "kex-strict-s", "kex-strict-s-v00@openssh.com"}
    HostKeyNames = {"ssh-ed25519", "rsa-sha2-512", "ssh-rsa"}
    CipherNames = {"aes128-gcm@openssh.com", "chacha20-poly1305@openssh.com"}
    CompressionNames = {"none"}
    MaxNames = 2
    MaxOthers = 1
INVARIANTS NonceNeverReused DeliveredInOrder HonestFraming NegotiationSound
PROPERTY SealedArrives
CHECK_DEADLOCK FALSE
