SPECIFICATION Spec
CONSTANTS
    MaxPreludeLines = 2
    MaxPreludeBytes = 94
    MaxPreludeLine = 90
    MaxIdentificationLine = 12
    MaxPacketLength = 68
    MaxPackets = 3
    MaxBytes = 104
    ReadChunk = 40
    MaxConnectAttempts = 2
    Addresses = {0, 3}
    Exchanges <- MCExchanges
INVARIANTS ProbeExact AsExpected
PROPERTY RunReturns
