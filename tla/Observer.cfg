SPECIFICATION Spec
CONSTANTS
    MaxIdentificationLine = 12
    MaxPacketLength = 68
    MaxPackets = 3
    MaxBytes = 104
    ReadChunk = 40
    UnexpectedSample = 3
    Exchanges <- MCExchanges
INVARIANTS InputBounded AsExpected RecordAgrees
PROPERTY DriveReturns
