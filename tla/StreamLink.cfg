SPECIFICATION FairLinkSpec
CONSTANTS
    ByteBase = 2
    kMaxPayload = 2
    PipeBytes = 4
    ChunkBytes = 4
    SendBound = 2
    Breaks = TRUE
    Payloads <- SomePayloads
    BrowserPackets <- SmallPayloads
INVARIANTS
    NoPacketWaits
PROPERTIES
    IsPacketFifo
    PacketsGetThrough
