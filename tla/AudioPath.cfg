SPECIFICATION AudioPathSpec
CONSTANTS
    Payloads <- DemuxPayloads
    MaxPackets = 4
    PesSize = {4, 5}
    Payload = {1, 3}
    StartSize = 2
    FixedSize = 3
    HeaderSize = 3
    MaxHeader = 4
    MaxPesSize = 4
    MaxSent = 3
    Packet = {18, 10}
    Samples = 8
    Clock = 90
    Rate = {48, 44}
    MaxPcmBuffer = 36
    MaxDecoded = 10
    AacPayloads <- AdtsPayloads
    MaxSymbols = 24
    PacketSize = 16
    CcMod = 4
    AudioLengths = {3, 4, 11, 12, 16}
    TagLengths = {0, 11, 30}
    TableLength = 6
    SegFrames = 2
    MaxFrames = 5
INVARIANTS
    AudioPathTypeOK
    PacketsFound
    AudioFound
    DamageContained
    AudioConserved
    StampsSound
    FramesCutOut
    PacketsSound
    SegmentsSound
CHECK_DEADLOCK FALSE
