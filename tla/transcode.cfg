SPECIFICATION AudioSpec
CONSTANTS
    Byte <- MCByte
    Header = 0
    Trailer <- MCTrailer
    Garbage <- MCGarbage
    FirstSize = 1
    BlockSize = 2
    Uploads <- MCUploads
    MaxPackets = 4
    Recordings <- MCRecordings
    FrameSize = 3
    WavHeader = 0
    WavTrailer <- MCTrailer
    MaxRecorded = 3
INVARIANTS
    BufferExact
    FramesConserved
    FinishedIsWhole
    SamplesExact
    ContextsHeld
PROPERTIES
    ProcessEnds
CHECK_DEADLOCK FALSE
