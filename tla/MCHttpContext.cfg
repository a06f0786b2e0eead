CONSTANTS
    Bytes <- MCBytes
    Fresh = "x"
    DefaultSize = 4
    Streams <- MCStreams
    BodyLength <- MCBodyLength
    NoLong = NoLong
    SizeValues = 32
    MaxLine = 3
SPECIFICATION FairSpec
INVARIANTS
    HttpInv
    AnswersWhole
PROPERTIES
    BufferIsQueue
    CallbackEnds
CHECK_DEADLOCK FALSE
