\* Two planes in five segments, one helper.
CONSTANTS
    Planes <- Planes2
    Sizes <- Sizes2
    segments <- Segments2
    Helpers = {h1}
    Decoder = d
    Block = 1
    Ahead = 0
    BufferFails = TRUE
    OutFails = {}
SPECIFICATION Spec
INVARIANTS
    TypeOK
    BuffersKept
    DecoderServed
