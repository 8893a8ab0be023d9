\* Two helpers that sleep and wake each other; an output allocation may fail.
CONSTANTS
    Planes <- Planes1
    Sizes <- Sizes1
    segments <- Segments1
    Helpers = {h1, h2}
    Decoder = d
    Block = 1
    Ahead = 0
    BufferFails = TRUE
    OutFails = {0}
SPECIFICATION BusySpec
INVARIANTS
    OneThreadEach
    NotUsedAfterFree
PROPERTIES
    KeepsPromise
    Ends
    HelperWakes
