\* A plane's output allocation fails while a helper streams its segments, of which there
\* are more than buffers.
CONSTANTS
    Planes <- Planes1
    Sizes <- Sizes4
    segments <- Segments4
    Helpers = {h1}
    Decoder = d
    Block = 1
    Ahead = 0
    BufferFails = FALSE
    OutFails = {0}
SPECIFICATION Spec
INVARIANT BufferComes
