\* Sessions of two and three lines, in blocks of up to three bytes.
CONSTANTS
    Inputs <- Sessions
    Ids = {"id1", "id2"}
    Args = {"toc", "workers"}
    BatchArgs = {"workers"}
    NoId = "none"
    Limit = 5
    BlockSize = 3
    WordSize = 4
SPECIFICATION FairSpec
INVARIANT OwnAnswers
PROPERTY Prompt
CHECK_DEADLOCK FALSE
