\* A document, three notes and a hard link; four embeds at most, three deep.
CONSTANTS
    doc = doc
    a = a
    b = b
    c = c
    link = link
    Paths = {doc, a, b, c, link}
    Folders = {"top", "sub"}
    Names = {"a", "b", "link", "doc"}
    Anchors = {"whole", "part"}
    Whole = "whole"
    DocumentPath = doc
    Nothing = Nothing
    Unknown = Unknown
    Vaults <- SmallVaults
    MaxEmbeds = 4
    MaxDepth = 3
    MaxBytes = 8
    MaxLookups = 5
    MaxReadBytes = 10
    MaxScanBytes = 6
    SizeRange = 16
SPECIFICATION FairSpec
INVARIANTS
    NoCycle
    LimitsKept
    FirstInOrder
    InPlace
PROPERTY Ends
CHECK_DEADLOCK FALSE
