SPECIFICATION Spec
CONSTANTS
    Count = 3
    Referenced = 2
    Rule = 4
    ClusterDepth = 8
    PageH = 33
    Blocks <- MCBlocks
    NoteSets <- MCNoteSets
    MinBlocks = 1
    MaxBlocks = 3
    MaxPages = 9
INVARIANTS
    LayoutEnds
    NotesPlaced
    FootClear
    RowsWhole
    SourceMapTrue
    HeadingLeads
