SPECIFICATION Spec
CONSTANTS
    Count = 1
    Referenced = 1
    Rule = 4
    ClusterDepth = 8
    PageH = 33
    Blocks <- MCTableBlocks
    NoteSets <- MCTableNotes
    MinBlocks = 1
    MaxBlocks = 3
    MaxPages = 9
INVARIANT HeaderHasItsRow
