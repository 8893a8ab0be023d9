CONSTANTS
    Length <- Lengths
    HadPdf = TRUE
    MaxStops = 2
    MaxTime = 4
SPECIFICATION AgainSpec
INVARIANTS
    OkIsWhole
    SkippedIsSound
PROPERTY GoesOn
