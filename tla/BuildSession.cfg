SPECIFICATION Spec
VIEW Ranked
CONSTANTS
    Texts <- MCTexts
    Options <- MCOptions
    Follows <- MCFollows
    SystemFonts <- MCSystemFonts
    UnicodeReference <- MCUnicodeReference
    Ascii <- MCAscii
    Fits <- MCFits
    WinAnsi <- MCWinAnsi
    Rewritten <- MCRewritten
    ReferenceBudget <- MCReferenceBudget
    PageH = 4
INVARIANTS
    VersionNamesText
    SameAsWhole
    LayoutAsFresh
PROPERTY PartsSpec
