---------------------------- MODULE SessionBuilds ----------------------------
(***************************************************************************)
(* The builds of a BuildSession, but for the texts: the blocks it keeps    *)
(* (SessionBlocks) and the tape of the last layout (SessionLayout), from    *)
(* build to build. Any parse takes place here that can be put back         *)
(* (ParsedFrom); what a session's own does is in SessionReuse.             *)
(***************************************************************************)
EXTENDS SessionLayout

CONSTANTS
    Options,        \* sets of "trueType" (a font of the options') and "obsidian"
    SystemFonts     \* the fonts a document in a TrueType font is tried in, in order

ASSUME SystemFontsAssumption ==
    /\ SystemFonts \in Seq(STRING)
    /\ SystemFonts # <<>>
    /\ \A n \in DOMAIN SystemFonts : SystemFonts[n] # "none"

NoOptions == {"none"}

(* TextFonts: the standard fonts for ASCII, and in WinAnsiEncoding, are two *)
(* renderers, whose tapes are not each other's; or a TrueType font.        *)
TextFonts == {"ascii", "winAnsi", "trueType"}

VARIABLES
    stage,       \* "idle", and of a build: "begun", "chosen", "parsed", "laidOut", "made"
    options,     \* the last build's
    renderer,    \* the font of this build's try
    tries,       \* the fonts it has tried
    store,       \* SessionBlocks: the blocks,
    notes,       \* this build's document has footnotes
    tape,        \* SessionLayout::last,
    recording    \* and the tape this build records, NoTape when it records none

buildVars == <<stage, options, renderer, tries, store, notes, tape, recording>>

BuildsInit ==
    /\ stage = "idle"
    /\ options = NoOptions
    /\ renderer = "none"
    /\ tries = 0
    /\ store = NoBlocks
    /\ notes = FALSE
    /\ tape = NoTape
    /\ recording = NoTape

(* BuildSession::Build: other options than the last build's, and nothing   *)
(* of it is kept but its blocks.                                           *)
BeginLayout(given) ==
    /\ stage = "idle"
    /\ stage' = "begun"
    /\ options' = given
    /\ tape' = IF given = options THEN tape ELSE NoTape
    /\ tries' = 0
    /\ UNCHANGED <<renderer, store, notes, recording>>

(* The standard fonts, one way or the other, or the first TrueType font.   *)
ChooseRenderer(chosen) ==
    /\ stage = "begun"
    /\ stage' = "chosen"
    /\ renderer' = IF chosen = "trueType" THEN SystemFonts[1] ELSE chosen
    /\ tries' = 1
    /\ UNCHANGED <<options, store, notes, tape, recording>>

(* ParseMarkdown in the session.                                           *)
ParseBlocks(parsed, hasNotes) ==
    /\ stage = "chosen"
    /\ stage' = "parsed"
    /\ store' = parsed
    /\ notes' = hasNotes
    /\ UNCHANGED <<options, renderer, tries, tape, recording>>

(* SessionAccess::Render: a document with footnotes, or of no blocks, is   *)
(* laid out whole and the last build's tape forgotten.                     *)
LayOut ==
    /\ stage = "parsed"
    /\ stage' = "laidOut"
    /\ IF notes \/ store.blocks = <<>>
       THEN tape' = NoTape /\ recording' = NoTape
       ELSE recording' = LayOutFrom(store, tape, renderer) /\ UNCHANGED tape
    /\ UNCHANGED <<options, renderer, tries, store, notes>>

(* SessionLayout::Commit, at the end of the builder, with CommitParse.     *)
CommitLayout ==
    /\ stage = "laidOut"
    /\ stage' = "made"
    /\ IF recording = NoTape THEN UNCHANGED <<store, tape>>
       ELSE tape' = recording /\ store' = CommitBlocks(store)
    /\ recording' = NoTape
    /\ UNCHANGED <<options, renderer, tries, notes>>

(* BuildInTrueType: the layout stopped at a character the font lacks, its  *)
(* tape not complete, or the document was made and is made again, in       *)
(* another font.                                                           *)
NextRenderer ==
    /\ tries < Len(SystemFonts)
    /\ tries' = tries + 1
    /\ renderer' = SystemFonts[tries + 1]
    /\ \/ stage = "laidOut" /\ tape' = NoTape /\ recording' = NoTape
       \/ stage = "made" /\ UNCHANGED <<tape, recording>>
    /\ stage' = "chosen"
    /\ UNCHANGED <<options, store, notes>>

(* The build was made. A parse its layout did not commit (footnotes, no    *)
(* blocks) is committed, without a tape.                                   *)
FinishBuild ==
    /\ stage = "made"
    /\ stage' = "idle"
    /\ IF store.parsed THEN store' = CommitBlocks(store) /\ tape' = NoTape
       ELSE UNCHANGED <<store, tape>>
    /\ UNCHANGED <<options, renderer, tries, notes, recording>>

(* It was not, wherever it ended: the last build's blocks again.           *)
UndoBuild ==
    /\ stage # "idle"
    /\ stage' = "idle"
    /\ store' = UndoBlocks(store)
    /\ recording' = NoTape
    /\ UNCHANGED <<options, renderer, tries, notes, tape>>

(* BuildSession::Clear.                                                    *)
ClearBuilds ==
    /\ stage = "idle"
    /\ options # NoOptions
    /\ options' = NoOptions
    /\ store' = NoBlocks
    /\ tape' = NoTape
    /\ UNCHANGED <<stage, renderer, tries, notes, recording>>

ParseAny == ParsedFrom(store, store') /\ ParseBlocks(store', notes') /\ notes' \in BOOLEAN

BuildsNext ==
    \/ \E given \in Options : BeginLayout(given)
    \/ \E chosen \in TextFonts : ChooseRenderer(chosen)
    \/ ParseAny
    \/ LayOut
    \/ CommitLayout
    \/ NextRenderer
    \/ FinishBuild
    \/ UndoBuild
    \/ ClearBuilds

BuildsSpec == BuildsInit /\ [][BuildsNext]_buildVars

----------------------------------------------------------------------------
(* Every build's layout is that of its blocks alone, the blocks replayed   *)
(* from the last build's tape among them: what is drawn, where, and the    *)
(* source map.                                                             *)
LayoutAsFresh ==
    stage = "laidOut" /\ recording # NoTape => recording = LayOutWhole(store.blocks, renderer)
=============================================================================
