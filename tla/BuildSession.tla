---------------------------- MODULE BuildSession ----------------------------
(***************************************************************************)
(* A BuildSession (build_session.cpp): documents built one after another,  *)
(* each from what the one before left - its text (SessionText), its parse, *)
(* its layout (SessionBuilds) - and each step of a build may be its last:  *)
(* the build fails or is cancelled, and what it changed is put back. The   *)
(* steps are BuildPdf's calls on the session, in its thread.               *)
(***************************************************************************)
EXTENDS SessionText, SessionBuilds, SessionReuse

CONSTANTS
    Follows(_),     \* what a caller may build after <<text, options>>
    Rewritten(_)    \* RewriteObsidian: the text as the parser takes it

VARIABLES
    record,      \* the record of the last committed parse
    pending      \* and of this build's

vars == <<textVars, views, buildVars, record, pending>>

(* The texts the records remember by a version.                            *)
ViewsOf(records) ==
    {[kept |-> r.kept, version |-> r.version, text |-> r.text] :
        r \in {r \in records : r.kept \notin {"none", "own"}}}
Remember == views' = ViewsOf({record', pending'})

Init ==
    /\ TextInit
    /\ views = {}
    /\ BuildsInit
    /\ record = NoRecord
    /\ pending = NoRecord

----------------------------------------------------------------------------
(* BuildSession::Build: other options than the last build's, and nothing   *)
(* of it is kept but its blocks.                                           *)
BeginBuild(t, given) ==
    /\ BeginLayout(given)
    /\ BeginText(t)
    /\ record' = IF given = options THEN record ELSE NoRecord
    /\ UNCHANGED pending
    /\ Remember

(* SessionFonts, and the renderer of the fonts it chose.                   *)
Choose ==
    /\ ChooseFonts("trueType" \in options)
    /\ ChooseRenderer(fonts')
    /\ UNCHANGED <<record, pending>>
    /\ Remember

(* The text a parse reads: one the session keeps, or a copy of its own     *)
(* where the dialect rewrites it. References come out in WinAnsi in the    *)
(* standard fonts.                                                         *)
ReadBy ==
    LET name == IF fonts = "winAnsi" THEN "winAnsi" ELSE "markdown"
        text == KeptTextOf(name).text
        own == "obsidian" \in options /\ Rewritten(text) # text
    IN  (IF own THEN [kept |-> "own", version |-> 0, text |-> Rewritten(text)] ELSE View(name))
        @@ [winAnsi |-> fonts # "trueType"]

(* ParseMarkdown in the session, and PlaceContents unless its record is    *)
(* kept, which has no marker.                                              *)
Parsed(parse) ==
    /\ ParseBlocks(IF parse.pending # NoRecord THEN parse.store
                   ELSE [parse.store EXCEPT !.blocks = PlaceContents(@)],
                   parse.notes)
    /\ pending' = parse.pending

Parse ==
    /\ LET read == ReadBy
       IN  Parsed(ParseInSession(store, record, read,
                      IF read.kept = "own" THEN markdown ELSE KeptTextOf(read.kept)))
    /\ UNCHANGED <<textVars, record>>
    /\ Remember

LayOutBuild ==
    /\ LayOut
    /\ UNCHANGED <<textVars, record, pending>>
    /\ Remember

(* SessionLayout::Commit, at the end of the builder, with CommitParse.     *)
Commit ==
    /\ CommitLayout
    /\ IF recording = NoTape THEN UNCHANGED <<record, pending>>
       ELSE record' = pending /\ pending' = NoRecord
    /\ UNCHANGED textVars
    /\ Remember

NextFont ==
    /\ fonts = "trueType"
    /\ NextRenderer
    /\ UNCHANGED <<textVars, record, pending>>
    /\ Remember

(* The build was made. A parse its layout did not commit (footnotes, no    *)
(* blocks) is committed, without a tape.                                   *)
Finish ==
    /\ FinishBuild
    /\ CommitText
    /\ IF store.parsed THEN record' = pending /\ pending' = NoRecord
       ELSE UNCHANGED <<record, pending>>
    /\ Remember

(* It was not, wherever it ended: the last build's blocks and text again.  *)
Fail ==
    /\ UndoBuild
    /\ UndoText
    /\ pending' = NoRecord
    /\ UNCHANGED record
    /\ Remember

\* A mutant for PartsSpec: the parse's record stays.
ClearKeepsRecord ==
    /\ ClearBuilds
    /\ ClearText
    /\ UNCHANGED <<record, pending>>
    /\ Remember

(* BuildSession::Clear.                                                    *)
Clear ==
    /\ ClearBuilds
    /\ ClearText
    /\ record' = NoRecord
    /\ UNCHANGED pending
    /\ Remember

Next ==
    \/ \E build \in IF options = NoOptions THEN Texts \X Options
                    ELSE Follows(<<markdown.text, options>>) :
         BeginBuild(build[1], build[2])
    \/ Choose
    \/ Parse
    \/ LayOutBuild
    \/ Commit
    \/ NextFont
    \/ Finish
    \/ Fail
    \/ Clear

Spec == Init /\ [][Next]_vars

----------------------------------------------------------------------------
SameRecord(last, whole) ==
    last = NoRecord \/ /\ last.kinds = whole.classes.kinds
                       /\ last.fences = whole.classes.fences
                       /\ last.taken = whole.classes.taken
                       /\ last.definition = whole.classes.definition
                       /\ last.passes = whole.passes
                       /\ last.used = whole.used
                       /\ last.left = whole.left
AsWhole(whole) == store.blocks = PlaceContents(whole.blocks) /\ SameRecord(pending, whole)

(* The blocks of a build are those of a parse of its text alone, whatever  *)
(* the session kept: the same blocks on the same lines (docs/development/  *)
(* incremental_builds.md); and so is what the next build goes on from.     *)
SameAsWhole == stage = "parsed" => AsWhole(ParseWhole(ReadBy.text))

(* A session does with its texts what SessionText does, and with its       *)
(* blocks and its tape what SessionBuilds does: whatever a parse reused of *)
(* the last one, undone it gives the last build's blocks back.             *)
PartsSpec == TextSpec /\ BuildsSpec
=============================================================================
