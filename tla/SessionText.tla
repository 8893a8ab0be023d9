---------------------------- MODULE SessionText ----------------------------
(***************************************************************************)
(* A BuildSession's text from build to build (SessionText and KeptText,    *)
(* build_session.cpp): the markdown and, while the standard fonts show it, *)
(* its WinAnsi text, each changed in place where the next build's differs. *)
(* Every text has a version; what read a text (a parse's record) remembers *)
(* the version only, and later takes an equal version for an equal text,   *)
(* and a version equal to the kept text's base for the text before the     *)
(* last change.                                                            *)
(*                                                                         *)
(* Abstracted: the bytes a change replaced are the whole text before it;   *)
(* the checkpoints and the counts of bytes and references, which only make *)
(* the transcoding and the choice of the fonts cheap, are what they count. *)
(***************************************************************************)
EXTENDS Naturals

CONSTANTS
    Texts,                 \* the documents
    UnicodeReference(_),   \* has a character reference only a Unicode font shows
    Ascii(_),              \* every byte below 0x80, no reference beyond ASCII
    Fits(_),               \* every character has a WinAnsi code, no status symbol comes of it
    WinAnsi(_)             \* the WinAnsi text of a document that fits

VARIABLES
    markdown,        \* KeptText: the document
    winAnsi,         \* KeptText: its WinAnsi text
    winAnsiOf,       \* the markdown's version winAnsi is the WinAnsi text of, 0 for none
    versions,        \* the versions given out
    changed,         \* this build changed the markdown,
    winAnsiChanged,  \* and its WinAnsi text,
    lastWinAnsiOf,   \* which was that of this version
    fonts,           \* what this build chose: "none" before it did
    views            \* what the parses' records remember of the texts they read

textVars == <<markdown, winAnsi, winAnsiOf, versions, changed, winAnsiChanged,
              lastWinAnsiOf, fonts>>

ReadTexts == Texts \cup {WinAnsi(t) : t \in Texts}
NoKeptText(t) == [text |-> t, version |-> 0, base |-> 0, old |-> t]

----------------------------------------------------------------------------
(* KeptText::Change, Set (and Take) and Undo. A text that has a version is  *)
(* undoable while it has a base: Change gives both, the others neither.    *)

Change(kept, with, next) ==
    [text |-> with, version |-> next, base |-> kept.version, old |-> kept.text]

Set(kept, with, next) == [text |-> with, version |-> next, base |-> 0, old |-> kept.old]

UndoChange(kept, fresh) ==
    IF kept.base # 0
    THEN [text |-> kept.old, version |-> kept.base, base |-> 0, old |-> kept.old]
    ELSE [text |-> kept.text, version |-> fresh, base |-> 0, old |-> kept.old]

----------------------------------------------------------------------------
TextInit ==
    \E t \in Texts :
        /\ markdown = NoKeptText(t)
        /\ winAnsi = NoKeptText(t)
        /\ winAnsiOf = 0
        /\ versions = 0
        /\ changed = FALSE
        /\ winAnsiChanged = FALSE
        /\ lastWinAnsiOf = 0
        /\ fonts = "none"

(* SessionText::Begin: this build's markdown becomes the kept text, whole  *)
(* the first time, else where it differs.                                  *)
BeginText(t) ==
    /\ fonts = "none"
    /\ winAnsiChanged' = FALSE
    /\ \/ /\ markdown.version = 0
          /\ markdown' = Set(markdown, t, versions + 1)
          /\ versions' = versions + 1
          /\ changed' = TRUE
       \/ /\ markdown.version # 0
          /\ t = markdown.text
          /\ changed' = FALSE
          /\ UNCHANGED <<markdown, versions>>
       \/ /\ markdown.version # 0
          /\ t # markdown.text
          /\ markdown' = Change(markdown, t, versions + 1)
          /\ versions' = versions + 1
          /\ changed' = TRUE
    /\ fonts' = "begun"
    /\ UNCHANGED <<winAnsi, winAnsiOf, lastWinAnsiOf>>

(* A WinAnsi text changed where the markdown was: the right one of a right *)
(* one only.                                                               *)
Patched(text, old, with) == IF text = WinAnsi(old) THEN WinAnsi(with) ELSE text

(* TranscodeChange: winAnsi is the WinAnsi text of the text before the     *)
(* last change, and is changed where that one was. A change with a         *)
(* character that has no code is refused first; one whose bytes make a     *)
(* status symbol with those around it is made and put back.                *)
TranscodeChange ==
    \/ /\ Fits(markdown.text)
       /\ winAnsi' = Change(winAnsi, Patched(winAnsi.text, markdown.old, markdown.text), versions + 1)
       /\ versions' = versions + 1
       /\ winAnsiChanged' = TRUE
       /\ lastWinAnsiOf' = winAnsiOf
       /\ winAnsiOf' = markdown.version
       /\ fonts' = "winAnsi"
    \/ /\ ~Fits(markdown.text)
       /\ fonts' = "trueType"
       /\ \/ UNCHANGED <<winAnsi, versions, lastWinAnsiOf>>
          \/ /\ winAnsi' = UndoChange(Change(winAnsi, markdown.text, versions + 1), versions + 2)
             /\ versions' = versions + 2
             /\ lastWinAnsiOf' = winAnsiOf
       /\ UNCHANGED <<winAnsiChanged, winAnsiOf>>

TranscodeWhole ==
    /\ lastWinAnsiOf' = 0
    /\ \/ /\ Fits(markdown.text)
          /\ winAnsi' = Set(winAnsi, WinAnsi(markdown.text), versions + 1)
          /\ versions' = versions + 1
          /\ winAnsiChanged' = TRUE
          /\ winAnsiOf' = markdown.version
          /\ fonts' = "winAnsi"
       \/ /\ ~Fits(markdown.text)
          /\ fonts' = "trueType"
          /\ UNCHANGED <<winAnsi, versions, winAnsiChanged, winAnsiOf>>

(* The fonts of a document: as ChooseFonts reads the whole of it.          *)
KeepsWinAnsi(chosen) ==
    /\ fonts' = chosen
    /\ UNCHANGED <<winAnsi, winAnsiOf, versions, winAnsiChanged, lastWinAnsiOf>>

(* SessionText::Fonts, or a build whose options choose the fonts           *)
(* (SessionFonts' condition), which leaves the WinAnsi text behind.        *)
ChooseFonts(given) ==
    /\ fonts = "begun"
    /\ CASE given \/ UnicodeReference(markdown.text) -> KeepsWinAnsi("trueType")
         [] ~given /\ ~UnicodeReference(markdown.text) /\ Ascii(markdown.text) ->
                KeepsWinAnsi("ascii")
         [] OTHER ->
                \/ winAnsiOf = markdown.version /\ KeepsWinAnsi("winAnsi")
                \/ /\ winAnsiOf # markdown.version
                   /\ winAnsiOf # 0 /\ winAnsiOf = markdown.base
                   /\ TranscodeChange
                \/ /\ winAnsiOf # markdown.version
                   /\ ~(winAnsiOf # 0 /\ winAnsiOf = markdown.base)
                   /\ TranscodeWhole
    /\ UNCHANGED <<markdown, changed>>

(* The build was made; SessionText::Commit.                                *)
CommitText ==
    /\ fonts # "none"
    /\ fonts' = "none"
    /\ changed' = FALSE
    /\ winAnsiChanged' = FALSE
    /\ UNCHANGED <<markdown, winAnsi, winAnsiOf, versions, lastWinAnsiOf>>

\* A mutant for VersionNamesText: the WinAnsi text stays the failed build's.
UndoWinAnsiNever(fresh) == winAnsi
UndoWinAnsi(fresh) == IF winAnsiChanged THEN UndoChange(winAnsi, fresh) ELSE winAnsi

(* It was not: SessionText::Undo. A first text has nothing before it: the  *)
(* same bytes as another version.                                          *)
UndoText ==
    /\ fonts # "none"
    /\ fonts' = "none"
    /\ LET first == IF winAnsiChanged THEN versions + 1 ELSE versions
           fresh == IF changed /\ markdown.base = 0 THEN first + 1 ELSE first
       IN  /\ winAnsi' = UndoWinAnsi(first)
           /\ markdown' = IF changed THEN UndoChange(markdown, fresh) ELSE markdown
           /\ versions' = fresh
           /\ winAnsiOf' = IF changed /\ markdown.base = 0 THEN 0
                           ELSE IF winAnsiChanged THEN lastWinAnsiOf ELSE winAnsiOf
    /\ changed' = FALSE
    /\ winAnsiChanged' = FALSE
    /\ UNCHANGED lastWinAnsiOf

(* BuildSession::Clear: another SessionText, and no record is left.        *)
ClearText ==
    /\ fonts = "none"
    /\ markdown' = NoKeptText(markdown.text)
    /\ winAnsi' = NoKeptText(winAnsi.text)
    /\ winAnsiOf' = 0
    /\ versions' = 0
    /\ lastWinAnsiOf' = 0
    /\ UNCHANGED <<changed, winAnsiChanged, fonts>>

----------------------------------------------------------------------------
(* What a parse of a kept text remembers of it (ParseRecord's kept,        *)
(* version and, of the bytes there, text).                                 *)
View(name) ==
    IF name = "markdown"
    THEN [kept |-> "markdown", version |-> markdown.version, text |-> markdown.text]
    ELSE [kept |-> "winAnsi", version |-> winAnsi.version, text |-> winAnsi.text]

KeptTextOf(name) == IF name = "markdown" THEN markdown ELSE winAnsi

(* A parse reads one of the texts of this build.                           *)
ReadText ==
    /\ fonts \notin {"none", "begun"}
    /\ views' \in SUBSET (views \cup {View(IF fonts = "winAnsi" THEN "winAnsi" ELSE "markdown")})
    /\ UNCHANGED textVars

(* A build of any document, which is then the kept text.                   *)
BeginAny == markdown'.text \in Texts /\ BeginText(markdown'.text)

TextNext ==
    \/ (BeginAny \/ CommitText \/ UndoText) /\ views' \in SUBSET views
    \/ \E given \in BOOLEAN : ChooseFonts(given) /\ UNCHANGED views
    \/ ReadText
    \/ ClearText /\ views' = {}

TextSpec == TextInit /\ views = {} /\ [][TextNext]_<<textVars, views>>

----------------------------------------------------------------------------
KeptTexts == [text : ReadTexts, version : Nat, base : Nat, old : ReadTexts]

(* A version names one text: whatever a record remembers by a version is   *)
(* the text the session has under it, now or before its last change; and   *)
(* the WinAnsi text is that of the markdown it is said to be of, so that a *)
(* change may be transcoded alone. Texts go back and forth as builds fail, *)
(* and nothing compares their bytes again (KeptText, SessionText::Undo).   *)
VersionNamesText ==
    /\ \A v \in views :
         /\ v.version = KeptTextOf(v.kept).version => v.text = KeptTextOf(v.kept).text
         /\ v.version = KeptTextOf(v.kept).base => v.text = KeptTextOf(v.kept).old
    /\ winAnsiOf # 0 =>
         /\ winAnsiOf = markdown.version => winAnsi.text = WinAnsi(markdown.text)
         /\ winAnsiOf = markdown.base => winAnsi.text = WinAnsi(markdown.old)
=============================================================================
