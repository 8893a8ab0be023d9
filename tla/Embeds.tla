------------------------------- MODULE Embeds -------------------------------
(***************************************************************************)
(* The notes a document of Obsidian's dialect embeds (Resolver in          *)
(* embeds.cpp): a descent, depth first, through the embeds of the document *)
(* and of each note it brings in, within limits of their number, depth and *)
(* bytes.  EmbeddedText has what becomes of them in the document.          *)
(*                                                                         *)
(* A text is a sequence of lines.  A line has one unit of size, and its    *)
(* kind: text, a footnote's definition (whose label OwnFootnotes makes     *)
(* longer by a unit), a rule "---", a blank line, or an embed.  Between    *)
(* the lookup of a note and its reading its file may go away, and the      *)
(* build may be cancelled at any time.                                     *)
(***************************************************************************)
EXTENDS Integers, Sequences, FiniteSets

CONSTANTS
    Vaults,         \* the documents and notes the descent may meet (see VaultAssumption)
    Paths, Folders, Names, Anchors,
    DocumentPath,   \* the document's own path
    Whole,          \* the anchor of an embed that names a whole note
    Nothing,        \* no path: the result of a lookup that finds no note
    Unknown,        \* not looked up yet
    MaxEmbeds, MaxDepth, MaxBytes, MaxLookups, MaxReadBytes, MaxScanBytes,
    SizeRange       \* 2^w for the w bits of a size

Kinds == {"text", "definition", "rule", "blank", "embed"}
Lines == [kind : Kinds, name : Names, anchor : Anchors]
Texts == Seq(Lines)

\* A vault: the document, the notes with their front matter's size, body, sections (the lines a
\* heading or a block's id names) and file, the folder each is in, and what a name finds.
ASSUME VaultAssumption ==
    \A v \in Vaults :
        /\ v.document \in Texts
        /\ v.body \in [Paths -> Texts]
        /\ v.front \in [Paths -> Nat]
        /\ v.section \in [Paths \X Anchors -> Texts]
        /\ v.file \in [Paths -> Nat]
        /\ v.folder \in [Paths -> Folders]
        /\ v.resolve \in [Folders \X Names -> Paths \union {Nothing}]
ASSUME NameAssumption ==
    /\ DocumentPath \in Paths /\ Nothing \notin Paths /\ Unknown \notin Paths /\ Nothing # Unknown
    /\ Whole \in Anchors
ASSUME LimitAssumption ==
    /\ {MaxEmbeds, MaxDepth, MaxBytes, MaxLookups, MaxReadBytes, MaxScanBytes} \subseteq Nat
    /\ SizeRange \in Nat \ {0} /\ MaxBytes < SizeRange

VARIABLES
    vault,
    entries,    \* EmbedSet::entries, the document first; place: the lines that lead to it (history)
    stack,      \* the calls of Expand: an entry, the next embed's line; the notes are the chain
    known,      \* the notes by folder and name
    loaded,     \* whether a note was read
    step,       \* where the loop of the innermost Expand is
    bytes, read, scanned, lookups,
    stopped,
    cancel,     \* options.cancel
    refused     \* history: the places of embeds refused for a limit or a file that went away

counts == <<bytes, read, scanned, lookups>>
vars == <<vault, entries, stack, known, loaded, step, counts, stopped, cancel, refused>>

Top == stack[Len(stack)]
Depth == Len(stack) - 1
Text == entries[Top.entry].text

\* What a size_t holds of n.
Size(n) == n % SizeRange

Min2(a, b) == IF a <= b THEN a ELSE b

\* The standalone embeds of a text, from a line on.
NextEmbed(text, from) ==
    LET at == {n \in from .. Len(text) : text[n].kind = "embed"}
    IN  IF at = {} THEN 0 ELSE CHOOSE n \in at : \A m \in at : n <= m

Line == NextEmbed(Text, Top.line)
Embed == Text[Line]
Place == Append(entries[Top.entry].place, Line)
\* mutant: every name is looked up from the document's folder
DocumentFolder == vault.folder[DocumentPath]

\* A name is looked up from the folder of the note that embeds it.
FolderHere == vault.folder[Top.note]
Key == <<FolderHere, Embed.name>>
Note == known[Key]

\* mutant: only the note that embeds is compared
EmbedsItself(p) == Top.note = p

OnChain(p) == \E n \in 1 .. Len(stack) : stack[n].note = p

\* What an embed brings in, before its footnotes are made its own.
PartOf(p, anchor) == IF anchor = Whole THEN vault.body[p] ELSE vault.section[<<p, anchor>>]
SizeOf(p) == vault.front[p] + Len(vault.body[p])

\* A first line "---" would begin a front matter again.
Begun(text) ==
    IF text # << >> /\ text[1].kind = "rule" THEN <<[text[1] EXCEPT !.kind = "blank"]>> \o text ELSE text

\* The bytes OwnFootnotes adds, and with them the size of the entry's text.
Grown(text) == Cardinality({n \in 1 .. Len(text) : text[n].kind = "definition"})
EntrySize(text) == Len(Begun(text)) + Grown(text)

Init ==
    /\ vault \in Vaults
    /\ entries = <<[text |-> vault.document, place |-> << >>, embeds |-> << >>]>>
    /\ stack = <<[entry |-> 1, note |-> DocumentPath, line |-> 1]>>
    /\ known = [key \in Folders \X Names |-> Unknown]
    /\ loaded = [p \in Paths |-> "untried"]
    /\ step = "next"
    /\ bytes = 0 /\ read = 0 /\ scanned = 0 /\ lookups = 0
    /\ stopped = FALSE /\ cancel = FALSE
    /\ refused = {}

-----------------------------------------------------------------------------
(* Expand *)

AtEmbed(place) == step = place /\ Line # 0

\* Back to the call before, or the end of the descent.
Leave ==
    /\ stack' = SubSeq(stack, 1, Len(stack) - 1)
    /\ step' = IF Len(stack) = 1 THEN "done" ELSE "next"

\* mutant: the same line again
GoOnHere == stack' = stack /\ step' = "next"

\* "continue": the loop goes on after this line.
GoOn ==
    /\ stack' = [stack EXCEPT ![Len(stack)].line = Line + 1]
    /\ step' = "next"

Return ==
    /\ step = "next" /\ Line = 0
    /\ Leave
    /\ UNCHANGED <<vault, entries, known, loaded, counts, stopped, cancel, refused>>

Full == Len(entries) > MaxEmbeds

\* Past the limit of embeds, or stopped below: this and every later embed stays a link.
Stop ==
    /\ AtEmbed("next") /\ (stopped \/ Full)
    /\ stopped' = TRUE
    /\ Leave
    /\ UNCHANGED <<vault, entries, known, loaded, counts, cancel, refused>>

MayEmbed == AtEmbed("next") /\ ~stopped /\ ~Full

TooDeep ==
    /\ MayEmbed /\ Depth >= MaxDepth
    /\ GoOn
    /\ UNCHANGED <<vault, entries, known, loaded, counts, stopped, cancel, refused>>

\* Find: each folder and name looked up once, at most MaxLookups of them. The file may be gone.
LookUp ==
    /\ MayEmbed /\ Depth < MaxDepth
    /\ Note = Unknown /\ lookups < MaxLookups
    /\ lookups' = lookups + 1
    /\ \E path \in {vault.resolve[Key], Nothing} : known' = [known EXCEPT ![Key] = path]
    /\ UNCHANGED <<vault, entries, stack, loaded, step, bytes, read, scanned, stopped, cancel, refused>>

\* No note, or one that is being embedded.
NoNote ==
    /\ MayEmbed /\ Depth < MaxDepth
    /\ \/ Note = Unknown /\ lookups >= MaxLookups
       \/ Note = Nothing
       \/ Note \in Paths /\ OnChain(Note)
    /\ refused' = IF Note \notin Paths /\ vault.resolve[Key] # Nothing THEN refused \union {Place} ELSE refused
    /\ GoOn
    /\ UNCHANGED <<vault, entries, known, loaded, counts, stopped, cancel>>

Found ==
    /\ MayEmbed /\ Depth < MaxDepth
    /\ Note \in Paths /\ ~OnChain(Note)
    /\ step' = "found"
    /\ UNCHANGED <<vault, entries, stack, known, loaded, counts, stopped, cancel, refused>>

Cancelled ==
    /\ AtEmbed("found") /\ cancel
    /\ stopped' = TRUE
    /\ Leave
    /\ UNCHANGED <<vault, entries, known, loaded, counts, cancel, refused>>

\* Load: a note is read once, within the bytes left for reading; its file may be gone.
Load ==
    /\ AtEmbed("found") /\ ~cancel
    /\ \/ /\ loaded[Note] = "untried"
          /\ SizeOf(Note) <= Min2(MaxBytes, Size(MaxReadBytes - read))
          /\ loaded' = [loaded EXCEPT ![Note] = "read"]
          /\ read' = read + SizeOf(Note)
       \/ /\ loaded[Note] = "untried"
          /\ loaded' = [loaded EXCEPT ![Note] = "failed"]
          /\ UNCHANGED read
       \/ /\ loaded[Note] # "untried"
          /\ UNCHANGED <<loaded, read>>
    /\ step' = "loaded"
    /\ UNCHANGED <<vault, entries, stack, known, bytes, scanned, lookups, stopped, cancel, refused>>

\* The same file under another path is on the chain; the document is known by its path only.
SameFile == \E n \in 2 .. Len(stack) : vault.file[stack[n].note] = vault.file[Note]

Unread ==
    /\ AtEmbed("loaded")
    /\ \/ loaded[Note] = "failed" /\ refused' = refused \union {Place}
       \/ loaded[Note] = "read" /\ SameFile /\ UNCHANGED refused
    /\ GoOn
    /\ UNCHANGED <<vault, entries, known, loaded, counts, stopped, cancel>>

Usable == AtEmbed("loaded") /\ loaded[Note] = "read" /\ ~SameFile

BytesLeft == Size(MaxBytes - bytes)

\* The note may be looked through for a section or block; a whole note may be copied.
Scannable ==
    IF Embed.anchor = Whole THEN SizeOf(Note) <= BytesLeft
    ELSE SizeOf(Note) <= Size(MaxScanBytes - scanned)

Scanned ==
    IF Embed.anchor # Whole /\ Scannable THEN scanned' = scanned + SizeOf(Note) ELSE UNCHANGED scanned

\* mutant: only the note was compared with the limit, not what it becomes
AnyText(text) == text # << >>

Fits(text) == text # << >> /\ Len(text) <= BytesLeft

TooLarge ==
    LET text == PartOf(Note, Embed.anchor) IN
    /\ Usable
    /\ ~Scannable \/ ~Fits(text)
    /\ Scanned
    /\ refused' = IF text = << >> THEN refused ELSE refused \union {Place}
    /\ GoOn
    /\ UNCHANGED <<vault, entries, known, loaded, bytes, read, lookups, stopped, cancel>>

\* The entry's number, which its footnotes' labels carry.
Child == Len(entries) + 1

Include ==
    LET text == PartOf(Note, Embed.anchor) IN
    /\ Usable
    /\ Scannable /\ Fits(text)
    /\ Scanned
    /\ bytes' = bytes + EntrySize(text)
    /\ entries' = Append([entries EXCEPT ![Top.entry].embeds = Append(@, <<Line, Child>>)],
                         [text |-> Begun(text), place |-> Place, embeds |-> << >>])
    /\ stack' = Append([stack EXCEPT ![Len(stack)].line = Line + 1],
                       [entry |-> Child, note |-> Note, line |-> 1])
    /\ step' = "next"
    /\ UNCHANGED <<vault, known, loaded, read, lookups, stopped, cancel, refused>>

\* Another thread cancels the build.
Cancel ==
    /\ ~cancel /\ step # "done"
    /\ cancel' = TRUE
    /\ UNCHANGED <<vault, entries, stack, known, loaded, step, counts, stopped, refused>>

Expand == \/ Return \/ Stop \/ TooDeep \/ LookUp \/ NoNote \/ Found
          \/ Cancelled \/ Load \/ Unread \/ TooLarge \/ Include

Next == Expand \/ Cancel

Spec == Init /\ [][Next]_vars

\* The descent is one thread's, which goes on; nobody has to cancel it.
FairSpec == Spec /\ WF_vars(Expand)

-----------------------------------------------------------------------------
(* Properties *)

TypeOK ==
    /\ vault \in Vaults
    /\ entries \in Seq([text : Texts, place : Seq(Nat), embeds : Seq(Nat \X Nat)])
    /\ stack \in Seq([entry : 1 .. Len(entries), note : Paths, line : Nat])
    /\ known \in [Folders \X Names -> Paths \union {Nothing, Unknown}]
    /\ loaded \in [Paths -> {"untried", "read", "failed"}]
    /\ step \in {"next", "found", "loaded", "done"}
    /\ {bytes, read, scanned, lookups} \subseteq Nat
    /\ {stopped, cancel} \subseteq BOOLEAN

\* Expand holds a view into an entry's text while deeper calls add entries: they never pass the
\* capacity Run reserves, so no entry moves.
EntriesStay == Len(entries) <= MaxEmbeds + 1

\* No note is brought in inside itself, under this name or another, and no embed is deeper than
\* MaxDepth: what ends the descent. The document's file counts by its own path only.
NoCycle ==
    /\ Len(stack) <= MaxDepth + 1
    /\ \A m, n \in 1 .. Len(stack) : m # n =>
        /\ stack[m].note # stack[n].note
        /\ m # 1 /\ n # 1 => vault.file[stack[m].note] # vault.file[stack[n].note]

\* The bytes embedded keep their limit as long as no text grew after it was compared with it: by a
\* footnote's label, or by the line before a rule. (Then bytes may pass the limit, what is left of it
\* wraps around, and no later embed is limited, although "an embed past a limit stays a link".)
Grew(text) ==
    \/ Grown(text) > 0
    \/ Len(text) > 1 /\ text[1].kind = "blank" /\ text[2].kind = "rule"

BytesKept == (\A e \in 2 .. Len(entries) : ~Grew(entries[e].text)) => bytes <= MaxBytes

\* The limits of what is looked up, read and looked through, which are counted down from: none may
\* wrap around.
WorkBounded == lookups <= MaxLookups /\ read <= MaxReadBytes /\ scanned <= MaxScanBytes

\* Every limit that is counted down from is kept: entries, bytes, and what is looked up, read and
\* looked through, in whatever order the notes bring one another in and whichever of them fail.
LimitsKept == EntriesStay /\ WorkBounded /\ BytesKept

\* The descent ends, whatever the notes name.
Ends == <>(step = "done")
=============================================================================
