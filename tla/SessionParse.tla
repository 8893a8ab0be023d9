---------------------------- MODULE SessionParse ----------------------------
(***************************************************************************)
(* The document level of the Markdown parse (markdown_parser_level.inc) and *)
(* a BuildSession's, which goes on from the last build's (session_parse.cpp *)
(* and the parse side of build_session.cpp).                               *)
(*                                                                         *)
(* A text is a sequence of symbols, "nl" a line feed. Of what a line may   *)
(* begin with the model has what makes the lines depend on each other:     *)
(*   tab    four columns of indentation    fence tilde  a code fence       *)
(*   item   a list item's marker           math         a line "$$"        *)
(*   under  a setext underline             open close   <div align=center> *)
(*   head   a heading's line                            and </div>         *)
(*   note   a footnote definition          <!-- -->     a comment          *)
(*   def1 def2  link definitions of one label, ref a reference to it       *)
(*   toc    "[TOC]"                                                        *)
(* and other symbols are words. Left out: blocks of one line that read     *)
(* nothing else (rules, page breaks, images), numbered items, quotes and   *)
(* tables (lines taken as a paragraph's are), front matters; what is       *)
(* inside an item, which is a function of the item's text.                 *)
(* Lines count from 1, offsets from 0.                                     *)
(***************************************************************************)
EXTENDS Integers, Sequences, FiniteSets, FiniteSetsExt, SequencesExt

(* What the ParseBudget of a text lets references copy in, in destinations *)
(* of kMaxReferenceDestinationBytes.                                       *)
CONSTANT ReferenceBudget(_)
ASSUME ReferenceBudgetAssumption == ReferenceBudget(<<>>) \in Nat

----------------------------------------------------------------------------
(* SplitLineViews: where the lines begin, and their symbols. The last one  *)
(* ends with the text.                                                     *)
Feeds(text) == SelectSeq([i \in DOMAIN text |-> i], LAMBDA i : text[i] = "nl")
LineStarts(text) == <<0>> \o Feeds(text)
LinesOf(text) ==
    LET starts == LineStarts(text)
        ends == Append(Feeds(text), Len(text) + 1)
    IN  [k \in DOMAIN starts |-> SubSeq(text, starts[k] + 1, ends[k] - 1)]

Indented(line) == line # <<>> /\ line[1] = "tab"      \* RemoveIndentLevel
Trimmed(line) == IF Indented(line) THEN Tail(line) ELSE line

(* ClassifyLine: a line's class by its first bytes.                        *)
KindOf(line) ==
    IF Trimmed(line) = <<>> THEN "Empty"
    ELSE LET first == Trimmed(line)[1]
         IN  CASE first \in {"fence", "tilde"} -> "Fence"
               [] first = "math" -> "MathOpen"
               [] first \in {"open", "close"} /\ ~Indented(line) -> "HtmlBlock"
               [] first = "<!--" -> "HtmlComment"
               [] first = "item" -> "Bullet"
               [] first = "head" -> "Heading"
               [] OTHER -> "Plain"

IsBlockStart(kind) == kind # "Plain"

(* IsMatchingClosingFence.                                                 *)
Closes(line, fence) == Trimmed(line) = <<fence>>

(* FindMathBlockClose: the line that closes the formula opened at `open`,  *)
(* 0 for none. An empty formula is none.                                   *)
MathClose(lines, kinds, open) ==
    LET stops == {k \in open + 1 .. Len(lines) :
                    kinds[k] \in {"Empty", "Fence"} \/ Trimmed(lines[k]) = <<"math">>}
        stop == Min(stops)
    IN  IF stops # {} /\ stop > open + 1 /\ Trimmed(lines[stop]) = <<"math">> THEN stop ELSE 0

(* ResolveMathOpeners from line `at`: openers without a closing line become *)
(* text. `walk` has the classes, the fence open ("" for none) and the lines *)
(* of the fences that opened or closed one; it ends at a line of `settled`  *)
(* with no fence open.                                                     *)
RECURSIVE ResolveMath(_, _, _, _)
ResolveMath(lines, walk, at, settled) ==
    IF at > Len(lines) \/ (at \in settled /\ walk.fence = "") THEN [walk EXCEPT !.end = at]
    ELSE
      LET kinds == [walk.kinds EXCEPT ![at] = KindOf(lines[at])]
          toggles == walk.fence = "" \/ Closes(lines[at], walk.fence)
          close == MathClose(lines, kinds, at)
      IN  IF kinds[at] = "Fence" THEN
            ResolveMath(lines,
                [walk EXCEPT !.kinds = kinds,
                    !.fence = CASE ~toggles -> @ [] @ = "" -> Trimmed(lines[at])[1] [] OTHER -> "",
                    !.fences = IF toggles THEN Append(@, at) ELSE @],
                at + 1, settled)
          ELSE IF walk.fence # "" \/ kinds[at] # "MathOpen" \/ Indented(lines[at]) THEN
            ResolveMath(lines, [walk EXCEPT !.kinds = kinds], at + 1, settled)
          ELSE IF close = 0 THEN
            ResolveMath(lines, [walk EXCEPT !.kinds = [kinds EXCEPT ![at] = "Plain"]], at + 1, settled)
          ELSE
            ResolveMath(lines,
                [walk EXCEPT !.kinds = [k \in DOMAIN kinds |->
                    IF k \in at .. close THEN KindOf(lines[k]) ELSE kinds[k]]],
                close + 1, settled)

(* ReadFootnoteDefinition: the line after the definition at `at` (its lazy *)
(* and its indented lines are its, and blank lines before an indented one).*)
RECURSIVE NoteEnd(_, _, _)
NoteEnd(lines, kinds, at) ==
    LET text == {k \in at .. Len(lines) : kinds[k] # "Empty"}
    IN  IF at > Len(lines) \/ text = {} THEN at
        ELSE IF Indented(lines[Min(text)]) THEN NoteEnd(lines, kinds, Min(text) + 1)
        ELSE IF kinds[at] = "Plain" /\ lines[at][1] # "note" THEN NoteEnd(lines, kinds, at + 1)
        ELSE at

IsDefinition(line) == line \in {<<"def1">>, <<"def2">>}
IsNote(line) == line # <<>> /\ line[1] = "note"

(* DefinitionsPass over lines at..end-1: the definitions found, in order,  *)
(* and the lines they take (1), or a footnote's (2); a footnote stops it   *)
(* when `notes` is "stop" and is passed over when it is "skip".            *)
RECURSIVE DefinitionsPass(_, _, _, _, _, _)
DefinitionsPass(lines, kinds, at, end, notes, pass) ==
    LET line == lines[at]
        next == NoteEnd(lines, kinds, at + 1)
    IN  IF at >= end \/ pass.stopped THEN pass
        ELSE IF kinds[at] = "Fence" THEN
          DefinitionsPass(lines, kinds, at + 1, end, notes,
            [pass EXCEPT !.fence = CASE @ = "" -> Trimmed(line)[1]
                                     [] @ # "" /\ Closes(line, @) -> ""
                                     [] OTHER -> @])
        ELSE IF pass.fence # "" \/ Indented(line) THEN
          DefinitionsPass(lines, kinds, at + 1, end, notes, pass)
        ELSE IF IsNote(line) /\ notes = "stop" THEN [pass EXCEPT !.stopped = TRUE]
        ELSE IF IsNote(line) /\ notes = "read" THEN
          DefinitionsPass(lines, kinds, next, end, notes,
            [pass EXCEPT !.notes = TRUE,
                !.taken = [k \in DOMAIN @ |-> IF k \in at .. next - 1 THEN 2 ELSE @[k]]])
        ELSE IF IsDefinition(line) THEN
          DefinitionsPass(lines, kinds, at + 1, end, notes,
            [pass EXCEPT !.found = Append(@, line[1]), !.taken[at] = 1])
        ELSE DefinitionsPass(lines, kinds, at + 1, end, notes, pass)

NoDefinitions(taken) ==
    [fence |-> "", found |-> <<>>, taken |-> taken, notes |-> FALSE, stopped |-> FALSE]

(* KeptText::pairs: "]:", which every definition has.                      *)
DefinitionSyntax(text) == \E i \in DOMAIN text : text[i] \in {"def1", "def2", "note"}

(* The first definition of the label counts.                               *)
Defined(found) == IF found = <<>> THEN "" ELSE found[1]

(* ClassifyWhole: the lines' classes, the fences that opened or closed one, *)
(* the lines taken by definitions (none without their syntax) and the link *)
(* definitions.                                                            *)
DefinitionsOf(text, lines, kinds) ==
    LET none == NoDefinitions([k \in DOMAIN lines |-> 0])
    IN  IF DefinitionSyntax(text)
        THEN DefinitionsPass(lines, kinds, 1, Len(lines) + 1, "read", none) ELSE none

Classes(text, lines, walk, pass) ==
    [ok |-> TRUE, lines |-> lines, kinds |-> walk.kinds, fences |-> walk.fences,
     taken |-> pass.taken, notes |-> pass.notes, definition |-> Defined(pass.found),
     known |-> FALSE, first |-> 1, end |-> Len(lines) + 1, budget |-> ReferenceBudget(text)]

ClassifyWhole(text) ==
    LET lines == LinesOf(text)
        raw == [k \in DOMAIN lines |-> KindOf(lines[k])]
        Defining(walk) == Classes(text, lines, walk, DefinitionsOf(text, lines, walk.kinds))
    IN  Defining(ResolveMath(lines, [kinds |-> raw, fence |-> "", fences |-> <<>>, end |-> 0], 1, {}))

----------------------------------------------------------------------------
(* One pass of the block loop, at line `at` of the parse p (its lines,     *)
(* kinds, the lines taken and the definition), with `depth` HTML elements  *)
(* open and `left` of the budget: the line after it, the blocks it makes,  *)
(* and what is open and left then.                                         *)

(* The trimmed lines from..to-1, with `mark` between them.                 *)
Joined(p, from, to, mark) ==
    FoldLeft(LAMBDA text, k : text \o (IF text = <<>> THEN <<>> ELSE <<mark>>) \o Trimmed(p.lines[k]),
             <<>>, [k \in 1 .. to - from |-> from + k - 1])

FirstOf(p, from, Test(_)) == Min({k \in from .. Len(p.lines) : Test(k)} \cup {Len(p.lines) + 1})

(* ResolveReferenceLinks: a reference becomes the destination while the    *)
(* budget has it.                                                          *)
Resolved(p, text, left) ==
    FoldLeft(LAMBDA done, symbol :
               IF symbol = "ref" /\ p.definition # "" /\ done.left > 0
               THEN [text |-> Append(done.text, p.definition), left |-> done.left - 1]
               ELSE [done EXCEPT !.text = Append(@, symbol)],
             [text |-> <<>>, left |-> left], text)

Block(type, text, align, line, end) ==
    [type |-> type, text |-> text, align |-> align, line |-> line, count |-> end - line]

Passed(next, blocks, depth, left) == [next |-> next, blocks |-> blocks, depth |-> depth, left |-> left]

OneBlock(type, done, at, next, depth) ==
    Passed(next, <<Block(type, done.text, depth > 0, at, next)>>, depth, done.left)

(* The lines of an indented code block, with the blank lines after it.     *)
CodePass(p, at, depth, left) ==
    LET next == FirstOf(p, at, LAMBDA k : ~Indented(p.lines[k]) /\ p.kinds[k] # "Empty")
        last == Max({k \in at .. next - 1 : p.kinds[k] # "Empty"})
    IN  OneBlock("Code", [text |-> Joined(p, at, last + 1, "nl"), left |-> left], at, next, depth)

FencePass(p, at, depth, left) ==
    LET close == FirstOf(p, at + 1, LAMBDA k : p.kinds[k] = "Fence" /\ Closes(p.lines[k], Trimmed(p.lines[at])[1]))
    IN  OneBlock("Code", [text |-> Joined(p, at + 1, close, "nl"), left |-> left], at,
                 Min({close, Len(p.lines)}) + 1, depth)

(* Up to the line with "-->", or to the end of the document; the text      *)
(* after it is shown.                                                      *)
CommentPass(p, at, depth, left) ==
    LET end == FirstOf(p, at, LAMBDA k : Contains(p.lines[k], "-->"))
        rest == IF end > Len(p.lines) THEN <<>>
                ELSE SubSeq(p.lines[end], SelectInSeq(p.lines[end], LAMBDA x : x = "-->") + 1, Len(p.lines[end]))
        next == end + 1
    IN  IF rest = <<>> THEN Passed(next, <<>>, depth, left)
        ELSE OneBlock("Paragraph", [text |-> rest, left |-> left], at, next, depth)

(* Html::MapBlockLines of <div align=center> and </div>, up to a blank     *)
(* line: the text between them is paragraphs, aligned by those open.       *)
HtmlPass(p, at, depth, left) ==
    LET next == FirstOf(p, at, LAMBDA k : p.kinds[k] = "Empty")
        Flush(done) ==
            IF done.text = <<>> THEN done
            ELSE [done EXCEPT !.text = <<>>,
                    !.blocks = Append(@, Block("Paragraph", done.text, done.depth > 0, at, next))]
        Read(done, symbol) ==
            CASE symbol = "open" -> [Flush(done) EXCEPT !.depth = @ + 1]
              [] symbol = "close" -> [Flush(done) EXCEPT !.depth = IF @ > 0 THEN @ - 1 ELSE 0]
              [] OTHER -> [done EXCEPT !.text = Append(@, symbol)]
        read == Flush(FoldLeft(Read, [text |-> <<>>, blocks |-> <<>>, depth |-> depth],
                               Joined(p, at, next, "sp")))
    IN  Passed(next, read.blocks, read.depth, left)

(* A list item takes the lines indented under it, blank ones between them, *)
(* and the lazy lines of its text; a definition in it leaves it.           *)
RECURSIVE ItemLines(_, _, _, _)
ItemLines(p, at, blank, text) ==
    LET line == p.lines[at]
        Add(more) == text \o (IF text = <<>> \/ Last(text) = "nl" THEN <<>> ELSE <<"nl">>) \o more
    IN  IF at > Len(p.lines) THEN [next |-> at, text |-> text]
        ELSE IF p.taken[at] # 0 THEN ItemLines(p, at + 1, blank, text)
        ELSE IF p.kinds[at] = "Empty" THEN ItemLines(p, at + 1, TRUE, text \o <<"nl", "nl">>)
        ELSE IF ~Indented(line) /\ (p.kinds[at] = "Bullet" \/ blank \/ IsBlockStart(p.kinds[at]))
        THEN [next |-> at, text |-> text]
        ELSE ItemLines(p, at + 1, FALSE, Add(Trimmed(line)))

ItemPass(p, at, depth, left) ==
    LET item == ItemLines(p, at + 1, FALSE, Tail(p.lines[at]))
        size == Max({n \in 1 .. Len(item.text) : item.text[n] # "nl"} \cup {0})
    IN  OneBlock("Bullet", Resolved(p, SubSeq(item.text, 1, size), left), at, item.next, depth)

ParagraphPass(p, at, depth, left) ==
    LET next == FirstOf(p, at + 1, LAMBDA k : p.taken[k] # 0 \/ IsBlockStart(p.kinds[k]))
    IN  OneBlock("Paragraph", Resolved(p, Joined(p, at, next, "sp"), left), at, next, depth)

IsUnderlined(p, at) ==
    /\ p.kinds[at] = "Plain"
    /\ at < Len(p.lines)
    /\ p.taken[at + 1] = 0
    /\ p.lines[at + 1] = <<"under">>

BlockPass(p, at, depth, left) ==
    LET kind == p.kinds[at]
        line == p.lines[at]
        mathClose == MathClose(p.lines, p.kinds, at)
    IN  IF p.taken[at] # 0 \/ kind = "Empty" THEN Passed(at + 1, <<>>, depth, left)
        ELSE IF IsUnderlined(p, at) THEN
          OneBlock("Heading", Resolved(p, Trimmed(line), left), at, at + 2, depth)
        ELSE IF Indented(line) THEN CodePass(p, at, depth, left)
        ELSE IF kind = "Fence" THEN FencePass(p, at, depth, left)
        ELSE IF kind = "MathOpen" /\ mathClose # 0 THEN
          OneBlock("MathBlock", [text |-> Joined(p, at + 1, mathClose, "nl"), left |-> left],
                   at, mathClose + 1, depth)
        ELSE IF kind = "Heading" THEN
          OneBlock("Heading", Resolved(p, Tail(line), left), at, at + 1, depth)
        ELSE IF kind = "HtmlComment" THEN CommentPass(p, at, depth, left)
        ELSE IF kind = "HtmlBlock" THEN HtmlPass(p, at, depth, left)
        ELSE IF kind = "Bullet" THEN ItemPass(p, at, depth, left)
        ELSE ParagraphPass(p, at, depth, left)

----------------------------------------------------------------------------
(* The block loop from line state.line on, each pass noted (ParsePass).    *)
StartAt(line, passes, left) ==
    [line |-> line, blocks |-> <<>>, depth |-> 0, left |-> left, resync |-> 0, passes |-> passes]

(* How a parse goes on from the passes of the last one, `last`: at a pass  *)
(* on a line of the unchanged end (from line go.suffix on, go.shift        *)
(* further on than it was) where the last parse began one too, no element  *)
(* open in either, the rest is that parse's (DocumentPass).                *)
Whole == [reuse |-> FALSE, from |-> 1, front |-> 0, suffix |-> 1, shift |-> 0, last |-> <<>>]

Resync(go, line, closed) ==
    IF go.reuse /\ line >= go.suffix /\ closed
    THEN LET found == {k \in go.from .. Len(go.last) :
                         go.last[k].line = line - go.shift /\ go.last[k].closed}
         IN  IF found = {} THEN 0 ELSE Min(found)
    ELSE 0

Noted(p, go, state, pass) ==
    [line |-> pass.next, blocks |-> state.blocks \o pass.blocks,
     depth |-> pass.depth, left |-> pass.left, resync |-> 0,
     passes |-> Append(state.passes,
         [line |-> state.line, blocks |-> go.front + Len(state.blocks),
          used |-> p.budget - state.left, closed |-> state.depth = 0])]

RECURSIVE BlockLoop(_, _, _)
BlockLoop(p, go, state) ==
    LET resync == Resync(go, state.line, state.depth = 0)
    IN  IF state.line > Len(p.lines) THEN state
        ELSE IF resync # 0 THEN [state EXCEPT !.resync = resync]
        ELSE BlockLoop(p, go, Noted(p, go, state, BlockPass(p, state.line, state.depth, state.left)))

(* A parse of a text on its own: its blocks, and what its record has.      *)
WholeParse(p, loop) ==
    [classes |-> p, blocks |-> loop.blocks, passes |-> loop.passes,
     used |-> p.budget - loop.left, left |-> loop.left]
WholeLoop(p) == BlockLoop(p, Whole, StartAt(1, <<>>, p.budget))
ParseLines(p) == WholeParse(p, WholeLoop(p))
ParseWhole(text) == ParseLines(ClassifyWhole(text))
=============================================================================
