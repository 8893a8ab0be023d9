------------------------------ MODULE PageSteps ------------------------------
(***************************************************************************)
(* What the paint functions of a block ask of the page (tiny_pdf.cpp, the  *)
(* standard renderer), as the sequence of their steps in order: room they  *)
(* ensure, lines they draw, space they leave, margins they move.  Heights  *)
(* are in units of five points, rounded; widths, fonts and colours are     *)
(* left out.  A line of text is [extra, refs]: what its tallest formula    *)
(* needs beyond the line box, and the notes it refers to.                  *)
(***************************************************************************)
EXTENDS Integers, SequencesExt

CONSTANT PageH      \* fullH - margin * 2 at the page's own margin

LineH == 3          \* bodySize * 1.35
NoteLine == 2       \* a line of a note, at 0.85 of the body size and rounded down
TableLine == 3      \* a line of a table cell
Pad == 1            \* a cell's padding
Slack == 1          \* what a row leaves below it
RuleRoom == 4       \* the rule above the notes and the space around it
HeadSize(level) == IF level <= 2 THEN 7 ELSE 4
HeadBelow(level) == IF level <= 2 THEN 2 ELSE 1
HeadAbove == 2

Room(need) == [op |-> "room", need |-> need]
Line(need, height, refs, what) ==
    [op |-> "line", need |-> need, height |-> height, refs |-> refs, what |-> what]
Space(n) == [op |-> "space", n |-> n]
Above(n) == [op |-> "above", n |-> n]      \* only below the top of a page
Ink == [op |-> "ink"]                      \* drawn where the page stands
Indent(n) == [op |-> "indent", n |-> n]
Restore(n) == [op |-> "restore", n |-> n]
PageEnd == [op |-> "page end"]
NoteAt(n) == [op |-> "note", note |-> n]
Table(block) == [op |-> "table", math |-> block.math, rows |-> block.rows]

Plain(h) == Line(h, h, <<>>, "line")
Repeated(n, step) == [i \in 1..n |-> step]

\* Lines of a paragraph or, in the quote's strip, of a quote.
RenderMathLines(lines, strip) ==
    [i \in DOMAIN lines |->
        Line(LineH + lines[i].extra + strip, LineH + lines[i].extra, lines[i].refs, "line")]
RenderParagraph(lines) == RenderMathLines(lines, 0) \o <<Space(1)>>
RenderQuote(lines) == RenderMathLines(lines, 1) \o <<Space(1)>>

\* A heading's lines; a heading of one line outside a quote is noted as such.
RenderMathTextLines(lines, size, strip) ==
    [i \in DOMAIN lines |->
        Line(size + lines[i].extra + strip, size + lines[i].extra, lines[i].refs,
             IF Len(lines) = 1 /\ strip = 0 THEN "heading" ELSE "line")]

\* mutant: without the headings that follow.
HeadingKeepAlone(block, next) == HeadBelow(block.level) + 2 * LineH

\* The room a heading keeps under its first line for what follows it: the headings
\* right after it and two lines of the block after them.
HeadingKeep(block, next) ==
    LET Follows(b) == b.kind \in {"heading", "anchor"}
        rest == SelectInSeq(next, LAMBDA b : ~Follows(b))
        run == SelectSeq(IF rest = 0 THEN next ELSE SubSeq(next, 1, rest - 1),
                         LAMBDA b : b.kind = "heading")
        Sum(keep, b) == IF keep > PageH THEN keep
                        ELSE keep + HeadAbove + HeadBelow(b.level) + HeadSize(b.level)
        keep == FoldLeft(Sum, HeadBelow(block.level), run)
    IN  IF keep <= PageH /\ rest # 0 /\ next[rest].kind # "page break"
        THEN keep + 2 * LineH ELSE keep
RenderHeading(block, keep) ==
    <<Above(HeadAbove), Room(HeadSize(block.level) + keep)>>
    \o RenderMathTextLines(block.lines, HeadSize(block.level), 0)
    \o <<Space(HeadBelow(block.level))>>
RenderQuoteHeading(block) == RenderMathTextLines(block.lines, LineH + 1, 1) \o <<Space(1)>>

\* Lines of code, each with its tile; a formula's source as code.
RenderCode(n) == Repeated(n, Line(LineH + 1, LineH, <<>>, "line")) \o <<Space(2)>>
RenderMathSource(n) == Repeated(n, Line(LineH + 2, LineH, <<>>, "line")) \o <<Ink, Space(2)>>

\* An image of a height, or the lines of a row of images; what cannot be shown is
\* a paragraph of its alternative text.
RenderImage(block) ==
    IF block.shown THEN <<Plain(block.height + 2)>> ELSE RenderParagraph(block.lines)
RenderImageRow(block) ==
    IF ~block.shown THEN RenderParagraph(block.lines)
    ELSE [i \in DOMAIN block.talls |->
            Line(block.talls[i] + 2, block.talls[i] + (IF i = Len(block.talls) THEN 2 ELSE 1),
                 <<>>, "line")]

\* A formula of its own, or its source when it does not fit the page.
RenderDisplayMath(block, strip) ==
    IF block.fits THEN <<Line(block.height, block.height, <<>>, "line"), Space(1 + strip)>>
    ELSE IF strip = 1 THEN <<Indent(3)>> \o RenderMathSource(block.n) \o <<Restore(3)>>
    ELSE RenderMathSource(block.n)

RenderRule == <<Room(4), Space(1), Ink, Space(3)>>

RenderContents(n) ==
    <<Above(2), Room(HeadSize(1) + 2 * LineH), Plain(HeadSize(1)), Space(2)>>
    \o Repeated(n, Plain(LineH)) \o <<Space(1)>>

RECURSIVE RenderQuoteChildren(_)
RenderQuoteChildren(children) ==
    LET Steps(b) ==
            CASE b.kind = "paragraph" -> RenderQuote(b.lines)
              [] b.kind = "heading" -> RenderQuoteHeading(b)
              [] b.kind \in {"bullet", "numbered"} ->
                   RenderQuote(b.lines) \o <<Indent(3)>> \o RenderQuoteChildren(b.children)
                   \o <<Restore(3)>>
              [] b.kind = "quote" ->
                   <<Indent(2)>> \o RenderQuoteChildren(b.children) \o <<Restore(2)>>
              [] b.kind = "formula" -> RenderDisplayMath(b, 1)
              [] b.kind = "code" -> <<Indent(3)>> \o RenderCode(b.n) \o <<Restore(3)>>
              [] b.kind = "rule" -> <<Indent(3)>> \o RenderRule \o <<Restore(3)>>
              [] b.kind = "image" -> <<Indent(3)>> \o RenderImage(b) \o <<Restore(3)>>
              [] b.kind = "table" -> <<Indent(3), Table(b), Restore(3)>>
              [] b.kind = "page break" -> <<PageEnd>>
              [] b.kind \in {"contents", "anchor"} -> <<>>
    IN  FlattenSeq([i \in DOMAIN children |-> Steps(children[i])])

\* An alert's title keeps the first line after it on its page.
RenderAlert(block) ==
    <<Room(2 * LineH), Line(0, LineH, <<>>, "line")>> \o RenderQuoteChildren(block.children)

\* The steps of a block before the blocks `next`, and of blocks nested in it.
RECURSIVE StepsOf(_, _)
RenderBlocks(blocks) ==
    LET Breaks(i) == i > 1 /\ blocks[i - 1].kind = "page break"
    IN  FlattenSeq([i \in DOMAIN blocks |->
            (IF Breaks(i) THEN <<PageEnd>> ELSE <<>>)
            \o StepsOf(blocks[i], SubSeq(blocks, i + 1, Len(blocks)))])
RenderIndentedBlocks(children) ==
    IF children = <<>> THEN <<>> ELSE <<Indent(3)>> \o RenderBlocks(children) \o <<Restore(3)>>

\* A bullet or a checkbox is drawn before the item's first line has found its page.
RenderBullet(block) ==
    <<Room(LineH), Ink>> \o RenderParagraph(block.lines) \o RenderIndentedBlocks(block.children)
RenderNumbered(block) ==
    RenderParagraph(block.lines) \o RenderIndentedBlocks(block.children)

StepsOf(block, next) ==
    CASE block.kind = "paragraph" -> RenderParagraph(block.lines)
      [] block.kind = "heading" -> RenderHeading(block, HeadingKeep(block, next))
      [] block.kind = "bullet" -> RenderBullet(block)
      [] block.kind = "numbered" -> RenderNumbered(block)
      [] block.kind = "quote" -> RenderQuoteChildren(block.children)
      [] block.kind = "alert" -> RenderAlert(block)
      [] block.kind = "code" -> RenderCode(block.n)
      [] block.kind = "formula" -> RenderDisplayMath(block, 0)
      [] block.kind = "table" -> <<Table(block)>>
      [] block.kind = "rule" -> RenderRule
      [] block.kind = "image" -> RenderImage(block)
      [] block.kind = "images" -> RenderImageRow(block)
      [] block.kind = "contents" -> RenderContents(block.n)
      [] block.kind \in {"anchor", "page break"} -> <<>>

\* The notes set after the text: a rule, then each note, its mark and its lines.
RenderFootnoteSection(notes, tall) ==
    <<Room(2 * LineH + RuleRoom), Space(2), Ink, Space(2)>>
    \o FlattenSeq([i \in DOMAIN notes |->
        <<Room(NoteLine), NoteAt(notes[i])>> \o Repeated(tall[notes[i]], Plain(NoteLine))])
=============================================================================
