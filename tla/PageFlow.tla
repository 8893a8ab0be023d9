------------------------------ MODULE PageFlow ------------------------------
(***************************************************************************)
(* The layout of a document on pages whose footnotes stand at their foot   *)
(* (tiny_pdf.cpp, the block loop, the tables and the page breaks;          *)
(* page_notes.cpp, PageNoteCore).  The notes are measured, the blocks are  *)
(* laid out one after the other, a block's steps (PageSteps) one after the *)
(* other, and the notes of a line take room at the foot of its page        *)
(* (PageNotes) before the line is drawn.                                   *)
(*                                                                         *)
(* r is the renderer: where it stands (y, the text's bottom, the margin    *)
(* beyond the page's own), the account of notes, and the content written,  *)
(* as the sequence of the things drawn with the page each is on.           *)
(***************************************************************************)
EXTENDS PageNotes, PageSteps

CONSTANTS
    Blocks,         \* what a document is made of
    NoteSets,       \* the notes it may have: note -> [tall, named, cuttable]
    MinBlocks, MaxBlocks,
    MaxPages        \* no document of these needs more pages

ASSUME BoundsAssumption == MinBlocks \in 1..MaxBlocks /\ MaxPages \in Nat

VARIABLES
    doc,            \* the blocks
    noteSet,
    phase,          \* "measure", "text", "end" (the notes after the text) or "done"
    at,             \* blocks begun
    open,           \* where the current block started, or Closed
    steps,          \* what it has left to do
    table,          \* the table it is in, or NoTable
    breakPending,   \* a page break block waits for the next block
    r,
    mapped          \* the source map: block -> where it stands

vars == <<doc, noteSet, phase, at, open, steps, table, breakPending, r, mapped>>

Closed == [content |-> -1]
NoTable == [rows |-> <<>>]
NoTextEnd == -1

-----------------------------------------------------------------------------
(* The page.                                                               *)

Page(p) == Len(p.starts)
Cap(p) == PageH - 2 * p.margin
Kept(p) == p.bottom - p.margin
Draw(p, thing, low) ==
    [p EXCEPT !.drawn = Append(@, thing @@ [page |-> Page(p), low |-> low,
                                             block |-> IF phase = "text" THEN at ELSE 0])]

SumTo(f, n) == FoldLeft(LAMBDA sum, x : sum + x, 0, SubSeq(f, 1, n))

\* The waiting notes go at the foot of the page that ends, below its text.
Paint(p) ==
    LET pending == p.notes.pending
        heights == [i \in DOMAIN pending |-> p.notes.height[pending[i]]]
        Foot(i) == [what |-> "note", of |-> pending[i], foot |-> TRUE, page |-> Page(p),
                    block |-> at, low |-> Kept(p) - Rule - SumTo(heights, i),
                    whole |-> heights[i] = noteSet[pending[i]].tall * NoteLine]
        painted == [p EXCEPT !.textEnds[Page(p)] = Len(p.drawn),
                             !.drawn = @ \o [i \in DOMAIN pending |-> Foot(i)],
                             !.notes.pending = <<>>]
    IN  [(IF pending = <<>> THEN p ELSE painted) EXCEPT !.bottom = p.margin]

NewPage(p) ==
    LET q == Paint(p)
    IN  [q EXCEPT !.starts = Append(@, Len(q.drawn)), !.textEnds = Append(@, NoTextEnd),
                  !.y = PageH - q.margin]
Ensure(p, need) == IF p.y - need < p.bottom THEN NewPage(p) ELSE p
RenderPageBreak(p) ==
    IF Len(p.drawn) = Last(p.starts) THEN p
    ELSE LET q == NewPage(p) IN [q EXCEPT !.forced = @ \cup {Page(q)}]

AddRefs(p, refs) == [p EXCEPT !.notes = AddLine(@, refs)]
PlaceUnder(p, need) ==
    LET room == p.y - need - p.bottom
    IN  [p EXCEPT !.bottom = @ + Taken(p.notes, room), !.notes = Place(@, room)]

\* What a line or a row asks: its need and the room of the notes it brings, which
\* are collected; none when it brings none.
Asked(p, refs, need) ==
    LET line == AddRefs(p, refs)
        collected == [line EXCEPT !.notes = Collect(@, Cap(p) - need)]
    IN  IF line.notes.line = <<>> THEN [p |-> line, notes |-> 0]
        ELSE [p |-> collected, notes |-> Need(collected.notes)]
Brings(p, refs) == AddRefs(p, refs).notes.line # <<>>

\* mutant: the notes are placed before the line finds its page.
ReserveBeforeBreak(p, refs, need) ==
    LET asked == Asked(p, refs, need)
    IN  Ensure(IF Brings(p, refs) THEN PlaceUnder(asked.p, need) ELSE asked.p, need + asked.notes)
Reserve(p, refs, need) ==
    LET asked == Asked(p, refs, need)
        q == Ensure(asked.p, need + asked.notes)
    IN  IF Brings(p, refs) THEN PlaceUnder(q, need) ELSE q
ReserveRow(p, refs, need) ==
    LET asked == Asked(p, refs, need)
        q == Ensure(asked.p, need + asked.notes)
    IN  IF asked.notes > 0 THEN PlaceUnder(q, need) ELSE q

Lay(p, step) ==
    LET q == Reserve(p, step.refs, step.need)
        low == q.y - step.height
        asks == step.need + Asked(p, step.refs, step.need).notes
    IN  [Draw(q, [what |-> step.what, refs |-> step.refs, asks |-> asks], low) EXCEPT !.y = low]

\* mutant: the margin goes back, and with it the room of the notes
RestoreMarginAlone(p, saved) == [p EXCEPT !.margin = saved, !.bottom = saved]

\* Margins: the bottom moves with the margin, the room the notes took stays.
Shift(p, inset) == [p EXCEPT !.margin = @ + inset, !.bottom = @ + inset]
RestoreMargin(p, saved) == [p EXCEPT !.margin = saved, !.bottom = saved + (@ - p.margin)]

After(p, step) ==
    CASE step.op = "room" -> Ensure(p, step.need)
      [] step.op = "line" -> Lay(p, step)
      [] step.op = "space" -> [p EXCEPT !.y = @ - step.n]
      [] step.op = "above" ->
           IF p.y < PageH - p.margin THEN [p EXCEPT !.y = @ - step.n] ELSE p
      [] step.op = "ink" -> Draw(p, [what |-> "ink", asks |-> 0, refs |-> <<>>], p.y)
      [] step.op = "indent" -> Shift(p, step.n)
      [] step.op = "restore" -> RestoreMargin(p, p.margin - step.n)
      [] step.op = "page end" -> RenderPageBreak(p)
      [] step.op = "note" ->
           Draw(p, [what |-> "note", of |-> step.note, foot |-> FALSE, whole |-> TRUE], p.y)

\* mutant: the page's notes taken for its text.
NoteSourceBlockByPage(start, p) ==
    LET moved == start.page < Page(p) /\ p.starts[start.page + 1] = start.content
    IN  [page |-> IF moved THEN start.page + 1 ELSE start.page,
         top |-> IF moved THEN PageH - p.margin ELSE start.y,
         start |-> start.content, endPage |-> Page(p)]

\* Where a block stands: one that drew nothing on the page it started on starts at
\* the top of the next; a page's text ends before its notes.
NoteSourceBlock(start, p) ==
    LET pageEnd == p.starts[start.page + 1]
        textEnd == IF p.textEnds[start.page] # NoTextEnd THEN p.textEnds[start.page] ELSE pageEnd
        moved == start.page < Page(p) /\ textEnd = start.content
    IN  [page |-> IF moved THEN start.page + 1 ELSE start.page,
         top |-> IF moved THEN PageH - p.margin ELSE start.y,
         start |-> start.content, endPage |-> Page(p)]

-----------------------------------------------------------------------------
(* Tables.  A row has cells, each the heights of its lines, and refs.      *)

Height(lines) == SumTo(lines, Len(lines))
RowHeight(row) ==
    Max({TableLine} \cup {Height(row.cells[c]) : c \in DOMAIN row.cells}) + 2 * Pad
Row == table.rows[table.row]
TooTall == RowHeight(Row) + Slack > Cap(r)
None(row) == [c \in DOMAIN row.cells |-> 0]
All(row) == [c \in DOMAIN row.cells |-> Len(row.cells[c])]

\* Lines from[c]+1 .. to[c] of each cell in a box of its own.
DrawRow(p, from, to, asks) ==
    LET boxes == {Height(SubSeq(Row.cells[c], from[c] + 1, to[c])) : c \in DOMAIN from}
        low == p.y - Max({0} \cup boxes) - 2 * Pad
        first == from = None(Row)
    IN  [Draw(p, [what |-> "row", row |-> table.row, from |-> from, to |-> to, asks |-> asks,
                  again |-> table.row = 1 /\ table.resume # 0,
                  refs |-> IF first THEN Row.refs ELSE <<>>], low) EXCEPT !.y = low]

InTable == table # NoTable /\ table.row <= Len(table.rows) /\ Page(r) <= MaxPages
\* mutant: the row after the one that moved.
NextRowAfter(t) ==
    [t EXCEPT !.row = (IF t.resume # 0 THEN t.resume ELSE @) + 1, !.resume = 0, !.next = <<>>,
              !.fresh = FALSE]
NextRow(t) ==
    IF t.resume # 0 THEN [t EXCEPT !.row = t.resume, !.resume = 0, !.next = <<>>, !.fresh = FALSE]
    ELSE [t EXCEPT !.row = @ + 1, !.next = <<>>, !.fresh = FALSE]

TableBegin ==
    /\ phase = "text" /\ table = NoTable /\ steps # <<>> /\ Head(steps).op = "table"
    /\ table' = [math |-> Head(steps).math, rows |-> Head(steps).rows, row |-> 1, header |-> 0,
                 resume |-> 0, next |-> <<>>, fresh |-> FALSE]
    /\ steps' = Tail(steps)
    /\ r' = [r EXCEPT !.y = @ - 1]
    /\ UNCHANGED <<doc, noteSet, phase, at, open, breakPending, mapped>>

TableKeeps == UNCHANGED <<doc, noteSet, phase, at, open, steps, breakPending, mapped>>

\* The header row keeps a line of the next row with it.
HeaderRow ==
    /\ InTable /\ ~TooTall /\ table.row = 1
    /\ LET height == RowHeight(Row)
           keep == height + Slack + (IF Len(table.rows) > 1 THEN TableLine + 2 * Pad ELSE 0)
           p == IF table.math THEN ReserveRow(r, Row.refs, keep) ELSE Ensure(r, keep)
       IN  /\ r' = DrawRow(p, None(Row), All(Row), keep)
           /\ table' = NextRow([table EXCEPT !.header = height])
    /\ TableKeeps

\* What a body row needs, and the renderer with its notes collected.
RowAsks == IF table.math THEN Asked(r, Row.refs, RowHeight(Row) + Slack)
           ELSE [p |-> r, notes |-> 0]
RowFits == r.y - RowHeight(Row) - Slack - RowAsks.notes >= r.bottom
\* mutant: the header repeated whatever the row's height.
RepeatsAlways == table.header > 0
RepeatsHeader == table.header > 0 /\ table.header + RowHeight(Row) + Slack <= Cap(r)

DrawBody(p) ==
    LET need == RowHeight(Row) + Slack
        q == IF RowAsks.notes > 0 THEN PlaceUnder(p, need) ELSE p
    IN  DrawRow(q, None(Row), All(Row), need)

BodyRow ==
    /\ InTable /\ ~TooTall /\ table.row > 1 /\ (RowFits \/ ~RepeatsHeader)
    /\ r' = DrawBody(IF RowFits THEN RowAsks.p ELSE NewPage(RowAsks.p))
    /\ table' = NextRow(table)
    /\ TableKeeps

\* A row that goes on to a new page comes after its header again.
RowMoves ==
    /\ InTable /\ ~TooTall /\ table.row > 1 /\ ~RowFits /\ RepeatsHeader
    /\ r' = NewPage(RowAsks.p)
    /\ table' = [table EXCEPT !.resume = table.row, !.row = 1]
    /\ TableKeeps

OneLine == TableLine + 2 * Pad + Slack
LeastSlice == Min({Row.cells[c][1] : c \in DOMAIN Row.cells}) + 2 * Pad + Slack

\* A row taller than a page with notes starts where a line of it and its notes fit.
TallRow ==
    /\ InTable /\ TooTall /\ table.next = <<>>
    /\ r' = IF table.math THEN ReserveRow(r, Row.refs, OneLine) ELSE r
    /\ table' = [table EXCEPT !.next = None(Row)]
    /\ TableKeeps

\* The lines of a cell from line n on that a room holds, at least one on a fresh page.
LinesIn(cell, n, room, fresh) ==
    LET held == {k \in n..Len(cell) : Height(SubSeq(cell, n + 1, k)) <= room}
    IN  Max(held \cup IF fresh /\ n < Len(cell) THEN {n + 1} ELSE {n})

MathSlice ==
    /\ InTable /\ table.math /\ table.next # <<>>
    /\ LET next == table.next
           room == r.y - r.bottom - Slack - 2 * Pad
           end == [c \in DOMAIN next |-> LinesIn(Row.cells[c], next[c], room, table.fresh)]
           p == DrawRow(r, next, end, LeastSlice)
       IN  CASE end = next -> r' = NewPage(r) /\ table' = [table EXCEPT !.fresh = TRUE]
             [] end # next /\ end # All(Row) ->
                    r' = NewPage(p) /\ table' = [table EXCEPT !.next = end, !.fresh = TRUE]
             [] end # next /\ end = All(Row) -> r' = p /\ table' = NextRow(table)
    /\ TableKeeps

\* Where a slice of plain lines starts, and how many lines it takes there.
Fitting(p) ==
    LET room == p.y - p.bottom - Slack - 2 * Pad
    IN  IF room >= TableLine THEN room \div TableLine ELSE 0
SlicePage(p, first) ==
    LET q == IF first > 0 THEN NewPage(p) ELSE p
    IN  IF Fitting(q) = 0 THEN NewPage(q) ELSE q
TallTableRowSlice(p, first, count) ==
    Min({Max({1, Fitting(SlicePage(p, first))}), count - first})

PlainSlice ==
    /\ InTable /\ ~table.math /\ table.next # <<>>
    /\ LET first == Max(ToSet(table.next))
           count == Max(ToSet(All(Row)))
           fit == TallTableRowSlice(r, first, count)
           end == [c \in DOMAIN table.next |-> Min({Len(Row.cells[c]), first + fit})]
       IN  /\ r' = DrawRow(SlicePage(r, first), table.next, end, LeastSlice)
           /\ table' = IF first + fit = count THEN NextRow(table) ELSE [table EXCEPT !.next = end]
    /\ TableKeeps

TableEnd ==
    /\ phase = "text" /\ table # NoTable /\ table.row > Len(table.rows)
    /\ r' = [r EXCEPT !.y = @ - 2]
    /\ table' = NoTable
    /\ TableKeeps

-----------------------------------------------------------------------------
(* The document.                                                           *)

\* A note's layout stops half a page below where it is too tall, when no block of
\* it after the first paragraph refers to a note.
CutAt == PageH - LineH - Rule + PageH \div 2
MeasuredHeight(note) ==
    IF note.cuttable /\ note.tall * NoteLine > CutAt THEN (CutAt \div NoteLine + 1) * NoteLine
    ELSE note.tall * NoteLine

Measure ==
    /\ phase = "measure"
    /\ LET heights == [n \in Notes |-> MeasuredHeight(noteSet[n])]
           refs == [n \in Notes |-> EdgesOf(n, noteSet[n].named)]
       IN  r' = [r EXCEPT !.notes = Settle(Account(heights, refs), PageH - LineH)]
    /\ phase' = "text"
    /\ UNCHANGED <<doc, noteSet, at, open, steps, table, breakPending, mapped>>

PageBreakBlock ==
    /\ phase = "text" /\ open = Closed /\ at < Len(doc) /\ doc[at + 1].kind = "page break"
    /\ at' = at + 1
    /\ breakPending' = TRUE
    /\ mapped' = Append(mapped, Closed)
    /\ UNCHANGED <<doc, noteSet, phase, open, steps, table, r>>

BeginBlock ==
    /\ phase = "text" /\ open = Closed /\ at < Len(doc) /\ doc[at + 1].kind # "page break"
    /\ at' = at + 1
    /\ LET p == IF breakPending THEN RenderPageBreak(r) ELSE r
       IN  r' = p /\ open' = [page |-> Page(p), y |-> p.y, content |-> Len(p.drawn)]
    /\ breakPending' = FALSE
    /\ steps' = StepsOf(doc[at + 1], SubSeq(doc, at + 2, Len(doc)))
    /\ UNCHANGED <<doc, noteSet, phase, table, mapped>>

Step ==
    /\ table = NoTable /\ steps # <<>> /\ Head(steps).op # "table" /\ Page(r) <= MaxPages
    /\ r' = After(r, Head(steps))
    /\ steps' = Tail(steps)
    /\ UNCHANGED <<doc, noteSet, phase, at, open, table, breakPending, mapped>>

EndBlock ==
    /\ phase = "text" /\ open # Closed /\ table = NoTable /\ steps = <<>>
    /\ mapped' = Append(mapped, NoteSourceBlock(open, r))
    /\ open' = Closed
    /\ UNCHANGED <<doc, noteSet, phase, at, steps, table, breakPending, r>>

\* The notes that did not find a place are set after the text.
EndText ==
    /\ phase = "text" /\ open = Closed /\ at = Len(doc)
    /\ LET settled == SettleRest(r.notes)
           ends == SelectSeq([n \in Notes |-> n], LAMBDA n : settled.state[n] = "end")
       IN  /\ r' = [r EXCEPT !.notes = settled]
           /\ steps' = IF ends = <<>> THEN <<>>
                       ELSE RenderFootnoteSection(ends, [n \in Notes |-> noteSet[n].tall])
    /\ phase' = "end"
    /\ UNCHANGED <<doc, noteSet, at, open, table, breakPending, mapped>>

Finish ==
    /\ phase = "end" /\ steps = <<>>
    /\ r' = Paint(r)
    /\ phase' = "done"
    /\ UNCHANGED <<doc, noteSet, at, open, steps, table, breakPending, mapped>>

Ended == phase = "done" /\ UNCHANGED vars

\* The notes the lines of a document refer to, in order; the notes are numbered in
\* the order the text first refers to them.
RefsIn(blocks) ==
    LET Of(step) == CASE step.op = "line" -> step.refs
                      [] step.op = "table" ->
                            FlattenSeq([i \in DOMAIN step.rows |-> step.rows[i].refs])
                      [] OTHER -> <<>>
        all == RenderBlocks(blocks)
    IN  FlattenSeq([i \in DOMAIN all |-> Of(all[i])])
Numbered(refs) ==
    \A i \in DOMAIN refs :
        LET before == {refs[j] : j \in 1..(i - 1)}
        IN  refs[i] \in before \/ \A m \in before : refs[i] > m

Init ==
    /\ doc \in UNION {[1..n -> Blocks] : n \in MinBlocks..MaxBlocks}
    /\ Numbered(RefsIn(doc))
    /\ noteSet \in NoteSets
    /\ phase = "measure" /\ at = 0 /\ open = Closed /\ steps = <<>> /\ table = NoTable
    /\ breakPending = FALSE /\ mapped = <<>>
    /\ r = [y |-> PageH, bottom |-> 0, margin |-> 0, notes |-> Account([n \in Notes |-> 0],
            [n \in Notes |-> <<>>]), starts |-> <<0>>, textEnds |-> <<NoTextEnd>>,
            forced |-> {}, drawn |-> <<>>]

Next ==
    \/ Measure \/ PageBreakBlock \/ BeginBlock \/ Step \/ EndBlock \/ EndText \/ Finish
    \/ TableBegin \/ HeaderRow \/ BodyRow \/ RowMoves \/ TallRow \/ MathSlice \/ PlainSlice
    \/ TableEnd \/ Ended

Spec == Init /\ [][Next]_vars

-----------------------------------------------------------------------------
(* Properties.                                                             *)

Text == SelectSeq(r.drawn, LAMBDA d : d.what # "note")
IsFoot(d) == d.what = "note" /\ d.foot

\* The layout of every document ends: it never takes pages without end (the loops
\* over a table's rows and slices).
LayoutEnds == Page(r) <= MaxPages

\* A note is set at most once, at a foot or after the text, and at the end every
\* note is: whole, never what a measuring layout cut short left of it (Measure,
\* Paint, RenderFootnoteSection).
NotesOnce ==
    /\ \A n \in Notes :
        LET of == SelectSeq(r.drawn, LAMBDA d : d.what = "note" /\ d.of = n)
        IN  Len(of) <= 1 /\ (phase = "done" => Len(of) = 1)
    /\ \A i \in DOMAIN r.drawn : r.drawn[i].what = "note" => r.drawn[i].whole

\* A note at the foot of a page is on the page of the text's first reference to it;
\* one only notes refer to is on the page of a note that refers to it (Reserve,
\* Collect, Place). The exception is a row cut into slices whose cells all begin with a
\* formula taller than a line: its notes take their room with a plain line's, and
\* where the formula then does not fit they are on the page before the row (TallRow,
\* MathSlice; README, remarks).
TableRows(b) ==
    LET table1 == IF doc[b].kind = "table" THEN doc[b]
                  ELSE doc[b].children[SelectInSeq(doc[b].children, LAMBDA c : c.kind = "table")]
    IN  table1.rows
BeginsTall(row) == \A c \in DOMAIN row.cells : row.cells[c][1] > TableLine
RowAfter(t, d) ==
    /\ t.what = "row" /\ t.page = d.page + 1
    /\ LET row == TableRows(t.block)[t.row] IN t.to # All(row) /\ BeginsTall(row)
RowToCome(d) ==
    /\ table # NoTable /\ table.next # <<>> /\ table.fresh
    /\ table.next = None(Row) /\ d.of \in ToSet(Row.refs) /\ BeginsTall(Row)
    /\ Page(r) = d.page + 1

NotesWithReference ==
    \A i \in DOMAIN r.drawn :
        LET d == r.drawn[i]
            first == SelectInSeq(Text, LAMBDA t : d.of \in ToSet(t.refs))
        IN  IsFoot(d) =>
                IF Body(d.of)
                THEN \/ first # 0 /\ (Text[first].page = d.page \/ RowAfter(Text[first], d))
                     \/ first = 0 /\ RowToCome(d)
                ELSE \E j \in 1..(i - 1) :
                        /\ IsFoot(r.drawn[j]) /\ r.drawn[j].page = d.page
                        /\ d.of \in ToSet(r.notes.refs[r.drawn[j].of])

\* No note is lost, doubled, cut short, or set away from what refers to it, however the
\* lines and notes of other blocks filled the pages before.
NotesPlaced == NotesOnce /\ NotesWithReference

\* The room kept at the foot of the page is what the waiting notes take, the text of
\* the page stands above it, and notes are painted within the page, whatever margins
\* nested blocks moved and put back meanwhile; between blocks the margin is the page's
\* own (Indent, RestoreMargin, Place, Paint).
FootClear ==
    LET pending == r.notes.pending
        heights == [i \in DOMAIN pending |-> r.notes.height[pending[i]]]
    IN  /\ Kept(r) = Height(heights) + (IF pending = <<>> THEN 0 ELSE Rule)
        /\ \A i \in DOMAIN r.drawn :
            LET d == r.drawn[i]
            IN  /\ d.page = Page(r) /\ ~IsFoot(d) => d.low >= Kept(r)
                /\ d.low >= 0
        /\ open = Closed => r.margin = 0

\* The rows of a table are drawn in order, each once, one cut into slices without a
\* line lost or twice; a header drawn again opens a page, and the row that moved
\* follows it there (RenderTable, RenderMathTable, TallTableRowSlice).
RowsOf(b) == SelectSeq(r.drawn, LAMBDA d : d.what = "row" /\ d.block = b)
RowsWhole ==
    \A b \in 1..at :
        LET shown == RowsOf(b)
            rows == TableRows(b)
            once == SelectSeq(shown, LAMBDA d : ~d.again)
            Follows(d, e) == \/ e.row = d.row /\ e.from = d.to /\ e.to # d.to
                             \/ /\ e.row = d.row + 1 /\ d.to = All(rows[d.row])
                                /\ e.from = None(rows[e.row])
        IN  shown # <<>> =>
            /\ once[1].row = 1 /\ once[1].from = None(rows[1])
            /\ \A i \in 1..(Len(once) - 1) : Follows(once[i], once[i + 1])
            /\ Len(mapped) >= b => LET last == Last(once)
                                   IN  last.row = Len(rows) /\ last.to = All(rows[last.row])
            /\ \A i \in DOMAIN shown : shown[i].again =>
                /\ i > 1 /\ shown[i - 1].page < shown[i].page
                /\ i < Len(shown) => shown[i + 1].page = shown[i].page
                                     /\ shown[i + 1].row > shown[i - 1].row

\* A header row drawn again on a new page has the row that moved there under it.
HeaderHasItsRow ==
    \A b \in 1..at :
        LET shown == RowsOf(b)
        IN  \A i \in 1..(Len(shown) - 1) :
                shown[i].again => shown[i + 1].page = shown[i].page

\* The source map says of every block the page of the first thing it drew, also when
\* the page break before it painted notes (NoteSourceBlock).
SourceMapTrue ==
    \A b \in DOMAIN mapped : mapped[b] # Closed =>
        LET drew == SelectSeq(r.drawn, LAMBDA d : d.what # "note" /\ d.block = b)
        IN  drew # <<>> => mapped[b].page = drew[1].page

\* A heading of one line leaves its page without what follows only when that asks
\* for more than two lines or brings notes, when it brought notes itself, at a page
\* break or at the end of the text (HeadingKeep, RenderHeading).
HeadingLeads ==
    \A i \in 1..(Len(Text) - 1) :
        /\ Text[i].what = "heading" /\ Text[i].refs = <<>> /\ Text[i + 1].block # 0
        /\ Text[i + 1].page > Text[i].page /\ Text[i + 1].page \notin r.forced
        => Text[i + 1].asks > 2 * LineH
=============================================================================
