--------------------------- MODULE SessionLayout ---------------------------
(***************************************************************************)
(* The layout of a BuildSession's build (SessionLayout, build_session.cpp, *)
(* and SessionAccess::Render, tiny_pdf.cpp): a block at a time, or in runs  *)
(* of blocks taken from the tape of the last build where both builds stand  *)
(* at the same height of a page.                                           *)
(*                                                                         *)
(* The layout itself is abstracted: a page of PageH lines, a line for each *)
(* of a block's, a heading with the room it keeps. Left out: images (never *)
(* replayed), numbered headings, page breaks, the glyphs and characters    *)
(* counted, where the copied bytes are (pieces, the PDF written in place). *)
(* Blocks, pages and marks count from 1.                                   *)
(***************************************************************************)
EXTENDS SessionBlocks, FiniteSets, FiniteSetsExt

CONSTANT PageH          \* the lines of a page
ASSUME PageHAssumption == PageH \in Nat \ {0}

KeepLines == 2          \* of what follows a heading

(* Ensure and a line drawn: where the line is and what is then left.       *)
PageAfter(at) == [page |-> at.page + 1, y |-> 0, contents |-> at.contents]
Ensure(at, lines) == IF at.y + lines > PageH THEN PageAfter(at) ELSE at
Drawn(at) == [at EXCEPT !.y = @ + 1]

(* HeadingKeep: the headings right after it and the room for what follows. *)
HeadingKeep(blocks, k) ==
    LET next == Min({n \in k + 1 .. Len(blocks) : blocks[n].type # "Heading"} \cup {Len(blocks) + 1})
    IN  (next - k - 1) + (IF next <= Len(blocks) THEN KeepLines ELSE 0)

(* PlaceContents: marker paragraphs become the table of contents, of which *)
(* the first is drawn.                                                     *)
PlaceContents(blocks) ==
    [k \in DOMAIN blocks |->
        IF IsMarker(blocks[k]) THEN [blocks[k] EXCEPT !.type = "Contents", !.text = <<>>] ELSE blocks[k]]
Headings(blocks) ==
    LET titles[k \in 0 .. Len(blocks)] ==
            IF k = 0 THEN <<>>
            ELSE IF blocks[k].type = "Heading" THEN Append(titles[k - 1], blocks[k].text)
            ELSE titles[k - 1]
    IN  titles[Len(blocks)]
ContentsOf(blocks) ==
    IF \E k \in DOMAIN blocks : blocks[k].type = "Contents" THEN Headings(blocks) ELSE <<>>

(* What the lines of a block show, and the room its first one asks for.    *)
Breaks(text) == Cardinality({i \in DOMAIN text : text[i] \in {"nl", "sp"}})
LinesDrawn(block, contents, at) ==
    CASE block.type = "Contents" -> IF at.contents THEN <<>> ELSE contents
      [] block.type = "Heading" -> <<block.text>>
      [] OTHER -> [n \in 1 .. Breaks(block.text) + 1 |-> <<block.type, block.text, block.align, n>>]

(* Where the renderer stands after each of some lines.                     *)
LinesPlaced(start, room, count) ==
    LET at[n \in 0 .. count] == IF n = 0 THEN start ELSE Drawn(Ensure(at[n - 1], room))
    IN  at

(* RenderBlockRange of one block: its lines, its entry in the source map    *)
(* and where the next one begins.                                          *)
RenderBlock(blocks, contents, k, start) ==
    LET block == blocks[k]
        room == 1 + (IF block.type = "Heading" THEN HeadingKeep(blocks, k) ELSE 0)
        shown == LinesDrawn(block, contents, start)
        at == LinesPlaced(start, room, Len(shown))
        Placed(n) == Ensure(at[n - 1], room)
        end == at[Len(shown)]
    IN  [lines |-> [n \in DOMAIN shown |->
                      [page |-> Placed(n).page, y |-> Placed(n).y, shows |-> shown[n]]],
         at |-> [end EXCEPT !.contents = @ \/ (block.type = "Contents" /\ contents # <<>>)],
         map |-> [line |-> block.line, end |-> block.line + block.count,
                  page |-> IF shown = <<>> THEN start.page ELSE Placed(1).page,
                  endPage |-> end.page]]

----------------------------------------------------------------------------
(* A tape (LayoutTape): the renderer's state before each block and after   *)
(* the last (marks), what each drew, and its place in the source map.      *)
NoTape == [renderer |-> "none"]
FirstMark == [page |-> 1, y |-> 0, contents |-> FALSE]

(* Begin: what this layout has of the last build's, `last`. `shifted` is   *)
(* the first block that stands for one further on or back.                 *)
SameBlock(a, b) == [a EXCEPT !.line = 0, !.count = 0] = [b EXCEPT !.line = 0, !.count = 0]

Same(l, k, old) ==
    /\ Kept(l.store, k, old) \/ SameBlock(l.store.blocks[k], Old(l.store, old))
    /\ l.store.blocks[k].type = "Contents" => l.contentsSame

Begin(store, last, renderer, contents) ==
    LET count == Len(store.blocks)
        usable == last.renderer = renderer /\ OldCount(store) = Len(last.drawn)
        l == [store |-> store, last |-> last, usable |-> usable, contents |-> contents,
              contentsSame |-> usable /\ contents = last.contents, shifted |-> count + 1]
        common == Min({count, OldCount(store)})
        known == IF store.spliced /\ l.contentsSame THEN Min({store.front, common}) ELSE 0
    IN  IF ~usable \/ count = OldCount(store) THEN l
        ELSE [l EXCEPT !.shifted = Min({k \in known + 1 .. common : ~Same(l, k, k)} \cup {common + 1})]

OldIndex(l, k) ==
    IF k < l.shifted THEN k ELSE k + OldCount(l.store) - Len(l.store.blocks)

(* RunFrom: the block after the run of equal ones from k.                  *)
RunFrom(l, k) ==
    LET stop == IF k < l.shifted THEN l.shifted ELSE Len(l.store.blocks) + 1
    IN  Min({e \in k .. stop - 1 : \/ OldIndex(l, e) \notin 1 .. OldCount(l.store)
                                   \/ ~Same(l, e, OldIndex(l, e))} \cup {stop})

\* A mutant for LayoutAsFresh: the run is taken whole.
TrimNothing(l, k, end) == end

(* The end of the run without the headings it ends with.                   *)
TrimHeadings(l, k, end) ==
    Max({k} \cup {e \in k + 1 .. end : l.store.blocks[e - 1].type # "Heading"})

(* Replayable: the block after the run that may be taken from the tape at   *)
(* k, where this layout stands at `at`. A heading's place depends on what  *)
(* follows it: a run ends with another block, or with both documents.      *)
Replayable(l, k, at) ==
    LET before == l.last.marks[OldIndex(l, k)]
        end == RunFrom(l, k)
        last == end - 1
        both == end = Len(l.store.blocks) + 1 /\ OldIndex(l, last) = OldCount(l.store)
    IN  IF ~l.usable \/ OldIndex(l, k) \notin 1 .. OldCount(l.store) THEN k
        ELSE IF before.y # at.y \/ before.contents # at.contents THEN k
        ELSE IF end = k \/ both THEN end
        ELSE TrimHeadings(l, k, end)

(* Replay of blocks k..end-1: what they drew, on this build's pages and    *)
(* with its lines in the source map.                                       *)
OnPage(l, run, at, page) == page + (at.page - l.last.marks[OldIndex(l, run)].page)

MovedMark(l, run, at, old) == [l.last.marks[old] EXCEPT !.page = OnPage(l, run, at, @)]

MovedLines(l, run, at, old) ==
    LET lines == l.last.drawn[old]
    IN  [i \in DOMAIN lines |-> [lines[i] EXCEPT !.page = OnPage(l, run, at, @)]]

MovedMap(l, run, at, k, old) ==
    LET entry == l.last.map[old]
        store == l.store
        own == store.blocks[k]
        before == store.spliced /\ k <= store.front /\ old = k
        after == /\ store.spliced /\ k > store.front + store.newWindow
                 /\ old + store.newWindow = k + store.oldWindow
        Line(of, its) == IF before THEN of ELSE IF after THEN of + store.lineShift ELSE its
    IN  [line |-> Line(entry.line, own.line), end |-> Line(entry.end, own.line + own.count),
         page |-> OnPage(l, run, at, entry.page), endPage |-> OnPage(l, run, at, entry.endPage)]

Replay(l, k, end, at, tape) ==
    LET Block(n) == k + n - 1
    IN  [tape |-> [tape EXCEPT
            !.drawn = @ \o [n \in 1 .. end - k |-> MovedLines(l, k, at, OldIndex(l, Block(n)))],
            !.map = @ \o [n \in 1 .. end - k |-> MovedMap(l, k, at, Block(n), OldIndex(l, Block(n)))],
            !.marks = @ \o [n \in 1 .. end - k - 1 |-> MovedMark(l, k, at, OldIndex(l, Block(n + 1)))]],
         at |-> MovedMark(l, k, at, OldIndex(l, end - 1) + 1)]

(* SessionAccess::Render, from block here.k on: a run of blocks from the    *)
(* tape, or one block.                                                     *)
Marked(here) == [here.tape EXCEPT !.marks = Append(@, here.at)]

Replayed(end, replay) == [k |-> end, at |-> replay.at, tape |-> replay.tape]
LaidOut(k, laid, tape) ==
    [k |-> k + 1, at |-> laid.at,
     tape |-> [tape EXCEPT !.drawn = Append(@, laid.lines), !.map = Append(@, laid.map)]]
Run(l, here, end) ==
    IF end > here.k THEN Replayed(end, Replay(l, here.k, end, here.at, Marked(here)))
    ELSE LaidOut(here.k, RenderBlock(l.store.blocks, l.contents, here.k, here.at), Marked(here))
Onward(l, here) ==
    IF here.k > Len(l.store.blocks) THEN here ELSE Run(l, here, Replayable(l, here.k, here.at))

(* Each step takes one block or more.                                      *)
Render(l, first) ==
    LET count == Len(l.store.blocks)
        laid[n \in 0 .. count] == IF n = 0 THEN first ELSE Onward(l, laid[n - 1])
    IN  Marked(laid[count])

FirstBlock(renderer, contents) ==
    [k |-> 1, at |-> FirstMark,
     tape |-> [renderer |-> renderer, contents |-> contents,
               marks |-> <<>>, drawn |-> <<>>, map |-> <<>>]]

LayOutFrom(store, last, renderer) ==
    LET contents == ContentsOf(store.blocks)
    IN  Render(Begin(store, last, renderer, contents), FirstBlock(renderer, contents))

(* The layout of these blocks without a session.                           *)
LayOutWhole(blocks, renderer) == LayOutFrom([NoBlocks EXCEPT !.blocks = blocks], NoTape, renderer)
=============================================================================
