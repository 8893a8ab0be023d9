---------------------------- MODULE SessionReuse ----------------------------
(***************************************************************************)
(* A BuildSession's parse, which goes on from the last committed parse's    *)
(* record: the change between the two texts (TextChange), the lines and     *)
(* their classes from the last parse's (ClassifyShifted), the block loop    *)
(* begun at one of its passes (ResumeLine) and left at another              *)
(* (DocumentPass), and its blocks put in place of those they stand for      *)
(* (EndDocumentParse).                                                      *)
(***************************************************************************)
EXTENDS SessionParse, SessionBlocks

----------------------------------------------------------------------------
(* The change from one text to another: FirstDifference and CommonEnd.     *)
Shorter(a, b) == Min({Len(a), Len(b)})
FirstDifference(a, b) ==
    Max({n \in 0 .. Shorter(a, b) : \A i \in 1 .. n : a[i] = b[i]})
CommonEnd(a, b, limit) ==
    Max({n \in 0 .. limit : \A i \in 0 .. n - 1 : a[Len(a) - i] = b[Len(b) - i]})

(* SessionText::Begin's, in place, and TextChange's, of a copy.            *)
ChangeOf(old, text) ==
    LET differs == FirstDifference(old, text)
    IN  [differs |-> differs,
         same |-> CommonEnd(old, text, Shorter(old, text) - differs)]
Equal(last, text, change) == change.differs = Len(text) /\ Len(last.text) = Len(text)

(* Whether fewer than three bytes are the same (a byte order mark may come *)
(* or go): a symbol but the line feed has three or more.                   *)
NearStart(text, differs) ==
    differs < 3 /\ \A i \in 1 .. differs : text[i] = "nl"

(* The line that holds offset `at`, and the first line after line k that   *)
(* begins at or past `at`.                                                 *)
LineAt(starts, at) == Max({k \in DOMAIN starts : starts[k] <= at} \cup {1})
FirstFrom(starts, k, at) ==
    Min({n \in k + 1 .. Len(starts) : starts[n] >= at} \cup {Len(starts) + 1})

(* The lines of `text` from the last parse's, and the classes they had: the *)
(* lines before the change and after it are the last text's, moved.        *)
ShiftLines(last, text, change, oldStarts, oldLines) ==
    LET delta == Len(text) - Len(last.text)
        front == LineAt(oldStarts, change.differs)
        end == FirstFrom(oldStarts, front, Len(last.text) - change.same + 1)
        Moved(k, by) == SubSeq(text, oldStarts[k] + by + 1, oldStarts[k] + by + Len(oldLines[k]))
        middleEnd == IF end <= Len(oldLines) THEN oldStarts[end] + delta - 1 ELSE Len(text)
        Around(middle) ==
            LET shift == front + Len(middle) - end
                count == Len(oldLines) + shift
            IN  [front |-> front, end |-> end, shift |-> shift, count |-> count, old |-> oldLines,
                 lines |-> [k \in 1 .. count |->
                    CASE k < front -> Moved(k, 0)
                      [] k \in front .. end + shift - 1 -> middle[k - front + 1]
                      [] OTHER -> Moved(k - shift, delta)],
                 kinds |-> [k \in 1 .. count |->
                    CASE k < front -> last.kinds[k]
                      [] k \in front .. end + shift - 1 -> KindOf(middle[k - front + 1])
                      [] OTHER -> last.kinds[k - shift]]]
    IN  Around(LinesOf(SubSeq(text, oldStarts[front] + 1, middleEnd)))

NotShifted == [ok |-> FALSE]

(* Where both passes run again: from a blank line before the change to one *)
(* after it at which neither text has a fence open.                        *)
FencesBefore(last, k) == SelectSeq(last.fences, LAMBDA fence : fence < k)
NoFenceAt(last, k) == last.kinds[k] = "Empty" /\ Len(FencesBefore(last, k)) % 2 = 0
Restart(last, front) == Max({k \in 1 .. front - 1 : NoFenceAt(last, k)} \cup {1})
Rewalk(last, s, restart) ==
    ResolveMath(s.lines,
        [kinds |-> s.kinds, fence |-> "",
         fences |-> IF restart = 1 THEN <<>> ELSE FencesBefore(last, restart), end |-> 0],
        restart, {k \in s.end + s.shift .. s.count : NoFenceAt(last, k - s.shift)})

(* The classes from the lines `s` and the walk over them again.            *)
(* `oldBytes`: the last text is still there.                               *)
Reclassified(last, text, oldBytes, s, restart, walk) ==
    LET settle == walk.end
        after == SelectSeq(last.fences, LAMBDA fence : settle <= s.count /\ fence >= settle - s.shift)
        cleared == [k \in 1 .. s.count |->
                      IF k < restart THEN last.taken[k]
                      ELSE IF k < settle THEN 0 ELSE last.taken[k - s.shift]]
        had == \E k \in restart .. settle - s.shift - 1 : last.taken[k] # 0
        oldPass == DefinitionsPass(s.old, last.kinds, restart, settle - s.shift, "skip",
                                   NoDefinitions(last.taken))
        With(taken) ==
            [ok |-> TRUE, lines |-> s.lines, kinds |-> walk.kinds,
             fences |-> walk.fences \o [k \in DOMAIN after |-> after[k] + s.shift],
             taken |-> taken, notes |-> FALSE, definition |-> last.definition,
             known |-> TRUE, first |-> restart, end |-> settle, budget |-> ReferenceBudget(text)]
        Defining(pass) ==
            IF pass.stopped \/ ((had \/ pass.found # <<>>) /\ (~oldBytes \/ pass.found # oldPass.found))
            THEN NotShifted ELSE With(pass.taken)
    IN  IF ~last.syntax THEN With(cleared)
        ELSE Defining(DefinitionsPass(s.lines, walk.kinds, restart, settle, "stop", NoDefinitions(cleared)))

(* ClassifyShifted: the classes of `text` from the last parse's, `last`.   *)
Unchanged(last, text, lines) ==
    [ok |-> TRUE, lines |-> lines, kinds |-> last.kinds, fences |-> last.fences,
     taken |-> last.taken, notes |-> FALSE, definition |-> last.definition,
     known |-> TRUE, first |-> Len(lines) + 1, end |-> Len(lines) + 1,
     budget |-> ReferenceBudget(text)]

ClassifyShifted(last, text, change, oldBytes) ==
    LET Walked(s, restart) == Reclassified(last, text, oldBytes, s, restart, Rewalk(last, s, restart))
        Shifted(s) == Walked(s, Restart(last, s.front))
    IN  IF last.notes \/ last.syntax # DefinitionSyntax(text) THEN NotShifted
        ELSE IF Equal(last, text, change) THEN Unchanged(last, text, LinesOf(text))
        ELSE IF NearStart(text, change.differs) THEN NotShifted
        ELSE Shifted(ShiftLines(last, text, change, LineStarts(last.text), LinesOf(last.text)))

----------------------------------------------------------------------------
(* TextChange: how the text `read` stands to the last parse's: compared    *)
(* with a copy, else told by the versions of the same kept text.           *)
Known(change) == change @@ [known |-> TRUE]
TextChange(last, read, kept) ==
    CASE last.kept = "own" -> Known(ChangeOf(last.text, read.text))
      [] last.kept # "own" /\ last.kept = read.kept /\ last.version = read.version ->
            Known([differs |-> Len(read.text), same |-> 0])
      [] last.kept # "own" /\ last.kept = read.kept /\ last.version # read.version
            /\ last.version = kept.base -> Known(ChangeOf(kept.old, kept.text))
      [] OTHER -> [known |-> FALSE, differs |-> 0, same |-> 0]

(* ClassifyInSession.                                                      *)
ClassifyInSession(last, read, change) ==
    LET oldBytes == last.kept = "own" \/ last.version = read.version
        OrWhole(shifted) == IF shifted.ok THEN shifted ELSE ClassifyWhole(read.text)
    IN  IF change.known /\ last.winAnsi = read.winAnsi
        THEN OrWhole(ClassifyShifted(last, read.text, change, oldBytes))
        ELSE ClassifyWhole(read.text)

(* ResumeLine: where the loop goes on from the last parse, and how.        *)
FromStart(p) == [go |-> Whole, start |-> StartAt(1, <<>>, p.budget)]

\* A mutant for SameAsWhole: inside an element, which is not open again.
MayResumeInside(last, pass) == last.kinds[pass.line] = "Empty"

(* The passes before one at a blank line read no further than that line.   *)
MayResume(last, pass) == pass.closed /\ last.kinds[pass.line] = "Empty"

ResumeLine(last, p, read, change) ==
    LET starts == LineStarts(read.text)
        count == Len(p.lines)
        shift == count - Len(last.kinds)
        equal == Equal(last, read.text, change)
        differs == IF equal THEN count + 1 ELSE LineAt(starts, change.differs)
        bytesSame == IF equal THEN count + 1
                     ELSE FirstFrom(starts, differs, Len(read.text) - change.same + 1)
        SameLine(k, old) == p.kinds[k] = last.kinds[old] /\ p.taken[k] = last.taken[old]
        \* The first line that may differ, and the first of those that are the last's.
        changed == Min({k \in (IF p.known THEN Min({p.first, differs}) ELSE 1) .. differs - 1 :
                          ~SameLine(k, k)} \cup {differs})
        stop == IF p.known THEN Max({Min({p.end, count + 1}), bytesSame}) ELSE count + 1
        suffix == Max({k + 1 : k \in {k \in bytesSame .. stop - 1 : ~SameLine(k, k - shift)}}
                      \cup {bytesSame, changed + 1})
        \* The last such pass before it, else the first.
        from == Max({n \in 2 .. Len(last.passes) :
                       last.passes[n].line < changed /\ MayResume(last, last.passes[n])} \cup {1})
        at == last.passes[from]
        Go(f, front) == [reuse |-> TRUE, from |-> f, front |-> front, suffix |-> suffix,
                         shift |-> shift, last |-> last.passes]
    IN  IF \/ ~change.known
           \/ last.winAnsi # read.winAnsi \/ last.syntax # DefinitionSyntax(read.text)
           \/ last.left < 1 \/ last.passes = <<>> \/ last.definition # p.definition
        THEN FromStart(p)
        ELSE IF bytesSame - shift \notin 1 .. Len(last.kinds) + 1 THEN FromStart(p)
        ELSE IF changed = count + 1 THEN
          [go |-> Go(Len(last.passes) + 1, last.blocks),
           start |-> StartAt(count + 1, last.passes, p.budget - last.used)]
        ELSE IF at.used > p.budget THEN FromStart(p)
        ELSE [go |-> Go(from, at.blocks),
              start |-> StartAt(at.line, SubSeq(last.passes, 1, from - 1), p.budget - at.used)]

----------------------------------------------------------------------------
NoRecord == [kept |-> "none"]
Record(read, p, passes, blocks, used, left) ==
    [kept |-> read.kept, version |-> read.version, text |-> read.text, winAnsi |-> read.winAnsi,
     kinds |-> p.kinds, taken |-> p.taken, fences |-> p.fences, notes |-> p.notes,
     definition |-> p.definition, syntax |-> DefinitionSyntax(read.text),
     passes |-> passes, blocks |-> blocks, used |-> used, left |-> left]

(* EndDocumentParse of a loop that read the whole text: its blocks are the  *)
(* session's. A record with notes or a marker is not kept.                 *)
EndWhole(store, read, p, loop) ==
    [failed |-> FALSE,
     store |-> [store EXCEPT !.displaced = store.blocks, !.blocks = loop.blocks, !.spliced = FALSE],
     notes |-> p.notes,
     pending |-> IF p.notes \/ MayHoldMarker(loop.blocks) THEN NoRecord
                 ELSE Record(read, p, loop.passes, Len(loop.blocks), p.budget - loop.left, loop.left)]

(* And of one that went on from the last parse: its blocks in place of the  *)
(* last build's front+1..oldEnd. It failed if a reference may have been    *)
(* refused.                                                                *)
EndReused(store, last, read, p, go, loop) ==
    LET resynced == loop.resync # 0
        resync == last.passes[loop.resync]
        used == p.budget - loop.left
        after == IF resynced THEN last.used - resync.used ELSE 0
        left == IF loop.left >= after THEN loop.left - after ELSE 0
        oldEnd == IF resynced THEN resync.blocks ELSE last.blocks
        oldWindow == oldEnd - go.front
        newWindow == Len(loop.blocks)
        spliced == SubSeq(store.blocks, 1, go.front) \o loop.blocks
                   \o SubSeq(store.blocks, oldEnd + 1, Len(store.blocks))
        Moved(pass) == [pass EXCEPT !.line = @ + go.shift, !.blocks = @ + newWindow - oldWindow,
                                    !.used = @ + used - resync.used]
        passes == IF ~resynced THEN loop.passes
                  ELSE loop.passes \o [k \in 1 .. Len(last.passes) - loop.resync + 1 |->
                                         Moved(last.passes[loop.resync + k - 1])]
    IN  [failed |-> left < 1,
         store |-> [store EXCEPT !.displaced = SubSeq(store.blocks, go.front + 1, oldEnd),
                      !.blocks = LinesMoved(spliced, go.front + newWindow, go.shift),
                      !.spliced = TRUE, !.front = go.front, !.oldWindow = oldWindow,
                      !.newWindow = newWindow, !.lineShift = go.shift],
         notes |-> p.notes,
         pending |-> IF p.notes \/ MayHoldMarker(loop.blocks) THEN NoRecord
                     ELSE Record(read, p, passes, Len(spliced), used + after, left)]

(* ParseInSession of the text `read` (`kept` what the session keeps of it), *)
(* `last` the record it may go on from.                                    *)
ParsedWhole(store, read, p) == EndWhole(store, read, p, WholeLoop(p))

GoOn(store, last, read, p, resume) ==
    LET OrWhole(reused) == IF reused.failed THEN ParsedWhole(store, read, ClassifyWhole(read.text)) ELSE reused
    IN  IF resume.go.reuse
        THEN OrWhole(EndReused(store, last, read, p, resume.go, BlockLoop(p, resume.go, resume.start)))
        ELSE ParsedWhole(store, read, p)

ParseInSession(before, last, read, kept) ==
    LET store == [UndoBlocks(before) EXCEPT !.parsed = TRUE, !.spliced = FALSE, !.displaced = <<>>]
        Classified(p, change) == GoOn(store, last, read, p, ResumeLine(last, p, read, change))
        Changed(change) == Classified(ClassifyInSession(last, read, change), change)
    IN  IF last.kept = "none" THEN ParsedWhole(store, read, ClassifyWhole(read.text))
        ELSE Changed(TextChange(last, read, kept))
=============================================================================
