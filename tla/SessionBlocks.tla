---------------------------- MODULE SessionBlocks ----------------------------
(***************************************************************************)
(* The blocks a BuildSession keeps from build to build (SessionBlocks,     *)
(* build_session.h): the last build's, and, while a build's parse is       *)
(* neither committed nor undone, what that parse took out of them.         *)
(* Blocks count from 1.                                                    *)
(***************************************************************************)
EXTENDS Integers, Sequences

Blocks == [type : STRING, text : Seq(STRING), align : BOOLEAN, line : Int, count : Int]

NoBlocks == [blocks |-> <<>>, displaced |-> <<>>, parsed |-> FALSE, spliced |-> FALSE,
             front |-> 0, oldWindow |-> 0, newWindow |-> 0, lineShift |-> 0]

(* The last build's block k, whether block k is its block `old` itself, and *)
(* how many it had.                                                        *)
Old(store, k) ==
    IF ~store.spliced THEN store.displaced[k]
    ELSE IF k <= store.front THEN store.blocks[k]
    ELSE IF k <= store.front + store.oldWindow THEN store.displaced[k - store.front]
    ELSE store.blocks[k - store.oldWindow + store.newWindow]

Kept(store, k, old) ==
    /\ store.spliced
    /\ \/ k <= store.front /\ old = k
       \/ k > store.front + store.newWindow /\ old + store.newWindow = k + store.oldWindow

OldCount(store) ==
    IF store.spliced THEN Len(store.blocks) - store.newWindow + store.oldWindow
    ELSE Len(store.displaced)

(* Blocks after the first `after`, moved by some lines.                    *)
LinesMoved(blocks, after, by) ==
    [k \in DOMAIN blocks |-> IF k > after THEN [blocks[k] EXCEPT !.line = @ + by] ELSE blocks[k]]

CommitBlocks(store) == [store EXCEPT !.parsed = FALSE, !.spliced = FALSE, !.displaced = <<>>]

UndoBlocks(store) ==
    LET back == LinesMoved(store.blocks, store.front + store.newWindow, -store.lineShift)
    IN  IF ~store.parsed THEN store
        ELSE IF ~store.spliced THEN
          [store EXCEPT !.parsed = FALSE, !.blocks = store.displaced, !.displaced = <<>>]
        ELSE [store EXCEPT !.parsed = FALSE, !.spliced = FALSE, !.displaced = <<>>,
                !.blocks = SubSeq(back, 1, store.front) \o store.displaced
                           \o SubSeq(back, store.front + store.newWindow + 1, Len(back))]

(* MayHoldMarker.                                                          *)
IsMarker(block) == block.type = "Paragraph" /\ block.text = <<"toc">>
MayHoldMarker(blocks) == \E k \in DOMAIN blocks : IsMarker(blocks[k])

----------------------------------------------------------------------------
(* What a parse owes the session, whatever it reused of the last one: it   *)
(* can be put back.                                                        *)
Stores ==
    [blocks : Seq(Blocks), displaced : Seq(Blocks), parsed : BOOLEAN, spliced : BOOLEAN,
     front : Nat, oldWindow : Nat, newWindow : Nat, lineShift : Int]

WellFormed(store) ==
    /\ store \in Stores
    /\ store.spliced => /\ store.parsed
                        /\ store.front + store.newWindow <= Len(store.blocks)
                        /\ Len(store.displaced) = store.oldWindow

ParsedFrom(before, store) ==
    /\ WellFormed(store)
    /\ store.parsed
    /\ UndoBlocks(store).blocks = UndoBlocks(before).blocks
=============================================================================
