--------------------------- MODULE MCImageEncoder ---------------------------
(***************************************************************************)
(* Instances of ImageEncoder for TLC: segments of one or two units with a  *)
(* first block of one, written out so that TLC reads them fast and checked *)
(* against the constructor's plan.                                         *)
(***************************************************************************)
EXTENDS ImageEncoder, TLC

Plan == INSTANCE ImagePlan WITH Small <- 1, Large <- 2

Seg(p, start, size) == [plane |-> p, start |-> start, size |-> size]

\* Two planes in three and two segments, written side by side.
Planes2 == {0, 1}
Sizes2 == 0 :> 4 @@ 1 :> 3
Segments2 == <<Seg(0, 0, 2), Seg(1, 0, 2), Seg(0, 2, 1), Seg(0, 3, 1), Seg(1, 2, 1)>>
ASSUME Segments2Plan == Segments2 = Plan!ArrivalOrder(Sizes2)

\* One plane in two segments, for two helpers that sleep and wake each other.
Planes1 == {0}
Sizes1 == 0 :> 3
Segments1 == <<Seg(0, 0, 2), Seg(0, 2, 1)>>
ASSUME Segments1Plan == Segments1 = Plan!ArrivalOrder(Sizes1)

\* One plane in four segments, one more than the buffers a single helper leaves it.
Sizes4 == 0 :> 7
Segments4 == <<Seg(0, 0, 2), Seg(0, 2, 2), Seg(0, 4, 2), Seg(0, 6, 1)>>
ASSUME Segments4Plan == Segments4 = Plan!ArrivalOrder(Sizes4)
=============================================================================
