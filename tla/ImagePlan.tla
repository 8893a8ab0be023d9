------------------------------ MODULE ImagePlan ------------------------------
(***************************************************************************)
(* How an image's planes are cut into segments (ImageSegmentSize of        *)
(* src/core/flate.h) and the order the encoder's constructor keeps them in *)
(* (src/core/image_encoder.cpp).                                           *)
(***************************************************************************)
EXTENDS Integers, Sequences, SequencesExt

CONSTANTS Small, Large   \* kSmall and kLarge, in units

ImageSegmentSize(remaining) ==
    IF remaining <= Small THEN remaining
    ELSE IF remaining > 2 * Large THEN Large
    ELSE LET half == (remaining + 1) \div 2 IN
         IF half < Small \div 2 THEN Small \div 2 ELSE half

\* The starts of a plane's segments: each follows the one before until none remains.
Starts(size) ==
    LET start[k \in 0 .. size] ==
            IF k = 0 THEN 0 ELSE start[k - 1] + ImageSegmentSize(size - start[k - 1])
    IN {start[k] : k \in 0 .. size} \ {size}

PlaneSegments(p, size) ==
    {[plane |-> p, start |-> n, size |-> ImageSegmentSize(size - n)] : n \in Starts(size)}

\* The planes' rows are written side by side, so a segment ending at a smaller share of its
\* plane comes first; the sort is stable, and planes are cut in turn.
ArrivesBefore(sizes, a, b) ==
    LET left == (a.start + a.size) * sizes[b.plane]
        right == (b.start + b.size) * sizes[a.plane]
    IN left < right \/ (left = right /\ a.plane < b.plane)

ArrivalOrder(sizes) ==
    SetToSortSeq(UNION {PlaneSegments(p, sizes[p]) : p \in DOMAIN sizes},
                 LAMBDA a, b : ArrivesBefore(sizes, a, b))
=============================================================================
