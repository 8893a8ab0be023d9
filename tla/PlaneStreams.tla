---------------------------- MODULE PlaneStreams ----------------------------
(***************************************************************************)
(* What src/core/image_encoder.h promises of an ImagePlanesEncoder, with   *)
(* no threads, buffers or locks: planes written in order or dropped, each  *)
(* segment compressed at most once and only after its last unit is         *)
(* written, streams made of whole planes, and nothing done to an encoder   *)
(* that is gone.                                                           *)
(***************************************************************************)
EXTENDS Integers, Sequences

CONSTANTS Planes, Sizes, segments

Segs == 1 .. Len(segments)

VARIABLES
    written,      \* per plane, units
    dropped,      \* planes that are not wanted
    compressed,   \* segments
    outcome,      \* what the caller gets: "none" yet, "streams" or "failed"
    alive         \* the encoder exists

vars == <<written, dropped, compressed, outcome, alive>>

TypeOK ==
    /\ written \in [Planes -> Nat] /\ \A p \in Planes : written[p] <= Sizes[p]
    /\ dropped \subseteq Planes
    /\ compressed \subseteq Segs
    /\ outcome \in {"none", "streams", "failed"} /\ alive \in BOOLEAN

Init ==
    /\ written = [p \in Planes |-> 0]
    /\ dropped = {} /\ compressed = {}
    /\ outcome = "none" /\ alive = TRUE

Write(p, n) ==
    /\ outcome = "none" /\ p \notin dropped
    /\ written[p] + n <= Sizes[p]
    /\ written' = [written EXCEPT ![p] = @ + n]
    /\ UNCHANGED <<dropped, compressed, outcome, alive>>

\* By the caller, or for what is unfinished when the encoder is destroyed.
Drop(p) ==
    /\ alive /\ written[p] < Sizes[p]
    /\ outcome # "streams"
    /\ dropped' = dropped \cup {p}
    /\ UNCHANGED <<written, compressed, outcome, alive>>

Compress(s) ==
    /\ alive /\ s \notin compressed /\ outcome # "streams"
    /\ segments[s].start + segments[s].size <= written[segments[s].plane]
    /\ compressed' = compressed \cup {s}
    /\ UNCHANGED <<written, dropped, outcome, alive>>

Finish ==
    /\ outcome = "none"
    /\ \A p \in Planes \ dropped : written[p] = Sizes[p]
    /\ \A s \in Segs : segments[s].plane \notin dropped => s \in compressed
    /\ outcome' = "streams"
    /\ UNCHANGED <<written, dropped, compressed, alive>>

Fail ==
    /\ outcome = "none"
    /\ outcome' = "failed"
    /\ UNCHANGED <<written, dropped, compressed, alive>>

Free ==
    /\ alive /\ outcome # "none"
    /\ alive' = FALSE
    /\ UNCHANGED <<written, dropped, compressed, outcome>>

Next ==
    \/ \E p \in Planes : Drop(p) \/ \E n \in 1 .. Sizes[p] : Write(p, n)
    \/ \E s \in Segs : Compress(s)
    \/ Finish \/ Fail \/ Free

Spec == Init /\ [][Next]_vars
=============================================================================
