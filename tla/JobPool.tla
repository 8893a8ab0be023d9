------------------------------ MODULE JobPool ------------------------------
(***************************************************************************)
(* What a batch asks of its worker threads (batch_report.h, RunJobs): each *)
(* job is run once, no more of them at a time than Limit, and the call     *)
(* returns when all have been.                                             *)
(***************************************************************************)
EXTENDS Integers, FiniteSets

CONSTANTS Jobs, Limit

VARIABLES
    todo,      \* not begun
    doing,     \* begun, not ended
    over       \* the call has returned

vars == <<todo, doing, over>>

Init == todo = Jobs /\ doing = {} /\ over = FALSE

Begin(j) ==
    /\ j \in todo /\ Cardinality(doing) < Limit
    /\ todo' = todo \ {j} /\ doing' = doing \cup {j}
    /\ UNCHANGED over

End(j) ==
    /\ j \in doing
    /\ doing' = doing \ {j}
    /\ UNCHANGED <<todo, over>>

Return ==
    /\ todo = {} /\ doing = {} /\ ~over
    /\ over' = TRUE
    /\ UNCHANGED <<todo, doing>>

Next == (\E j \in Jobs : Begin(j) \/ End(j)) \/ Return

Spec == Init /\ [][Next]_vars
=============================================================================
