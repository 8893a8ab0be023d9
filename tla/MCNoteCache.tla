----------------------------- MODULE MCNoteCache -----------------------------
(***************************************************************************)
(* An instance of NoteCache for TLC: a note in the root and one below it.  *)
(***************************************************************************)
EXTENDS NoteCache, TLC

CONSTANTS a, b, t1, t2

OneEach == a :> Root @@ b :> Sub

Symmetric == Permutations(Threads)

\* After the last call there is nothing to see.
Calling == calls < MaxCalls \/ \E t \in Threads : call[t] # Idle

\* The uses of the slots are told apart by their order only; what a file nothing names holds, and
\* the text of a hit, decide no step, nor does a vault after the last call.
Ranked ==
    LET rank(u) == Cardinality({i \in DOMAIN kept.slots : kept.slots[i].used < u})
    IN  <<byName, now, changes, entry, folder, calls,
          [t \in Threads |-> IF call[t].step # "check" THEN call[t]
                             ELSE [call[t] EXCEPT !.since = IF @ = changes THEN 0 ELSE -1]],
          [i \in Inodes |-> IF i \in InUse THEN file[i] ELSE None],
          [t \in Threads |-> IF calls = MaxCalls /\ call[t] = Idle THEN None ELSE [vault[t] EXCEPT !.hit = IF @ = None THEN None ELSE @.path]],
          [kept EXCEPT !.clock = 0, !.slots = [i \in DOMAIN @ |-> [@[i] EXCEPT !.used = rank(@)]]]>>
=============================================================================
