----------------------------- MODULE ImageStore -----------------------------
(***************************************************************************)
(* What src/core/image_cache.h promises of the image cache: per image the  *)
(* streams of at most one program version, which come and go as a whole.   *)
(* A lookup hits only when the streams there are of the asker's version.   *)
(***************************************************************************)
CONSTANTS Digests, Versions, Threads, VersionOf

NoVersion == "none"

VARIABLES
    kept,      \* per image: the version of the streams kept, or NoVersion
    found,     \* per thread: what its lookup met, or NoVersion
    got        \* per thread: the version of the streams it goes on with, or NoVersion

vars == <<kept, found, got>>

Init ==
    /\ kept = [d \in Digests |-> NoVersion]
    /\ found = [t \in Threads |-> NoVersion]
    /\ got = [t \in Threads |-> NoVersion]

Keep(d, v) == kept' = [kept EXCEPT ![d] = v] /\ UNCHANGED <<found, got>>

Drop(d) == kept' = [kept EXCEPT ![d] = NoVersion] /\ UNCHANGED <<found, got>>

Look(t, d) ==
    /\ got[t] = NoVersion
    /\ found' = [found EXCEPT ![t] = kept[d]]
    /\ UNCHANGED <<kept, got>>

Hit(t) ==
    /\ found[t] = VersionOf[t]
    /\ got' = [got EXCEPT ![t] = found[t]]
    /\ found' = [found EXCEPT ![t] = NoVersion]
    /\ UNCHANGED kept

\* A miss, or the thread is done with the streams.
Leave(ts) ==
    /\ found' = [t \in Threads |-> IF t \in ts THEN NoVersion ELSE found[t]]
    /\ got' = [t \in Threads |-> IF t \in ts THEN NoVersion ELSE got[t]]
    /\ UNCHANGED kept

Next ==
    \/ \E d \in Digests : Drop(d) \/ \E v \in Versions : Keep(d, v)
    \/ \E t \in Threads : Hit(t) \/ Leave({t}) \/ \E d \in Digests : Look(t, d)
    \/ \E ts \in SUBSET Threads : Leave(ts)

Spec == Init /\ [][Next]_vars
=============================================================================
