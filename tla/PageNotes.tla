------------------------------ MODULE PageNotes ------------------------------
(***************************************************************************)
(* The account of footnotes at the foot of the page (page_notes.cpp, class *)
(* PageNotes): which notes a line of text brings with it, whether they fit *)
(* under it, and which go after the text instead.  The account is a        *)
(* record,                                                                 *)
(*   height, refs   what the measuring layout found of each note;          *)
(*   state          "unplaced", "foot" or "end";                           *)
(*   line           the notes the line being laid out brings;              *)
(*   clusters       the notes Collect found for it, each with the notes    *)
(*                  only other notes refer to;                             *)
(*   pending        the notes waiting at the foot of the page,             *)
(* and each operation gives the account it leaves.                         *)
(***************************************************************************)
EXTENDS Integers, SequencesExt

CONSTANTS
    Count,          \* notes are 1..Count
    Referenced,     \* of which the text refers to 1..Referenced
    Rule,           \* the height of the rule above a page's notes
    ClusterDepth    \* how deep a cluster goes

ASSUME CountAssumption == Count \in Nat /\ Referenced \in 0..Count
ASSUME RuleAssumption == Rule \in Nat /\ ClusterDepth \in Nat

Notes == 1..Count
Body(n) == n <= Referenced

\* The references of note m that make edges: not to itself, not to a note that
\* is not there, and a note named again right after itself only once.
Refer(m, edges, n) ==
    IF n \notin Notes \/ n = m \/ (edges # <<>> /\ Last(edges) = n)
    THEN edges ELSE Append(edges, n)
EdgesOf(m, named) == FoldLeft(LAMBDA edges, n : Refer(m, edges, n), <<>>, named)

Account(height, refs) ==
    [height |-> height, refs |-> refs, state |-> [n \in Notes |-> "unplaced"],
     line |-> <<>>, clusters |-> <<>>, pending |-> <<>>]

SetState(a, members, s) ==
    [a EXCEPT !.state = [n \in Notes |-> IF n \in ToSet(members) THEN s ELSE @[n]]]

\* Note n and, depth first, the notes alone it refers to that are not placed
\* and that this walk has not met: w holds those met, this cluster's members and
\* their height.
RECURSIVE Walk(_, _, _, _)
Walk(a, w, n, depth) ==
    LET met == [seen |-> w.seen \cup {n}, members |-> Append(w.members, n),
                height |-> w.height + a.height[n]]
        Alone(v, m) == ~Body(m) /\ a.state[m] = "unplaced" /\ m \notin v.seen
    IN  IF depth = ClusterDepth THEN met
        ELSE FoldLeft(LAMBDA v, m : IF Alone(v, m) THEN Walk(a, v, m, depth + 1) ELSE v,
                      met, a.refs[n])
Cluster(a, seen, n) == Walk(a, [seen |-> seen, members |-> <<>>, height |-> 0], n, 0)

\* After measuring: a cluster taller than the room of a page goes after the text.
Settle(a, room) ==
    LET Next(v, n) ==
            LET c == Cluster(v.account, v.seen, n)
            IN  IF v.account.state[n] # "unplaced" \/ n \in v.seen THEN v
                ELSE [seen |-> c.seen,
                      account |-> IF c.height + Rule <= room THEN v.account
                                  ELSE SetState(v.account, c.members, "end")]
    IN  FoldLeft(Next, [seen |-> {}, account |-> a],
                 [n \in 1..Referenced |-> n]).account

Waiting(a, n) == n \in Notes /\ a.state[n] = "unplaced"
AddLine(a, refs) == [a EXCEPT !.line = @ \o SelectSeq(refs, LAMBDA n : Waiting(a, n))]

Total(clusters) == FoldLeft(LAMBDA sum, c : sum + c.height, 0, clusters)

\* The line's last clusters go after the text until the rest fits the room.
Fit(a, room) ==
    LET fits == {k \in 1..Len(a.clusters) : Total(SubSeq(a.clusters, 1, k)) + Rule <= room}
        keep == Max(fits \cup {0})
        Drop(acc, c) == SetState(acc, c.members, "end")
    IN  [FoldLeft(Drop, a, SubSeq(a.clusters, keep + 1, Len(a.clusters)))
            EXCEPT !.clusters = SubSeq(a.clusters, 1, keep)]

\* The clusters of the line's notes, as many as fit an empty page beside it.
Collect(a, room) ==
    LET Next(v, n) ==
            LET c == Cluster(a, v.seen, n)
            IN  IF a.state[n] # "unplaced" \/ n \in v.seen THEN v
                ELSE [seen |-> c.seen, found |->
                        Append(v.found, [members |-> c.members, height |-> c.height])]
        found == FoldLeft(Next, [seen |-> {}, found |-> <<>>], a.line).found
    IN  Fit([a EXCEPT !.line = <<>>, !.clusters = found], room)

\* The rule is drawn once a page, above its first note.
RuleOf(a) == IF a.pending = <<>> THEN Rule ELSE 0
Need(a) == IF a.clusters = <<>> THEN 0 ELSE Total(a.clusters) + RuleOf(a)

\* The collected clusters wait at the foot of the page as far as its room holds
\* them; Taken is the room they take.
Place(a, room) ==
    LET b == Fit(a, room - RuleOf(a) + Rule)
        members == FlattenSeq([i \in DOMAIN b.clusters |-> b.clusters[i].members])
    IN  [SetState(b, members, "foot") EXCEPT !.pending = @ \o members, !.clusters = <<>>]
Taken(a, room) == Need(Fit(a, room - RuleOf(a) + Rule))

\* After the text, a note never placed goes after it too.
SettleRest(a) ==
    [a EXCEPT !.state = [n \in Notes |-> IF @[n] = "unplaced" THEN "end" ELSE @[n]]]
=============================================================================
