------------------------------ MODULE KeptNotes ------------------------------
(***************************************************************************)
(* The notes and name indexes a process keeps (src/core/vault.cpp, Kept):  *)
(* slots of notes with a map of their keys, a count of their bytes, and    *)
(* the last few name indexes.  Each operator is one section under the      *)
(* mutex.  A text is a sequence of units, a key a note's path.             *)
(***************************************************************************)
EXTENDS Integers, Sequences, FiniteSets, FiniteSetsExt, SequencesExt

CONSTANTS
    None,              \* no note, file, index or text
    Notes,             \* paths of notes
    Overhead,          \* what a kept note costs besides its text (160 and its key)
    MaxNoteBytes,      \* kMaxKeptNoteBytes
    MaxBytes,          \* kMaxNoteCacheBytes
    MaxNotes,          \* kMaxKeptNotes
    MaxIndexes,        \* kMaxKeptIndexes
    SettleTime         \* g_settle

ASSUME OneNoteFits ==
    /\ MaxNoteBytes \in Nat /\ Overhead \in Nat
    /\ MaxBytes \in Nat /\ MaxNoteBytes + Overhead <= MaxBytes
    /\ MaxNotes \in Nat \ {0} /\ MaxIndexes \in Nat \ {0} /\ SettleTime \in Nat

FreeSlot == [key |-> None, text |-> None, identity |-> None, used |-> 0]

NothingKept ==
    [notes |-> [p \in {} |-> 0], slots |-> <<>>, bytes |-> 0, clock |-> 0,
     indexes |-> [i \in 1..MaxIndexes |-> None]]

\* mutant: one written a moment ago is kept too
SettledAtOnce(identity, start) == identity.modified <= start /\ identity.changed <= start

\* Whether a file read from start on was last written a settle time before: a later write then
\* shows as another time.
Settled(identity, start) ==
    identity.modified + SettleTime < start /\ identity.changed + SettleTime < start

Unchanged(then, now) ==
    /\ then.inode = now.inode /\ then.size = now.size
    /\ then.modified = now.modified /\ then.changed = now.changed

CostOf(note) == Len(note.text) + Overhead

UsedSlots(kept) == {i \in DOMAIN kept.slots : kept.slots[i].text # None}

\* The slot a key takes: its own, else the first free one, or a new one while none is free.
SlotFor(kept, key) ==
    CASE key \in DOMAIN kept.notes -> kept.notes[key]
      [] key \notin DOMAIN kept.notes /\ Cardinality(DOMAIN kept.notes) + 1 <= Len(kept.slots) ->
            Min({i \in DOMAIN kept.slots : kept.slots[i].text = None})
      [] OTHER -> Len(kept.slots) + 1

\* mutant: the note that was in the slot still counts
WrittenOver(kept, key, text, identity) ==
    LET slot == SlotFor(kept, key)
        note == [key |-> key, text |-> text, identity |-> identity, used |-> kept.clock + 1]
    IN  [kept EXCEPT
            !.notes = [p \in DOMAIN @ \union {key} |-> IF p = key THEN slot ELSE @[p]],
            !.slots = IF slot > Len(@) THEN Append(@, note) ELSE [@ EXCEPT ![slot] = note],
            !.bytes = @ + CostOf(note),
            !.clock = @ + 1]

\* The key is in the map, its slot written and the bytes counted.
Written(kept, key, text, identity) ==
    LET slot == SlotFor(kept, key)
        note == [key |-> key, text |-> text, identity |-> identity, used |-> kept.clock + 1]
        freed == IF slot \in UsedSlots(kept) THEN CostOf(kept.slots[slot]) ELSE 0
    IN  [kept EXCEPT
            !.notes = [p \in DOMAIN @ \union {key} |-> IF p = key THEN slot ELSE @[p]],
            !.slots = IF slot > Len(@) THEN Append(@, note) ELSE [@ EXCEPT ![slot] = note],
            !.bytes = @ - freed + CostOf(note),
            !.clock = @ + 1]

Oldest(kept) == CHOOSE i \in UsedSlots(kept) :
    \A j \in UsedSlots(kept) : kept.slots[i].used <= kept.slots[j].used

GivenUp(kept) ==
    LET oldest == Oldest(kept)
    IN  [kept EXCEPT
            !.notes = [p \in DOMAIN @ \ {kept.slots[oldest].key} |-> @[p]],
            !.slots = [@ EXCEPT ![oldest] = FreeSlot],
            !.bytes = @ - CostOf(kept.slots[oldest])]

TooMuch(kept) == kept.bytes > MaxBytes \/ Cardinality(DOMAIN kept.notes) > MaxNotes

\* The least recently used notes given up until the rest is within the limits.
Within(kept) ==
    LET left[n \in 0..Cardinality(UsedSlots(kept))] ==
            IF n = 0 THEN kept ELSE IF TooMuch(left[n - 1]) THEN GivenUp(left[n - 1]) ELSE left[n - 1]
    IN  left[Cardinality(UsedSlots(kept))]

\* A note is kept only whole, settled and not too large.
Keep(kept, key, text, identity, start) ==
    IF Len(text) # identity.size \/ Len(text) > MaxNoteBytes \/ ~Settled(identity, start)
    THEN kept
    ELSE Within(Written(kept, key, text, identity))

\* The note kept for the key, now the most recently used.
Looked(kept, key) ==
    [kept EXCEPT !.slots[kept.notes[key]].used = kept.clock + 1, !.clock = @ + 1]

\* An index is what it holds (the code compares pointers): first among the kept ones, moved up or
\* added in the last one's place.
KeepIndex(kept, index) ==
    LET at == Min({MaxIndexes} \union {i \in 1..MaxIndexes : kept.indexes[i] = index})
    IN  [kept EXCEPT !.indexes = [i \in 1..MaxIndexes |->
            CASE i = 1 -> index
              [] i \in 2..at -> kept.indexes[i - 1]
              [] OTHER -> kept.indexes[i]]]

DropIndex(kept, index) ==
    [kept EXCEPT !.indexes = [i \in 1..MaxIndexes |-> IF @[i] = index THEN None ELSE @[i]]]

\* The last one of the root's: every vault of the model has the same root.
LastIndex(kept) ==
    LET of == {i \in 1..MaxIndexes : kept.indexes[i] # None}
    IN  IF of = {} THEN None ELSE kept.indexes[Max(of)]
=============================================================================
