--------------------------- MODULE NoteCacheProofs ---------------------------
(***************************************************************************)
(* Proofs about the kept notes and name indexes, for any number of         *)
(* threads, notes, files and changes.                                      *)
(***************************************************************************)
EXTENDS NoteCache, CountingLemmas

Identities == [inode : Inodes, size : Nat, modified : Nat, changed : Nat]

Slots == [key : Notes \union {None}, text : Texts \union {None},
          identity : Identities \union {None}, used : Nat]

USE DEF FreeSlot

LEMMA Constants ==
    /\ SettleTime \in Nat /\ TickLen \in Nat \ {0} /\ SettleTime + 1 >= TickLen
    /\ MaxNoteBytes \in Nat /\ Overhead \in Nat /\ MaxBytes \in Int /\ MaxNoteBytes + Overhead <= MaxBytes
    /\ MaxNotes \in Nat \ {0} /\ MaxIndexes \in Nat \ {0}
    /\ None \notin Inodes /\ None \notin Notes /\ None \notin Texts /\ None \notin FolderIds
    /\ FolderOf \in [Notes -> Folders] /\ Edited \subseteq Notes
BY SettleCoversTick, OneNoteFits, NoneIsNothing, NotesHaveFiles
-----------------------------------------------------------------------------
(***************************************************************************)
(* The operations on what is kept (KeptNotes).                             *)
(***************************************************************************)
\* What is kept, as a record.
IsKept(k) == k = [notes |-> k.notes, slots |-> k.slots, bytes |-> k.bytes, clock |-> k.clock,
                  indexes |-> k.indexes]

Costs(k) == [i \in UsedSlots(k) |-> CostOf(k.slots[i])]

\* The map and the slots tell the same notes, and the bytes are counted right.
Shaped(k) ==
    /\ IsKept(k)
    /\ k.slots \in Seq(Slots) /\ k.bytes \in Int /\ k.clock \in Nat
    /\ k.notes \in [DOMAIN k.notes -> DOMAIN k.slots] /\ DOMAIN k.notes \subseteq Notes

Mapped(k) ==
    /\ \A p \in DOMAIN k.notes : k.notes[p] \in UsedSlots(k) /\ k.slots[k.notes[p]].key = p
    /\ \A i \in UsedSlots(k) :
         /\ k.slots[i].key \in DOMAIN k.notes /\ k.notes[k.slots[i].key] = i
         /\ k.slots[i].identity \in Identities

Counted(k) == k.bytes = Total(Costs(k), UsedSlots(k))

Accounted(k) == Shaped(k) /\ Mapped(k) /\ Counted(k)

\* The notes kept, each with its file's identity.
Held(k) == {<<k.slots[i].text, k.slots[i].identity>> : i \in UsedSlots(k)}

WithinLimits(k) ==
    k.bytes <= MaxBytes /\ Cardinality(DOMAIN k.notes) <= MaxNotes /\ Len(k.slots) <= MaxNotes + 1

\* The used slots are finitely many, as many as the notes, and each costs a number of bytes.
LEMMA UsedFacts ==
    ASSUME NEW k, Shaped(k)
    PROVE  /\ UsedSlots(k) \subseteq 1..Len(k.slots) /\ Len(k.slots) \in Nat
           /\ DOMAIN k.slots = 1..Len(k.slots)
           /\ IsFiniteSet(UsedSlots(k)) /\ Cardinality(UsedSlots(k)) \in Nat
           /\ Cardinality(UsedSlots(k)) <= Len(k.slots)
           /\ \A i \in UsedSlots(k) : k.slots[i] \in Slots /\ k.slots[i].text \in Texts
           /\ \A i \in UsedSlots(k) : CostOf(k.slots[i]) \in Nat /\ Costs(k)[i] = CostOf(k.slots[i])
<1>1. Len(k.slots) \in Nat /\ DOMAIN k.slots = 1..Len(k.slots) /\ \A i \in DOMAIN k.slots : k.slots[i] \in Slots
  BY DEF Shaped
<1>2. UsedSlots(k) \subseteq 1..Len(k.slots)
  BY <1>1 DEF UsedSlots
<1>3. IsFiniteSet(1..Len(k.slots)) /\ Cardinality(1..Len(k.slots)) = Len(k.slots)
  BY <1>1, FS_Interval
<1>4. IsFiniteSet(UsedSlots(k)) /\ Cardinality(UsedSlots(k)) \in Nat /\ Cardinality(UsedSlots(k)) <= Len(k.slots)
  BY <1>2, <1>3, FS_Subset, FS_CardinalityType
<1>5. \A i \in UsedSlots(k) : k.slots[i] \in Slots /\ k.slots[i].text \in Texts
  BY <1>1 DEF UsedSlots, Slots
<1>6. \A i \in UsedSlots(k) : CostOf(k.slots[i]) \in Nat /\ Costs(k)[i] = CostOf(k.slots[i])
  <2>1. \A text \in Texts : Len(text) \in Nat
    BY DEF Texts
  <2> QED
    BY <1>5, <2>1, Constants DEF CostOf, Costs
<1> QED
  BY <1>1, <1>2, <1>4, <1>5, <1>6

LEMMA AsManyNotes ==
    ASSUME NEW k, Shaped(k), Mapped(k)
    PROVE  IsFiniteSet(DOMAIN k.notes) /\ Cardinality(DOMAIN k.notes) = Cardinality(UsedSlots(k))
<1> DEFINE f == [i \in UsedSlots(k) |-> k.slots[i].key]
<1>1. f \in Bijection(UsedSlots(k), DOMAIN k.notes)
  <2>1. f \in [UsedSlots(k) -> DOMAIN k.notes]
    BY DEF Mapped
  <2>2. \A i, j \in UsedSlots(k) : f[i] = f[j] => i = j
    BY DEF Mapped
  <2>3. \A p \in DOMAIN k.notes : \E i \in UsedSlots(k) : f[i] = p
    BY DEF Mapped
  <2> QED
    BY <2>1, <2>2, <2>3 DEF Bijection, Injection, Surjection, IsInjective
<1> QED
  BY <1>1, UsedFacts, FS_Bijection DEF ExistsBijection

\* A slot given back.
LEMMA OldestUsed ==
    ASSUME NEW k, Shaped(k), UsedSlots(k) # {}
    PROVE  Oldest(k) \in UsedSlots(k)
<1> DEFINE T == {k.slots[i].used : i \in UsedSlots(k)}
<1>1. T \subseteq Nat /\ T # {}
  BY UsedFacts DEF Slots
<1>2. PICK n \in T : \A m \in T : n <= m
  BY <1>1, LeastNatural
<1>3. \E i \in UsedSlots(k) : \A j \in UsedSlots(k) : k.slots[i].used <= k.slots[j].used
  BY <1>2
<1> QED
  BY <1>3 DEF Oldest

LEMMA GivenUpAccounted ==
    ASSUME NEW k, Accounted(k), UsedSlots(k) # {}
    PROVE  /\ Accounted(GivenUp(k))
           /\ Cardinality(UsedSlots(GivenUp(k))) = Cardinality(UsedSlots(k)) - 1
           /\ Held(GivenUp(k)) \subseteq Held(k)
           /\ GivenUp(k).indexes = k.indexes /\ Len(GivenUp(k).slots) = Len(k.slots)
<1> DEFINE o == Oldest(k)
           g == GivenUp(k)
<1>1. o \in UsedSlots(k) /\ o \in DOMAIN k.slots
  BY OldestUsed DEF Accounted, UsedSlots
<1>2. /\ IsKept(g)
      /\ g.notes = [p \in DOMAIN k.notes \ {k.slots[o].key} |-> k.notes[p]]
      /\ g.slots = [k.slots EXCEPT ![o] = FreeSlot]
      /\ g.bytes = k.bytes - CostOf(k.slots[o])
      /\ g.clock = k.clock /\ g.indexes = k.indexes
  <2>1. k = [notes |-> k.notes, slots |-> k.slots, bytes |-> k.bytes, clock |-> k.clock,
             indexes |-> k.indexes]
    BY DEF Accounted, Shaped, IsKept
  <2>2. g = [k EXCEPT
            !.notes = [p \in DOMAIN k.notes \ {k.slots[o].key} |-> k.notes[p]],
            !.slots = [k.slots EXCEPT ![o] = FreeSlot],
            !.bytes = k.bytes - CostOf(k.slots[o])]
    BY DEF GivenUp
  <2> QED
    BY <2>1, <2>2 DEF IsKept
<1> HIDE DEF o, g
<1>3. UsedSlots(g) = UsedSlots(k) \ {o} /\ DOMAIN g.slots = DOMAIN k.slots
      /\ \A i \in UsedSlots(g) : g.slots[i] = k.slots[i]
  BY <1>1, <1>2 DEF UsedSlots
<1>4. Shaped(g) /\ Len(g.slots) = Len(k.slots)
  <2>1. FreeSlot \in Slots
    BY DEF Slots
  <2>2. g.slots \in Seq(Slots) /\ Len(g.slots) = Len(k.slots)
    BY <1>1, <1>2, <2>1 DEF Accounted, Shaped
  <2>3. g.notes \in [DOMAIN g.notes -> DOMAIN g.slots] /\ DOMAIN g.notes \subseteq Notes
    BY <1>2, <1>3 DEF Accounted, Shaped
  <2>4. g.bytes \in Int /\ g.clock \in Nat
    BY <1>1, <1>2, UsedFacts DEF Accounted, Shaped
  <2> QED
    BY <1>2, <2>2, <2>3, <2>4 DEF Shaped
<1>5. Mapped(g)
  BY <1>1, <1>2, <1>3 DEF Accounted, Mapped
<1>6. Counted(g)
  <2>1. Total(Costs(k), UsedSlots(k)) = Costs(k)[o] + Total(Costs(k), UsedSlots(k) \ {o})
    <3>1. IsFiniteSet(UsedSlots(k)) /\ \A i \in UsedSlots(k) : Costs(k)[i] \in Int
      BY UsedFacts DEF Accounted
    <3> QED
      BY <1>1, <3>1, TotalLess
  <2>2. Total(Costs(k), UsedSlots(g)) = Total(Costs(g), UsedSlots(g))
    <3>1. \A i \in UsedSlots(g) : Costs(k)[i] = Costs(g)[i]
      BY <1>3 DEF Costs
    <3>2. IsFiniteSet(UsedSlots(g))
      BY <1>4, UsedFacts
    <3> QED
      BY <3>1, <3>2, TotalSame
  <2>3. Costs(k)[o] = CostOf(k.slots[o]) /\ CostOf(k.slots[o]) \in Int
    BY <1>1, UsedFacts DEF Accounted
  <2>4. Total(Costs(k), UsedSlots(k) \ {o}) \in Int
    <3>1. IsFiniteSet(UsedSlots(k) \ {o}) /\ \A i \in UsedSlots(k) \ {o} : Costs(k)[i] \in Int
      BY UsedFacts, FS_RemoveElement DEF Accounted
    <3> QED
      BY <3>1, TotalType
  <2> QED
    BY <1>2, <1>3, <2>1, <2>2, <2>3, <2>4 DEF Accounted, Counted
<1>7. Held(g) \subseteq Held(k)
  BY <1>3 DEF Held
<1>8. Cardinality(UsedSlots(g)) = Cardinality(UsedSlots(k)) - 1
  BY <1>1, <1>3, UsedFacts, FS_RemoveElement DEF Accounted
<1> QED
  BY <1>2, <1>4, <1>5, <1>6, <1>7, <1>8 DEF Accounted, g

\* The slot a key takes is its own or one no note is in.
LEMMA SlotTaken ==
    ASSUME NEW k, Accounted(k), NEW key \in Notes
    PROVE  /\ SlotFor(k, key) \in 1..(Len(k.slots) + 1)
           /\ SlotFor(k, key) \in UsedSlots(k) => key \in DOMAIN k.notes /\ k.slots[SlotFor(k, key)].key = key
           /\ SlotFor(k, key) \notin UsedSlots(k) => key \notin DOMAIN k.notes
           /\ SlotFor(k, key) = Len(k.slots) + 1 => Len(k.slots) <= Cardinality(DOMAIN k.notes)
<1> DEFINE D == DOMAIN k.notes
           slot == SlotFor(k, key)
           free == {i \in DOMAIN k.slots : k.slots[i].text = None}
<1>0. /\ Len(k.slots) \in Nat /\ DOMAIN k.slots = 1..Len(k.slots) /\ UsedSlots(k) \subseteq 1..Len(k.slots)
      /\ Cardinality(D) \in Nat /\ Cardinality(D) = Cardinality(UsedSlots(k))
      /\ \A p \in D : k.notes[p] \in UsedSlots(k) /\ k.slots[k.notes[p]].key = p
  BY UsedFacts, AsManyNotes DEF Accounted, Mapped
<1>1. CASE key \in D
  <2>1. slot = k.notes[key]
    BY <1>1 DEF SlotFor
  <2> QED
    BY <1>0, <1>1, <2>1
<1>2. CASE key \notin D /\ Cardinality(D) + 1 <= Len(k.slots)
  <2>1. slot = Min(free)
    BY <1>2 DEF SlotFor
  <2>2. free # {} /\ free \subseteq Nat /\ free \subseteq 1..Len(k.slots) /\ free \cap UsedSlots(k) = {}
    <3>1. UsedSlots(k) # 1..Len(k.slots)
      BY <1>0, <1>2, FS_Interval
    <3> QED
      BY <1>0, <3>1 DEF UsedSlots
  <2>3. PICK n \in free : \A m \in free : n <= m
    BY <2>2, LeastNatural
  <2>4. Min(free) \in free
    BY <2>3 DEF Min
  <2> HIDE DEF free, slot
  <2>5. slot \in 1..Len(k.slots) /\ slot \notin UsedSlots(k)
    BY <2>1, <2>2, <2>4
  <2> QED
    BY <1>0, <1>2, <2>5 DEF slot
<1>3. CASE key \notin D /\ ~(Cardinality(D) + 1 <= Len(k.slots))
  <2>1. slot = Len(k.slots) + 1
    BY <1>3 DEF SlotFor
  <2>2. slot \notin UsedSlots(k)
    BY <1>0, <2>1
  <2> HIDE DEF slot
  <2> QED
    BY <1>0, <1>3, <2>1, <2>2 DEF slot
<1> QED
  BY <1>1, <1>2, <1>3

LEMMA WrittenAccounted ==
    ASSUME NEW k, Accounted(k), Cardinality(DOMAIN k.notes) <= MaxNotes, Len(k.slots) <= MaxNotes + 1,
           NEW key \in Notes, NEW text \in Texts, NEW identity \in Identities
    PROVE  /\ Accounted(Written(k, key, text, identity))
           /\ Held(Written(k, key, text, identity)) \subseteq Held(k) \union {<<text, identity>>}
           /\ Written(k, key, text, identity).indexes = k.indexes
           /\ Len(Written(k, key, text, identity).slots) <= MaxNotes + 1
<1> DEFINE slot == SlotFor(k, key)
           note == [key |-> key, text |-> text, identity |-> identity, used |-> k.clock + 1]
           freed == IF slot \in UsedSlots(k) THEN CostOf(k.slots[slot]) ELSE 0
           w == Written(k, key, text, identity)
<1>0. /\ Len(k.slots) \in Nat /\ DOMAIN k.slots = 1..Len(k.slots) /\ UsedSlots(k) \subseteq 1..Len(k.slots)
      /\ IsFiniteSet(UsedSlots(k)) /\ k.slots \in Seq(Slots) /\ k.clock \in Nat /\ k.bytes \in Int
      /\ \A i \in UsedSlots(k) : CostOf(k.slots[i]) \in Nat /\ Costs(k)[i] = CostOf(k.slots[i])
  BY UsedFacts DEF Accounted, Shaped
<1>1. /\ slot \in 1..(Len(k.slots) + 1)
      /\ slot \in UsedSlots(k) => key \in DOMAIN k.notes /\ k.slots[slot].key = key
      /\ slot \notin UsedSlots(k) => key \notin DOMAIN k.notes
      /\ slot = Len(k.slots) + 1 => Len(k.slots) <= Cardinality(DOMAIN k.notes)
  BY SlotTaken
<1>2. note \in Slots /\ note.text # None /\ CostOf(note) \in Nat
  <2>1. Len(text) \in Nat /\ text # None
    BY Constants DEF Texts
  <2> QED
    BY <1>0, <2>1, Constants DEF Slots, CostOf
<1>3. /\ IsKept(w)
      /\ w.notes = [p \in DOMAIN k.notes \union {key} |-> IF p = key THEN slot ELSE k.notes[p]]
      /\ w.slots = IF slot > Len(k.slots) THEN Append(k.slots, note) ELSE [k.slots EXCEPT ![slot] = note]
      /\ w.bytes = k.bytes - freed + CostOf(note)
      /\ w.clock = k.clock + 1 /\ w.indexes = k.indexes
  <2>1. k = [notes |-> k.notes, slots |-> k.slots, bytes |-> k.bytes, clock |-> k.clock,
             indexes |-> k.indexes]
    BY DEF Accounted, Shaped, IsKept
  <2>2. w = [k EXCEPT
            !.notes = [p \in DOMAIN k.notes \union {key} |-> IF p = key THEN slot ELSE k.notes[p]],
            !.slots = IF slot > Len(k.slots) THEN Append(k.slots, note) ELSE [k.slots EXCEPT ![slot] = note],
            !.bytes = k.bytes - freed + CostOf(note),
            !.clock = k.clock + 1]
    BY DEF Written
  <2> HIDE DEF slot, note, freed, w
  <2> QED
    BY <2>1, <2>2 DEF IsKept
<1> HIDE DEF slot, note, w
<1>4. /\ w.slots \in Seq(Slots)
      /\ DOMAIN w.slots = (DOMAIN k.slots) \union {slot}
      /\ w.slots[slot] = note
      /\ \A i \in DOMAIN k.slots : i # slot => w.slots[i] = k.slots[i]
      /\ Len(w.slots) <= MaxNotes + 1
  <2>1. CASE slot > Len(k.slots)
    <3>1. slot = Len(k.slots) + 1 /\ w.slots = Append(k.slots, note)
      BY <1>0, <1>1, <1>3, <2>1
    <3>2. Len(k.slots) <= MaxNotes
      BY <1>0, <1>1, <3>1, AsManyNotes, UsedFacts, Constants DEF Accounted
    <3>3. Len(w.slots) = Len(k.slots) + 1 /\ w.slots \in Seq(Slots) /\ w.slots[slot] = note
          /\ \A i \in 1..Len(k.slots) : w.slots[i] = k.slots[i]
      BY <1>0, <1>2, <3>1
    <3>4. DOMAIN w.slots = 1..(Len(k.slots) + 1)
      BY <3>3
    <3> QED
      BY <1>0, <3>1, <3>2, <3>3, <3>4, Constants
  <2>2. CASE ~(slot > Len(k.slots))
    <3>1. slot \in 1..Len(k.slots) /\ w.slots = [k.slots EXCEPT ![slot] = note]
      BY <1>0, <1>1, <1>3, <2>2
    <3>2. w.slots \in Seq(Slots) /\ Len(w.slots) = Len(k.slots)
      BY <1>0, <1>2, <3>1
    <3> QED
      BY <1>0, <3>1, <3>2
  <2> QED
    BY <2>1, <2>2
<1>5. UsedSlots(w) = UsedSlots(k) \union {slot} /\ \A i \in UsedSlots(k) : i # slot => w.slots[i] = k.slots[i]
  BY <1>0, <1>2, <1>4 DEF UsedSlots
<1>6. freed \in Int
  BY <1>0
<1>7. Shaped(w)
  <2>1. w.notes \in [DOMAIN w.notes -> DOMAIN w.slots] /\ DOMAIN w.notes \subseteq Notes
    BY <1>3, <1>4 DEF Accounted, Shaped
  <2>2. w.bytes \in Int /\ w.clock \in Nat
    <3> HIDE DEF freed
    <3> QED
      BY <1>0, <1>2, <1>3, <1>6
  <2> QED
    BY <1>3, <1>4, <2>1, <2>2 DEF Shaped
<1>8. Mapped(w)
  <2>1. \A p \in DOMAIN k.notes : p # key => k.notes[p] # slot /\ k.notes[p] \in UsedSlots(k)
    BY <1>1 DEF Accounted, Mapped
  <2>2. ASSUME NEW p \in DOMAIN w.notes
        PROVE  w.notes[p] \in UsedSlots(w) /\ w.slots[w.notes[p]].key = p
    <3>1. CASE p = key
      BY <1>3, <1>4, <1>5, <3>1 DEF note
    <3>2. CASE p # key
      <4>1. w.notes[p] = k.notes[p] /\ p \in DOMAIN k.notes
        BY <1>3, <3>2
      <4> QED
        BY <1>5, <2>1, <3>2, <4>1 DEF Accounted, Mapped
    <3> QED
      BY <3>1, <3>2
  <2>3. ASSUME NEW i \in UsedSlots(w)
        PROVE  /\ w.slots[i].key \in DOMAIN w.notes /\ w.notes[w.slots[i].key] = i
               /\ w.slots[i].identity \in Identities
    <3>1. CASE i = slot
      BY <1>3, <1>4, <3>1 DEF note
    <3>2. CASE i # slot
      <4>1. i \in UsedSlots(k) /\ w.slots[i] = k.slots[i]
        BY <1>5, <3>2
      <4>2. /\ k.slots[i].key \in DOMAIN k.notes /\ k.notes[k.slots[i].key] = i
            /\ k.slots[i].identity \in Identities
        BY <4>1 DEF Accounted, Mapped
      <4>3. k.slots[i].key # key
        BY <1>1, <3>2, <4>1, <4>2 DEF Accounted, Mapped
      <4> QED
        BY <1>3, <4>1, <4>2, <4>3
    <3> QED
      BY <3>1, <3>2
  <2> QED
    BY <2>2, <2>3 DEF Mapped
<1>9. Counted(w)
  <2> DEFINE rest == UsedSlots(k) \ {slot}
  <2>1. IsFiniteSet(rest) /\ slot \notin rest /\ UsedSlots(w) = rest \union {slot}
    BY <1>0, <1>5, FS_Subset
  <2>2. /\ \A i \in rest \union {slot} : Costs(w)[i] \in Int
        /\ Costs(w)[slot] = CostOf(note) /\ \A i \in rest : Costs(w)[i] = Costs(k)[i]
    BY <1>0, <1>2, <1>4, <1>5 DEF Costs
  <2>3. Total(Costs(w), UsedSlots(w)) = CostOf(note) + Total(Costs(w), rest)
    <3> HIDE DEF rest
    <3> QED
      BY <2>1, <2>2, TotalMore
  <2>4. Total(Costs(w), rest) = Total(Costs(k), rest)
    <3> HIDE DEF rest
    <3> QED
      BY <2>1, <2>2, TotalSame
  <2>5. Total(Costs(k), rest) \in Int
    BY <1>0, <2>1, TotalType
  <2>6. k.bytes = freed + Total(Costs(k), rest)
    <3>1. CASE slot \in UsedSlots(k)
      <4>1. \A i \in UsedSlots(k) : Costs(k)[i] \in Int
        BY <1>0
      <4>2. Total(Costs(k), UsedSlots(k)) = Costs(k)[slot] + Total(Costs(k), rest)
        BY <1>0, <3>1, <4>1, TotalLess
      <4> QED
        BY <1>0, <3>1, <4>2 DEF Accounted, Counted
    <3>2. CASE slot \notin UsedSlots(k)
      <4>1. rest = UsedSlots(k) /\ freed = 0
        BY <3>2
      <4> QED
        <5>1. k.bytes = Total(Costs(k), rest) /\ freed = 0
          BY <4>1 DEF Accounted, Counted
        <5> HIDE DEF rest, freed
        <5> QED
          BY <2>5, <5>1
    <3> QED
      BY <3>1, <3>2
  <2> HIDE DEF rest, freed
  <2> QED
    BY <1>0, <1>2, <1>3, <1>6, <2>3, <2>4, <2>5, <2>6 DEF Counted
<1>10. Held(w) \subseteq Held(k) \union {<<text, identity>>}
  BY <1>4, <1>5 DEF Held, note
<1> QED
  BY <1>3, <1>4, <1>7, <1>8, <1>9, <1>10 DEF Accounted, w

\* The notes that are left after each of n evictions.
Evictions(k, n, left) ==
    left = [m \in 0..n |->
              IF m = 0 THEN k ELSE IF TooMuch(left[m - 1]) THEN GivenUp(left[m - 1]) ELSE left[m - 1]]

LEMMA EvictionsExist ==
    ASSUME NEW k, NEW n \in Nat
    PROVE  \E left : Evictions(k, n, left)
<1> DEFINE Missing == {m \in Nat : ~ \E left : Evictions(k, m, left)}
<1>1. SUFFICES ASSUME Missing # {} PROVE FALSE
  OBVIOUS
<1>2. PICK m \in Missing : \A l \in Missing : m <= l
  <2>1. Missing \subseteq Nat
    OBVIOUS
  <2> HIDE DEF Missing
  <2> QED
    BY <1>1, <2>1, LeastNatural
<1>3. m \in Nat /\ ~ \E left : Evictions(k, m, left)
  BY <1>2
<1>4. m # 0
  <2>1. Evictions(k, 0, [i \in 0..0 |-> k])
    BY DEF Evictions
  <2> QED
    BY <1>3, <2>1
<1>5. PICK less : Evictions(k, m - 1, less)
  <2>1. m - 1 \in Nat /\ ~(m <= m - 1)
    BY <1>3, <1>4
  <2> HIDE DEF Missing
  <2>2. m - 1 \notin Missing
    BY <1>2, <2>1
  <2> QED
    BY <2>1, <2>2 DEF Missing
<1> DEFINE one == IF TooMuch(less[m - 1]) THEN GivenUp(less[m - 1]) ELSE less[m - 1]
           left == [i \in 0..m |-> IF i = m THEN one ELSE less[i]]
<1>6. Evictions(k, m, left)
  <2>1. \A i \in 0..(m - 1) : left[i] = less[i] /\ i \in 0..m
    BY <1>3
  <2>2. left[m] = one
    BY <1>3
  <2>3. \A i \in 0..(m - 1) : less[i] =
          IF i = 0 THEN k ELSE IF TooMuch(less[i - 1]) THEN GivenUp(less[i - 1]) ELSE less[i - 1]
    BY <1>5 DEF Evictions
  <2> DEFINE next == [i \in 0..m |->
          IF i = 0 THEN k ELSE IF TooMuch(left[i - 1]) THEN GivenUp(left[i - 1]) ELSE left[i - 1]]
  <2>4. \A i \in 0..m : left[i] = next[i]
    <3>1. TAKE i \in 0..m
    <3>2. CASE i = m
      <4>1. m - 1 \in 0..(m - 1)
        BY <1>3, <1>4
      <4>2. left[m - 1] = less[m - 1]
        BY <2>1, <4>1
      <4>3. next[m] = one
        BY <1>3, <1>4, <4>2
      <4> QED
        BY <2>2, <3>2, <4>3
    <3>3. CASE i # m
      <4>1. i \in 0..(m - 1) /\ (i # 0 => i - 1 \in 0..(m - 1))
        BY <1>3, <3>3
      <4> HIDE DEF left
      <4> QED
        BY <2>1, <2>3, <4>1
    <3> QED
      BY <3>2, <3>3
  <2>5. left = next
    BY <2>4
  <2> QED
    BY <2>5 DEF Evictions
<1> QED
  BY <1>3, <1>6

LEMMA NothingIsNotTooMuch ==
    ASSUME NEW k, Accounted(k), UsedSlots(k) = {}
    PROVE  ~TooMuch(k)
<1>1. k.bytes = 0
  BY TotalEmpty DEF Accounted, Counted
<1>2. Cardinality(DOMAIN k.notes) = 0
  BY AsManyNotes, FS_EmptySet DEF Accounted
<1> QED
  BY <1>1, <1>2, Constants DEF TooMuch

\* Evicting as often as there are notes ends within the limits.
LEMMA WithinAccounted ==
    ASSUME NEW k, Accounted(k)
    PROVE  /\ Accounted(Within(k)) /\ ~TooMuch(Within(k))
           /\ Held(Within(k)) \subseteq Held(k)
           /\ Within(k).indexes = k.indexes /\ Len(Within(k).slots) = Len(k.slots)
<1> DEFINE n == Cardinality(UsedSlots(k))
<1>1. n \in Nat
  BY UsedFacts DEF Accounted
<1>2. PICK left : Evictions(k, n, left) /\ Within(k) = left[n]
  <2>1. \E left : Evictions(k, n, left)
    BY <1>1, EvictionsExist
  <2> QED
    BY <2>1 DEF Within, Evictions
<1> HIDE DEF n
<1> DEFINE Right(m) ==
              /\ Accounted(left[m]) /\ Held(left[m]) \subseteq Held(k)
              /\ left[m].indexes = k.indexes /\ Len(left[m].slots) = Len(k.slots)
              /\ TooMuch(left[m]) => Cardinality(UsedSlots(left[m])) = n - m
           Wrong == {m \in Nat : m <= n /\ ~Right(m)}
<1>3. Wrong = {}
  <2>1. SUFFICES ASSUME Wrong # {} PROVE FALSE
    OBVIOUS
  <2>2. PICK m \in Wrong : \A l \in Wrong : m <= l
    <3>1. Wrong \subseteq Nat
      OBVIOUS
    <3> HIDE DEF Wrong
    <3> QED
      BY <2>1, <3>1, LeastNatural
  <2>3. m \in Nat /\ m <= n /\ ~Right(m)
    BY <2>2
  <2>4. Right(0)
    <3>1. left[0] = k
      BY <1>1, <1>2 DEF Evictions
    <3>2. Cardinality(UsedSlots(k)) = n - 0
      BY <1>1 DEF n
    <3> QED
      BY <3>1, <3>2
  <2>5. m - 1 \in Nat /\ m - 1 <= n /\ m - 1 < m
    <3> HIDE DEF Right
    <3> QED
      BY <1>1, <2>3, <2>4
  <2>6. Right(m - 1)
    <3>1. m - 1 \notin Wrong
      <4> HIDE DEF Wrong
      <4> QED
        BY <2>2, <2>3, <2>5
    <3> QED
      BY <2>5, <3>1
  <2>7. left[m] = IF TooMuch(left[m - 1]) THEN GivenUp(left[m - 1]) ELSE left[m - 1]
    <3>1. m \in 0..n /\ m # 0
      BY <1>1, <2>3, <2>5
    <3> QED
      BY <1>2, <3>1 DEF Evictions
  <2>8. CASE TooMuch(left[m - 1])
    <3>1. Cardinality(UsedSlots(left[m - 1])) = n - (m - 1) /\ n - (m - 1) > 0
      BY <1>1, <2>3, <2>5, <2>6, <2>8
    <3>2. UsedSlots(left[m - 1]) # {}
      <4>1. Cardinality({}) = 0
        BY FS_EmptySet
      <4>2. Cardinality(UsedSlots(left[m - 1])) # 0
        BY <1>1, <2>3, <3>1
      <4> QED
        BY <4>1, <4>2
    <3>3. left[m] = GivenUp(left[m - 1])
      BY <2>7, <2>8
    <3>4. /\ Accounted(GivenUp(left[m - 1]))
          /\ Cardinality(UsedSlots(GivenUp(left[m - 1]))) = Cardinality(UsedSlots(left[m - 1])) - 1
          /\ Held(GivenUp(left[m - 1])) \subseteq Held(left[m - 1])
          /\ GivenUp(left[m - 1]).indexes = left[m - 1].indexes
          /\ Len(GivenUp(left[m - 1]).slots) = Len(left[m - 1].slots)
      BY <2>6, <3>2, GivenUpAccounted
    <3>5. Right(m)
      BY <1>1, <2>3, <2>6, <3>1, <3>3, <3>4
    <3> QED
      BY <2>3, <3>5
  <2>9. CASE ~TooMuch(left[m - 1])
    <3>1. left[m] = left[m - 1]
      BY <2>7, <2>9
    <3>2. Right(m)
      BY <2>6, <2>9, <3>1
    <3> QED
      BY <2>3, <3>2
  <2> QED
    BY <2>8, <2>9
<1>4. Right(n)
  BY <1>1, <1>3
<1>5. ~TooMuch(left[n])
  <2>1. SUFFICES ASSUME TooMuch(left[n]) PROVE FALSE
    OBVIOUS
  <2>2. Cardinality(UsedSlots(left[n])) = 0
    BY <1>1, <1>4, <2>1
  <2>3. UsedSlots(left[n]) = {}
    BY <1>4, <2>2, UsedFacts, FS_EmptySet DEF Accounted
  <2> QED
    BY <1>4, <2>1, <2>3, NothingIsNotTooMuch
<1> QED
  BY <1>2, <1>4, <1>5

LEMMA KeepAccounted ==
    ASSUME NEW k, Accounted(k), WithinLimits(k), NEW start,
           NEW key \in Notes, NEW text \in Texts, NEW identity \in Identities
    PROVE  /\ Accounted(Keep(k, key, text, identity, start))
           /\ WithinLimits(Keep(k, key, text, identity, start))
           /\ Keep(k, key, text, identity, start).indexes = k.indexes
           /\ \A h \in Held(Keep(k, key, text, identity, start)) :
                \/ h \in Held(k)
                \/ h = <<text, identity>> /\ Len(text) = identity.size /\ Settled(identity, start)
<1> DEFINE w == Written(k, key, text, identity)
<1>1. CASE Len(text) # identity.size \/ Len(text) > MaxNoteBytes \/ ~Settled(identity, start)
  <2>1. Keep(k, key, text, identity, start) = k
    BY <1>1 DEF Keep
  <2> QED
    BY <2>1
<1>2. CASE ~(Len(text) # identity.size \/ Len(text) > MaxNoteBytes \/ ~Settled(identity, start))
  <2>1. /\ Accounted(w) /\ Held(w) \subseteq Held(k) \union {<<text, identity>>}
        /\ w.indexes = k.indexes /\ Len(w.slots) <= MaxNotes + 1
    BY WrittenAccounted DEF WithinLimits
  <2>2. Keep(k, key, text, identity, start) = Within(w)
    BY <1>2 DEF Keep
  <2> HIDE DEF w
  <2>3. /\ Accounted(Within(w)) /\ ~TooMuch(Within(w)) /\ Held(Within(w)) \subseteq Held(w)
        /\ Within(w).indexes = w.indexes /\ Len(Within(w).slots) = Len(w.slots)
    BY <2>1, WithinAccounted
  <2>4. WithinLimits(Within(w))
    <3>1. Within(w).bytes \in Int /\ Cardinality(DOMAIN Within(w).notes) \in Nat
      BY <2>3, AsManyNotes, UsedFacts DEF Accounted, Shaped
    <3> QED
      BY <2>1, <2>3, <3>1, Constants DEF TooMuch, WithinLimits
  <2> QED
    BY <1>2, <2>1, <2>2, <2>3, <2>4
<1> QED
  BY <1>1, <1>2

LEMMA LookedAccounted ==
    ASSUME NEW k, Accounted(k), WithinLimits(k), NEW p \in DOMAIN k.notes
    PROVE  /\ Accounted(Looked(k, p)) /\ WithinLimits(Looked(k, p))
           /\ Looked(k, p).indexes = k.indexes /\ Held(Looked(k, p)) = Held(k)
           /\ k.notes[p] \in UsedSlots(k)
<1> DEFINE w == Looked(k, p)
           at == k.notes[p]
           slot == [k.slots[at] EXCEPT !.used = k.clock + 1]
<1>1. at \in UsedSlots(k) /\ at \in DOMAIN k.slots /\ k.slots[at] \in Slots
  BY UsedFacts DEF Accounted, Mapped, UsedSlots
<1>2. k.slots \in Seq(Slots) /\ k.clock \in Nat
  BY DEF Accounted, Shaped
<1>3. slot \in Slots /\ slot.text = k.slots[at].text /\ slot.key = k.slots[at].key
      /\ slot.identity = k.slots[at].identity
  BY <1>1, <1>2 DEF Slots
<1>4. /\ IsKept(w) /\ w.notes = k.notes /\ w.bytes = k.bytes /\ w.clock = k.clock + 1
      /\ w.indexes = k.indexes /\ w.slots = [k.slots EXCEPT ![at] = slot]
  <2>1. k = [notes |-> k.notes, slots |-> k.slots, bytes |-> k.bytes, clock |-> k.clock,
             indexes |-> k.indexes]
    BY DEF Accounted, Shaped, IsKept
  <2>2. w = [k EXCEPT !.slots = [k.slots EXCEPT ![at] = slot], !.clock = k.clock + 1]
    BY DEF Looked
  <2> HIDE DEF w, slot, at
  <2> QED
    BY <2>1, <2>2 DEF IsKept
<1> HIDE DEF w, slot, at
<1>5. w.slots \in Seq(Slots) /\ DOMAIN w.slots = DOMAIN k.slots /\ Len(w.slots) = Len(k.slots)
  BY <1>1, <1>2, <1>3, <1>4
<1>6. \A i \in DOMAIN k.slots :
         /\ w.slots[i].text = k.slots[i].text /\ w.slots[i].key = k.slots[i].key
         /\ w.slots[i].identity = k.slots[i].identity
  BY <1>1, <1>2, <1>3, <1>4
<1>7. UsedSlots(w) = UsedSlots(k) /\ UsedSlots(k) \subseteq DOMAIN k.slots
  BY <1>5, <1>6 DEF UsedSlots
<1>8. Shaped(w) /\ Mapped(w)
  <2>1. Shaped(w)
    BY <1>2, <1>4, <1>5 DEF Accounted, Shaped
  <2>2. \A q \in DOMAIN k.notes : k.notes[q] \in UsedSlots(k) /\ k.slots[k.notes[q]].key = q
    BY DEF Accounted, Mapped
  <2>3. \A q \in DOMAIN w.notes : w.notes[q] \in UsedSlots(w) /\ w.slots[w.notes[q]].key = q
    BY <1>4, <1>6, <1>7, <2>2
  <2>4. \A i \in UsedSlots(w) :
          /\ w.slots[i].key \in DOMAIN w.notes /\ w.notes[w.slots[i].key] = i
          /\ w.slots[i].identity \in Identities
    BY <1>4, <1>6, <1>7 DEF Accounted, Mapped
  <2> QED
    BY <2>1, <2>3, <2>4 DEF Mapped
<1>9. Counted(w)
  <2>1. \A i \in UsedSlots(k) : Costs(w)[i] = Costs(k)[i]
    BY <1>6, <1>7 DEF Costs, CostOf
  <2>2. Total(Costs(w), UsedSlots(k)) = Total(Costs(k), UsedSlots(k))
    BY <2>1, UsedFacts, TotalSame DEF Accounted
  <2> QED
    BY <1>4, <1>7, <2>2 DEF Accounted, Counted
<1>10. Held(w) = Held(k)
  BY <1>6, <1>7 DEF Held
<1> QED
  BY <1>1, <1>4, <1>5, <1>8, <1>9, <1>10 DEF Accounted, WithinLimits, w, at

\* The name indexes are apart from the notes.
LEMMA IndexesApart ==
    ASSUME NEW k, Accounted(k), WithinLimits(k), NEW indexes,
           NEW w, w = [k EXCEPT !.indexes = indexes]
    PROVE  Accounted(w) /\ WithinLimits(w) /\ w.indexes = indexes /\ Held(w) = Held(k)
<1>1. /\ IsKept(w) /\ w.notes = k.notes /\ w.bytes = k.bytes /\ w.clock = k.clock
      /\ w.indexes = indexes /\ w.slots = k.slots
  <2>1. k = [notes |-> k.notes, slots |-> k.slots, bytes |-> k.bytes, clock |-> k.clock,
             indexes |-> k.indexes]
    BY DEF Accounted, Shaped, IsKept
  <2> QED
    BY <2>1 DEF IsKept
<1>2. UsedSlots(w) = UsedSlots(k)
  BY <1>1 DEF UsedSlots
<1>3. Costs(w) = Costs(k)
  BY <1>1, <1>2 DEF Costs
<1>4. Shaped(w) /\ Mapped(w)
  BY <1>1, <1>2 DEF Accounted, Shaped, Mapped
<1>5. Counted(w)
  BY <1>1, <1>2, <1>3 DEF Accounted, Counted
<1> QED
  BY <1>1, <1>2, <1>4, <1>5 DEF Accounted, WithinLimits, Held

\* An index put first leaves only those that were kept after it.
LEMMA KeepIndexKeeps ==
    ASSUME NEW k, Accounted(k), WithinLimits(k), NEW index,
           DOMAIN k.indexes = 1..MaxIndexes
    PROVE  /\ Accounted(KeepIndex(k, index)) /\ WithinLimits(KeepIndex(k, index))
           /\ Held(KeepIndex(k, index)) = Held(k)
           /\ DOMAIN KeepIndex(k, index).indexes = 1..MaxIndexes
           /\ \A i \in 1..MaxIndexes :
                \/ KeepIndex(k, index).indexes[i] = index
                \/ \E j \in 1..MaxIndexes : KeepIndex(k, index).indexes[i] = k.indexes[j]
<1> DEFINE at == Min({MaxIndexes} \union {i \in 1..MaxIndexes : k.indexes[i] = index})
           indexes == [i \in 1..MaxIndexes |->
                         CASE i = 1 -> index
                           [] i \in 2..at -> k.indexes[i - 1]
                           [] OTHER -> k.indexes[i]]
<1>1. KeepIndex(k, index) = [k EXCEPT !.indexes = indexes]
  BY DEF KeepIndex
<1>2. ASSUME NEW i \in 1..MaxIndexes
      PROVE  \/ indexes[i] = index
             \/ \E j \in 1..MaxIndexes : indexes[i] = k.indexes[j]
  <2> HIDE DEF at
  <2>1. CASE i = 1
    BY <2>1
  <2>2. CASE i # 1
    <3>1. i - 1 \in 1..MaxIndexes
      BY <2>2, Constants
    <3>2. indexes[i] = k.indexes[i - 1] \/ indexes[i] = k.indexes[i]
      BY <2>2
    <3> QED
      BY <3>1, <3>2
  <2> QED
    BY <2>1, <2>2
<1> HIDE DEF indexes
<1>3. /\ Accounted(KeepIndex(k, index)) /\ WithinLimits(KeepIndex(k, index))
      /\ KeepIndex(k, index).indexes = indexes /\ Held(KeepIndex(k, index)) = Held(k)
  BY <1>1, IndexesApart
<1>4. DOMAIN indexes = 1..MaxIndexes
  BY DEF indexes
<1> QED
  BY <1>2, <1>3, <1>4

LEMMA DropIndexKeeps ==
    ASSUME NEW k, Accounted(k), WithinLimits(k), NEW index,
           DOMAIN k.indexes = 1..MaxIndexes
    PROVE  /\ Accounted(DropIndex(k, index)) /\ WithinLimits(DropIndex(k, index))
           /\ Held(DropIndex(k, index)) = Held(k)
           /\ DOMAIN DropIndex(k, index).indexes = 1..MaxIndexes
           /\ \A i \in 1..MaxIndexes :
                DropIndex(k, index).indexes[i] \in {k.indexes[i], None}
<1> DEFINE indexes == [i \in 1..MaxIndexes |-> IF k.indexes[i] = index THEN None ELSE k.indexes[i]]
<1>1. DropIndex(k, index) = [k EXCEPT !.indexes = indexes]
  BY DEF DropIndex
<1>2. \A i \in 1..MaxIndexes : indexes[i] \in {k.indexes[i], None}
  OBVIOUS
<1>3. DOMAIN indexes = 1..MaxIndexes
  OBVIOUS
<1> HIDE DEF indexes
<1>4. /\ Accounted(DropIndex(k, index)) /\ WithinLimits(DropIndex(k, index))
      /\ DropIndex(k, index).indexes = indexes /\ Held(DropIndex(k, index)) = Held(k)
  BY <1>1, IndexesApart
<1> QED
  BY <1>2, <1>3, <1>4

\* The index looked at is one of those kept.
LEMMA LastIndexKept ==
    ASSUME NEW k, LastIndex(k) # None
    PROVE  \E i \in 1..MaxIndexes : k.indexes[i] = LastIndex(k)
<1> DEFINE of == {i \in 1..MaxIndexes : k.indexes[i] # None}
           T == {MaxIndexes - i : i \in of}
<1>1. of # {} /\ LastIndex(k) = k.indexes[Max(of)]
  BY DEF LastIndex
<1>2. T \subseteq Nat /\ T # {}
  BY <1>1, Constants
<1>3. PICK n \in T : \A m \in T : n <= m
  BY <1>2, LeastNatural
<1>4. PICK i \in of : n = MaxIndexes - i
  BY <1>3
<1>5. ASSUME NEW j \in of
      PROVE  i >= j
  <2>1. n <= MaxIndexes - j
    BY <1>3
  <2> QED
    BY <1>4, <2>1, Constants
<1>6. Max(of) \in of
  <2> HIDE DEF of
  <2> QED
    BY <1>4, <1>5 DEF Max
<1> QED
  BY <1>1, <1>6
-----------------------------------------------------------------------------
(***************************************************************************)
(* What is known of a text, a file being read or an index that was noted   *)
(* earlier: as long as the file or the folders still have the times noted, *)
(* it is what they hold.  The time noted lies a settle time back, so any   *)
(* change since shows.                                                     *)
(***************************************************************************)
Worlds == [now : Nat, changes : Nat, entry : [Notes -> Inodes \union {None}],
           file : [Inodes -> [text : Texts, modified : Nat, changed : Nat]],
           folder : [Folders -> FolderIds \union {None}]]

Here == [now |-> now, changes |-> changes, entry |-> entry, file |-> file, folder |-> folder]

\* The root is always there; what was moved away has no notes.
Sound(w) ==
    /\ w \in Worlds /\ w.folder[Root] # None
    /\ \A p \in Notes : w.folder[FolderOf[p]] = None => w.entry[p] = None

StampAt(w) == w.now - (w.now % TickLen)

Past(identity, w) == identity.changed + SettleTime < w.now

Turned(w, v, f) == v.folder[f] # None => v.folder[f].changed = StampAt(w)

\* What a step may do to the world: what changes is stamped.
Later(w, v) ==
    /\ w.now <= v.now /\ w.changes <= v.changes
    /\ w.changes = v.changes => v.folder = w.folder
    /\ \A i \in Inodes : v.file[i] = w.file[i] \/ v.file[i].changed = StampAt(w)
    /\ \A f \in Folders : v.folder[f] = w.folder[f] \/ Turned(w, v, f)
    /\ \A f \in Folders : (v.folder[f] = None <=> w.folder[f] = None) \/ Turned(w, v, Root)
    /\ \A p \in Notes : \/ (v.entry[p] = None <=> w.entry[p] = None)
                        \/ Turned(w, v, FolderOf[p]) \/ Turned(w, v, Root)

\* A text kept with a file's identity.
Trusted(text, identity, w) ==
    /\ text \in Texts /\ identity \in Identities /\ Past(identity, w)
    /\ w.file[identity.inode].changed = identity.changed => w.file[identity.inode].text = text

\* A file opened and looked at, of which some text is read.
OpenFiles == [path : Notes, inode : Inodes, start : Nat, identity : Identities]

StillAs(f, w) ==
    f.identity.changed + SettleTime < f.start /\ w.file[f.inode].changed = f.identity.changed

Opened(f, w) ==
    /\ f \in OpenFiles /\ f.start <= w.now /\ f.identity.inode = f.inode
    /\ StillAs(f, w) => Len(w.file[f.inode].text) = f.identity.size

ReadSoFar(f, text, w) ==
    StillAs(f, w) => /\ Len(text) <= Len(w.file[f.inode].text)
                     /\ \A k \in 1..Len(text) : text[k] = w.file[f.inode].text[k]

\* A folder as it was noted.
Noted == [name : Folders, identity : FolderIds]

Same(was, w) ==
    /\ w.folder[was.name] # None
    /\ w.folder[was.name].inode = was.identity.inode
    /\ w.folder[was.name].changed = was.identity.changed

AllSame(index, w) == \A j \in 1..Len(index.folders) : Same(index.folders[j], w)

Indexes == [folders : Seq(Noted), names : SUBSET Notes, keep : BOOLEAN]

\* An index being made: while its folders are as they were noted it has the notes of those listed.
Building(index, listed, w) ==
    /\ index \in Indexes
    /\ Len(index.folders) >= 1 /\ index.folders[1].name = Root
    /\ index.keep =>
         /\ \A j \in 1..Len(index.folders) : Past(index.folders[j].identity, w)
         /\ AllSame(index, w) =>
              /\ index.names = {p \in Notes : FolderOf[p] \in listed /\ w.entry[p] # None}
              /\ \A f \in listed : \/ w.folder[f] = None
                                  \/ \E j \in 1..Len(index.folders) : index.folders[j].name = f

Indexed(index, w) == index.keep /\ Building(index, Folders, w)

\* What is known of a call.
StatCalls == [step : {"stat"}, by : {"find", "read"}, path : Notes, text : Texts, identity : Identities]
OpenCalls == [step : {"open"}, by : {"find", "read"}, path : Notes]
OpenedCalls == [step : {"opened"}, by : {"find", "read"}, path : Notes, file : [inode : Inodes, start : Nat]]
ReadCalls == [step : {"read"}, path : Notes, file : OpenFiles, text : Texts]
CheckCalls == [step : {"check"}, path : Notes, index : Indexes, at : Nat \ {0}, since : Nat]
WalkCalls == [step : {"root", "sub", "list"}, path : Notes, start : Nat, index : Indexes]

IndexSteps == {"index", "check", "walk", "begun", "root", "sub", "list"}

CallTrue(c, w) ==
    /\ c.step \in {"idle", "stat", "open", "opened", "read", "look"} \union IndexSteps
    /\ c.step = "stat" => c \in StatCalls /\ Trusted(c.text, c.identity, w)
    /\ c.step = "open" => c \in OpenCalls
    /\ c.step = "opened" => c \in OpenedCalls /\ c.file.start <= w.now
    /\ c.step = "read" => c \in ReadCalls /\ Opened(c.file, w) /\ ReadSoFar(c.file, c.text, w)
    /\ c.step \in {"look", "index", "walk", "begun"} => c.path \in Notes
    /\ c.step = "check" =>
         /\ c \in CheckCalls /\ Indexed(c.index, w) /\ c.since <= w.changes
         /\ c.since = w.changes =>
              \A j \in 1..Len(c.index.folders) : j < c.at => Same(c.index.folders[j], w)
    /\ c.step = "begun" => c.start \in Nat /\ c.start <= w.now
    /\ c.step \in {"root", "sub", "list"} => c \in WalkCalls /\ c.start <= w.now
    /\ c.step = "root" => Building(c.index, {}, w) /\ Len(c.index.folders) = 1
    /\ c.step = "sub" => Building(c.index, {Root}, w) /\ Len(c.index.folders) = 1
    /\ c.step = "list" => Building(c.index, {Root}, w) /\ Len(c.index.folders) = 2 /\ c.index.folders[2].name = Sub

Vaults == [hit : [path : Notes, text : Texts] \union {None}, open : OpenFiles \union {None},
           index : (SUBSET Notes) \union {None}]

VaultTrue(v, w) == v \in Vaults /\ (v.open # None => Opened(v.open, w))

KeptTrue(k, w) ==
    /\ Accounted(k) /\ WithinLimits(k)
    /\ \A h \in Held(k) : Trusted(h[1], h[2], w)
    /\ DOMAIN k.indexes = 1..MaxIndexes
    /\ \A i \in 1..MaxIndexes : k.indexes[i] # None => Indexed(k.indexes[i], w)

NInv ==
    /\ Sound(Here) /\ KeptTrue(kept, Here)
    /\ DOMAIN vault = Threads /\ \A t \in Threads : VaultTrue(vault[t], Here)
    /\ DOMAIN call = Threads /\ \A t \in Threads : CallTrue(call[t], Here)
    /\ \A t \in Threads : call[t].step \in IndexSteps => vault[t].index = None

LEMMA StampFacts ==
    ASSUME NEW w, w.now \in Nat
    PROVE  StampAt(w) \in Nat /\ StampAt(w) <= w.now /\ w.now <= StampAt(w) + SettleTime
<1>1. (w.now % TickLen) \in 0..(TickLen - 1)
  BY Constants
<1>2. w.now % TickLen <= w.now
  BY Constants
<1> QED
  BY <1>1, <1>2, Constants DEF StampAt

LEMMA SameLater ==
    ASSUME NEW w, Sound(w), NEW v, Sound(v), Later(w, v),
           NEW was \in Noted, Past(was.identity, w), Same(was, v)
    PROVE  Same(was, w) /\ ~Turned(w, v, was.name)
<1>1. w.now \in Nat /\ was.identity.changed \in Nat /\ was.name \in Folders
  BY DEF Sound, Worlds, Noted, FolderIds
<1>2. StampAt(w) # was.identity.changed
  BY <1>1, StampFacts, Constants DEF Past
<1>3. ~Turned(w, v, was.name)
  BY <1>2 DEF Same, Turned
<1> QED
  BY <1>1, <1>3 DEF Later, Same

LEMMA PastLater ==
    ASSUME NEW w, Sound(w), NEW v, Sound(v), Later(w, v), NEW identity, identity.changed \in Nat,
           Past(identity, w)
    PROVE  Past(identity, v)
BY Constants DEF Past, Later, Sound, Worlds

LEMMA TrustedLater ==
    ASSUME NEW w, Sound(w), NEW v, Sound(v), Later(w, v),
           NEW text, NEW identity, Trusted(text, identity, w)
    PROVE  Trusted(text, identity, v)
<1>1. w.now \in Nat /\ identity.changed \in Nat /\ identity.inode \in Inodes
  BY DEF Sound, Worlds, Trusted, Identities
<1>2. StampAt(w) # identity.changed
  BY <1>1, StampFacts, Constants DEF Past, Trusted
<1>3. Past(identity, v)
  BY <1>1, PastLater DEF Trusted
<1> QED
  BY <1>1, <1>2, <1>3 DEF Later, Trusted

LEMMA StillAsLater ==
    ASSUME NEW w, Sound(w), NEW v, Sound(v), Later(w, v),
           NEW f \in OpenFiles, f.start <= w.now, StillAs(f, v)
    PROVE  StillAs(f, w) /\ v.file[f.inode] = w.file[f.inode]
<1>1. w.now \in Nat /\ f.identity.changed \in Nat /\ f.inode \in Inodes /\ f.start \in Nat
  BY DEF Sound, Worlds, OpenFiles, Identities
<1>2. StampAt(w) # f.identity.changed
  BY <1>1, StampFacts, Constants DEF StillAs
<1> QED
  BY <1>1, <1>2 DEF Later, StillAs

LEMMA OpenedLater ==
    ASSUME NEW w, Sound(w), NEW v, Sound(v), Later(w, v), NEW f, Opened(f, w)
    PROVE  /\ Opened(f, v)
           /\ \A text : ReadSoFar(f, text, w) => ReadSoFar(f, text, v)
<1>1. w.now \in Nat /\ v.now \in Nat /\ w.now <= v.now /\ f \in OpenFiles /\ f.start \in Nat /\ f.start <= w.now
  BY DEF Sound, Worlds, Later, Opened, OpenFiles
<1>2. f.start <= v.now
  BY <1>1
<1>3. StillAs(f, v) => StillAs(f, w) /\ v.file[f.inode] = w.file[f.inode]
  BY <1>1, StillAsLater
<1> QED
  BY <1>1, <1>2, <1>3 DEF Opened, ReadSoFar

LEMMA BuildingLater ==
    ASSUME NEW w, Sound(w), NEW v, Sound(v), Later(w, v),
           NEW index, NEW listed \in SUBSET Folders, Building(index, listed, w)
    PROVE  Building(index, listed, v)
<1>1. /\ index \in Indexes /\ Len(index.folders) \in Nat /\ Len(index.folders) >= 1
      /\ index.folders[1].name = Root
      /\ \A j \in 1..Len(index.folders) : index.folders[j] \in Noted
  BY DEF Building, Indexes
<1>2. SUFFICES ASSUME index.keep
      PROVE  /\ \A j \in 1..Len(index.folders) : Past(index.folders[j].identity, v)
             /\ AllSame(index, v) =>
                  /\ index.names = {p \in Notes : FolderOf[p] \in listed /\ v.entry[p] # None}
                  /\ \A f \in listed : \/ v.folder[f] = None
                                       \/ \E j \in 1..Len(index.folders) : index.folders[j].name = f
  BY <1>1 DEF Building
<1>3. \A j \in 1..Len(index.folders) : Past(index.folders[j].identity, w)
  BY <1>2 DEF Building
<1>4. \A j \in 1..Len(index.folders) : Past(index.folders[j].identity, v)
  <2>1. \A j \in 1..Len(index.folders) : index.folders[j].identity.changed \in Nat
    BY <1>1 DEF Noted, FolderIds
  <2> QED
    BY <1>3, <2>1, PastLater
<1>5. SUFFICES ASSUME AllSame(index, v)
      PROVE  /\ index.names = {p \in Notes : FolderOf[p] \in listed /\ v.entry[p] # None}
             /\ \A f \in listed : \/ v.folder[f] = None
                                  \/ \E j \in 1..Len(index.folders) : index.folders[j].name = f
  BY <1>4
<1>6. \A j \in 1..Len(index.folders) : Same(index.folders[j], w) /\ ~Turned(w, v, index.folders[j].name)
  BY <1>1, <1>3, <1>5, SameLater DEF AllSame
<1>7. ~Turned(w, v, Root)
  BY <1>1, <1>6
<1>8. /\ index.names = {p \in Notes : FolderOf[p] \in listed /\ w.entry[p] # None}
      /\ \A f \in listed : \/ w.folder[f] = None
                           \/ \E j \in 1..Len(index.folders) : index.folders[j].name = f
  BY <1>2, <1>6 DEF Building, AllSame
<1>9. \A f \in listed : \/ v.folder[f] = None
                        \/ \E j \in 1..Len(index.folders) : index.folders[j].name = f
  BY <1>7, <1>8 DEF Later
<1>10. ASSUME NEW p \in Notes, FolderOf[p] \in listed
       PROVE  v.entry[p] = None <=> w.entry[p] = None
  <2>1. CASE v.folder[FolderOf[p]] = None
    <3>1. w.folder[FolderOf[p]] = None
      BY <1>7, <1>10, <2>1 DEF Later
    <3> QED
      BY <2>1, <3>1 DEF Sound
  <2>2. CASE v.folder[FolderOf[p]] # None
    <3>1. ~Turned(w, v, FolderOf[p])
      BY <1>6, <1>9, <1>10, <2>2
    <3> QED
      BY <1>7, <3>1 DEF Later
  <2> QED
    BY <2>1, <2>2
<1> QED
  BY <1>8, <1>9, <1>10

LEMMA CallLater ==
    ASSUME NEW w, Sound(w), NEW v, Sound(v), Later(w, v), NEW c, CallTrue(c, w)
    PROVE  CallTrue(c, v)
<1>0. w.now \in Nat /\ v.now \in Nat /\ w.now <= v.now /\ w.changes \in Nat /\ v.changes \in Nat /\ w.changes <= v.changes
  BY DEF Sound, Worlds, Later
<1>1. c.step = "stat" => Trusted(c.text, c.identity, v)
  BY TrustedLater DEF CallTrue
<1>2. c.step = "opened" => c.file.start <= v.now
  BY <1>0 DEF CallTrue, OpenedCalls
<1>3. c.step = "read" => Opened(c.file, v) /\ ReadSoFar(c.file, c.text, v)
  BY OpenedLater DEF CallTrue
<1>4. c.step = "check" =>
        /\ Indexed(c.index, v) /\ c.since <= v.changes
        /\ c.since = v.changes =>
             \A j \in 1..Len(c.index.folders) : j < c.at => Same(c.index.folders[j], v)
  <2>1. SUFFICES ASSUME c.step = "check"
        PROVE  /\ Indexed(c.index, v) /\ c.since <= v.changes
               /\ c.since = v.changes =>
                    \A j \in 1..Len(c.index.folders) : j < c.at => Same(c.index.folders[j], v)
    OBVIOUS
  <2>2. /\ c \in CheckCalls /\ Indexed(c.index, w) /\ c.since <= w.changes /\ c.since \in Nat
        /\ c.since = w.changes =>
             \A j \in 1..Len(c.index.folders) : j < c.at => Same(c.index.folders[j], w)
    BY <2>1 DEF CallTrue, CheckCalls
  <2>3. Indexed(c.index, v)
    BY <2>2, BuildingLater DEF Indexed
  <2>4. c.since = v.changes => c.since = w.changes /\ v.folder = w.folder
    BY <1>0, <2>2 DEF Later
  <2> QED
    BY <1>0, <2>2, <2>3, <2>4 DEF Same
<1>5. c.step \in {"root", "sub", "list"} => c.start <= v.now
  BY <1>0 DEF CallTrue, WalkCalls
<1>6. c.step = "begun" => c.start <= v.now
  BY <1>0 DEF CallTrue
<1>7. /\ c.step = "root" => Building(c.index, {}, v)
      /\ c.step = "sub" => Building(c.index, {Root}, v)
      /\ c.step = "list" => Building(c.index, {Root}, v)
  <2>1. {} \in SUBSET Folders /\ {Root} \in SUBSET Folders
    BY DEF Folders
  <2> QED
    BY <2>1, BuildingLater DEF CallTrue
<1> QED
  BY <1>1, <1>2, <1>3, <1>4, <1>5, <1>6, <1>7 DEF CallTrue

LEMMA VaultLater ==
    ASSUME NEW w, Sound(w), NEW v, Sound(v), Later(w, v), NEW u, VaultTrue(u, w)
    PROVE  VaultTrue(u, v)
BY OpenedLater DEF VaultTrue

LEMMA KeptLater ==
    ASSUME NEW w, Sound(w), NEW v, Sound(v), Later(w, v), NEW k, KeptTrue(k, w)
    PROVE  KeptTrue(k, v)
<1>1. \A h \in Held(k) : Trusted(h[1], h[2], v)
  BY TrustedLater DEF KeptTrue
<1>2. \A i \in 1..MaxIndexes : k.indexes[i] # None => Indexed(k.indexes[i], v)
  BY BuildingLater DEF KeptTrue, Indexed
<1> QED
  BY <1>1, <1>2 DEF KeptTrue
-----------------------------------------------------------------------------
(***************************************************************************)
(* The steps of the world.                                                 *)
(***************************************************************************)
\* The facts of Here, field by field.
LEMMA SoundHere ==
    Sound(Here) <=>
      /\ now \in Nat /\ changes \in Nat /\ entry \in [Notes -> Inodes \union {None}]
      /\ file \in [Inodes -> [text : Texts, modified : Nat, changed : Nat]]
      /\ folder \in [Folders -> FolderIds \union {None}] /\ folder[Root] # None
      /\ \A p \in Notes : folder[FolderOf[p]] = None => entry[p] = None
BY DEF Sound, Worlds, Here

LEMMA SoundHereNext ==
    Sound(Here)' <=>
      /\ now' \in Nat /\ changes' \in Nat /\ entry' \in [Notes -> Inodes \union {None}]
      /\ file' \in [Inodes -> [text : Texts, modified : Nat, changed : Nat]]
      /\ folder' \in [Folders -> FolderIds \union {None}] /\ folder'[Root] # None
      /\ \A p \in Notes : folder'[FolderOf[p]] = None => entry'[p] = None
BY DEF Sound, Worlds, Here

LEMMA LaterHere ==
    ASSUME now <= now', changes <= changes', changes = changes' => folder' = folder,
           \A i \in Inodes : file'[i] = file[i] \/ file'[i].changed = Stamp,
           \A f \in Folders : folder'[f] = folder[f] \/ (folder'[f] # None => folder'[f].changed = Stamp),
           \/ folder'[Root] # None => folder'[Root].changed = Stamp
           \/ /\ \A f \in Folders : folder'[f] = None <=> folder[f] = None
              /\ \A p \in Notes :
                   \/ (entry'[p] = None <=> entry[p] = None)
                   \/ folder'[FolderOf[p]] # None => folder'[FolderOf[p]].changed = Stamp
    PROVE  Later(Here, Here')
BY DEF Later, Here, Turned, StampAt, Stamp

LEMMA StampNatural ==
    ASSUME Sound(Here)
    PROVE  Stamp \in Nat
<1>1. Here.now = now /\ now \in Nat
  BY SoundHere DEF Here
<1>2. StampAt(Here) = Stamp
  BY <1>1 DEF StampAt, Stamp
<1> HIDE DEF Here
<1> QED
  BY <1>1, <1>2, StampFacts

LEMMA WorldStep ==
    ASSUME Sound(Here), World
    PROVE  Sound(Here)' /\ Later(Here, Here') /\ UNCHANGED <<kept, vault, call>>
<1>0. /\ now \in Nat /\ changes \in Nat /\ entry \in [Notes -> Inodes \union {None}]
      /\ file \in [Inodes -> [text : Texts, modified : Nat, changed : Nat]]
      /\ folder \in [Folders -> FolderIds \union {None}] /\ folder[Root] # None
      /\ \A p \in Notes : folder[FolderOf[p]] = None => entry[p] = None
      /\ Stamp \in Nat /\ Root \in Folders /\ Sub \in Folders
  BY SoundHere, StampNatural DEF Folders
<1>1. CASE Tick
  <2>1. Sound(Here)'
    BY <1>0, <1>1, SoundHereNext DEF Tick
  <2>2. Later(Here, Here')
    <3>1. now <= now' /\ changes <= changes' /\ folder' = folder /\ file' = file /\ entry' = entry
      BY <1>0, <1>1 DEF Tick
    <3> QED
      BY <3>1, LaterHere
  <2> QED
    BY <1>1, <2>1, <2>2 DEF Tick
<1>2. ASSUME Change
      PROVE  /\ changes' \in Nat /\ changes <= changes' /\ changes # changes' /\ now' = now /\ now <= now'
             /\ UNCHANGED <<kept, vault, call>>
  BY <1>0, <1>2 DEF Change
<1>3. ASSUME NEW p \in Notes, Write(p)
      PROVE  Sound(Here)' /\ Later(Here, Here') /\ UNCHANGED <<kept, vault, call>>
  <2>1. entry[p] \in Inodes
    BY <1>0, <1>3 DEF Write
  <2> DEFINE old == file[entry[p]].text
  <2>2. PICK text \in {[old EXCEPT ![k] = 1 - @] : k \in DOMAIN old} \union {Append(old, 1)}
                       \union (IF old = <<>> THEN {} ELSE {Front(old)}) :
             file' = [file EXCEPT ![entry[p]] = [text |-> text, modified |-> Stamp, changed |-> Stamp]]
    BY <1>3 DEF Write
  <2>3. text \in Texts
    <3>1. old \in Seq({0, 1})
      BY <1>0, <2>1 DEF Texts
    <3> HIDE DEF old
    <3>2. ASSUME NEW k \in DOMAIN old, text = [old EXCEPT ![k] = 1 - @]
          PROVE  text \in Texts
      <4>1. old[k] \in {0, 1}
        BY <3>1
      <4>2. 1 - old[k] \in {0, 1}
        BY <4>1
      <4>3. text = [old EXCEPT ![k] = 1 - old[k]]
        BY <3>2
      <4> QED
        BY <3>1, <4>2, <4>3 DEF Texts
    <3>3. CASE text = Append(old, 1)
      BY <3>1, <3>3 DEF Texts
    <3>4. CASE old # <<>> /\ text = Front(old)
      <4>1. Len(old) \in Nat \ {0}
        BY <3>1, <3>4
      <4>2. text = SubSeq(old, 1, Len(old) - 1)
        BY <3>4 DEF Front
      <4> QED
        BY <3>1, <4>1, <4>2 DEF Texts
    <3> QED
      BY <2>2, <3>2, <3>3, <3>4
  <2>4. file' \in [Inodes -> [text : Texts, modified : Nat, changed : Nat]]
        /\ \A i \in Inodes : file'[i] = file[i] \/ file'[i].changed = Stamp
    BY <1>0, <2>1, <2>2, <2>3
  <2>5. Change /\ UNCHANGED <<entry, folder>>
    BY <1>3 DEF Write
  <2> QED
    BY <1>0, <1>2, <2>4, <2>5, SoundHereNext, LaterHere
<1>4. ASSUME NEW p \in Notes, SetModified(p)
      PROVE  Sound(Here)' /\ Later(Here, Here') /\ UNCHANGED <<kept, vault, call>>
  <2>1. entry[p] \in Inodes
    BY <1>0, <1>4 DEF SetModified
  <2>2. file' \in [Inodes -> [text : Texts, modified : Nat, changed : Nat]]
        /\ \A i \in Inodes : file'[i] = file[i] \/ file'[i].changed = Stamp
    BY <1>0, <1>4, <2>1 DEF SetModified
  <2>3. Change /\ UNCHANGED <<entry, folder>>
    BY <1>4 DEF SetModified
  <2> QED
    BY <1>0, <1>2, <2>2, <2>3, SoundHereNext, LaterHere
<1>5. ASSUME NEW f \in Folders, folder[f] # None
      PROVE  /\ Touched(f) \in [Folders -> FolderIds \union {None}]
             /\ Touched(f)[f] # None /\ Touched(f)[f].changed = Stamp
             /\ \A g \in Folders : g # f => Touched(f)[g] = folder[g]
  <2>1. FolderIdentity(folder[f].inode, Stamp) \in FolderIds
    BY <1>0, <1>5 DEF FolderIdentity, FolderIds
  <2>2. FolderIdentity(folder[f].inode, Stamp) # None /\ FolderIdentity(folder[f].inode, Stamp).changed = Stamp
    BY <2>1, Constants DEF FolderIdentity
  <2> QED
    BY <1>0, <2>1, <2>2 DEF Touched
<1>6. ASSUME NEW p \in Notes, Replace(p)
      PROVE  Sound(Here)' /\ Later(Here, Here') /\ UNCHANGED <<kept, vault, call>>
  <2>1. PICK i \in Inodes, modified \in {0, Stamp} :
         /\ entry' = [entry EXCEPT ![p] = i]
         /\ file' = [file EXCEPT ![i] = [text |-> <<1, 1>>, modified |-> modified, changed |-> Stamp]]
    BY <1>6 DEF Replace
  <2>2. Change /\ folder[FolderOf[p]] # None /\ folder' = Touched(FolderOf[p]) /\ FolderOf[p] \in Folders
    BY <1>6, Constants DEF Replace
  <2>3. file' \in [Inodes -> [text : Texts, modified : Nat, changed : Nat]]
        /\ \A j \in Inodes : file'[j] = file[j] \/ file'[j].changed = Stamp
    <3>1. <<1, 1>> \in Texts /\ modified \in Nat
      BY <1>0 DEF Texts
    <3> QED
      BY <1>0, <2>1, <3>1
  <2>4. /\ folder' \in [Folders -> FolderIds \union {None}]
        /\ folder'[FolderOf[p]] # None /\ folder'[FolderOf[p]].changed = Stamp
        /\ \A g \in Folders : g # FolderOf[p] => folder'[g] = folder[g]
    BY <1>5, <2>2
  <2>5. entry' \in [Notes -> Inodes \union {None}] /\ \A q \in Notes : q # p => entry'[q] = entry[q]
    BY <1>0, <2>1
  <2>6. Sound(Here)'
    <3>1. \A q \in Notes : folder'[FolderOf[q]] = None => entry'[q] = None
      BY <1>0, <2>4, <2>5, Constants
    <3> QED
      BY <1>0, <1>2, <2>2, <2>3, <2>4, <2>5, <3>1, SoundHereNext
  <2>7. Later(Here, Here')
    BY <1>0, <1>2, <2>2, <2>3, <2>4, <2>5, LaterHere, Constants
  <2> QED
    BY <1>2, <2>2, <2>6, <2>7
<1>7. ASSUME NEW p \in Notes, Delete(p)
      PROVE  Sound(Here)' /\ Later(Here, Here') /\ UNCHANGED <<kept, vault, call>>
  <2>1. /\ Change /\ folder[FolderOf[p]] # None /\ folder' = Touched(FolderOf[p]) /\ FolderOf[p] \in Folders
        /\ entry' = [entry EXCEPT ![p] = None] /\ file' = file
    BY <1>0, <1>7, Constants DEF Delete
  <2>2. /\ folder' \in [Folders -> FolderIds \union {None}]
        /\ folder'[FolderOf[p]] # None /\ folder'[FolderOf[p]].changed = Stamp
        /\ \A g \in Folders : g # FolderOf[p] => folder'[g] = folder[g]
    BY <1>5, <2>1
  <2>3. entry' \in [Notes -> Inodes \union {None}] /\ \A q \in Notes : q # p => entry'[q] = entry[q]
    BY <1>0, <2>1
  <2>4. Sound(Here)'
    <3>1. \A q \in Notes : folder'[FolderOf[q]] = None => entry'[q] = None
      BY <1>0, <2>2, <2>3, Constants
    <3> QED
      BY <1>0, <1>2, <2>1, <2>2, <2>3, <3>1, SoundHereNext
  <2>5. Later(Here, Here')
    BY <1>0, <1>2, <2>1, <2>2, <2>3, LaterHere, Constants
  <2> QED
    BY <1>2, <2>1, <2>4, <2>5
<1>8. CASE MoveSub
  <2> DEFINE sub == IF folder[Sub] # None THEN None ELSE FolderIdentity("sub2", Stamp)
  <2>1. /\ Change /\ file' = file
        /\ folder' = [Touched(Root) EXCEPT ![Sub] = sub]
        /\ entry' = [p \in Notes |-> IF FolderOf[p] = Sub THEN None ELSE entry[p]]
    <3>1. Touched(Root)[Sub] = folder[Sub]
      BY <1>0, <1>5 DEF Root, Sub
    <3> QED
      BY <1>8, <3>1 DEF MoveSub
  <2>2. sub \in FolderIds \union {None} /\ (sub # None => sub.changed = Stamp)
    BY <1>0 DEF FolderIdentity, FolderIds
  <2> HIDE DEF sub
  <2>3. /\ folder' \in [Folders -> FolderIds \union {None}]
        /\ folder'[Root] # None /\ folder'[Root].changed = Stamp /\ folder'[Sub] = sub
    BY <1>0, <1>5, <2>1, <2>2 DEF Root, Sub
  <2>4. entry' \in [Notes -> Inodes \union {None}]
    BY <1>0, <2>1
  <2>5. Sound(Here)'
    <3>1. \A q \in Notes : folder'[FolderOf[q]] = None => entry'[q] = None
      BY <1>0, <2>1, <2>3, Constants DEF Folders
    <3> QED
      BY <1>0, <1>2, <2>1, <2>3, <2>4, <3>1, SoundHereNext
  <2>6. Later(Here, Here')
    <3>1. \A f \in Folders : folder'[f] = folder[f] \/ (folder'[f] # None => folder'[f].changed = Stamp)
      BY <2>2, <2>3 DEF Folders
    <3> QED
      BY <1>0, <1>2, <2>1, <2>3, <3>1, LaterHere
  <2> QED
    BY <1>2, <2>1, <2>5, <2>6
<1> QED
  BY <1>1, <1>3, <1>4, <1>6, <1>7, <1>8, Constants DEF World
-----------------------------------------------------------------------------
(***************************************************************************)
(* The steps of the threads.                                               *)
(***************************************************************************)
LEMMA InitNInv == Init => NInv
<1>1. SUFFICES ASSUME Init PROVE NInv
  OBVIOUS
<1>2. FirstInode \in [Notes -> Inodes]
  BY NotesHaveFiles DEF FirstInode
<1>3. \A f \in Folders : FolderIdentity(f, 0) \in FolderIds
  BY DEF FolderIdentity, FolderIds
<1>4. Sound(Here)
  <2>1. <<0, 0>> \in Texts
    BY DEF Texts
  <2>2. \A p \in Notes : folder[FolderOf[p]] # None
    BY <1>1, <1>3, Constants DEF Init
  <2> QED
    BY <1>1, <1>2, <1>3, <2>1, <2>2, SoundHere, Constants DEF Init, Folders
<1>5. KeptTrue(kept, Here)
  <2>1. /\ kept.slots = <<>> /\ kept.notes = [p \in {} |-> 0] /\ kept.bytes = 0 /\ kept.clock = 0
        /\ kept.indexes = [i \in 1..MaxIndexes |-> None] /\ IsKept(kept)
    BY <1>1 DEF Init, NothingKept, IsKept
  <2>2. UsedSlots(kept) = {} /\ DOMAIN kept.notes = {}
    BY <2>1 DEF UsedSlots
  <2>3. Shaped(kept) /\ Mapped(kept)
    BY <2>1, <2>2 DEF Shaped, Mapped
  <2>4. Counted(kept)
    BY <2>1, <2>2, TotalEmpty DEF Counted
  <2>5. WithinLimits(kept) /\ Held(kept) = {}
    BY <2>1, <2>2, FS_EmptySet, Constants, OneNoteFits DEF WithinLimits, Held
  <2> QED
    BY <2>1, <2>3, <2>4, <2>5 DEF KeptTrue, Accounted
<1>6. \A t \in Threads : VaultTrue(vault[t], Here)
  BY <1>1 DEF Init, NewVault, VaultTrue, Vaults
<1>7. \A t \in Threads : CallTrue(call[t], Here) /\ call[t].step \notin IndexSteps
  BY <1>1 DEF Init, Idle, CallTrue, IndexSteps
<1> QED
  BY <1>1, <1>4, <1>5, <1>6, <1>7 DEF Init, NInv

\* A step of a thread leaves the others where they are.
LEMMA StepOf ==
    ASSUME NInv, NEW t \in Threads, UNCHANGED world, KeptTrue(kept', Here),
           DOMAIN vault' = Threads, DOMAIN call' = Threads,
           \A u \in Threads : u # t => vault'[u] = vault[u] /\ call'[u] = call[u],
           VaultTrue(vault'[t], Here), CallTrue(call'[t], Here),
           call'[t].step \in IndexSteps => vault'[t].index = None
    PROVE  NInv'
<1>1. Here' = Here
  BY DEF Here, world
<1>2. Sound(Here)' /\ KeptTrue(kept, Here)'
  BY <1>1 DEF NInv, Sound, KeptTrue
<1>3. \A u \in Threads : VaultTrue(vault'[u], Here) /\ CallTrue(call'[u], Here)
                         /\ (call'[u].step \in IndexSteps => vault'[u].index = None)
  BY DEF NInv
<1>4. (\A u \in Threads : VaultTrue(vault[u], Here))' /\ (\A u \in Threads : CallTrue(call[u], Here))'
  BY <1>1, <1>3
<1> QED
  BY <1>2, <1>3, <1>4 DEF NInv

LEMMA Goes ==
    ASSUME NInv, NEW t \in Threads, NEW c, Go(t, c)
    PROVE  DOMAIN call' = Threads /\ call'[t] = c /\ \A u \in Threads : u # t => call'[u] = call[u]
BY DEF NInv, Go

LEMMA Sets ==
    ASSUME NInv, NEW t \in Threads, NEW v, Set(t, v)
    PROVE  DOMAIN vault' = Threads /\ vault'[t] = v /\ \A u \in Threads : u # t => vault'[u] = vault[u]
BY DEF NInv, Set

\* A thread that returns, or goes on with a call that is sound, with its vault as it was.
LEMMA GoesOn ==
    ASSUME NInv, NEW t \in Threads, UNCHANGED world, NEW c, Go(t, c), CallTrue(c, Here),
           KeptTrue(kept', Here), UNCHANGED vault,
           c.step \in IndexSteps => vault[t].index = None
    PROVE  NInv'
<1>1. DOMAIN call' = Threads /\ call'[t] = c /\ \A u \in Threads : u # t => call'[u] = call[u]
  BY Goes
<1>2. DOMAIN vault' = Threads /\ vault'[t] = vault[t] /\ VaultTrue(vault[t], Here)
  BY DEF NInv
<1> QED
  BY <1>1, <1>2, StepOf

LEMMA IdleTrue == CallTrue(Idle, Here) /\ Idle.step \notin IndexSteps
BY DEF Idle, CallTrue, IndexSteps

\* What a note kept is looked up as.
LEMMA LookUpTrue ==
    ASSUME NInv, NEW t \in Threads, NEW by \in {"find", "read"}, NEW p \in Notes, LookUp(t, by, p)
    PROVE  /\ KeptTrue(kept', Here)
           /\ DOMAIN call' = Threads /\ \A u \in Threads : u # t => call'[u] = call[u]
           /\ CallTrue(call'[t], Here) /\ call'[t].step \in {"stat", "open"}
<1>1. CASE p \in DOMAIN kept.notes
  <2> DEFINE slot == kept.slots[kept.notes[p]]
             c == [step |-> "stat", by |-> by, path |-> p, text |-> slot.text, identity |-> slot.identity]
  <2>1. kept' = Looked(kept, p) /\ Go(t, c)
    BY <1>1 DEF LookUp
  <2>2. /\ Accounted(Looked(kept, p)) /\ WithinLimits(Looked(kept, p))
        /\ Looked(kept, p).indexes = kept.indexes /\ Held(Looked(kept, p)) = Held(kept)
        /\ kept.notes[p] \in UsedSlots(kept)
    BY <1>1, LookedAccounted DEF NInv, KeptTrue
  <2>3. KeptTrue(kept', Here)
    BY <2>1, <2>2 DEF NInv, KeptTrue
  <2>4. <<slot.text, slot.identity>> \in Held(kept)
    BY <2>2 DEF Held
  <2>5. Trusted(slot.text, slot.identity, Here)
    BY <2>4 DEF NInv, KeptTrue
  <2>6. CallTrue(c, Here)
    BY <2>5 DEF CallTrue, StatCalls, Trusted, IndexSteps
  <2> HIDE DEF c
  <2>7. DOMAIN call' = Threads /\ call'[t] = c /\ \A u \in Threads : u # t => call'[u] = call[u]
    BY <2>1, Goes
  <2> QED
    BY <2>3, <2>6, <2>7 DEF c
<1>2. CASE p \notin DOMAIN kept.notes
  <2> DEFINE c == [step |-> "open", by |-> by, path |-> p]
  <2>1. kept' = kept /\ Go(t, c)
    BY <1>2 DEF LookUp
  <2>2. KeptTrue(kept', Here)
    BY <2>1 DEF NInv
  <2>3. CallTrue(c, Here)
    BY DEF CallTrue, OpenCalls, IndexSteps
  <2> HIDE DEF c
  <2>4. DOMAIN call' = Threads /\ call'[t] = c /\ \A u \in Threads : u # t => call'[u] = call[u]
    BY <2>1, Goes
  <2> QED
    BY <2>2, <2>3, <2>4 DEF c
<1> QED
  BY <1>1, <1>2

LEMMA LooksUp ==
    ASSUME NInv, NEW t \in Threads, NEW by \in {"find", "read"}, NEW p \in Notes, LookUp(t, by, p),
           UNCHANGED world, UNCHANGED vault
    PROVE  NInv'
<1>1. /\ KeptTrue(kept', Here)
      /\ DOMAIN call' = Threads /\ \A u \in Threads : u # t => call'[u] = call[u]
      /\ CallTrue(call'[t], Here) /\ call'[t].step \in {"stat", "open"}
  BY LookUpTrue
<1>2. DOMAIN vault' = Threads /\ VaultTrue(vault'[t], Here)
  BY DEF NInv
<1> QED
  BY <1>1, <1>2, StepOf DEF IndexSteps

LEMMA FindStep ==
    ASSUME NInv, NEW t \in Threads, NEW p \in Notes, Find(t, p)
    PROVE  NInv'
BY LooksUp DEF Find

LEMMA FindByNameStep ==
    ASSUME NInv, NEW t \in Threads, NEW p \in Notes, FindByName(t, p)
    PROVE  NInv'
<1>1. CASE vault[t].index = None
  <2> DEFINE c == [step |-> "index", path |-> p]
  <2>1. Go(t, c) /\ UNCHANGED kept /\ UNCHANGED world /\ UNCHANGED vault
    BY <1>1 DEF FindByName
  <2>2. CallTrue(c, Here)
    BY DEF CallTrue, IndexSteps
  <2>3. KeptTrue(kept', Here)
    BY <2>1 DEF NInv
  <2> HIDE DEF c
  <2> QED
    BY <1>1, <2>1, <2>2, <2>3, GoesOn
<1>2. CASE vault[t].index # None
  BY <1>2, LooksUp DEF FindByName
<1> QED
  BY <1>1, <1>2

LEMMA LookStep ==
    ASSUME NInv, NEW t \in Threads, Look(t)
    PROVE  NInv'
<1>1. call[t].path \in Notes
  BY DEF Look, NInv, CallTrue
<1> QED
  BY <1>1, LooksUp DEF Look

\* The vault of a thread and its parts.
LEMMA VaultParts ==
    ASSUME NInv, NEW t \in Threads
    PROVE  /\ vault[t] \in Vaults /\ VaultTrue(vault[t], Here)
           /\ \A open \in OpenFiles : Opened(open, Here) =>
                VaultTrue([vault[t] EXCEPT !.open = open], Here)
           /\ VaultTrue([vault[t] EXCEPT !.open = None], Here)
           /\ VaultTrue([vault[t] EXCEPT !.hit = None], Here)
           /\ \A names \in SUBSET Notes : VaultTrue([vault[t] EXCEPT !.index = names], Here)
           /\ \A hit \in [path : Notes, text : Texts] : VaultTrue([vault[t] EXCEPT !.hit = hit], Here)
           /\ VaultTrue(NewVault, Here)
BY DEF NInv, VaultTrue, Vaults, NewVault

LEMMA ReadStep ==
    ASSUME NInv, NEW t \in Threads, NEW p \in Notes, Read(t, p)
    PROVE  NInv'
<1> DEFINE v == [vault[t] EXCEPT !.hit = None]
<1>1. VaultTrue(v, Here) /\ v \in Vaults
  BY VaultParts DEF VaultTrue
<1>2. UNCHANGED world
  BY DEF Read
<1> HIDE DEF v
<1>3. CASE v.open # None /\ v.open.path = p
  <2> DEFINE u == [v EXCEPT !.open = None]
             c == [step |-> "read", path |-> p, file |-> v.open, text |-> <<>>]
  <2>1. Set(t, u) /\ Go(t, c) /\ UNCHANGED kept
    BY <1>3 DEF Read, v
  <2>2. VaultTrue(u, Here)
    BY <1>1 DEF VaultTrue, Vaults
  <2>3. Opened(v.open, Here)
    BY <1>1, <1>3 DEF VaultTrue
  <2>4. CallTrue(c, Here)
    <3>1. <<>> \in Texts
      BY DEF Texts
    <3>2. ReadSoFar(v.open, <<>>, Here)
      <4>1. ASSUME StillAs(v.open, Here) PROVE 0 <= Len(Here.file[v.open.inode].text)
        <5>1. Len(Here.file[v.open.inode].text) = v.open.identity.size /\ v.open.identity.size \in Nat
          BY <2>3, <4>1 DEF Opened, OpenFiles, Identities
        <5> QED
          BY <5>1
      <4> QED
        BY <4>1 DEF ReadSoFar
    <3> QED
      BY <2>3, <3>1, <3>2 DEF CallTrue, ReadCalls, Opened, IndexSteps
  <2>5. c.step \notin IndexSteps
    BY DEF IndexSteps
  <2>6. KeptTrue(kept', Here)
    BY <2>1 DEF NInv
  <2> HIDE DEF c, u
  <2>7. /\ DOMAIN call' = Threads /\ call'[t] = c
        /\ DOMAIN vault' = Threads /\ vault'[t] = u
        /\ \A s \in Threads : s # t => vault'[s] = vault[s] /\ call'[s] = call[s]
    BY <2>1, Goes, Sets
  <2> QED
    BY <1>2, <2>2, <2>4, <2>5, <2>6, <2>7, StepOf
<1>4. CASE ~(v.open # None /\ v.open.path = p)
  <2>1. Set(t, v) /\ LookUp(t, "read", p)
    BY <1>4 DEF Read, v
  <2>2. /\ KeptTrue(kept', Here)
        /\ DOMAIN call' = Threads /\ \A u \in Threads : u # t => call'[u] = call[u]
        /\ CallTrue(call'[t], Here) /\ call'[t].step \in {"stat", "open"}
    BY <2>1, LookUpTrue
  <2>3. DOMAIN vault' = Threads /\ vault'[t] = v /\ \A u \in Threads : u # t => vault'[u] = vault[u]
    BY <2>1, Sets
  <2> QED
    BY <1>1, <1>2, <2>2, <2>3, StepOf DEF IndexSteps
<1> QED
  BY <1>3, <1>4

LEMMA NextBuildStep ==
    ASSUME NInv, NEW t \in Threads, NextBuild(t)
    PROVE  NInv'
<1>1. Set(t, NewVault) /\ UNCHANGED <<world, kept, call>> /\ call[t] = Idle
  BY DEF NextBuild
<1>2. DOMAIN vault' = Threads /\ vault'[t] = NewVault /\ \A u \in Threads : u # t => vault'[u] = vault[u]
  BY <1>1, Sets
<1>3. DOMAIN call' = Threads /\ call'[t] = Idle
  BY <1>1 DEF NInv
<1>4. KeptTrue(kept', Here)
  BY <1>1 DEF NInv
<1> QED
  BY <1>1, <1>2, <1>3, <1>4, StepOf, VaultParts, IdleTrue

LEMMA StatStep ==
    ASSUME NInv, NEW t \in Threads, Stat(t)
    PROVE  NInv'
<1> DEFINE c == call[t]
           is == StampOf(c.path)
           hit == [path |-> c.path, text |-> c.text]
           o == [step |-> "open", by |-> c.by, path |-> c.path]
<1>1. UNCHANGED world /\ UNCHANGED kept /\ c.step = "stat" /\ KeptTrue(kept', Here)
  BY DEF Stat, NInv
<1>2. c \in StatCalls
  BY <1>1 DEF NInv, CallTrue
<1>3. CASE Return(t) /\ UNCHANGED vault
  <2>1. Go(t, Idle)
    BY <1>3 DEF Return
  <2> QED
    BY <1>1, <1>3, <2>1, IdleTrue, GoesOn
<1>4. CASE Set(t, [vault[t] EXCEPT !.hit = hit]) /\ Return(t)
  <2>1. /\ DOMAIN vault' = Threads /\ vault'[t] = [vault[t] EXCEPT !.hit = hit]
        /\ DOMAIN call' = Threads /\ call'[t] = Idle
        /\ \A u \in Threads : u # t => vault'[u] = vault[u] /\ call'[u] = call[u]
    BY <1>4, Sets, Goes DEF Return
  <2>2. hit \in [path : Notes, text : Texts]
    BY <1>2 DEF StatCalls
  <2>3. VaultTrue(vault'[t], Here)
    BY <2>1, <2>2, VaultParts
  <2> QED
    BY <1>1, <2>1, <2>3, StepOf, IdleTrue
<1>5. CASE Go(t, o) /\ UNCHANGED vault
  <2>1. CallTrue(o, Here) /\ o.step \notin IndexSteps
    BY <1>2 DEF StatCalls, CallTrue, OpenCalls, IndexSteps
  <2> HIDE DEF o
  <2> QED
    BY <1>1, <1>5, <2>1, GoesOn
<1> QED
  BY <1>3, <1>4, <1>5 DEF Stat

LEMMA OpenStep ==
    ASSUME NInv, NEW t \in Threads, Open(t)
    PROVE  NInv'
<1> DEFINE c == call[t]
           o == [step |-> "opened", by |-> c.by, path |-> c.path,
                 file |-> [inode |-> entry[c.path], start |-> now]]
<1>1. UNCHANGED world /\ UNCHANGED vault /\ KeptTrue(kept', Here) /\ c.step = "open"
  BY DEF Open, NInv
<1>2. c \in OpenCalls
  BY <1>1 DEF NInv, CallTrue
<1>3. CASE Go(t, Idle)
  BY <1>1, <1>3, IdleTrue, GoesOn
<1>4. CASE entry[c.path] # None /\ Go(t, o)
  <2>1. entry[c.path] \in Inodes /\ now \in Nat
    BY <1>2, <1>4, SoundHere DEF NInv, OpenCalls
  <2>2. CallTrue(o, Here) /\ o.step \notin IndexSteps
    BY <1>2, <2>1 DEF OpenCalls, CallTrue, OpenedCalls, IndexSteps, Here
  <2> HIDE DEF o
  <2> QED
    BY <1>1, <1>4, <2>2, GoesOn
<1> QED
  BY <1>3, <1>4 DEF Open, Return

LEMMA FstatStep ==
    ASSUME NInv, NEW t \in Threads, Fstat(t)
    PROVE  NInv'
<1> DEFINE c == call[t]
           i == c.file.inode
           open == [path |-> c.path, inode |-> i, start |-> c.file.start, identity |-> IdentityOf(i)]
           r == [step |-> "read", path |-> c.path, file |-> open, text |-> <<>>]
<1>1. UNCHANGED world /\ UNCHANGED kept /\ KeptTrue(kept', Here) /\ c.step = "opened"
  BY DEF Fstat, NInv
<1>2. c \in OpenedCalls /\ c.file.start <= now
  BY <1>1 DEF NInv, CallTrue, Here
<1>3. i \in Inodes /\ file[i].text \in Texts /\ file[i].modified \in Nat /\ file[i].changed \in Nat
  BY <1>2, SoundHere DEF NInv, OpenedCalls
<1>4. Len(file[i].text) \in Nat
  BY <1>3 DEF Texts
<1>5. /\ IdentityOf(i) \in Identities /\ IdentityOf(i).inode = i
      /\ IdentityOf(i).size = Len(file[i].text)
  BY <1>3, <1>4 DEF IdentityOf, Identities
<1>6. open \in OpenFiles /\ Opened(open, Here)
  BY <1>2, <1>5 DEF OpenedCalls, OpenFiles, Opened, Here
<1> HIDE DEF i
<1>7. CASE Set(t, [vault[t] EXCEPT !.open = open]) /\ Return(t)
  <2> HIDE DEF open
  <2>1. /\ DOMAIN vault' = Threads /\ vault'[t] = [vault[t] EXCEPT !.open = open]
        /\ DOMAIN call' = Threads /\ call'[t] = Idle
        /\ \A u \in Threads : u # t => vault'[u] = vault[u] /\ call'[u] = call[u]
    BY <1>7, Sets, Goes DEF Return
  <2>2. VaultTrue(vault'[t], Here)
    BY <1>6, <2>1, VaultParts
  <2> QED
    BY <1>1, <2>1, <2>2, StepOf, IdleTrue
<1>8. CASE Set(t, [vault[t] EXCEPT !.open = None]) /\ Go(t, r)
  <2>1. CallTrue(r, Here)
    <3>1. <<>> \in Texts
      BY DEF Texts
    <3>2. ReadSoFar(open, <<>>, Here)
      BY <1>4 DEF ReadSoFar, Here
    <3>3. c.path \in Notes
      BY <1>2 DEF OpenedCalls
    <3> HIDE DEF open
    <3> QED
      BY <1>6, <3>1, <3>2, <3>3 DEF CallTrue, ReadCalls, IndexSteps
  <2>2. r.step \notin IndexSteps
    BY DEF IndexSteps
  <2> HIDE DEF r
  <2>3. /\ DOMAIN vault' = Threads /\ vault'[t] = [vault[t] EXCEPT !.open = None]
        /\ DOMAIN call' = Threads /\ call'[t] = r
        /\ \A u \in Threads : u # t => vault'[u] = vault[u] /\ call'[u] = call[u]
    BY <1>8, Sets, Goes
  <2>4. VaultTrue(vault'[t], Here)
    BY <2>3, VaultParts
  <2> QED
    BY <1>1, <2>1, <2>2, <2>3, <2>4, StepOf
<1> QED
  BY <1>7, <1>8 DEF Fstat, i

LEMMA LeastOfTwo ==
    ASSUME NEW a \in Nat, NEW b \in Nat
    PROVE  Min({a, b}) \in {a, b} /\ Min({a, b}) <= a /\ Min({a, b}) <= b
<1>1. \E x \in {a, b} : \A y \in {a, b} : x =< y
  OBVIOUS
<1> QED
  BY <1>1 DEF Min

LEMMA ReadUnitStep ==
    ASSUME NInv, NEW t \in Threads, ReadUnit(t)
    PROVE  NInv'
<1> DEFINE c == call[t]
           text == file[c.file.inode].text
           more == Append(c.text, text[Len(c.text) + 1])
           r == [c EXCEPT !.text = more]
<1>1. UNCHANGED world /\ UNCHANGED vault /\ KeptTrue(kept', Here) /\ c.step = "read" /\ Go(t, r)
      /\ Len(c.text) < Min({c.file.identity.size, Len(text)})
  BY DEF ReadUnit, NInv
<1>2. c \in ReadCalls /\ Opened(c.file, Here) /\ ReadSoFar(c.file, c.text, Here)
  BY <1>1 DEF NInv, CallTrue
<1>3. text \in Seq({0, 1}) /\ c.text \in Seq({0, 1}) /\ c.file.identity.size \in Nat
  BY <1>2, SoundHere DEF NInv, ReadCalls, OpenFiles, Identities, Texts
<1>4. Len(text) \in Nat /\ Len(c.text) \in Nat
  BY <1>3
<1>5. Len(c.text) + 1 \in 1..Len(text)
  <2> DEFINE size == c.file.identity.size
  <2>1. size \in Nat /\ Len(c.text) < Min({size, Len(text)})
    BY <1>1, <1>3
  <2> HIDE DEF size, text, c
  <2>2. Min({size, Len(text)}) \in {size, Len(text)} /\ Min({size, Len(text)}) <= Len(text)
    BY <1>4, <2>1, LeastOfTwo
  <2> QED
    BY <1>4, <2>1, <2>2
<1>6. /\ more \in Texts /\ Len(more) = Len(c.text) + 1 /\ more[Len(c.text) + 1] = text[Len(c.text) + 1]
      /\ \A k \in 1..Len(c.text) : more[k] = c.text[k]
  <2>1. text[Len(c.text) + 1] \in {0, 1}
    BY <1>3, <1>5
  <2> HIDE DEF text
  <2> QED
    BY <1>3, <1>4, <2>1 DEF Texts
<1>7. ReadSoFar(c.file, more, Here)
  <2>1. Here.file[c.file.inode].text = text
    BY DEF Here
  <2> HIDE DEF text, more, Here
  <2>2. SUFFICES ASSUME StillAs(c.file, Here)
        PROVE  Len(more) <= Len(text) /\ \A k \in 1..Len(more) : more[k] = text[k]
    BY <2>1 DEF ReadSoFar
  <2>3. \A k \in 1..Len(c.text) : c.text[k] = text[k]
    BY <1>2, <2>1, <2>2 DEF ReadSoFar
  <2>4. ASSUME NEW k \in 1..Len(more) PROVE more[k] = text[k]
    <3>1. k \in 1..Len(c.text) \/ k = Len(c.text) + 1
      BY <1>4, <1>6
    <3> QED
      BY <1>6, <2>3, <3>1
  <2> QED
    BY <1>4, <1>5, <1>6, <2>4
<1>8. r \in ReadCalls /\ r.file = c.file /\ r.text = more /\ r.step = "read"
  <2> HIDE DEF more
  <2> QED
    BY <1>1, <1>2, <1>6 DEF ReadCalls
<1> HIDE DEF r, more, c
<1>9. CallTrue(r, Here) /\ r.step \notin IndexSteps
  BY <1>2, <1>7, <1>8 DEF CallTrue, IndexSteps
<1> QED
  BY <1>1, <1>9, GoesOn

LEMMA KeepNoteStep ==
    ASSUME NInv, NEW t \in Threads, KeepNote(t)
    PROVE  NInv'
<1> DEFINE c == call[t]
           text == file[c.file.inode].text
           f == c.file
<1>1. /\ UNCHANGED world /\ UNCHANGED vault /\ c.step = "read" /\ Go(t, Idle)
      /\ Len(c.text) >= Min({f.identity.size, Len(text)})
      /\ kept' = Keep(kept, c.path, c.text, f.identity, f.start)
  BY DEF KeepNote, Return
<1>2. c \in ReadCalls /\ Opened(f, Here) /\ ReadSoFar(f, c.text, Here)
  BY <1>1 DEF NInv, CallTrue
<1>3. text \in Seq({0, 1}) /\ c.text \in Texts /\ f.identity \in Identities /\ c.path \in Notes /\ now \in Nat
      /\ f.start \in Nat /\ f.start <= now /\ f.identity.inode = f.inode /\ f.identity.changed \in Nat
  BY <1>2, SoundHere DEF NInv, ReadCalls, OpenFiles, Identities, Texts, Opened, Here
<1>4. ASSUME Len(c.text) = f.identity.size, Settled(f.identity, f.start)
      PROVE  Trusted(c.text, f.identity, Here)
  <2>1. Past(f.identity, Here)
    <3>1. f.identity.changed + SettleTime < f.start /\ Here.now = now
      BY <1>4 DEF Settled, Here
    <3> HIDE DEF f, Here
    <3> QED
      BY <1>3, <3>1, Constants DEF Past
  <2>2. ASSUME Here.file[f.identity.inode].changed = f.identity.changed
        PROVE  Here.file[f.identity.inode].text = c.text
    <3>1. StillAs(f, Here)
      BY <1>3, <1>4, <2>2 DEF StillAs, Settled
    <3>2. Here.file[f.inode].text = text
      BY DEF Here
    <3>3. Len(text) = f.identity.size /\ \A k \in 1..Len(c.text) : c.text[k] = text[k]
      BY <1>2, <3>1, <3>2 DEF Opened, ReadSoFar
    <3>4. c.text \in Seq({0, 1})
      BY <1>3 DEF Texts
    <3>5. text = c.text
      <4> HIDE DEF text, c
      <4> QED
        BY <1>3, <1>4, <3>3, <3>4
    <3> QED
      BY <1>3, <3>2, <3>5
  <2> QED
    BY <1>3, <2>1, <2>2 DEF Trusted
<1>5. KeptTrue(kept', Here)
  <2>1. /\ Accounted(kept') /\ WithinLimits(kept') /\ kept'.indexes = kept.indexes
        /\ \A h \in Held(kept') :
             \/ h \in Held(kept)
             \/ h = <<c.text, f.identity>> /\ Len(c.text) = f.identity.size /\ Settled(f.identity, f.start)
    BY <1>1, <1>3, KeepAccounted DEF NInv, KeptTrue
  <2>2. \A h \in Held(kept') : Trusted(h[1], h[2], Here)
    <3>1. TAKE h \in Held(kept')
    <3>2. CASE h \in Held(kept)
      BY <3>2 DEF NInv, KeptTrue
    <3>3. CASE h = <<c.text, f.identity>> /\ Len(c.text) = f.identity.size /\ Settled(f.identity, f.start)
      BY <1>4, <3>3
    <3> QED
      BY <2>1, <3>2, <3>3
  <2> QED
    BY <2>1, <2>2 DEF NInv, KeptTrue
<1> QED
  BY <1>1, <1>5, IdleTrue, GoesOn

LEMMA LookIndexStep ==
    ASSUME NInv, NEW t \in Threads, LookIndex(t)
    PROVE  NInv'
<1> DEFINE c == call[t]
           index == LastIndex(kept)
           walk == [step |-> "walk", path |-> c.path]
           check == [step |-> "check", path |-> c.path, index |-> index, at |-> 1, since |-> changes]
<1>1. UNCHANGED world /\ UNCHANGED vault /\ KeptTrue(kept', Here) /\ c.step = "index"
  BY DEF LookIndex, NInv
<1>2. c.path \in Notes /\ vault[t].index = None
  BY <1>1 DEF NInv, CallTrue, IndexSteps
<1>3. CASE Go(t, walk)
  <2>1. CallTrue(walk, Here)
    BY <1>2 DEF CallTrue, IndexSteps
  <2> HIDE DEF walk
  <2> QED
    BY <1>1, <1>2, <1>3, <2>1, GoesOn
<1>4. CASE index # None /\ Go(t, check)
  <2>1. Indexed(index, Here) /\ index \in Indexes
    BY <1>4, LastIndexKept DEF NInv, KeptTrue, Indexed, Building
  <2>2. changes \in Nat /\ Here.changes = changes
    BY SoundHere DEF NInv, Here
  <2> HIDE DEF index
  <2>3. Len(index.folders) \in Nat
    BY <2>1 DEF Indexes
  <2>4. CallTrue(check, Here)
    BY <1>2, <2>1, <2>2, <2>3 DEF CallTrue, CheckCalls, IndexSteps
  <2> HIDE DEF check
  <2> QED
    BY <1>1, <1>2, <1>4, <2>4, GoesOn
<1> QED
  BY <1>3, <1>4 DEF LookIndex

LEMMA SameFolderStep ==
    ASSUME NInv, NEW t \in Threads, SameFolder(t)
    PROVE  NInv'
<1> DEFINE c == call[t]
           r == [c EXCEPT !.at = c.at + 1]
           was == c.index.folders[c.at]
<1>1. /\ UNCHANGED world /\ UNCHANGED vault /\ KeptTrue(kept', Here) /\ c.step = "check"
      /\ c.at <= Len(c.index.folders) /\ AsItWas(c) /\ Go(t, r)
  BY DEF SameFolder, NInv
<1>2. /\ c \in CheckCalls /\ Indexed(c.index, Here) /\ c.since <= changes /\ vault[t].index = None
      /\ c.since = changes =>
           \A j \in 1..Len(c.index.folders) : j < c.at => Same(c.index.folders[j], Here)
  BY <1>1 DEF NInv, CallTrue, IndexSteps, Here
<1>3. Same(was, Here)
  BY <1>1 DEF AsItWas, Unchanged, Same, Here
<1>4. r \in CheckCalls /\ r.index = c.index /\ r.since = c.since /\ r.at = c.at + 1 /\ r.step = "check"
  BY <1>1, <1>2 DEF CheckCalls
<1>5. c.since = changes =>
        \A j \in 1..Len(c.index.folders) : j < c.at + 1 => Same(c.index.folders[j], Here)
  <2>1. c.at \in Nat
    BY <1>2 DEF CheckCalls
  <2>2. \A j \in 1..Len(c.index.folders) : j < c.at + 1 => j < c.at \/ j = c.at
    BY <2>1
  <2> HIDE DEF c
  <2> QED
    BY <1>2, <1>3, <2>2
<1> HIDE DEF r, c
<1>6. CallTrue(r, Here)
  BY <1>2, <1>4, <1>5 DEF CallTrue, IndexSteps, Here
<1> QED
  BY <1>1, <1>2, <1>6, GoesOn

LEMMA OtherFolderStep ==
    ASSUME NInv, NEW t \in Threads, OtherFolder(t)
    PROVE  NInv'
<1> DEFINE c == call[t]
           walk == [step |-> "walk", path |-> c.path]
<1>1. UNCHANGED world /\ UNCHANGED vault /\ c.step = "check" /\ kept' = DropIndex(kept, c.index) /\ Go(t, walk)
  BY DEF OtherFolder
<1>2. c.path \in Notes /\ vault[t].index = None
  BY <1>1 DEF NInv, CallTrue, CheckCalls, IndexSteps
<1>3. KeptTrue(kept', Here)
  <2>1. /\ Accounted(kept') /\ WithinLimits(kept') /\ Held(kept') = Held(kept)
        /\ DOMAIN kept'.indexes = 1..MaxIndexes
        /\ \A i \in 1..MaxIndexes : kept'.indexes[i] \in {kept.indexes[i], None}
    BY <1>1, DropIndexKeeps DEF NInv, KeptTrue
  <2> QED
    BY <2>1 DEF NInv, KeptTrue
<1>4. CallTrue(walk, Here)
  BY <1>2 DEF CallTrue, IndexSteps
<1> HIDE DEF walk
<1> QED
  BY <1>1, <1>2, <1>3, <1>4, GoesOn

LEMMA GoOnStep ==
    ASSUME NInv, NEW t \in Threads, UNCHANGED world, KeptTrue(kept', Here),
           NEW path \in Notes, NEW names \in SUBSET Notes, GoOn(t, path, names)
    PROVE  NInv'
<1> DEFINE v == [vault[t] EXCEPT !.index = names]
           look == [step |-> "look", path |-> path]
<1>1. DOMAIN vault' = Threads /\ vault'[t] = v /\ \A u \in Threads : u # t => vault'[u] = vault[u]
  BY Sets DEF GoOn
<1>2. VaultTrue(v, Here)
  BY VaultParts
<1> HIDE DEF v
<1>3. CASE Go(t, look)
  <2>1. CallTrue(look, Here) /\ look.step \notin IndexSteps
    BY DEF CallTrue, IndexSteps
  <2> HIDE DEF look
  <2>2. DOMAIN call' = Threads /\ call'[t] = look /\ \A u \in Threads : u # t => call'[u] = call[u]
    BY <1>3, Goes
  <2> QED
    BY <1>1, <1>2, <2>1, <2>2, StepOf
<1>4. CASE Go(t, Idle)
  <2>1. DOMAIN call' = Threads /\ call'[t] = Idle /\ \A u \in Threads : u # t => call'[u] = call[u]
    BY <1>4, Goes
  <2> QED
    BY <1>1, <1>2, <2>1, StepOf, IdleTrue
<1> QED
  BY <1>3, <1>4 DEF GoOn, Return

LEMMA KeepIndexTrue ==
    ASSUME NInv, NEW index, Indexed(index, Here)
    PROVE  KeptTrue(KeepIndex(kept, index), Here)
<1>1. /\ Accounted(KeepIndex(kept, index)) /\ WithinLimits(KeepIndex(kept, index))
      /\ Held(KeepIndex(kept, index)) = Held(kept)
      /\ DOMAIN KeepIndex(kept, index).indexes = 1..MaxIndexes
      /\ \A i \in 1..MaxIndexes :
           \/ KeepIndex(kept, index).indexes[i] = index
           \/ \E j \in 1..MaxIndexes : KeepIndex(kept, index).indexes[i] = kept.indexes[j]
  BY KeepIndexKeeps DEF NInv, KeptTrue
<1> QED
  BY <1>1 DEF NInv, KeptTrue

LEMMA TakeIndexStep ==
    ASSUME NInv, NEW t \in Threads, TakeIndex(t)
    PROVE  NInv'
<1> DEFINE c == call[t]
<1>1. UNCHANGED world /\ c.step = "check" /\ kept' = KeepIndex(kept, c.index) /\ GoOn(t, c.path, c.index.names)
  BY DEF TakeIndex
<1>2. c.path \in Notes /\ Indexed(c.index, Here) /\ c.index.names \in SUBSET Notes
  BY <1>1 DEF NInv, CallTrue, CheckCalls, Indexes
<1>3. KeptTrue(kept', Here)
  BY <1>1, <1>2, KeepIndexTrue
<1> QED
  BY <1>1, <1>2, <1>3, GoOnStep

LEMMA BeginWalkStep ==
    ASSUME NInv, NEW t \in Threads, BeginWalk(t)
    PROVE  NInv'
<1> DEFINE r == [step |-> "begun", path |-> call[t].path, start |-> now]
<1>1. UNCHANGED world /\ UNCHANGED vault /\ KeptTrue(kept', Here) /\ call[t].step = "walk" /\ Go(t, r)
  BY DEF BeginWalk, NInv
<1>2. call[t].path \in Notes /\ vault[t].index = None /\ now \in Nat
  BY <1>1, SoundHere DEF NInv, CallTrue, IndexSteps
<1>3. CallTrue(r, Here)
  BY <1>2 DEF CallTrue, IndexSteps, Here
<1> HIDE DEF r
<1> QED
  BY <1>1, <1>2, <1>3, GoesOn

LEMMA WalkRootStep ==
    ASSUME NInv, NEW t \in Threads, WalkRoot(t)
    PROVE  NInv'
<1> DEFINE c == call[t]
           was == [name |-> Root, identity |-> folder[Root]]
           index == [folders |-> <<was>>, names |-> {}, keep |-> Settled(folder[Root], c.start)]
           r == [step |-> "root", path |-> c.path, start |-> c.start, index |-> index]
<1>1. UNCHANGED world /\ UNCHANGED vault /\ KeptTrue(kept', Here) /\ c.step = "begun" /\ Go(t, r)
  BY DEF WalkRoot, NInv
<1>2. c.path \in Notes /\ c.start \in Nat /\ c.start <= now /\ vault[t].index = None /\ now \in Nat
  BY <1>1, SoundHere DEF NInv, CallTrue, IndexSteps, Here
<1>3. was \in Noted /\ was.name = Root /\ was.identity.changed \in Nat
  <2>1. folder[Root] \in FolderIds /\ Root \in Folders
    BY SoundHere DEF NInv, Folders
  <2> QED
    BY <2>1 DEF Noted, FolderIds
<1>4. index \in Indexes /\ Len(index.folders) = 1 /\ index.folders[1] = was
  <2>1. Settled(folder[Root], c.start) \in BOOLEAN
    BY DEF Settled
  <2> HIDE DEF was
  <2> QED
    BY <1>3, <2>1 DEF Indexes
<1>5. index.keep => Past(was.identity, Here)
  <2>1. index.keep => was.identity.changed + SettleTime < c.start
    BY DEF Settled
  <2>2. Here.now = now
    BY DEF Here
  <2> HIDE DEF index, was, Here
  <2> QED
    BY <1>2, <1>3, <2>1, <2>2, Constants DEF Past
<1>6. index.names = {}
  OBVIOUS
<1> HIDE DEF index
<1>7. Building(index, {}, Here)
  BY <1>3, <1>4, <1>5, <1>6 DEF Building
<1>8. CallTrue(r, Here)
  BY <1>2, <1>4, <1>7 DEF CallTrue, WalkCalls, IndexSteps, Here
<1> HIDE DEF r
<1> QED
  BY <1>1, <1>2, <1>8, GoesOn

LEMMA BuiltStep ==
    ASSUME NInv, NEW t \in Threads, NEW c, c.path \in Notes,
           NEW index \in Indexes, index.keep => Indexed(index, Here), Built(t, c, index)
    PROVE  NInv'
<1>1. UNCHANGED world /\ GoOn(t, c.path, index.names) /\ index.names \in SUBSET Notes
  BY DEF Built, Indexes
<1>2. KeptTrue(kept', Here)
  <2>1. KeptTrue(kept, Here)
    BY DEF NInv
  <2> QED
    BY <2>1, KeepIndexTrue DEF Built
<1> QED
  BY <1>1, <1>2, GoOnStep

\* The notes a folder lists, by the world.
LEMMA ListedHere ==
    ASSUME NEW f
    PROVE  Listed(f) = {p \in Notes : FolderOf[p] = f /\ Here.entry[p] # None}
BY DEF Listed, Here

LEMMA ListRootStep ==
    ASSUME NInv, NEW t \in Threads, ListRoot(t)
    PROVE  NInv'
<1> DEFINE c == call[t]
           index == [c.index EXCEPT !.names = Listed(Root)]
           r == [c EXCEPT !.step = "sub", !.index = index]
<1>1. UNCHANGED world /\ c.step = "root"
  BY DEF ListRoot, Built
<1>2. /\ c \in WalkCalls /\ c.start <= now /\ Building(c.index, {}, Here) /\ Len(c.index.folders) = 1
      /\ vault[t].index = None
  BY <1>1 DEF NInv, CallTrue, IndexSteps, Here
<1>3. /\ index \in Indexes /\ index.folders = c.index.folders /\ index.keep = c.index.keep
      /\ index.names = Listed(Root)
  BY <1>2 DEF WalkCalls, Indexes, Listed
<1> HIDE DEF index
<1>4. index.folders[1].name = Root
  BY <1>2, <1>3 DEF Building
<1>5. index.keep => \A j \in 1..Len(index.folders) : Past(index.folders[j].identity, Here)
  BY <1>2, <1>3 DEF Building
<1>6. Listed(Root) = {p \in Notes : FolderOf[p] \in {Root} /\ Here.entry[p] # None}
  BY ListedHere
<1>7. Building(index, {Root}, Here)
  BY <1>2, <1>3, <1>4, <1>5, <1>6 DEF Building
<1>8. CASE folder[Sub] = None /\ Built(t, c, index)
  <2>1. \A p \in Notes : Here.entry[p] # None => FolderOf[p] = Root
    BY <1>8, SoundHere, Constants DEF NInv, Here, Folders
  <2>2. Listed(Root) = {p \in Notes : FolderOf[p] \in Folders /\ Here.entry[p] # None}
    BY <1>6, <2>1 DEF Folders
  <2>3. \A f \in Folders : \/ Here.folder[f] = None
                           \/ \E j \in 1..Len(index.folders) : index.folders[j].name = f
    BY <1>2, <1>3, <1>4, <1>8 DEF Folders, Here
  <2>4. Building(index, Folders, Here)
    BY <1>2, <1>3, <1>4, <1>5, <2>2, <2>3 DEF Building
  <2>5. index.keep => Indexed(index, Here)
    BY <2>4 DEF Indexed
  <2>6. c.path \in Notes
    BY <1>2 DEF WalkCalls
  <2> HIDE DEF c
  <2> QED
    BY <1>3, <1>8, <2>5, <2>6, BuiltStep
<1>9. CASE Go(t, r) /\ UNCHANGED kept /\ UNCHANGED vault
  <2>1. r \in WalkCalls /\ r.step = "sub" /\ r.index = index /\ r.start = c.start
    BY <1>2, <1>3 DEF WalkCalls
  <2>2. CallTrue(r, Here)
    <3> HIDE DEF r
    <3> QED
      BY <1>2, <1>3, <1>7, <2>1 DEF CallTrue, IndexSteps, Here
  <2>3. KeptTrue(kept', Here)
    BY <1>9 DEF NInv
  <2> HIDE DEF r
  <2> QED
    BY <1>1, <1>2, <1>9, <2>2, <2>3, GoesOn
<1> QED
  BY <1>8, <1>9 DEF ListRoot, index

LEMMA AppendFacts ==
    ASSUME NEW S, NEW s \in Seq(S), NEW e \in S
    PROVE  /\ Append(s, e) \in Seq(S) /\ Len(Append(s, e)) = Len(s) + 1
           /\ Append(s, e)[Len(s) + 1] = e
           /\ \A j \in 1..Len(s) : Append(s, e)[j] = s[j]
OBVIOUS

LEMMA WalkSubStep ==
    ASSUME NInv, NEW t \in Threads, WalkSub(t)
    PROVE  NInv'
<1> DEFINE c == call[t]
           was == [name |-> Sub, identity |-> folder[Sub]]
           index == [c.index EXCEPT !.folders = Append(c.index.folders, was),
                                    !.keep = c.index.keep /\ Settled(folder[Sub], c.start)]
           none == [c.index EXCEPT !.keep = FALSE]
           r == [c EXCEPT !.step = "list", !.index.folders = Append(@, was),
                          !.index.keep = @ /\ Settled(folder[Sub], c.start)]
<1>1. UNCHANGED world /\ c.step = "sub"
  BY DEF WalkSub, Built
<1>2. /\ c \in WalkCalls /\ c.start <= now /\ Building(c.index, {Root}, Here) /\ Len(c.index.folders) = 1
      /\ vault[t].index = None /\ c.start \in Nat /\ now \in Nat /\ c.index \in Indexes /\ c.path \in Notes
  BY <1>1, SoundHere DEF NInv, CallTrue, IndexSteps, Here, WalkCalls
<1>3. CASE Built(t, c, none)
  <2>1. none \in Indexes /\ none.keep = FALSE
    BY <1>2 DEF Indexes
  <2> HIDE DEF none, c
  <2> QED
    BY <1>2, <1>3, <2>1, BuiltStep
<1>4. CASE folder[Sub] # None /\ Go(t, r) /\ UNCHANGED kept /\ UNCHANGED vault
  <2>1. was \in Noted /\ was.name = Sub /\ was.identity.changed \in Nat
    <3>1. folder[Sub] \in FolderIds /\ Sub \in Folders
      BY <1>4, SoundHere DEF NInv, Folders
    <3> QED
      BY <3>1 DEF Noted, FolderIds
  <2>2. Settled(folder[Sub], c.start) \in BOOLEAN
    BY DEF Settled
  <2>3. Settled(folder[Sub], c.start) => Past(was.identity, Here)
    <3>1. Settled(folder[Sub], c.start) => was.identity.changed + SettleTime < c.start
      BY DEF Settled
    <3>2. Here.now = now
      BY DEF Here
    <3> HIDE DEF was, Here, c
    <3> QED
      BY <1>2, <2>1, <3>1, <3>2, Constants DEF Past
  <2> DEFINE old == c.index.folders
  <2>4. old \in Seq(Noted) /\ Len(old) = 1
    BY <1>2 DEF Indexes
  <2>5. Append(old, was) \in Seq(Noted) /\ Len(Append(old, was)) = 2
        /\ Append(old, was)[1] = old[1] /\ Append(old, was)[2] = was
    <3>1. ASSUME NEW s \in Seq(Noted), NEW e \in Noted, Len(s) = 1
          PROVE  /\ Append(s, e) \in Seq(Noted) /\ Len(Append(s, e)) = 2
                 /\ Append(s, e)[1] = s[1] /\ Append(s, e)[2] = e
      <4>1. /\ Append(s, e) \in Seq(Noted) /\ Len(Append(s, e)) = Len(s) + 1
            /\ Append(s, e)[Len(s) + 1] = e
            /\ \A j \in 1..Len(s) : Append(s, e)[j] = s[j]
        BY AppendFacts
      <4>2. Len(s) + 1 = 2 /\ 1 \in 1..Len(s)
        BY <3>1
      <4> QED
        BY <4>1, <4>2
    <3> QED
      BY <2>1, <2>4, <3>1
  <2>6. /\ index \in Indexes /\ index.folders = Append(old, was) /\ index.names = c.index.names
        /\ index.keep = (c.index.keep /\ Settled(folder[Sub], c.start))
    <3> HIDE DEF was
    <3> QED
      BY <1>2, <2>2, <2>5 DEF Indexes
  <2>7. r = [c EXCEPT !.step = "list", !.index = index]
    BY <1>2 DEF WalkCalls, Indexes
  <2> HIDE DEF index, r, old, was
  <2>8. Len(index.folders) = 2 /\ index.folders[1] = c.index.folders[1] /\ index.folders[2] = was
    BY <2>5, <2>6 DEF old
  <2>9. Building(index, {Root}, Here)
    <3>1. index.folders[1].name = Root
      BY <1>2, <2>8 DEF Building
    <3>2. \A j \in 1..Len(index.folders) : j = 1 \/ j = 2
      BY <2>8
    <3>3. SUFFICES ASSUME index.keep
          PROVE  /\ \A j \in 1..Len(index.folders) : Past(index.folders[j].identity, Here)
                 /\ AllSame(index, Here) =>
                      /\ index.names = {p \in Notes : FolderOf[p] \in {Root} /\ Here.entry[p] # None}
                      /\ \A f \in {Root} : \/ Here.folder[f] = None
                                           \/ \E j \in 1..Len(index.folders) : index.folders[j].name = f
      BY <2>6, <2>8, <3>1 DEF Building
    <3>4. c.index.keep /\ Settled(folder[Sub], c.start)
      <4>1. c.index.keep \in BOOLEAN
        BY <1>2 DEF Indexes
      <4> QED
        BY <2>2, <2>6, <3>3, <4>1, Zenon
    <3>5. \A j \in 1..Len(index.folders) : Past(index.folders[j].identity, Here)
      <4>1. Past(c.index.folders[1].identity, Here)
        BY <1>2, <3>4 DEF Building
      <4> QED
        BY <2>3, <2>8, <3>2, <3>4, <4>1 DEF was
    <3>6. AllSame(index, Here) => AllSame(c.index, Here)
      BY <1>2, <2>8 DEF AllSame
    <3>7. 1 \in 1..Len(index.folders)
      BY <2>8
    <3>8. AllSame(c.index, Here) => c.index.names = {p \in Notes : FolderOf[p] \in {Root} /\ Here.entry[p] # None}
      BY <1>2, <3>4 DEF Building
    <3> QED
      BY <2>6, <3>1, <3>5, <3>6, <3>7, <3>8
  <2>10. r \in WalkCalls /\ r.step = "list" /\ r.index = index /\ r.start = c.start
    BY <1>2, <2>6, <2>7 DEF WalkCalls
  <2>11. CallTrue(r, Here)
    BY <1>2, <2>1, <2>8, <2>9, <2>10 DEF CallTrue, IndexSteps, Here
  <2>12. KeptTrue(kept', Here)
    BY <1>4 DEF NInv
  <2> QED
    BY <1>1, <1>2, <1>4, <2>11, <2>12, GoesOn
<1> QED
  BY <1>3, <1>4 DEF WalkSub

LEMMA ListSubStep ==
    ASSUME NInv, NEW t \in Threads, ListSub(t)
    PROVE  NInv'
<1> DEFINE c == call[t]
           moved == folder[Sub] = None \/ folder[Sub].inode # c.index.folders[2].identity.inode
<1>1. UNCHANGED world /\ c.step = "list"
  BY DEF ListSub, Built
<1>2. /\ c \in WalkCalls /\ Building(c.index, {Root}, Here) /\ Len(c.index.folders) = 2
      /\ c.index.folders[2].name = Sub /\ c.index \in Indexes /\ c.path \in Notes
  BY <1>1 DEF NInv, CallTrue, IndexSteps, WalkCalls
<1>3. PICK names \in IF moved THEN SUBSET {p \in Notes : FolderOf[p] = Sub} ELSE {Listed(Sub)} :
        Built(t, c, [c.index EXCEPT !.names = c.index.names \union names])
  BY DEF ListSub
<1> DEFINE index == [c.index EXCEPT !.names = c.index.names \union names]
<1>4. names \in SUBSET Notes
  BY <1>3 DEF Listed
<1>5. /\ index \in Indexes /\ index.folders = c.index.folders /\ index.keep = c.index.keep
      /\ index.names = c.index.names \union names
  BY <1>2, <1>4 DEF Indexes
<1>6. Built(t, c, index)
  BY <1>3
<1> HIDE DEF index
<1>7. ASSUME index.keep PROVE Indexed(index, Here)
  <2>1. /\ index.folders[1].name = Root
        /\ \A j \in 1..Len(index.folders) : Past(index.folders[j].identity, Here)
    BY <1>2, <1>5, <1>7 DEF Building
  <2>2. ASSUME AllSame(index, Here)
        PROVE  /\ index.names = {p \in Notes : FolderOf[p] \in Folders /\ Here.entry[p] # None}
               /\ \A f \in Folders : \/ Here.folder[f] = None
                                     \/ \E j \in 1..Len(index.folders) : index.folders[j].name = f
    <3>1. Same(c.index.folders[2], Here) /\ AllSame(c.index, Here)
      BY <1>2, <1>5, <2>2 DEF AllSame
    <3>2. ~moved
      BY <1>2, <3>1 DEF Same, Here
    <3>3. names = Listed(Sub)
      BY <1>3, <3>2
    <3>4. c.index.names = {p \in Notes : FolderOf[p] \in {Root} /\ Here.entry[p] # None}
      BY <1>2, <1>5, <1>7, <3>1 DEF Building
    <3>5. index.names = {p \in Notes : FolderOf[p] \in Folders /\ Here.entry[p] # None}
      BY <1>5, <3>3, <3>4, ListedHere DEF Folders
    <3>6. \A f \in Folders : \E j \in 1..Len(index.folders) : index.folders[j].name = f
      BY <1>2, <1>5, <2>1 DEF Folders
    <3> QED
      BY <3>5, <3>6
  <2> QED
    BY <1>2, <1>5, <1>7, <2>1, <2>2 DEF Indexed, Building
<1> HIDE DEF c
<1> QED
  BY <1>2, <1>5, <1>6, <1>7, BuiltStep
-----------------------------------------------------------------------------
(***************************************************************************)
(* The invariant, and what it says of the system.                          *)
(***************************************************************************)
LEMMA NextNInv == NInv /\ [Next]_vars => NInv'
<1>1. SUFFICES ASSUME NInv, [Next]_vars PROVE NInv'
  OBVIOUS
<1>2. CASE World
  <2>1. Sound(Here)' /\ Later(Here, Here') /\ UNCHANGED <<kept, vault, call>>
    BY <1>1, <1>2, WorldStep DEF NInv
  <2>2. Sound(Here) /\ Sound(Here')
    BY <1>1, <2>1 DEF NInv, Sound
  <2>3. KeptTrue(kept, Here')
    BY <1>1, <2>1, <2>2, KeptLater DEF NInv
  <2>4. \A t \in Threads : VaultTrue(vault[t], Here') /\ CallTrue(call[t], Here')
    BY <1>1, <2>1, <2>2, VaultLater, CallLater DEF NInv
  <2>5. KeptTrue(kept, Here)' /\ (\A t \in Threads : VaultTrue(vault[t], Here))'
        /\ (\A t \in Threads : CallTrue(call[t], Here))'
    BY <2>1, <2>3, <2>4
  <2> QED
    BY <1>1, <2>1, <2>5 DEF NInv
<1>3. ASSUME NEW t \in Threads, Thread(t) PROVE NInv'
  <2>1. ASSUME NEW p \in Notes, Find(t, p) \/ FindByName(t, p) \/ Read(t, p) PROVE NInv'
    BY <1>1, <2>1, FindStep, FindByNameStep, ReadStep
  <2>2. CASE Step(t)
    BY <1>1, <2>2, NextBuildStep, LookStep, StatStep, OpenStep, FstatStep, ReadUnitStep, KeepNoteStep,
       LookIndexStep, SameFolderStep, OtherFolderStep, TakeIndexStep, BeginWalkStep, WalkRootStep,
       ListRootStep, WalkSubStep, ListSubStep DEF Step
  <2> QED
    BY <1>3, <2>1, <2>2 DEF Thread
<1>4. CASE UNCHANGED vars
  <2>1. Here' = Here /\ kept' = kept /\ vault' = vault /\ call' = call
    BY <1>4 DEF vars, Here
  <2> QED
    BY <1>1, <2>1 DEF NInv, Sound
<1> QED
  BY <1>1, <1>2, <1>3, <1>4 DEF Next

\* The invariant: what every kept note, file being read and index was noted to be is true of the
\* files and folders that still have the times noted, and the notes kept are accounted for.
THEOREM NoteCacheInvariant == Spec => []NInv
<1>1. Init => NInv
  BY InitNInv
<1>2. NInv /\ [Next]_vars => NInv'
  BY NextNInv
<1> QED
  BY <1>1, <1>2, PTL DEF Spec

\* The map of the kept notes, their slots and the bytes counted tell the same notes, within the
\* limits, after any keeps, replacements and evictions (Keep).
THEOREM NotesAreAccounted == Spec => []NotesAccounted
<1>1. NInv => NotesAccounted
  <2>1. SUFFICES ASSUME NInv PROVE NotesAccounted
    OBVIOUS
  <2>2. Accounted(kept) /\ WithinLimits(kept)
    BY <2>1 DEF NInv, KeptTrue
  <2>3. Cardinality(DOMAIN kept.notes) = Cardinality(UsedSlots(kept))
    BY <2>2, AsManyNotes DEF Accounted
  <2>4. MapThenSumSet(LAMBDA i : CostOf(kept.slots[i]), UsedSlots(kept)) = Total(Costs(kept), UsedSlots(kept))
    <3> DEFINE S == UsedSlots(kept)
    <3>1. PICK sums : AreSums(Costs(kept), S, sums)
      BY <2>2, UsedFacts, SumsExist DEF Accounted
    <3>2. \A s \in SUBSET S : s # {} => Costs(kept)[First(s)] = CostOf(kept.slots[First(s)])
      BY FirstIn DEF Costs
    <3> DEFINE Equation(g) == g = [s \in SUBSET S |-> IF s = {} THEN 0
                                     ELSE CostOf(kept.slots[First(s)]) + g[s \ {First(s)}]]
    <3>3. \A g : Equation(g) <=> AreSums(Costs(kept), S, g)
      BY <3>2 DEF AreSums, SumsFrom
    <3>4. \E g : Equation(g)
      BY <3>1, <3>3
    <3>5. \E g : Equation(g) /\ MapThenSumSet(LAMBDA i : CostOf(kept.slots[i]), S) = g[S]
      <4> HIDE DEF S
      <4> QED
        BY <3>4 DEF MapThenSumSet, MapThenFoldSet, First
    <3>6. PICK g : AreSums(Costs(kept), S, g) /\ MapThenSumSet(LAMBDA i : CostOf(kept.slots[i]), S) = g[S]
      BY <3>3, <3>5
    <3>7. PICK h : AreSums(Costs(kept), S, h) /\ Total(Costs(kept), S) = h[S]
      BY <2>2, UsedFacts, TotalIs DEF Accounted
    <3>8. g[S] = h[S]
      <4>1. IsFiniteSet(S) /\ S \in (SUBSET S) \cap (SUBSET S)
        BY <2>2, UsedFacts DEF Accounted
      <4> HIDE DEF S
      <4> QED
        BY <3>6, <3>7, <4>1, SumsSame
    <3> QED
      BY <3>6, <3>7, <3>8
  <2> QED
    BY <2>2, <2>3, <2>4 DEF NotesAccounted, Accounted, Mapped, Counted, WithinLimits
<1> QED
  BY <1>1, NoteCacheInvariant, PTL

\* A thread changes no other thread's vault.
LEMMA OthersKeepTheirs ==
    ASSUME NInv, NEW u \in Threads, Thread(u), NEW t \in Threads, t # u
    PROVE  vault'[t] = vault[t]
<1>1. DOMAIN vault = Threads
  BY DEF NInv
<1>2. ASSUME NEW v, Set(u, v) PROVE vault'[t] = vault[t]
  BY <1>1, <1>2 DEF Set
<1>3. ASSUME NEW c, NEW index, Built(u, c, index) PROVE vault'[t] = vault[t]
  BY <1>2, <1>3 DEF Built, GoOn
<1>4. ASSUME NEW p \in Notes, Find(u, p) \/ FindByName(u, p) \/ Read(u, p) PROVE vault'[t] = vault[t]
  BY <1>2, <1>4 DEF Find, FindByName, Read
<1>5. CASE NextBuild(u) \/ Look(u) \/ Stat(u) \/ Open(u) \/ Fstat(u) \/ ReadUnit(u) \/ KeepNote(u)
  BY <1>2, <1>5 DEF NextBuild, Look, Stat, Open, Fstat, ReadUnit, KeepNote
<1>6. CASE LookIndex(u) \/ SameFolder(u) \/ OtherFolder(u) \/ TakeIndex(u) \/ BeginWalk(u) \/ WalkRoot(u)
  BY <1>2, <1>6 DEF LookIndex, SameFolder, OtherFolder, TakeIndex, GoOn, BeginWalk, WalkRoot
<1>7. CASE ListRoot(u)
  BY <1>3, <1>7 DEF ListRoot
<1>8. CASE WalkSub(u)
  BY <1>3, <1>8 DEF WalkSub
<1>9. CASE ListSub(u)
  BY <1>3, <1>9 DEF ListSub
<1> QED
  BY <1>4, <1>5, <1>6, <1>7, <1>8, <1>9 DEF Thread, Step

\* What a thread in a call does next is decided by the call.
LEMMA StatNext ==
    ASSUME NEW t \in Threads, Thread(t), call[t].step = "stat"
    PROVE  Stat(t)
<1>1. call[t] # Idle
  BY DEF Idle
<1>2. \A p : ~Find(t, p) /\ ~FindByName(t, p) /\ ~Read(t, p)
  BY <1>1 DEF Find, FindByName, Read, Begin
<1>3. ~NextBuild(t) /\ ~Look(t) /\ ~Open(t) /\ ~Fstat(t) /\ ~ReadUnit(t) /\ ~KeepNote(t)
  BY <1>1 DEF NextBuild, Look, Open, Fstat, ReadUnit, KeepNote
<1>4. ~LookIndex(t) /\ ~SameFolder(t) /\ ~OtherFolder(t) /\ ~TakeIndex(t)
  BY DEF LookIndex, SameFolder, OtherFolder, TakeIndex
<1>5. ~BeginWalk(t) /\ ~WalkRoot(t) /\ ~ListRoot(t) /\ ~WalkSub(t) /\ ~ListSub(t)
  BY DEF BeginWalk, WalkRoot, ListRoot, WalkSub, ListSub
<1> QED
  BY <1>2, <1>3, <1>4, <1>5 DEF Thread, Step

LEMMA CheckNext ==
    ASSUME NEW t \in Threads, Thread(t), call[t].step = "check"
    PROVE  SameFolder(t) \/ OtherFolder(t) \/ TakeIndex(t)
<1>1. call[t] # Idle
  BY DEF Idle
<1>2. \A p : ~Find(t, p) /\ ~FindByName(t, p) /\ ~Read(t, p)
  BY <1>1 DEF Find, FindByName, Read, Begin
<1>3. ~NextBuild(t) /\ ~Look(t) /\ ~Open(t) /\ ~Fstat(t) /\ ~ReadUnit(t) /\ ~KeepNote(t) /\ ~Stat(t)
  BY <1>1 DEF NextBuild, Look, Open, Fstat, ReadUnit, KeepNote, Stat
<1>4. ~LookIndex(t) /\ ~BeginWalk(t) /\ ~WalkRoot(t) /\ ~ListRoot(t) /\ ~WalkSub(t) /\ ~ListSub(t)
  BY DEF LookIndex, BeginWalk, WalkRoot, ListRoot, WalkSub, ListSub
<1> QED
  BY <1>2, <1>3, <1>4 DEF Thread, Step

\* A step of the world changes no vault.
LEMMA WorldKeepsVaults ==
    ASSUME World
    PROVE  vault' = vault
BY DEF World, Tick, MoveSub, Write, SetModified, Replace, Delete, Change

\* A text given out of the kept notes is the whole file's at the stat that allowed it, however the
\* file was changed while it was read and since (Vault::Cached, Keep, Settled).
THEOREM HitsAreCurrent == Spec => HitIsCurrent
<1> DEFINE Current == \A t \in Threads :
               call[t].step = "stat" /\ vault'[t].hit # vault[t].hit =>
                 entry[call[t].path] # None /\ vault'[t].hit.text = file[entry[call[t].path]].text
<1>1. NInv /\ [Next]_vars => [Current]_vars
  <2>1. SUFFICES ASSUME NInv, Next, NEW t \in Threads, call[t].step = "stat", vault'[t].hit # vault[t].hit
                 PROVE  entry[call[t].path] # None /\ vault'[t].hit.text = file[entry[call[t].path]].text
    OBVIOUS
  <2>2. Stat(t)
    BY <2>1, WorldKeepsVaults, OthersKeepTheirs, StatNext DEF Next
  <2> DEFINE c == call[t]
             is == StampOf(c.path)
             hit == [path |-> c.path, text |-> c.text]
  <2>3. is # None /\ Unchanged(c.identity, is) /\ Set(t, [vault[t] EXCEPT !.hit = hit])
    BY <2>1, <2>2 DEF Stat
  <2>4. entry[c.path] # None /\ is = IdentityOf(entry[c.path])
    BY <2>3 DEF StampOf
  <2>5. Trusted(c.text, c.identity, Here)
    BY <2>1 DEF NInv, CallTrue
  <2>6. entry[c.path] = c.identity.inode /\ file[entry[c.path]].changed = c.identity.changed
    BY <2>3, <2>4 DEF Unchanged, IdentityOf
  <2>7. file[entry[c.path]].text = c.text
    BY <2>5, <2>6 DEF Trusted, Here
  <2>8. vault'[t] = [vault[t] EXCEPT !.hit = hit] /\ vault[t] \in Vaults
    BY <2>1, <2>3, Sets, VaultParts
  <2>9. vault'[t].hit = hit
    BY <2>8 DEF Vaults
  <2> QED
    BY <2>4, <2>7, <2>9
<1>2. Spec => [][Current]_vars
  BY <1>1, NoteCacheInvariant, PTL DEF Spec
<1> QED
  BY <1>2 DEF HitIsCurrent

\* A kept name index that is used has exactly the notes of the tree, unless the tree changed while
\* its folders were looked at (KeptIndex, Vault::Walk).
THEOREM IndexesAreCurrent == Spec => IndexIsCurrent
<1> DEFINE Current == \A t \in Threads :
               call[t].step = "check" /\ vault'[t].index # None /\ call[t].since = changes =>
                 vault'[t].index = UNION {Listed(f) : f \in Folders}
<1>1. NInv /\ [Next]_vars => [Current]_vars
  <2>1. SUFFICES ASSUME NInv, Next, NEW t \in Threads, call[t].step = "check", vault'[t].index # None,
                        call[t].since = changes
                 PROVE  vault'[t].index = UNION {Listed(f) : f \in Folders}
    OBVIOUS
  <2>2. vault[t].index = None
    BY <2>1 DEF NInv, IndexSteps
  <2>3. TakeIndex(t)
    <3>1. Thread(t)
      BY <2>1, <2>2, WorldKeepsVaults, OthersKeepTheirs DEF Next
    <3>2. SameFolder(t) \/ OtherFolder(t) => vault' = vault
      BY DEF SameFolder, OtherFolder
    <3> QED
      BY <2>1, <2>2, <3>1, <3>2, CheckNext
  <2> DEFINE c == call[t]
  <2>4. c.at > Len(c.index.folders) /\ Set(t, [vault[t] EXCEPT !.index = c.index.names])
    BY <2>3 DEF TakeIndex, GoOn
  <2>5. /\ c \in CheckCalls /\ Indexed(c.index, Here)
        /\ \A j \in 1..Len(c.index.folders) : j < c.at => Same(c.index.folders[j], Here)
    BY <2>1 DEF NInv, CallTrue, Here
  <2>6. AllSame(c.index, Here)
    <3>1. Len(c.index.folders) \in Nat /\ c.at \in Nat
      BY <2>5 DEF CheckCalls, Indexes
    <3>2. \A j \in 1..Len(c.index.folders) : j < c.at
      BY <2>4, <3>1
    <3> QED
      BY <2>5, <3>2 DEF AllSame
  <2>7. c.index.names = {p \in Notes : FolderOf[p] \in Folders /\ Here.entry[p] # None}
    BY <2>5, <2>6 DEF Indexed, Building
  <2>8. vault'[t].index = c.index.names
    <3>1. vault'[t] = [vault[t] EXCEPT !.index = c.index.names] /\ vault[t] \in Vaults
      BY <2>1, <2>4, Sets, VaultParts
    <3> QED
      BY <3>1 DEF Vaults
  <2>9. UNION {Listed(f) : f \in Folders} = {p \in Notes : FolderOf[p] \in Folders /\ Here.entry[p] # None}
    BY ListedHere DEF Folders
  <2> QED
    BY <2>7, <2>8, <2>9
<1>2. Spec => [][Current]_vars
  BY <1>1, NoteCacheInvariant, PTL DEF Spec
<1> QED
  BY <1>2 DEF IndexIsCurrent
=============================================================================
