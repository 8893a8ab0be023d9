---------------------------- MODULE SessionProofs ----------------------------
(***************************************************************************)
(* Proofs about the two kinds of sessions, which have no state in common:  *)
(* a session of --serve (Serve), where each line has its own answer,       *)
(* however the lines are cut into blocks; the texts of a build session     *)
(* (SessionText), where a version names one text, however builds fail; and *)
(* its blocks and tapes (SessionBuilds), where a layout that takes from    *)
(* the last one's tape is the layout of its blocks alone.                  *)
(***************************************************************************)
EXTENDS Serve, SessionText, SessionBuilds, CountingLemmas, SequenceTheorems

-----------------------------------------------------------------------------
(***************************************************************************)
(* Facts about numbers and sequences.                                      *)
(***************************************************************************)
\* The first n of a sequence, and what of it is between two places.
LEMMA StartOf ==
    ASSUME NEW S, NEW text \in Seq(S), NEW n \in 0 .. Len(text)
    PROVE  /\ SubSeq(text, 1, n) \in Seq(S) /\ Len(SubSeq(text, 1, n)) = n
           /\ DOMAIN SubSeq(text, 1, n) = 1 .. n
           /\ \A k \in 1 .. n : SubSeq(text, 1, n)[k] = text[k]
OBVIOUS

LEMMA PartOf ==
    ASSUME NEW S, NEW text \in Seq(S), NEW m \in 0 .. Len(text), NEW n \in m .. Len(text)
    PROVE  /\ SubSeq(text, m + 1, n) \in Seq(S) /\ Len(SubSeq(text, m + 1, n)) = n - m
           /\ \A k \in 1 .. n - m : SubSeq(text, m + 1, n)[k] = text[m + k]
OBVIOUS

LEMMA PartOfStart ==
    ASSUME NEW S, NEW text \in Seq(S), NEW l \in 0 .. Len(text), NEW n \in Int, n <= l, NEW m \in Nat \ {0}
    PROVE  SubSeq(SubSeq(text, 1, l), m, n) = SubSeq(text, m, n)
OBVIOUS

LEMMA PartsJoined ==
    ASSUME NEW S, NEW text \in Seq(S), NEW l \in 0 .. Len(text), NEW m \in l .. Len(text), NEW n \in m .. Len(text)
    PROVE  SubSeq(text, l + 1, m) \o SubSeq(text, m + 1, n) = SubSeq(text, l + 1, n)
OBVIOUS

-----------------------------------------------------------------------------
(***************************************************************************)
(* The lines of a text, as LinesOf has them.                               *)
(***************************************************************************)
LineBreaks(text) == {n \in DOMAIN text : text[n] = "newline"}
BreakAt(text, k) ==
    IF k = 0 THEN 0 ELSE CHOOSE e \in LineBreaks(text) : Cardinality({f \in LineBreaks(text) : f <= e}) = k
Whole(text) ==
    [k \in 1 .. Cardinality(LineBreaks(text)) |-> SubSeq(text, BreakAt(text, k - 1) + 1, BreakAt(text, k) - 1)]
Remaining(text) == SubSeq(text, BreakAt(text, Len(Whole(text))) + 1, Len(text))

LEMMA LinesAre ==
    ASSUME NEW text
    PROVE  LinesOf(text) = IF Remaining(text) = << >> THEN Whole(text) ELSE Append(Whole(text), Remaining(text))
BY DEF LinesOf, LineBreaks, BreakAt, Whole, Remaining

LEMMA BreaksType ==
    ASSUME NEW text \in Seq(Bytes)
    PROVE  /\ LineBreaks(text) \subseteq 1 .. Len(text) /\ LineBreaks(text) \subseteq Nat
           /\ IsFiniteSet(LineBreaks(text)) /\ Cardinality(LineBreaks(text)) \in Nat
<1>1. LineBreaks(text) \subseteq 1 .. Len(text) /\ Len(text) \in Nat
  BY DEF LineBreaks
<1>2. IsFiniteSet(1 .. Len(text))
  BY <1>1, FS_Interval
<1> QED
  BY <1>1, <1>2, FS_Subset, FS_CardinalityType

LEMMA BreakIs ==
    ASSUME NEW text \in Seq(Bytes), NEW x \in LineBreaks(text)
    PROVE  /\ Rank(LineBreaks(text), x) \in 1 .. Cardinality(LineBreaks(text))
           /\ BreakAt(text, Rank(LineBreaks(text), x)) = x
<1> DEFINE E == LineBreaks(text)
           k == Rank(E, x)
<1>1. IsFiniteSet(E) /\ E \subseteq Nat /\ Cardinality(E) \in Nat
  BY BreaksType
<1> HIDE DEF E
<1>2. k \in 1 .. Cardinality(E)
  <2>1. x \in UpTo(E, x)
    <3>1. x \in Nat /\ x \in E
      BY <1>1 DEF E
    <3> QED
      BY <3>1 DEF UpTo
  <2>2. k \in Nat /\ k <= Cardinality(E)
    BY <1>1, RankType
  <2>3. k # 0
    BY <1>1, <2>1, RankType, FS_EmptySet DEF Rank
  <2> QED
    BY <1>1, <2>2, <2>3
<1> DEFINE At(e) == e \in E /\ Rank(E, e) = k
<1>3. x \in E /\ At(x)
  BY DEF E
<1>4. \A e : At(e) => e = x
  BY <1>1, <1>3, RankOne
<1>5. BreakAt(text, k) = CHOOSE e \in E : Rank(E, e) = k
  <2>1. k # 0
    BY <1>1, <1>2
  <2> HIDE DEF k
  <2> QED
    BY <2>1 DEF BreakAt, Rank, UpTo, E
<1>6. (CHOOSE e \in E : Rank(E, e) = k) = x
  BY <1>3, <1>4
<1> QED
  BY <1>2, <1>5, <1>6 DEF E

LEMMA BreakIn ==
    ASSUME NEW text \in Seq(Bytes), NEW k \in 1 .. Cardinality(LineBreaks(text))
    PROVE  BreakAt(text, k) \in LineBreaks(text) /\ Rank(LineBreaks(text), BreakAt(text, k)) = k
<1>1. PICK x \in LineBreaks(text) : Rank(LineBreaks(text), x) = k
  <2>1. Len(text) \in Nat
    OBVIOUS
  <2> QED
    BY <2>1, BreaksType, RankIs
<1> QED
  BY <1>1, BreakIs

\* The line breaks of the first n bytes are those of the text up to there.
LEMMA BreaksSame ==
    ASSUME NEW text \in Seq(Bytes), NEW n \in 0 .. Len(text)
    PROVE  LET start == SubSeq(text, 1, n) IN
           /\ LineBreaks(start) = UpTo(LineBreaks(text), n)
           /\ Cardinality(LineBreaks(start)) <= Cardinality(LineBreaks(text))
           /\ \A k \in 0 .. Cardinality(LineBreaks(start)) :
                BreakAt(start, k) = BreakAt(text, k) /\ BreakAt(start, k) \in 0 .. n
<1> DEFINE start == SubSeq(text, 1, n)
<1>1. start \in Seq(Bytes) /\ Len(start) = n /\ DOMAIN start = 1 .. n /\ \A k \in 1 .. n : start[k] = text[k]
  BY StartOf
<1> HIDE DEF start
<1>2. LineBreaks(start) = UpTo(LineBreaks(text), n)
  <2>1. DOMAIN text = 1 .. Len(text) /\ Len(text) \in Nat
    OBVIOUS
  <2>2. \A x : x \in LineBreaks(start) <=> x \in LineBreaks(text) /\ x <= n
    BY <1>1, <2>1 DEF LineBreaks
  <2> QED
    BY <2>2 DEF UpTo
<1>3. Cardinality(LineBreaks(start)) <= Cardinality(LineBreaks(text))
  BY <1>2, BreaksType, RankType DEF Rank
<1>4. ASSUME NEW k \in 1 .. Cardinality(LineBreaks(start))
      PROVE  BreakAt(start, k) = BreakAt(text, k) /\ BreakAt(start, k) \in 0 .. n
  <2> DEFINE x == BreakAt(start, k)
  <2>1. x \in LineBreaks(start) /\ Rank(LineBreaks(start), x) = k
    BY <1>1, BreakIn
  <2>2. x \in LineBreaks(text) /\ x <= n /\ x \in Nat
    BY <1>2, <2>1, BreaksType DEF UpTo
  <2> HIDE DEF x
  <2>3. UpTo(LineBreaks(start), x) = UpTo(LineBreaks(text), x)
    <3>1. \A f \in LineBreaks(text) : f \in Nat
      BY BreaksType
    <3>2. \A f \in LineBreaks(text) : f <= x => f <= n
      BY <2>2, <3>1
    <3> QED
      BY <1>2, <3>2 DEF UpTo
  <2>4. Rank(LineBreaks(text), x) = k
    BY <2>1, <2>3 DEF Rank
  <2>5. BreakAt(text, k) = x
    BY <2>2, <2>4, BreakIs
  <2> QED
    BY <2>2, <2>5 DEF x
<1>5. BreakAt(start, 0) = BreakAt(text, 0) /\ BreakAt(start, 0) \in 0 .. n
  BY DEF BreakAt
<1>6. Cardinality(LineBreaks(start)) \in Nat
  BY <1>1, BreaksType
<1>7. \A k \in 0 .. Cardinality(LineBreaks(start)) :
          BreakAt(start, k) = BreakAt(text, k) /\ BreakAt(start, k) \in 0 .. n
  BY <1>4, <1>5, <1>6
<1> QED
  BY <1>2, <1>3, <1>7 DEF start

LEMMA WholeType ==
    ASSUME NEW text \in Seq(Bytes)
    PROVE  /\ Whole(text) \in Seq(Seq(Bytes)) /\ Len(Whole(text)) = Cardinality(LineBreaks(text))
           /\ DOMAIN Whole(text) = 1 .. Cardinality(LineBreaks(text))
           /\ Remaining(text) \in Seq(Bytes)
<1> DEFINE c == Cardinality(LineBreaks(text))
<1>1. c \in Nat
  BY BreaksType
<1>2. \A k \in 0 .. c : BreakAt(text, k) \in 0 .. Len(text)
  <2>1. BreakAt(text, 0) \in 0 .. Len(text)
    BY DEF BreakAt
  <2>2. \A k \in 1 .. c : BreakAt(text, k) \in 0 .. Len(text)
    BY BreakIn, BreaksType
  <2> QED
    BY <1>1, <2>1, <2>2
<1> HIDE DEF c
<1>3. ASSUME NEW k \in 1 .. c
      PROVE  SubSeq(text, BreakAt(text, k - 1) + 1, BreakAt(text, k) - 1) \in Seq(Bytes)
  <2>1. BreakAt(text, k - 1) \in 0 .. Len(text) /\ BreakAt(text, k) \in 0 .. Len(text)
    BY <1>1, <1>2
  <2>2. \A i, j \in 0 .. Len(text) : SubSeq(text, i + 1, j - 1) \in Seq(Bytes)
    OBVIOUS
  <2> QED
    BY <2>1, <2>2
<1>4. Whole(text) \in Seq(Seq(Bytes)) /\ Len(Whole(text)) = c /\ DOMAIN Whole(text) = 1 .. c
  <2> DEFINE L == Seq(Bytes)
  <2>1. Whole(text) = [k \in 1 .. c |-> SubSeq(text, BreakAt(text, k - 1) + 1, BreakAt(text, k) - 1)]
    BY DEF Whole, c
  <2>2. \A k \in 1 .. c : SubSeq(text, BreakAt(text, k - 1) + 1, BreakAt(text, k) - 1) \in L
    BY <1>3
  <2> HIDE DEF L
  <2>3. Whole(text) \in [1 .. c -> L]
    BY <2>1, <2>2
  <2>4. Whole(text) \in Seq(L) /\ Len(Whole(text)) = c /\ DOMAIN Whole(text) = 1 .. c
    BY <1>1, <2>3
  <2> QED
    BY <2>4 DEF L
<1>5. Remaining(text) \in Seq(Bytes)
  <2>1. BreakAt(text, c) \in 0 .. Len(text)
    BY <1>1, <1>2
  <2>2. \A i \in 0 .. Len(text) : SubSeq(text, i + 1, Len(text)) \in Seq(Bytes)
    OBVIOUS
  <2> QED
    BY <1>4, <2>1, <2>2 DEF Remaining
<1> QED
  BY <1>4, <1>5 DEF c

LEMMA LinesType ==
    ASSUME NEW text \in Seq(Bytes)
    PROVE  LinesOf(text) \in Seq(Seq(Bytes))
<1> DEFINE L == Seq(Bytes)
<1>1. Whole(text) \in Seq(L) /\ Remaining(text) \in L
  BY WholeType
<1> HIDE DEF L
<1>2. LinesOf(text) \in Seq(L)
  <2>1. Append(Whole(text), Remaining(text)) \in Seq(L)
    BY <1>1
  <2> QED
    BY <1>1, <2>1, LinesAre
<1> QED
  BY <1>2 DEF L

\* Whole lines stay what they are when more is read.
LEMMA WholeSame ==
    ASSUME NEW text \in Seq(Bytes), NEW n \in 0 .. Len(text)
    PROVE  LET start == SubSeq(text, 1, n) IN
           /\ Len(Whole(start)) <= Len(Whole(text))
           /\ \A k \in DOMAIN Whole(start) : Whole(start)[k] = Whole(text)[k]
<1> DEFINE start == SubSeq(text, 1, n)
           c == Cardinality(LineBreaks(start))
<1>1. start \in Seq(Bytes) /\ Len(start) = n
  BY StartOf
<1>2. c \in Nat /\ c <= Cardinality(LineBreaks(text))
      /\ \A k \in 0 .. c : BreakAt(start, k) = BreakAt(text, k) /\ BreakAt(start, k) \in 0 .. n
  BY <1>1, BreaksType, BreaksSame
<1>3. Len(Whole(start)) = c /\ DOMAIN Whole(start) = 1 .. c /\ Len(Whole(text)) = Cardinality(LineBreaks(text))
  BY <1>1, WholeType
<1>4. Cardinality(LineBreaks(text)) \in Nat
  BY BreaksType
<1> HIDE DEF c
<1>5. ASSUME NEW k \in 1 .. c
      PROVE  Whole(start)[k] = Whole(text)[k]
  <2>1. BreakAt(start, k) = BreakAt(text, k) /\ BreakAt(start, k) \in 0 .. n
        /\ BreakAt(start, k - 1) = BreakAt(text, k - 1) /\ BreakAt(start, k - 1) \in 0 .. n
    BY <1>2
  <2>2. Whole(start)[k] = SubSeq(start, BreakAt(start, k - 1) + 1, BreakAt(start, k) - 1)
        /\ Whole(text)[k] = SubSeq(text, BreakAt(start, k - 1) + 1, BreakAt(start, k) - 1)
    <3>1. k \in 1 .. Cardinality(LineBreaks(text))
      BY <1>2, <1>4
    <3> QED
      BY <2>1, <3>1 DEF Whole, c
  <2>3. \A i, j \in 0 .. n : SubSeq(start, i + 1, j - 1) = SubSeq(text, i + 1, j - 1)
    BY PartOfStart
  <2> HIDE DEF start
  <2> QED
    BY <2>1, <2>2, <2>3
<1> QED
  BY <1>2, <1>3, <1>5

\* Where a line starts: after a line break, or where the text does.
AtBreak(text, s) == s = 0 \/ text[s] = "newline"
NoBreakIn(text, s, e) == \A n \in s + 1 .. e : text[n] # "newline"

\* The line break before a place with none after it is the last of those before it.
LEMMA LastBreak ==
    ASSUME NEW text \in Seq(Bytes), NEW e \in 0 .. Len(text), NEW s \in 0 .. e,
           AtBreak(text, s), NoBreakIn(text, s, e)
    PROVE  LET start == SubSeq(text, 1, e) IN
           BreakAt(start, Cardinality(LineBreaks(start))) = s
<1> DEFINE start == SubSeq(text, 1, e)
           E == LineBreaks(start)
<1>1. start \in Seq(Bytes) /\ Len(start) = e /\ DOMAIN start = 1 .. e /\ \A k \in 1 .. e : start[k] = text[k]
  BY StartOf
<1> HIDE DEF start
<1>2. \A x \in E : x \in 1 .. e /\ text[x] = "newline"
  BY <1>1 DEF LineBreaks
<1>3. \A x \in E : x \in Nat /\ x <= s
  <2>1. \A x \in E : x \in 1 .. e /\ ~(x \in s + 1 .. e)
    BY <1>2 DEF NoBreakIn
  <2> HIDE DEF E
  <2>2. s \in Nat /\ e \in Nat
    OBVIOUS
  <2> QED
    BY <2>1, <2>2
<1>4. CASE s = 0
  <2>1. E = {}
    <3> HIDE DEF E
    <3> SUFFICES ASSUME NEW x \in E PROVE FALSE
      OBVIOUS
    <3>1. x \in 1 .. e
      BY <1>2
    <3> QED
      BY <1>3, <1>4, <3>1
  <2>2. Cardinality(E) = 0
    BY <2>1, FS_EmptySet
  <2> QED
    BY <1>4, <2>2 DEF BreakAt, start
<1>5. CASE s # 0
  <2>1. s \in E
    <3>1. text[s] = "newline" /\ s \in 1 .. e
      BY <1>5 DEF AtBreak
    <3> QED
      BY <1>1, <3>1 DEF LineBreaks
  <2>2. UpTo(E, s) = E
    BY <1>3 DEF UpTo
  <2>3. Rank(E, s) = Cardinality(E)
    BY <2>2 DEF Rank
  <2>4. BreakAt(start, Rank(E, s)) = s
    BY <1>1, <2>1, BreakIs
  <2> QED
    BY <2>3, <2>4 DEF start
<1> QED
  BY <1>4, <1>5

\* Up to a line break, all lines are whole.
LEMMA LinesAtBreak ==
    ASSUME NEW text \in Seq(Bytes), NEW s \in 0 .. Len(text), AtBreak(text, s)
    PROVE  LinesOf(SubSeq(text, 1, s)) = Whole(SubSeq(text, 1, s))
<1> DEFINE start == SubSeq(text, 1, s)
<1>1. start \in Seq(Bytes) /\ Len(start) = s
  BY StartOf
<1>2. BreakAt(start, Cardinality(LineBreaks(start))) = s
  <2>1. NoBreakIn(text, s, s)
    BY DEF NoBreakIn
  <2> QED
    BY <2>1, LastBreak
<1> HIDE DEF start
<1>3. Remaining(start) = SubSeq(start, s + 1, s)
  BY <1>1, <1>2, WholeType DEF Remaining
<1>4. Remaining(start) = << >>
  BY <1>1, <1>3
<1> QED
  BY <1>4, LinesAre DEF start

\* What is past the last line break is a line of its own.
LEMMA LinesPastBreak ==
    ASSUME NEW text \in Seq(Bytes), NEW e \in 0 .. Len(text), NEW s \in 0 .. e, s < e,
           AtBreak(text, s), NoBreakIn(text, s, e)
    PROVE  LinesOf(SubSeq(text, 1, e)) = Append(LinesOf(SubSeq(text, 1, s)), SubSeq(text, s + 1, e))
<1> DEFINE start == SubSeq(text, 1, s)
           more == SubSeq(text, 1, e)
<1>1. more \in Seq(Bytes) /\ Len(more) = e /\ start \in Seq(Bytes) /\ start = SubSeq(more, 1, s)
  BY StartOf, PartOfStart
<1>2. BreakAt(more, Cardinality(LineBreaks(more))) = s
  BY LastBreak
<1>3. SubSeq(more, s + 1, e) = SubSeq(text, s + 1, e)
  <2>1. s + 1 \in Nat \ {0} /\ e \in Int /\ e <= e
    OBVIOUS
  <2> QED
    BY <2>1, PartOfStart
<1>4. SubSeq(text, s + 1, e) # << >>
  <2>1. Len(SubSeq(text, s + 1, e)) = e - s
    BY PartOf
  <2> QED
    BY <2>1
<1>5. LinesOf(start) = Whole(start)
  <2>1. s \in 0 .. Len(text)
    OBVIOUS
  <2> QED
    BY <2>1, LinesAtBreak
<1>6. \A x \in LineBreaks(more) : x <= s
  <2>1. DOMAIN more = 1 .. e /\ \A k \in 1 .. e : more[k] = text[k]
    BY StartOf
  <2>2. \A x \in 1 .. e : text[x] = "newline" => x <= s
    BY DEF NoBreakIn
  <2> HIDE DEF more
  <2> QED
    BY <2>1, <2>2 DEF LineBreaks
<1> HIDE DEF start, more
<1>7. s \in 0 .. Len(more)
  BY <1>1
<1>8. LineBreaks(start) = LineBreaks(more)
  <2>1. LineBreaks(start) = UpTo(LineBreaks(more), s)
    BY <1>1, <1>7, BreaksSame
  <2> QED
    BY <1>6, <2>1 DEF UpTo
<1>9. Whole(start) = Whole(more)
  <2>1. Len(Whole(start)) = Len(Whole(more)) /\ \A k \in DOMAIN Whole(start) : Whole(start)[k] = Whole(more)[k]
    BY <1>1, <1>7, <1>8, WholeType, WholeSame
  <2> DEFINE L == Seq(Bytes)
  <2>2. Whole(start) \in Seq(L) /\ Whole(more) \in Seq(L)
    BY <1>1, WholeType
  <2> HIDE DEF L
  <2>3. DOMAIN Whole(start) = 1 .. Len(Whole(start))
    BY <2>2
  <2>4. \A k \in 1 .. Len(Whole(start)) : Whole(start)[k] = Whole(more)[k]
    BY <2>1, <2>3
  <2> QED
    BY <2>1, <2>2, <2>4, SeqEqual
<1>10. Remaining(more) = SubSeq(text, s + 1, e)
  BY <1>1, <1>2, <1>3, WholeType DEF Remaining
<1>11. LinesOf(more) = Append(Whole(more), Remaining(more))
  BY <1>4, <1>10, LinesAre
<1> QED
  BY <1>5, <1>9, <1>10, <1>11 DEF start, more

\* A line break ends the line it comes after.
LEMMA LinesToBreak ==
    ASSUME NEW text \in Seq(Bytes), NEW e \in 0 .. Len(text) - 1, NEW s \in 0 .. e,
           AtBreak(text, s), NoBreakIn(text, s, e), text[e + 1] = "newline"
    PROVE  LinesOf(SubSeq(text, 1, e + 1)) = Append(LinesOf(SubSeq(text, 1, s)), SubSeq(text, s + 1, e))
<1> DEFINE start == SubSeq(text, 1, s)
           more == SubSeq(text, 1, e + 1)
           c == Cardinality(LineBreaks(start))
<1>1. more \in Seq(Bytes) /\ Len(more) = e + 1 /\ start \in Seq(Bytes) /\ start = SubSeq(more, 1, s)
  BY StartOf, PartOfStart
<1>2. LinesOf(start) = Whole(start) /\ LinesOf(more) = Whole(more)
  <2>1. s \in 0 .. Len(text) /\ e + 1 \in 0 .. Len(text) /\ AtBreak(text, e + 1)
    BY DEF AtBreak
  <2> QED
    BY <2>1, LinesAtBreak
<1>3. BreakAt(start, c) = s
  <2>1. NoBreakIn(text, s, s) /\ s \in 0 .. Len(text) /\ s \in 0 .. s
    BY DEF NoBreakIn
  <2> QED
    BY <2>1, LastBreak
<1>4. BreakAt(more, Cardinality(LineBreaks(more))) = e + 1
  <2>1. NoBreakIn(text, e + 1, e + 1) /\ e + 1 \in 0 .. Len(text) /\ AtBreak(text, e + 1) /\ e + 1 \in 0 .. e + 1
    BY DEF NoBreakIn, AtBreak
  <2> QED
    BY <2>1, LastBreak
<1>5. DOMAIN more = 1 .. e + 1 /\ \A k \in 1 .. e + 1 : more[k] = text[k]
  BY StartOf
<1>6. SubSeq(more, s + 1, e) = SubSeq(text, s + 1, e)
  <2>1. s + 1 \in Nat \ {0} /\ e \in Int /\ e <= e + 1 /\ e + 1 \in 0 .. Len(text)
    OBVIOUS
  <2> QED
    BY <2>1, PartOfStart
<1>7. s \in 0 .. Len(more) /\ s \in Nat /\ e \in Nat /\ s <= e
  BY <1>1
<1> HIDE DEF start, more
<1>8. LineBreaks(start) = UpTo(LineBreaks(more), s)
  BY <1>1, <1>7, BreaksSame
<1>9. LineBreaks(more) = LineBreaks(start) \union {e + 1} /\ e + 1 \notin LineBreaks(start)
  <2>1. \A x \in 1 .. e + 1 : text[x] = "newline" => x <= s \/ x = e + 1
    <3>1. \A x \in 1 .. e + 1 : x <= s \/ x \in s + 1 .. e \/ x = e + 1
      BY <1>7
    <3> QED
      BY <3>1 DEF NoBreakIn
  <2>2. e + 1 \in LineBreaks(more) /\ ~(e + 1 <= s)
    BY <1>5, <1>7 DEF LineBreaks
  <2>3. \A x \in LineBreaks(more) : x <= s \/ x = e + 1
    BY <1>5, <2>1 DEF LineBreaks
  <2> QED
    BY <1>8, <2>2, <2>3 DEF UpTo
<1>10. Cardinality(LineBreaks(more)) = c + 1 /\ c \in Nat
  BY <1>1, <1>9, BreaksType, FS_AddElement
<1> HIDE DEF c
<1>11. BreakAt(more, c) = s
  <2>1. c \in 0 .. Cardinality(LineBreaks(start))
    BY <1>10 DEF c
  <2> QED
    BY <1>1, <1>3, <1>7, <2>1, BreaksSame
<1>12. Whole(more)[c + 1] = SubSeq(text, s + 1, e)
  <2>1. c + 1 \in 1 .. Cardinality(LineBreaks(more)) /\ (c + 1) - 1 = c
    BY <1>10
  <2>2. Whole(more)[c + 1] = SubSeq(more, BreakAt(more, c) + 1, BreakAt(more, c + 1) - 1)
    BY <2>1 DEF Whole
  <2>3. BreakAt(more, c + 1) - 1 = e
    BY <1>4, <1>7, <1>10
  <2> QED
    BY <1>6, <1>11, <2>2, <2>3
<1> DEFINE L == Seq(Bytes)
<1>13. /\ Len(Whole(start)) = c /\ Len(Whole(more)) = c + 1 /\ Whole(start) \in Seq(L) /\ Whole(more) \in Seq(L)
       /\ SubSeq(text, s + 1, e) \in L
  <2>1. s \in 0 .. Len(text) /\ e \in s .. Len(text)
    OBVIOUS
  <2> QED
    BY <1>1, <1>10, <2>1, WholeType, PartOf DEF c
<1>14. \A k \in DOMAIN Whole(start) : Whole(start)[k] = Whole(more)[k]
  BY <1>1, <1>7, WholeSame
<1> HIDE DEF L
<1>15. Whole(more) = Append(Whole(start), SubSeq(text, s + 1, e))
  <2> DEFINE app == Append(Whole(start), SubSeq(text, s + 1, e))
  <2>1. app \in Seq(L) /\ Len(app) = c + 1 /\ app[c + 1] = SubSeq(text, s + 1, e)
        /\ \A k \in 1 .. c : app[k] = Whole(start)[k]
    BY <1>10, <1>13
  <2>2. \A k \in 1 .. c : Whole(start)[k] = Whole(more)[k]
    BY <1>10, <1>13, <1>14
  <2> HIDE DEF app
  <2>3. \A k \in 1 .. Len(app) : app[k] = Whole(more)[k]
    <3>1. app[c + 1] = Whole(more)[c + 1]
      BY <1>12, <2>1
    <3>2. \A k \in 1 .. Len(app) : k \in 1 .. c \/ k = c + 1
      BY <1>10, <2>1
    <3> QED
      BY <2>1, <2>2, <3>1, <3>2
  <2>4. app = Whole(more)
    BY <1>13, <2>1, <2>3, SeqEqual
  <2> QED
    BY <2>4 DEF app
<1> QED
  BY <1>2, <1>15 DEF start, more

\* The lines up to a line break are the first of all.
LEMMA LinesBefore ==
    ASSUME NEW text \in Seq(Bytes), NEW n \in 0 .. Len(text), NEW s \in 0 .. n, AtBreak(text, s)
    PROVE  LET start == LinesOf(SubSeq(text, 1, s))
               more == LinesOf(SubSeq(text, 1, n))
           IN  Len(start) <= Len(more) /\ \A k \in DOMAIN start : start[k] = more[k]
<1> DEFINE start == SubSeq(text, 1, s)
           more == SubSeq(text, 1, n)
           L == Seq(Bytes)
<1>1. more \in Seq(Bytes) /\ Len(more) = n /\ start \in Seq(Bytes) /\ start = SubSeq(more, 1, s)
  BY StartOf, PartOfStart
<1>2. LinesOf(start) = Whole(start)
  <2>1. s \in 0 .. Len(text)
    OBVIOUS
  <2> QED
    BY <2>1, LinesAtBreak
<1> HIDE DEF start, more
<1>3. Len(Whole(start)) <= Len(Whole(more)) /\ \A k \in DOMAIN Whole(start) : Whole(start)[k] = Whole(more)[k]
  <2>1. s \in 0 .. Len(more)
    BY <1>1
  <2> QED
    BY <1>1, <2>1, WholeSame
<1>4. Whole(start) \in Seq(L) /\ Whole(more) \in Seq(L) /\ Remaining(more) \in L
  BY <1>1, WholeType
<1> HIDE DEF L
<1>5. LinesOf(more) = Whole(more) \/ LinesOf(more) = Append(Whole(more), Remaining(more))
  BY LinesAre
<1>6. Len(LinesOf(start)) <= Len(LinesOf(more)) /\ \A k \in DOMAIN LinesOf(start) : LinesOf(start)[k] = LinesOf(more)[k]
  <2>1. CASE LinesOf(more) = Whole(more)
    BY <1>2, <1>3, <2>1
  <2>2. CASE LinesOf(more) = Append(Whole(more), Remaining(more))
    <3>1. /\ Len(Append(Whole(more), Remaining(more))) = Len(Whole(more)) + 1
          /\ \A k \in 1 .. Len(Whole(more)) : Append(Whole(more), Remaining(more))[k] = Whole(more)[k]
          /\ Len(Whole(more)) \in Nat /\ Len(Whole(start)) \in Nat
          /\ DOMAIN Whole(start) = 1 .. Len(Whole(start))
      BY <1>4
    <3>2. \A k \in DOMAIN Whole(start) : k \in 1 .. Len(Whole(more))
      BY <1>3, <3>1
    <3> QED
      BY <1>2, <1>3, <2>2, <3>1, <3>2
  <2> QED
    BY <1>5, <2>1, <2>2
<1> QED
  BY <1>6 DEF start, more
-----------------------------------------------------------------------------
(***************************************************************************)
(* A fold over a sequence, for a table of its steps: from[i] gives what    *)
(* the i-th element makes of a state.                                      *)
(***************************************************************************)
FoldTable(sets, base, from, fold) ==
    [s \in sets |-> IF s = {} THEN base ELSE from[Max(s)][fold[s \ {Max(s)}]]]

LEMMA MaxIs ==
    ASSUME NEW n \in Nat
    PROVE  /\ \A s \in SUBSET (1 .. n) : s # {} => Max(s) \in s
           /\ \A k \in 1 .. n : Max(1 .. k) = k
<1>1. ASSUME NEW s \in SUBSET (1 .. n), s # {} PROVE Max(s) \in s
  <2> DEFINE low == {m \in Nat : \E x \in s : m = n - x}
  <2>1. low \subseteq Nat /\ low # {}
    <3>1. PICK x \in s : TRUE
      BY <1>1
    <3>2. n - x \in low
      OBVIOUS
    <3> QED
      BY <3>2
  <2> HIDE DEF low
  <2>2. PICK m \in low : \A k \in low : m <= k
    BY <2>1, LeastNatural
  <2>3. PICK x \in s : m = n - x
    BY DEF low
  <2>4. \A y \in s : x >= y
    <3>1. TAKE y \in s
    <3>2. n - y \in low
      BY DEF low
    <3>3. n - x <= n - y
      BY <2>2, <2>3, <3>2
    <3> QED
      BY <3>3
  <2>5. \E z \in s : \A y \in s : z >= y
    BY <2>3, <2>4
  <2> QED
    BY <2>5 DEF Max
<1>2. ASSUME NEW k \in 1 .. n PROVE Max(1 .. k) = k
  <2>1. k \in 1 .. k /\ \A y \in 1 .. k : k >= y
    OBVIOUS
  <2>2. \A x \in 1 .. k : (\A y \in 1 .. k : x >= y) => x = k
    OBVIOUS
  <2> QED
    BY <2>1, <2>2 DEF Max
<1> QED
  BY <1>1, <1>2

LEMMA FoldExists ==
    ASSUME NEW n \in Nat, NEW base, NEW from
    PROVE  \E fold : fold = FoldTable(SUBSET (1 .. n), base, from, fold)
<1> DEFINE S == 1 .. n
           Small(k) == {s \in SUBSET S : Cardinality(s) <= k}
           Missing == {k \in Nat : ~ \E fold : fold = FoldTable(Small(k), base, from, fold)}
<1>1. IsFiniteSet(S) /\ \A s \in SUBSET S : IsFiniteSet(s) /\ Cardinality(s) \in Nat /\ Cardinality(s) <= Cardinality(S)
  <2>1. IsFiniteSet(S)
    BY FS_Interval
  <2> HIDE DEF S
  <2> QED
    BY <2>1, FS_Subset, FS_CardinalityType
<1>2. \A s \in SUBSET S : s # {} => Max(s) \in s
  BY MaxIs
<1> HIDE DEF S
<1>3. Missing = {}
  <2>1. SUFFICES ASSUME Missing # {} PROVE FALSE
    OBVIOUS
  <2>2. PICK k \in Missing : \A m \in Missing : k <= m
    <3>1. Missing \subseteq Nat
      OBVIOUS
    <3> HIDE DEF Missing
    <3> QED
      BY <2>1, <3>1, LeastNatural
  <2>3. k # 0
    <3>1. SUFFICES ASSUME k = 0 PROVE FALSE
      OBVIOUS
    <3>2. \A s \in Small(0) : s = {}
      BY <1>1, FS_EmptySet
    <3> DEFINE fold == [s \in Small(0) |-> base]
    <3>3. fold = FoldTable(Small(0), base, from, fold)
      BY <3>2 DEF FoldTable
    <3> QED
      BY <3>1, <3>3
  <2>4. k - 1 \in Nat /\ k - 1 \notin Missing
    <3>1. k \in Nat
      BY <2>2
    <3> HIDE DEF Missing
    <3> QED
      BY <2>2, <2>3, <3>1
  <2>5. PICK less : less = FoldTable(Small(k - 1), base, from, less)
    BY <2>4
  <2>6. \A s \in Small(k) : s # {} => s \ {Max(s)} \in Small(k - 1)
    <3>1. TAKE s \in Small(k)
    <3>2. HAVE s # {}
    <3>3. Max(s) \in s /\ IsFiniteSet(s) /\ Cardinality(s) \in Nat /\ Cardinality(s) <= k
      BY <1>1, <1>2, <3>2
    <3>4. Cardinality(s \ {Max(s)}) = Cardinality(s) - 1
      BY <3>3, FS_RemoveElement
    <3>5. k \in Nat /\ s \in SUBSET S
      BY <2>2
    <3>6. Cardinality(s \ {Max(s)}) <= k - 1
      BY <3>3, <3>4, <3>5
    <3> QED
      BY <3>5, <3>6
  <2> DEFINE fold == FoldTable(Small(k), base, from, less)
  <2>7. \A s \in Small(k - 1) : s \in Small(k) /\ fold[s] = less[s]
    <3>1. TAKE s \in Small(k - 1)
    <3>2. k \in Nat
      BY <2>2
    <3>3. s \in Small(k)
      BY <1>1, <3>2
    <3>4. less[s] = IF s = {} THEN base ELSE from[Max(s)][less[s \ {Max(s)}]]
      BY <2>5 DEF FoldTable
    <3>5. fold[s] = IF s = {} THEN base ELSE from[Max(s)][less[s \ {Max(s)}]]
      BY <3>3 DEF FoldTable
    <3> QED
      BY <3>3, <3>4, <3>5
  <2>8. fold = FoldTable(Small(k), base, from, fold)
    BY <2>6, <2>7 DEF FoldTable
  <2> QED
    BY <2>2, <2>8
<1>4. Cardinality(S) \notin Missing /\ Small(Cardinality(S)) = SUBSET S
  BY <1>1, <1>3
<1> QED
  BY <1>1, <1>4 DEF S

\* The states of a fold are states.
LEMMA FoldType ==
    ASSUME NEW n \in Nat, NEW States, NEW fold, fold[{}] \in States,
           \A s \in SUBSET (1 .. n) : s # {} /\ fold[s \ {Max(s)}] \in States => fold[s] \in States
    PROVE  \A s \in SUBSET (1 .. n) : fold[s] \in States
<1> DEFINE S == 1 .. n
           Wrong == {k \in Nat : \E s \in SUBSET S : Cardinality(s) = k /\ fold[s] \notin States}
<1>1. \A s \in SUBSET S : IsFiniteSet(s) /\ Cardinality(s) \in Nat
  <2>1. IsFiniteSet(S)
    BY FS_Interval
  <2> HIDE DEF S
  <2> QED
    BY <2>1, FS_Subset, FS_CardinalityType
<1>2. SUFFICES ASSUME Wrong # {} PROVE FALSE
  BY <1>1
<1>3. PICK k \in Wrong : \A m \in Wrong : k <= m
  <2>1. Wrong \subseteq Nat
    OBVIOUS
  <2> HIDE DEF Wrong
  <2> QED
    BY <1>2, <2>1, LeastNatural
<1>4. PICK s \in SUBSET S : Cardinality(s) = k /\ fold[s] \notin States
  BY <1>3
<1>5. s # {}
  BY <1>4
<1>6. Max(s) \in s /\ Max(s) \in 1 .. n
  BY <1>5, MaxIs
<1>7. Cardinality(s \ {Max(s)}) = k - 1 /\ k - 1 \in Nat /\ k \in Nat
  BY <1>1, <1>4, <1>6, FS_RemoveElement, FS_EmptySet, FS_CardinalityType
<1>8. s \ {Max(s)} \in SUBSET S
  OBVIOUS
<1>9. fold[s \ {Max(s)}] \in States
  <2>1. k - 1 \notin Wrong
    <3> HIDE DEF Wrong
    <3> QED
      BY <1>3, <1>7
  <2>2. \A t \in SUBSET S : Cardinality(t) = k - 1 => fold[t] \in States
    BY <1>7, <2>1
  <2> QED
    BY <1>7, <1>8, <2>2
<1> QED
  BY <1>4, <1>5, <1>6, <1>9

\* The last of the first k is the k-th.
LEMMA LastOfFirst ==
    ASSUME NEW n \in Nat, NEW k \in 1 .. n
    PROVE  /\ 1 .. k \in SUBSET (1 .. n) /\ 1 .. k # {} /\ Max(1 .. k) = k
           /\ (1 .. k) \ {Max(1 .. k)} = 1 .. k - 1
<1>1. Max(1 .. k) = k
  BY MaxIs
<1>2. 1 .. k \in SUBSET (1 .. n) /\ 1 .. k # {} /\ (1 .. k) \ {k} = 1 .. k - 1
  OBVIOUS
<1> QED
  BY <1>1, <1>2

-----------------------------------------------------------------------------
(***************************************************************************)
(* A request is read field by field.                                       *)
(***************************************************************************)
Names == {FieldOf(b) : b \in Fields}
Readings == [ok : BOOLEAN, seen : SUBSET Names, id : Ids \union {NoId}, args : SUBSET Args]
NoReading == [ok |-> TRUE, seen |-> {}, id |-> NoId, args |-> {}]

LEMMA ReadFieldType ==
    ASSUME NEW state \in Readings, NEW b \in Bytes
    PROVE  ReadField(state, b) \in Readings
<1>1. CASE ~state.ok \/ b \in {"space", "return"}
  BY <1>1 DEF ReadField
<1>2. CASE ~(~state.ok \/ b \in {"space", "return"}) /\ (b \notin Fields \/ FieldOf(b) \in state.seen)
  BY <1>2 DEF ReadField, Readings
<1>3. CASE ~(~state.ok \/ b \in {"space", "return"}) /\ ~(b \notin Fields \/ FieldOf(b) \in state.seen)
  <2> DEFINE read == [ok |-> TRUE, seen |-> state.seen \union {FieldOf(b)},
                      id |-> IF b \in Ids THEN b ELSE state.id,
                      args |-> IF b \in Args THEN state.args \union {b} ELSE state.args]
  <2>1. ReadField(state, b) = read
    BY <1>3 DEF ReadField
  <2>2. FieldOf(b) \in Names
    BY <1>3 DEF Names
  <2>3. state.seen \in SUBSET Names /\ state.id \in Ids \union {NoId} /\ state.args \in SUBSET Args
    BY DEF Readings
  <2>4. state.seen \union {FieldOf(b)} \in SUBSET Names
    BY <2>2, <2>3
  <2>5. (IF b \in Ids THEN b ELSE state.id) \in Ids \union {NoId}
    BY <2>3
  <2>6. (IF b \in Args THEN state.args \union {b} ELSE state.args) \in SUBSET Args
    BY <2>3
  <2>7. read \in Readings
    BY <2>4, <2>5, <2>6 DEF Readings
  <2> QED
    BY <2>1, <2>7
<1> QED
  BY <1>1, <1>2, <1>3

\* The states a reading goes through.
ReadsOf(text, read) ==
    /\ read \in [0 .. Len(text) -> Readings] /\ read[0] = NoReading
    /\ \A k \in 1 .. Len(text) : read[k] = ReadField(read[k - 1], text[k])

LEMMA ReadingIs ==
    ASSUME NEW text \in Seq(Bytes)
    PROVE  \E read : ReadsOf(text, read) /\ FoldLeft(ReadField, NoReading, text) = read[Len(text)]
<1> DEFINE n == Len(text)
           from == [k \in 1 .. n |-> [state \in Readings |-> ReadField(state, text[k])]]
           iter == CHOOSE iter : iter = [s \in SUBSET (DOMAIN text) |->
                       IF s = {} THEN NoReading ELSE ReadField(iter[s \ {Max(s)}], text[Max(s)])]
<1>1. n \in Nat /\ DOMAIN text = 1 .. n /\ \A k \in 1 .. n : text[k] \in Bytes
  OBVIOUS
<1>2. \A k \in 1 .. n : from[k] \in [Readings -> Readings]
  BY <1>1, ReadFieldType
<1>3. NoReading \in Readings
  BY DEF NoReading, Readings
<1> HIDE DEF n
<1>4. PICK fold : fold = FoldTable(SUBSET (1 .. n), NoReading, from, fold)
  BY <1>1, FoldExists
<1>5. \A s \in SUBSET (1 .. n) : s # {} => Max(s) \in 1 .. n /\ s \ {Max(s)} \in SUBSET (1 .. n)
  BY <1>1, MaxIs
<1>6. \A s \in SUBSET (1 .. n) : fold[s] \in Readings
  <2>1. fold[{}] \in Readings
    BY <1>3, <1>4 DEF FoldTable
  <2>2. \A s \in SUBSET (1 .. n) : s # {} /\ fold[s \ {Max(s)}] \in Readings => fold[s] \in Readings
    <3> HIDE DEF from
    <3>1. TAKE s \in SUBSET (1 .. n)
    <3>2. HAVE s # {} /\ fold[s \ {Max(s)}] \in Readings
    <3>3. fold[s] = from[Max(s)][fold[s \ {Max(s)}]]
      BY <1>4, <3>2 DEF FoldTable
    <3>4. Max(s) \in 1 .. n
      BY <1>5, <3>2
    <3> QED
      BY <1>2, <3>2, <3>3, <3>4
  <2> QED
    BY <1>1, <2>1, <2>2, FoldType
<1>7. \A s \in SUBSET (1 .. n) : s # {} =>
          from[Max(s)][fold[s \ {Max(s)}]] = ReadField(fold[s \ {Max(s)}], text[Max(s)])
  BY <1>5, <1>6
<1>8. fold = [s \in SUBSET (1 .. n) |->
                  IF s = {} THEN NoReading ELSE ReadField(fold[s \ {Max(s)}], text[Max(s)])]
  <2> HIDE DEF from
  <2> QED
    BY <1>4, <1>7 DEF FoldTable
<1>9. iter = [s \in SUBSET (DOMAIN text) |->
                  IF s = {} THEN NoReading ELSE ReadField(iter[s \ {Max(s)}], text[Max(s)])]
  BY <1>1, <1>8
<1>10. FoldLeft(ReadField, NoReading, text) = iter[DOMAIN text]
  BY DEF FoldLeft, MapThenFoldSet
<1> HIDE DEF iter
<1>11. \A s \in SUBSET (1 .. n) :
          iter[s] = IF s = {} THEN NoReading ELSE ReadField(iter[s \ {Max(s)}], text[Max(s)])
  BY <1>1, <1>9
<1>12. \A s \in SUBSET (1 .. n) : iter[s] \in Readings
  <2>1. iter[{}] \in Readings
    BY <1>3, <1>11
  <2>2. \A s \in SUBSET (1 .. n) : s # {} /\ iter[s \ {Max(s)}] \in Readings => iter[s] \in Readings
    BY <1>1, <1>5, <1>11, ReadFieldType
  <2> QED
    BY <1>1, <2>1, <2>2, FoldType
<1> DEFINE read == [k \in 0 .. n |-> iter[1 .. k]]
<1>13. \A k \in 0 .. n : 1 .. k \in SUBSET (1 .. n) /\ read[k] = iter[1 .. k]
  BY <1>1
<1>14. read \in [0 .. n -> Readings]
  BY <1>12, <1>13
<1>15. read[0] = NoReading
  <2>1. 1 .. 0 = {} /\ 0 \in 0 .. n
    BY <1>1
  <2> QED
    BY <1>11, <1>13, <2>1
<1>16. ASSUME NEW k \in 1 .. n PROVE read[k] = ReadField(read[k - 1], text[k])
  <2>1. k \in 0 .. n /\ k - 1 \in 0 .. n
    BY <1>1
  <2>2. 1 .. k # {} /\ Max(1 .. k) = k /\ (1 .. k) \ {Max(1 .. k)} = 1 .. k - 1
    BY <1>1, LastOfFirst
  <2>3. read[k] = iter[1 .. k] /\ read[k - 1] = iter[1 .. k - 1] /\ 1 .. k \in SUBSET (1 .. n)
    BY <1>13, <2>1
  <2> HIDE DEF read
  <2> QED
    BY <1>11, <2>2, <2>3
<1>17. read[n] = iter[DOMAIN text]
  BY <1>1
<1> HIDE DEF read
<1>18. ReadsOf(text, read)
  BY <1>14, <1>15, <1>16 DEF ReadsOf, n
<1> QED
  BY <1>10, <1>17, <1>18 DEF n

-----------------------------------------------------------------------------
(***************************************************************************)
(* What the first k bytes of a request say, and what is made of them.      *)
(***************************************************************************)
ReadableTo(text, k) ==
    /\ \A n \in 1 .. k : text[n] \in Fields \union {"space", "return"}
    /\ \A m \in 1 .. k : \A n \in 1 .. k :
          m # n /\ text[m] \in Fields /\ text[n] \in Fields => FieldOf(text[m]) # FieldOf(text[n])
IsId(text, n) == text[n] \in Ids /\ ReadableTo(text, n)
SeenTo(text, k) == {f \in Names : \E n \in 1 .. k : text[n] \in Fields /\ FieldOf(text[n]) = f}
ArgsTo(text, k) == {a \in Args : \E n \in 1 .. k : text[n] = a}
HasId(text, k, id) ==
    /\ \A n \in 1 .. k : IsId(text, n) => id = text[n]
    /\ (\A n \in 1 .. k : ~IsId(text, n)) => id = NoId
Means(text, k, state) ==
    /\ state.ok = ReadableTo(text, k)
    /\ state.ok => state.seen = SeenTo(text, k) /\ state.args = ArgsTo(text, k)
    /\ HasId(text, k, state.id)

LEMMA FieldNames ==
    /\ \A b \in Ids : b \in Fields /\ FieldOf(b) = "id" /\ b \notin Args /\ b \notin {"space", "return"}
    /\ \A b \in Args : b \in Fields /\ FieldOf(b) = "args" /\ b \notin Ids /\ b \notin {"space", "return"}
    /\ \A b \in FixedFields : b \in Fields /\ FieldOf(b) = b /\ b \notin Ids /\ b \notin Args
    /\ \A b \in Fields : b \notin {"space", "return"} /\ FieldOf(b) \in Names
    /\ "space" \notin Fields /\ "return" \notin Fields
<1>1. "space" \notin Ids \union Args /\ "return" \notin Ids \union Args
      /\ "space" \notin FixedFields /\ "return" \notin FixedFields
  BY FieldsAssumption DEF OtherBytes, FixedFields
<1>2. \A b \in Ids : b \notin Args /\ b \notin FixedFields
  BY FieldsAssumption
<1>3. \A b \in Args : b \notin FixedFields
  BY FieldsAssumption
<1>4. \A b \in FixedFields : FieldOf(b) = b
  BY <1>2, <1>3 DEF FieldOf
<1>5. \A b \in Args : FieldOf(b) = "args"
  BY <1>2 DEF FieldOf
<1>6. \A b \in Ids : FieldOf(b) = "id"
  BY <1>2 DEF FieldOf
<1>7. "space" \notin Fields /\ "return" \notin Fields
  BY <1>1 DEF Fields
<1>8. \A b \in Fields : FieldOf(b) \in Names
  BY DEF Names
<1> QED
  BY <1>1, <1>2, <1>3, <1>4, <1>5, <1>6, <1>7, <1>8 DEF Fields

LEMMA ReadableLess ==
    ASSUME NEW text, NEW k \in Nat, ReadableTo(text, k + 1)
    PROVE  ReadableTo(text, k)
<1>1. \A n \in 1 .. k : n \in 1 .. k + 1
  OBVIOUS
<1> QED
  BY <1>1 DEF ReadableTo

\* A byte more.
LEMMA MeansMore ==
    ASSUME NEW text \in Seq(Bytes), NEW k \in 0 .. Len(text) - 1, NEW state \in Readings,
           Means(text, k, state)
    PROVE  Means(text, k + 1, ReadField(state, text[k + 1]))
<1> DEFINE b == text[k + 1]
           next == ReadField(state, b)
<1>1. k \in Nat /\ b \in Bytes
  OBVIOUS
<1>2. \A n \in 1 .. k + 1 : n \in 1 .. k \/ n = k + 1
  BY <1>1
<1>3. \A n \in 1 .. k : n \in 1 .. k + 1
  BY <1>1
<1>4. k + 1 \in 1 .. k + 1 /\ k + 1 \notin 1 .. k
  BY <1>1
<1> HIDE DEF b
<1>5. ASSUME NEW id, HasId(text, k, id), ~IsId(text, k + 1)
      PROVE  HasId(text, k + 1, id)
  BY <1>2, <1>3, <1>5 DEF HasId
<1>6. CASE ~state.ok
  <2>1. next = state
    BY <1>6 DEF ReadField
  <2>2. ~ReadableTo(text, k)
    BY <1>6 DEF Means
  <2>3. ~ReadableTo(text, k + 1)
    BY <1>1, <2>2, ReadableLess
  <2>4. ~IsId(text, k + 1)
    BY <2>3 DEF IsId
  <2>5. HasId(text, k + 1, state.id)
    BY <1>5, <2>4 DEF Means
  <2>6. state.ok \in BOOLEAN
    BY DEF Readings
  <2>7. state.ok = ReadableTo(text, k + 1)
    BY <1>6, <2>3, <2>6 DEF ReadableTo
  <2> QED
    BY <1>6, <2>1, <2>5, <2>7 DEF Means, b
<1>7. CASE state.ok /\ b \in {"space", "return"}
  <2>1. next = state
    BY <1>7 DEF ReadField
  <2>2. b \notin Fields /\ b \notin Ids /\ b \notin Args
    BY <1>7, FieldNames
  <2>3. ReadableTo(text, k)
    BY <1>7 DEF Means
  <2>4. ReadableTo(text, k + 1)
    <3>1. \A n \in 1 .. k + 1 : text[n] \in Fields \union {"space", "return"}
      BY <1>2, <1>7, <2>3 DEF ReadableTo, b
    <3>2. \A n \in 1 .. k + 1 : text[n] \in Fields => n \in 1 .. k
      BY <1>2, <2>2 DEF b
    <3> QED
      BY <2>3, <3>1, <3>2 DEF ReadableTo
  <2>5. SeenTo(text, k + 1) = SeenTo(text, k)
    BY <1>2, <1>3, <2>2 DEF SeenTo, b
  <2>6. ArgsTo(text, k + 1) = ArgsTo(text, k)
    BY <1>2, <1>3, <2>2 DEF ArgsTo, b
  <2>7. HasId(text, k + 1, state.id)
    BY <1>5, <2>2 DEF Means, IsId, b
  <2>8. state.ok = ReadableTo(text, k + 1)
    <3>1. state.ok = ReadableTo(text, k)
      BY DEF Means
    <3>2. ReadableTo(text, k) = ReadableTo(text, k + 1)
      BY <2>3, <2>4 DEF ReadableTo
    <3> QED
      BY <3>1, <3>2
  <2> QED
    BY <1>7, <2>1, <2>5, <2>6, <2>7, <2>8 DEF Means, b
<1>8. CASE state.ok /\ b \notin {"space", "return"} /\ (b \notin Fields \/ FieldOf(b) \in state.seen)
  <2>1. next = [state EXCEPT !.ok = FALSE]
    BY <1>8 DEF ReadField
  <2>2. next.ok = FALSE /\ next.id = state.id
    BY <2>1 DEF Readings
  <2>3. ~ReadableTo(text, k + 1)
    <3>1. CASE b \notin Fields
      BY <1>4, <1>8, <3>1 DEF ReadableTo, b
    <3>2. CASE b \in Fields /\ FieldOf(b) \in state.seen
      <4>1. FieldOf(b) \in SeenTo(text, k)
        BY <1>8, <3>2 DEF Means
      <4>2. PICK n \in 1 .. k : text[n] \in Fields /\ FieldOf(text[n]) = FieldOf(b)
        BY <4>1 DEF SeenTo
      <4>3. n # k + 1 /\ n \in 1 .. k + 1
        BY <1>1
      <4> QED
        BY <1>4, <3>2, <4>2, <4>3 DEF ReadableTo, b
    <3> QED
      BY <1>8, <3>1, <3>2
  <2>4. ~IsId(text, k + 1)
    BY <2>3 DEF IsId
  <2>5. HasId(text, k + 1, next.id)
    BY <1>5, <2>2, <2>4 DEF Means
  <2>6. next.ok = ReadableTo(text, k + 1)
    BY <2>2, <2>3 DEF ReadableTo
  <2> HIDE DEF next
  <2>7. Means(text, k + 1, next)
    BY <2>2, <2>5, <2>6 DEF Means
  <2> QED
    BY <2>7 DEF next, b
<1>9. CASE state.ok /\ b \notin {"space", "return"} /\ b \in Fields /\ FieldOf(b) \notin state.seen
  <2>1. /\ next.ok = TRUE /\ next.seen = state.seen \union {FieldOf(b)}
        /\ next.id = IF b \in Ids THEN b ELSE state.id
        /\ next.args = IF b \in Args THEN state.args \union {b} ELSE state.args
    BY <1>9 DEF ReadField
  <2> HIDE DEF next
  <2>2. state.seen = SeenTo(text, k) /\ state.args = ArgsTo(text, k) /\ ReadableTo(text, k)
        /\ HasId(text, k, state.id)
    BY <1>9 DEF Means
  <2>3. \A n \in 1 .. k : text[n] \in Fields => FieldOf(text[n]) # FieldOf(b)
    BY <1>9, <2>2, FieldNames DEF SeenTo
  <2>4. ReadableTo(text, k + 1)
    <3>1. \A n \in 1 .. k + 1 : text[n] \in Fields \union {"space", "return"}
      BY <1>2, <1>9, <2>2 DEF ReadableTo, b
    <3>2. ASSUME NEW m \in 1 .. k + 1, NEW n \in 1 .. k + 1, m # n, text[m] \in Fields, text[n] \in Fields
          PROVE  FieldOf(text[m]) # FieldOf(text[n])
      <4>1. CASE m \in 1 .. k /\ n \in 1 .. k
        BY <2>2, <3>2, <4>1 DEF ReadableTo
      <4>2. CASE m = k + 1 /\ n \in 1 .. k
        BY <2>3, <3>2, <4>2 DEF b
      <4>3. CASE m \in 1 .. k /\ n = k + 1
        BY <2>3, <3>2, <4>3 DEF b
      <4> QED
        BY <1>2, <3>2, <4>1, <4>2, <4>3
    <3> QED
      BY <3>1, <3>2 DEF ReadableTo
  <2>5. next.seen = SeenTo(text, k + 1)
    <3>1. FieldOf(b) \in Names
      BY <1>9, FieldNames
    <3>2. \A f \in Names : f \in SeenTo(text, k + 1) <=> f \in SeenTo(text, k) \/ f = FieldOf(b)
      BY <1>2, <1>3, <1>4, <1>9 DEF SeenTo, b
    <3>3. SeenTo(text, k) \subseteq Names /\ SeenTo(text, k + 1) \subseteq Names
      BY DEF SeenTo
    <3> QED
      BY <2>1, <2>2, <3>1, <3>2, <3>3
  <2>6. next.args = ArgsTo(text, k + 1)
    <3>1. \A a \in Args : a \in ArgsTo(text, k + 1) <=> a \in ArgsTo(text, k) \/ a = b
      BY <1>2, <1>3, <1>4 DEF ArgsTo, b
    <3>2. ArgsTo(text, k) \subseteq Args /\ ArgsTo(text, k + 1) \subseteq Args
      BY DEF ArgsTo
    <3>3. CASE b \in Args
      <4>1. ArgsTo(text, k + 1) = ArgsTo(text, k) \union {b}
        BY <3>1, <3>2, <3>3
      <4> QED
        BY <2>1, <2>2, <3>3, <4>1
    <3>4. CASE b \notin Args
      <4>1. ArgsTo(text, k + 1) = ArgsTo(text, k)
        BY <3>1, <3>2, <3>4
      <4> QED
        BY <2>1, <2>2, <3>4, <4>1
    <3> QED
      BY <3>3, <3>4
  <2>7. HasId(text, k + 1, next.id)
    <3>1. CASE b \notin Ids
      <4>1. ~IsId(text, k + 1)
        BY <3>1 DEF IsId, b
      <4> QED
        BY <1>5, <2>1, <2>2, <3>1, <4>1
    <3>2. CASE b \in Ids
      <4>1. next.id = b /\ IsId(text, k + 1)
        BY <2>1, <2>4, <3>2 DEF IsId, b
      <4>2. \A n \in 1 .. k : ~IsId(text, n)
        BY <2>3, <3>2, FieldNames DEF IsId
      <4> QED
        BY <1>2, <1>4, <4>1, <4>2 DEF HasId, b
    <3> QED
      BY <3>1, <3>2
  <2>8. next.ok = ReadableTo(text, k + 1)
    BY <2>1, <2>4 DEF ReadableTo
  <2>9. Means(text, k + 1, next)
    BY <2>5, <2>6, <2>7, <2>8 DEF Means
  <2> QED
    BY <2>9 DEF next, b
<1>10. state.ok \in BOOLEAN
  BY DEF Readings
<1> QED
  BY <1>6, <1>7, <1>8, <1>9, <1>10

LEMMA MeansAll ==
    ASSUME NEW text \in Seq(Bytes), NEW read, ReadsOf(text, read)
    PROVE  \A k \in 0 .. Len(text) : Means(text, k, read[k])
<1> DEFINE Wrong == {k \in 0 .. Len(text) : ~Means(text, k, read[k])}
<1>1. SUFFICES ASSUME Wrong # {} PROVE FALSE
  OBVIOUS
<1>2. Wrong \subseteq Nat
  OBVIOUS
<1>3. PICK k \in Wrong : \A m \in Wrong : k <= m
  <2> HIDE DEF Wrong
  <2> QED
    BY <1>1, <1>2, LeastNatural
<1>4. k \in 0 .. Len(text) /\ ~Means(text, k, read[k])
  OBVIOUS
<1>5. k # 0
  <2>1. Means(text, 0, read[0])
    <3>1. read[0] = NoReading
      BY DEF ReadsOf
    <3>2. ReadableTo(text, 0) = TRUE
      BY DEF ReadableTo
    <3>3. SeenTo(text, 0) = {} /\ ArgsTo(text, 0) = {} /\ HasId(text, 0, NoId)
      BY DEF SeenTo, ArgsTo, HasId
    <3>4. /\ NoReading.ok = TRUE /\ NoReading.seen = {} /\ NoReading.id = NoId /\ NoReading.args = {}
      BY DEF NoReading
    <3>5. NoReading.ok = ReadableTo(text, 0)
      BY <3>2, <3>4
    <3> QED
      BY <3>1, <3>3, <3>4, <3>5 DEF Means
  <2> QED
    BY <1>4, <2>1
<1>6. k - 1 \in 0 .. Len(text) - 1 /\ k \in 1 .. Len(text) /\ (k - 1) + 1 = k
  BY <1>4, <1>5
<1>7. Means(text, k - 1, read[k - 1])
  <2>1. ~(k <= k - 1) /\ k - 1 \in 0 .. Len(text)
    BY <1>6
  <2>2. k - 1 \notin Wrong
    <3> HIDE DEF Wrong
    <3> QED
      BY <1>3, <2>1
  <2> QED
    BY <2>1, <2>2
<1>8. read[k] = ReadField(read[k - 1], text[k]) /\ read[k - 1] \in Readings
  BY <1>6 DEF ReadsOf
<1>9. Means(text, (k - 1) + 1, ReadField(read[k - 1], text[(k - 1) + 1]))
  BY <1>6, <1>7, <1>8, MeansMore
<1> QED
  BY <1>4, <1>6, <1>8, <1>9

\* The identifier found is the one IdOf has.
LEMMA ReadableIs ==
    ASSUME NEW text \in Seq(Bytes), NEW k \in 0 .. Len(text)
    PROVE  Readable(SubSeq(text, 1, k)) <=> ReadableTo(text, k)
<1> DEFINE start == SubSeq(text, 1, k)
<1>1. DOMAIN start = 1 .. k /\ \A n \in 1 .. k : start[n] = text[n]
  BY StartOf
<1> HIDE DEF start
<1>2. Range(start) \subseteq Fields \union {"space", "return"} <=>
          \A n \in 1 .. k : text[n] \in Fields \union {"space", "return"}
  BY <1>1 DEF Range
<1>3. NoneTwice(start) <=> \A m \in 1 .. k : \A n \in 1 .. k :
          m # n /\ text[m] \in Fields /\ text[n] \in Fields => FieldOf(text[m]) # FieldOf(text[n])
  BY <1>1 DEF NoneTwice
<1> QED
  BY <1>2, <1>3 DEF Readable, ReadableTo, start

LEMMA AllOf ==
    ASSUME NEW text \in Seq(Bytes)
    PROVE  SubSeq(text, 1, Len(text)) = text
OBVIOUS

LEMMA IdIs ==
    ASSUME NEW text \in Seq(Bytes), NEW id, HasId(text, Len(text), id)
    PROVE  IdOf(text) = id
<1> DEFINE ids == {n \in DOMAIN text : text[n] \in Ids /\ Readable(SubSeq(text, 1, n))}
<1>1. \A n \in 1 .. Len(text) : n \in ids <=> IsId(text, n)
  <2>1. \A n \in 1 .. Len(text) : n \in 0 .. Len(text) /\ n \in DOMAIN text
    OBVIOUS
  <2> QED
    BY <2>1, ReadableIs DEF IsId
<1>2. ids \subseteq 1 .. Len(text)
  OBVIOUS
<1>3. IdOf(text) = IF ids = {} THEN NoId ELSE text[CHOOSE n \in ids : TRUE]
  BY DEF IdOf
<1> HIDE DEF ids
<1>4. CASE ids = {}
  <2>1. \A n \in 1 .. Len(text) : ~IsId(text, n)
    BY <1>1, <1>4
  <2> QED
    BY <1>3, <1>4, <2>1 DEF HasId
<1>5. CASE ids # {}
  <2>1. (CHOOSE n \in ids : TRUE) \in ids
    BY <1>5
  <2> QED
    BY <1>1, <1>2, <1>3, <1>5, <2>1 DEF HasId
<1> QED
  BY <1>4, <1>5

\* Of two things, one is there: they are one together.
LEMMA OneOfTwo ==
    ASSUME NEW S, NEW x, NEW y, x # y
    PROVE  Cardinality(S \intersect {x, y}) = 1 <=> ((x \in S) # (y \in S))
<1>1. CASE x \in S /\ y \in S
  <2>1. S \intersect {x, y} = {x} \union {y} /\ y \notin {x}
    BY <1>1
  <2>2. Cardinality(S \intersect {x, y}) = 2
    <3>1. IsFiniteSet({x}) /\ Cardinality({x}) = 1
      BY FS_Singleton
    <3>2. Cardinality({x} \union {y}) = Cardinality({x}) + 1
      BY <2>1, <3>1, FS_AddElement
    <3> QED
      BY <2>1, <3>1, <3>2
  <2>3. Cardinality(S \intersect {x, y}) # 1
    BY <2>2
  <2> QED
    BY <1>1, <2>3
<1>2. CASE x \in S /\ y \notin S
  <2>1. S \intersect {x, y} = {x}
    BY <1>2
  <2>2. Cardinality(S \intersect {x, y}) = 1
    BY <2>1, FS_Singleton
  <2> QED
    BY <1>2, <2>2
<1>3. CASE x \notin S /\ y \in S
  <2>1. S \intersect {x, y} = {y}
    BY <1>3
  <2>2. Cardinality(S \intersect {x, y}) = 1
    BY <2>1, FS_Singleton
  <2> QED
    BY <1>3, <2>2
<1>4. CASE x \notin S /\ y \notin S
  <2>1. S \intersect {x, y} = {}
    BY <1>4
  <2>2. Cardinality(S \intersect {x, y}) # 1
    BY <2>1, FS_EmptySet
  <2> QED
    BY <1>4, <2>2
<1> QED
  BY <1>1, <1>2, <1>3, <1>4

LEMMA FieldsOfAre ==
    ASSUME NEW text \in Seq(Bytes)
    PROVE  FieldsOf(text) = SeenTo(text, Len(text)) /\ Range(text) \intersect Args = ArgsTo(text, Len(text))
<1>1. \A b : b \in Range(text) <=> \E n \in 1 .. Len(text) : text[n] = b
  BY DEF Range
<1>2. \A b \in Fields : FieldOf(b) \in Names
  BY FieldNames
<1>3. \A f : f \in FieldsOf(text) <=> \E b \in Range(text) \intersect Fields : f = FieldOf(b)
  BY DEF FieldsOf
<1>4. \A f : f \in FieldsOf(text) <=> f \in SeenTo(text, Len(text))
  BY <1>1, <1>2, <1>3 DEF SeenTo
<1>5. \A a : a \in Range(text) \intersect Args <=> a \in ArgsTo(text, Len(text))
  BY <1>1 DEF ArgsTo
<1> QED
  BY <1>4, <1>5

\* A request is answered as it would be alone, whatever was read before it.
Alone(text) ==
    IF Complete(text) /\ Range(text) \intersect BatchArgs = {}
    THEN [id |-> IdOf(text), kind |-> "converted", args |-> Range(text) \intersect Args]
    ELSE [id |-> IdOf(text), kind |-> "refused", args |-> {}]
Reply(parsed) == IF parsed.ok THEN Converted(parsed) ELSE Refused(parsed)

LEMMA ParseIs ==
    ASSUME NEW text \in Seq(Bytes), NEW previous
    PROVE  Reply(Parse(text, previous)) = Alone(text)
<1> DEFINE state == FoldLeft(ReadField, NewRequest(previous), text)
           parsed == Parse(text, previous)
           right == /\ state.ok
                    /\ ("input" \in state.seen) # ("markdown" \in state.seen)
                    /\ "source_path" \in state.seen => "markdown" \in state.seen
                    /\ "output" \in state.seen
<1>1. parsed = [state EXCEPT !.ok = right]
  BY DEF Parse
<1>2. NewRequest(previous) = NoReading
  BY DEF NewRequest, NoReading
<1>3. PICK read : ReadsOf(text, read) /\ state = read[Len(text)]
  BY <1>2, ReadingIs
<1> HIDE DEF state, parsed
<1>4. Len(text) \in Nat /\ state \in Readings
  BY <1>3 DEF ReadsOf
<1>5. Means(text, Len(text), state)
  BY <1>3, <1>4, MeansAll
<1>6. parsed.ok = right /\ parsed.id = state.id /\ parsed.args = state.args
  <2> HIDE DEF right
  <2> QED
    BY <1>1, <1>4 DEF Readings
<1>7. state.ok <=> Readable(text)
  <2>1. Readable(text) <=> ReadableTo(text, Len(text))
    <3>1. Len(text) \in 0 .. Len(text) /\ SubSeq(text, 1, Len(text)) = text
      BY <1>4, AllOf
    <3>2. Readable(SubSeq(text, 1, Len(text))) <=> ReadableTo(text, Len(text))
      BY <3>1, ReadableIs
    <3> QED
      BY <3>1, <3>2
  <2>2. state.ok = ReadableTo(text, Len(text))
    BY <1>5 DEF Means
  <2> QED
    BY <2>1, <2>2
<1>8. state.ok => state.seen = FieldsOf(text) /\ state.args = Range(text) \intersect Args
  BY <1>5, FieldsOfAre DEF Means
<1>9. parsed.id = IdOf(text)
  BY <1>5, <1>6, IdIs DEF Means
<1>10. right <=> Complete(text)
  <2>1. Cardinality(FieldsOf(text) \intersect {"input", "markdown"}) = 1 <=>
            (("input" \in FieldsOf(text)) # ("markdown" \in FieldsOf(text)))
    BY OneOfTwo
  <2>2. CASE ~state.ok
    BY <1>7, <2>2 DEF Complete
  <2>3. CASE state.ok
    <3> DEFINE F == FieldsOf(text)
    <3>1. right <=> /\ ("input" \in F) # ("markdown" \in F)
                    /\ "source_path" \in F => "markdown" \in F
                    /\ "output" \in F
      BY <1>8, <2>3
    <3>2. Complete(text) <=> /\ "output" \in F
                             /\ ("input" \in F) # ("markdown" \in F)
                             /\ ~({"input", "source_path"} \subseteq F)
      BY <1>7, <2>1, <2>3 DEF Complete
    <3> HIDE DEF F, right
    <3>3. ~({"input", "source_path"} \subseteq F) <=> ~("input" \in F /\ "source_path" \in F)
      OBVIOUS
    <3> QED
      BY <3>1, <3>2, <3>3
  <2> QED
    BY <2>2, <2>3
<1> HIDE DEF right
<1>11. CASE ~Complete(text)
  <2>1. Reply(parsed) = Refused(parsed)
    BY <1>6, <1>10, <1>11 DEF Reply
  <2> QED
    BY <1>9, <1>11, <2>1 DEF Refused, Alone, parsed
<1>12. CASE Complete(text)
  <2>1. Reply(parsed) = Converted(parsed)
    BY <1>6, <1>10, <1>12 DEF Reply
  <2>2. parsed.args = Range(text) \intersect Args
    BY <1>6, <1>7, <1>8, <1>12 DEF Complete
  <2>3. parsed.args \intersect BatchArgs = Range(text) \intersect BatchArgs
    BY <2>2, BytesAssumption
  <2> QED
    BY <1>9, <1>12, <2>1, <2>2, <2>3 DEF Converted, Refused, Alone, parsed
<1> QED
  BY <1>11, <1>12

\* Texts that are the same in their first n bytes are read the same so far.
LEMMA ReadsSame ==
    ASSUME NEW text \in Seq(Bytes), NEW read, ReadsOf(text, read),
           NEW also \in Seq(Bytes), NEW reads, ReadsOf(also, reads),
           NEW n \in Nat, n <= Len(text), n <= Len(also), \A k \in 1 .. n : text[k] = also[k]
    PROVE  read[n] = reads[n]
<1> DEFINE Differ == {k \in 0 .. n : read[k] # reads[k]}
<1>1. SUFFICES ASSUME Differ # {} PROVE FALSE
  OBVIOUS
<1>2. PICK k \in Differ : \A m \in Differ : k <= m
  <2>1. Differ \subseteq Nat
    OBVIOUS
  <2> HIDE DEF Differ
  <2> QED
    BY <1>1, <2>1, LeastNatural
<1>3. k \in 0 .. n /\ read[k] # reads[k]
  OBVIOUS
<1>4. k # 0
  BY <1>3 DEF ReadsOf
<1>5. k \in 1 .. n /\ k \in 1 .. Len(text) /\ k \in 1 .. Len(also) /\ k - 1 \in 0 .. n /\ ~(k <= k - 1)
  BY <1>3, <1>4
<1>6. read[k - 1] = reads[k - 1]
  <2>1. k - 1 \notin Differ
    <3> HIDE DEF Differ
    <3> QED
      BY <1>2, <1>5
  <2> QED
    BY <1>5, <2>1
<1>7. read[k] = ReadField(read[k - 1], text[k]) /\ reads[k] = ReadField(reads[k - 1], also[k])
  BY <1>5 DEF ReadsOf
<1> QED
  BY <1>3, <1>5, <1>6, <1>7

LEMMA StrippedType ==
    ASSUME NEW text \in Seq(Bytes)
    PROVE  Stripped(text) \in Seq(Bytes)
<1>1. CASE text # << >> /\ Last(text) = "return"
  <2>1. Len(text) - 1 \in 0 .. Len(text)
    BY <1>1
  <2>2. Stripped(text) = SubSeq(text, 1, Len(text) - 1)
    BY <1>1 DEF Stripped, Front
  <2> QED
    BY <2>1, <2>2, StartOf
<1>2. CASE ~(text # << >> /\ Last(text) = "return")
  BY <1>2 DEF Stripped
<1> QED
  BY <1>1, <1>2

\* The '\r' at the end of a line says nothing.
LEMMA StrippedIs ==
    ASSUME NEW text \in Seq(Bytes)
    PROVE  Alone(Stripped(text)) = Alone(text) /\ Len(text) <= Len(Stripped(text)) + 1
<1>1. CASE text # << >> /\ Last(text) = "return"
  <2> DEFINE n == Len(text)
             short == Stripped(text)
  <2>1. n \in Nat /\ n - 1 \in Nat /\ n - 1 \in 0 .. n /\ n \in 1 .. n
    BY <1>1
  <2>2. short = SubSeq(text, 1, n - 1)
    BY <1>1 DEF Stripped, Front
  <2>3. short \in Seq(Bytes) /\ Len(short) = n - 1 /\ \A k \in 1 .. n - 1 : short[k] = text[k]
    <3>1. n - 1 \in 0 .. Len(text)
      BY <2>1
    <3>2. /\ SubSeq(text, 1, n - 1) \in Seq(Bytes) /\ Len(SubSeq(text, 1, n - 1)) = n - 1
          /\ \A k \in 1 .. n - 1 : SubSeq(text, 1, n - 1)[k] = text[k]
      <4> HIDE DEF n
      <4> QED
        BY <3>1, StartOf
    <3> QED
      BY <2>2, <3>2
  <2> HIDE DEF short
  <2>4. PICK read : ReadsOf(text, read) /\ FoldLeft(ReadField, NoReading, text) = read[n]
    BY ReadingIs
  <2>5. PICK reads : ReadsOf(short, reads) /\ FoldLeft(ReadField, NoReading, short) = reads[n - 1]
    BY <2>3, ReadingIs
  <2>6. reads[n - 1] = read[n - 1]
    BY <2>1, <2>3, <2>4, <2>5, ReadsSame
  <2>7. read[n] = read[n - 1]
    <3>1. read[n] = ReadField(read[n - 1], text[n]) /\ text[n] = "return"
      BY <1>1, <2>1, <2>4 DEF ReadsOf, Last
    <3> QED
      BY <3>1 DEF ReadField
  <2>8. Parse(short, NoReading) = Parse(text, NoReading)
    <3>1. NewRequest(NoReading) = NoReading
      BY DEF NewRequest, NoReading
    <3>2. FoldLeft(ReadField, NewRequest(NoReading), short) = FoldLeft(ReadField, NewRequest(NoReading), text)
      BY <2>4, <2>5, <2>6, <2>7, <3>1
    <3> QED
      BY <3>2 DEF Parse
  <2>9. Alone(short) = Alone(text)
    <3>1. Alone(short) = Reply(Parse(short, NoReading)) /\ Alone(text) = Reply(Parse(text, NoReading))
      BY <2>3, ParseIs
    <3> QED
      BY <2>8, <3>1
  <2> QED
    BY <2>1, <2>3, <2>9 DEF short
<1>2. CASE ~(text # << >> /\ Last(text) = "return")
  <2>1. Stripped(text) = text /\ Len(text) \in Nat
    BY <1>2 DEF Stripped
  <2> QED
    BY <2>1
<1> QED
  BY <1>1, <1>2

LEMMA ExpectedIs ==
    ASSUME NEW text \in Seq(Bytes), NEW previous
    PROVE  Expected(text) =
               IF Len(Stripped(text)) > Limit THEN [id |-> NoId, kind |-> "too long", args |-> {}]
               ELSE Reply(Parse(Stripped(text), previous))
<1>1. Reply(Parse(Stripped(text), previous)) = Alone(text)
  BY StrippedType, StrippedIs, ParseIs
<1> QED
  BY <1>1 DEF Expected, Alone

-----------------------------------------------------------------------------
(***************************************************************************)
(* The answers to lines, one after the other.                              *)
(***************************************************************************)
Replies == {Expected(l) : l \in Seq(Bytes)}
SayMore(said, l) == IF Asks(l) THEN Append(said, Expected(l)) ELSE said
SaysOf(lines, says) ==
    /\ says \in [0 .. Len(lines) -> Seq(Replies)] /\ says[0] = << >>
    /\ \A k \in 1 .. Len(lines) : says[k] = SayMore(says[k - 1], lines[k])

LEMMA SayMoreType ==
    ASSUME NEW said \in Seq(Replies), NEW l \in Seq(Bytes)
    PROVE  SayMore(said, l) \in Seq(Replies) /\ IsPrefix(said, SayMore(said, l))
<1>1. Expected(l) \in Replies
  BY DEF Replies
<1> HIDE DEF Replies
<1>2. CASE Asks(l)
  <2>1. SayMore(said, l) = Append(said, Expected(l))
    BY <1>2 DEF SayMore
  <2> QED
    BY <1>1, <2>1 DEF IsPrefix
<1>3. CASE ~Asks(l)
  BY <1>3 DEF SayMore, IsPrefix
<1> QED
  BY <1>2, <1>3

LEMMA AnswersAre ==
    ASSUME NEW lines \in Seq(Seq(Bytes))
    PROVE  \E says : SaysOf(lines, says) /\ AnswersTo(lines) = says[Len(lines)]
<1> DEFINE n == Len(lines)
           States == Seq(Replies)
           from == [k \in 1 .. n |-> [said \in States |-> SayMore(said, lines[k])]]
           iter == CHOOSE iter : iter = [s \in SUBSET (DOMAIN lines) |->
                       IF s = {} THEN << >> ELSE SayMore(iter[s \ {Max(s)}], lines[Max(s)])]
<1>1. n \in Nat /\ DOMAIN lines = 1 .. n /\ \A k \in 1 .. n : lines[k] \in Seq(Bytes)
  <2> DEFINE L == Seq(Bytes)
  <2> HIDE DEF L
  <2>1. lines \in Seq(L)
    BY DEF L
  <2>2. n \in Nat /\ DOMAIN lines = 1 .. n /\ \A k \in 1 .. n : lines[k] \in L
    BY <2>1
  <2> QED
    BY <2>2 DEF L
<1>2. << >> \in States
  OBVIOUS
<1>3. \A said \in States : \A k \in 1 .. n : SayMore(said, lines[k]) \in States
  BY <1>1, SayMoreType
<1> HIDE DEF n, States
<1>4. PICK fold : fold = FoldTable(SUBSET (1 .. n), << >>, from, fold)
  BY <1>1, FoldExists
<1>5. \A s \in SUBSET (1 .. n) : s # {} => Max(s) \in 1 .. n /\ s \ {Max(s)} \in SUBSET (1 .. n)
  BY <1>1, MaxIs
<1>6. \A s \in SUBSET (1 .. n) : fold[s] \in States
  <2>1. fold[{}] \in States
    BY <1>2, <1>4 DEF FoldTable
  <2>2. \A s \in SUBSET (1 .. n) : s # {} /\ fold[s \ {Max(s)}] \in States => fold[s] \in States
    <3>1. TAKE s \in SUBSET (1 .. n)
    <3>2. HAVE s # {} /\ fold[s \ {Max(s)}] \in States
    <3>3. fold[s] = from[Max(s)][fold[s \ {Max(s)}]]
      BY <1>4, <3>2 DEF FoldTable
    <3>4. Max(s) \in 1 .. n
      BY <1>5, <3>2
    <3>5. fold[s] = SayMore(fold[s \ {Max(s)}], lines[Max(s)])
      BY <3>2, <3>3, <3>4
    <3> QED
      BY <1>3, <3>2, <3>4, <3>5
  <2> QED
    BY <1>1, <2>1, <2>2, FoldType
<1>7. \A s \in SUBSET (1 .. n) : s # {} =>
          from[Max(s)][fold[s \ {Max(s)}]] = SayMore(fold[s \ {Max(s)}], lines[Max(s)])
  BY <1>5, <1>6
<1>8. fold = [s \in SUBSET (1 .. n) |->
                  IF s = {} THEN << >> ELSE SayMore(fold[s \ {Max(s)}], lines[Max(s)])]
  <2> HIDE DEF from
  <2> QED
    BY <1>4, <1>7 DEF FoldTable
<1>9. iter = [s \in SUBSET (DOMAIN lines) |->
                  IF s = {} THEN << >> ELSE SayMore(iter[s \ {Max(s)}], lines[Max(s)])]
  BY <1>1, <1>8
<1>10. AnswersTo(lines) = iter[DOMAIN lines]
  BY DEF AnswersTo, FoldLeft, MapThenFoldSet, SayMore
<1> HIDE DEF iter
<1>11. \A s \in SUBSET (1 .. n) :
          iter[s] = IF s = {} THEN << >> ELSE SayMore(iter[s \ {Max(s)}], lines[Max(s)])
  BY <1>1, <1>9
<1>12. \A s \in SUBSET (1 .. n) : iter[s] \in States
  <2>1. iter[{}] \in States
    BY <1>2, <1>11
  <2>2. \A s \in SUBSET (1 .. n) : s # {} /\ iter[s \ {Max(s)}] \in States => iter[s] \in States
    BY <1>3, <1>5, <1>11
  <2> QED
    BY <1>1, <2>1, <2>2, FoldType
<1> DEFINE says == [k \in 0 .. n |-> iter[1 .. k]]
<1>13. \A k \in 0 .. n : 1 .. k \in SUBSET (1 .. n) /\ says[k] = iter[1 .. k]
  BY <1>1
<1>14. says \in [0 .. n -> States]
  BY <1>12, <1>13
<1>15. says[0] = << >>
  <2>1. 1 .. 0 = {} /\ 0 \in 0 .. n
    BY <1>1
  <2> QED
    BY <1>11, <1>13, <2>1
<1>16. ASSUME NEW k \in 1 .. n PROVE says[k] = SayMore(says[k - 1], lines[k])
  <2>1. k \in 0 .. n /\ k - 1 \in 0 .. n
    BY <1>1
  <2>2. 1 .. k # {} /\ Max(1 .. k) = k /\ (1 .. k) \ {Max(1 .. k)} = 1 .. k - 1
    BY <1>1, LastOfFirst
  <2>3. says[k] = iter[1 .. k] /\ says[k - 1] = iter[1 .. k - 1] /\ 1 .. k \in SUBSET (1 .. n)
    BY <1>13, <2>1
  <2> HIDE DEF says
  <2> QED
    BY <1>11, <2>2, <2>3
<1>17. says[n] = iter[DOMAIN lines]
  BY <1>1
<1> HIDE DEF says
<1>18. SaysOf(lines, says)
  BY <1>14, <1>15, <1>16 DEF SaysOf, n, States
<1> QED
  BY <1>10, <1>17, <1>18 DEF n

\* Some lines are the first of others.
FirstOf(lines, more) == Len(lines) <= Len(more) /\ \A k \in 1 .. Len(lines) : lines[k] = more[k]

LEMMA SaysSame ==
    ASSUME NEW lines \in Seq(Seq(Bytes)), NEW says, SaysOf(lines, says),
           NEW more \in Seq(Seq(Bytes)), NEW also, SaysOf(more, also), FirstOf(lines, more)
    PROVE  says[Len(lines)] = also[Len(lines)]
<1> DEFINE n == Len(lines)
           Differ == {k \in 0 .. n : says[k] # also[k]}
<1>0. n \in Nat /\ Len(more) \in Nat /\ n <= Len(more)
  BY DEF FirstOf
<1>1. SUFFICES ASSUME Differ # {} PROVE FALSE
  <2>1. n \in 0 .. n
    BY <1>0
  <2> QED
    BY <2>1
<1>2. PICK k \in Differ : \A m \in Differ : k <= m
  <2>1. Differ \subseteq Nat
    OBVIOUS
  <2> HIDE DEF Differ
  <2> QED
    BY <1>1, <2>1, LeastNatural
<1>3. k \in 0 .. n /\ says[k] # also[k]
  OBVIOUS
<1>4. k # 0
  BY <1>3 DEF SaysOf
<1>5. k \in 1 .. n /\ k \in 1 .. Len(more) /\ k - 1 \in 0 .. n /\ ~(k <= k - 1)
  BY <1>0, <1>3, <1>4
<1>6. says[k - 1] = also[k - 1]
  <2>1. k - 1 \notin Differ
    <3> HIDE DEF Differ
    <3> QED
      BY <1>2, <1>5
  <2> QED
    BY <1>5, <2>1
<1>7. says[k] = SayMore(says[k - 1], lines[k]) /\ also[k] = SayMore(also[k - 1], more[k]) /\ lines[k] = more[k]
  BY <1>5 DEF SaysOf, FirstOf
<1> QED
  BY <1>3, <1>6, <1>7

LEMMA PrefixOfPrefix ==
    ASSUME NEW S, NEW a \in Seq(S), NEW b \in Seq(S), NEW c \in Seq(S), IsPrefix(a, b), IsPrefix(b, c)
    PROVE  IsPrefix(a, c)
<1>1. /\ Len(a) \in Nat /\ Len(b) \in Nat /\ Len(c) \in Nat
      /\ Len(a) <= Len(b) /\ Len(b) <= Len(c)
  BY DEF IsPrefix
<1>2. \A k \in 1 .. Len(a) : a[k] = b[k]
  <2>1. SubSeq(a, 1, Len(a)) = SubSeq(b, 1, Len(a))
    BY DEF IsPrefix
  <2>2. \A k \in 1 .. Len(a) : SubSeq(a, 1, Len(a))[k] = a[k] /\ SubSeq(b, 1, Len(a))[k] = b[k]
    BY <1>1
  <2> QED
    BY <2>1, <2>2
<1>3. \A k \in 1 .. Len(b) : b[k] = c[k]
  <2>1. SubSeq(b, 1, Len(b)) = SubSeq(c, 1, Len(b))
    BY DEF IsPrefix
  <2>2. \A k \in 1 .. Len(b) : SubSeq(b, 1, Len(b))[k] = b[k] /\ SubSeq(c, 1, Len(b))[k] = c[k]
    BY <1>1
  <2> QED
    BY <2>1, <2>2
<1>4. \A k \in 1 .. Len(a) : a[k] = c[k]
  BY <1>1, <1>2, <1>3
<1>5. SubSeq(a, 1, Len(a)) = SubSeq(c, 1, Len(a))
  BY <1>1, <1>4
<1> QED
  BY <1>1, <1>5 DEF IsPrefix

LEMMA PrefixOfItself ==
    ASSUME NEW S, NEW a \in Seq(S)
    PROVE  IsPrefix(a, a)
BY DEF IsPrefix

LEMMA SaysGrow ==
    ASSUME NEW lines \in Seq(Seq(Bytes)), NEW says, SaysOf(lines, says), NEW m \in 0 .. Len(lines)
    PROVE  IsPrefix(says[m], says[Len(lines)])
<1> DEFINE n == Len(lines)
           Wrong == {k \in m .. n : ~IsPrefix(says[m], says[k])}
<1>1. n \in Nat /\ \A k \in 1 .. n : lines[k] \in Seq(Bytes)
  <2> DEFINE L == Seq(Bytes)
  <2>1. lines \in Seq(L)
    OBVIOUS
  <2> HIDE DEF L
  <2>2. n \in Nat /\ \A k \in 1 .. n : lines[k] \in L
    BY <2>1
  <2> QED
    BY <2>2 DEF L
<1>2. SUFFICES ASSUME Wrong # {} PROVE FALSE
  BY <1>1
<1>3. PICK k \in Wrong : \A j \in Wrong : k <= j
  <2>1. Wrong \subseteq Nat
    BY <1>1
  <2> HIDE DEF Wrong
  <2> QED
    BY <1>2, <2>1, LeastNatural
<1>4. k \in m .. n /\ ~IsPrefix(says[m], says[k])
  OBVIOUS
<1> HIDE DEF n
<1>5. m \in Nat /\ m <= n
  BY <1>1 DEF n
<1>6. says[m] \in Seq(Replies)
  BY <1>1, <1>5 DEF SaysOf, n
<1>7. k # m
  BY <1>4, <1>6, PrefixOfItself
<1>8. k - 1 \in m .. n /\ k - 1 \in 0 .. n /\ k \in 1 .. n /\ ~(k <= k - 1)
  BY <1>1, <1>4, <1>5, <1>7
<1>9. IsPrefix(says[m], says[k - 1])
  <2>1. k - 1 \notin Wrong
    <3> HIDE DEF Wrong
    <3> QED
      BY <1>3, <1>8
  <2> QED
    BY <1>8, <2>1
<1>10. says[k] = SayMore(says[k - 1], lines[k]) /\ says[k - 1] \in Seq(Replies)
  BY <1>8 DEF SaysOf, n
<1>11. says[k] \in Seq(Replies) /\ IsPrefix(says[k - 1], says[k])
  BY <1>1, <1>8, <1>10, SayMoreType
<1> QED
  BY <1>4, <1>6, <1>9, <1>10, <1>11, PrefixOfPrefix

LEMMA AnswersOfFirst ==
    ASSUME NEW lines \in Seq(Seq(Bytes)), NEW more \in Seq(Seq(Bytes)), FirstOf(lines, more)
    PROVE  IsPrefix(AnswersTo(lines), AnswersTo(more)) /\ AnswersTo(lines) \in Seq(Replies)
<1>1. PICK says : SaysOf(lines, says) /\ AnswersTo(lines) = says[Len(lines)]
  BY AnswersAre
<1>2. PICK also : SaysOf(more, also) /\ AnswersTo(more) = also[Len(more)]
  BY AnswersAre
<1>3. says[Len(lines)] = also[Len(lines)]
  BY <1>1, <1>2, SaysSame
<1>4. Len(lines) \in Nat /\ Len(more) \in Nat
  OBVIOUS
<1>5. Len(lines) \in 0 .. Len(more) /\ Len(lines) \in 0 .. Len(lines)
  BY <1>4 DEF FirstOf
<1>6. IsPrefix(also[Len(lines)], also[Len(more)])
  BY <1>2, <1>5, SaysGrow
<1>7. says[Len(lines)] \in Seq(Replies)
  BY <1>1, <1>5 DEF SaysOf
<1> QED
  BY <1>1, <1>2, <1>3, <1>6, <1>7

LEMMA AnswersOfMore ==
    ASSUME NEW lines \in Seq(Seq(Bytes)), NEW l \in Seq(Bytes)
    PROVE  AnswersTo(Append(lines, l)) = SayMore(AnswersTo(lines), l)
<1> DEFINE L == Seq(Bytes)
           more == Append(lines, l)
           n == Len(lines)
<1>1. /\ more \in Seq(L) /\ Len(more) = n + 1 /\ n \in Nat /\ more[n + 1] = l
      /\ \A k \in 1 .. n : more[k] = lines[k]
  <2>1. lines \in Seq(L) /\ l \in L
    OBVIOUS
  <2> HIDE DEF L
  <2> QED
    BY <2>1
<1> HIDE DEF more
<1>2. FirstOf(lines, more)
  BY <1>1 DEF FirstOf
<1>3. PICK says : SaysOf(lines, says) /\ AnswersTo(lines) = says[n]
  BY AnswersAre
<1>4. PICK also : SaysOf(more, also) /\ AnswersTo(more) = also[n + 1]
  BY <1>1, AnswersAre
<1>5. says[n] = also[n]
  BY <1>1, <1>2, <1>3, <1>4, SaysSame
<1>6. also[n + 1] = SayMore(also[n], l)
  <2>1. n + 1 \in 1 .. Len(more) /\ (n + 1) - 1 = n
    BY <1>1
  <2>2. also[n + 1] = SayMore(also[(n + 1) - 1], more[n + 1])
    BY <1>4, <2>1 DEF SaysOf
  <2> QED
    BY <1>1, <2>1, <2>2
<1> QED
  BY <1>3, <1>4, <1>5, <1>6 DEF more

LEMMA AnswersToNone == AnswersTo(<< >>) = << >>
<1>1. << >> \in Seq(Seq(Bytes)) /\ Len(<< >>) = 0
  OBVIOUS
<1>2. PICK says : SaysOf(<< >>, says) /\ AnswersTo(<< >>) = says[Len(<< >>)]
  BY <1>1, AnswersAre
<1> QED
  BY <1>1, <1>2 DEF SaysOf

\* The lines that are read, up to one that ends the session.
LastRead(lines) == SelectInSeq(lines, Ends)
LinesRead(lines) == IF LastRead(lines) = 0 THEN lines ELSE SubSeq(lines, 1, LastRead(lines) - 1)
NoEnd(lines) == \A k \in 1 .. Len(lines) : ~Ends(lines[k])

LEMMA AnsweredIs ==
    ASSUME NEW text
    PROVE  Answered(text) = AnswersTo(LinesRead(LinesOf(text)))
BY DEF Answered, LinesRead, LastRead

LEMMA FirstEnd ==
    ASSUME NEW lines \in Seq(Seq(Bytes))
    PROVE  LET last == LastRead(lines) IN
           /\ last \in 0 .. Len(lines)
           /\ last # 0 => Ends(lines[last]) /\ \A k \in 1 .. last - 1 : ~Ends(lines[k])
           /\ last = 0 => NoEnd(lines)
<1> DEFINE I == {k \in 1 .. Len(lines) : Ends(lines[k])}
           last == LastRead(lines)
<1>1. last = IF I # {} THEN Min(I) ELSE 0
  BY DEF SelectInSeq, LastRead
<1>2. Len(lines) \in Nat
  OBVIOUS
<1> HIDE DEF last
<1>3. CASE I = {}
  BY <1>1, <1>2, <1>3 DEF NoEnd, last
<1>4. CASE I # {}
  <2>1. I \subseteq Nat /\ \A k \in I : k \in 1 .. Len(lines) /\ Ends(lines[k])
    OBVIOUS
  <2>2. \A k \in 1 .. Len(lines) : Ends(lines[k]) => k \in I
    OBVIOUS
  <2> HIDE DEF I
  <2>3. \E k \in I : \A m \in I : k <= m
    BY <1>4, <2>1, LeastNatural
  <2>4. Min(I) \in I /\ \A m \in I : Min(I) <= m
    BY <2>3 DEF Min
  <2>5. last \in I /\ \A m \in I : last <= m
    BY <1>1, <1>4, <2>4
  <2>6. last \in 1 .. Len(lines) /\ Ends(lines[last])
    BY <2>1, <2>5
  <2>7. \A k \in 1 .. last - 1 : ~Ends(lines[k])
    <3>1. \A k \in 1 .. last - 1 : k \in 1 .. Len(lines) /\ ~(last <= k)
      BY <1>2, <2>6
    <3> QED
      BY <2>2, <2>5, <3>1
  <2> QED
    BY <2>6, <2>7 DEF last
<1> QED
  BY <1>3, <1>4

LEMMA ReadAll ==
    ASSUME NEW lines \in Seq(Seq(Bytes)), NoEnd(lines)
    PROVE  LinesRead(lines) = lines
<1>1. LastRead(lines) = 0
  <2>1. \A k \in 1 .. Len(lines) : ~Ends(lines[k])
    BY DEF NoEnd
  <2> QED
    BY <2>1, FirstEnd
<1> QED
  BY <1>1 DEF LinesRead

LEMMA ReadFirst ==
    ASSUME NEW lines \in Seq(Seq(Bytes)), NoEnd(lines), NEW more \in Seq(Seq(Bytes)), FirstOf(lines, more)
    PROVE  LinesRead(more) \in Seq(Seq(Bytes)) /\ FirstOf(lines, LinesRead(more))
<1> DEFINE last == LastRead(more)
           L == Seq(Bytes)
<1>1. last \in 0 .. Len(more) /\ (last # 0 => Ends(more[last]))
  BY FirstEnd
<1>2. LinesRead(more) = IF last = 0 THEN more ELSE SubSeq(more, 1, last - 1)
  BY DEF LinesRead
<1>3. more \in Seq(L) /\ lines \in Seq(L) /\ Len(more) \in Nat /\ Len(lines) \in Nat
  OBVIOUS
<1> HIDE DEF last, L
<1>4. CASE last = 0
  BY <1>2, <1>3, <1>4 DEF L
<1>5. CASE last # 0
  <2>1. last - 1 \in 0 .. Len(more) /\ last \in 1 .. Len(more)
    BY <1>1, <1>3, <1>5
  <2>2. LinesRead(more) \in Seq(L) /\ Len(LinesRead(more)) = last - 1
        /\ \A k \in 1 .. last - 1 : LinesRead(more)[k] = more[k]
    BY <1>2, <1>3, <1>5, <2>1, StartOf
  <2>3. Len(lines) <= last - 1
    <3>1. SUFFICES ASSUME last <= Len(lines) PROVE FALSE
      BY <1>3, <2>1
    <3>2. last \in 1 .. Len(lines)
      BY <1>3, <2>1, <3>1
    <3>3. lines[last] = more[last] /\ ~Ends(lines[last])
      BY <3>2 DEF FirstOf, NoEnd
    <3> QED
      BY <1>1, <1>5, <3>3
  <2>4. FirstOf(lines, LinesRead(more))
    BY <1>3, <2>1, <2>2, <2>3 DEF FirstOf
  <2> QED
    BY <2>2, <2>4 DEF L
<1> QED
  BY <1>4, <1>5

LEMMA ReadToEnd ==
    ASSUME NEW lines \in Seq(Seq(Bytes)), NoEnd(lines), NEW l \in Seq(Bytes), Ends(l)
    PROVE  LinesRead(Append(lines, l)) = lines
<1> DEFINE L == Seq(Bytes)
           more == Append(lines, l)
           last == LastRead(more)
           n == Len(lines)
<1>1. /\ more \in Seq(L) /\ Len(more) = n + 1 /\ n \in Nat /\ more[n + 1] = l /\ lines \in Seq(L)
      /\ \A k \in 1 .. n : more[k] = lines[k]
  <2>1. lines \in Seq(L) /\ l \in L
    OBVIOUS
  <2> HIDE DEF L
  <2> QED
    BY <2>1
<1> HIDE DEF more
<1>2. /\ last \in 0 .. n + 1
      /\ last # 0 => Ends(more[last])
      /\ last = 0 => NoEnd(more)
  BY <1>1, FirstEnd
<1>3. LinesRead(more) = IF last = 0 THEN more ELSE SubSeq(more, 1, last - 1)
  BY DEF LinesRead
<1> HIDE DEF last, L, n
<1>4. last # 0
  <2>1. n + 1 \in 1 .. Len(more)
    BY <1>1
  <2>2. ~NoEnd(more)
    BY <1>1, <2>1 DEF NoEnd
  <2> QED
    BY <1>2, <2>2
<1>5. last \notin 1 .. n
  <2>1. \A k \in 1 .. n : ~Ends(more[k])
    BY <1>1 DEF NoEnd, n
  <2> QED
    BY <1>2, <1>4, <2>1
<1>6. last = n + 1
  BY <1>1, <1>2, <1>4, <1>5
<1>7. LinesRead(more) = SubSeq(more, 1, n)
  BY <1>1, <1>3, <1>4, <1>6
<1>8. SubSeq(more, 1, n) = lines
  <2>1. n \in 0 .. Len(more)
    BY <1>1
  <2>2. /\ SubSeq(more, 1, n) \in Seq(L) /\ Len(SubSeq(more, 1, n)) = n
        /\ \A k \in 1 .. n : SubSeq(more, 1, n)[k] = more[k]
    BY <1>1, <2>1, StartOf
  <2>3. Len(lines) = n
    BY DEF n
  <2> QED
    BY <1>1, <2>2, <2>3, SeqEqual
<1> QED
  BY <1>7, <1>8 DEF more

-----------------------------------------------------------------------------
(***************************************************************************)
(* The invariant.  The line in hand starts after the line break at s, or   *)
(* with the input; all that was answered is what is asked before it.       *)
(***************************************************************************)
Start(n) == SubSeq(input, 1, n)
AllRead == at = taken /\ taken = sent /\ closed
Begins(s) == AtBreak(input, s) \/ (s = at /\ AllRead)

\* The line from s on is held up to e, or is known to be too long.
Holds(s, e) ==
    IF tooLong THEN line = << >> /\ e - s > Limit + 1 ELSE line = SubSeq(input, s + 1, e)

AnsweredTo(lines) == NoEnd(lines) /\ answers = AnswersTo(lines)

Typed ==
    /\ input \in Seq(Bytes)
    /\ sent \in 0 .. Len(input) /\ taken \in 0 .. sent /\ at \in 0 .. taken
    /\ any \in BOOLEAN /\ tooLong \in BOOLEAN /\ closed \in BOOLEAN /\ gone \in BOOLEAN
    /\ line \in Seq(Bytes)
    /\ step \in {"banner", "read", "take", "line", "done"}

Begun == step = "banner" => taken = 0 /\ answers = << >>

InLine(s) ==
    /\ Begins(s) /\ NoBreakIn(input, s, at) /\ Holds(s, at)
    /\ AnsweredTo(LinesOf(Start(s)))
    /\ any = FALSE => s = at
    /\ step = "read" /\ any => s < at
Reading ==
    step \in {"read", "take"} =>
        /\ step = "take" => any /\ at < taken
        /\ \E s \in 0 .. at : InLine(s)

LineFrom(s, e) ==
    /\ s <= e /\ e <= at
    /\ LinesOf(Start(at)) = Append(LinesOf(Start(s)), SubSeq(input, s + 1, e))
    /\ Holds(s, e)
    /\ AnsweredTo(LinesOf(Start(s)))
HasLine == step = "line" => Begins(at) /\ \E s \in 0 .. at : \E e \in 0 .. at : LineFrom(s, e)

Inv == Typed /\ Begun /\ Reading /\ HasLine /\ OwnAnswers

\* Whole lines, with no end of the session among them, are all answered.
LEMMA AnswersWhole ==
    ASSUME NEW text \in Seq(Bytes), NEW n \in 0 .. Len(text), NEW s \in 0 .. n,
           AtBreak(text, s) \/ s = n, NoEnd(LinesOf(SubSeq(text, 1, s)))
    PROVE  /\ IsPrefix(AnswersTo(LinesOf(SubSeq(text, 1, s))), Answered(SubSeq(text, 1, n)))
           /\ s = n => AnswersTo(LinesOf(SubSeq(text, 1, s))) = Answered(SubSeq(text, 1, n))
<1> DEFINE lines == LinesOf(SubSeq(text, 1, s))
           more == LinesOf(SubSeq(text, 1, n))
<1>1. SubSeq(text, 1, s) \in Seq(Bytes) /\ SubSeq(text, 1, n) \in Seq(Bytes)
  <2>1. s \in 0 .. Len(text)
    OBVIOUS
  <2> QED
    BY <2>1, StartOf
<1>2. lines \in Seq(Seq(Bytes)) /\ more \in Seq(Seq(Bytes))
  BY <1>1, LinesType
<1>3. Answered(SubSeq(text, 1, n)) = AnswersTo(LinesRead(more))
  BY AnsweredIs
<1>4. CASE s = n
  <2>1. LinesRead(more) = more /\ lines = more
    BY <1>2, <1>4, ReadAll
  <2>2. AnswersTo(more) \in Seq(Replies)
    <3>1. FirstOf(more, more)
      <4> HIDE DEF more
      <4>1. Len(more) \in Nat
        BY <1>2
      <4> QED
        BY <4>1 DEF FirstOf
    <3> QED
      BY <1>2, <3>1, AnswersOfFirst
  <2> QED
    BY <1>3, <2>1, <2>2, PrefixOfItself
<1>5. CASE s # n /\ AtBreak(text, s)
  <2>1. Len(lines) <= Len(more) /\ \A k \in DOMAIN lines : lines[k] = more[k]
    BY <1>5, LinesBefore
  <2> HIDE DEF lines, more
  <2>2. FirstOf(lines, more)
    <3> DEFINE L == Seq(Bytes)
    <3>1. lines \in Seq(L)
      BY <1>2
    <3> HIDE DEF L
    <3>2. DOMAIN lines = 1 .. Len(lines)
      BY <3>1
    <3> QED
      BY <2>1, <3>2 DEF FirstOf
  <2>3. LinesRead(more) \in Seq(Seq(Bytes)) /\ FirstOf(lines, LinesRead(more))
    <3>1. NoEnd(lines)
      BY DEF lines
    <3> QED
      BY <1>2, <2>2, <3>1, ReadFirst
  <2>4. IsPrefix(AnswersTo(lines), AnswersTo(LinesRead(more)))
    BY <1>2, <2>3, AnswersOfFirst
  <2> QED
    BY <1>3, <1>5, <2>4 DEF lines
<1> QED
  BY <1>4, <1>5

LEMMA AnsweredNone ==
    ASSUME NEW text \in Seq(Bytes)
    PROVE  LinesOf(SubSeq(text, 1, 0)) = << >> /\ NoEnd(<< >>)
<1> DEFINE none == SubSeq(text, 1, 0)
           L == Seq(Bytes)
<1>1. none \in Seq(Bytes) /\ Len(none) = 0 /\ 0 \in 0 .. Len(text)
  BY StartOf
<1>2. LinesOf(none) = Whole(none)
  BY <1>1, LinesAtBreak DEF AtBreak
<1> HIDE DEF none
<1>3. LineBreaks(none) = {}
  <2>1. LineBreaks(none) \subseteq 1 .. 0
    BY <1>1, BreaksType
  <2>2. \A x \in 1 .. 0 : FALSE
    OBVIOUS
  <2> QED
    BY <2>1, <2>2
<1>4. Whole(none) \in Seq(L) /\ Len(Whole(none)) = 0
  BY <1>1, <1>3, WholeType, FS_EmptySet
<1> HIDE DEF L
<1>5. Whole(none) = << >>
  BY <1>4
<1>6. NoEnd(<< >>)
  BY DEF NoEnd
<1> QED
  BY <1>2, <1>5, <1>6 DEF none

LEMMA InitHolds == Init => Inv
<1>1. SUFFICES ASSUME Init PROVE Inv
  OBVIOUS
<1>2. Typed
  <2>1. input \in Seq(Bytes)
    BY <1>1, BytesAssumption DEF Init
  <2>2. Len(input) \in Nat
    BY <2>1
  <2>3. 0 \in 0 .. Len(input) /\ 0 \in 0 .. 0 /\ << >> \in Seq(Bytes)
    BY <2>2
  <2>4. /\ sent = 0 /\ taken = 0 /\ at = 0 /\ line = << >> /\ step = "banner"
        /\ closed = FALSE /\ gone = FALSE /\ any = FALSE /\ tooLong = FALSE
    BY <1>1 DEF Init
  <2> QED
    BY <2>1, <2>3, <2>4 DEF Typed
<1>3. Begun /\ Reading /\ HasLine
  BY <1>1 DEF Init, Begun, Reading, HasLine
<1>4. OwnAnswers
  <2>1. LinesOf(SubSeq(input, 1, 0)) = << >> /\ NoEnd(<< >>) /\ 0 \in 0 .. Len(input) /\ 0 \in 0 .. 0
    BY <1>2, AnsweredNone DEF Typed
  <2>2. IsPrefix(AnswersTo(<< >>), Answered(SubSeq(input, 1, 0)))
    BY <1>2, <2>1, AnswersWhole DEF Typed
  <2> QED
    BY <1>1, <2>2, AnswersToNone DEF Init, OwnAnswers
<1> QED
  BY <1>2, <1>3, <1>4 DEF Inv

-----------------------------------------------------------------------------
(***************************************************************************)
(* The client's steps take nothing from the program's.                     *)
(***************************************************************************)
LEMMA ClientKeeps ==
    ASSUME Inv, Send \/ Close \/ Leave
    PROVE  Inv'
<1>1. Typed'
  <2>1. CASE Send
    <3>1. sent' \in sent + 1 .. Len(input)
      BY <2>1 DEF Send
    <3>2. input \in Seq(Bytes) /\ sent \in 0 .. Len(input) /\ taken \in 0 .. sent
      BY DEF Inv, Typed
    <3>3. sent' \in 0 .. Len(input) /\ taken \in 0 .. sent'
      BY <3>1, <3>2
    <3> QED
      BY <2>1, <3>3 DEF Send, Inv, Typed, reader
  <2>2. CASE Close
    BY <2>2 DEF Close, Inv, Typed, reader
  <2>3. CASE Leave
    BY <2>3 DEF Leave, Inv, Typed, reader
  <2> QED
    BY <2>1, <2>2, <2>3
<1>2. UNCHANGED <<input, taken, at, line, any, tooLong, answers, step, code>>
  BY DEF Send, Close, Leave, reader
<1>3. \A s : Begins(s) => Begins(s)'
  <2>1. CASE Send
    BY <1>2, <2>1 DEF Send, Begins, AllRead, AtBreak
  <2>2. CASE Close
    BY <1>2, <2>2 DEF Close, Begins, AllRead, AtBreak
  <2>3. CASE Leave
    BY <1>2, <2>3 DEF Leave, Begins, AllRead, AtBreak
  <2> QED
    BY <2>1, <2>2, <2>3
<1>4. Begun'
  BY <1>2 DEF Inv, Begun
<1>5. \A s : InLine(s) => InLine(s)'
  BY <1>2, <1>3 DEF InLine, NoBreakIn, Holds, AnsweredTo, Start
<1>6. Reading'
  BY <1>2, <1>5 DEF Inv, Reading
<1>7. HasLine'
  <2>1. \A s : \A e : LineFrom(s, e) => LineFrom(s, e)'
    BY <1>2 DEF LineFrom, Holds, AnsweredTo, Start
  <2> QED
    BY <1>2, <1>3, <2>1 DEF Inv, HasLine
<1>8. OwnAnswers'
  BY <1>2 DEF Inv, OwnAnswers
<1> QED
  BY <1>1, <1>4, <1>6, <1>7, <1>8 DEF Inv

-----------------------------------------------------------------------------
(***************************************************************************)
(* The next line.                                                          *)
(***************************************************************************)
\* What was answered is what is asked before the place the program has come to.
LEMMA NextLineKeeps ==
    ASSUME Inv, Begins(at), NoEnd(LinesOf(Start(at))), answers' = AnswersTo(LinesOf(Start(at))),
           NextLine, UNCHANGED <<input, sent, closed, gone, taken, at>>
    PROVE  Inv'
<1>1. input \in Seq(Bytes) /\ at \in 0 .. taken /\ taken \in 0 .. sent /\ sent \in 0 .. Len(input)
  BY DEF Inv, Typed
<1>2. at \in 0 .. Len(input) /\ taken \in 0 .. Len(input) /\ at \in 0 .. at
  BY <1>1
<1>3. line' = << >> /\ any' = FALSE /\ tooLong' = FALSE /\ step' = "read"
  BY DEF NextLine
<1>4. Typed'
  <2>1. << >> \in Seq(Bytes)
    OBVIOUS
  <2>2. line' \in Seq(Bytes) /\ any' \in BOOLEAN /\ tooLong' \in BOOLEAN
    BY <1>3, <2>1
  <2>3. step' \in {"banner", "read", "take", "line", "done"}
    BY <1>3
  <2> HIDE <1>3
  <2> QED
    BY <2>2, <2>3 DEF Inv, Typed
<1>5. Begun' /\ HasLine'
  BY <1>3 DEF Begun, HasLine
<1>6. Reading'
  <2>1. Begins(at)'
    BY DEF Begins, AllRead, AtBreak
  <2>2. NoBreakIn(input, at, at)
    BY <1>1 DEF NoBreakIn
  <2>3. SubSeq(input, at + 1, at) = << >>
    BY <1>1
  <2>4. Holds(at, at)'
    BY <1>3, <2>3 DEF Holds
  <2>5. AnsweredTo(LinesOf(Start(at)))'
    BY DEF AnsweredTo, Start
  <2>6. NoBreakIn(input, at, at)'
    BY <2>2 DEF NoBreakIn
  <2>7. InLine(at)'
    BY <1>3, <2>1, <2>4, <2>5, <2>6 DEF InLine
  <2>8. at' \in (0 .. at)'
    BY <1>2
  <2> QED
    BY <1>3, <2>7, <2>8 DEF Reading
<1>7. OwnAnswers'
  <2>1. AtBreak(input, at) \/ at = taken
    BY DEF Begins, AllRead
  <2>2. IsPrefix(AnswersTo(LinesOf(SubSeq(input, 1, at))), Answered(SubSeq(input, 1, taken)))
    BY <1>1, <1>2, <2>1, AnswersWhole DEF Start
  <2> QED
    BY <1>3, <2>2 DEF OwnAnswers, Start
<1> QED
  BY <1>4, <1>5, <1>6, <1>7 DEF Inv

\* The end of the session.
LEMMA ExitKeeps ==
    ASSUME Inv, step' = "done",
           code' = 0 => answers = Answered(Start(at)),
           UNCHANGED <<input, sent, closed, gone, taken, at, reader, answers>>
    PROVE  Inv'
<1>1. Typed'
  BY DEF Inv, Typed, reader
<1>2. Begun' /\ Reading' /\ HasLine'
  BY DEF Begun, Reading, HasLine
<1>3. OwnAnswers'
  BY DEF Inv, OwnAnswers, Start
<1> QED
  BY <1>1, <1>2, <1>3 DEF Inv

LEMMA BannerKeeps ==
    ASSUME Inv, Banner
    PROVE  Inv'
<1>1. input \in Seq(Bytes) /\ taken = 0 /\ at = 0 /\ answers = << >>
  BY DEF Inv, Typed, Begun, Banner
<1>2. CASE gone
  BY <1>2, ExitKeeps DEF Banner, Exit
<1>3. CASE ~gone
  <2>1. LinesOf(SubSeq(input, 1, 0)) = << >> /\ NoEnd(<< >>)
    BY <1>1, AnsweredNone
  <2>2. Begins(at)
    BY <1>1 DEF Begins, AtBreak
  <2>3. NextLine /\ UNCHANGED <<input, sent, closed, gone, taken, at, answers>>
    BY <1>3 DEF Banner
  <2>4. NoEnd(LinesOf(Start(at))) /\ answers' = AnswersTo(LinesOf(Start(at)))
    BY <1>1, <2>1, <2>3, AnswersToNone DEF Start
  <2> QED
    BY <2>2, <2>3, <2>4, NextLineKeeps
<1> QED
  BY <1>2, <1>3

-----------------------------------------------------------------------------
(***************************************************************************)
(* The reading of a line.                                                  *)
(***************************************************************************)
LEMMA ReadKeeps ==
    ASSUME Inv, Read
    PROVE  Inv'
<1>1. /\ input \in Seq(Bytes) /\ at \in 0 .. taken /\ taken \in 0 .. sent /\ sent \in 0 .. Len(input)
      /\ Len(input) \in Nat /\ BlockSize \in Nat
  BY SizesAssumption DEF Inv, Typed
<1>2. /\ step = "read" /\ at = taken /\ Block > 0 /\ taken' = taken + Block /\ any' = TRUE /\ step' = "take"
      /\ UNCHANGED <<input, sent, closed, gone, at, line, tooLong, answers, code>>
  BY DEF Read
<1>3. Block \in Nat /\ Block <= sent - taken
  BY <1>1 DEF Block
<1>4. taken' \in 0 .. sent /\ taken < taken' /\ taken \in Nat /\ at \in 0 .. taken'
  BY <1>1, <1>2, <1>3
<1>5. ~AllRead
  BY <1>1, <1>2, <1>3 DEF AllRead
<1>6. PICK s \in 0 .. at : InLine(s)
  BY <1>2 DEF Inv, Reading
<1>7. AtBreak(input, s)
  BY <1>5, <1>6 DEF InLine, Begins
<1>8. Typed'
  BY <1>2, <1>4 DEF Inv, Typed
<1>9. Begun' /\ HasLine'
  BY <1>2 DEF Begun, HasLine
<1>10. Reading'
  <2>1. InLine(s)'
    BY <1>2, <1>6, <1>7 DEF InLine, Begins, NoBreakIn, Holds, AnsweredTo, Start
  <2>2. s \in (0 .. at)' /\ at' < taken'
    BY <1>2, <1>4
  <2> QED
    BY <1>2, <2>1, <2>2 DEF Reading
<1>11. OwnAnswers'
  <2>1. s \in 0 .. taken' /\ taken' \in 0 .. Len(input)
    BY <1>1, <1>4
  <2>2. NoEnd(LinesOf(SubSeq(input, 1, s))) /\ answers = AnswersTo(LinesOf(SubSeq(input, 1, s)))
    BY <1>6 DEF InLine, AnsweredTo, Start
  <2>3. IsPrefix(AnswersTo(LinesOf(SubSeq(input, 1, s))), Answered(SubSeq(input, 1, taken')))
    BY <1>1, <1>7, <2>1, <2>2, AnswersWhole
  <2> QED
    BY <1>2, <2>2, <2>3 DEF OwnAnswers
<1> QED
  BY <1>8, <1>9, <1>10, <1>11 DEF Inv

LEMMA TakeMoreKeeps ==
    ASSUME Inv, TakeMore
    PROVE  Inv'
<1>1. /\ step = "read" /\ at < taken /\ any' = TRUE /\ step' = "take"
      /\ UNCHANGED <<input, sent, closed, gone, taken, at, line, tooLong, answers, code>>
  BY DEF TakeMore
<1>2. PICK s \in 0 .. at : InLine(s)
  BY <1>1 DEF Inv, Reading
<1>3. Typed'
  BY <1>1 DEF Inv, Typed
<1>4. Begun' /\ HasLine'
  BY <1>1 DEF Begun, HasLine
<1>5. Reading'
  <2>1. InLine(s)'
    BY <1>1, <1>2 DEF InLine, Begins, AllRead, AtBreak, NoBreakIn, Holds, AnsweredTo, Start
  <2>2. s \in (0 .. at)'
    BY <1>1
  <2> QED
    BY <1>1, <2>1, <2>2 DEF Reading
<1>6. OwnAnswers'
  BY <1>1 DEF Inv, OwnAnswers
<1> QED
  BY <1>3, <1>4, <1>5, <1>6 DEF Inv

LEMMA ReadEndsKeeps ==
    ASSUME Inv, ReadEnds
    PROVE  Inv'
<1>1. /\ input \in Seq(Bytes) /\ at \in 0 .. taken /\ taken \in 0 .. sent /\ sent \in 0 .. Len(input)
      /\ any \in BOOLEAN
  BY DEF Inv, Typed
<1>2. /\ step = "read" /\ AllRead
      /\ UNCHANGED <<input, sent, closed, gone, taken, at, reader, answers>>
  BY DEF ReadEnds, AllRead
<1>3. PICK s \in 0 .. at : InLine(s)
  BY <1>2 DEF Inv, Reading
<1>4. CASE any = TRUE
  <2>1. step' = "line"
    BY <1>4 DEF ReadEnds, LastLine
  <2>2. s < at
    BY <1>2, <1>3, <1>4 DEF InLine
  <2>3. AtBreak(input, s) /\ NoBreakIn(input, s, at)
    BY <1>1, <1>3, <2>2 DEF InLine, Begins
  <2>4. at \in 0 .. Len(input) /\ s <= at /\ at \in 0 .. at
    BY <1>1
  <2>5. LinesOf(Start(at)) = Append(LinesOf(Start(s)), SubSeq(input, s + 1, at))
    BY <1>1, <2>2, <2>3, <2>4, LinesPastBreak DEF Start
  <2>6. LineFrom(s, at)
    BY <1>3, <2>4, <2>5 DEF InLine, LineFrom
  <2>7. LineFrom(s, at)'
    BY <1>2, <2>6 DEF LineFrom, Holds, AnsweredTo, Start, reader
  <2>8. Begins(at)'
    BY <1>2 DEF Begins, AllRead
  <2>9. HasLine'
    BY <1>2, <2>4, <2>7, <2>8 DEF HasLine
  <2>10. Typed'
    BY <1>2, <2>1 DEF Inv, Typed, reader
  <2>11. Begun' /\ Reading'
    BY <2>1 DEF Begun, Reading
  <2>12. OwnAnswers'
    BY <1>2, <2>1 DEF Inv, OwnAnswers
  <2> QED
    BY <2>9, <2>10, <2>11, <2>12 DEF Inv
<1>5. CASE any = FALSE
  <2>1. s = at /\ step' = "done" /\ code' = 0
    BY <1>3, <1>5 DEF InLine, ReadEnds, LastLine, Exit
  <2>2. NoEnd(LinesOf(SubSeq(input, 1, at))) /\ answers = AnswersTo(LinesOf(SubSeq(input, 1, at)))
    BY <1>3, <2>1 DEF InLine, AnsweredTo, Start
  <2>3. at \in 0 .. Len(input) /\ at \in 0 .. at
    BY <1>1
  <2>4. answers = Answered(Start(at))
    BY <1>1, <2>2, <2>3, AnswersWhole DEF Start
  <2> QED
    BY <1>2, <2>1, <2>4, ExitKeeps
<1> QED
  BY <1>1, <1>4, <1>5

\* The line break of what is in the buffer.
LEMMA LineEndIs ==
    ASSUME input \in Seq(Bytes), at \in 0 .. taken, taken \in 0 .. Len(input)
    PROVE  /\ LineEnd \in 0 .. taken - at
           /\ LineEnd = 0 => NoBreakIn(input, at, taken)
           /\ LineEnd # 0 => input[at + LineEnd] = "newline" /\ NoBreakIn(input, at, at + LineEnd - 1)
<1> DEFINE I == {k \in 1 .. Len(Buffered) : Buffered[k] = "newline"}
           m == LineEnd
<1>1. Len(Buffered) = taken - at /\ \A k \in 1 .. taken - at : Buffered[k] = input[at + k]
  <2>1. at \in 0 .. Len(input) /\ taken \in at .. Len(input)
    OBVIOUS
  <2> QED
    BY <2>1, PartOf DEF Buffered
<1>2. LineEnd = IF I # {} THEN Min(I) ELSE 0
  BY DEF LineEnd, SelectInSeq
<1>3. taken - at \in Nat /\ at \in Nat /\ taken \in Nat
  OBVIOUS
<1>4. \A k : k \in I <=> k \in 1 .. taken - at /\ input[at + k] = "newline"
  BY <1>1
<1> HIDE DEF I, m
<1>5. CASE I = {}
  <2>1. \A n \in at + 1 .. taken : n - at \in 1 .. taken - at /\ at + (n - at) = n
    BY <1>3
  <2>2. NoBreakIn(input, at, taken)
    BY <1>4, <1>5, <2>1 DEF NoBreakIn
  <2> QED
    BY <1>2, <1>3, <1>5, <2>2
<1>6. CASE I # {}
  <2>1. I \subseteq Nat
    BY <1>3, <1>4
  <2>2. \E k \in I : \A n \in I : k <= n
    BY <1>6, <2>1, LeastNatural
  <2>3. m \in I /\ \A n \in I : m <= n
    BY <1>2, <1>6, <2>2 DEF Min, m
  <2>4. m \in 1 .. taken - at /\ input[at + m] = "newline"
    BY <1>4, <2>3
  <2>5. \A n \in at + 1 .. at + m - 1 : n - at \in 1 .. taken - at /\ at + (n - at) = n /\ ~(m <= n - at)
    BY <1>3, <2>4
  <2>6. NoBreakIn(input, at, at + m - 1)
    BY <1>4, <2>3, <2>5 DEF NoBreakIn
  <2> QED
    BY <2>4, <2>6 DEF m
<1> QED
  BY <1>5, <1>6

\* Where the part of the line that is in the buffer ends.
PartEnd == IF LineEnd = 0 THEN taken ELSE at + LineEnd - 1

LEMMA PartIs ==
    ASSUME Inv, Take, NEW s \in 0 .. at, InLine(s), NEW e, e = PartEnd
    PROVE  /\ e \in at .. taken /\ NoBreakIn(input, s, e)
           /\ Holds(s, e)' /\ line' \in Seq(Bytes) /\ tooLong' \in BOOLEAN
<1>1. /\ input \in Seq(Bytes) /\ at \in 0 .. taken /\ taken \in 0 .. sent /\ sent \in 0 .. Len(input)
      /\ tooLong \in BOOLEAN /\ line \in Seq(Bytes) /\ Limit \in Nat
  BY SizesAssumption DEF Inv, Typed
<1>2. /\ LineEnd \in 0 .. taken - at
      /\ LineEnd = 0 => NoBreakIn(input, at, taken)
      /\ LineEnd # 0 => NoBreakIn(input, at, at + LineEnd - 1)
  <2>1. taken \in 0 .. Len(input)
    BY <1>1
  <2> QED
    BY <1>1, <2>1, LineEndIs
<1>3. e \in at .. taken /\ NoBreakIn(input, at, e)
  BY <1>1, <1>2 DEF PartEnd
<1>4. Part = SubSeq(input, at + 1, e)
  <2>1. CASE LineEnd = 0
    BY <2>1 DEF Part, PartEnd, Buffered
  <2>2. CASE LineEnd # 0
    <3>1. LineEnd \in 1 .. taken - at
      BY <1>1, <1>2, <2>2
    <3> DEFINE m == LineEnd
    <3>2. Part = SubSeq(SubSeq(input, at + 1, taken), 1, m - 1) /\ e = at + m - 1
      BY <2>2 DEF Part, PartEnd, Buffered
    <3> HIDE DEF m
    <3>3. m \in 1 .. taken - at
      BY <3>1 DEF m
    <3>4. SubSeq(SubSeq(input, at + 1, taken), 1, m - 1) = SubSeq(input, at + 1, at + m - 1)
      BY <1>1, <3>3
    <3> QED
      BY <3>2, <3>4
  <2> QED
    BY <2>1, <2>2
<1>5. NoBreakIn(input, s, e)
  <2>1. NoBreakIn(input, s, at)
    BY DEF InLine
  <2>2. \A n \in s + 1 .. e : n \in s + 1 .. at \/ n \in at + 1 .. e
    BY <1>1, <1>3
  <2> QED
    BY <1>3, <2>1, <2>2 DEF NoBreakIn
<1>6. Part \in Seq(Bytes) /\ Len(Part) = e - at
  <2>1. at \in 0 .. Len(input) /\ e \in at .. Len(input)
    BY <1>1, <1>3
  <2> QED
    BY <1>1, <1>4, <2>1, PartOf
<1>7. IF tooLong \/ Past(Part) THEN tooLong' = TRUE /\ line' = << >>
                               ELSE line' = line \o Part /\ UNCHANGED tooLong
  BY DEF Take
<1>8. input' = input
  BY DEF Take
<1>9. CASE tooLong
  <2>1. tooLong' = TRUE /\ line' = << >> /\ at - s > Limit + 1
    BY <1>7, <1>9 DEF InLine, Holds
  <2>2. e - s > Limit + 1
    BY <1>1, <1>3, <2>1
  <2>3. << >> \in Seq(Bytes)
    OBVIOUS
  <2> QED
    BY <1>3, <1>5, <2>1, <2>2, <2>3 DEF Holds
<1>10. CASE ~tooLong
  <2>1. line = SubSeq(input, s + 1, at)
    BY <1>10 DEF InLine, Holds
  <2>2. Len(line) = at - s
    <3>1. s \in 0 .. Len(input) /\ at \in s .. Len(input)
      BY <1>1
    <3> QED
      BY <1>1, <2>1, <3>1, PartOf
  <2>3. Past(Part) <=> e - s > Limit + 1
    BY <1>1, <1>3, <1>6, <2>2 DEF Past
  <2>4. CASE Past(Part)
    <3>1. tooLong' = TRUE /\ line' = << >> /\ << >> \in Seq(Bytes)
      BY <1>7, <2>4
    <3> QED
      BY <1>3, <1>5, <2>3, <2>4, <3>1 DEF Holds
  <2>5. CASE ~Past(Part)
    <3>1. line' = line \o Part /\ tooLong' = tooLong
      BY <1>7, <1>10, <2>5
    <3>2. s \in 0 .. Len(input) /\ at \in s .. Len(input) /\ e \in at .. Len(input)
      BY <1>1, <1>3
    <3>3. SubSeq(input, s + 1, at) \o SubSeq(input, at + 1, e) = SubSeq(input, s + 1, e)
      BY <1>1, <3>2, PartsJoined
    <3>4. line' = SubSeq(input, s + 1, e)
      BY <1>4, <2>1, <3>1, <3>3
    <3>5. line' \in Seq(Bytes)
      BY <1>1, <1>6, <3>1
    <3> QED
      BY <1>1, <1>3, <1>5, <1>8, <1>10, <3>1, <3>4, <3>5 DEF Holds
  <2> QED
    BY <2>4, <2>5
<1> QED
  BY <1>9, <1>10

LEMMA TakeKeeps ==
    ASSUME Inv, Take
    PROVE  Inv'
<1>1. /\ input \in Seq(Bytes) /\ at \in 0 .. taken /\ taken \in 0 .. sent /\ sent \in 0 .. Len(input)
      /\ any \in BOOLEAN
  BY DEF Inv, Typed
<1>2. /\ step = "take"
      /\ at' = IF LineEnd = 0 THEN taken ELSE at + LineEnd
      /\ step' = IF LineEnd = 0 THEN "read" ELSE "line"
      /\ UNCHANGED <<input, sent, closed, gone, taken, any, answers, code>>
  BY DEF Take
<1>3. any /\ at < taken /\ \E s \in 0 .. at : InLine(s)
  BY <1>2 DEF Inv, Reading
<1>4. PICK s \in 0 .. at : InLine(s)
  BY <1>3
<1>5. ~AllRead
  BY <1>1, <1>3 DEF AllRead
<1>6. AtBreak(input, s) /\ AnsweredTo(LinesOf(Start(s)))
  BY <1>4, <1>5 DEF InLine, Begins
<1> PICK e : e = PartEnd
  OBVIOUS
<1>7. /\ e \in at .. taken /\ NoBreakIn(input, s, e) /\ Holds(s, e)'
      /\ line' \in Seq(Bytes) /\ tooLong' \in BOOLEAN
  BY <1>4, PartIs
<1>8. LineEnd \in 0 .. taken - at /\ (LineEnd # 0 => input[at + LineEnd] = "newline")
  <2>1. taken \in 0 .. Len(input)
    BY <1>1
  <2> QED
    BY <1>1, <2>1, LineEndIs
<1>9. at' \in 0 .. taken
  BY <1>1, <1>2, <1>8
<1>10. step' \in {"read", "line"}
  BY <1>2
<1>11. Typed'
  BY <1>2, <1>7, <1>9, <1>10 DEF Inv, Typed
<1>12. Begun' /\ OwnAnswers'
  <2>1. step' # "banner" /\ step' # "done"
    BY <1>10
  <2> QED
    BY <1>2, <2>1 DEF Inv, Begun, OwnAnswers
<1>13. AnsweredTo(LinesOf(Start(s)))'
  BY <1>2, <1>6 DEF AnsweredTo, Start
<1>14. CASE LineEnd = 0
  <2>1. at' = taken /\ step' = "read" /\ e = taken
    BY <1>2, <1>14 DEF PartEnd
  <2>2. s < at' /\ s \in (0 .. at)'
    BY <1>1, <1>3, <2>1
  <2>3. Begins(s)'
    BY <1>2, <1>6 DEF Begins, AtBreak
  <2>4. NoBreakIn(input, s, at)'
    BY <1>2, <1>7, <2>1 DEF NoBreakIn
  <2>5. Holds(s, at)'
    BY <1>7, <2>1 DEF Holds
  <2>6. InLine(s)'
    BY <1>2, <1>3, <1>13, <2>2, <2>3, <2>4, <2>5 DEF InLine
  <2>7. Reading'
    BY <2>1, <2>2, <2>6 DEF Reading
  <2>8. HasLine'
    BY <2>1 DEF HasLine
  <2> QED
    BY <1>11, <1>12, <2>7, <2>8 DEF Inv
<1>15. CASE LineEnd # 0
  <2>1. at' = e + 1 /\ step' = "line" /\ input[e + 1] = "newline" /\ e + 1 <= taken
    <3>1. e = at + LineEnd - 1 /\ at' = at + LineEnd /\ step' = "line"
      BY <1>2, <1>15 DEF PartEnd
    <3>2. at + LineEnd = (at + LineEnd - 1) + 1 /\ at + LineEnd <= taken
      BY <1>1, <1>8
    <3> QED
      BY <1>8, <1>15, <3>1, <3>2
  <2>2. e \in at .. taken /\ NoBreakIn(input, s, e) /\ Holds(s, e)'
    BY <1>7
  <2>3. e \in 0 .. Len(input) - 1 /\ s \in 0 .. e /\ s <= e /\ e <= at'
    BY <1>1, <2>1, <2>2
  <2>4. LinesOf(SubSeq(input, 1, e + 1)) = Append(LinesOf(SubSeq(input, 1, s)), SubSeq(input, s + 1, e))
    BY <1>1, <1>6, <2>1, <2>2, <2>3, LinesToBreak
  <2>5. LineFrom(s, e)'
    BY <1>2, <1>13, <2>1, <2>2, <2>3, <2>4 DEF LineFrom, Start
  <2>6. Begins(at)'
    BY <1>2, <2>1 DEF Begins, AtBreak
  <2>7. s \in (0 .. at)' /\ e \in (0 .. at)'
    BY <1>1, <2>1, <2>3
  <2>8. HasLine'
    BY <2>5, <2>6, <2>7 DEF HasLine
  <2>9. Reading'
    BY <2>1 DEF Reading
  <2> QED
    BY <1>11, <1>12, <2>8, <2>9 DEF Inv
<1> QED
  BY <1>14, <1>15

-----------------------------------------------------------------------------
(***************************************************************************)
(* The line that was read, and its answer.                                 *)
(***************************************************************************)
\* The line l after the lines before it.
After(lines, l) ==
    /\ Begins(at) /\ LinesOf(Start(at)) = Append(lines, l) /\ AnsweredTo(lines)
    /\ IF tooLong THEN Len(l) > Limit + 1 ELSE line = l

LEMMA LineIs ==
    ASSUME Inv, step = "line"
    PROVE  \E lines \in Seq(Seq(Bytes)) : \E l \in Seq(Bytes) : After(lines, l)
<1>1. input \in Seq(Bytes) /\ at \in 0 .. taken /\ taken \in 0 .. sent /\ sent \in 0 .. Len(input)
  BY DEF Inv, Typed
<1>2. Begins(at) /\ \E s \in 0 .. at : \E e \in 0 .. at : LineFrom(s, e)
  BY DEF Inv, HasLine
<1>3. PICK s \in 0 .. at : \E e \in 0 .. at : LineFrom(s, e)
  BY <1>2
<1>4. PICK e \in 0 .. at : LineFrom(s, e)
  BY <1>3
<1>5. s <= e /\ s \in 0 .. Len(input) /\ e \in s .. Len(input)
  BY <1>1, <1>4 DEF LineFrom
<1> DEFINE lines == LinesOf(Start(s))
           l == SubSeq(input, s + 1, e)
<1>6. l \in Seq(Bytes) /\ Len(l) = e - s
  BY <1>1, <1>5, PartOf
<1>7. lines \in Seq(Seq(Bytes))
  <2>1. SubSeq(input, 1, s) \in Seq(Bytes)
    BY <1>1, <1>5, StartOf
  <2> QED
    BY <2>1, LinesType DEF Start
<1>8. After(lines, l)
  BY <1>2, <1>4, <1>6 DEF LineFrom, Holds, After
<1> HIDE DEF lines, l
<1> QED
  BY <1>6, <1>7, <1>8

LEMMA NoEndMore ==
    ASSUME NEW lines \in Seq(Seq(Bytes)), NoEnd(lines), NEW l \in Seq(Bytes), ~Ends(l)
    PROVE  NoEnd(Append(lines, l))
<1> DEFINE L == Seq(Bytes)
           more == Append(lines, l)
           n == Len(lines)
<1>1. /\ Len(more) = n + 1 /\ n \in Nat /\ more[n + 1] = l
      /\ \A k \in 1 .. n : more[k] = lines[k]
  <2> HIDE DEF L
  <2>1. lines \in Seq(L) /\ l \in L
    BY DEF L
  <2> QED
    BY <2>1
<1> HIDE DEF more
<1>2. \A k \in 1 .. n + 1 : k \in 1 .. n \/ k = n + 1
  BY <1>1
<1>3. \A k \in 1 .. n : ~Ends(lines[k])
  BY DEF NoEnd
<1>4. \A k \in 1 .. n + 1 : ~Ends(more[k])
  BY <1>1, <1>2, <1>3
<1> QED
  BY <1>1, <1>4 DEF NoEnd, more

\* A line that does not end the session, with its answer, if it asks for one.
LEMMA LineDone ==
    ASSUME Inv, NEW lines \in Seq(Seq(Bytes)), NEW l \in Seq(Bytes), After(lines, l), ~Ends(l),
           answers' = SayMore(answers, l),
           NextLine, UNCHANGED <<input, sent, closed, gone, taken, at>>
    PROVE  Inv'
<1>1. Begins(at) /\ LinesOf(Start(at)) = Append(lines, l) /\ NoEnd(lines) /\ answers = AnswersTo(lines)
  BY DEF After, AnsweredTo
<1>2. NoEnd(Append(lines, l))
  BY <1>1, NoEndMore
<1>3. AnswersTo(Append(lines, l)) = SayMore(AnswersTo(lines), l)
  BY AnswersOfMore
<1> QED
  BY <1>1, <1>2, <1>3, NextLineKeeps

\* An answer that is written, or not.
LEMMA WriteKeeps ==
    ASSUME Inv, NEW lines \in Seq(Seq(Bytes)), NEW l \in Seq(Bytes), After(lines, l), ~Ends(l), Asks(l),
           Write(Expected(l)), UNCHANGED <<input, sent, closed, gone, taken, at>>
    PROVE  Inv'
<1>1. CASE gone
  <2>1. step' = "done" /\ code' = 12 /\ UNCHANGED <<answers, reader>>
    BY <1>1 DEF Write, Exit
  <2> QED
    BY <2>1, ExitKeeps
<1>2. CASE ~gone
  <2>1. answers' = Append(answers, Expected(l)) /\ NextLine
    BY <1>2 DEF Write
  <2>2. answers' = SayMore(answers, l)
    BY <2>1 DEF SayMore
  <2> QED
    BY <2>1, <2>2, LineDone
<1> QED
  BY <1>1, <1>2

LEMMA LineTooLongKeeps ==
    ASSUME Inv, LineTooLong
    PROVE  Inv'
<1>1. /\ step = "line" /\ (tooLong \/ Len(Stripped(line)) > Limit)
      /\ Write([id |-> NoId, kind |-> "too long", args |-> {}])
      /\ UNCHANGED <<input, sent, closed, gone, taken, at>>
  BY DEF LineTooLong
<1>2. PICK lines \in Seq(Seq(Bytes)) : \E l \in Seq(Bytes) : After(lines, l)
  BY <1>1, LineIs
<1>3. PICK l \in Seq(Bytes) : After(lines, l)
  BY <1>2
<1>4. Len(Stripped(l)) > Limit
  <2>1. CASE tooLong
    <3>1. Len(l) > Limit + 1
      BY <1>3, <2>1 DEF After
    <3>2. Len(l) <= Len(Stripped(l)) + 1 /\ Stripped(l) \in Seq(Bytes)
      BY StrippedIs, StrippedType
    <3>3. Len(l) \in Nat /\ Len(Stripped(l)) \in Nat /\ Limit \in Nat
      BY <3>2, SizesAssumption
    <3> QED
      BY <3>1, <3>2, <3>3
  <2>2. CASE ~tooLong
    BY <1>1, <1>3, <2>2 DEF After
  <2> QED
    BY <2>1, <2>2
<1>5. Expected(l) = [id |-> NoId, kind |-> "too long", args |-> {}]
  BY <1>4 DEF Expected
<1>6. Asks(l) /\ ~Ends(l)
  <2>1. Len(Stripped(l)) \in Nat /\ Limit \in Nat
    BY StrippedType, SizesAssumption
  <2> QED
    BY <1>4, <2>1 DEF Asks, Ends
<1> QED
  BY <1>1, <1>3, <1>5, <1>6, WriteKeeps

\* The line in hand when it is not too long.
LEMMA LineInHand ==
    ASSUME Inv, IsLine
    PROVE  \E lines \in Seq(Seq(Bytes)) : \E l \in Seq(Bytes) :
               After(lines, l) /\ line = l /\ Len(Stripped(l)) <= Limit /\ ~(Len(Stripped(l)) > Limit)
<1>1. step = "line" /\ ~tooLong /\ Len(Stripped(line)) <= Limit
  BY DEF IsLine
<1>2. PICK lines \in Seq(Seq(Bytes)) : \E l \in Seq(Bytes) : After(lines, l)
  BY <1>1, LineIs
<1>3. PICK l \in Seq(Bytes) : After(lines, l)
  BY <1>2
<1>4. line = l
  BY <1>1, <1>3 DEF After
<1>5. Len(Stripped(l)) \in Nat /\ Limit \in Nat
  BY StrippedType, SizesAssumption
<1> QED
  BY <1>1, <1>3, <1>4, <1>5

LEMMA SkipKeeps ==
    ASSUME Inv, Skip
    PROVE  Inv'
<1>1. /\ IsLine /\ Blank(Stripped(line)) /\ NextLine
      /\ UNCHANGED <<input, sent, closed, gone, taken, at, answers>>
  BY DEF Skip
<1>2. PICK lines \in Seq(Seq(Bytes)) : \E l \in Seq(Bytes) :
          After(lines, l) /\ line = l /\ Len(Stripped(l)) <= Limit /\ ~(Len(Stripped(l)) > Limit)
  BY <1>1, LineInHand
<1>3. PICK l \in Seq(Bytes) : After(lines, l) /\ line = l /\ ~(Len(Stripped(l)) > Limit)
  BY <1>2
<1>4. Blank(Stripped(l))
  BY <1>1, <1>3
<1>5. ~Asks(l)
  BY <1>3, <1>4 DEF Asks
<1>6. ~Ends(l)
  BY <1>4 DEF Ends, Quits, Blank
<1>7. answers' = SayMore(answers, l)
  BY <1>1, <1>5 DEF SayMore
<1> QED
  BY <1>1, <1>3, <1>6, <1>7, LineDone

LEMMA QuitKeeps ==
    ASSUME Inv, Quit
    PROVE  Inv'
<1>1. /\ IsLine /\ Quits(Stripped(line)) /\ step' = "done" /\ code' = 0
      /\ UNCHANGED <<input, sent, closed, gone, taken, at, reader, answers>>
  BY DEF Quit, Exit
<1>2. PICK lines \in Seq(Seq(Bytes)) : \E l \in Seq(Bytes) :
          After(lines, l) /\ line = l /\ Len(Stripped(l)) <= Limit /\ ~(Len(Stripped(l)) > Limit)
  BY <1>1, LineInHand
<1>3. PICK l \in Seq(Bytes) : After(lines, l) /\ line = l /\ Len(Stripped(l)) <= Limit
  BY <1>2
<1>4. Ends(l)
  BY <1>1, <1>3 DEF Ends
<1>5. LinesOf(Start(at)) = Append(lines, l) /\ NoEnd(lines) /\ answers = AnswersTo(lines)
  BY <1>3 DEF After, AnsweredTo
<1>6. LinesRead(Append(lines, l)) = lines
  BY <1>4, <1>5, ReadToEnd
<1>7. answers = Answered(Start(at))
  BY <1>5, <1>6, AnsweredIs
<1> QED
  BY <1>1, <1>7, ExitKeeps

LEMMA AnswerKeeps ==
    ASSUME Inv, Answer
    PROVE  Inv'
<1> DEFINE parsed == Parse(Stripped(line), request)
<1>1. /\ IsLine /\ ~Blank(Stripped(line)) /\ ~Quits(Stripped(line))
      /\ Write(Reply(parsed))
      /\ UNCHANGED <<input, sent, closed, gone, taken, at>>
  BY DEF Answer, Reply
<1>2. PICK lines \in Seq(Seq(Bytes)) : \E l \in Seq(Bytes) :
          After(lines, l) /\ line = l /\ Len(Stripped(l)) <= Limit /\ ~(Len(Stripped(l)) > Limit)
  BY <1>1, LineInHand
<1>3. PICK l \in Seq(Bytes) : After(lines, l) /\ line = l /\ ~(Len(Stripped(l)) > Limit)
  BY <1>2
<1>4. Asks(l) /\ ~Ends(l)
  BY <1>1, <1>3 DEF Asks, Ends
<1>5. Expected(l) = Reply(parsed)
  BY <1>3, ExpectedIs
<1> HIDE DEF parsed
<1>6. Write(Expected(l))
  BY <1>1, <1>5
<1> QED
  BY <1>1, <1>3, <1>4, <1>6, WriteKeeps

-----------------------------------------------------------------------------
(***************************************************************************)
(* The theorem.                                                            *)
(***************************************************************************)
LEMMA NextKeeps ==
    ASSUME Inv, [Next]_vars
    PROVE  Inv'
<1>1. CASE Send \/ Close \/ Leave
  BY <1>1, ClientKeeps
<1>2. CASE Banner
  BY <1>2, BannerKeeps
<1>3. CASE Read
  BY <1>3, ReadKeeps
<1>4. CASE ReadEnds
  BY <1>4, ReadEndsKeeps
<1>5. CASE Take
  BY <1>5, TakeKeeps
<1>6. CASE TakeMore
  BY <1>6, TakeMoreKeeps
<1>7. CASE LineTooLong
  BY <1>7, LineTooLongKeeps
<1>8. CASE Skip
  BY <1>8, SkipKeeps
<1>9. CASE Quit
  BY <1>9, QuitKeeps
<1>10. CASE Answer
  BY <1>10, AnswerKeeps
<1>11. CASE UNCHANGED vars
  <2>1. UNCHANGED <<input, sent, closed, gone, taken, at, line, any, tooLong, answers, step, code>>
    BY <1>11 DEF vars, reader
  <2>2. Typed' /\ Begun' /\ OwnAnswers'
    BY <2>1 DEF Inv, Typed, Begun, OwnAnswers
  <2>3. \A s : InLine(s) => InLine(s)'
    BY <2>1 DEF InLine, Begins, AllRead, AtBreak, NoBreakIn, Holds, AnsweredTo, Start
  <2>4. Reading'
    BY <2>1, <2>3 DEF Inv, Reading
  <2>5. Begins(at) => Begins(at)'
    BY <2>1 DEF Begins, AllRead, AtBreak
  <2>6. \A s : \A e : LineFrom(s, e) => LineFrom(s, e)'
    BY <2>1 DEF LineFrom, Holds, AnsweredTo, Start
  <2>7. HasLine'
    BY <2>1, <2>5, <2>6 DEF Inv, HasLine
  <2> QED
    BY <2>2, <2>4, <2>7 DEF Inv
<1> QED
  BY <1>1, <1>2, <1>3, <1>4, <1>5, <1>6, <1>7, <1>8, <1>9, <1>10, <1>11 DEF Next, Session

\* Whatever blocks the lines come in, and however many requests came before in the same buffers, each
\* line has the answer it would have alone, in its order, and exit code 0 says that all have theirs.
THEOREM EachItsOwnAnswer == Spec => []OwnAnswers
<1>1. Inv => OwnAnswers
  BY DEF Inv
<1>2. Inv /\ [Next]_vars => Inv'
  BY NextKeeps
<1> QED
  BY <1>1, <1>2, InitHolds, PTL DEF Spec

-----------------------------------------------------------------------------
(***************************************************************************)
(* The texts of a build session, for every set of documents and whatever   *)
(* their characters are: a version names one text, however builds fail.    *)
(***************************************************************************)
TextsTyped ==
    /\ markdown \in KeptTexts /\ winAnsi \in KeptTexts
    /\ markdown.text \in Texts
    /\ winAnsiOf \in Nat /\ lastWinAnsiOf \in Nat /\ versions \in Nat
    /\ changed \in BOOLEAN /\ winAnsiChanged \in BOOLEAN
    /\ fonts \in {"none", "begun", "ascii", "winAnsi", "trueType"}
    /\ views \subseteq [kept : {"markdown", "winAnsi"}, version : Nat, text : ReadTexts]
    /\ markdown.base # 0 => markdown.old \in Texts

\* No version was given out twice, and the last change is the one from `base`.
Counted(kept) ==
    /\ kept.version <= versions
    /\ kept.base # 0 => kept.base < kept.version

Ordered ==
    /\ Counted(markdown) /\ Counted(winAnsi)
    /\ winAnsiOf <= versions /\ lastWinAnsiOf <= versions
    /\ \A v \in views : v.version # 0 /\ v.version <= versions
    /\ winAnsiOf # 0 => winAnsi.version # 0
    /\ fonts # "none" => markdown.version # 0
    /\ fonts = "winAnsi" => winAnsi.version # 0

\* What a build that fails would put back is right.
Restorable ==
    /\ fonts \in {"none", "begun"} => ~winAnsiChanged
    /\ fonts = "none" => ~changed
    /\ winAnsiChanged /\ lastWinAnsiOf # 0 =>
         /\ winAnsi.base # 0
         /\ lastWinAnsiOf = markdown.base
         /\ winAnsi.old = WinAnsi(markdown.old)

TextsInv == TextsTyped /\ Ordered /\ Restorable /\ VersionNamesText

LEMMA InitInv == TextInit /\ views = {} => TextsInv
<1> SUFFICES ASSUME TextInit, views = {} PROVE TextsInv
  OBVIOUS
<1>1. PICK t \in Texts :
        /\ markdown = [text |-> t, version |-> 0, base |-> 0, old |-> t]
        /\ winAnsi = [text |-> t, version |-> 0, base |-> 0, old |-> t]
  BY DEF TextInit, NoKeptText
<1>2. /\ winAnsiOf = 0 /\ lastWinAnsiOf = 0 /\ versions = 0 /\ fonts = "none"
      /\ changed = FALSE /\ winAnsiChanged = FALSE
  BY DEF TextInit
<1>3. markdown \in KeptTexts /\ winAnsi \in KeptTexts
  BY <1>1 DEF KeptTexts, ReadTexts
<1>4. TextsTyped
  BY <1>1, <1>2, <1>3 DEF TextsTyped
<1>5. Ordered
  BY <1>1, <1>2 DEF Ordered, Counted
<1>6. Restorable
  BY <1>2 DEF Restorable
<1>7. VersionNamesText
  BY <1>2 DEF VersionNamesText
<1> QED
  BY <1>4, <1>5, <1>6, <1>7 DEF TextsInv

(* What the steps need of the invariant: the numbers of both texts, and    *)
(* that what a record remembers has a version given out.                   *)
LEMMA Numbers ==
    ASSUME TextsInv
    PROVE  /\ markdown \in KeptTexts /\ winAnsi \in KeptTexts /\ versions \in Nat
           /\ winAnsiOf \in Nat /\ lastWinAnsiOf \in Nat /\ markdown.text \in Texts
           /\ markdown.version \in Nat /\ markdown.base \in Nat /\ markdown.version <= versions
           /\ winAnsi.version \in Nat /\ winAnsi.base \in Nat /\ winAnsi.version <= versions
           /\ markdown.base # 0 => markdown.base < markdown.version
           /\ winAnsi.base # 0 => winAnsi.base < winAnsi.version
           /\ winAnsiOf <= versions /\ lastWinAnsiOf <= versions
           /\ \A v \in views : /\ v.version \in Nat /\ v.kept \in {"markdown", "winAnsi"}
                               /\ v.version # 0 /\ v.version <= versions
<1>1. markdown \in KeptTexts /\ winAnsi \in KeptTexts
  BY DEF TextsInv, TextsTyped
<1> QED
  BY <1>1 DEF KeptTexts, TextsInv, TextsTyped, Ordered, Counted

LEMMA SameNames ==
    ASSUME VersionNamesText, views' \in SUBSET views,
           markdown' = markdown, winAnsi' = winAnsi, winAnsiOf' = winAnsiOf
    PROVE  VersionNamesText'
<1>1. \A v \in views' : v \in views
  OBVIOUS
<1> QED
  BY <1>1 DEF VersionNamesText, KeptTextOf

LEMMA BeginInv == TextsInv /\ BeginAny /\ views' \in SUBSET views => TextsInv'
<1> SUFFICES ASSUME TextsInv, BeginAny, views' \in SUBSET views PROVE TextsInv'
  OBVIOUS
<1>0. /\ winAnsi' = winAnsi /\ winAnsiOf' = winAnsiOf /\ lastWinAnsiOf' = lastWinAnsiOf
      /\ fonts = "none" /\ fonts' = "begun" /\ winAnsiChanged' = FALSE
      /\ markdown'.text \in Texts
  BY DEF BeginAny, BeginText
<1>n. /\ markdown \in KeptTexts /\ winAnsi \in KeptTexts /\ versions \in Nat
      /\ markdown.version \in Nat /\ markdown.base \in Nat /\ markdown.version <= versions
      /\ winAnsi.version \in Nat /\ winAnsi.base \in Nat /\ winAnsi.version <= versions
      /\ winAnsi.base # 0 => winAnsi.base < winAnsi.version
      /\ winAnsiOf \in Nat /\ winAnsiOf <= versions
      /\ lastWinAnsiOf \in Nat /\ lastWinAnsiOf <= versions /\ markdown.text \in Texts
  BY Numbers
<1>d. markdown'.text \in ReadTexts /\ versions + 1 \in Nat
  BY <1>0, <1>n DEF ReadTexts
<1>v. ASSUME NEW v \in views'
      PROVE  /\ v \in views /\ v.version \in Nat /\ v.kept \in {"markdown", "winAnsi"}
             /\ v.version # 0 /\ v.version <= versions
  BY <1>v, Numbers
<1>t. ASSUME markdown' \in KeptTexts, changed' \in BOOLEAN, versions' \in Nat,
             markdown'.base # 0 => markdown'.old \in Texts
      PROVE  TextsTyped'
  BY <1>0, <1>n, <1>t DEF TextsInv, TextsTyped
<1>o. ASSUME versions' \in Nat, versions <= versions', Counted(markdown)', markdown'.version # 0
      PROVE  Ordered'
  <2>1. Counted(winAnsi)'
    BY <1>0, <1>n, <1>o DEF Counted
  <2>2. winAnsiOf' <= versions' /\ lastWinAnsiOf' <= versions'
    BY <1>0, <1>n, <1>o
  <2>3. \A v \in views' : v.version # 0 /\ v.version <= versions'
    BY <1>v, <1>n, <1>o
  <2> QED
    BY <1>0, <1>o, <2>1, <2>2, <2>3 DEF Ordered, TextsInv
<1>r. Restorable'
  BY <1>0 DEF Restorable
<1>1. CASE markdown.version # 0 /\ markdown'.text # markdown.text
  <2>1. /\ markdown' = [text |-> markdown'.text, version |-> versions + 1, base |-> markdown.version,
                        old |-> markdown.text]
        /\ versions' = versions + 1 /\ changed' = TRUE
    BY <1>1 DEF BeginAny, BeginText, Change
  <2>2. /\ markdown'.version = versions + 1 /\ markdown'.base = markdown.version
        /\ markdown'.old = markdown.text /\ markdown' \in KeptTexts
    BY <1>d, <1>n, <2>1 DEF KeptTexts
  <2>3. versions' \in Nat /\ versions <= versions'
    BY <1>n, <2>1
  <2>4. Counted(markdown)' /\ markdown'.version # 0
    BY <1>1, <1>n, <2>1, <2>2 DEF Counted
  <2>5. VersionNamesText'
    BY <1>0, <1>1, <1>v, <1>n, <2>1, <2>2 DEF TextsInv, VersionNamesText, KeptTextOf
  <2> QED
    BY <1>n, <1>t, <1>o, <1>r, <2>1, <2>2, <2>3, <2>4, <2>5 DEF TextsInv
<1>2. CASE markdown.version = 0
  <2>1. /\ markdown' = [text |-> markdown'.text, version |-> versions + 1, base |-> 0, old |-> markdown.old]
        /\ versions' = versions + 1 /\ changed' = TRUE
    BY <1>2 DEF BeginAny, BeginText, Set
  <2>2. /\ markdown'.version = versions + 1 /\ markdown'.base = 0
        /\ markdown'.old = markdown.old /\ markdown' \in KeptTexts
    BY <1>d, <1>n, <2>1 DEF KeptTexts
  <2>3. versions' \in Nat /\ versions <= versions'
    BY <1>n, <2>1
  <2>4. Counted(markdown)' /\ markdown'.version # 0
    BY <1>n, <2>1, <2>2 DEF Counted
  <2>5. VersionNamesText'
    BY <1>0, <1>v, <1>n, <2>1, <2>2 DEF TextsInv, VersionNamesText, KeptTextOf
  <2> QED
    BY <1>n, <1>t, <1>o, <1>r, <2>1, <2>2, <2>3, <2>4, <2>5 DEF TextsInv
<1>3. CASE markdown.version # 0 /\ markdown'.text = markdown.text
  <2>1. markdown' = markdown /\ versions' = versions /\ changed' = FALSE
    BY <1>3 DEF BeginAny, BeginText
  <2>2. TextsTyped'
    BY <1>n, <1>t, <2>1 DEF TextsInv, TextsTyped
  <2>3. Ordered'
    BY <1>n, <1>o, <1>3, <2>1 DEF TextsInv, Ordered, Counted
  <2>4. VersionNamesText'
    BY <1>0, <2>1, SameNames DEF TextsInv
  <2> QED
    BY <1>r, <2>2, <2>3, <2>4 DEF TextsInv
<1> QED
  BY <1>1, <1>2, <1>3

(* The choice of the fonts: the WinAnsi text is left as it is, or changed  *)
(* with the markdown, or changed and put back, or transcoded whole.        *)
LEMMA ChooseInv == ASSUME TextsInv, NEW given \in BOOLEAN, ChooseFonts(given), views' = views PROVE TextsInv'
<1>0. /\ markdown' = markdown /\ changed' = changed /\ fonts = "begun"
      /\ winAnsiChanged = FALSE /\ markdown.version # 0
  BY DEF ChooseFonts, TextsInv, Restorable, Ordered
<1>n. /\ markdown \in KeptTexts /\ winAnsi \in KeptTexts /\ versions \in Nat
      /\ markdown.version \in Nat /\ markdown.base \in Nat /\ markdown.version <= versions
      /\ winAnsi.version \in Nat /\ winAnsi.base \in Nat /\ winAnsi.version <= versions
      /\ markdown.base # 0 => markdown.base < markdown.version
      /\ winAnsi.base # 0 => winAnsi.base < winAnsi.version
      /\ winAnsiOf \in Nat /\ winAnsiOf <= versions
      /\ lastWinAnsiOf \in Nat /\ lastWinAnsiOf <= versions /\ markdown.text \in Texts
      /\ \A v \in views : /\ v.version \in Nat /\ v.kept \in {"markdown", "winAnsi"}
                          /\ v.version # 0 /\ v.version <= versions
  BY Numbers
<1>w. /\ WinAnsi(markdown.text) \in ReadTexts /\ markdown.text \in ReadTexts
      /\ versions + 1 \in Nat /\ versions + 2 \in Nat
  BY <1>n DEF ReadTexts
<1>t. ASSUME winAnsi' \in KeptTexts, winAnsiChanged' \in BOOLEAN, versions' \in Nat,
             winAnsiOf' \in Nat, lastWinAnsiOf' \in Nat, fonts' \in {"ascii", "winAnsi", "trueType"}
      PROVE  TextsTyped'
  BY <1>0, <1>n, <1>t DEF TextsInv, TextsTyped
<1>o. ASSUME versions' \in Nat, versions <= versions', Counted(winAnsi)', winAnsiOf' <= versions',
             lastWinAnsiOf' <= versions', winAnsiOf' # 0 => winAnsi'.version # 0,
             fonts' = "winAnsi" => winAnsi'.version # 0
      PROVE  Ordered'
  <2>1. Counted(markdown)'
    BY <1>0, <1>n, <1>o DEF Counted
  <2>2. \A v \in views' : v.version # 0 /\ v.version <= versions'
    BY <1>n, <1>o
  <2> QED
    BY <1>0, <1>o, <2>1, <2>2 DEF Ordered
<1>1. ASSUME NEW chosen \in {"ascii", "winAnsi", "trueType"}, KeepsWinAnsi(chosen),
             chosen = "winAnsi" => winAnsiOf = markdown.version
      PROVE  TextsInv'
  <2>1. /\ winAnsi' = winAnsi /\ winAnsiOf' = winAnsiOf /\ versions' = versions
        /\ winAnsiChanged' = FALSE /\ lastWinAnsiOf' = lastWinAnsiOf /\ fonts' = chosen
    BY <1>0, <1>1 DEF KeepsWinAnsi
  <2>2. TextsTyped'
    BY <1>1, <1>n, <1>t, <2>1
  <2>3. winAnsiOf # 0 => winAnsi.version # 0
    BY DEF TextsInv, Ordered
  <2>4. Ordered'
    BY <1>0, <1>1, <1>n, <1>o, <2>1, <2>3 DEF TextsInv, Ordered, Counted
  <2>5. Restorable'
    BY <1>1, <2>1 DEF Restorable
  <2>6. VersionNamesText'
    BY <1>0, <2>1, SameNames DEF TextsInv
  <2> QED
    BY <2>2, <2>4, <2>5, <2>6 DEF TextsInv
<1>2. CASE /\ Fits(markdown.text) /\ winAnsiOf # 0 /\ winAnsiOf = markdown.base /\ TranscodeChange
  <2>1. winAnsi.text = WinAnsi(markdown.old) /\ winAnsi.version # 0
    BY <1>2 DEF TextsInv, Ordered, VersionNamesText
  <2>2. /\ winAnsi' = [text |-> WinAnsi(markdown.text), version |-> versions + 1,
                       base |-> winAnsi.version, old |-> winAnsi.text]
        /\ versions' = versions + 1 /\ winAnsiChanged' = TRUE /\ lastWinAnsiOf' = winAnsiOf
        /\ winAnsiOf' = markdown.version /\ fonts' = "winAnsi"
    BY <1>2, <2>1 DEF TranscodeChange, Patched, Change
  <2>3. /\ winAnsi'.text = WinAnsi(markdown.text) /\ winAnsi'.version = versions + 1
        /\ winAnsi'.base = winAnsi.version /\ winAnsi'.old = winAnsi.text
        /\ winAnsi' \in KeptTexts
    BY <1>n, <1>w, <2>2 DEF KeptTexts
  <2>4. versions' \in Nat /\ versions <= versions'
    BY <1>n, <2>2
  <2>5. TextsTyped'
    BY <1>n, <1>t, <2>2, <2>3, <2>4
  <2>6. Counted(winAnsi)' /\ winAnsi'.version # 0
    BY <1>n, <2>1, <2>2, <2>3 DEF Counted
  <2>7. Ordered'
    BY <1>n, <1>o, <2>2, <2>4, <2>6
  <2>8. Restorable'
    BY <1>0, <1>2, <2>1, <2>2, <2>3 DEF Restorable
  <2>9. VersionNamesText'
    BY <1>0, <1>n, <2>2, <2>3 DEF TextsInv, VersionNamesText, KeptTextOf
  <2> QED
    BY <2>5, <2>7, <2>8, <2>9 DEF TextsInv
<1>3. CASE ~Fits(markdown.text) /\ winAnsiOf # 0 /\ TranscodeChange
  <2>1. /\ winAnsiChanged' = FALSE /\ winAnsiOf' = winAnsiOf /\ fonts' = "trueType"
        /\ lastWinAnsiOf' = winAnsiOf \/ lastWinAnsiOf' = lastWinAnsiOf
        /\ versions' = versions \/ versions' = versions + 2
    BY <1>0, <1>3 DEF TranscodeChange
  <2>2. /\ versions' \in Nat /\ versions <= versions'
        /\ lastWinAnsiOf' \in Nat /\ lastWinAnsiOf' <= versions' /\ winAnsiOf' <= versions'
    BY <1>n, <2>1
  <2>3. winAnsi.version # 0
    BY <1>3 DEF TextsInv, Ordered
  <2>4. /\ winAnsi'.text = winAnsi.text /\ winAnsi'.version = winAnsi.version
        /\ winAnsi' = winAnsi \/ winAnsi'.base = 0
        /\ winAnsi' \in KeptTexts
    <3>1. CASE winAnsi' = winAnsi
      BY <1>n, <3>1
    <3>2. CASE winAnsi' = UndoChange(Change(winAnsi, markdown.text, versions + 1), versions + 2)
      <4>1. winAnsi' = [text |-> winAnsi.text, version |-> winAnsi.version, base |-> 0,
                        old |-> winAnsi.text]
        BY <2>3, <3>2 DEF UndoChange, Change
      <4> QED
        BY <1>n, <4>1 DEF KeptTexts
    <3> QED
      BY <1>3, <3>1, <3>2 DEF TranscodeChange
  <2>5. TextsTyped'
    BY <1>n, <1>t, <2>1, <2>2, <2>4
  <2>6. Counted(winAnsi)'
    BY <1>n, <2>2, <2>4 DEF Counted
  <2>7. Ordered'
    BY <1>o, <2>1, <2>2, <2>3, <2>4, <2>6
  <2>8. Restorable'
    BY <2>1 DEF Restorable
  <2>9. VersionNamesText'
    <3>1. CASE winAnsi' = winAnsi
      BY <1>0, <2>1, <3>1, SameNames DEF TextsInv
    <3>2. CASE winAnsi'.base = 0
      BY <1>0, <1>n, <2>1, <2>4, <3>2 DEF TextsInv, VersionNamesText, KeptTextOf
    <3> QED
      BY <2>4, <3>1, <3>2
  <2> QED
    BY <2>5, <2>7, <2>8, <2>9 DEF TextsInv
<1>4. CASE Fits(markdown.text) /\ TranscodeWhole
  <2>1. /\ winAnsi' = [text |-> WinAnsi(markdown.text), version |-> versions + 1, base |-> 0,
                       old |-> winAnsi.old]
        /\ versions' = versions + 1 /\ winAnsiChanged' = TRUE /\ lastWinAnsiOf' = 0
        /\ winAnsiOf' = markdown.version /\ fonts' = "winAnsi"
    BY <1>4 DEF TranscodeWhole, Set
  <2>2. /\ winAnsi'.text = WinAnsi(markdown.text) /\ winAnsi'.version = versions + 1
        /\ winAnsi'.base = 0 /\ winAnsi' \in KeptTexts
    BY <1>n, <1>w, <2>1 DEF KeptTexts
  <2>3. /\ versions' \in Nat /\ versions <= versions' /\ lastWinAnsiOf' \in Nat
        /\ winAnsiOf' <= versions' /\ lastWinAnsiOf' <= versions' /\ winAnsi'.version # 0
    BY <1>n, <2>1, <2>2
  <2>4. TextsTyped'
    BY <1>n, <1>t, <2>1, <2>2, <2>3
  <2>5. Counted(winAnsi)'
    BY <1>n, <2>1, <2>2 DEF Counted
  <2>6. Ordered'
    BY <1>o, <2>3, <2>5
  <2>7. Restorable'
    BY <2>1 DEF Restorable
  <2>8. VersionNamesText'
    BY <1>0, <1>n, <2>1, <2>2 DEF TextsInv, VersionNamesText, KeptTextOf
  <2> QED
    BY <2>4, <2>6, <2>7, <2>8 DEF TextsInv
<1>5. CASE ~Fits(markdown.text) /\ TranscodeWhole
  <2>1. /\ winAnsi' = winAnsi /\ winAnsiOf' = winAnsiOf /\ versions' = versions
        /\ winAnsiChanged' = FALSE /\ lastWinAnsiOf' = 0 /\ fonts' = "trueType"
    BY <1>0, <1>5 DEF TranscodeWhole
  <2>2. TextsTyped'
    BY <1>n, <1>t, <2>1
  <2>3. winAnsiOf # 0 => winAnsi.version # 0
    BY DEF TextsInv, Ordered
  <2>4. Ordered'
    BY <1>n, <1>o, <2>1, <2>3 DEF Counted
  <2>5. Restorable'
    BY <2>1 DEF Restorable
  <2>6. VersionNamesText'
    BY <1>0, <2>1, SameNames DEF TextsInv
  <2> QED
    BY <2>2, <2>4, <2>5, <2>6 DEF TextsInv
<1>6. \/ \E chosen \in {"ascii", "winAnsi", "trueType"} :
            KeepsWinAnsi(chosen) /\ (chosen = "winAnsi" => winAnsiOf = markdown.version)
      \/ winAnsiOf # 0 /\ winAnsiOf = markdown.base /\ TranscodeChange
      \/ TranscodeWhole
  BY DEF ChooseFonts
<1>7. CASE \E chosen \in {"ascii", "winAnsi", "trueType"} :
            KeepsWinAnsi(chosen) /\ (chosen = "winAnsi" => winAnsiOf = markdown.version)
  BY <1>1, <1>7
<1> QED
  BY <1>2, <1>3, <1>4, <1>5, <1>6, <1>7

LEMMA CommitInv == ASSUME TextsInv, CommitText, views' \in SUBSET views PROVE TextsInv'
<1>1. /\ markdown' = markdown /\ winAnsi' = winAnsi /\ winAnsiOf' = winAnsiOf
      /\ versions' = versions /\ lastWinAnsiOf' = lastWinAnsiOf
      /\ changed' = FALSE /\ winAnsiChanged' = FALSE /\ fonts' = "none"
  BY DEF CommitText
<1>2. \A v \in views' : v \in views
  OBVIOUS
<1>3. TextsTyped'
  BY <1>1, <1>2 DEF TextsInv, TextsTyped
<1>4. Ordered'
  BY <1>1, <1>2 DEF TextsInv, Ordered, Counted
<1>5. Restorable'
  BY <1>1 DEF Restorable
<1>6. VersionNamesText'
  BY <1>1, SameNames DEF TextsInv
<1> QED
  BY <1>3, <1>4, <1>5, <1>6 DEF TextsInv

LEMMA ReadInv == ASSUME TextsInv, ReadText PROVE TextsInv'
<1>1. /\ markdown' = markdown /\ winAnsi' = winAnsi /\ winAnsiOf' = winAnsiOf
      /\ versions' = versions /\ lastWinAnsiOf' = lastWinAnsiOf
      /\ changed' = changed /\ winAnsiChanged' = winAnsiChanged /\ fonts' = fonts
      /\ fonts # "none"
  BY DEF ReadText, textVars
<1>2. /\ markdown.text \in ReadTexts /\ markdown.version \in Nat /\ markdown.version # 0
      /\ markdown.version <= versions /\ markdown.base # markdown.version
      /\ winAnsi.text \in ReadTexts /\ winAnsi.version \in Nat /\ winAnsi.version <= versions
      /\ winAnsi.version # 0 => winAnsi.base # winAnsi.version
  <2>1. markdown.text \in ReadTexts /\ winAnsi.text \in ReadTexts
    BY Numbers DEF KeptTexts
  <2>2. markdown.version # 0
    BY <1>1 DEF TextsInv, Ordered
  <2> QED
    BY <2>1, <2>2, Numbers
<1>3. ASSUME NEW v \in views'
      PROVE  \/ v \in views
             \/ v = [kept |-> "markdown", version |-> markdown.version, text |-> markdown.text]
             \/ /\ fonts = "winAnsi" /\ winAnsi.version # 0
                /\ v = [kept |-> "winAnsi", version |-> winAnsi.version, text |-> winAnsi.text]
  BY <1>3 DEF ReadText, View, TextsInv, Ordered
<1>4. TextsTyped'
  <2>1. \A v \in views' : v \in [kept : {"markdown", "winAnsi"}, version : Nat, text : ReadTexts]
    BY <1>2, <1>3 DEF TextsInv, TextsTyped
  <2> QED
    BY <1>1, <2>1 DEF TextsInv, TextsTyped
<1>5. Ordered'
  <2>1. \A v \in views' : v.version # 0 /\ v.version <= versions
    BY <1>2, <1>3 DEF TextsInv, Ordered
  <2> QED
    BY <1>1, <2>1 DEF TextsInv, Ordered, Counted
<1>6. Restorable'
  BY <1>1 DEF TextsInv, Restorable
<1>7. VersionNamesText'
  <2>1. ASSUME NEW v \in views'
        PROVE  /\ v.version = KeptTextOf(v.kept).version => v.text = KeptTextOf(v.kept).text
               /\ v.version = KeptTextOf(v.kept).base => v.text = KeptTextOf(v.kept).old
    BY <1>2, <1>3, <2>1 DEF TextsInv, VersionNamesText, KeptTextOf
  <2> QED
    BY <1>1, <2>1 DEF TextsInv, VersionNamesText, KeptTextOf
<1> QED
  BY <1>4, <1>5, <1>6, <1>7 DEF TextsInv

LEMMA ClearInv == ASSUME TextsInv, ClearText, views' = {} PROVE TextsInv'
<1>1. /\ markdown' = [text |-> markdown.text, version |-> 0, base |-> 0, old |-> markdown.text]
      /\ winAnsi' = [text |-> winAnsi.text, version |-> 0, base |-> 0, old |-> winAnsi.text]
      /\ winAnsiOf' = 0 /\ versions' = 0 /\ lastWinAnsiOf' = 0
      /\ changed' = changed /\ winAnsiChanged' = winAnsiChanged /\ fonts' = "none" /\ fonts = "none"
  BY DEF ClearText, NoKeptText
<1>2. /\ markdown.text \in Texts /\ markdown.text \in ReadTexts /\ winAnsi.text \in ReadTexts
  BY Numbers DEF KeptTexts
<1>3. markdown' \in KeptTexts /\ winAnsi' \in KeptTexts
  BY <1>1, <1>2 DEF KeptTexts
<1>4. /\ markdown'.text = markdown.text /\ markdown'.version = 0 /\ markdown'.base = 0
      /\ winAnsi'.version = 0 /\ winAnsi'.base = 0
  BY <1>1
<1>5. TextsTyped'
  BY <1>1, <1>2, <1>3, <1>4 DEF TextsInv, TextsTyped
<1>6. Ordered'
  BY <1>1, <1>4 DEF Ordered, Counted
<1>7. Restorable'
  BY <1>1 DEF TextsInv, Restorable
<1>8. VersionNamesText'
  BY <1>1 DEF VersionNamesText
<1> QED
  BY <1>5, <1>6, <1>7, <1>8 DEF TextsInv

(* A failed build's texts as they were: a text put back has the version it *)
(* had, and one that was set whole a version of its own.                   *)
LEMMA UndoInv == ASSUME TextsInv, UndoText, views' \in SUBSET views PROVE TextsInv'
<1> DEFINE first == IF winAnsiChanged THEN versions + 1 ELSE versions
           fresh == IF changed /\ markdown.base = 0 THEN first + 1 ELSE first
<1>n. /\ markdown \in KeptTexts /\ winAnsi \in KeptTexts /\ versions \in Nat
      /\ markdown.version \in Nat /\ markdown.base \in Nat /\ markdown.version <= versions
      /\ winAnsi.version \in Nat /\ winAnsi.base \in Nat /\ winAnsi.version <= versions
      /\ markdown.base # 0 => markdown.base < markdown.version
      /\ winAnsi.base # 0 => winAnsi.base < winAnsi.version
      /\ winAnsiOf \in Nat /\ winAnsiOf <= versions
      /\ lastWinAnsiOf \in Nat /\ lastWinAnsiOf <= versions /\ markdown.text \in Texts
      /\ \A v \in views : /\ v.version \in Nat /\ v.kept \in {"markdown", "winAnsi"}
                          /\ v.version # 0 /\ v.version <= versions
  BY Numbers
<1>k. /\ markdown.text \in ReadTexts /\ markdown.old \in ReadTexts
      /\ winAnsi.text \in ReadTexts /\ winAnsi.old \in ReadTexts
  BY <1>n DEF KeptTexts
<1>v. \A v \in views' : v \in views
  OBVIOUS
<1>f. /\ first \in Nat /\ fresh \in Nat /\ versions <= first /\ first <= fresh
      /\ winAnsiChanged => versions < first
      /\ changed /\ markdown.base = 0 => versions < fresh
  BY <1>n
<1>0. /\ fonts # "none" /\ fonts' = "none" /\ changed' = FALSE /\ winAnsiChanged' = FALSE
      /\ lastWinAnsiOf' = lastWinAnsiOf /\ versions' = fresh
      /\ winAnsi' = UndoWinAnsi(first)
      /\ markdown' = IF changed THEN UndoChange(markdown, fresh) ELSE markdown
      /\ winAnsiOf' = IF changed /\ markdown.base = 0 THEN 0
                      ELSE IF winAnsiChanged THEN lastWinAnsiOf ELSE winAnsiOf
  BY DEF UndoText
<1> HIDE DEF first, fresh
\* The markdown: as it was, put back, or the same under another version.
<1>1. /\ markdown' \in KeptTexts /\ markdown'.text \in Texts
      /\ \/ ~changed /\ markdown' = markdown
         \/ /\ changed /\ markdown.base # 0 /\ markdown'.base = 0
            /\ markdown'.text = markdown.old /\ markdown'.version = markdown.base
         \/ /\ changed /\ markdown.base = 0 /\ markdown'.base = 0
            /\ markdown'.text = markdown.text /\ markdown'.version = fresh
  <2>1. CASE ~changed
    BY <1>0, <1>n, <2>1
  <2>2. CASE changed /\ markdown.base # 0
    <3>1. markdown' = [text |-> markdown.old, version |-> markdown.base, base |-> 0, old |-> markdown.old]
      BY <1>0, <2>2 DEF UndoChange
    <3>2. markdown.old \in Texts
      BY <2>2 DEF TextsInv, TextsTyped
    <3> QED
      BY <1>n, <1>k, <2>2, <3>1, <3>2 DEF KeptTexts
  <2>3. CASE changed /\ markdown.base = 0
    <3>1. markdown' = [text |-> markdown.text, version |-> fresh, base |-> 0, old |-> markdown.old]
      BY <1>0, <2>3 DEF UndoChange
    <3> QED
      BY <1>n, <1>f, <1>k, <2>3, <3>1 DEF KeptTexts
  <2> QED
    BY <2>1, <2>2, <2>3
\* And the WinAnsi text.
<1>2. /\ winAnsi' \in KeptTexts
      /\ \/ ~winAnsiChanged /\ winAnsi' = winAnsi
         \/ /\ winAnsiChanged /\ winAnsi.base # 0 /\ winAnsi'.base = 0
            /\ winAnsi'.text = winAnsi.old /\ winAnsi'.version = winAnsi.base
         \/ /\ winAnsiChanged /\ winAnsi.base = 0 /\ winAnsi'.base = 0
            /\ winAnsi'.text = winAnsi.text /\ winAnsi'.version = first
  <2>1. CASE ~winAnsiChanged
    BY <1>0, <1>n, <2>1 DEF UndoWinAnsi
  <2>2. CASE winAnsiChanged /\ winAnsi.base # 0
    <3>1. winAnsi' = [text |-> winAnsi.old, version |-> winAnsi.base, base |-> 0, old |-> winAnsi.old]
      BY <1>0, <2>2 DEF UndoWinAnsi, UndoChange
    <3> QED
      BY <1>n, <1>k, <2>2, <3>1 DEF KeptTexts
  <2>3. CASE winAnsiChanged /\ winAnsi.base = 0
    <3>1. winAnsi' = [text |-> winAnsi.text, version |-> first, base |-> 0, old |-> winAnsi.old]
      BY <1>0, <2>3 DEF UndoWinAnsi, UndoChange
    <3> QED
      BY <1>n, <1>f, <1>k, <2>3, <3>1 DEF KeptTexts
  <2> QED
    BY <2>1, <2>2, <2>3
<1>3. winAnsiOf' \in Nat /\ winAnsiOf' <= fresh
  BY <1>0, <1>n, <1>f
<1>4. TextsTyped'
  <2>1. markdown'.base # 0 => markdown'.old \in Texts
    BY <1>1 DEF TextsInv, TextsTyped
  <2>2. views' \subseteq [kept : {"markdown", "winAnsi"}, version : Nat, text : ReadTexts]
    BY <1>v DEF TextsInv, TextsTyped
  <2> QED
    BY <1>0, <1>1, <1>2, <1>3, <1>f, <1>n, <2>1, <2>2 DEF TextsTyped
<1>5. Ordered'
  <2>1. Counted(markdown)'
    BY <1>0, <1>1, <1>f, <1>n DEF Counted
  <2>2. Counted(winAnsi)'
    BY <1>0, <1>2, <1>f, <1>n DEF Counted
  <2>3. lastWinAnsiOf' <= versions' /\ winAnsiOf' <= versions'
    BY <1>0, <1>3, <1>f, <1>n
  <2>4. \A v \in views' : v.version # 0 /\ v.version <= versions'
    BY <1>0, <1>f, <1>n, <1>v
  <2>5. winAnsiOf' # 0 => winAnsi'.version # 0
    <3>1. CASE winAnsiChanged /\ winAnsi.base = 0
      BY <1>2, <1>f, <1>n, <3>1
    <3>2. CASE winAnsiChanged /\ winAnsi.base # 0
      BY <1>2, <3>2
    <3>3. CASE ~winAnsiChanged
      BY <1>0, <1>2, <3>3 DEF TextsInv, Ordered
    <3> QED
      BY <3>1, <3>2, <3>3
  <2> QED
    BY <1>0, <2>1, <2>2, <2>3, <2>4, <2>5 DEF Ordered
<1>6. Restorable'
  BY <1>0 DEF Restorable
<1>7. VersionNamesText'
  <2>1. ASSUME NEW v \in views'
        PROVE  /\ v.version = KeptTextOf(v.kept)'.version => v.text = KeptTextOf(v.kept)'.text
               /\ v.version = KeptTextOf(v.kept)'.base => v.text = KeptTextOf(v.kept)'.old
    <3>1. v \in views /\ v.version # 0 /\ v.version <= versions /\ v.version \in Nat
      BY <1>n, <1>v, <2>1
    <3>2. CASE v.kept = "markdown"
      <4>1. /\ v.version = markdown.version => v.text = markdown.text
            /\ v.version = markdown.base => v.text = markdown.old
        BY <3>1, <3>2 DEF TextsInv, VersionNamesText, KeptTextOf
      <4>2. /\ v.version = markdown'.version => v.text = markdown'.text
            /\ v.version = markdown'.base => v.text = markdown'.old
        <5>1. CASE markdown' = markdown
          BY <4>1, <5>1
        <5>2. CASE markdown'.base = 0 /\ markdown'.text = markdown.old /\ markdown'.version = markdown.base
          BY <3>1, <4>1, <5>2
        <5>3. CASE markdown'.base = 0 /\ markdown'.version = fresh /\ versions < fresh
          BY <1>f, <1>n, <3>1, <5>3
        <5> QED
          BY <1>1, <1>f, <5>1, <5>2, <5>3
      <4> QED
        BY <3>2, <4>2 DEF KeptTextOf
    <3>3. CASE v.kept # "markdown"
      <4>1. /\ v.version = winAnsi.version => v.text = winAnsi.text
            /\ v.version = winAnsi.base => v.text = winAnsi.old
        BY <3>1, <3>3 DEF TextsInv, VersionNamesText, KeptTextOf
      <4>2. /\ v.version = winAnsi'.version => v.text = winAnsi'.text
            /\ v.version = winAnsi'.base => v.text = winAnsi'.old
        <5>1. CASE winAnsi' = winAnsi
          BY <4>1, <5>1
        <5>2. CASE winAnsi'.base = 0 /\ winAnsi'.text = winAnsi.old /\ winAnsi'.version = winAnsi.base
          BY <3>1, <4>1, <5>2
        <5>3. CASE winAnsi'.base = 0 /\ winAnsi'.version = first /\ versions < first
          BY <1>f, <1>n, <3>1, <5>3
        <5> QED
          BY <1>2, <1>f, <5>1, <5>2, <5>3
      <4> QED
        BY <3>3, <4>2 DEF KeptTextOf
    <3> QED
      BY <3>2, <3>3
  <2>2. ASSUME winAnsiOf' # 0
        PROVE  /\ winAnsiOf' = markdown'.version => winAnsi'.text = WinAnsi(markdown'.text)
               /\ winAnsiOf' = markdown'.base => winAnsi'.text = WinAnsi(markdown'.old)
    <3>1. ~(changed /\ markdown.base = 0)
      BY <1>0, <2>2
    <3>2. CASE winAnsiChanged
      <4>1. winAnsiOf' = lastWinAnsiOf /\ lastWinAnsiOf # 0
        BY <1>0, <2>2, <3>1, <3>2
      <4>2. winAnsi.base # 0 /\ lastWinAnsiOf = markdown.base /\ winAnsi.old = WinAnsi(markdown.old)
        BY <3>2, <4>1 DEF TextsInv, Restorable
      <4>3. winAnsi'.text = WinAnsi(markdown.old)
        BY <1>2, <3>2, <4>2
      <4>4. CASE changed
        BY <1>1, <3>1, <4>1, <4>2, <4>3, <4>4
      <4>5. CASE ~changed
        BY <1>1, <1>n, <4>1, <4>2, <4>3, <4>5
      <4> QED
        BY <4>4, <4>5
    <3>3. CASE ~winAnsiChanged
      <4>1. winAnsiOf' = winAnsiOf /\ winAnsi' = winAnsi
        BY <1>0, <1>2, <3>1, <3>3
      <4>2. /\ winAnsiOf = markdown.version => winAnsi.text = WinAnsi(markdown.text)
            /\ winAnsiOf = markdown.base => winAnsi.text = WinAnsi(markdown.old)
        BY <2>2, <4>1 DEF TextsInv, VersionNamesText
      <4> QED
        BY <1>1, <2>2, <3>1, <4>1, <4>2
    <3> QED
      BY <3>2, <3>3
  <2> QED
    BY <2>1, <2>2 DEF VersionNamesText
<1> QED
  BY <1>4, <1>5, <1>6, <1>7 DEF TextsInv

(* A version names one text, whatever the texts are and wherever builds    *)
(* fail: the session's records (ParseRecord) and its WinAnsi text may be   *)
(* taken by their versions.                                                *)
THEOREM VersionsName == TextSpec => []VersionNamesText
<1>1. TextInit /\ views = {} => TextsInv
  BY InitInv
<1>2. TextsInv /\ [TextNext]_<<textVars, views>> => TextsInv'
  <2> SUFFICES ASSUME TextsInv, [TextNext]_<<textVars, views>> PROVE TextsInv'
    OBVIOUS
  <2>1. CASE (BeginAny \/ CommitText \/ UndoText) /\ views' \in SUBSET views
    BY <2>1, BeginInv, CommitInv, UndoInv
  <2>2. CASE \E given \in BOOLEAN : ChooseFonts(given) /\ UNCHANGED views
    BY <2>2, ChooseInv
  <2>3. CASE ReadText
    BY <2>3, ReadInv
  <2>4. CASE ClearText /\ views' = {}
    BY <2>4, ClearInv
  <2>5. CASE UNCHANGED <<textVars, views>>
    <3>1. /\ markdown' = markdown /\ winAnsi' = winAnsi /\ winAnsiOf' = winAnsiOf
          /\ versions' = versions /\ lastWinAnsiOf' = lastWinAnsiOf /\ views' = views
          /\ changed' = changed /\ winAnsiChanged' = winAnsiChanged /\ fonts' = fonts
      BY <2>5 DEF textVars
    <3> QED
      BY <3>1, SameNames DEF TextsInv, TextsTyped, Ordered, Counted, Restorable
  <2> QED
    BY <2>1, <2>2, <2>3, <2>4, <2>5 DEF TextNext
<1>3. TextsInv => VersionNamesText
  BY DEF TextsInv
<1> QED
  BY <1>1, <1>2, <1>3, PTL DEF TextSpec

-----------------------------------------------------------------------------
(***************************************************************************)
(* The layout of a build session.  First a block alone: the heights of its *)
(* lines, and what changes when it begins at the same height of another    *)
(* page.                                                                   *)
(***************************************************************************)
LEMMA LeastIs ==
    ASSUME NEW T, T \subseteq Int, NEW x \in T, \A y \in T : x <= y
    PROVE  Min(T) = x
<1>1. \A z \in T : (\A y \in T : z <= y) => z = x
  <2> TAKE z \in T
  <2> HAVE \A y \in T : z <= y
  <2>1. z <= x /\ x <= z
    OBVIOUS
  <2> QED
    BY <2>1
<1>2. Min(T) \in T /\ \A y \in T : Min(T) <= y
  BY DEF Min
<1> QED
  BY <1>1, <1>2

LEMMA LeastType ==
    ASSUME NEW T, T \subseteq Nat, T # {}
    PROVE  Min(T) \in T /\ \A y \in T : Min(T) <= y
<1>1. PICK x \in T : \A y \in T : x <= y
  BY LeastNatural
<1> QED
  BY <1>1 DEF Min

LEMMA GreatestType ==
    ASSUME NEW N \in Nat, NEW T, T \subseteq 0 .. N, T # {}
    PROVE  Max(T) \in T /\ \A y \in T : y <= Max(T)
<1> DEFINE below == {N - y : y \in T}
<1>1. below \subseteq Nat /\ below # {}
  <2>1. \A y \in T : N - y \in Nat
    <3> TAKE y \in T
    <3>1. y \in 0 .. N
      OBVIOUS
    <3> QED
      BY <3>1
  <2> QED
    BY <2>1
<1>2. PICK m \in below : \A y \in below : m <= y
  <2> HIDE DEF below
  <2> QED
    BY <1>1, LeastNatural
<1>3. PICK x \in T : m = N - x
  OBVIOUS
<1>4. \A y \in T : y <= x
  <2> TAKE y \in T
  <2>1. N - y \in below
    OBVIOUS
  <2>2. N - x <= N - y
    BY <1>2, <1>3, <2>1
  <2>3. x \in 0 .. N /\ y \in 0 .. N
    OBVIOUS
  <2> QED
    BY <2>2, <2>3
<1> QED
  BY <1>3, <1>4 DEF Max

Places == [page : Int, y : Int, contents : BOOLEAN]
Turned(spot, pages) == [spot EXCEPT !.page = @ + pages]

LEMMA PlacedType ==
    ASSUME NEW spot \in Places, NEW room \in Int
    PROVE  /\ Ensure(spot, room) \in Places /\ Drawn(spot) \in Places /\ Ensure(spot, room).contents = spot.contents
           /\ Drawn(Ensure(spot, room)) \in Places
           /\ Drawn(Ensure(spot, room)).contents = spot.contents
<1>1. PageH \in Nat
  BY PageHAssumption
<1>2. Ensure(spot, room) \in Places /\ Ensure(spot, room).contents = spot.contents
  <2>1. PageAfter(spot) \in Places /\ PageAfter(spot).contents = spot.contents
    BY DEF PageAfter, Places
  <2> QED
    BY <2>1 DEF Ensure
<1> QED
  BY <1>2 DEF Drawn, Places

LEMMA PlacedTurned ==
    ASSUME NEW spot \in Places, NEW room \in Int, NEW pages \in Int
    PROVE  /\ Turned(spot, pages) \in Places
           /\ Ensure(Turned(spot, pages), room) = Turned(Ensure(spot, room), pages)
           /\ Drawn(Turned(spot, pages)) = Turned(Drawn(spot), pages)
<1>1. PageH \in Nat
  BY PageHAssumption
<1>2. Turned(spot, pages) \in Places
  BY DEF Turned, Places
<1>3. Ensure(Turned(spot, pages), room) = Turned(Ensure(spot, room), pages)
  <2>1. Turned(spot, pages).y = spot.y
    BY DEF Turned, Places
  <2>2. CASE spot.y + room > PageH
    <3>1. Ensure(spot, room) = PageAfter(spot)
      BY <2>2 DEF Ensure
    <3>2. Ensure(Turned(spot, pages), room) = PageAfter(Turned(spot, pages))
      BY <2>1, <2>2 DEF Ensure
    <3>3. PageAfter(Turned(spot, pages)) = Turned(PageAfter(spot), pages)
      BY DEF Turned, PageAfter, Places
    <3> QED
      BY <3>1, <3>2, <3>3
  <2>3. CASE ~(spot.y + room > PageH)
    BY <2>1, <2>3 DEF Ensure, Turned, Places
  <2> QED
    BY <2>2, <2>3
<1>4. Drawn(Turned(spot, pages)) = Turned(Drawn(spot), pages)
  BY DEF Drawn, Turned, Places
<1> QED
  BY <1>2, <1>3, <1>4

\* The heights of the lines, one from the other.
LEMMA LineHeights ==
    ASSUME NEW start \in Places, NEW room \in Int, NEW count \in Nat
    PROVE  /\ LinesPlaced(start, room, count) \in [0 .. count -> Places]
           /\ LinesPlaced(start, room, count)[0] = start
           /\ \A n \in 1 .. count :
                LinesPlaced(start, room, count)[n] = Drawn(Ensure(LinesPlaced(start, room, count)[n - 1], room))
<1> DEFINE base == start
           Onto(spot) == Drawn(Ensure(spot, room))
           go == [n \in 1 .. count |-> [spot \in Places |-> Onto(spot)]]
           IsAt(f) == f = [n \in 0 .. count |-> IF n = 0 THEN start ELSE Onto(f[n - 1])]
<1>1. \A spot \in Places : Onto(spot) \in Places
  BY PlacedType
<1>2. PICK f : AreSteps(count, Places, base, go, f)
  <2>1. go \in [1 .. count -> [Places -> Places]]
    BY <1>1
  <2> HIDE DEF go
  <2> QED
    BY <2>1, StepsExist
<1>3. f \in [0 .. count -> Places] /\ f[0] = start /\ \A n \in 1 .. count : f[n] = Onto(f[n - 1])
  <2>1. f \in [0 .. count -> Places] /\ f[0] = start /\ \A n \in 1 .. count : f[n] = go[n][f[n - 1]]
    BY <1>2 DEF AreSteps
  <2>2. ASSUME NEW n \in 1 .. count PROVE f[n] = Onto(f[n - 1])
    <3>1. f[n - 1] \in Places
      BY <2>1
    <3>2. go[n][f[n - 1]] = Onto(f[n - 1])
      BY <3>1
    <3> QED
      BY <2>1, <3>2
  <2> QED
    BY <2>1, <2>2
<1>4. IsAt(f)
  <2> HIDE DEF Onto
  <2> QED
    BY <1>3
<1>5. LinesPlaced(start, room, count) = CHOOSE g : IsAt(g)
  BY DEF LinesPlaced
<1>6. IsAt(LinesPlaced(start, room, count))
  <2> HIDE DEF IsAt
  <2> QED
    BY <1>4, <1>5
<1>7. ASSUME NEW g, IsAt(g)
      PROVE  g \in [0 .. count -> Places] /\ g[0] = start /\ \A n \in 1 .. count : g[n] = Onto(g[n - 1])
  <2>1. g[0] = start /\ \A n \in 1 .. count : g[n] = Onto(g[n - 1])
    <3> HIDE DEF Onto
    <3> QED
      BY <1>7
  <2>2. DOMAIN g = 0 .. count /\ g = [n \in 0 .. count |-> g[n]]
    <3> HIDE DEF Onto
    <3> QED
      BY <1>7
  <2> DEFINE D == {n \in 0 .. count : g[n] \in Places}
  <2>3. 0 \in D
    BY <2>1
  <2>4. \A n \in 1 .. count : n - 1 \in D => n \in D
    <3> TAKE n \in 1 .. count
    <3> HAVE n - 1 \in D
    <3>1. g[n] = Onto(g[n - 1]) /\ g[n - 1] \in Places
      BY <2>1
    <3> QED
      BY <1>1, <3>1
  <2>5. 0 .. count \subseteq D
    <3> HIDE DEF D
    <3> QED
      BY <2>3, <2>4, StepByStep
  <2> QED
    BY <2>1, <2>2, <2>5
<1> QED
  BY <1>6, <1>7

LEMMA LinesTurned ==
    ASSUME NEW start \in Places, NEW room \in Int, NEW count \in Nat, NEW pages \in Int, NEW n \in 0 .. count
    PROVE  LinesPlaced(Turned(start, pages), room, count)[n] = Turned(LinesPlaced(start, room, count)[n], pages)
<1> DEFINE f == LinesPlaced(start, room, count)
           g == LinesPlaced(Turned(start, pages), room, count)
           D == {m \in 0 .. count : g[m] = Turned(f[m], pages)}
<1>1. f \in [0 .. count -> Places] /\ f[0] = start /\ \A m \in 1 .. count : f[m] = Drawn(Ensure(f[m - 1], room))
  BY LineHeights
<1>2. g[0] = Turned(start, pages) /\ \A m \in 1 .. count : g[m] = Drawn(Ensure(g[m - 1], room))
  BY LineHeights, PlacedTurned
<1> HIDE DEF f, g
<1>3. 0 \in D
  BY <1>1, <1>2
<1>4. \A m \in 1 .. count : m - 1 \in D => m \in D
  <2> TAKE m \in 1 .. count
  <2> HAVE m - 1 \in D
  <2>1. f[m - 1] \in Places /\ g[m - 1] = Turned(f[m - 1], pages)
    BY <1>1
  <2>2. Ensure(g[m - 1], room) = Turned(Ensure(f[m - 1], room), pages) /\ Ensure(f[m - 1], room) \in Places
    BY <2>1, PlacedTurned, PlacedType
  <2>3. Drawn(Turned(Ensure(f[m - 1], room), pages)) = Turned(Drawn(Ensure(f[m - 1], room)), pages)
    BY <2>2, PlacedTurned
  <2>4. g[m] = Turned(f[m], pages)
    BY <1>1, <1>2, <2>2, <2>3
  <2> QED
    BY <2>4
<1>5. 0 .. count \subseteq D
  <2> HIDE DEF D
  <2> QED
    BY <1>3, <1>4, StepByStep
<1>6. n \in D
  BY <1>5
<1> QED
  BY <1>6 DEF f, g

LEMMA TableLen ==
    ASSUME NEW N \in Nat, NEW f, DOMAIN f = 1 .. N, f = [n \in DOMAIN f |-> f[n]]
    PROVE  Len(f) = N
<1> DEFINE T == {f[n] : n \in 1 .. N}
<1>1. f \in [1 .. N -> T]
  OBVIOUS
<1>2. f \in Seq(T)
  BY <1>1, SeqDef
<1> QED
  BY <1>1, <1>2, LenProperties

LEMMA ShownType ==
    ASSUME NEW block \in Blocks, NEW contents \in Seq(Seq(STRING)), NEW spot
    PROVE  LET shown == LinesDrawn(block, contents, spot)
           IN  Len(shown) \in Nat /\ DOMAIN shown = 1 .. Len(shown) /\ (shown # <<>> => Len(shown) # 0)
<1> DEFINE shown == LinesDrawn(block, contents, spot)
<1>1. CASE block.type = "Contents"
  BY <1>1 DEF LinesDrawn
<1>2. CASE block.type = "Heading"
  BY <1>2 DEF LinesDrawn
<1>3. CASE block.type # "Contents" /\ block.type # "Heading"
  <2> DEFINE broken == {i \in DOMAIN block.text : block.text[i] \in {"nl", "sp"}}
             count == Breaks(block.text) + 1
  <2>1. block.text \in Seq(STRING)
    BY DEF Blocks
  <2>2. broken \subseteq 1 .. Len(block.text) /\ Len(block.text) \in Nat
    BY <2>1
  <2>3. IsFiniteSet(broken)
    BY <2>2, FS_Interval, FS_Subset
  <2>4. Cardinality(broken) \in Nat
    BY <2>3, FS_CardinalityType
  <2>5. count \in Nat
    BY <2>4 DEF Breaks
  <2> HIDE DEF count
  <2>6. shown = [n \in 1 .. count |-> <<block.type, block.text, block.align, n>>]
    BY <1>3 DEF LinesDrawn, count
  <2> HIDE DEF shown
  <2>7. DOMAIN shown = 1 .. count /\ shown = [n \in DOMAIN shown |-> shown[n]]
    BY <2>6
  <2>8. Len(shown) = count
    BY <2>5, <2>7, TableLen
  <2> QED
    BY <2>5, <2>7, <2>8 DEF shown
<1> QED
  BY <1>1, <1>2, <1>3

LEMMA KeepType ==
    ASSUME NEW blocks \in Seq(Blocks), NEW k \in 1 .. Len(blocks)
    PROVE  HeadingKeep(blocks, k) \in Int
<1> DEFINE T == {n \in k + 1 .. Len(blocks) : blocks[n].type # "Heading"} \cup {Len(blocks) + 1}
<1>1. T \subseteq Nat /\ T # {}
  OBVIOUS
<1>2. Min(T) \in Nat
  <2> HIDE DEF T
  <2> QED
    BY <1>1, LeastType
<1> DEFINE next == Min(T)
<1>3. HeadingKeep(blocks, k) = (next - k - 1) + (IF next <= Len(blocks) THEN KeepLines ELSE 0)
  BY DEF HeadingKeep
<1>4. next \in Nat
  BY <1>2
<1> HIDE DEF next
<1> QED
  BY <1>3, <1>4 DEF KeepLines

\* The room the lines of a block ask for, and what a block leaves.
RoomOf(blocks, k) == 1 + (IF blocks[k].type = "Heading" THEN HeadingKeep(blocks, k) ELSE 0)
EndOf(blocks, contents, k, start) ==
    LET shown == LinesDrawn(blocks[k], contents, start)
    IN  LinesPlaced(start, RoomOf(blocks, k), Len(shown))[Len(shown)]

LEMMA BlockIs ==
    ASSUME NEW blocks, NEW contents, NEW k, NEW start
    PROVE  LET shown == LinesDrawn(blocks[k], contents, start)
               room == RoomOf(blocks, k)
               spot == LinesPlaced(start, room, Len(shown))
               end == EndOf(blocks, contents, k, start)
           IN  RenderBlock(blocks, contents, k, start) =
                 [lines |-> [n \in DOMAIN shown |->
                      [page |-> Ensure(spot[n - 1], room).page, y |-> Ensure(spot[n - 1], room).y, shows |-> shown[n]]],
                  at |-> [end EXCEPT !.contents = @ \/ (blocks[k].type = "Contents" /\ contents # <<>>)],
                  map |-> [line |-> blocks[k].line, end |-> blocks[k].line + blocks[k].count,
                           page |-> IF shown = <<>> THEN start.page ELSE Ensure(spot[1 - 1], room).page,
                           endPage |-> end.page]]
BY DEF RenderBlock, RoomOf, EndOf

LEMMA BlockType ==
    ASSUME NEW blocks \in Seq(Blocks), NEW contents \in Seq(Seq(STRING)), NEW k \in 1 .. Len(blocks),
           NEW start \in Places
    PROVE  EndOf(blocks, contents, k, start) \in Places /\ RenderBlock(blocks, contents, k, start).at \in Places
<1> DEFINE shown == LinesDrawn(blocks[k], contents, start)
           room == RoomOf(blocks, k)
           end == EndOf(blocks, contents, k, start)
<1>1. Len(shown) \in Nat
  BY ShownType
<1>2. room \in Int
  BY KeepType DEF RoomOf
<1>3. end = LinesPlaced(start, room, Len(shown))[Len(shown)]
  BY DEF EndOf
<1>4. end \in Places
  <2> HIDE DEF shown, room, end
  <2> QED
    BY <1>1, <1>2, <1>3, LineHeights
<1> DEFINE more == blocks[k].type = "Contents" /\ contents # <<>>
<1>5. RenderBlock(blocks, contents, k, start).at = [end EXCEPT !.contents = @ \/ more]
  BY BlockIs
<1> HIDE DEF end
<1>6. end.contents \in BOOLEAN
  BY <1>4 DEF Places
<1>7. (end.contents \/ more) \in BOOLEAN
  OBVIOUS
<1> DEFINE c == end.contents \/ more
<1> HIDE DEF more, c
<1>8. c \in BOOLEAN
  BY <1>7 DEF c
<1>9. [end EXCEPT !.contents = c] \in Places
  BY <1>4, <1>8 DEF Places
<1>10. RenderBlock(blocks, contents, k, start).at = [end EXCEPT !.contents = c]
  BY <1>5 DEF c
<1> QED
  BY <1>4, <1>9, <1>10 DEF end

\* A block that stands where an equal one stood, some pages on.
SameHere(blocks, contents, k, others, their, j) ==
    /\ blocks[k].type = others[j].type /\ blocks[k].text = others[j].text /\ blocks[k].align = others[j].align
    /\ blocks[k].type = "Contents" => contents = their
    /\ blocks[k].type = "Heading" => HeadingKeep(blocks, k) = HeadingKeep(others, j)

LineTurned(shown, pages) == [shown EXCEPT !.page = @ + pages]

LEMMA BlockMoved ==
    ASSUME NEW blocks \in Seq(Blocks), NEW contents \in Seq(Seq(STRING)), NEW k \in 1 .. Len(blocks),
           NEW others \in Seq(Blocks), NEW their \in Seq(Seq(STRING)), NEW j \in 1 .. Len(others),
           SameHere(blocks, contents, k, others, their, j),
           NEW start \in Places, NEW pages \in Int
    PROVE  LET new == RenderBlock(blocks, contents, k, Turned(start, pages))
               old == RenderBlock(others, their, j, start)
           IN  /\ new.at = Turned(old.at, pages)
               /\ new.lines = [n \in DOMAIN old.lines |-> LineTurned(old.lines[n], pages)]
               /\ new.map = [line |-> blocks[k].line, end |-> blocks[k].line + blocks[k].count,
                             page |-> old.map.page + pages, endPage |-> old.map.endPage + pages]
<1> DEFINE shown == LinesDrawn(others[j], their, start)
           room == RoomOf(others, j)
           count == Len(shown)
           f == LinesPlaced(start, room, count)
           g == LinesPlaced(Turned(start, pages), room, count)
           new == RenderBlock(blocks, contents, k, Turned(start, pages))
           old == RenderBlock(others, their, j, start)
<1>1. count \in Nat /\ DOMAIN shown = 1 .. count /\ (shown # <<>> => count # 0)
  BY ShownType
<1>2. room \in Int
  BY KeepType DEF RoomOf
<1>3. Turned(start, pages) \in Places /\ Turned(start, pages).contents = start.contents
      /\ Turned(start, pages).page = start.page + pages
  BY PlacedTurned DEF Turned, Places
<1>4. LinesDrawn(blocks[k], contents, Turned(start, pages)) = shown
  <2>1. CASE blocks[k].type = "Contents"
    BY <1>3, <2>1 DEF LinesDrawn, SameHere
  <2>2. CASE blocks[k].type = "Heading"
    BY <2>2 DEF LinesDrawn, SameHere
  <2>3. CASE blocks[k].type # "Contents" /\ blocks[k].type # "Heading"
    BY <2>3 DEF LinesDrawn, SameHere
  <2> QED
    BY <2>1, <2>2, <2>3
<1>5. RoomOf(blocks, k) = room
  BY DEF RoomOf, SameHere
<1>6. f \in [0 .. count -> Places]
  <2> HIDE DEF room, shown, count
  <2> QED
    BY <1>1, <1>2, LineHeights
<1>7. \A n \in 0 .. count : g[n] = Turned(f[n], pages)
  <2> HIDE DEF room, shown, count
  <2> QED
    BY <1>1, <1>2, LinesTurned
<1> DEFINE end == f[count]
           more == blocks[k].type = "Contents" /\ contents # <<>>
<1>8. old = [lines |-> [n \in DOMAIN shown |->
                      [page |-> Ensure(f[n - 1], room).page, y |-> Ensure(f[n - 1], room).y, shows |-> shown[n]]],
             at |-> [end EXCEPT !.contents = @ \/ more],
             map |-> [line |-> others[j].line, end |-> others[j].line + others[j].count,
                      page |-> IF shown = <<>> THEN start.page ELSE Ensure(f[1 - 1], room).page,
                      endPage |-> end.page]]
  <2>1. (others[j].type = "Contents" /\ their # <<>>) <=> more
    BY DEF SameHere
  <2>2. [end EXCEPT !.contents = @ \/ (others[j].type = "Contents" /\ their # <<>>)] = [end EXCEPT !.contents = @ \/ more]
    BY <2>1
  <2>3. EndOf(others, their, j, start) = end
    BY DEF EndOf
  <2> HIDE DEF shown, room, f, end, more
  <2> QED
    BY <2>2, <2>3, BlockIs DEF shown, room, f, count
<1> DEFINE last == g[count]
<1>9. new = [lines |-> [n \in DOMAIN shown |->
                      [page |-> Ensure(g[n - 1], room).page, y |-> Ensure(g[n - 1], room).y, shows |-> shown[n]]],
             at |-> [last EXCEPT !.contents = @ \/ more],
             map |-> [line |-> blocks[k].line, end |-> blocks[k].line + blocks[k].count,
                      page |-> IF shown = <<>> THEN Turned(start, pages).page ELSE Ensure(g[1 - 1], room).page,
                      endPage |-> last.page]]
  <2>1. EndOf(blocks, contents, k, Turned(start, pages)) = last
    BY <1>4, <1>5 DEF EndOf
  <2> HIDE DEF shown, room, last
  <2> QED
    BY <1>4, <1>5, <2>1, BlockIs
<1> HIDE DEF old, new, shown, room, f, g
<1>10. end \in Places /\ last = Turned(end, pages)
  BY <1>1, <1>6, <1>7
<1>11. \A n \in 1 .. count : /\ Ensure(g[n - 1], room).page = Ensure(f[n - 1], room).page + pages
                             /\ Ensure(g[n - 1], room).y = Ensure(f[n - 1], room).y
  <2> TAKE n \in 1 .. count
  <2>1. n - 1 \in 0 .. count
    BY <1>1
  <2>2. f[n - 1] \in Places /\ g[n - 1] = Turned(f[n - 1], pages)
    BY <1>6, <1>7, <2>1
  <2>3. Ensure(g[n - 1], room) = Turned(Ensure(f[n - 1], room), pages) /\ Ensure(f[n - 1], room) \in Places
    BY <1>2, <2>2, PlacedTurned, PlacedType
  <2> QED
    BY <2>3 DEF Turned, Places
<1>12. new.at = Turned(old.at, pages)
  <2>1. old.at = [end EXCEPT !.contents = @ \/ more]
    BY <1>8
  <2>2. new.at = [last EXCEPT !.contents = @ \/ more]
    BY <1>9
  <2>3. end.contents = last.contents
    BY <1>10 DEF Turned, Places
  <2> DEFINE c == end.contents \/ more
  <2>4. old.at = [end EXCEPT !.contents = c] /\ new.at = [last EXCEPT !.contents = c]
    BY <2>1, <2>2, <2>3
  <2> HIDE DEF end, last, c
  <2>5. [Turned(end, pages) EXCEPT !.contents = c] = Turned([end EXCEPT !.contents = c], pages)
    BY <1>10 DEF Turned, Places
  <2> QED
    BY <1>10, <2>4, <2>5
<1>13. new.lines = [n \in DOMAIN old.lines |-> LineTurned(old.lines[n], pages)]
  <2> DEFINE Old1(n) == [page |-> Ensure(f[n - 1], room).page, y |-> Ensure(f[n - 1], room).y, shows |-> shown[n]]
             New1(n) == [page |-> Ensure(g[n - 1], room).page, y |-> Ensure(g[n - 1], room).y, shows |-> shown[n]]
  <2>1. old.lines = [n \in 1 .. count |-> Old1(n)]
    BY <1>1, <1>8
  <2>2. new.lines = [n \in 1 .. count |-> New1(n)]
    BY <1>1, <1>9
  <2>3. \A n \in 1 .. count : New1(n) = LineTurned(Old1(n), pages)
    <3> TAKE n \in 1 .. count
    <3> DEFINE a == Ensure(f[n - 1], room)
               b == Ensure(g[n - 1], room)
    <3>1. b.page = a.page + pages /\ b.y = a.y
      BY <1>11
    <3>2. Old1(n) = [page |-> a.page, y |-> a.y, shows |-> shown[n]]
          /\ New1(n) = [page |-> b.page, y |-> b.y, shows |-> shown[n]]
      OBVIOUS
    <3> HIDE DEF a, b, Old1, New1
    <3> QED
      BY <3>1, <3>2 DEF LineTurned
  <2> HIDE DEF Old1, New1
  <2> QED
    BY <2>1, <2>2, <2>3
<1>14. new.map = [line |-> blocks[k].line, end |-> blocks[k].line + blocks[k].count,
                  page |-> old.map.page + pages, endPage |-> old.map.endPage + pages]
  <2>1. last.page = end.page + pages
    BY <1>10 DEF Turned, Places
  <2> DEFINE from == IF shown = <<>> THEN start.page ELSE Ensure(f[1 - 1], room).page
             turned == IF shown = <<>> THEN Turned(start, pages).page ELSE Ensure(g[1 - 1], room).page
  <2>2. turned = from + pages
    <3>1. CASE shown = <<>>
      BY <1>3, <3>1
    <3>2. CASE shown # <<>>
      <4>1. count # 0
        BY <1>1, <3>2
      <4>2. 1 \in 1 .. count
        BY <1>1, <4>1
      <4> QED
        BY <1>11, <3>2, <4>2
    <3> QED
      BY <3>1, <3>2
  <2>3. old.map = [line |-> others[j].line, end |-> others[j].line + others[j].count, page |-> from, endPage |-> end.page]
    BY <1>8
  <2>4. new.map = [line |-> blocks[k].line, end |-> blocks[k].line + blocks[k].count, page |-> turned, endPage |-> last.page]
    BY <1>9
  <2> HIDE DEF from, turned, end, last
  <2> QED
    BY <2>1, <2>2, <2>3, <2>4
<1> QED
  BY <1>12, <1>13, <1>14 DEF old, new

-----------------------------------------------------------------------------
(***************************************************************************)
(* The layout of all the blocks: where it stands after each of them when   *)
(* they are laid out one by one, and that a layout which takes several of  *)
(* them in one step, but stands after it where it would have stood, gives  *)
(* the same tape.                                                          *)
(***************************************************************************)
LEMMA RenderEnds ==
    ASSUME NEW l, NEW N \in Nat, Len(l.store.blocks) = N,
           NEW u, DOMAIN u = 0 .. N,
           \A i \in 0 .. N - 1 : \E j \in i + 1 .. N : Onward(l, u[i]) = u[j],
           Onward(l, u[N]) = u[N]
    PROVE  Render(l, u[0]) = Marked(u[N])
<1> DEFINE States == {u[i] : i \in 0 .. N}
           base == u[0]
           go == [n \in 1 .. N |-> [s \in States |-> Onward(l, s)]]
           IsLaid(f) == f = [n \in 0 .. N |-> IF n = 0 THEN u[0] ELSE Onward(l, f[n - 1])]
           laid == CHOOSE f : IsLaid(f)
<1>1. Render(l, u[0]) = Marked(laid[N])
  BY DEF Render
<1>2. \A i \in 0 .. N : \E j \in i .. N : Onward(l, u[i]) = u[j] /\ (i < N => j > i)
  <2> TAKE i \in 0 .. N
  <2>1. CASE i = N
    BY <2>1
  <2>2. CASE i # N
    <3>1. i \in 0 .. N - 1
      BY <2>2
    <3>2. PICK j \in i + 1 .. N : Onward(l, u[i]) = u[j]
      BY <3>1
    <3> QED
      BY <3>2
  <2> QED
    BY <2>1, <2>2
<1>3. go \in [1 .. N -> [States -> States]]
  <2>1. \A s \in States : Onward(l, s) \in States
    <3> TAKE s \in States
    <3>1. PICK i \in 0 .. N : s = u[i]
      OBVIOUS
    <3>2. PICK j \in i .. N : Onward(l, u[i]) = u[j]
      BY <1>2
    <3>3. j \in 0 .. N
      OBVIOUS
    <3> QED
      BY <3>1, <3>2, <3>3
  <2> HIDE DEF States
  <2> QED
    BY <2>1
<1>4. base \in States
  OBVIOUS
<1>5. \E f : IsLaid(f)
  <2>1. PICK f : AreSteps(N, States, base, go, f)
    <3> HIDE DEF go, base, States
    <3> QED
      BY <1>3, <1>4, StepsExist
  <2>2. f \in [0 .. N -> States] /\ f[0] = base /\ \A n \in 1 .. N : f[n] = go[n][f[n - 1]]
    BY <2>1 DEF AreSteps
  <2>3. ASSUME NEW n \in 0 .. N PROVE f[n] = IF n = 0 THEN u[0] ELSE Onward(l, f[n - 1])
    <3>1. CASE n = 0
      BY <2>2, <3>1
    <3>2. CASE n # 0
      <4>1. n \in 1 .. N /\ n - 1 \in 0 .. N
        BY <3>2
      <4>2. f[n - 1] \in States /\ f[n] = go[n][f[n - 1]]
        BY <2>2, <4>1
      <4>3. go[n][f[n - 1]] = Onward(l, f[n - 1])
        <5> HIDE DEF States
        <5> QED
          BY <4>1, <4>2
      <4> QED
        BY <3>2, <4>2, <4>3
    <3> QED
      BY <3>1, <3>2
  <2>4. f = [n \in 0 .. N |-> f[n]]
    BY <2>2
  <2> QED
    BY <2>3, <2>4
<1>6. IsLaid(laid)
  <2> HIDE DEF IsLaid
  <2> QED
    BY <1>5
<1> HIDE DEF laid, States, go, base
<1>7. laid[0] = u[0] /\ \A n \in 1 .. N : laid[n] = Onward(l, laid[n - 1])
  BY <1>6
<1> HIDE DEF IsLaid
<1> DEFINE D == {n \in 0 .. N : \E j \in n .. N : laid[n] = u[j]}
<1>8. 0 \in D
  <2>1. 0 \in 0 .. N
    OBVIOUS
  <2> QED
    BY <1>7, <2>1
<1>9. \A n \in 1 .. N : n - 1 \in D => n \in D
  <2> TAKE n \in 1 .. N
  <2> HAVE n - 1 \in D
  <2>1. PICK i \in n - 1 .. N : laid[n - 1] = u[i]
    OBVIOUS
  <2>2. i \in 0 .. N
    BY <2>1
  <2>3. PICK j \in i .. N : Onward(l, u[i]) = u[j] /\ (i < N => j > i)
    BY <1>2, <2>2
  <2>4. laid[n] = u[j]
    BY <1>7, <2>1, <2>3
  <2>5. j \in n .. N
    BY <2>1, <2>2, <2>3
  <2> QED
    BY <2>4, <2>5
<1>10. 0 .. N \subseteq D
  <2> HIDE DEF D
  <2> QED
    BY <1>8, <1>9, StepByStep
<1>11. PICK j \in N .. N : laid[N] = u[j]
  <2>1. N \in D
    BY <1>10
  <2> QED
    BY <2>1
<1> QED
  BY <1>1, <1>11

ArePlaces(blocks, contents, p) ==
    /\ p \in [0 .. Len(blocks) -> Places]
    /\ p[0] = FirstMark
    /\ \A n \in 1 .. Len(blocks) : p[n] = RenderBlock(blocks, contents, n, p[n - 1]).at
PlacesOf(blocks, contents) == CHOOSE p : ArePlaces(blocks, contents, p)

LEMMA PlacesAre ==
    ASSUME NEW blocks \in Seq(Blocks), NEW contents \in Seq(Seq(STRING))
    PROVE  ArePlaces(blocks, contents, PlacesOf(blocks, contents))
<1> DEFINE N == Len(blocks)
           base == FirstMark
           Onto(n, spot) == RenderBlock(blocks, contents, n, spot).at
           go == [n \in 1 .. N |-> [spot \in Places |-> Onto(n, spot)]]
<1>1. N \in Nat /\ base \in Places
  BY DEF FirstMark, Places
<1>2. \A n \in 1 .. N : \A spot \in Places : Onto(n, spot) \in Places
  BY BlockType
<1>3. go \in [1 .. N -> [Places -> Places]]
  <2> HIDE DEF Onto
  <2> QED
    BY <1>2
<1>4. \E f : AreSteps(N, Places, base, go, f)
  <2> HIDE DEF go, base, N
  <2> QED
    BY <1>1, <1>3, StepsExist
<1>5. PICK f : AreSteps(N, Places, base, go, f)
  BY <1>4
<1>6. f \in [0 .. N -> Places] /\ f[0] = base /\ \A n \in 1 .. N : f[n] = go[n][f[n - 1]]
  BY <1>5 DEF AreSteps
<1>7. \A n \in 1 .. N : f[n] = Onto(n, f[n - 1])
  <2> TAKE n \in 1 .. N
  <2>1. f[n - 1] \in Places
    BY <1>1, <1>6
  <2> HIDE DEF Onto
  <2> QED
    BY <1>6, <2>1
<1>8. ArePlaces(blocks, contents, f)
  BY <1>6, <1>7 DEF ArePlaces
<1> QED
  BY <1>8 DEF PlacesOf

\* Where the layout of the blocks stands after the first n of them.
LaidTo(blocks, contents, font, n) ==
    LET p == PlacesOf(blocks, contents)
    IN  [k |-> n + 1, at |-> p[n],
         tape |-> [renderer |-> font, contents |-> contents,
                   marks |-> [i \in 1 .. n |-> p[i - 1]],
                   drawn |-> [i \in 1 .. n |-> RenderBlock(blocks, contents, i, p[i - 1]).lines],
                   map |-> [i \in 1 .. n |-> RenderBlock(blocks, contents, i, p[i - 1]).map]]]
TapeOf(blocks, contents, font) ==
    LET p == PlacesOf(blocks, contents)
        N == Len(blocks)
    IN  [renderer |-> font, contents |-> contents,
         marks |-> [i \in 1 .. N + 1 |-> p[i - 1]],
         drawn |-> [i \in 1 .. N |-> RenderBlock(blocks, contents, i, p[i - 1]).lines],
         map |-> [i \in 1 .. N |-> RenderBlock(blocks, contents, i, p[i - 1]).map]]

TapeRecord(r, c, m, d, x) == [renderer |-> r, contents |-> c, marks |-> m, drawn |-> d, map |-> x]

WithMarks(t, m) == [t EXCEPT !.marks = m]
WithDrawn(t, d, x) == [t EXCEPT !.drawn = d, !.map = x]
WithAll(t, d, x, m) == [t EXCEPT !.drawn = d, !.map = x, !.marks = m]

LEMMA TapeWith ==
    ASSUME NEW r, NEW c, NEW m, NEW d, NEW x, NEW m2, NEW d2, NEW x2
    PROVE  /\ WithMarks(TapeRecord(r, c, m, d, x), m2) = TapeRecord(r, c, m2, d, x)
           /\ WithDrawn(TapeRecord(r, c, m, d, x), d2, x2) = TapeRecord(r, c, m, d2, x2)
           /\ WithAll(TapeRecord(r, c, m, d, x), d2, x2, m2) = TapeRecord(r, c, m2, d2, x2)
           /\ TapeRecord(r, c, m, d, x).drawn = d /\ TapeRecord(r, c, m, d, x).map = x
           /\ TapeRecord(r, c, m, d, x).marks = m
<1>1. \A k, l, n : [TapeRecord(r, c, k, l, n) EXCEPT !.marks = m2] = TapeRecord(r, c, m2, l, n)
  BY DEF TapeRecord
<1>2. \A k, l, n : [TapeRecord(r, c, k, l, n) EXCEPT !.drawn = d2] = TapeRecord(r, c, k, d2, n)
  BY DEF TapeRecord
<1>3. \A k, l, n : [TapeRecord(r, c, k, l, n) EXCEPT !.map = x2] = TapeRecord(r, c, k, l, x2)
  BY DEF TapeRecord
<1> DEFINE t == TapeRecord(r, c, m, d, x)
<1>4. t.drawn = d /\ t.map = x /\ t.marks = m
  BY DEF TapeRecord
<1> HIDE DEF t
<1>5. [t EXCEPT !.drawn = d2, !.map = x2] = [[t EXCEPT !.drawn = d2] EXCEPT !.map = x2]
  <2>1. t = [renderer |-> r, contents |-> c, marks |-> m, drawn |-> d, map |-> x]
    BY DEF t, TapeRecord
  <2> QED
    BY <2>1
<1>6. [t EXCEPT !.drawn = d2, !.map = x2, !.marks = m2] = [[[t EXCEPT !.drawn = d2] EXCEPT !.map = x2] EXCEPT !.marks = m2]
  <2>1. t = [renderer |-> r, contents |-> c, marks |-> m, drawn |-> d, map |-> x]
    BY DEF t, TapeRecord
  <2> QED
    BY <2>1
<1>7. [t EXCEPT !.drawn = d2] = TapeRecord(r, c, m, d2, x)
  BY <1>2 DEF t
<1> DEFINE t1 == [t EXCEPT !.drawn = d2]
           t2 == [t1 EXCEPT !.map = x2]
           t3 == [t2 EXCEPT !.marks = m2]
<1>11. t1 = TapeRecord(r, c, m, d2, x)
  BY <1>7
<1>12. t2 = TapeRecord(r, c, m, d2, x2)
  <2>1. \A a, b : a = b => [a EXCEPT !.map = x2] = [b EXCEPT !.map = x2]
    OBVIOUS
  <2> HIDE DEF t1
  <2> QED
    BY <1>3, <1>11, <2>1
<1>13. t3 = TapeRecord(r, c, m2, d2, x2)
  <2>1. \A a, b : a = b => [a EXCEPT !.marks = m2] = [b EXCEPT !.marks = m2]
    OBVIOUS
  <2> HIDE DEF t2
  <2> QED
    BY <1>1, <1>12, <2>1
<1>8. [t EXCEPT !.drawn = d2, !.map = x2] = TapeRecord(r, c, m, d2, x2)
  BY <1>5, <1>12
<1>9. [t EXCEPT !.drawn = d2, !.map = x2, !.marks = m2] = TapeRecord(r, c, m2, d2, x2)
  BY <1>6, <1>13
<1>10. [t EXCEPT !.marks = m2] = TapeRecord(r, c, m2, d, x)
  BY <1>1 DEF t
<1> QED
  BY <1>4, <1>8, <1>9, <1>10 DEF t, WithMarks, WithDrawn, WithAll

LEMMA MarksSet ==
    ASSUME NEW r, NEW c, NEW m, NEW d, NEW x, NEW m2
    PROVE  WithMarks(TapeRecord(r, c, m, d, x), m2) = TapeRecord(r, c, m2, d, x)
BY TapeWith

LEMMA DrawnSet ==
    ASSUME NEW r, NEW c, NEW m, NEW d, NEW x, NEW d2, NEW x2
    PROVE  WithDrawn(TapeRecord(r, c, m, d, x), d2, x2) = TapeRecord(r, c, m, d2, x2)
BY TapeWith

LEMMA AllSet ==
    ASSUME NEW r, NEW c, NEW m, NEW d, NEW x, NEW m2, NEW d2, NEW x2
    PROVE  WithAll(TapeRecord(r, c, m, d, x), d2, x2, m2) = TapeRecord(r, c, m2, d2, x2)
BY TapeWith

LEMMA TapeFields ==
    ASSUME NEW r, NEW c, NEW m, NEW d, NEW x
    PROVE  /\ TapeRecord(r, c, m, d, x).drawn = d /\ TapeRecord(r, c, m, d, x).map = x
           /\ TapeRecord(r, c, m, d, x).marks = m /\ TapeRecord(r, c, m, d, x).renderer = r
           /\ TapeRecord(r, c, m, d, x).contents = c
BY DEF TapeRecord

IsTable(f, n) == DOMAIN f = 1 .. n /\ f = [i \in 1 .. n |-> f[i]]

LEMMA AppendNext ==
    ASSUME NEW n \in Nat, NEW f, IsTable(f, n), NEW g, IsTable(g, n + 1), \A i \in 1 .. n : f[i] = g[i]
    PROVE  Append(f, g[n + 1]) = g
<1> USE DEF IsTable
<1> DEFINE T == {g[i] : i \in 1 .. n + 1}
<1>1. f \in Seq(T) /\ Len(f) = n
  <2>3. \A i \in 1 .. n : f[i] \in T
    <3> TAKE i \in 1 .. n
    <3>1. i \in 1 .. n + 1 /\ f[i] = g[i]
      OBVIOUS
    <3> QED
      BY <3>1
  <2>1. f \in [1 .. n -> T]
    <3> HIDE DEF T
    <3> QED
      BY <2>3
  <2>2. f \in Seq(T)
    BY <2>1, SeqDef
  <2> QED
    BY <2>1, <2>2, LenProperties
<1>2. g[n + 1] \in T
  OBVIOUS
<1>3. Append(f, g[n + 1]) \in Seq(T) /\ Len(Append(f, g[n + 1])) = n + 1
      /\ \A i \in 1 .. n + 1 : Append(f, g[n + 1])[i] = IF i <= n THEN f[i] ELSE g[n + 1]
  <2> HIDE DEF T
  <2> QED
    BY <1>1, <1>2, AppendProperties
<1>4. DOMAIN Append(f, g[n + 1]) = 1 .. n + 1
  BY <1>3, LenProperties
<1>5. \A i \in 1 .. n + 1 : Append(f, g[n + 1])[i] = g[i]
  BY <1>3
<1>6. Append(f, g[n + 1]) = [i \in 1 .. n + 1 |-> Append(f, g[n + 1])[i]]
  <2> HIDE DEF T
  <2> QED
    BY <1>3, <1>4, SeqDef
<1> QED
  BY <1>5, <1>6

LEMMA MarkedTo ==
    ASSUME NEW blocks \in Seq(Blocks), NEW contents \in Seq(Seq(STRING)), NEW font, NEW n \in 0 .. Len(blocks)
    PROVE  LET p == PlacesOf(blocks, contents)
               its == LaidTo(blocks, contents, font, n).tape
           IN  Marked(LaidTo(blocks, contents, font, n)) =
                 [renderer |-> font, contents |-> contents, marks |-> [i \in 1 .. n + 1 |-> p[i - 1]],
                  drawn |-> its.drawn, map |-> its.map]
<1> DEFINE p == PlacesOf(blocks, contents)
           f == [i \in 1 .. n |-> p[i - 1]]
           g == [i \in 1 .. n + 1 |-> p[i - 1]]
<1>1. Append(f, p[n]) = g
  <2>1. g[n + 1] = p[n]
    BY DEF g
  <2>2. IsTable(f, n) /\ IsTable(g, n + 1) /\ \A i \in 1 .. n : f[i] = g[i]
    BY DEF IsTable
  <2>3. n \in Nat
    OBVIOUS
  <2> HIDE DEF f, g, p
  <2>4. Append(f, g[n + 1]) = g
    BY <2>2, <2>3, AppendNext
  <2> QED
    BY <2>1, <2>4
<1>2. LaidTo(blocks, contents, font, n).at = p[n] /\ LaidTo(blocks, contents, font, n).tape.marks = f
  BY DEF LaidTo
<1>3. LaidTo(blocks, contents, font, n).tape.renderer = font /\ LaidTo(blocks, contents, font, n).tape.contents = contents
  BY DEF LaidTo
<1> DEFINE d == LaidTo(blocks, contents, font, n).tape.drawn
           m == LaidTo(blocks, contents, font, n).tape.map
<1>4. LaidTo(blocks, contents, font, n).tape = [renderer |-> font, contents |-> contents, marks |-> f, drawn |-> d, map |-> m]
  BY DEF LaidTo
<1> DEFINE here == LaidTo(blocks, contents, font, n)
<1>6. here.tape = TapeRecord(font, contents, f, d, m) /\ here.at = p[n] /\ here.tape.marks = f
  BY <1>2, <1>4 DEF TapeRecord
<1>5. Marked(here) = [renderer |-> font, contents |-> contents, marks |-> Append(f, p[n]), drawn |-> d, map |-> m]
  <2>1. Marked(here) = WithMarks(here.tape, Append(f, p[n]))
    <3> HIDE DEF here, f, p
    <3> QED
      BY <1>6 DEF Marked, WithMarks
  <2> HIDE DEF here, f, p, d, m
  <2>2. Marked(here) = TapeRecord(font, contents, Append(f, p[n]), d, m)
    BY <1>6, <2>1, MarksSet
  <2> QED
    BY <2>2 DEF TapeRecord
<1> HIDE DEF f, g, p, d, m
<1> QED
  BY <1>1, <1>5 DEF d, m, g, p

LEMMA NextLaid ==
    ASSUME NEW blocks \in Seq(Blocks), NEW contents \in Seq(Seq(STRING)), NEW font, NEW n \in 0 .. Len(blocks) - 1
    PROVE  LaidOut(n + 1, RenderBlock(blocks, contents, n + 1, LaidTo(blocks, contents, font, n).at),
                   Marked(LaidTo(blocks, contents, font, n)))
             = LaidTo(blocks, contents, font, n + 1)
<1> DEFINE p == PlacesOf(blocks, contents)
           Laid(i) == RenderBlock(blocks, contents, i, p[i - 1])
           d == [i \in 1 .. n |-> Laid(i).lines]
           dd == [i \in 1 .. n + 1 |-> Laid(i).lines]
           m == [i \in 1 .. n |-> Laid(i).map]
           mm == [i \in 1 .. n + 1 |-> Laid(i).map]
           marks == [i \in 1 .. n + 1 |-> p[i - 1]]
<1>1. Append(d, dd[n + 1]) = dd
  <2>1. IsTable(d, n) /\ IsTable(dd, n + 1) /\ \A i \in 1 .. n : d[i] = dd[i]
    <3> HIDE DEF Laid
    <3> QED
      BY DEF IsTable
  <2>2. n \in Nat
    OBVIOUS
  <2> HIDE DEF d, dd
  <2> QED
    BY <2>1, <2>2, AppendNext
<1>2. Append(m, mm[n + 1]) = mm
  <2>1. IsTable(m, n) /\ IsTable(mm, n + 1) /\ \A i \in 1 .. n : m[i] = mm[i]
    <3> HIDE DEF Laid
    <3> QED
      BY DEF IsTable
  <2>2. n \in Nat
    OBVIOUS
  <2> HIDE DEF m, mm
  <2> QED
    BY <2>1, <2>2, AppendNext
<1>3. dd[n + 1] = Laid(n + 1).lines /\ mm[n + 1] = Laid(n + 1).map
  <2> HIDE DEF Laid
  <2> QED
    OBVIOUS
<1>4. LaidTo(blocks, contents, font, n).at = p[n] /\ Laid(n + 1) = RenderBlock(blocks, contents, n + 1, p[n])
  BY DEF LaidTo
<1>5. Marked(LaidTo(blocks, contents, font, n)) =
        [renderer |-> font, contents |-> contents, marks |-> marks, drawn |-> d, map |-> m]
  <2>1. LaidTo(blocks, contents, font, n).tape.drawn = d /\ LaidTo(blocks, contents, font, n).tape.map = m
    BY DEF LaidTo
  <2>2. n \in 0 .. Len(blocks)
    OBVIOUS
  <2> HIDE DEF d, m
  <2> QED
    BY <2>1, <2>2, MarkedTo
<1>6. p[n + 1] = Laid(n + 1).at
  <2>1. ArePlaces(blocks, contents, p)
    BY PlacesAre
  <2>2. n + 1 \in 1 .. Len(blocks)
    OBVIOUS
  <2> HIDE DEF p
  <2> QED
    BY <2>1, <2>2 DEF ArePlaces
<1>7. LaidTo(blocks, contents, font, n + 1) =
        [k |-> n + 1 + 1, at |-> p[n + 1],
         tape |-> [renderer |-> font, contents |-> contents, marks |-> marks, drawn |-> dd, map |-> mm]]
  BY DEF LaidTo
<1> HIDE DEF d, dd, m, mm, marks, Laid
<1>8. LaidOut(n + 1, Laid(n + 1), [renderer |-> font, contents |-> contents, marks |-> marks, drawn |-> d, map |-> m])
        = [k |-> n + 1 + 1, at |-> Laid(n + 1).at,
           tape |-> [renderer |-> font, contents |-> contents, marks |-> marks,
                     drawn |-> Append(d, Laid(n + 1).lines), map |-> Append(m, Laid(n + 1).map)]]
  <2> DEFINE t == TapeRecord(font, contents, marks, d, m)
  <2>1. WithDrawn(t, Append(d, Laid(n + 1).lines), Append(m, Laid(n + 1).map))
          = TapeRecord(font, contents, marks, Append(d, Laid(n + 1).lines), Append(m, Laid(n + 1).map))
    BY DrawnSet
  <2>2. t.drawn = d /\ t.map = m
    BY TapeFields
  <2> HIDE DEF t
  <2>3. LaidOut(n + 1, Laid(n + 1), t) =
          [k |-> n + 1 + 1, at |-> Laid(n + 1).at,
           tape |-> WithDrawn(t, Append(d, Laid(n + 1).lines), Append(m, Laid(n + 1).map))]
    BY <2>2 DEF LaidOut, WithDrawn
  <2> QED
    BY <2>1, <2>3 DEF t, TapeRecord
<1> QED
  BY <1>1, <1>2, <1>3, <1>4, <1>5, <1>6, <1>7, <1>8

LEMMA ContentsType ==
    ASSUME NEW blocks \in Seq(Blocks)
    PROVE  ContentsOf(blocks) \in Seq(Seq(STRING))
<1> DEFINE N == Len(blocks)
           States == Seq(Seq(STRING))
           base == <<>>
           Onto(n, s) == IF blocks[n].type = "Heading" THEN Append(s, blocks[n].text) ELSE s
           go == [n \in 1 .. N |-> [s \in States |-> Onto(n, s)]]
           IsTitles(f) == f = [k \in 0 .. N |-> IF k = 0 THEN <<>>
                                               ELSE IF blocks[k].type = "Heading" THEN Append(f[k - 1], blocks[k].text)
                                               ELSE f[k - 1]]
           titles == CHOOSE f : IsTitles(f)
<1>1. N \in Nat /\ base \in States
  OBVIOUS
<1>2. \A n \in 1 .. N : \A s \in States : Onto(n, s) \in States
  <2> TAKE n \in 1 .. N
  <2> TAKE s \in States
  <2>4. blocks[n] \in Blocks
    OBVIOUS
  <2>1. blocks[n].text \in Seq(STRING)
    BY <2>4 DEF Blocks
  <2> DEFINE B == Seq(STRING)
  <2>2. s \in Seq(B) /\ blocks[n].text \in B
    BY <2>1
  <2> HIDE DEF B
  <2>3. Append(s, blocks[n].text) \in Seq(B)
    BY <2>2
  <2> QED
    BY <2>2, <2>3 DEF B
<1>3. PICK f : AreSteps(N, States, base, go, f)
  <2>1. go \in [1 .. N -> [States -> States]]
    <3> HIDE DEF Onto, States
    <3> QED
      BY <1>2
  <2>2. \E f : AreSteps(N, States, base, go, f)
    <3> HIDE DEF go, base, States, N
    <3> QED
      BY <1>1, <2>1, StepsExist
  <2> QED
    BY <2>2
<1>4. f \in [0 .. N -> States] /\ f[0] = base /\ \A n \in 1 .. N : f[n] = go[n][f[n - 1]]
  BY <1>3 DEF AreSteps
<1>5. \A n \in 1 .. N : f[n] = Onto(n, f[n - 1])
  <2> TAKE n \in 1 .. N
  <2>1. f[n - 1] \in States
    BY <1>1, <1>4
  <2> HIDE DEF Onto, States
  <2> QED
    BY <1>4, <2>1
<1>6. IsTitles(f)
  <2>1. f = [k \in 0 .. N |-> f[k]]
    BY <1>4
  <2>2. ASSUME NEW k \in 0 .. N
        PROVE  f[k] = IF k = 0 THEN <<>>
                      ELSE IF blocks[k].type = "Heading" THEN Append(f[k - 1], blocks[k].text) ELSE f[k - 1]
    <3>1. CASE k = 0
      BY <1>4, <3>1
    <3>2. CASE k # 0
      <4>1. k \in 1 .. N
        BY <1>1, <3>2
      <4> QED
        BY <1>5, <3>2, <4>1
    <3> QED
      BY <3>1, <3>2
  <2> QED
    BY <2>1, <2>2
<1>7. IsTitles(titles)
  <2> HIDE DEF IsTitles
  <2> QED
    BY <1>6
<1>8. Headings(blocks) = titles[N]
  BY DEF Headings
<1> HIDE DEF titles
<1>9. titles[0] = base /\ \A n \in 1 .. N : titles[n] = Onto(n, titles[n - 1])
  <2>1. titles[0] = base
    BY <1>1, <1>7
  <2>2. ASSUME NEW n \in 1 .. N PROVE titles[n] = Onto(n, titles[n - 1])
    <3>1. n \in 0 .. N /\ n # 0
      BY <1>1
    <3> QED
      BY <1>7, <3>1
  <2> QED
    BY <2>1, <2>2
<1> HIDE DEF IsTitles, Onto, States, base
<1> DEFINE D == {n \in 0 .. N : titles[n] \in States}
<1>10. 0 \in D
  BY <1>1, <1>9
<1>11. \A n \in 1 .. N : n - 1 \in D => n \in D
  BY <1>1, <1>2, <1>9
<1>12. 0 .. N \subseteq D
  <2> HIDE DEF D
  <2> QED
    BY <1>1, <1>10, <1>11, StepByStep
<1>13. Headings(blocks) \in States
  BY <1>1, <1>8, <1>12
<1> QED
  BY <1>1, <1>13 DEF ContentsOf, States, base

LEMMA LaidAt ==
    ASSUME NEW blocks \in Seq(Blocks), NEW contents \in Seq(Seq(STRING)), NEW font, NEW n \in 0 .. Len(blocks)
    PROVE  /\ LaidTo(blocks, contents, font, n).k = n + 1
           /\ LaidTo(blocks, contents, font, n).at = PlacesOf(blocks, contents)[n]
           /\ LaidTo(blocks, contents, font, n).at \in Places
<1>1. LaidTo(blocks, contents, font, n).k = n + 1 /\ LaidTo(blocks, contents, font, n).at = PlacesOf(blocks, contents)[n]
  BY DEF LaidTo
<1>2. PlacesOf(blocks, contents) \in [0 .. Len(blocks) -> Places]
  BY PlacesAre DEF ArePlaces
<1> QED
  BY <1>1, <1>2

LEMMA OnwardBlock ==
    ASSUME NEW blocks \in Seq(Blocks), NEW contents \in Seq(Seq(STRING)), NEW font, NEW n \in 0 .. Len(blocks) - 1,
           NEW l, l.store.blocks = blocks, l.contents = contents,
           Replayable(l, n + 1, LaidTo(blocks, contents, font, n).at) = n + 1
    PROVE  Onward(l, LaidTo(blocks, contents, font, n)) = LaidTo(blocks, contents, font, n + 1)
<1> DEFINE here == LaidTo(blocks, contents, font, n)
<1>1. here.k = n + 1
  <2>1. n \in 0 .. Len(blocks)
    OBVIOUS
  <2> QED
    BY <2>1, LaidAt
<1>2. LaidOut(n + 1, RenderBlock(blocks, contents, n + 1, here.at), Marked(here)) = LaidTo(blocks, contents, font, n + 1)
  BY NextLaid
<1> HIDE DEF here
<1>3. ~(here.k > Len(l.store.blocks)) /\ ~(n + 1 > here.k)
  BY <1>1
<1>4. Onward(l, here) = Run(l, here, n + 1)
  BY <1>1, <1>3 DEF Onward, here
<1>5. Run(l, here, n + 1) = LaidOut(n + 1, RenderBlock(blocks, contents, n + 1, here.at), Marked(here))
  BY <1>1, <1>3 DEF Run
<1> QED
  BY <1>2, <1>4, <1>5 DEF here

LEMMA OnwardEnd ==
    ASSUME NEW blocks \in Seq(Blocks), NEW contents \in Seq(Seq(STRING)), NEW font,
           NEW l, l.store.blocks = blocks
    PROVE  Onward(l, LaidTo(blocks, contents, font, Len(blocks))) = LaidTo(blocks, contents, font, Len(blocks))
<1> DEFINE here == LaidTo(blocks, contents, font, Len(blocks))
<1>1. here.k = Len(blocks) + 1 /\ Len(blocks) \in Nat
  BY DEF LaidTo
<1> HIDE DEF here
<1>2. Onward(l, here) = here
  BY <1>1 DEF Onward
<1> QED
  BY <1>2 DEF here

LEMMA FirstIs ==
    ASSUME NEW blocks \in Seq(Blocks), NEW contents \in Seq(Seq(STRING)), NEW font
    PROVE  FirstBlock(font, contents) = LaidTo(blocks, contents, font, 0)
<1> DEFINE p == PlacesOf(blocks, contents)
<1>1. p[0] = FirstMark
  BY PlacesAre DEF ArePlaces
<1>2. 1 .. 0 = {}
  OBVIOUS
<1>3. \A F : (DOMAIN F = {} /\ F = [i \in {} |-> F[i]]) => F = <<>>
  OBVIOUS
<1> DEFINE a == [i \in 1 .. 0 |-> p[i - 1]]
           b == [i \in 1 .. 0 |-> RenderBlock(blocks, contents, i, p[i - 1]).lines]
           c == [i \in 1 .. 0 |-> RenderBlock(blocks, contents, i, p[i - 1]).map]
<1>4. a = <<>> /\ b = <<>> /\ c = <<>>
  BY <1>2
<1>5. LaidTo(blocks, contents, font, 0) =
        [k |-> 0 + 1, at |-> p[0],
         tape |-> [renderer |-> font, contents |-> contents, marks |-> a, drawn |-> b, map |-> c]]
  BY DEF LaidTo
<1> HIDE DEF a, b, c, p
<1> QED
  BY <1>1, <1>4, <1>5 DEF FirstBlock

LEMMA LastIs ==
    ASSUME NEW blocks \in Seq(Blocks), NEW contents \in Seq(Seq(STRING)), NEW font
    PROVE  Marked(LaidTo(blocks, contents, font, Len(blocks))) = TapeOf(blocks, contents, font)
<1> DEFINE p == PlacesOf(blocks, contents)
           its == LaidTo(blocks, contents, font, Len(blocks)).tape
<1>1. Len(blocks) \in 0 .. Len(blocks)
  OBVIOUS
<1>2. Marked(LaidTo(blocks, contents, font, Len(blocks))) =
         [renderer |-> font, contents |-> contents, marks |-> [i \in 1 .. Len(blocks) + 1 |-> p[i - 1]],
          drawn |-> its.drawn, map |-> its.map]
  BY <1>1, MarkedTo
<1>3. its.drawn = TapeOf(blocks, contents, font).drawn /\ its.map = TapeOf(blocks, contents, font).map
  BY DEF LaidTo, TapeOf
<1>4. TapeOf(blocks, contents, font) =
         [renderer |-> font, contents |-> contents, marks |-> [i \in 1 .. Len(blocks) + 1 |-> p[i - 1]],
          drawn |-> TapeOf(blocks, contents, font).drawn, map |-> TapeOf(blocks, contents, font).map]
  BY DEF TapeOf
<1> DEFINE m == [i \in 1 .. Len(blocks) + 1 |-> p[i - 1]]
<1> HIDE DEF m, its, p
<1> QED
  BY <1>2, <1>3, <1>4 DEF m

\* A layout that takes several blocks at once, but stands after them where it would have stood.
LEMMA RenderIs ==
    ASSUME NEW blocks \in Seq(Blocks), NEW contents \in Seq(Seq(STRING)), NEW font,
           NEW l, l.store.blocks = blocks,
           \A i \in 0 .. Len(blocks) - 1 : \E j \in i + 1 .. Len(blocks) :
              Onward(l, LaidTo(blocks, contents, font, i)) = LaidTo(blocks, contents, font, j)
    PROVE  Render(l, FirstBlock(font, contents)) = TapeOf(blocks, contents, font)
<1> DEFINE N == Len(blocks)
           u == [n \in 0 .. N |-> LaidTo(blocks, contents, font, n)]
<1>1. N \in Nat
  OBVIOUS
<1>2. DOMAIN u = 0 .. N /\ \A n \in 0 .. N : u[n] = LaidTo(blocks, contents, font, n)
  OBVIOUS
<1> HIDE DEF u
<1>3. ASSUME NEW i \in 0 .. N - 1 PROVE \E j \in i + 1 .. N : Onward(l, u[i]) = u[j]
  <2>1. PICK j \in i + 1 .. N : Onward(l, LaidTo(blocks, contents, font, i)) = LaidTo(blocks, contents, font, j)
    OBVIOUS
  <2>2. i \in 0 .. N /\ j \in 0 .. N
    OBVIOUS
  <2> QED
    BY <1>2, <2>1, <2>2
<1>4. u[N] = LaidTo(blocks, contents, font, N) /\ u[0] = LaidTo(blocks, contents, font, 0)
  BY <1>1, <1>2
<1>5. Onward(l, u[N]) = u[N]
  BY <1>4, OnwardEnd
<1>6. Render(l, u[0]) = Marked(u[N])
  <2>1. Len(l.store.blocks) = N
    OBVIOUS
  <2> HIDE DEF N
  <2> QED
    BY <1>1, <1>2, <1>3, <1>5, <2>1, RenderEnds
<1>7. u[0] = FirstBlock(font, contents)
  BY <1>4, FirstIs
<1>8. Marked(u[N]) = TapeOf(blocks, contents, font)
  BY <1>4, LastIs
<1> QED
  BY <1>6, <1>7, <1>8

LEMMA BeginIs ==
    ASSUME NEW kept, NEW last, NEW font, NEW contents
    PROVE  LET l == Begin(kept, last, font, contents)
               usable == last.renderer = font /\ OldCount(kept) = Len(last.drawn)
           IN  /\ l.store = kept /\ l.last = last /\ l.contents = contents
               /\ (l.usable <=> usable)
               /\ (l.contentsSame <=> (usable /\ contents = last.contents))
BY DEF Begin

LEMMA WholeIs ==
    ASSUME NEW blocks \in Seq(Blocks), NEW font, font # "none"
    PROVE  LayOutWhole(blocks, font) = TapeOf(blocks, ContentsOf(blocks), font)
<1> DEFINE contents == ContentsOf(blocks)
           N == Len(blocks)
           whole == [NoBlocks EXCEPT !.blocks = blocks]
           l == Begin(whole, NoTape, font, contents)
<1>1. N \in Nat /\ contents \in Seq(Seq(STRING))
  BY ContentsType
<1>2. whole.blocks = blocks
  BY DEF NoBlocks
<1>3. l.store = whole /\ l.contents = contents
  BY BeginIs
<1>4. ~l.usable
  <2>1. NoTape.renderer # font
    BY DEF NoTape
  <2> QED
    BY <2>1, BeginIs
<1>5. LayOutWhole(blocks, font) = Render(l, FirstBlock(font, contents))
  BY <1>2 DEF LayOutWhole, LayOutFrom
<1>7. l.store.blocks = blocks
  BY <1>2, <1>3
<1> HIDE DEF l, whole, contents
<1>6. ASSUME NEW i \in 0 .. N - 1
      PROVE  \E j \in i + 1 .. N : Onward(l, LaidTo(blocks, contents, font, i)) = LaidTo(blocks, contents, font, j)
  <2>1. Replayable(l, i + 1, LaidTo(blocks, contents, font, i).at) = i + 1
    BY <1>4 DEF Replayable
  <2>2. Onward(l, LaidTo(blocks, contents, font, i)) = LaidTo(blocks, contents, font, i + 1)
    BY <1>1, <1>3, <1>7, <2>1, OnwardBlock
  <2> QED
    BY <2>2
<1>8. Render(l, FirstBlock(font, contents)) = TapeOf(blocks, contents, font)
  BY <1>1, <1>6, <1>7, RenderIs
<1> QED
  BY <1>5, <1>8 DEF contents

-----------------------------------------------------------------------------
(***************************************************************************)
(* The blocks of the last build, as they can be put back, and this one's.  *)
(***************************************************************************)
Alike(a, b) == a.type = b.type /\ a.text = b.text /\ a.align = b.align

LEMMA SameIsAlike ==
    ASSUME NEW a \in Blocks, NEW b \in Blocks, SameBlock(a, b)
    PROVE  Alike(a, b)
<1> DEFINE x == [a EXCEPT !.line = 0, !.count = 0]
           y == [b EXCEPT !.line = 0, !.count = 0]
<1>1. x = y
  BY DEF SameBlock
<1>2. x.type = a.type /\ x.text = a.text /\ x.align = a.align
  BY DEF Blocks
<1>3. y.type = b.type /\ y.text = b.text /\ y.align = b.align
  BY DEF Blocks
<1> HIDE DEF x, y
<1> QED
  BY <1>1, <1>2, <1>3 DEF Alike

LEMMA LinesMovedIs ==
    ASSUME NEW blocks \in Seq(Blocks), NEW after \in Int, NEW by \in Int
    PROVE  /\ LinesMoved(blocks, after, by) \in Seq(Blocks)
           /\ Len(LinesMoved(blocks, after, by)) = Len(blocks)
           /\ \A k \in 1 .. Len(blocks) :
                /\ Alike(LinesMoved(blocks, after, by)[k], blocks[k])
                /\ LinesMoved(blocks, after, by)[k].count = blocks[k].count
                /\ k <= after => LinesMoved(blocks, after, by)[k] = blocks[k]
                /\ k > after => LinesMoved(blocks, after, by)[k].line = blocks[k].line + by
<1> DEFINE B == Blocks
           moved == LinesMoved(blocks, after, by)
           New(k) == IF k > after THEN [blocks[k] EXCEPT !.line = @ + by] ELSE blocks[k]
<1>1. blocks \in [1 .. Len(blocks) -> B] /\ Len(blocks) \in Nat /\ DOMAIN blocks = 1 .. Len(blocks)
  <2> HIDE DEF B
  <2>1. blocks \in Seq(B)
    BY DEF B
  <2> QED
    BY <2>1, LenProperties
<1>2. \A k \in 1 .. Len(blocks) : /\ New(k) \in B /\ Alike(New(k), blocks[k]) /\ New(k).count = blocks[k].count
                                  /\ k <= after => New(k) = blocks[k]
                                  /\ k > after => New(k).line = blocks[k].line + by
  <2> TAKE k \in 1 .. Len(blocks)
  <2>1. blocks[k] \in Blocks
    BY <1>1
  <2>2. CASE k > after
    <3>1. New(k) = [blocks[k] EXCEPT !.line = @ + by]
      BY <2>2
    <3>2. blocks[k].line + by \in Int
      BY <2>1 DEF Blocks
    <3> DEFINE v == blocks[k].line + by
               x == blocks[k]
    <3>3. New(k) = [x EXCEPT !.line = v]
      BY <3>1
    <3> HIDE DEF New, v
    <3>4. v \in Int
      BY <3>2 DEF v
    <3> HIDE DEF x
    <3>5. x \in Blocks
      BY <2>1 DEF x
    <3>6. [x EXCEPT !.line = v] \in Blocks /\ [x EXCEPT !.line = v].line = v
          /\ [x EXCEPT !.line = v].type = x.type /\ [x EXCEPT !.line = v].text = x.text
          /\ [x EXCEPT !.line = v].align = x.align /\ [x EXCEPT !.line = v].count = x.count
      BY <3>4, <3>5 DEF Blocks
    <3>7. ~(k <= after)
      BY <2>2
    <3> QED
      BY <3>3, <3>6, <3>7 DEF Alike, B, v, x
  <2>3. CASE ~(k > after)
    BY <2>1, <2>3 DEF Blocks, Alike
  <2> QED
    BY <2>2, <2>3
<1>3. moved = [k \in 1 .. Len(blocks) |-> New(k)]
  BY <1>1 DEF LinesMoved
<1> HIDE DEF New, B, moved
<1>4. moved \in [1 .. Len(blocks) -> B]
  BY <1>2, <1>3
<1>5. moved \in Seq(B) /\ Len(moved) = Len(blocks)
  BY <1>1, <1>4, SeqDef, LenProperties
<1> QED
  BY <1>2, <1>3, <1>5 DEF moved, B

\* What each block of the last build is.
BackOf(kept) == LinesMoved(kept.blocks, kept.front + kept.newWindow, -kept.lineShift)

IsBack(kept, was) ==
    /\ was \in Seq(Blocks)
    /\ OldCount(kept) = Len(was)
    /\ \A j \in 1 .. Len(was) : Old(kept, j) \in Blocks /\ Alike(Old(kept, j), was[j])
    /\ kept.spliced =>
         /\ \A j \in 1 .. kept.front : j \in 1 .. Len(kept.blocks) /\ was[j] = kept.blocks[j]
         /\ \A j \in 1 .. Len(was) : j > kept.front + kept.oldWindow =>
              LET k == j - kept.oldWindow + kept.newWindow
              IN  /\ k \in 1 .. Len(kept.blocks) /\ Alike(was[j], kept.blocks[k])
                  /\ was[j].line + kept.lineShift = kept.blocks[k].line /\ was[j].count = kept.blocks[k].count

LEMMA BackIs ==
    ASSUME NEW kept, WellFormed(kept), kept.parsed
    PROVE  IsBack(kept, UndoBlocks(kept).blocks)
<1> DEFINE was == UndoBlocks(kept).blocks
           B == Blocks
<1>1. /\ kept.blocks \in Seq(B) /\ kept.displaced \in Seq(B) /\ kept.front \in Nat /\ kept.oldWindow \in Nat
      /\ kept.newWindow \in Nat /\ kept.lineShift \in Int /\ kept.spliced \in BOOLEAN
      /\ kept \in Stores
  BY DEF WellFormed, Stores
<1>2. CASE ~kept.spliced
  <2>1. was = kept.displaced
    <3> HIDE DEF B
    <3> QED
      BY <1>1, <1>2 DEF UndoBlocks, Stores
  <2> HIDE DEF was
  <2>2. \A j \in 1 .. Len(was) : was[j] \in B
    BY <1>1, <2>1
  <2> QED
    BY <1>1, <1>2, <2>1, <2>2 DEF was, IsBack, OldCount, Old, Alike
<1>3. CASE kept.spliced
  <2> DEFINE back == BackOf(kept)
             a == SubSeq(back, 1, kept.front)
             b == kept.displaced
             c == SubSeq(back, kept.front + kept.newWindow + 1, Len(back))
             N == Len(kept.blocks)
             f == kept.front
             o == kept.oldWindow
             w == kept.newWindow
  <2>0. f \in Nat /\ o \in Nat /\ w \in Nat
    BY <1>1
  <2>1. f + w <= N /\ Len(b) = o
    BY <1>3 DEF WellFormed
  <2>2. was = a \o b \o c
    <3> HIDE DEF B
    <3> QED
      BY <1>1, <1>3 DEF UndoBlocks, Stores, BackOf
  <2>3. /\ back \in Seq(B) /\ Len(back) = N
        /\ \A k \in 1 .. N : /\ Alike(back[k], kept.blocks[k]) /\ back[k].count = kept.blocks[k].count
                             /\ k <= f + w => back[k] = kept.blocks[k]
                             /\ k > f + w => back[k].line = kept.blocks[k].line + (-kept.lineShift)
    <3> DEFINE after == f + w
               by == -kept.lineShift
    <3>1. after \in Int /\ by \in Int
      BY <1>1
    <3>2. back = LinesMoved(kept.blocks, after, by)
      BY DEF BackOf
    <3> HIDE DEF after, by, back
    <3>3. /\ back \in Seq(Blocks) /\ Len(back) = N
          /\ \A k \in 1 .. N : /\ Alike(back[k], kept.blocks[k]) /\ back[k].count = kept.blocks[k].count
                               /\ k <= after => back[k] = kept.blocks[k]
                               /\ k > after => back[k].line = kept.blocks[k].line + by
      BY <1>1, <3>1, <3>2, LinesMovedIs
    <3> QED
      BY <3>3 DEF after, by
  <2> HIDE DEF was, back, B
  <2>4. N \in Nat
    BY <1>1
  <2>5. a \in Seq(B) /\ Len(a) = f /\ \A j \in 1 .. f : a[j] = back[j]
    <3>1. \A k \in 1 .. f : k \in 1 .. Len(back)
      BY <1>1, <2>1, <2>3, <2>4
    <3>2. \A k \in 1 .. f : back[k] \in B
      BY <2>3, <3>1
    <3> QED
      BY <1>1, <2>1, <2>3, <2>4, <3>2, SubSeqProperties
  <2>6. c \in Seq(B) /\ Len(c) = N - (f + w) /\ \A j \in 1 .. N - (f + w) : c[j] = back[f + w + j]
    <3>1. f + w + 1 \in Int /\ f + w + 1 <= N + 1
      BY <1>1, <2>1, <2>4
    <3>2. \A k \in f + w + 1 .. N : back[k] \in B
      <4> TAKE k \in f + w + 1 .. N
      <4>1. k \in 1 .. Len(back)
        BY <1>1, <2>3, <2>4
      <4> QED
        BY <2>3, <4>1
    <3> DEFINE m == f + w + 1
    <3>3. c = SubSeq(back, m, N)
      BY <2>3
    <3>4. c \in Seq(B) /\ Len(c) = (IF m <= N THEN N - m + 1 ELSE 0) /\ \A j \in 1 .. N - m + 1 : c[j] = back[m + j - 1]
      <4> HIDE DEF c, m
      <4>1. m \in Int
        BY <3>1 DEF m
      <4>2. \A k \in m .. N : k \in 1 .. Len(back)
        BY <1>1, <2>3, <2>4 DEF m
      <4> QED
        BY <1>1, <2>3, <2>4, <3>1, <3>2, <3>3, <4>1, <4>2, SubSeqProperties
    <3> HIDE DEF c
    <3> QED
      BY <1>1, <2>1, <2>4, <3>4
  <2> HIDE DEF a, b, c
  <2>7. a \o b \in Seq(B) /\ Len(a \o b) = f + o
        /\ (\A j \in 1 .. f : (a \o b)[j] = a[j]) /\ \A j \in f + 1 .. f + o : (a \o b)[j] = b[j - f]
    <3>1. b \in Seq(B)
      BY <1>1 DEF b, B
    <3>2. /\ a \o b \in Seq(B) /\ Len(a \o b) = Len(a) + Len(b)
          /\ \A i \in 1 .. Len(a) + Len(b) : (a \o b)[i] = IF i <= Len(a) THEN a[i] ELSE b[i - Len(a)]
      <4>1. a \in Seq(B)
        BY <2>5
      <4> QED
        BY <3>1, <4>1, ConcatProperties
    <3> QED
      BY <2>0, <2>1, <2>5, <3>2
  <2>8. was \in Seq(B) /\ Len(was) = f + o + (N - (f + w))
        /\ (\A j \in 1 .. f + o : was[j] = (a \o b)[j])
        /\ \A j \in f + o + 1 .. f + o + (N - (f + w)) : was[j] = c[j - (f + o)]
    <3> DEFINE ab == a \o b
    <3> HIDE DEF ab
    <3>1. /\ ab \o c \in Seq(B) /\ Len(ab \o c) = Len(ab) + Len(c)
          /\ \A i \in 1 .. Len(ab) + Len(c) : (ab \o c)[i] = IF i <= Len(ab) THEN ab[i] ELSE c[i - Len(ab)]
      BY <2>6, <2>7, ConcatProperties DEF ab
    <3>2. was = ab \o c /\ Len(ab) = f + o
      BY <2>2, <2>7 DEF ab
    <3>3. f + o \in Nat /\ N - (f + w) \in Nat
      BY <2>0, <2>1, <2>4
    <3>4. was \in Seq(B) /\ Len(was) = f + o + (N - (f + w))
      BY <2>6, <3>1, <3>2
    <3>5. ASSUME NEW j \in 1 .. f + o PROVE was[j] = ab[j]
      <4>1. j <= Len(ab) /\ j \in 1 .. Len(ab) + Len(c)
        BY <2>6, <3>2, <3>3
      <4> QED
        BY <3>1, <3>2, <4>1
    <3>6. ASSUME NEW j \in f + o + 1 .. f + o + (N - (f + w)) PROVE was[j] = c[j - (f + o)]
      <4>1. ~(j <= Len(ab)) /\ j \in 1 .. Len(ab) + Len(c)
        BY <2>6, <3>2, <3>3
      <4> QED
        BY <3>1, <3>2, <4>1
    <3> QED
      BY <3>4, <3>5, <3>6 DEF ab
  <2>9. OldCount(kept) = Len(was)
    BY <1>1, <1>3, <2>1, <2>4, <2>8 DEF OldCount
  <2>10. ASSUME NEW j \in 1 .. f PROVE j \in 1 .. N /\ was[j] = kept.blocks[j] /\ Old(kept, j) = kept.blocks[j]
    <3>1. j \in 1 .. f + o /\ j \in 1 .. N /\ j <= f + w /\ j <= f
      BY <1>1, <2>1, <2>4
    <3> QED
      BY <1>3, <2>3, <2>5, <2>7, <2>8, <3>1 DEF Old
  <2>11. ASSUME NEW j \in f + 1 .. f + o PROVE was[j] = b[j - f] /\ Old(kept, j) = b[j - f]
    <3>1. j \in 1 .. f + o /\ ~(j <= f) /\ j <= f + o
      BY <1>1, <2>1, <2>4
    <3> QED
      BY <1>3, <2>7, <2>8, <3>1 DEF Old, b
  <2>12. ASSUME NEW j \in 1 .. Len(was), j > f + o
         PROVE  LET k == j - o + w
                IN  /\ k \in 1 .. N /\ Alike(was[j], kept.blocks[k]) /\ Old(kept, j) = kept.blocks[k]
                    /\ was[j].line + kept.lineShift = kept.blocks[k].line /\ was[j].count = kept.blocks[k].count
    <3> DEFINE k == j - o + w
    <3>1. /\ k \in 1 .. N /\ k > f + w /\ ~(j <= f) /\ ~(j <= f + o) /\ k = f + w + (j - (f + o))
          /\ j \in f + o + 1 .. f + o + (N - (f + w)) /\ j - (f + o) \in 1 .. N - (f + w)
      <4>1. Len(was) = f + o + (N - (f + w)) /\ j \in 1 .. Len(was) /\ j > f + o
        BY <2>8, <2>12
      <4> HIDE DEF f, o, w, N
      <4> QED
        BY <2>0, <2>1, <2>4, <4>1
    <3>2. was[j] = back[k]
      BY <2>6, <2>8, <3>1
    <3>3. Old(kept, j) = kept.blocks[k]
      BY <1>3, <3>1 DEF Old
    <3>4. kept.blocks[k] \in Blocks
      BY <1>1, <3>1 DEF B
    <3>5. kept.blocks[k].line \in Int
      BY <3>4 DEF Blocks
    <3> HIDE DEF k
    <3>6. was[j].line = kept.blocks[k].line + (-kept.lineShift)
      BY <2>3, <3>1, <3>2
    <3>7. was[j].line + kept.lineShift = kept.blocks[k].line
      BY <1>1, <3>5, <3>6
    <3> QED
      BY <2>3, <3>1, <3>2, <3>3, <3>7 DEF k
  <2>13. ASSUME NEW j \in 1 .. Len(was) PROVE Old(kept, j) \in Blocks /\ Alike(Old(kept, j), was[j])
    <3>1. CASE j <= f
      <4>1. j \in 1 .. f
        BY <1>1, <3>1
      <4>2. kept.blocks[j] \in Blocks
        BY <1>1, <2>10, <4>1 DEF B
      <4> QED
        BY <2>10, <4>1, <4>2 DEF Alike
    <3>2. CASE j > f /\ j <= f + o
      <4>1. j \in f + 1 .. f + o /\ j - f \in 1 .. o
        BY <1>1, <3>2
      <4>2. b[j - f] \in Blocks
        BY <1>1, <2>1, <4>1 DEF b, B
      <4> QED
        BY <2>11, <4>1, <4>2 DEF Alike
    <3>3. CASE j > f + o
      <4>1. kept.blocks[j - o + w] \in Blocks
        BY <1>1, <2>12, <3>3 DEF B
      <4> QED
        BY <2>12, <3>3, <4>1 DEF Alike
    <3> QED
      BY <1>1, <2>8, <3>1, <3>2, <3>3
  <2> QED
    BY <1>3, <2>8, <2>9, <2>10, <2>12, <2>13 DEF IsBack, was, B
<1> QED
  BY <1>1, <1>2, <1>3

LEMMA BeyondIs ==
    ASSUME NEW kept, WellFormed(kept), NEW k \in Int, NEW j \in Int, k > kept.front + kept.newWindow,
           j + kept.newWindow = k + kept.oldWindow
    PROVE  j > kept.front + kept.oldWindow /\ k = j - kept.oldWindow + kept.newWindow
<1> DEFINE f == kept.front
           o == kept.oldWindow
           w == kept.newWindow
<1>1. f \in Int /\ o \in Int /\ w \in Int
  BY DEF WellFormed, Stores
<1>2. k > f + w /\ j + w = k + o
  OBVIOUS
<1> HIDE DEF f, o, w
<1>3. j > f + o /\ k = j - o + w
  BY <1>1, <1>2
<1> QED
  BY <1>3 DEF f, o, w

LEMMA AlikeIs ==
    ASSUME NEW kept, WellFormed(kept), NEW was, IsBack(kept, was),
           NEW k \in 1 .. Len(kept.blocks), NEW j \in 1 .. Len(was),
           Kept(kept, k, j) \/ SameBlock(kept.blocks[k], Old(kept, j))
    PROVE  Alike(kept.blocks[k], was[j])
<1>1. /\ kept.blocks \in Seq(Blocks) /\ kept.front \in Nat /\ kept.oldWindow \in Nat /\ kept.newWindow \in Nat
  BY DEF WellFormed, Stores
<1>2. kept.blocks[k] \in Blocks
  BY <1>1
<1>3. CASE SameBlock(kept.blocks[k], Old(kept, j))
  <2>1. Old(kept, j) \in Blocks /\ Alike(Old(kept, j), was[j])
    BY DEF IsBack
  <2>2. Alike(kept.blocks[k], Old(kept, j))
    BY <1>2, <1>3, <2>1, SameIsAlike
  <2> QED
    BY <2>1, <2>2 DEF Alike
<1>4. CASE kept.spliced /\ k <= kept.front /\ j = k
  <2>1. j \in 1 .. kept.front
    BY <1>1, <1>4
  <2>2. was[j] = kept.blocks[j]
    BY <1>4, <2>1 DEF IsBack
  <2> QED
    BY <1>4, <2>2 DEF Alike
<1>5. CASE kept.spliced /\ k > kept.front + kept.newWindow /\ j + kept.newWindow = k + kept.oldWindow
  <2>1. j > kept.front + kept.oldWindow /\ k = j - kept.oldWindow + kept.newWindow
    <3>1. k \in Int /\ j \in Int
      OBVIOUS
    <3> QED
      BY <1>5, <3>1, BeyondIs
  <2>2. Alike(was[j], kept.blocks[j - kept.oldWindow + kept.newWindow])
    BY <1>5, <2>1 DEF IsBack
  <2>3. Alike(was[j], kept.blocks[k])
    BY <2>1, <2>2
  <2> QED
    BY <2>3 DEF Alike
<1> QED
  BY <1>3, <1>4, <1>5 DEF Kept

Stands(entry, block) == entry.line = block.line /\ entry.end = block.line + block.count
MapOf(block, page, endPage) ==
    [line |-> block.line, end |-> block.line + block.count, page |-> page, endPage |-> endPage]

LEMMA MapIs ==
    ASSUME NEW kept, WellFormed(kept), NEW was, IsBack(kept, was), NEW l, l.store = kept,
           NEW k \in 1 .. Len(kept.blocks), NEW j \in 1 .. Len(was), NEW run, NEW spot,
           Stands(l.last.map[j], was[j])
    PROVE  MovedMap(l, run, spot, k, j) =
             MapOf(kept.blocks[k], OnPage(l, run, spot, l.last.map[j].page), OnPage(l, run, spot, l.last.map[j].endPage))
<1> DEFINE entry == l.last.map[j]
           own == kept.blocks[k]
           before == kept.spliced /\ k <= kept.front /\ j = k
           after == kept.spliced /\ k > kept.front + kept.newWindow /\ j + kept.newWindow = k + kept.oldWindow
           Line(of, its) == IF before THEN of ELSE IF after THEN of + kept.lineShift ELSE its
<1>1. /\ kept.blocks \in Seq(Blocks) /\ kept.front \in Nat /\ kept.oldWindow \in Nat /\ kept.newWindow \in Nat
      /\ kept.lineShift \in Int /\ was \in Seq(Blocks)
  BY DEF WellFormed, Stores, IsBack
<1>2. own \in Blocks /\ was[j] \in Blocks
  BY <1>1
<1>3. own.line \in Int /\ own.count \in Int /\ was[j].line \in Int /\ was[j].count \in Int
  BY <1>2 DEF Blocks
<1>4. Line(entry.line, own.line) = own.line /\ Line(entry.end, own.line + own.count) = own.line + own.count
  <2>0. entry.line = was[j].line /\ entry.end = was[j].line + was[j].count
    BY DEF Stands
  <2>1. CASE before
    <3>1. j \in 1 .. kept.front
      BY <1>1, <2>1
    <3>2. was[j] = own
      BY <2>1, <3>1 DEF IsBack
    <3> QED
      BY <2>0, <2>1, <3>2
  <2>2. CASE ~before /\ after
    <3>1. j > kept.front + kept.oldWindow /\ k = j - kept.oldWindow + kept.newWindow
      <4>1. k \in Int /\ j \in Int
        OBVIOUS
      <4> QED
        BY <2>2, <4>1, BeyondIs
    <3>2. LET n == j - kept.oldWindow + kept.newWindow
          IN  was[j].line + kept.lineShift = kept.blocks[n].line /\ was[j].count = kept.blocks[n].count
      BY <2>2, <3>1 DEF IsBack
    <3>3. was[j].line + kept.lineShift = own.line /\ was[j].count = own.count
      BY <3>1, <3>2
    <3>4. Line(entry.line, own.line) = was[j].line + kept.lineShift
      BY <2>0, <2>2
    <3>5. Line(entry.end, own.line + own.count) = (was[j].line + was[j].count) + kept.lineShift
      BY <2>0, <2>2
    <3> QED
      BY <1>1, <1>3, <3>3, <3>4, <3>5
  <2>3. CASE ~before /\ ~after
    BY <2>3
  <2> QED
    BY <2>1, <2>2, <2>3
<1>5. MovedMap(l, run, spot, k, j) =
        [line |-> Line(entry.line, own.line), end |-> Line(entry.end, own.line + own.count),
         page |-> OnPage(l, run, spot, entry.page), endPage |-> OnPage(l, run, spot, entry.endPage)]
  BY DEF MovedMap
<1> HIDE DEF Line, own
<1>6. MovedMap(l, run, spot, k, j) = MapOf(own, OnPage(l, run, spot, entry.page), OnPage(l, run, spot, entry.endPage))
  BY <1>4, <1>5 DEF MapOf
<1> QED
  BY <1>6 DEF own

-----------------------------------------------------------------------------
(***************************************************************************)
(* A run of blocks that may be taken from the tape: the blocks k to end-1, *)
(* each the last build's so many blocks further on, and after them a block *)
(* that no heading of the run depends on.                                  *)
(***************************************************************************)
BlocksMatch(l, k, end, d, was) ==
    \A e \in k .. end - 1 : OldIndex(l, e) = e + d /\ e + d \in 1 .. was /\ Same(l, e, e + d)

LEMMA ShiftedIs ==
    ASSUME NEW kept, NEW last, NEW font, NEW contents, Len(kept.blocks) \in Nat, kept.front \in Nat,
           OldCount(kept) \in Nat
    PROVE  Begin(kept, last, font, contents).shifted \in 1 .. Len(kept.blocks) + 1
<1> DEFINE l == Begin(kept, last, font, contents)
           count == Len(kept.blocks)
           was == OldCount(kept)
           usable == last.renderer = font /\ was = Len(last.drawn)
           plain == [store |-> kept, last |-> last, usable |-> usable, contents |-> contents,
                     contentsSame |-> usable /\ contents = last.contents, shifted |-> count + 1]
           common == Min({count, was})
           known == IF kept.spliced /\ plain.contentsSame THEN Min({kept.front, common}) ELSE 0
           T == {k \in known + 1 .. common : ~Same(plain, k, k)} \cup {common + 1}
<1>1. l = IF ~usable \/ count = was THEN plain ELSE [plain EXCEPT !.shifted = Min(T)]
  BY DEF Begin
<1>2. common \in Nat /\ common <= count
  <2>1. {count, was} \subseteq Nat /\ {count, was} # {}
    OBVIOUS
  <2>2. common \in {count, was} /\ \A y \in {count, was} : common <= y
    <3> HIDE DEF count, was
    <3> QED
      BY <2>1, LeastType
  <2> QED
    BY <2>2
<1> HIDE DEF common
<1>3. known \in Nat
  <2>1. {kept.front, common} \subseteq Nat /\ {kept.front, common} # {}
    BY <1>2
  <2>2. Min({kept.front, common}) \in {kept.front, common}
    BY <2>1, LeastType
  <2> QED
    BY <1>2, <2>2
<1> HIDE DEF known, plain, count
<1>4. T \subseteq 1 .. common + 1 /\ T # {} /\ T \subseteq Nat
  BY <1>2, <1>3
<1>5. Min(T) \in 1 .. common + 1
  <2> HIDE DEF T
  <2>1. Min(T) \in T
    BY <1>4, LeastType
  <2> QED
    BY <1>4, <2>1
<1> HIDE DEF T
<1>6. Min(T) \in 1 .. count + 1
  BY <1>2, <1>5 DEF count
<1>7. plain.shifted = count + 1 /\ [plain EXCEPT !.shifted = Min(T)].shifted = Min(T)
  BY DEF plain
<1>8. count + 1 \in 1 .. count + 1
  BY DEF count
<1> QED
  BY <1>1, <1>6, <1>7, <1>8 DEF count

LEMMA RunIs ==
    ASSUME NEW l, NEW N \in Nat, N = Len(l.store.blocks), NEW M \in Nat, M = OldCount(l.store),
           l.shifted \in 1 .. N + 1, NEW k \in 1 .. N
    PROVE  LET d == IF k < l.shifted THEN 0 ELSE M - N
           IN  /\ RunFrom(l, k) \in k .. N + 1 /\ OldIndex(l, k) = k + d
               /\ BlocksMatch(l, k, RunFrom(l, k), d, M)
<1> DEFINE d == IF k < l.shifted THEN 0 ELSE M - N
           stop == IF k < l.shifted THEN l.shifted ELSE N + 1
           T == {e \in k .. stop - 1 : \/ OldIndex(l, e) \notin 1 .. M \/ ~Same(l, e, OldIndex(l, e))} \cup {stop}
           end == RunFrom(l, k)
<1>1. end = Min(T)
  BY DEF RunFrom
<1>2. stop \in k .. N + 1
  OBVIOUS
<1>3. \A e \in k .. stop - 1 : OldIndex(l, e) = e + d
  <2> TAKE e \in k .. stop - 1
  <2>1. CASE k < l.shifted
    BY <2>1 DEF OldIndex
  <2>2. CASE ~(k < l.shifted)
    <3>1. ~(e < l.shifted)
      BY <2>2
    <3>2. OldIndex(l, e) = e + M - N
      BY <3>1 DEF OldIndex
    <3> QED
      BY <2>2, <3>2
  <2> QED
    BY <2>1, <2>2
<1>4. OldIndex(l, k) = k + d
  <2>1. CASE k < l.shifted
    BY <2>1 DEF OldIndex
  <2>2. CASE ~(k < l.shifted)
    BY <2>2 DEF OldIndex
  <2> QED
    BY <2>1, <2>2
<1> HIDE DEF stop, d, end
<1>5. T \subseteq k .. stop /\ T \subseteq Nat /\ T # {}
  BY <1>2
<1>6. end \in T /\ \A y \in T : end <= y
  <2> HIDE DEF T
  <2> QED
    BY <1>1, <1>5, LeastType
<1>7. end \in k .. stop /\ end \in k .. N + 1
  <2> HIDE DEF T
  <2> QED
    BY <1>2, <1>5, <1>6
<1>8. ASSUME NEW e \in k .. end - 1 PROVE OldIndex(l, e) = e + d /\ e + d \in 1 .. M /\ Same(l, e, e + d)
  <2>1. e \in k .. stop - 1 /\ e \in Int /\ ~(end <= e)
    BY <1>2, <1>7
  <2>2. e \notin T
    <3> HIDE DEF T
    <3> QED
      BY <1>6, <2>1
  <2>3. OldIndex(l, e) \in 1 .. M /\ Same(l, e, OldIndex(l, e))
    BY <2>1, <2>2
  <2> QED
    BY <1>3, <2>1, <2>3
<1> QED
  BY <1>4, <1>7, <1>8 DEF BlocksMatch, d, end

IsTaken(l, k, spot, end, d, count, was) ==
    /\ l.usable
    /\ l.last.marks[k + d].y = spot.y /\ l.last.marks[k + d].contents = spot.contents
    /\ BlocksMatch(l, k, end, d, was)
    /\ \/ l.store.blocks[end - 1].type # "Heading"
       \/ end = count + 1 /\ end - 1 + d = was

LEMMA TakenIs ==
    ASSUME NEW l, NEW N \in Nat, N = Len(l.store.blocks), NEW M \in Nat, M = OldCount(l.store),
           l.shifted \in 1 .. N + 1, NEW k \in 1 .. N, NEW spot, Replayable(l, k, spot) # k
    PROVE  /\ Replayable(l, k, spot) \in k + 1 .. N + 1
           /\ \E d \in Int : IsTaken(l, k, spot, Replayable(l, k, spot), d, N, M)
<1> DEFINE d == IF k < l.shifted THEN 0 ELSE M - N
           end == RunFrom(l, k)
           upTo == Replayable(l, k, spot)
           before == l.last.marks[OldIndex(l, k)]
           both == end = N + 1 /\ OldIndex(l, end - 1) = M
           T == {k} \cup {e \in k + 1 .. end : l.store.blocks[e - 1].type # "Heading"}
<1>1. end \in k .. N + 1 /\ OldIndex(l, k) = k + d /\ BlocksMatch(l, k, end, d, M)
  BY RunIs
<1>2. d \in Int
  OBVIOUS
<1>3. upTo = IF ~l.usable \/ OldIndex(l, k) \notin 1 .. M THEN k
              ELSE IF before.y # spot.y \/ before.contents # spot.contents THEN k
              ELSE IF end = k \/ both THEN end
              ELSE TrimHeadings(l, k, end)
  BY DEF Replayable
<1>4. TrimHeadings(l, k, end) = Max(T)
  BY DEF TrimHeadings
<1> HIDE DEF d, end, upTo
<1>5. l.usable /\ before.y = spot.y /\ before.contents = spot.contents /\ upTo # k
  BY <1>3 DEF upTo
<1>6. CASE end = k
  BY <1>3, <1>5, <1>6
<1>7. CASE end # k /\ both
  <2>1. upTo = end
    BY <1>3, <1>5, <1>7
  <2>2. end - 1 \in k .. end - 1
    BY <1>1, <1>7
  <2>3. end - 1 + d = M
    BY <1>1, <1>7, <2>2 DEF BlocksMatch
  <2>4. IsTaken(l, k, spot, upTo, d, N, M)
    BY <1>1, <1>5, <1>7, <2>1, <2>3 DEF IsTaken
  <2>5. upTo \in k + 1 .. N + 1
    BY <1>1, <1>7, <2>1
  <2> QED
    BY <1>2, <2>4, <2>5 DEF upTo
<1>8. CASE end # k /\ ~both
  <2>1. upTo = Max(T)
    BY <1>3, <1>4, <1>5, <1>8
  <2>2. T \subseteq 0 .. N + 1 /\ T # {} /\ N + 1 \in Nat
    BY <1>1
  <2>3. upTo \in T
    <3> HIDE DEF T
    <3> QED
      BY <2>1, <2>2, GreatestType
  <2>4. upTo \in k + 1 .. end /\ l.store.blocks[upTo - 1].type # "Heading"
    BY <1>5, <2>3
  <2>5. BlocksMatch(l, k, upTo, d, M)
    <3>1. \A e \in k .. upTo - 1 : e \in k .. end - 1
      BY <1>1, <2>4
    <3> QED
      BY <1>1, <3>1 DEF BlocksMatch
  <2>6. IsTaken(l, k, spot, upTo, d, N, M)
    BY <1>1, <1>5, <2>4, <2>5 DEF IsTaken
  <2>7. upTo \in k + 1 .. N + 1
    BY <1>1, <2>4
  <2> QED
    BY <1>2, <2>6, <2>7 DEF upTo
<1> QED
  BY <1>6, <1>7, <1>8

\* The room a heading of the run keeps is the same in both builds.
LEMMA KeepSame ==
    ASSUME NEW blocks \in Seq(Blocks), NEW was \in Seq(Blocks), NEW k \in 1 .. Len(blocks),
           NEW end \in k + 1 .. Len(blocks) + 1, NEW d \in Int,
           \A e \in k .. end - 1 : e + d \in 1 .. Len(was) /\ Alike(blocks[e], was[e + d]),
           \/ blocks[end - 1].type # "Heading"
           \/ end = Len(blocks) + 1 /\ end - 1 + d = Len(was),
           NEW e \in k .. end - 1, blocks[e].type = "Heading"
    PROVE  HeadingKeep(blocks, e) = HeadingKeep(was, e + d)
<1> DEFINE N == Len(blocks)
           M == Len(was)
           T == {n \in e + 1 .. N : blocks[n].type # "Heading"} \cup {N + 1}
           S == {n \in e + d + 1 .. M : was[n].type # "Heading"} \cup {M + 1}
           x == Min(T)
           y == Min(S)
<1>1. /\ N \in Nat /\ M \in Nat /\ e \in 1 .. N /\ e + d \in 1 .. M
      /\ end \in Int /\ end <= N + 1 /\ k \in Int /\ k <= e /\ e <= end - 1
  OBVIOUS
<1>2. HeadingKeep(blocks, e) = (x - e - 1) + (IF x <= N THEN KeepLines ELSE 0)
  BY DEF HeadingKeep
<1>3. HeadingKeep(was, e + d) = (y - (e + d) - 1) + (IF y <= M THEN KeepLines ELSE 0)
  BY DEF HeadingKeep
<1>4. T \subseteq Nat /\ T # {} /\ S \subseteq Int
  BY <1>1
<1>5. x \in T /\ \A n \in T : x <= n
  <2> HIDE DEF T
  <2> QED
    BY <1>4, LeastType
<1> HIDE DEF x
<1>6. x \in e + 1 .. N + 1 /\ (x <= N => blocks[x].type # "Heading")
  BY <1>1, <1>5
<1>7. ASSUME NEW n \in e + 1 .. N, n < x PROVE blocks[n].type = "Heading"
  <2>1. n \notin T
    <3> HIDE DEF T
    <3>1. ~(x <= n)
      BY <1>1, <1>6, <1>7
    <3> QED
      BY <1>5, <3>1
  <2> QED
    BY <2>1
<1>8. ASSUME NEW n \in e + d + 1 .. M, n - d < x, n - d < end PROVE was[n].type = "Heading"
  <2>1. n - d \in e + 1 .. N /\ n - d \in k .. end - 1 /\ (n - d) + d = n
    <3>1. n \in Int /\ e + d + 1 <= n
      BY <1>1
    <3>2. n - d < x /\ n - d < end
      BY <1>8
    <3> HIDE DEF N, M, x
    <3>3. n - d \in Int /\ e + 1 <= n - d /\ n - d <= N /\ (n - d) + d = n
      BY <1>1, <3>1, <3>2
    <3> DEFINE v == n - d
    <3>4. v \in Int /\ e + 1 <= v /\ v <= N /\ v < end
      BY <3>2, <3>3
    <3> HIDE DEF v
    <3>5. v \in e + 1 .. N
      BY <1>1, <3>4
    <3>6. v \in k .. end - 1
      BY <1>1, <3>4
    <3> QED
      BY <3>3, <3>5, <3>6 DEF v
  <2>2. blocks[n - d].type = "Heading"
    BY <1>7, <1>8, <2>1
  <2>3. Alike(blocks[n - d], was[(n - d) + d])
    BY <2>1
  <2> QED
    BY <2>1, <2>2, <2>3 DEF Alike
<1>9. CASE x <= end - 1
  <2>1. x \in k .. end - 1 /\ x <= N
    BY <1>1, <1>6, <1>9
  <2>2. x + d \in 1 .. M /\ was[x + d].type # "Heading"
    BY <1>6, <2>1 DEF Alike
  <2>3. x + d \in S
    BY <1>1, <1>6, <2>2
  <2>4. \A n \in S : x + d <= n
    <3> TAKE n \in S
    <3>1. CASE n = M + 1
      BY <1>1, <2>2, <3>1
    <3>2. CASE n # M + 1
      <4>1. n \in e + d + 1 .. M /\ was[n].type # "Heading"
        BY <3>2
      <4>2. ~(n - d < x)
        <5>1. n - d < x => n - d < end
          BY <1>1, <1>6, <1>9, <4>1
        <5> QED
          BY <1>8, <4>1, <5>1
      <4> QED
        BY <1>1, <1>6, <4>1, <4>2
    <3> QED
      BY <3>1, <3>2
  <2>5. y = x + d
    <3> HIDE DEF S
    <3> QED
      BY <1>4, <2>3, <2>4, LeastIs
  <2> HIDE DEF y
  <2>6. y <= M /\ x <= N /\ y - (e + d) - 1 = x - e - 1
    BY <1>1, <1>6, <2>1, <2>2, <2>5
  <2> QED
    BY <1>2, <1>3, <2>6
<1>10. CASE ~(x <= end - 1)
  <2>1. blocks[end - 1].type = "Heading"
    <3>1. CASE end - 1 = e
      BY <3>1
    <3>2. CASE end - 1 # e
      <4>1. end - 1 \in e + 1 .. N /\ end - 1 < x
        BY <1>1, <1>6, <1>10, <3>2
      <4> QED
        BY <1>7, <4>1
    <3> QED
      BY <3>1, <3>2
  <2>2. end = N + 1 /\ end - 1 + d = M
    BY <2>1
  <2>3. x = N + 1
    BY <1>1, <1>6, <1>10, <2>2
  <2>4. \A n \in S : M + 1 <= n
    <3> TAKE n \in S
    <3>1. CASE n = M + 1
      BY <1>1, <3>1
    <3>2. CASE n # M + 1
      <4>1. n \in e + d + 1 .. M /\ was[n].type # "Heading"
        BY <3>2
      <4>2. n - d < x /\ n - d < end
        BY <1>1, <2>2, <2>3, <4>1
      <4> QED
        BY <1>8, <4>1, <4>2
    <3> QED
      BY <3>1, <3>2
  <2>5. M + 1 \in S
    OBVIOUS
  <2>6. y = M + 1
    <3> HIDE DEF S
    <3> QED
      BY <1>4, <2>4, <2>5, LeastIs
  <2> HIDE DEF y, N, M
  <2>7. ~(y <= M) /\ ~(x <= N) /\ y - (e + d) - 1 = x - e - 1
    BY <1>1, <2>2, <2>3, <2>6
  <2> QED
    BY <1>2, <1>3, <2>7
<1> QED
  BY <1>9, <1>10

\* The run stands on other pages than it stood, and nothing else of its layout is different.
Moves(blocks, contents, k, end, d, was, their) ==
    \A e \in k .. end - 1 : e + d \in 1 .. Len(was) /\ SameHere(blocks, contents, e, was, their, e + d)

LEMMA RunMoved ==
    ASSUME NEW blocks \in Seq(Blocks), NEW contents \in Seq(Seq(STRING)),
           NEW was \in Seq(Blocks), NEW their \in Seq(Seq(STRING)),
           NEW k \in 1 .. Len(blocks), NEW end \in k + 1 .. Len(blocks) + 1, NEW d \in Int, NEW c \in Int,
           Moves(blocks, contents, k, end, d, was, their),
           PlacesOf(blocks, contents)[k - 1] = Turned(PlacesOf(was, their)[k - 1 + d], c),
           NEW e \in k - 1 .. end - 1
    PROVE  PlacesOf(blocks, contents)[e] = Turned(PlacesOf(was, their)[e + d], c)
<1> DEFINE p == PlacesOf(blocks, contents)
           q == PlacesOf(was, their)
           N == Len(blocks)
           M == Len(was)
           D == {n \in 0 .. end - k : p[k - 1 + n] = Turned(q[k - 1 + n + d], c)}
<1>1. N \in Nat /\ M \in Nat /\ end - k \in Nat /\ k \in Int /\ end \in Int /\ end <= N + 1 /\ 1 <= k
  OBVIOUS
<1>2. /\ p \in [0 .. N -> Places] /\ \A n \in 1 .. N : p[n] = RenderBlock(blocks, contents, n, p[n - 1]).at
      /\ q \in [0 .. M -> Places] /\ \A n \in 1 .. M : q[n] = RenderBlock(was, their, n, q[n - 1]).at
  BY PlacesAre DEF ArePlaces
<1> HIDE DEF p, q
<1>3. 0 \in D
  <2>1. p[k - 1] = Turned(q[k - 1 + d], c)
    BY DEF p, q
  <2>2. k - 1 + 0 = k - 1 /\ 0 \in 0 .. end - k
    BY <1>1
  <2> QED
    BY <2>1, <2>2
<1>4. ASSUME NEW n \in 1 .. end - k, n - 1 \in D PROVE n \in D
  <2> DEFINE i == k - 1 + n
  <2>1. i \in k .. end - 1 /\ i \in 1 .. N /\ i - 1 = k - 1 + (n - 1) /\ i - 1 + d = i + d - 1 /\ i \in Int
    BY <1>1
  <2>2. p[i - 1] = Turned(q[i - 1 + d], c)
    BY <1>4, <2>1
  <2>3. i + d \in 1 .. M /\ SameHere(blocks, contents, i, was, their, i + d)
    BY <2>1 DEF Moves
  <2>4. q[i + d - 1] \in Places
    <3>1. i + d - 1 \in 0 .. M
      BY <1>1, <2>3
    <3> QED
      BY <1>2, <3>1
  <2> HIDE DEF i
  <2>5. RenderBlock(blocks, contents, i, Turned(q[i + d - 1], c)).at = Turned(RenderBlock(was, their, i + d, q[i + d - 1]).at, c)
    <3>1. i \in 1 .. Len(blocks) /\ i + d \in 1 .. Len(was)
      BY <2>1, <2>3
    <3>2. LET new == RenderBlock(blocks, contents, i, Turned(q[i + d - 1], c))
              old == RenderBlock(was, their, i + d, q[i + d - 1])
          IN  /\ new.at = Turned(old.at, c)
              /\ new.lines = [m \in DOMAIN old.lines |-> LineTurned(old.lines[m], c)]
              /\ new.map = [line |-> blocks[i].line, end |-> blocks[i].line + blocks[i].count,
                            page |-> old.map.page + c, endPage |-> old.map.endPage + c]
      BY <2>3, <2>4, <3>1, BlockMoved
    <3> QED
      BY <3>2
  <2>6. p[i] = RenderBlock(blocks, contents, i, p[i - 1]).at /\ q[i + d] = RenderBlock(was, their, i + d, q[i + d - 1]).at
    BY <1>2, <2>1, <2>3
  <2>7. p[i] = Turned(q[i + d], c)
    BY <2>1, <2>2, <2>5, <2>6
  <2> QED
    BY <2>7 DEF i
<1>5. 0 .. end - k \subseteq D
  <2> HIDE DEF D
  <2> QED
    BY <1>1, <1>3, <1>4, StepByStep
<1>6. e - (k - 1) \in D
  <2>1. e - (k - 1) \in 0 .. end - k
    BY <1>1
  <2> QED
    BY <1>5, <2>1
<1>7. k - 1 + (e - (k - 1)) = e
  BY <1>1
<1> QED
  BY <1>6, <1>7 DEF p, q

LEMMA BlocksMoved ==
    ASSUME NEW blocks \in Seq(Blocks), NEW contents \in Seq(Seq(STRING)),
           NEW was \in Seq(Blocks), NEW their \in Seq(Seq(STRING)),
           NEW k \in 1 .. Len(blocks), NEW end \in k + 1 .. Len(blocks) + 1, NEW d \in Int, NEW c \in Int,
           Moves(blocks, contents, k, end, d, was, their),
           PlacesOf(blocks, contents)[k - 1] = Turned(PlacesOf(was, their)[k - 1 + d], c),
           NEW e \in k .. end - 1
    PROVE  LET new == RenderBlock(blocks, contents, e, PlacesOf(blocks, contents)[e - 1])
               old == RenderBlock(was, their, e + d, PlacesOf(was, their)[e + d - 1])
           IN  /\ new.lines = [n \in DOMAIN old.lines |-> LineTurned(old.lines[n], c)]
               /\ new.map = [line |-> blocks[e].line, end |-> blocks[e].line + blocks[e].count,
                             page |-> old.map.page + c, endPage |-> old.map.endPage + c]
<1>1. /\ Len(blocks) \in Nat /\ Len(was) \in Nat /\ k \in Int /\ end \in Int /\ e \in Int
      /\ e \in 1 .. Len(blocks) /\ e - 1 \in k - 1 .. end - 1 /\ e - 1 + d = e + d - 1
  OBVIOUS
<1>2. e + d \in 1 .. Len(was) /\ SameHere(blocks, contents, e, was, their, e + d)
  BY DEF Moves
<1> DEFINE p == PlacesOf(blocks, contents)
           q == PlacesOf(was, their)
<1>3. p[e - 1] = Turned(q[e + d - 1], c)
  <2>1. p[e - 1] = Turned(q[e - 1 + d], c)
    BY <1>1, RunMoved
  <2> QED
    BY <1>1, <2>1
<1>4. q[e + d - 1] \in Places
  <2>1. q \in [0 .. Len(was) -> Places]
    BY PlacesAre DEF ArePlaces
  <2>2. e + d - 1 \in 0 .. Len(was)
    BY <1>1, <1>2
  <2> HIDE DEF q
  <2> QED
    BY <2>1, <2>2
<1> HIDE DEF p, q
<1>5. LET new == RenderBlock(blocks, contents, e, Turned(q[e + d - 1], c))
          old == RenderBlock(was, their, e + d, q[e + d - 1])
      IN  /\ new.lines = [n \in DOMAIN old.lines |-> LineTurned(old.lines[n], c)]
          /\ new.map = [line |-> blocks[e].line, end |-> blocks[e].line + blocks[e].count,
                        page |-> old.map.page + c, endPage |-> old.map.endPage + c]
  BY <1>1, <1>2, <1>4, BlockMoved
<1> QED
  BY <1>3, <1>5 DEF p, q

LinesBy(lines, c) == [n \in DOMAIN lines |-> LineTurned(lines[n], c)]
DrawnAt(blocks, contents, e) == RenderBlock(blocks, contents, e, PlacesOf(blocks, contents)[e - 1])

StartsOver(blocks, contents, k, d, was, their, c) ==
    PlacesOf(blocks, contents)[k - 1] = Turned(PlacesOf(was, their)[k - 1 + d], c)

\* The whole run, turned by c pages.
RunTurned(blocks, contents, k, end, d, was, their, c) ==
    /\ \A e \in k - 1 .. end - 1 : PlacesOf(blocks, contents)[e] = Turned(PlacesOf(was, their)[e + d], c)
    /\ \A e \in k .. end - 1 :
         /\ DrawnAt(blocks, contents, e).lines = LinesBy(DrawnAt(was, their, e + d).lines, c)
         /\ DrawnAt(blocks, contents, e).map =
              MapOf(blocks[e], DrawnAt(was, their, e + d).map.page + c, DrawnAt(was, their, e + d).map.endPage + c)

LEMMA RunIsTurned ==
    ASSUME NEW blocks \in Seq(Blocks), NEW contents \in Seq(Seq(STRING)),
           NEW was \in Seq(Blocks), NEW their \in Seq(Seq(STRING)),
           NEW k \in 1 .. Len(blocks), NEW end \in k + 1 .. Len(blocks) + 1, NEW d \in Int, NEW c \in Int,
           Moves(blocks, contents, k, end, d, was, their),
           StartsOver(blocks, contents, k, d, was, their, c)
    PROVE  RunTurned(blocks, contents, k, end, d, was, their, c)
<1>1. PlacesOf(blocks, contents)[k - 1] = Turned(PlacesOf(was, their)[k - 1 + d], c)
  BY DEF StartsOver
<1>2. ASSUME NEW e \in k - 1 .. end - 1
      PROVE  PlacesOf(blocks, contents)[e] = Turned(PlacesOf(was, their)[e + d], c)
  BY <1>1, RunMoved
<1>3. ASSUME NEW e \in k .. end - 1
      PROVE  /\ DrawnAt(blocks, contents, e).lines = LinesBy(DrawnAt(was, their, e + d).lines, c)
             /\ DrawnAt(blocks, contents, e).map =
                  MapOf(blocks[e], DrawnAt(was, their, e + d).map.page + c, DrawnAt(was, their, e + d).map.endPage + c)
  <2>1. LET new == RenderBlock(blocks, contents, e, PlacesOf(blocks, contents)[e - 1])
            old == RenderBlock(was, their, e + d, PlacesOf(was, their)[e + d - 1])
        IN  /\ new.lines = [n \in DOMAIN old.lines |-> LineTurned(old.lines[n], c)]
            /\ new.map = [line |-> blocks[e].line, end |-> blocks[e].line + blocks[e].count,
                          page |-> old.map.page + c, endPage |-> old.map.endPage + c]
    BY <1>1, BlocksMoved
  <2> QED
    BY <2>1 DEF DrawnAt, LinesBy, MapOf
<1> QED
  BY <1>2, <1>3 DEF RunTurned

LEMMA ConcatIs ==
    ASSUME NEW n \in Nat, NEW m \in Nat, NEW f, IsTable(f, n), NEW h, IsTable(h, m), NEW g, IsTable(g, n + m),
           \A i \in 1 .. n : f[i] = g[i], \A i \in 1 .. m : h[i] = g[n + i]
    PROVE  f \o h = g
<1> DEFINE T == {g[i] : i \in 1 .. n + m}
<1>0. /\ DOMAIN f = 1 .. n /\ f = [i \in 1 .. n |-> f[i]] /\ DOMAIN h = 1 .. m /\ h = [i \in 1 .. m |-> h[i]]
      /\ g = [i \in 1 .. n + m |-> g[i]]
  BY DEF IsTable
<1>1. f \in Seq(T) /\ Len(f) = n
  <2>1. \A i \in 1 .. n : f[i] \in T
    <3> TAKE i \in 1 .. n
    <3>1. i \in 1 .. n + m /\ f[i] = g[i]
      OBVIOUS
    <3> QED
      BY <3>1
  <2>2. f \in [1 .. n -> T]
    <3> HIDE DEF T
    <3> QED
      BY <1>0, <2>1
  <2> HIDE DEF T
  <2>3. f \in Seq(T)
    BY <2>2, SeqDef
  <2> QED
    BY <2>2, <2>3, LenProperties
<1>2. h \in Seq(T) /\ Len(h) = m
  <2>1. \A i \in 1 .. m : h[i] \in T
    <3> TAKE i \in 1 .. m
    <3>1. n + i \in 1 .. n + m /\ h[i] = g[n + i]
      OBVIOUS
    <3> QED
      BY <3>1
  <2>2. h \in [1 .. m -> T]
    <3> HIDE DEF T
    <3> QED
      BY <1>0, <2>1
  <2> HIDE DEF T
  <2>3. h \in Seq(T)
    BY <2>2, SeqDef
  <2> QED
    BY <2>2, <2>3, LenProperties
<1> HIDE DEF T
<1>3. f \o h \in Seq(T) /\ Len(f \o h) = n + m
      /\ \A i \in 1 .. n + m : (f \o h)[i] = IF i <= n THEN f[i] ELSE h[i - n]
  BY <1>1, <1>2, ConcatProperties
<1>4. ASSUME NEW i \in 1 .. n + m PROVE (f \o h)[i] = g[i]
  <2>1. CASE i <= n
    <3>1. i \in 1 .. n
      BY <2>1
    <3> QED
      BY <1>3, <2>1, <3>1
  <2>2. CASE ~(i <= n)
    <3>1. i - n \in 1 .. m /\ n + (i - n) = i
      BY <2>2
    <3>2. (f \o h)[i] = h[i - n]
      BY <1>3, <2>2
    <3> QED
      BY <3>1, <3>2
  <2> QED
    BY <2>1, <2>2
<1> DEFINE w == f \o h
<1>5. w = [i \in 1 .. n + m |-> w[i]]
  <2>1. DOMAIN w = 1 .. n + m
    BY <1>3, LenProperties
  <2>2. w \in Seq(T)
    BY <1>3
  <2> HIDE DEF w
  <2> QED
    BY <2>1, <2>2, SeqDef
<1> QED
  BY <1>0, <1>4, <1>5

\* What is taken from the tape, its pages turned.
AllTurned(l, run, spot, c) ==
    /\ \A page : OnPage(l, run, spot, page) = page + c
    /\ \A old : MovedMark(l, run, spot, old) = Turned(l.last.marks[old], c)
    /\ \A old : MovedLines(l, run, spot, old) = LinesBy(l.last.drawn[old], c)

LEMMA TurnedIs ==
    ASSUME NEW l, NEW run, NEW spot, NEW c, spot.page - l.last.marks[OldIndex(l, run)].page = c
    PROVE  AllTurned(l, run, spot, c)
<1>1. \A page : OnPage(l, run, spot, page) = page + c
  BY DEF OnPage
<1>2. ASSUME NEW old PROVE MovedMark(l, run, spot, old) = Turned(l.last.marks[old], c)
  <2> DEFINE m == l.last.marks[old]
  <2>1. MovedMark(l, run, spot, old) = [m EXCEPT !.page = OnPage(l, run, spot, m.page)]
    BY DEF MovedMark
  <2>2. Turned(m, c) = [m EXCEPT !.page = m.page + c]
    BY DEF Turned
  <2> HIDE DEF m
  <2> QED
    BY <1>1, <2>1, <2>2 DEF m
<1>3. ASSUME NEW old PROVE MovedLines(l, run, spot, old) = LinesBy(l.last.drawn[old], c)
  <2> DEFINE lines == l.last.drawn[old]
  <2>1. MovedLines(l, run, spot, old) = [i \in DOMAIN lines |-> [lines[i] EXCEPT !.page = OnPage(l, run, spot, lines[i].page)]]
    BY DEF MovedLines
  <2>2. \A i : LineTurned(lines[i], c) = [lines[i] EXCEPT !.page = lines[i].page + c]
    BY DEF LineTurned
  <2> HIDE DEF lines
  <2>3. \A i : [lines[i] EXCEPT !.page = OnPage(l, run, spot, lines[i].page)] = LineTurned(lines[i], c)
    BY <1>1, <2>2
  <2> DEFINE Went(i) == [lines[i] EXCEPT !.page = OnPage(l, run, spot, lines[i].page)]
  <2>4. MovedLines(l, run, spot, old) = [i \in DOMAIN lines |-> Went(i)] /\ \A i : Went(i) = LineTurned(lines[i], c)
    BY <2>1, <2>3
  <2> HIDE DEF Went
  <2> QED
    BY <2>4 DEF lines, LinesBy
<1> QED
  BY <1>1, <1>2, <1>3 DEF AllTurned

IsTape(its, was, their, font) ==
    /\ its.renderer = font /\ its.contents = their /\ Len(its.drawn) = Len(was)
    /\ \A j \in 1 .. Len(was) + 1 : its.marks[j] = PlacesOf(was, their)[j - 1]
    /\ \A j \in 1 .. Len(was) : /\ its.drawn[j] = DrawnAt(was, their, j).lines
                                /\ its.map[j] = DrawnAt(was, their, j).map /\ Stands(its.map[j], was[j])

LEMMA TapeIs ==
    ASSUME NEW was \in Seq(Blocks), NEW their \in Seq(Seq(STRING)), NEW font
    PROVE  IsTape(TapeOf(was, their, font), was, their, font)
<1> DEFINE q == PlacesOf(was, their)
           its == TapeOf(was, their, font)
           marks == [i \in 1 .. Len(was) + 1 |-> q[i - 1]]
           drawn == [i \in 1 .. Len(was) |-> RenderBlock(was, their, i, q[i - 1]).lines]
           map == [i \in 1 .. Len(was) |-> RenderBlock(was, their, i, q[i - 1]).map]
<1>1. its = [renderer |-> font, contents |-> their, marks |-> marks, drawn |-> drawn, map |-> map]
  BY DEF TapeOf
<1>2. \A j \in 1 .. Len(was) + 1 : marks[j] = q[j - 1]
  OBVIOUS
<1>3. \A j \in 1 .. Len(was) : drawn[j] = DrawnAt(was, their, j).lines /\ map[j] = DrawnAt(was, their, j).map
  BY DEF DrawnAt
<1>4. Len(drawn) = Len(was)
  <2>1. DOMAIN drawn = 1 .. Len(was) /\ drawn = [n \in DOMAIN drawn |-> drawn[n]] /\ Len(was) \in Nat
    OBVIOUS
  <2> HIDE DEF drawn
  <2> QED
    BY <2>1, TableLen
<1>6. \A j : Stands(DrawnAt(was, their, j).map, was[j])
  BY DEF DrawnAt, RenderBlock, Stands
<1> HIDE DEF marks, drawn, map, its
<1>5. its.marks = marks /\ its.drawn = drawn /\ its.map = map /\ its.renderer = font /\ its.contents = their
  BY <1>1
<1> HIDE DEF q
<1> QED
  BY <1>2, <1>3, <1>4, <1>5, <1>6 DEF its, q, IsTape

MarksTo(blocks, contents, n) == [i \in 1 .. n |-> PlacesOf(blocks, contents)[i - 1]]
DrawnTo(blocks, contents, n) == [i \in 1 .. n |-> DrawnAt(blocks, contents, i).lines]
MapTo(blocks, contents, n) == [i \in 1 .. n |-> DrawnAt(blocks, contents, i).map]

LEMMA LaidIs ==
    ASSUME NEW blocks \in Seq(Blocks), NEW contents \in Seq(Seq(STRING)), NEW font, NEW n \in 0 .. Len(blocks)
    PROVE  /\ LaidTo(blocks, contents, font, n) =
                [k |-> n + 1, at |-> PlacesOf(blocks, contents)[n],
                 tape |-> TapeRecord(font, contents, MarksTo(blocks, contents, n),
                                     DrawnTo(blocks, contents, n), MapTo(blocks, contents, n))]
           /\ Marked(LaidTo(blocks, contents, font, n)) =
                TapeRecord(font, contents, MarksTo(blocks, contents, n + 1),
                           DrawnTo(blocks, contents, n), MapTo(blocks, contents, n))
<1> DEFINE p == PlacesOf(blocks, contents)
           new == DrawnTo(blocks, contents, n)
           map == MapTo(blocks, contents, n)
           marks == MarksTo(blocks, contents, n)
           all == MarksTo(blocks, contents, n + 1)
           laid == LaidTo(blocks, contents, font, n)
<1>1. laid = [k |-> n + 1, at |-> p[n], tape |-> TapeRecord(font, contents, marks, new, map)]
  BY DEF LaidTo, TapeRecord, MarksTo, DrawnTo, MapTo, DrawnAt
<1>2. Marked(laid) = [renderer |-> font, contents |-> contents, marks |-> all, drawn |-> laid.tape.drawn, map |-> laid.tape.map]
  BY MarkedTo DEF MarksTo
<1> HIDE DEF marks, new, map, laid, all
<1>3. laid.tape = TapeRecord(font, contents, marks, new, map)
  BY <1>1
<1>4. laid.tape.drawn = new /\ laid.tape.map = map
  BY <1>3, TapeFields
<1>5. Marked(laid) = TapeRecord(font, contents, all, new, map)
  BY <1>2, <1>4 DEF TapeRecord
<1> QED
  BY <1>1, <1>5 DEF marks, new, map, laid, all

\* What is taken is what would have been laid out: a table of the drawn, of the map, of the marks.
ReplayDrawn(l, k, end, spot) == [n \in 1 .. end - k |-> MovedLines(l, k, spot, OldIndex(l, k + n - 1))]
ReplayMap(l, k, end, spot) == [n \in 1 .. end - k |-> MovedMap(l, k, spot, k + n - 1, OldIndex(l, k + n - 1))]
ReplayMarks(l, k, end, spot) == [n \in 1 .. end - k - 1 |-> MovedMark(l, k, spot, OldIndex(l, k + (n + 1) - 1))]

\* A run, from block k, of a layout l that has the last build's tape.
IsReplay(kept, was, contents, their, k, end, d, c, l, font) ==
    /\ WellFormed(kept) /\ IsBack(kept, was)
    /\ contents \in Seq(Seq(STRING)) /\ their \in Seq(Seq(STRING))
    /\ k \in 1 .. Len(kept.blocks) /\ end \in k + 1 .. Len(kept.blocks) + 1 /\ d \in Int /\ c \in Int
    /\ Moves(kept.blocks, contents, k, end, d, was, their)
    /\ StartsOver(kept.blocks, contents, k, d, was, their, c)
    /\ l.store = kept /\ IsTape(l.last, was, their, font)
    /\ \A e \in k .. end - 1 : OldIndex(l, e) = e + d
    /\ AllTurned(l, k, PlacesOf(kept.blocks, contents)[k - 1], c)

LEMMA RunTypes ==
    ASSUME NEW kept, NEW was, NEW contents, NEW their, NEW k, NEW end, NEW d, NEW c, NEW l, NEW font,
           IsReplay(kept, was, contents, their, k, end, d, c, l, font)
    PROVE  /\ Len(kept.blocks) \in Nat /\ Len(was) \in Nat /\ k \in Int /\ end \in Int /\ d \in Int /\ c \in Int
           /\ 1 <= k /\ k <= end - 1 /\ end <= Len(kept.blocks) + 1
           /\ kept.blocks \in Seq(Blocks) /\ was \in Seq(Blocks)
           /\ \A e \in k .. end - 1 : e + d \in 1 .. Len(was) /\ e \in 1 .. Len(kept.blocks) /\ OldIndex(l, e) = e + d
           /\ RunTurned(kept.blocks, contents, k, end, d, was, their, c)
<1>1. kept.blocks \in Seq(Blocks) /\ was \in Seq(Blocks)
  BY DEF IsReplay, WellFormed, Stores, IsBack
<1>2. /\ k \in 1 .. Len(kept.blocks) /\ end \in k + 1 .. Len(kept.blocks) + 1 /\ d \in Int /\ c \in Int
      /\ contents \in Seq(Seq(STRING)) /\ their \in Seq(Seq(STRING))
      /\ Moves(kept.blocks, contents, k, end, d, was, their) /\ StartsOver(kept.blocks, contents, k, d, was, their, c)
      /\ \A e \in k .. end - 1 : OldIndex(l, e) = e + d
  BY DEF IsReplay
<1>3. Len(kept.blocks) \in Nat /\ Len(was) \in Nat
  BY <1>1
<1>4. /\ k \in Int /\ end \in Int /\ 1 <= k /\ k <= end - 1 /\ end <= Len(kept.blocks) + 1
  BY <1>2, <1>3
<1>5. \A e \in k .. end - 1 : e + d \in 1 .. Len(was) /\ e \in 1 .. Len(kept.blocks) /\ OldIndex(l, e) = e + d
  BY <1>2, <1>3, <1>4 DEF Moves
<1>6. RunTurned(kept.blocks, contents, k, end, d, was, their, c)
  BY <1>1, <1>2, RunIsTurned
<1> QED
  BY <1>1, <1>2, <1>3, <1>4, <1>5, <1>6

LEMMA DrawnReplayed ==
    ASSUME NEW kept, NEW was, NEW contents, NEW their, NEW k, NEW end, NEW d, NEW c, NEW l, NEW font,
           IsReplay(kept, was, contents, their, k, end, d, c, l, font),
           NEW n \in 1 .. end - k
    PROVE  LET spot == PlacesOf(kept.blocks, contents)[k - 1]
           IN  /\ ReplayDrawn(l, k, end, spot)[n] = DrawnTo(kept.blocks, contents, end - 1)[k - 1 + n]
               /\ ReplayMap(l, k, end, spot)[n] = MapTo(kept.blocks, contents, end - 1)[k - 1 + n]
<1> DEFINE spot == PlacesOf(kept.blocks, contents)[k - 1]
           e == k + n - 1
           blocks == kept.blocks
           M == Len(was)
<1>1. /\ Len(blocks) \in Nat /\ M \in Nat /\ k \in Int /\ end \in Int /\ d \in Int /\ c \in Int
      /\ 1 <= k /\ k <= end - 1 /\ end <= Len(blocks) + 1
      /\ \A i \in k .. end - 1 : i + d \in 1 .. M /\ i \in 1 .. Len(blocks) /\ OldIndex(l, i) = i + d
  BY RunTypes
<1>2. RunTurned(blocks, contents, k, end, d, was, their, c)
  BY RunTypes
<1>3. IsTape(l.last, was, their, font) /\ AllTurned(l, k, spot, c) /\ l.store = kept /\ WellFormed(kept) /\ IsBack(kept, was)
  BY DEF IsReplay
<1>4. e \in k .. end - 1 /\ e = k - 1 + n /\ e \in 1 .. end - 1
  BY <1>1
<1>5. OldIndex(l, e) = e + d /\ e + d \in 1 .. M /\ e \in 1 .. Len(blocks)
  BY <1>1, <1>4
<1>6. /\ ReplayDrawn(l, k, end, spot)[n] = MovedLines(l, k, spot, OldIndex(l, e))
      /\ ReplayMap(l, k, end, spot)[n] = MovedMap(l, k, spot, e, OldIndex(l, e))
  BY DEF ReplayDrawn, ReplayMap
<1>7. /\ DrawnTo(blocks, contents, end - 1)[e] = DrawnAt(blocks, contents, e).lines
      /\ MapTo(blocks, contents, end - 1)[e] = DrawnAt(blocks, contents, e).map
  BY <1>4 DEF DrawnTo, MapTo
<1> HIDE DEF e, spot, M, blocks
<1>8. /\ l.last.drawn[e + d] = DrawnAt(was, their, e + d).lines
      /\ l.last.map[e + d] = DrawnAt(was, their, e + d).map /\ Stands(l.last.map[e + d], was[e + d])
  BY <1>3, <1>5 DEF IsTape, M
<1>9. MovedLines(l, k, spot, e + d) = LinesBy(l.last.drawn[e + d], c)
  BY <1>3 DEF AllTurned
<1>10. /\ DrawnAt(blocks, contents, e).lines = LinesBy(DrawnAt(was, their, e + d).lines, c)
       /\ DrawnAt(blocks, contents, e).map =
            MapOf(blocks[e], DrawnAt(was, their, e + d).map.page + c, DrawnAt(was, their, e + d).map.endPage + c)
  BY <1>2, <1>4 DEF RunTurned
<1>11. MovedMap(l, k, spot, e, e + d) =
         MapOf(blocks[e], OnPage(l, k, spot, l.last.map[e + d].page), OnPage(l, k, spot, l.last.map[e + d].endPage))
  BY <1>3, <1>5, <1>8, MapIs DEF M, blocks
<1>12. \A page : OnPage(l, k, spot, page) = page + c
  BY <1>3 DEF AllTurned
<1>13. MovedMap(l, k, spot, e, e + d) =
         MapOf(blocks[e], DrawnAt(was, their, e + d).map.page + c, DrawnAt(was, their, e + d).map.endPage + c)
  BY <1>8, <1>11, <1>12
<1>14. /\ ReplayDrawn(l, k, end, spot)[n] = DrawnTo(blocks, contents, end - 1)[e]
       /\ ReplayMap(l, k, end, spot)[n] = MapTo(blocks, contents, end - 1)[e]
  BY <1>5, <1>6, <1>7, <1>8, <1>9, <1>10, <1>13
<1> QED
  BY <1>4, <1>14 DEF spot, blocks

LEMMA MarksReplayed ==
    ASSUME NEW kept, NEW was, NEW contents, NEW their, NEW k, NEW end, NEW d, NEW c, NEW l, NEW font,
           IsReplay(kept, was, contents, their, k, end, d, c, l, font),
           NEW e \in k + 1 .. end
    PROVE  MovedMark(l, k, PlacesOf(kept.blocks, contents)[k - 1], e + d) = PlacesOf(kept.blocks, contents)[e - 1]
<1> DEFINE spot == PlacesOf(kept.blocks, contents)[k - 1]
           blocks == kept.blocks
           M == Len(was)
<1>1. /\ Len(blocks) \in Nat /\ M \in Nat /\ k \in Int /\ end \in Int /\ d \in Int /\ c \in Int
      /\ 1 <= k /\ k <= end - 1 /\ end <= Len(blocks) + 1
      /\ \A i \in k .. end - 1 : i + d \in 1 .. M /\ i \in 1 .. Len(blocks) /\ OldIndex(l, i) = i + d
  BY RunTypes
<1>2. RunTurned(blocks, contents, k, end, d, was, their, c)
  BY RunTypes
<1>3. IsTape(l.last, was, their, font) /\ AllTurned(l, k, spot, c)
  BY DEF IsReplay
<1>4. e \in Int /\ e - 1 \in k .. end - 1 /\ e - 1 \in k - 1 .. end - 1
  BY <1>1
<1>5. e - 1 + d \in 1 .. M
  BY <1>1, <1>4
<1>6. e + d \in 1 .. M + 1 /\ e + d - 1 = e - 1 + d
  <2> HIDE DEF M
  <2> QED
    BY <1>1, <1>4, <1>5
<1> HIDE DEF spot, M, blocks
<1>7. l.last.marks[e + d] = PlacesOf(was, their)[e + d - 1]
  <2> DEFINE j == e + d
  <2>1. j \in 1 .. Len(was) + 1
    BY <1>6 DEF M
  <2>3. j - 1 = e + d - 1
    BY <1>1, <1>4
  <2> HIDE DEF j
  <2>2. l.last.marks[j] = PlacesOf(was, their)[j - 1]
    BY <1>3, <2>1 DEF IsTape
  <2> QED
    BY <2>2, <2>3 DEF j
<1>8. MovedMark(l, k, spot, e + d) = Turned(l.last.marks[e + d], c)
  BY <1>3 DEF AllTurned
<1>9. PlacesOf(blocks, contents)[e - 1] = Turned(PlacesOf(was, their)[e - 1 + d], c)
  BY <1>2, <1>4 DEF RunTurned
<1> QED
  BY <1>6, <1>7, <1>8, <1>9 DEF spot, blocks

LEMMA TablesJoin ==
    ASSUME NEW kept, NEW was, NEW contents, NEW their, NEW k, NEW end, NEW d, NEW c, NEW l, NEW font,
           IsReplay(kept, was, contents, their, k, end, d, c, l, font)
    PROVE  LET spot == PlacesOf(kept.blocks, contents)[k - 1]
               blocks == kept.blocks
           IN  /\ DrawnTo(blocks, contents, k - 1) \o ReplayDrawn(l, k, end, spot) = DrawnTo(blocks, contents, end - 1)
               /\ MapTo(blocks, contents, k - 1) \o ReplayMap(l, k, end, spot) = MapTo(blocks, contents, end - 1)
               /\ MarksTo(blocks, contents, k) \o ReplayMarks(l, k, end, spot) = MarksTo(blocks, contents, end - 1)
<1> DEFINE spot == PlacesOf(kept.blocks, contents)[k - 1]
           blocks == kept.blocks
           n == k - 1
           m == end - k
           w == end - k - 1
<1>1. k \in Int /\ end \in Int /\ 1 <= k /\ k <= end - 1
  BY RunTypes
<1>2. n \in Nat /\ m \in Nat /\ n + m = end - 1 /\ w \in Nat /\ k + w = end - 1 /\ k \in Nat
  BY <1>1
<1> DEFINE d0 == DrawnTo(blocks, contents, n)
           d1 == DrawnTo(blocks, contents, n + m)
           dr == ReplayDrawn(l, k, end, spot)
           x0 == MapTo(blocks, contents, n)
           x1 == MapTo(blocks, contents, n + m)
           xr == ReplayMap(l, k, end, spot)
           m0 == MarksTo(blocks, contents, k)
           m1 == MarksTo(blocks, contents, k + w)
           mr == ReplayMarks(l, k, end, spot)
<1>3. IsTable(d0, n) /\ IsTable(d1, n + m) /\ IsTable(dr, m)
  BY DEF IsTable, DrawnTo, ReplayDrawn
<1>4. IsTable(x0, n) /\ IsTable(x1, n + m) /\ IsTable(xr, m)
  BY DEF IsTable, MapTo, ReplayMap
<1>5. IsTable(m0, k) /\ IsTable(m1, k + w) /\ IsTable(mr, w)
  BY DEF IsTable, MarksTo, ReplayMarks
<1>6. ASSUME NEW i \in 1 .. n PROVE d0[i] = d1[i] /\ x0[i] = x1[i]
  <2>1. i \in 1 .. n + m
    BY <1>2
  <2> HIDE DEF n, m
  <2> QED
    BY <2>1 DEF DrawnTo, MapTo
<1>7. ASSUME NEW i \in 1 .. m PROVE dr[i] = d1[n + i] /\ xr[i] = x1[n + i]
  BY <1>2, DrawnReplayed
<1>8. ASSUME NEW i \in 1 .. k PROVE m0[i] = m1[i]
  <2>1. i \in 1 .. k + w
    BY <1>2
  <2> HIDE DEF w
  <2> QED
    BY <2>1 DEF MarksTo
<1>9. ASSUME NEW i \in 1 .. w PROVE mr[i] = m1[k + i]
  <2> DEFINE e == k + (i + 1) - 1
  <2>1. e \in k + 1 .. end /\ e \in k .. end - 1 /\ e = k + i /\ e \in 1 .. k + w
    BY <1>1
  <2>2. OldIndex(l, e) = e + d
    BY <2>1, RunTypes
  <2>3. mr[i] = MovedMark(l, k, spot, OldIndex(l, e))
    BY DEF ReplayMarks
  <2>4. m1[e] = PlacesOf(blocks, contents)[e - 1]
    <3> HIDE DEF e, w
    <3> QED
      BY <2>1 DEF MarksTo
  <2> HIDE DEF e, mr, m1
  <2>5. MovedMark(l, k, spot, e + d) = PlacesOf(blocks, contents)[e - 1]
    BY <2>1, MarksReplayed
  <2> QED
    BY <2>1, <2>2, <2>3, <2>4, <2>5
<1> HIDE DEF d0, d1, dr, x0, x1, xr, m0, m1, mr, n, m, w
<1>10. d0 \o dr = d1
  <2>1. \A i \in 1 .. n : d0[i] = d1[i]
    BY <1>6
  <2>2. \A i \in 1 .. m : dr[i] = d1[n + i]
    BY <1>7
  <2> QED
    BY <1>2, <1>3, <2>1, <2>2, ConcatIs
<1>11. x0 \o xr = x1
  <2>1. \A i \in 1 .. n : x0[i] = x1[i]
    BY <1>6
  <2>2. \A i \in 1 .. m : xr[i] = x1[n + i]
    BY <1>7
  <2> QED
    BY <1>2, <1>4, <2>1, <2>2, ConcatIs
<1>12. m0 \o mr = m1
  BY <1>2, <1>5, <1>8, <1>9, ConcatIs
<1>13. d1 = DrawnTo(blocks, contents, end - 1) /\ x1 = MapTo(blocks, contents, end - 1) /\ m1 = MarksTo(blocks, contents, end - 1)
  BY <1>2 DEF d1, x1, m1
<1> QED
  BY <1>10, <1>11, <1>12, <1>13 DEF d0, dr, x0, xr, m0, mr, n

ReplayEnds(blocks, contents, font, k, end, l) ==
    LET here == LaidTo(blocks, contents, font, k - 1)
    IN  Replayed(end, Replay(l, k, end, here.at, Marked(here))) = LaidTo(blocks, contents, font, end - 1)

LEMMA ReplayIs ==
    ASSUME NEW kept, NEW was, NEW contents, NEW their, NEW k, NEW end, NEW d, NEW c, NEW l, NEW font, NEW other,
           IsReplay(kept, was, contents, their, k, end, d, c, l, other)
    PROVE  ReplayEnds(kept.blocks, contents, font, k, end, l)
<1> DEFINE blocks == kept.blocks
           p == PlacesOf(blocks, contents)
           spot == p[k - 1]
           here == LaidTo(blocks, contents, font, k - 1)
           d0 == DrawnTo(blocks, contents, k - 1)
           d1 == DrawnTo(blocks, contents, end - 1)
           dr == ReplayDrawn(l, k, end, spot)
           x0 == MapTo(blocks, contents, k - 1)
           x1 == MapTo(blocks, contents, end - 1)
           xr == ReplayMap(l, k, end, spot)
           m0 == MarksTo(blocks, contents, k)
           m1 == MarksTo(blocks, contents, end - 1)
           mr == ReplayMarks(l, k, end, spot)
           tp == TapeRecord(font, contents, m0, d0, x0)
<1>1. /\ Len(blocks) \in Nat /\ k \in Int /\ end \in Int /\ 1 <= k /\ k <= end - 1 /\ end <= Len(blocks) + 1
      /\ blocks \in Seq(Blocks) /\ d \in Int
  BY RunTypes
<1>2. contents \in Seq(Seq(STRING))
  BY DEF IsReplay
<1>3. Marked(here) = tp /\ here.at = spot
  <2>1. k - 1 \in 0 .. Len(blocks) /\ k - 1 + 1 = k
    BY <1>1
  <2>2. Marked(here) = TapeRecord(font, contents, MarksTo(blocks, contents, k - 1 + 1), d0, x0)
    BY <1>1, <1>2, <2>1, LaidIs
  <2>3. here.at = spot
    BY <1>1, <1>2, <2>1, LaidAt
  <2> QED
    BY <2>1, <2>2, <2>3
<1>4. LaidTo(blocks, contents, font, end - 1) =
        [k |-> end, at |-> p[end - 1], tape |-> TapeRecord(font, contents, m1, d1, x1)]
  <2>1. end - 1 \in 0 .. Len(blocks) /\ end - 1 + 1 = end
    BY <1>1
  <2>2. LaidTo(blocks, contents, font, end - 1) =
          [k |-> end - 1 + 1, at |-> p[end - 1], tape |-> TapeRecord(font, contents, m1, d1, x1)]
    BY <1>1, <1>2, <2>1, LaidIs
  <2> QED
    BY <2>1, <2>2
<1>5. d0 \o dr = d1 /\ x0 \o xr = x1 /\ m0 \o mr = m1
  BY TablesJoin
<1>6. MovedMark(l, k, spot, OldIndex(l, end - 1) + 1) = p[end - 1]
  <2>1. end - 1 \in k .. end - 1 /\ end \in k + 1 .. end
    BY <1>1
  <2>2. OldIndex(l, end - 1) = end - 1 + d
    BY <2>1, RunTypes
  <2>3. OldIndex(l, end - 1) + 1 = end + d
    BY <1>1, <2>2
  <2>4. MovedMark(l, k, spot, end + d) = p[end - 1]
    BY <2>1, MarksReplayed
  <2> QED
    BY <2>3, <2>4
<1>7. Replay(l, k, end, spot, tp) =
         [tape |-> WithAll(tp, tp.drawn \o dr, tp.map \o xr, tp.marks \o mr),
          at |-> MovedMark(l, k, spot, OldIndex(l, end - 1) + 1)]
  <2> HIDE DEF tp, spot
  <2> QED
    BY DEF Replay, WithAll, ReplayDrawn, ReplayMap, ReplayMarks
<1> HIDE DEF d0, x0, m0, d1, x1, m1, dr, xr, mr, spot, p, here
<1>8. tp.drawn = d0 /\ tp.map = x0 /\ tp.marks = m0
  BY TapeFields
<1>9. WithAll(tp, d1, x1, m1) = TapeRecord(font, contents, m1, d1, x1)
  BY AllSet
<1> HIDE DEF tp
<1>10. Replay(l, k, end, spot, tp) = [tape |-> TapeRecord(font, contents, m1, d1, x1), at |-> p[end - 1]]
  BY <1>5, <1>6, <1>7, <1>8, <1>9
<1>11. Replayed(end, Replay(l, k, end, spot, tp)) = LaidTo(blocks, contents, font, end - 1)
  BY <1>4, <1>10 DEF Replayed
<1> QED
  BY <1>3, <1>11 DEF here, ReplayEnds

\* The tape of the last build, made of the blocks it had.
IsLast(last, was) == last = NoTape \/ \E other : other # "none" /\ last = LayOutWhole(was, other)

\* What the layout has of the last build, when it has anything.
LEMMA UsedTape ==
    ASSUME NEW kept, WellFormed(kept), kept.parsed, NEW was, was = UndoBlocks(kept).blocks,
           NEW last, IsLast(last, was),
           NEW font, font # "none", NEW contents, Begin(kept, last, font, contents).usable
    PROVE  was \in Seq(Blocks) /\ IsTape(last, was, ContentsOf(was), last.renderer)
<1>1. was \in Seq(Blocks)
  BY BackIs DEF IsBack
<1>2. last # NoTape
  <2>1. last.renderer = font
    BY BeginIs
  <2> QED
    BY <2>1 DEF NoTape
<1>3. PICK other : other # "none" /\ last = LayOutWhole(was, other)
  BY <1>2 DEF IsLast
<1>4. last = TapeOf(was, ContentsOf(was), other)
  BY <1>1, <1>3, WholeIs
<1>5. IsTape(last, was, ContentsOf(was), other)
  BY <1>1, <1>4, ContentsType, TapeIs
<1>6. last.renderer = other
  BY <1>5 DEF IsTape
<1> QED
  BY <1>1, <1>5, <1>6

LEMMA TurnedTo ==
    ASSUME NEW a \in Places, NEW b \in Places, a.y = b.y, a.contents = b.contents
    PROVE  a = Turned(b, a.page - b.page)
<1> DEFINE c == a.page - b.page
<1>1. a.page \in Int /\ b.page \in Int
  BY DEF Places
<1>2. b.page + c = a.page
  BY <1>1
<1> HIDE DEF c
<1>3. Turned(b, c) = [b EXCEPT !.page = a.page]
  BY <1>2 DEF Turned
<1>4. [b EXCEPT !.page = a.page] = a
  BY DEF Places
<1> QED
  BY <1>3, <1>4 DEF c

\* Where the layout stands after a run that is taken.
RunEnds(kept, last, font, k) ==
    \E j \in k .. Len(kept.blocks) :
       Onward(Begin(kept, last, font, ContentsOf(kept.blocks)),
              LaidTo(kept.blocks, ContentsOf(kept.blocks), font, k - 1))
         = LaidTo(kept.blocks, ContentsOf(kept.blocks), font, j)

LEMMA RunReplays ==
    ASSUME NEW kept, WellFormed(kept), kept.parsed, NEW was, was = UndoBlocks(kept).blocks,
           NEW last, IsLast(last, was),
           NEW font, font # "none",
           NEW k \in 1 .. Len(kept.blocks),
           Replayable(Begin(kept, last, font, ContentsOf(kept.blocks)), k,
                      LaidTo(kept.blocks, ContentsOf(kept.blocks), font, k - 1).at) # k
    PROVE  RunEnds(kept, last, font, k)
<1> DEFINE blocks == kept.blocks
           contents == ContentsOf(blocks)
           their == ContentsOf(was)
           l == Begin(kept, last, font, contents)
           here == LaidTo(blocks, contents, font, k - 1)
           end == Replayable(l, k, here.at)
           N == Len(blocks)
           M == Len(was)
           p == PlacesOf(blocks, contents)
           q == PlacesOf(was, their)
<1>1. blocks \in Seq(Blocks) /\ N \in Nat /\ kept.front \in Nat /\ IsBack(kept, was) /\ was \in Seq(Blocks)
      /\ M \in Nat /\ OldCount(kept) = M
  <2>1. blocks \in Seq(Blocks) /\ kept.front \in Nat
    BY DEF WellFormed, Stores
  <2>2. IsBack(kept, was)
    BY BackIs
  <2>3. was \in Seq(Blocks) /\ OldCount(kept) = M
    BY <2>2 DEF IsBack
  <2> QED
    BY <2>1, <2>2, <2>3
<1>2. l.store = kept /\ l.last = last /\ l.contents = contents /\ (l.contentsSame => contents = last.contents)
  BY BeginIs
<1>3. l.shifted \in 1 .. N + 1
  BY <1>1, ShiftedIs
<1>4. contents \in Seq(Seq(STRING)) /\ their \in Seq(Seq(STRING))
  BY <1>1, ContentsType
<1>5. here.k = k /\ here.at = p[k - 1]
  <2>1. k - 1 \in 0 .. N /\ k - 1 + 1 = k
    BY <1>1
  <2>2. here.k = k - 1 + 1 /\ here.at = p[k - 1]
    BY <1>1, <1>4, <2>1, LaidAt
  <2> QED
    BY <2>1, <2>2
<1> HIDE DEF l, here, contents, their
<1>6. end \in k + 1 .. N + 1 /\ \E d \in Int : IsTaken(l, k, here.at, end, d, N, M)
  <2>1. end # k
    BY DEF l, here, contents
  <2> HIDE DEF N, M
  <2>2. N = Len(l.store.blocks) /\ M = OldCount(l.store)
    BY <1>1, <1>2 DEF N, M
  <2>3. k \in 1 .. N
    BY DEF N
  <2> QED
    BY <1>1, <1>3, <2>1, <2>2, <2>3, TakenIs
<1> HIDE DEF end
<1>7. PICK d \in Int : IsTaken(l, k, here.at, end, d, N, M)
  BY <1>6
<1>8. /\ l.usable /\ l.last.marks[k + d].y = here.at.y /\ l.last.marks[k + d].contents = here.at.contents
      /\ \A e \in k .. end - 1 : OldIndex(l, e) = e + d /\ e + d \in 1 .. M /\ Same(l, e, e + d)
      /\ \/ blocks[end - 1].type # "Heading"
         \/ end = N + 1 /\ end - 1 + d = M
  BY <1>2, <1>7 DEF IsTaken, BlocksMatch
<1>9. IsTape(last, was, their, last.renderer)
  BY <1>8, UsedTape DEF l, their
<1>10. \A e \in k .. end - 1 : e \in 1 .. N /\ e + d \in 1 .. M /\ Alike(blocks[e], was[e + d])
  <2> TAKE e \in k .. end - 1
  <2>1. e \in 1 .. N
    BY <1>1, <1>6
  <2>2. e + d \in 1 .. M /\ Same(l, e, e + d)
    BY <1>8
  <2>3. Kept(kept, e, e + d) \/ SameBlock(kept.blocks[e], Old(kept, e + d))
    BY <1>2, <2>2 DEF Same
  <2> DEFINE j == e + d
  <2> HIDE DEF j
  <2>4. j \in 1 .. Len(was) /\ e \in 1 .. Len(kept.blocks) /\ (Kept(kept, e, j) \/ SameBlock(kept.blocks[e], Old(kept, j)))
    BY <2>1, <2>2, <2>3 DEF j
  <2>5. Alike(blocks[e], was[j])
    BY <1>1, <2>4, AlikeIs
  <2> QED
    BY <2>1, <2>2, <2>5 DEF j
<1>11. Moves(blocks, contents, k, end, d, was, their)
  <2>1. ASSUME NEW e \in k .. end - 1
        PROVE  e + d \in 1 .. Len(was) /\ SameHere(blocks, contents, e, was, their, e + d)
    <3>1. e \in 1 .. N /\ e + d \in 1 .. M /\ Alike(blocks[e], was[e + d])
      BY <1>10
    <3>2. blocks[e].type = "Contents" => contents = their
      <4>1. Same(l, e, e + d)
        BY <1>8
      <4>2. last.contents = their
        BY <1>9 DEF IsTape
      <4> QED
        BY <1>2, <4>1, <4>2 DEF Same
    <3>3. blocks[e].type = "Heading" => HeadingKeep(blocks, e) = HeadingKeep(was, e + d)
      <4>1. /\ \A i \in k .. end - 1 : i + d \in 1 .. Len(was) /\ Alike(blocks[i], was[i + d])
            /\ end \in k + 1 .. Len(blocks) + 1
            /\ \/ blocks[end - 1].type # "Heading"
               \/ end = Len(blocks) + 1 /\ end - 1 + d = Len(was)
        BY <1>6, <1>8, <1>10
      <4> QED
        BY <1>1, <4>1, KeepSame
    <3> QED
      BY <3>1, <3>2, <3>3 DEF SameHere, Alike
  <2> QED
    BY <2>1 DEF Moves
<1> DEFINE c == here.at.page - l.last.marks[OldIndex(l, k)].page
<1>12. k \in k .. end - 1 /\ OldIndex(l, k) = k + d /\ k + d \in 1 .. M
  <2>1. k \in k .. end - 1
    BY <1>1, <1>6
  <2> QED
    BY <1>8, <2>1
<1>13. l.last.marks[k + d] = q[k - 1 + d] /\ q[k - 1 + d] \in Places /\ here.at \in Places
  <2> DEFINE j == k + d
  <2>1. j \in 1 .. M + 1 /\ j - 1 = k - 1 + d /\ k - 1 + d \in 0 .. M /\ k - 1 \in 0 .. N
    BY <1>1, <1>12
  <2> HIDE DEF j, q, p
  <2>2. l.last.marks[j] = q[j - 1]
    BY <1>2, <1>9, <2>1 DEF IsTape, q
  <2>3. q \in [0 .. M -> Places] /\ p \in [0 .. N -> Places]
    BY <1>1, <1>4, PlacesAre DEF ArePlaces, p, q
  <2>4. q[k - 1 + d] \in Places /\ p[k - 1] \in Places
    BY <2>1, <2>3
  <2> QED
    BY <1>5, <2>1, <2>2, <2>4 DEF j
<1>14. c \in Int /\ StartsOver(blocks, contents, k, d, was, their, c)
  <2> DEFINE a == here.at
             b == q[k - 1 + d]
  <2>1. a \in Places /\ b \in Places /\ a.y = b.y /\ a.contents = b.contents /\ c = a.page - b.page
    BY <1>8, <1>12, <1>13
  <2>2. a = p[k - 1]
    BY <1>5
  <2> HIDE DEF a, b, c
  <2>3. a = Turned(b, a.page - b.page)
    BY <2>1, TurnedTo
  <2>4. c \in Int
    BY <2>1 DEF Places
  <2> QED
    BY <2>1, <2>2, <2>3, <2>4 DEF StartsOver, a, b
<1>15. AllTurned(l, k, here.at, c)
  <2>1. here.at.page - l.last.marks[OldIndex(l, k)].page = c
    OBVIOUS
  <2> HIDE DEF c
  <2> QED
    BY <2>1, TurnedIs
<1> HIDE DEF c
<1>16. IsReplay(kept, was, contents, their, k, end, d, c, l, last.renderer)
  <2>1. \A e \in k .. end - 1 : OldIndex(l, e) = e + d
    BY <1>8
  <2> QED
    BY <1>1, <1>2, <1>4, <1>5, <1>6, <1>9, <1>11, <1>14, <1>15, <2>1 DEF IsReplay
<1>17. Replayed(end, Replay(l, k, end, here.at, Marked(here))) = LaidTo(blocks, contents, font, end - 1)
  <2>1. ReplayEnds(kept.blocks, contents, font, k, end, l)
    BY <1>16, ReplayIs
  <2> QED
    BY <2>1 DEF ReplayEnds, here
<1>18. Onward(l, here) = Replayed(end, Replay(l, k, end, here.at, Marked(here)))
  <2>1. ~(here.k > Len(l.store.blocks)) /\ end > here.k
    BY <1>1, <1>2, <1>5, <1>6
  <2>2. Onward(l, here) = Run(l, here, end)
    BY <1>5, <2>1 DEF Onward, end
  <2> QED
    BY <1>5, <2>1, <2>2 DEF Run
<1>19. end - 1 \in k .. N
  BY <1>1, <1>6
<1>20. \E j \in k .. N : Onward(l, here) = LaidTo(blocks, contents, font, j)
  BY <1>17, <1>18, <1>19
<1> QED
  BY <1>20 DEF l, here, contents, RunEnds

LEMMA LayoutSame ==
    ASSUME NEW kept, WellFormed(kept), kept.parsed,
           NEW last, IsLast(last, UndoBlocks(kept).blocks),
           NEW font, font # "none"
    PROVE  LayOutFrom(kept, last, font) = LayOutWhole(kept.blocks, font)
<1> DEFINE blocks == kept.blocks
           contents == ContentsOf(blocks)
           N == Len(blocks)
           l == Begin(kept, last, font, contents)
           was == UndoBlocks(kept).blocks
           Laid(n) == LaidTo(blocks, contents, font, n)
<1>1. blocks \in Seq(Blocks)
  BY DEF WellFormed, Stores
<1>2. contents \in Seq(Seq(STRING)) /\ N \in Nat
  BY <1>1, ContentsType
<1>3. l.store.blocks = blocks /\ l.contents = contents
  BY BeginIs
<1>4. LayOutFrom(kept, last, font) = Render(l, FirstBlock(font, contents))
  BY DEF LayOutFrom
<1>5. LayOutWhole(blocks, font) = TapeOf(blocks, contents, font)
  BY <1>1, WholeIs
<1>6. ASSUME NEW i \in 0 .. N - 1 PROVE \E j \in i + 1 .. N : Onward(l, Laid(i)) = Laid(j)
  <2> DEFINE k == i + 1
  <2>1. k \in 1 .. N /\ k - 1 = i /\ i + 1 = k
    BY <1>2
  <2>2. CASE Replayable(l, i + 1, Laid(i).at) = i + 1
    <3>1. Onward(l, Laid(i)) = Laid(i + 1)
      <4> HIDE DEF l, contents
      <4> QED
        BY <1>1, <1>2, <1>3, <2>2, OnwardBlock
    <3>2. i + 1 \in i + 1 .. N
      BY <1>2
    <3> HIDE DEF Laid, l
    <3> QED
      BY <3>1, <3>2
  <2>3. CASE Replayable(l, i + 1, Laid(i).at) # i + 1
    <3>1. Replayable(l, k, Laid(k - 1).at) # k
      BY <2>1, <2>3
    <3> HIDE DEF k
    <3>2. \E j \in k .. N : Onward(l, Laid(k - 1)) = Laid(j)
      <4>1. was = UndoBlocks(kept).blocks /\ IsLast(last, was)
        OBVIOUS
      <4>2. RunEnds(kept, last, font, k)
        <5> HIDE DEF was
        <5> QED
          BY <2>1, <3>1, <4>1, RunReplays
      <4> QED
        BY <4>2 DEF RunEnds
    <3> HIDE DEF Laid, l
    <3> QED
      BY <2>1, <3>2
  <2> QED
    BY <2>2, <2>3
<1>7. Render(l, FirstBlock(font, contents)) = TapeOf(blocks, contents, font)
  <2> HIDE DEF l, contents
  <2> QED
    BY <1>1, <1>2, <1>3, <1>6, RenderIs
<1> QED
  BY <1>4, <1>5, <1>7

-----------------------------------------------------------------------------
(***************************************************************************)
(* The builds of a session: the tape kept is that of the blocks the last   *)
(* build had, which a parse leaves to be put back, and so a layout with    *)
(* its runs is the layout of its blocks alone.                             *)
(***************************************************************************)
BuildsInv ==
    /\ WellFormed(store)
    /\ stage \in {"parsed", "laidOut"} => store.parsed
    /\ stage \in {"chosen", "parsed", "laidOut", "made"} => renderer # "none"
    /\ tries \in Nat
    /\ IsLast(tape, UndoBlocks(store).blocks)
    /\ stage = "laidOut" => recording = NoTape \/ recording = LayOutWhole(store.blocks, renderer)
    /\ stage # "laidOut" => recording = NoTape

StoreOf(a, b, p, s, f, o, w, n) ==
    [blocks |-> a, displaced |-> b, parsed |-> p, spliced |-> s,
     front |-> f, oldWindow |-> o, newWindow |-> w, lineShift |-> n]
Settled(kept, no) == [kept EXCEPT !.parsed = no, !.spliced = no, !.displaced = <<>>]

LEMMA SettledIs ==
    ASSUME NEW a, NEW b, NEW p, NEW s, NEW f, NEW o, NEW w, NEW n, NEW no
    PROVE  Settled(StoreOf(a, b, p, s, f, o, w, n), no) = StoreOf(a, <<>>, no, no, f, o, w, n)
<1> DEFINE t == StoreOf(a, b, p, s, f, o, w, n)
           t1 == [t EXCEPT !.parsed = no]
           t2 == [t1 EXCEPT !.spliced = no]
           t3 == [t2 EXCEPT !.displaced = <<>>]
<1>1. Settled(t, no) = t3
  <2>1. t = [blocks |-> a, displaced |-> b, parsed |-> p, spliced |-> s,
             front |-> f, oldWindow |-> o, newWindow |-> w, lineShift |-> n]
    BY DEF StoreOf
  <2> HIDE DEF t
  <2> QED
    BY <2>1 DEF Settled
<1>2. t1 = StoreOf(a, b, no, s, f, o, w, n)
  BY DEF StoreOf
<1> HIDE DEF t1
<1>3. t2 = StoreOf(a, b, no, no, f, o, w, n)
  BY <1>2 DEF StoreOf
<1> HIDE DEF t2
<1>4. t3 = StoreOf(a, <<>>, no, no, f, o, w, n)
  BY <1>3 DEF StoreOf
<1> QED
  BY <1>1, <1>4

\* The parse undone and the parse committed, neither of which leaves anything to put back.
LEMMA PutBack ==
    ASSUME NEW kept, WellFormed(kept)
    PROVE  /\ WellFormed(UndoBlocks(kept)) /\ ~UndoBlocks(kept).parsed
           /\ UndoBlocks(UndoBlocks(kept)).blocks = UndoBlocks(kept).blocks
           /\ WellFormed(CommitBlocks(kept)) /\ UndoBlocks(CommitBlocks(kept)).blocks = kept.blocks
<1>1. /\ kept \in Stores /\ kept.blocks \in Seq(Blocks) /\ kept.displaced \in Seq(Blocks)
      /\ kept.parsed \in BOOLEAN /\ kept.spliced \in BOOLEAN /\ kept.front \in Nat /\ kept.oldWindow \in Nat
      /\ kept.newWindow \in Nat /\ kept.lineShift \in Int
      /\ kept = [blocks |-> kept.blocks, displaced |-> kept.displaced, parsed |-> kept.parsed,
                 spliced |-> kept.spliced, front |-> kept.front, oldWindow |-> kept.oldWindow,
                 newWindow |-> kept.newWindow, lineShift |-> kept.lineShift]
      /\ kept.spliced => kept.parsed
  BY DEF WellFormed, Stores
<1> DEFINE Bare(blocks) ==
             [blocks |-> blocks, displaced |-> <<>>, parsed |-> FALSE, spliced |-> FALSE, front |-> kept.front,
              oldWindow |-> kept.oldWindow, newWindow |-> kept.newWindow, lineShift |-> kept.lineShift]
<1>2. ASSUME NEW blocks \in Seq(Blocks)
      PROVE  /\ WellFormed(Bare(blocks)) /\ ~Bare(blocks).parsed /\ Bare(blocks).blocks = blocks
             /\ UndoBlocks(Bare(blocks)).blocks = blocks
  <2> DEFINE B == Seq(Blocks)
  <2>1. <<>> \in B
    OBVIOUS
  <2>2. blocks \in B /\ B = Seq(Blocks)
    OBVIOUS
  <2> HIDE DEF B
  <2>3. Bare(blocks) \in [blocks : B, displaced : B, parsed : BOOLEAN, spliced : BOOLEAN,
                          front : Nat, oldWindow : Nat, newWindow : Nat, lineShift : Int]
    BY <1>1, <2>1, <2>2
  <2>4. Bare(blocks) \in Stores
    BY <2>2, <2>3 DEF Stores
  <2>5. ~Bare(blocks).parsed /\ ~Bare(blocks).spliced /\ Bare(blocks).blocks = blocks
    OBVIOUS
  <2> HIDE DEF Bare
  <2> QED
    BY <2>4, <2>5 DEF WellFormed, UndoBlocks
<1>3. CommitBlocks(kept) = Bare(kept.blocks)
  <2> DEFINE no == FALSE
             t == StoreOf(kept.blocks, kept.displaced, kept.parsed, kept.spliced, kept.front, kept.oldWindow,
                          kept.newWindow, kept.lineShift)
  <2>1. kept = t
    BY <1>1 DEF StoreOf
  <2>2. CommitBlocks(kept) = Settled(kept, no)
    BY DEF CommitBlocks, Settled
  <2>3. Bare(kept.blocks) = StoreOf(kept.blocks, <<>>, no, no, kept.front, kept.oldWindow,
                                    kept.newWindow, kept.lineShift)
    BY DEF StoreOf
  <2> HIDE DEF no, Bare
  <2>4. Settled(t, no) = StoreOf(kept.blocks, <<>>, no, no, kept.front, kept.oldWindow,
                                 kept.newWindow, kept.lineShift)
    BY SettledIs
  <2> HIDE DEF t
  <2> QED
    BY <2>1, <2>2, <2>3, <2>4
<1>4. WellFormed(CommitBlocks(kept)) /\ UndoBlocks(CommitBlocks(kept)).blocks = kept.blocks
  <2> HIDE DEF Bare
  <2> QED
    BY <1>1, <1>2, <1>3
<1>5. CASE ~kept.parsed
  <2>1. UndoBlocks(kept) = kept
    BY <1>5 DEF UndoBlocks
  <2> QED
    BY <1>4, <1>5, <2>1
<1>6. CASE kept.parsed
  <2>1. UndoBlocks(kept).blocks \in Seq(Blocks)
    BY <1>6, BackIs DEF IsBack
  <2> DEFINE was == UndoBlocks(kept).blocks
  <2>2. UndoBlocks(kept) = Bare(was)
    <3>1. CASE kept.spliced
      BY <1>1, <1>6, <3>1 DEF UndoBlocks
    <3>2. CASE ~kept.spliced
      BY <1>1, <1>6, <3>2 DEF UndoBlocks
    <3> QED
      BY <3>1, <3>2
  <2> HIDE DEF was, Bare
  <2>3. was \in Seq(Blocks) /\ was = UndoBlocks(kept).blocks
    BY <2>1 DEF was
  <2>4. UndoBlocks(UndoBlocks(kept)).blocks = UndoBlocks(kept).blocks
    BY <1>2, <2>2, <2>3
  <2>5. WellFormed(UndoBlocks(kept)) /\ ~UndoBlocks(kept).parsed
    BY <1>2, <2>2, <2>3
  <2> QED
    BY <1>4, <2>4, <2>5
<1> QED
  BY <1>1, <1>5, <1>6

LEMMA BuildsStart == BuildsInit => BuildsInv
<1> SUFFICES ASSUME BuildsInit PROVE BuildsInv
  OBVIOUS
<1>1. store = NoBlocks /\ tape = NoTape /\ stage = "idle" /\ tries = 0 /\ recording = NoTape
  BY DEF BuildsInit
<1>2. WellFormed(NoBlocks)
  <2> DEFINE B == Seq(Blocks)
  <2>1. <<>> \in B
    OBVIOUS
  <2>2. B = Seq(Blocks)
    OBVIOUS
  <2> HIDE DEF B
  <2>3. NoBlocks \in Stores
    BY <2>1, <2>2 DEF Stores, NoBlocks
  <2> QED
    BY <2>3 DEF WellFormed, NoBlocks
<1> QED
  BY <1>1, <1>2 DEF BuildsInv, IsLast

LEMMA BuildsStep == BuildsInv /\ [BuildsNext]_buildVars => BuildsInv'
<1> SUFFICES ASSUME BuildsInv, [BuildsNext]_buildVars PROVE BuildsInv'
  OBVIOUS
<1>0. /\ WellFormed(store)
      /\ stage \in {"parsed", "laidOut"} => store.parsed
      /\ stage \in {"chosen", "parsed", "laidOut", "made"} => renderer # "none"
      /\ tries \in Nat
      /\ IsLast(tape, UndoBlocks(store).blocks)
      /\ stage = "laidOut" => recording = NoTape \/ recording = LayOutWhole(store.blocks, renderer)
      /\ stage # "laidOut" => recording = NoTape
  BY DEF BuildsInv
<1>a. \A was : IsLast(NoTape, was)
  BY DEF IsLast
<1>1. ASSUME NEW given \in Options, BeginLayout(given) PROVE BuildsInv'
  BY <1>0, <1>a, <1>1 DEF BeginLayout, BuildsInv
<1>2. ASSUME NEW chosen \in TextFonts, ChooseRenderer(chosen) PROVE BuildsInv'
  <2>1. SystemFonts[1] # "none"
    BY SystemFontsAssumption
  <2>2. renderer' # "none"
    BY <1>2, <2>1 DEF ChooseRenderer, TextFonts
  <2> QED
    BY <1>0, <1>2, <2>2 DEF ChooseRenderer, BuildsInv
<1>3. ASSUME ParseAny PROVE BuildsInv'
  <2>1. WellFormed(store') /\ store'.parsed /\ UndoBlocks(store').blocks = UndoBlocks(store).blocks
    BY <1>3 DEF ParseAny, ParsedFrom
  <2> QED
    BY <1>0, <1>3, <2>1 DEF ParseAny, ParseBlocks, BuildsInv
<1>4. ASSUME LayOut PROVE BuildsInv'
  <2>1. stage = "parsed" /\ stage' = "laidOut" /\ UNCHANGED <<options, renderer, tries, store, notes>>
    BY <1>4 DEF LayOut
  <2>2. CASE tape' = NoTape /\ recording' = NoTape
    BY <1>0, <1>a, <2>1, <2>2 DEF BuildsInv
  <2>3. CASE recording' = LayOutFrom(store, tape, renderer) /\ UNCHANGED tape
    <3>1. LayOutFrom(store, tape, renderer) = LayOutWhole(store.blocks, renderer)
      BY <1>0, <2>1, LayoutSame
    <3> QED
      BY <1>0, <2>1, <2>3, <3>1 DEF BuildsInv
  <2> QED
    BY <1>4, <2>2, <2>3 DEF LayOut
<1>5. ASSUME CommitLayout PROVE BuildsInv'
  <2>1. stage = "laidOut" /\ stage' = "made" /\ recording' = NoTape /\ UNCHANGED <<options, renderer, tries, notes>>
    BY <1>5 DEF CommitLayout
  <2>2. CASE UNCHANGED <<store, tape>>
    BY <1>0, <2>1, <2>2 DEF BuildsInv
  <2>3. CASE recording # NoTape /\ tape' = recording /\ store' = CommitBlocks(store)
    <3>1. WellFormed(CommitBlocks(store)) /\ UndoBlocks(CommitBlocks(store)).blocks = store.blocks
      BY <1>0, PutBack
    <3>2. tape' = LayOutWhole(store.blocks, renderer) /\ renderer # "none"
      BY <1>0, <2>1, <2>3
    <3>3. IsLast(tape', UndoBlocks(store').blocks)
      BY <2>3, <3>1, <3>2 DEF IsLast
    <3> QED
      BY <1>0, <2>1, <2>3, <3>1, <3>3 DEF BuildsInv
  <2> QED
    BY <1>5, <2>2, <2>3 DEF CommitLayout
<1>6. ASSUME NextRenderer PROVE BuildsInv'
  <2>1. /\ stage' = "chosen" /\ UNCHANGED <<options, store, notes>> /\ tries' = tries + 1
        /\ renderer' = SystemFonts[tries + 1] /\ tries < Len(SystemFonts)
    BY <1>6 DEF NextRenderer
  <2>2. renderer' # "none"
    <3>1. tries + 1 \in DOMAIN SystemFonts
      BY <1>0, <2>1, SystemFontsAssumption
    <3> QED
      BY <2>1, <3>1, SystemFontsAssumption
  <2>3. recording' = NoTape /\ (tape' = NoTape \/ UNCHANGED tape)
    BY <1>0, <1>6 DEF NextRenderer
  <2>4. tries' \in Nat
    BY <1>0, <2>1
  <2>5. IsLast(tape', UndoBlocks(store').blocks)
    BY <1>0, <1>a, <2>1, <2>3
  <2> QED
    BY <1>0, <2>1, <2>2, <2>3, <2>4, <2>5 DEF BuildsInv
<1>7. ASSUME FinishBuild PROVE BuildsInv'
  <2>1. stage = "made" /\ stage' = "idle" /\ UNCHANGED <<options, renderer, tries, notes, recording>>
    BY <1>7 DEF FinishBuild
  <2>2. CASE store' = CommitBlocks(store) /\ tape' = NoTape
    <3>1. WellFormed(CommitBlocks(store))
      BY <1>0, PutBack
    <3> QED
      BY <1>0, <1>a, <2>1, <2>2, <3>1 DEF BuildsInv
  <2>3. CASE UNCHANGED <<store, tape>>
    BY <1>0, <2>1, <2>3 DEF BuildsInv
  <2> QED
    BY <1>7, <2>2, <2>3 DEF FinishBuild
<1>8. ASSUME UndoBuild PROVE BuildsInv'
  <2>1. /\ stage' = "idle" /\ store' = UndoBlocks(store) /\ recording' = NoTape
        /\ UNCHANGED <<options, renderer, tries, notes, tape>>
    BY <1>8 DEF UndoBuild
  <2>2. WellFormed(UndoBlocks(store)) /\ UndoBlocks(UndoBlocks(store)).blocks = UndoBlocks(store).blocks
    BY <1>0, PutBack
  <2> QED
    BY <1>0, <2>1, <2>2 DEF BuildsInv
<1>9. ASSUME ClearBuilds PROVE BuildsInv'
  <2>1. /\ stage = "idle" /\ store' = NoBlocks /\ tape' = NoTape
        /\ UNCHANGED <<stage, renderer, tries, notes, recording>>
    BY <1>9 DEF ClearBuilds
  <2>2. WellFormed(NoBlocks)
    <3> DEFINE B == Seq(Blocks)
    <3>1. <<>> \in B
      OBVIOUS
    <3>2. B = Seq(Blocks)
      OBVIOUS
    <3> HIDE DEF B
    <3>3. NoBlocks \in Stores
      BY <3>1, <3>2 DEF Stores, NoBlocks
    <3> QED
      BY <3>3 DEF WellFormed, NoBlocks
  <2> QED
    BY <1>0, <1>a, <2>1, <2>2 DEF BuildsInv
<1>10. CASE UNCHANGED buildVars
  BY <1>0, <1>10 DEF buildVars, BuildsInv
<1> QED
  BY <1>1, <1>2, <1>3, <1>4, <1>5, <1>6, <1>7, <1>8, <1>9, <1>10 DEF BuildsNext

(* Every build's layout is that of its blocks alone, whatever it takes     *)
(* from the tape of the last build, for every parse that can be put back   *)
(* (SessionAccess::Render, SessionLayout::Replay).                         *)
THEOREM LayoutsAsFresh == BuildsSpec => []LayoutAsFresh
<1>1. BuildsInv => LayoutAsFresh
  BY DEF BuildsInv, LayoutAsFresh
<1> QED
  BY <1>1, BuildsStart, BuildsStep, PTL DEF BuildsSpec
=============================================================================
