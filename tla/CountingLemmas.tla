---------------------------- MODULE CountingLemmas ----------------------------
(***************************************************************************)
(* Facts that several of the proofs count with: a least number, the k-th   *)
(* of some numbers, and a sum over a finite set, MapThenSumSet of the      *)
(* community modules, for a table of what each element adds.               *)
(***************************************************************************)
EXTENDS Integers, FiniteSets, FiniteSetsExt, FiniteSetTheorems, WellFoundedInduction, TLAPS

\* A set of naturals that is not empty has a least one.
LEMMA LeastNatural ==
    ASSUME NEW T, T \subseteq Nat, T # {}
    PROVE  \E n \in T : \A m \in T : n <= m
<1> DEFINE R == OpToRel(<, Nat)
<1>1. PICK n \in T : \A m \in T : ~ (<<m, n>> \in R)
  <2>1. IsWellFoundedOn(R, Nat)
    BY NatLessThanWellFounded
  <2> HIDE DEF R
  <2> QED
    BY <2>1, WFMin
<1>2. \A m \in T : ~ (m < n)
  BY <1>1 DEF OpToRel
<1> QED
  BY <1>2

\* What holds at 0 and one further each time holds up to N.
LEMMA StepByStep ==
    ASSUME NEW N \in Nat, NEW D, 0 \in D, \A n \in 1 .. N : n - 1 \in D => n \in D
    PROVE  0 .. N \subseteq D
<1> DEFINE out == {n \in 0 .. N : n \notin D}
<1>1. SUFFICES ASSUME out # {} PROVE FALSE
  OBVIOUS
<1>2. PICK n \in out : \A m \in out : n <= m
  <2>1. out \subseteq Nat
    OBVIOUS
  <2> HIDE DEF out
  <2> QED
    BY <1>1, <2>1, LeastNatural
<1>3. n \in 0 .. N /\ n # 0 /\ n \notin D
  BY <1>2
<1>4. n - 1 \notin out
  <2>1. n \in Nat
    BY <1>3
  <2> HIDE DEF out
  <2> QED
    BY <1>2, <2>1
<1> QED
  BY <1>3, <1>4

\* N steps from a state on, each to what go makes of the state before.
AreSteps(N, States, base, go, f) ==
    f \in [0 .. N -> States] /\ f[0] = base /\ \A n \in 1 .. N : f[n] = go[n][f[n - 1]]

LEMMA StepsExist ==
    ASSUME NEW N \in Nat, NEW States, NEW base \in States, NEW go \in [1 .. N -> [States -> States]]
    PROVE  \E f : AreSteps(N, States, base, go, f)
<1> DEFINE IsUpTo(m, f) == f \in [0 .. N -> States] /\ f[0] = base /\ \A n \in 1 .. m : f[n] = go[n][f[n - 1]]
           D == {m \in 0 .. N : \E f : IsUpTo(m, f)}
<1>1. 0 \in D
  <2> DEFINE f == [n \in 0 .. N |-> base]
  <2>1. IsUpTo(0, f)
    OBVIOUS
  <2>2. \E h : IsUpTo(0, h)
    <3> HIDE DEF f, IsUpTo
    <3> QED
      BY <2>1
  <2> HIDE DEF IsUpTo
  <2> QED
    BY <2>2
<1>2. ASSUME NEW m \in 1 .. N, m - 1 \in D PROVE m \in D
  <2>1. PICK f : IsUpTo(m - 1, f)
    BY <1>2
  <2> DEFINE g == [f EXCEPT ![m] = go[m][f[m - 1]]]
  <2>2. m \in 0 .. N /\ m - 1 \in 0 .. N /\ m \in Nat /\ m # 0
    OBVIOUS
  <2>3. f \in [0 .. N -> States] /\ f[0] = base /\ \A n \in 1 .. m - 1 : f[n] = go[n][f[n - 1]]
    BY <2>1
  <2>4. go[m] \in [States -> States] /\ f[m - 1] \in States
    BY <2>2, <2>3
  <2>5. g \in [0 .. N -> States] /\ g[m] = go[m][f[m - 1]] /\ \A n \in 0 .. N : n # m => g[n] = f[n]
    BY <2>2, <2>3, <2>4
  <2> HIDE DEF g, IsUpTo
  <2>6. g[0] = base
    BY <2>2, <2>3, <2>5
  <2>7. ASSUME NEW n \in 1 .. m PROVE g[n] = go[n][g[n - 1]]
    <3>1. n - 1 \in 0 .. N /\ n - 1 # m /\ n \in 0 .. N
      OBVIOUS
    <3>2. g[n - 1] = f[n - 1]
      BY <2>5, <3>1
    <3>3. CASE n = m
      BY <2>5, <3>2, <3>3
    <3>4. CASE n # m
      <4>1. n \in 1 .. m - 1
        BY <3>4
      <4> QED
        BY <2>3, <2>5, <3>1, <3>2, <3>4, <4>1
    <3> QED
      BY <3>3, <3>4
  <2>8. IsUpTo(m, g)
    BY <2>5, <2>6, <2>7 DEF IsUpTo
  <2> QED
    BY <2>2, <2>8
<1>3. 0 .. N \subseteq D
  <2> HIDE DEF D
  <2> QED
    BY <1>1, <1>2, StepByStep
<1>4. PICK f : IsUpTo(N, f)
  BY <1>3
<1> QED
  BY <1>4 DEF AreSteps

-----------------------------------------------------------------------------
(***************************************************************************)
(* The k-th of some numbers.                                               *)
(***************************************************************************)
\* Of E, those up to x, and how many they are.
UpTo(E, x) == {f \in E : f <= x}
Rank(E, x) == Cardinality(UpTo(E, x))

LEMMA RankType ==
    ASSUME NEW E, IsFiniteSet(E), NEW x
    PROVE  /\ IsFiniteSet(UpTo(E, x)) /\ Rank(E, x) \in Nat /\ Cardinality(E) \in Nat
           /\ Rank(E, x) <= Cardinality(E)
<1>1. UpTo(E, x) \subseteq E
  BY DEF UpTo
<1> QED
  BY <1>1, FS_Subset, FS_CardinalityType DEF Rank

LEMMA RankGrows ==
    ASSUME NEW E, IsFiniteSet(E), E \subseteq Nat, NEW x \in E, NEW y \in E, x < y
    PROVE  Rank(E, x) < Rank(E, y)
<1>1. UpTo(E, x) \subseteq UpTo(E, y) /\ UpTo(E, x) # UpTo(E, y)
  <2>1. \A f \in E : f \in Nat
    OBVIOUS
  <2>2. \A f \in E : f <= x => f <= y
    BY <2>1
  <2>3. y <= y /\ ~(y <= x)
    BY <2>1
  <2>4. UpTo(E, x) \subseteq UpTo(E, y)
    BY <2>2 DEF UpTo
  <2>5. y \in UpTo(E, y) /\ y \notin UpTo(E, x)
    BY <2>3 DEF UpTo
  <2> QED
    BY <2>4, <2>5
<1> QED
  BY <1>1, RankType, FS_Subset, FS_CardinalityType DEF Rank

LEMMA RankOne ==
    ASSUME NEW E, IsFiniteSet(E), E \subseteq Nat, NEW x \in E, NEW y \in E, Rank(E, x) = Rank(E, y)
    PROVE  x = y
<1>1. x \in Nat /\ y \in Nat /\ Rank(E, x) \in Nat
  BY RankType
<1>2. ~(x < y)
  <2>1. SUFFICES ASSUME x < y PROVE FALSE
    OBVIOUS
  <2>2. Rank(E, x) < Rank(E, y)
    BY <2>1, RankGrows
  <2> QED
    BY <1>1, <2>2
<1>3. ~(y < x)
  <2>1. SUFFICES ASSUME y < x PROVE FALSE
    OBVIOUS
  <2>2. Rank(E, y) < Rank(E, x)
    BY <2>1, RankGrows
  <2> QED
    BY <1>1, <2>2
<1> QED
  BY <1>1, <1>2, <1>3

LEMMA RankIs ==
    ASSUME NEW N \in Nat, NEW E, IsFiniteSet(E), E \subseteq 1 .. N, NEW k \in 1 .. Cardinality(E)
    PROVE  \E x \in E : Rank(E, x) = k
<1> DEFINE C == {n \in Nat : Rank(E, n) >= k}
<1>1. Cardinality(E) \in Nat /\ k \in Nat /\ k >= 1
  BY FS_CardinalityType
<1>2. C # {}
  <2>1. UpTo(E, N) = E
    <3>1. \A f \in E : f <= N
      OBVIOUS
    <3> QED
      BY <3>1 DEF UpTo
  <2>2. Rank(E, N) = Cardinality(E)
    BY <2>1 DEF Rank
  <2> QED
    BY <1>1, <2>2
<1>3. PICK n \in C : \A m \in C : n <= m
  <2>1. C \subseteq Nat
    OBVIOUS
  <2> HIDE DEF C
  <2> QED
    BY <1>2, <2>1, LeastNatural
<1>4. n # 0
  <2>1. UpTo(E, 0) = {}
    <3>1. \A f \in E : ~(f <= 0)
      OBVIOUS
    <3> QED
      BY <3>1 DEF UpTo
  <2>2. Rank(E, 0) = 0
    BY <2>1, FS_EmptySet DEF Rank
  <2> QED
    BY <1>1, <1>3, <2>2
<1>5. n - 1 \in Nat /\ Rank(E, n - 1) < k /\ Rank(E, n) >= k
  <2>1. n \in Nat /\ n - 1 \in Nat /\ Rank(E, n - 1) \in Nat
    BY <1>3, <1>4, RankType
  <2>2. n - 1 \notin C
    <3> HIDE DEF C
    <3> QED
      BY <1>3, <2>1
  <2> QED
    BY <1>1, <1>3, <2>1, <2>2
<1>6. n \in E
  <2>1. SUFFICES ASSUME n \notin E PROVE FALSE
    OBVIOUS
  <2>2. UpTo(E, n) = UpTo(E, n - 1)
    <3>1. \A f \in E : f \in Nat /\ f # n
      BY <2>1
    <3>2. \A f \in E : f <= n <=> f <= n - 1
      BY <1>5, <3>1
    <3> QED
      BY <3>2 DEF UpTo
  <2> QED
    BY <1>1, <1>5, <2>2, RankType DEF Rank
<1>7. UpTo(E, n) = UpTo(E, n - 1) \union {n} /\ n \notin UpTo(E, n - 1)
  <2>1. \A f \in E : f \in Nat
    OBVIOUS
  <2>2. \A f \in E : f <= n <=> f <= n - 1 \/ f = n
    BY <1>5, <2>1
  <2>3. n \in E /\ n <= n /\ ~(n <= n - 1)
    BY <1>5, <1>6
  <2> QED
    BY <2>2, <2>3 DEF UpTo
<1>8. Rank(E, n) = Rank(E, n - 1) + 1
  BY <1>7, RankType, FS_AddElement DEF Rank
<1> QED
  BY <1>1, <1>5, <1>6, <1>8, RankType
-----------------------------------------------------------------------------
(***************************************************************************)
(* A sum takes one element after another, in an order of its own: the      *)
(* order is of no matter.                                                  *)
(***************************************************************************)
\* What the elements of S add, all in all.
Total(adds, S) == MapThenSumSet(LAMBDA x : adds[x], S)

\* The element a sum takes first.
First(s) == CHOOSE x \in s : TRUE

\* The sums of the sets in all, from those of the sets with an element less.
SumsFrom(adds, all, sums) ==
    [s \in all |-> IF s = {} THEN 0 ELSE adds[First(s)] + sums[s \ {First(s)}]]

\* A table of the sums of the subsets of S.
AreSums(adds, S, sums) == sums = SumsFrom(adds, SUBSET S, sums)

LEMMA FirstIn ==
    ASSUME NEW s, s # {}
    PROVE  First(s) \in s
BY DEF First

\* An element less is a number less.
LEMMA OneLess ==
    ASSUME NEW S, IsFiniteSet(S), NEW x \in S
    PROVE  /\ IsFiniteSet(S \ {x})
           /\ Cardinality(S) \in Nat \ {0} /\ Cardinality(S \ {x}) = Cardinality(S) - 1
BY FS_RemoveElement, FS_CardinalityType, FS_EmptySet

\* The sums of a finite set's subsets exist.
LEMMA SumsExist ==
    ASSUME NEW S, IsFiniteSet(S), NEW adds
    PROVE  \E sums : AreSums(adds, S, sums)
<1> DEFINE Small(n) == {s \in SUBSET S : Cardinality(s) <= n}
           Missing == {n \in Nat : ~ \E sums : sums = SumsFrom(adds, Small(n), sums)}
<1>1. \A s \in SUBSET S : IsFiniteSet(s) /\ Cardinality(s) \in Nat
  BY FS_Subset, FS_CardinalityType
<1>2. Missing = {}
  <2>1. SUFFICES ASSUME Missing # {} PROVE FALSE
    OBVIOUS
  <2>2. PICK n \in Missing : \A m \in Missing : n <= m
    <3>1. Missing \subseteq Nat
      OBVIOUS
    <3> HIDE DEF Missing
    <3> QED
      BY <2>1, <3>1, LeastNatural
  <2>3. n # 0
    <3>1. SUFFICES ASSUME n = 0 PROVE FALSE
      OBVIOUS
    <3>2. \A s \in Small(0) : s = {}
      BY <1>1, FS_EmptySet
    <3> DEFINE sums == [s \in Small(0) |-> 0]
    <3>3. sums = SumsFrom(adds, Small(0), sums)
      BY <3>2 DEF SumsFrom
    <3> QED
      BY <3>1, <3>3
  <2>4. n - 1 \in Nat /\ n - 1 \notin Missing
    <3>1. n \in Nat
      BY <2>2
    <3> HIDE DEF Missing
    <3> QED
      BY <2>2, <2>3, <3>1
  <2>5. PICK less : less = SumsFrom(adds, Small(n - 1), less)
    BY <2>4
  <2>6. \A s \in Small(n) : s # {} => s \ {First(s)} \in Small(n - 1)
    <3>1. TAKE s \in Small(n)
    <3>2. HAVE s # {}
    <3>3. First(s) \in s /\ IsFiniteSet(s) /\ Cardinality(s) \in Nat /\ Cardinality(s) <= n
      BY <1>1, <3>2, FirstIn
    <3>4. Cardinality(s \ {First(s)}) = Cardinality(s) - 1
      BY <3>3, OneLess
    <3>5. n \in Nat /\ s \in SUBSET S
      BY <2>2
    <3>6. Cardinality(s \ {First(s)}) <= n - 1
      BY <3>3, <3>4, <3>5
    <3> QED
      BY <3>5, <3>6
  <2> DEFINE sums == SumsFrom(adds, Small(n), less)
  <2>7. \A s \in Small(n - 1) : s \in Small(n) /\ sums[s] = less[s]
    <3>1. TAKE s \in Small(n - 1)
    <3>2. n \in Nat
      BY <2>2
    <3>3. s \in Small(n)
      BY <1>1, <3>2
    <3>4. less[s] = IF s = {} THEN 0 ELSE adds[First(s)] + less[s \ {First(s)}]
      BY <2>5 DEF SumsFrom
    <3>5. sums[s] = IF s = {} THEN 0 ELSE adds[First(s)] + less[s \ {First(s)}]
      BY <3>3 DEF SumsFrom
    <3> QED
      BY <3>3, <3>4, <3>5
  <2>8. sums = SumsFrom(adds, Small(n), sums)
    BY <2>6, <2>7 DEF SumsFrom
  <2> QED
    BY <2>2, <2>8
<1>3. Cardinality(S) \notin Missing /\ Small(Cardinality(S)) = SUBSET S
  BY <1>1, <1>2, FS_Subset
<1> QED
  BY <1>1, <1>3 DEF AreSums

\* Two tables of sums say the same of a set both know, when its elements add the same in both.
LEMMA SumsSame ==
    ASSUME NEW S, IsFiniteSet(S), NEW adds, NEW sums, AreSums(adds, S, sums),
           NEW R, IsFiniteSet(R), NEW also, NEW others, AreSums(also, R, others),
           NEW T \in (SUBSET S) \cap (SUBSET R), \A x \in T : adds[x] = also[x]
    PROVE  sums[T] = others[T]
<1> DEFINE Differ == {n \in Nat : \E s \in SUBSET T : Cardinality(s) = n /\ sums[s] # others[s]}
<1>1. SUFFICES ASSUME Differ # {} PROVE FALSE
  <2>1. T \in SUBSET T /\ Cardinality(T) \in Nat
    BY FS_Subset, FS_CardinalityType
  <2> QED
    BY <2>1
<1>2. PICK n \in Differ : \A m \in Differ : n <= m
  <2>1. Differ \subseteq Nat
    OBVIOUS
  <2> HIDE DEF Differ
  <2> QED
    BY <1>1, <2>1, LeastNatural
<1>3. PICK s \in SUBSET T : Cardinality(s) = n /\ sums[s] # others[s]
  BY <1>2
<1>4. IsFiniteSet(s) /\ s \in SUBSET S /\ s \in SUBSET R
  BY FS_Subset
<1>5. s # {}
  BY <1>3, <1>4 DEF SumsFrom, AreSums
<1> DEFINE rest == s \ {First(s)}
<1>6. First(s) \in s /\ Cardinality(rest) = n - 1 /\ n - 1 \in Nat /\ rest \in SUBSET T
  <2>1. First(s) \in s
    BY <1>5, FirstIn
  <2> QED
    BY <1>3, <1>4, <2>1, OneLess
<1>7. sums[rest] = others[rest]
  BY <1>2, <1>6
<1>8. sums[s] = adds[First(s)] + sums[rest] /\ others[s] = also[First(s)] + others[rest]
  BY <1>4, <1>5 DEF SumsFrom, AreSums
<1> QED
  BY <1>3, <1>6, <1>7, <1>8

\* Sums of integers are integers.
LEMMA SumsType ==
    ASSUME NEW S, IsFiniteSet(S), NEW adds, \A x \in S : adds[x] \in Int,
           NEW sums, AreSums(adds, S, sums),
           NEW T \in SUBSET S
    PROVE  sums[T] \in Int /\ ((\A x \in S : adds[x] >= 0) => sums[T] >= 0)
<1> DEFINE Right(s) == sums[s] \in Int /\ ((\A x \in S : adds[x] >= 0) => sums[s] >= 0)
           Wrong == {n \in Nat : \E s \in SUBSET S : Cardinality(s) = n /\ ~Right(s)}
<1>1. SUFFICES ASSUME Wrong # {} PROVE FALSE
  BY FS_Subset, FS_CardinalityType
<1>2. PICK n \in Wrong : \A m \in Wrong : n <= m
  <2>1. Wrong \subseteq Nat
    OBVIOUS
  <2> HIDE DEF Wrong
  <2> QED
    BY <1>1, <2>1, LeastNatural
<1>3. PICK s \in SUBSET S : Cardinality(s) = n /\ ~Right(s)
  BY <1>2
<1>4. s # {} /\ IsFiniteSet(s)
  BY <1>3, FS_Subset DEF SumsFrom, AreSums
<1> DEFINE rest == s \ {First(s)}
<1>5. First(s) \in S /\ Cardinality(rest) = n - 1 /\ n - 1 \in Nat /\ rest \in SUBSET S
  BY <1>3, <1>4, FirstIn, OneLess
<1>6. Right(rest)
  BY <1>2, <1>5
<1>7. sums[s] = adds[First(s)] + sums[rest]
  BY <1>4 DEF SumsFrom, AreSums
<1> QED
  BY <1>3, <1>5, <1>6, <1>7

\* Any element may be taken first.
LEMMA SumsTakeAny ==
    ASSUME NEW S, IsFiniteSet(S), NEW adds, \A x \in S : adds[x] \in Int,
           NEW sums, AreSums(adds, S, sums),
           NEW T \in SUBSET S, NEW a \in T
    PROVE  sums[T] = adds[a] + sums[T \ {a}]
<1> DEFINE Right(s) == \A x \in s : sums[s] = adds[x] + sums[s \ {x}]
           Wrong == {n \in Nat : \E s \in SUBSET S : Cardinality(s) = n /\ ~Right(s)}
<1>1. SUFFICES ASSUME Wrong # {} PROVE FALSE
  BY FS_Subset, FS_CardinalityType
<1>2. PICK n \in Wrong : \A m \in Wrong : n <= m
  <2>1. Wrong \subseteq Nat
    OBVIOUS
  <2> HIDE DEF Wrong
  <2> QED
    BY <1>1, <2>1, LeastNatural
<1>3. PICK s \in SUBSET S : Cardinality(s) = n /\ ~Right(s)
  BY <1>2
<1>4. PICK x \in s : sums[s] # adds[x] + sums[s \ {x}]
  BY <1>3
<1>5. s # {} /\ IsFiniteSet(s)
  BY <1>4, FS_Subset
<1> DEFINE y == First(s)
<1>6. y \in s /\ sums[s] = adds[y] + sums[s \ {y}]
  BY <1>5, FirstIn DEF SumsFrom, AreSums
<1>7. x # y
  BY <1>4, <1>6
<1>8. Right(s \ {x}) /\ Right(s \ {y})
  <2>1. Cardinality(s \ {x}) = n - 1 /\ Cardinality(s \ {y}) = n - 1 /\ n - 1 \in Nat
    BY <1>3, <1>5, <1>6, OneLess
  <2>2. n - 1 \notin Wrong
    BY <1>2, <2>1
  <2> QED
    BY <2>1, <2>2
<1>9. sums[s \ {x}] = adds[y] + sums[(s \ {x}) \ {y}] /\ sums[s \ {y}] = adds[x] + sums[(s \ {y}) \ {x}]
  BY <1>6, <1>7, <1>8
<1>10. (s \ {x}) \ {y} = (s \ {y}) \ {x}
  OBVIOUS
<1>11. sums[(s \ {y}) \ {x}] \in Int /\ adds[x] \in Int /\ adds[y] \in Int
  <2>1. (s \ {y}) \ {x} \in SUBSET S
    OBVIOUS
  <2> HIDE DEF y
  <2> QED
    BY <1>6, <2>1, SumsType
<1> HIDE DEF y
<1>12. sums[s \ {y}] = adds[x] + sums[(s \ {y}) \ {x}] /\ sums[s \ {x}] = adds[y] + sums[(s \ {y}) \ {x}]
  BY <1>9, <1>10
<1> QED
  BY <1>4, <1>6, <1>11, <1>12
-----------------------------------------------------------------------------
(***************************************************************************)
(* What the other proofs use.                                              *)
(***************************************************************************)
\* The total is in any table of the sums.
LEMMA TotalIs ==
    ASSUME NEW S, IsFiniteSet(S), NEW adds
    PROVE  \E sums : AreSums(adds, S, sums) /\ Total(adds, S) = sums[S]
<1>1. PICK sums : AreSums(adds, S, sums)
  BY SumsExist
<1> QED
  BY <1>1 DEF Total, MapThenSumSet, MapThenFoldSet, SumsFrom, AreSums, First

LEMMA TotalEmpty ==
    ASSUME NEW adds
    PROVE  Total(adds, {}) = 0
<1>1. PICK sums : AreSums(adds, {}, sums) /\ Total(adds, {}) = sums[{}]
  BY TotalIs, FS_EmptySet
<1> QED
  BY <1>1 DEF SumsFrom, AreSums

LEMMA TotalType ==
    ASSUME NEW S, IsFiniteSet(S), NEW adds, \A x \in S : adds[x] \in Int
    PROVE  Total(adds, S) \in Int /\ ((\A x \in S : adds[x] >= 0) => Total(adds, S) >= 0)
<1>1. PICK sums : AreSums(adds, S, sums) /\ Total(adds, S) = sums[S]
  BY TotalIs
<1> QED
  BY <1>1, SumsType

\* The total of a set depends on what its elements add and on nothing else.
LEMMA TotalSame ==
    ASSUME NEW S, IsFiniteSet(S), NEW adds, NEW also, \A x \in S : adds[x] = also[x]
    PROVE  Total(adds, S) = Total(also, S)
<1>1. PICK sums : AreSums(adds, S, sums) /\ Total(adds, S) = sums[S]
  BY TotalIs
<1>2. PICK others : AreSums(also, S, others) /\ Total(also, S) = others[S]
  BY TotalIs
<1>3. S \in (SUBSET S) \cap (SUBSET S)
  OBVIOUS
<1>4. sums[S] = others[S]
  BY <1>1, <1>2, <1>3, SumsSame
<1> QED
  BY <1>1, <1>2, <1>4

\* An element taken out takes what it adds.
LEMMA TotalLess ==
    ASSUME NEW S, IsFiniteSet(S), NEW adds, \A x \in S : adds[x] \in Int, NEW a \in S
    PROVE  Total(adds, S) = adds[a] + Total(adds, S \ {a})
<1>1. PICK sums : AreSums(adds, S, sums) /\ Total(adds, S) = sums[S]
  BY TotalIs
<1>2. IsFiniteSet(S \ {a})
  BY OneLess
<1>3. PICK others : AreSums(adds, S \ {a}, others) /\ Total(adds, S \ {a}) = others[S \ {a}]
  BY <1>2, TotalIs
<1>4. sums[S \ {a}] = others[S \ {a}]
  <2>1. S \ {a} \in (SUBSET S) \cap (SUBSET (S \ {a}))
    OBVIOUS
  <2> QED
    BY <1>1, <1>2, <1>3, <2>1, SumsSame
<1>5. sums[S] = adds[a] + sums[S \ {a}]
  <2>1. S \in SUBSET S
    OBVIOUS
  <2> QED
    BY <1>1, <2>1, SumsTakeAny
<1> QED
  BY <1>1, <1>3, <1>4, <1>5

\* An element put in brings what it adds.
LEMMA TotalMore ==
    ASSUME NEW S, IsFiniteSet(S), NEW a, a \notin S, NEW adds, \A x \in S \union {a} : adds[x] \in Int
    PROVE  Total(adds, S \union {a}) = adds[a] + Total(adds, S)
<1>1. IsFiniteSet(S \union {a}) /\ (S \union {a}) \ {a} = S
  BY FS_AddElement
<1> QED
  BY <1>1, TotalLess

\* A sum of some of the elements is no more than the sum of all, when none adds less than nothing.
LEMMA TotalOfSome ==
    ASSUME NEW S, IsFiniteSet(S), NEW T \in SUBSET S, NEW adds, \A x \in S : adds[x] \in Nat
    PROVE  Total(adds, T) <= Total(adds, S)
<1> DEFINE Wrong == {n \in Nat : \E s \in SUBSET S :
                        Cardinality(s) = n /\ T \subseteq s /\ ~(Total(adds, T) <= Total(adds, s))}
<1>1. SUFFICES ASSUME Wrong # {} PROVE FALSE
  BY FS_CardinalityType
<1>2. PICK n \in Wrong : \A m \in Wrong : n <= m
  <2>1. Wrong \subseteq Nat
    OBVIOUS
  <2> HIDE DEF Wrong
  <2> QED
    BY <1>1, <2>1, LeastNatural
<1>3. PICK s \in SUBSET S : Cardinality(s) = n /\ T \subseteq s /\ ~(Total(adds, T) <= Total(adds, s))
  BY <1>2
<1>4. IsFiniteSet(s) /\ IsFiniteSet(T) /\ \A x \in s : adds[x] \in Int
  BY FS_Subset
<1>5. Total(adds, T) \in Int /\ T # s
  BY <1>3, <1>4, TotalType
<1>6. PICK x \in s : x \notin T
  BY <1>3, <1>5
<1>7. Total(adds, s) = adds[x] + Total(adds, s \ {x})
  BY <1>4, TotalLess
<1>8. Cardinality(s \ {x}) = n - 1 /\ n - 1 \in Nat /\ IsFiniteSet(s \ {x})
  BY <1>3, <1>4, OneLess
<1>9. Total(adds, T) <= Total(adds, s \ {x})
  BY <1>2, <1>3, <1>6, <1>8
<1>10. Total(adds, s \ {x}) \in Int
  BY <1>4, <1>8, TotalType
<1> QED
  BY <1>3, <1>5, <1>7, <1>9, <1>10

\* Elements told apart by others that add as much add no more than those.
LEMMA TotalMapped ==
    ASSUME NEW S, IsFiniteSet(S), NEW L, IsFiniteSet(L), NEW adds, NEW also, \A y \in L : also[y] \in Nat,
           NEW f, \A x \in S : f[x] \in L /\ adds[x] = also[f[x]],
           \A x, y \in S : f[x] = f[y] => x = y
    PROVE  Total(adds, S) <= Total(also, L)
<1> DEFINE Into(s, m) == s \in SUBSET S /\ m \in SUBSET L /\ \A x \in s : f[x] \in m
           Wrong == {n \in Nat : \E s \in SUBSET S, m \in SUBSET L :
                        Cardinality(s) = n /\ Into(s, m) /\ ~(Total(adds, s) <= Total(also, m))}
<1>1. SUFFICES ASSUME Wrong # {} PROVE FALSE
  BY FS_CardinalityType
<1>2. PICK n \in Wrong : \A m \in Wrong : n <= m
  <2>1. Wrong \subseteq Nat
    OBVIOUS
  <2> HIDE DEF Wrong
  <2> QED
    BY <1>1, <2>1, LeastNatural
<1>3. PICK s \in SUBSET S, m \in SUBSET L :
          Cardinality(s) = n /\ Into(s, m) /\ ~(Total(adds, s) <= Total(also, m))
  BY <1>2
<1>4. IsFiniteSet(s) /\ IsFiniteSet(m) /\ (\A y \in m : also[y] \in Int /\ also[y] >= 0)
      /\ \A x \in s : adds[x] \in Int
  BY FS_Subset
<1>5. Total(also, m) \in Int /\ Total(also, m) >= 0
  BY <1>4, TotalType
<1>6. s # {}
  <2>1. Total(adds, {}) = 0
    BY TotalEmpty
  <2> QED
    BY <1>3, <1>5, <2>1
<1>7. PICK x \in s : TRUE
  BY <1>6
<1> DEFINE y == f[x]
<1>8. Total(adds, s) = adds[x] + Total(adds, s \ {x}) /\ Total(also, m) = also[y] + Total(also, m \ {y})
  <2>1. y \in m
    BY <1>3
  <2> QED
    BY <1>4, <2>1, TotalLess
<1>9. Cardinality(s \ {x}) = n - 1 /\ n - 1 \in Nat /\ Into(s \ {x}, m \ {y})
  <2>1. Cardinality(s \ {x}) = n - 1 /\ n - 1 \in Nat
    BY <1>3, <1>4, OneLess
  <2>2. \A z \in s \ {x} : f[z] \in m /\ f[z] # y
    BY <1>3
  <2> QED
    BY <2>1, <2>2
<1>10. Total(adds, s \ {x}) <= Total(also, m \ {y})
  BY <1>2, <1>3, <1>9
<1>11. adds[x] = also[y] /\ adds[x] \in Int
  BY <1>4
<1>12. Total(adds, s \ {x}) \in Int /\ Total(also, m \ {y}) \in Int
  <2>1. IsFiniteSet(s \ {x}) /\ IsFiniteSet(m \ {y})
    BY <1>4, FS_Subset
  <2> QED
    BY <1>4, <2>1, TotalType
<1> HIDE DEF y
<1> QED
  BY <1>3, <1>8, <1>10, <1>11, <1>12
=============================================================================
