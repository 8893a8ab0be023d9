------------------------- MODULE BatchExportProofs -------------------------
(***************************************************************************)
(* Proofs about RunJobs, for every number of jobs and threads and whatever *)
(* the sizes are, and about a batch that uses its threads as RunJobs lets  *)
(* it: what is proved of RunJobs holds of every batch export, with or      *)
(* without a report.  The report then has one line for each document, and  *)
(* exit code 0 means that every document was converted and reported.       *)
(***************************************************************************)
EXTENDS BatchExport, FiniteSetTheorems, SequenceTheorems, WellFoundedInduction, TLAPS

Typed ==
    /\ sizing \in Nat /\ next \in Nat
    /\ arrived \in Nat /\ active \in 1 .. workers /\ largest \in Nat
    /\ mine \in [Workers -> Nat] /\ index \in [Workers -> Jobs]
    /\ pc \in [Workers -> {"new", "size", "measure", "arrive", "wait", "next", "run", "done"}]
    /\ waiting \subseteq Workers
    /\ runs \in [Jobs -> Nat] /\ returned \in BOOLEAN

\* What the counter of jobs means: the jobs below it were run, or are being run by one thread.
Shared ==
    /\ \A w \in Running : index[w] < next /\ runs[index[w]] = 0
    /\ \A w, v \in Running : w # v => index[w] # index[v]
    /\ \A j \in Jobs : next <= j => runs[j] = 0
    /\ \A j \in Jobs : runs[j] <= 1
    /\ \A j \in Jobs : j < next => runs[j] = 1 \/ \E w \in Running : index[w] = j
    /\ pc[0] = "done" => count <= next
    /\ returned => \A w \in Workers : pc[w] = "done"

\* The threads that have arrived at the barrier, and those that were let through it.
Past == {w \in Workers : pc[w] \in {"wait", "next", "run", "done"}}
Through == {w \in Workers : pc[w] \in {"next", "run", "done"}}

\* What a thread saw is a size of a job, and every size taken is in what some thread saw.
Measured ==
    /\ \A w \in Workers : mine[w] = 0 \/ \E j \in Jobs : mine[w] = Size[j]
    /\ largest = 0 \/ \E j \in Jobs : largest = Size[j]
    /\ \A j \in Jobs : j < sizing =>
          \E w \in Workers : (pc[w] = "measure" /\ index[w] = j) \/ Size[j] <= mine[w]

Barrier ==
    /\ arrived = Cardinality(Past)
    /\ \A w \in Workers : pc[w] \in {"arrive", "wait", "next", "run", "done"} => count <= sizing
    /\ \A w \in Past : mine[w] <= largest
    /\ Through # {} => arrived = workers
    /\ arrived = workers => active = ActiveFor(largest)
    /\ \A w \in Past : w \notin Through /\ w \notin waiting => arrived = workers
    /\ \A w \in Workers : pc[w] \in {"next", "run"} => w < active

\* A thread alone needs no barrier.
Alone == workers = 1 => \A w \in Workers : pc[w] \in {"new", "next", "run", "done"}

IInv == Typed /\ Shared /\ Measured /\ (workers > 1 => Barrier) /\ Alone

LEMMA Constants ==
    /\ count \in Nat \ {0} /\ workers \in Nat \ {0} /\ workers <= count
    /\ 0 \in Workers /\ 0 \in Jobs
    /\ IsFiniteSet(Workers) /\ Cardinality(Workers) = workers
<1>1. count \in Nat \ {0} /\ workers \in Nat \ {0} /\ workers <= count
  BY CountAssumption
<1>2. IsFiniteSet(0 .. workers - 1) /\ Cardinality(0 .. workers - 1) = workers
  BY <1>1, FS_Interval
<1> QED
  BY <1>1, <1>2 DEF Workers, Jobs

LEMMA SizeTypes ==
    /\ Large \in Nat /\ Huge \in Nat /\ Large <= Huge
    /\ \A j \in Jobs : Size[j] \in Int
BY SizeAssumption DEF NoSize

LEMMA LargerType ==
    ASSUME NEW a \in Nat, NEW b \in Int
    PROVE  Larger(a, b) \in Nat /\ Larger(a, b) >= a /\ Larger(a, b) >= b /\ Larger(a, b) \in {a, b}
BY DEF Larger

LEMMA ActiveForType ==
    ASSUME NEW n \in Int
    PROVE  ActiveFor(n) \in 1 .. workers
BY Constants, SizeTypes DEF ActiveFor

-----------------------------------------------------------------------------
(* The types *)

LEMMA TypedStep ==
    ASSUME Typed, [Next]_vars
    PROVE  Typed'
<1> USE Constants DEF Typed, At, Goto, sizes
<1>1. ASSUME NEW w \in Workers, Start(w)
      PROVE  Typed'
  BY <1>1 DEF Start
<1>2. ASSUME NEW w \in Workers, TakeSize(w)
      PROVE  Typed'
  <2>1. CASE sizing < count
    <3>1. sizing \in Jobs
      BY <2>1 DEF Jobs
    <3> QED
      BY <1>2, <2>1, <3>1 DEF TakeSize
  <2>2. CASE ~(sizing < count)
    BY <1>2, <2>2 DEF TakeSize
  <2> QED
    BY <2>1, <2>2
<1>3. ASSUME NEW w \in Workers, Measure(w)
      PROVE  Typed'
  <2>1. Larger(mine[w], Size[index[w]]) \in Nat
    BY LargerType, SizeTypes
  <2> QED
    BY <1>3, <2>1 DEF Measure
<1>4. ASSUME NEW w \in Workers, Arrive(w)
      PROVE  Typed'
  <2>1. largest' \in Nat /\ ActiveFor(largest') \in 1 .. workers
    BY <1>4, LargerType, ActiveForType DEF Arrive
  <2>2. active' \in 1 .. workers /\ waiting' \subseteq Workers
    BY <1>4, <2>1 DEF Arrive
  <2>3. pc' \in [Workers -> {"new", "size", "measure", "arrive", "wait", "next", "run", "done"}]
    BY <1>4 DEF Arrive
  <2> QED
    BY <1>4, <2>1, <2>2, <2>3 DEF Arrive
<1>5. ASSUME NEW w \in Workers, Woken(w)
      PROVE  Typed'
  BY <1>5 DEF Woken
<1>6. ASSUME NEW w \in Workers, TakeJob(w)
      PROVE  Typed'
  <2>1. CASE next < count
    <3>1. next \in Jobs
      BY <2>1 DEF Jobs
    <3> QED
      BY <1>6, <2>1, <3>1 DEF TakeJob
  <2>2. CASE ~(next < count)
    BY <1>6, <2>2 DEF TakeJob
  <2> QED
    BY <2>1, <2>2
<1>7. ASSUME NEW w \in Workers, Run(w)
      PROVE  Typed'
  BY <1>7 DEF Run
<1>8. CASE Join
  BY <1>8 DEF Join
<1>9. CASE UNCHANGED vars
  BY <1>9 DEF vars
<1> QED
  BY <1>1, <1>2, <1>3, <1>4, <1>5, <1>6, <1>7, <1>8, <1>9 DEF Next, Work, Rest

-----------------------------------------------------------------------------
(* The jobs *)

\* A thread's move to another place leaves the jobs as they are, unless it takes or runs one.
LEMMA SharedElsewhere ==
    ASSUME Typed, Typed', Shared, NEW w \in Workers, NEW place,
           pc' = [pc EXCEPT ![w] = place], pc[w] \notin {"run", "done"}, place # "run",
           \A v \in Workers \ {w} : index'[v] = index[v],
           next' = next, runs' = runs, returned' = returned,
           w = 0 /\ place = "done" => count <= next
    PROVE  Shared'
<1> USE Constants
<1>1. pc'[w] = place /\ \A v \in Workers \ {w} : pc'[v] = pc[v]
  BY DEF Typed
<1>2. Running' = Running /\ \A v \in Running : index'[v] = index[v]
  BY <1>1 DEF Running, At
<1>3. ~returned
  BY DEF Shared
<1>4. pc'[0] = "done" => count <= next
  BY <1>1 DEF Shared
<1> QED
  BY <1>2, <1>3, <1>4 DEF Shared

LEMMA SharedTake ==
    ASSUME Typed, Typed', Shared, NEW w \in Workers, TakeJob(w)
    PROVE  Shared'
<1> USE Constants DEF At, Goto
<1>1. next \in Nat /\ next' = next + 1 /\ runs' = runs /\ returned' = returned /\ pc[w] = "next"
  BY DEF Typed, TakeJob
<1>2. ~returned /\ w \notin Running
  BY <1>1 DEF Shared, Running
<1>3. CASE next < count
  <2>1. pc'[w] = "run" /\ index'[w] = next /\ next \in Jobs
    BY <1>1, <1>3 DEF TakeJob, Typed, Jobs
  <2>2. \A v \in Workers \ {w} : pc'[v] = pc[v] /\ index'[v] = index[v]
    BY <1>3 DEF TakeJob, Typed
  <2>3. Running' = Running \cup {w}
    BY <2>1, <2>2 DEF Running
  <2>4. \A v \in Running : index[v] \in Jobs /\ index[v] < next /\ index'[v] = index[v]
    BY <1>2, <2>2 DEF Running, Typed, Shared
  <2>5. \A j \in Jobs : (next' <= j => next <= j) /\ (j < next' => j < next \/ j = next)
    BY <1>1 DEF Jobs
  <2>6. \A v \in Running' : index'[v] < next' /\ runs'[index'[v]] = 0
    <3>1. \A j \in Jobs : j <= next => j < next'
      BY <1>1 DEF Jobs
    <3>2. \A v \in Running : index[v] <= next
      BY <1>1, <2>4 DEF Jobs
    <3>3. runs[next] = 0
      BY <1>1, <2>1 DEF Shared
    <3>4. index'[w] < next' /\ runs'[index'[w]] = 0
      BY <1>1, <2>1, <3>3
    <3>5. \A v \in Running : index'[v] < next' /\ runs'[index'[v]] = 0
      <4>1. \A v \in Running : index'[v] < next'
        BY <2>4, <3>1, <3>2
      <4> QED
        BY <1>1, <2>4, <4>1 DEF Shared
    <3> QED
      BY <2>3, <3>4, <3>5
  <2>7. \A v, u \in Running' : v # u => index'[v] # index'[u]
    <3>1. \A v \in Running : index[v] # next
      BY <1>1, <2>4 DEF Jobs
    <3> QED
      BY <2>1, <2>3, <2>4, <3>1 DEF Shared
  <2>8. pc'[0] # "done" \/ count <= next'
    <3>1. count <= next => count <= next'
      BY <1>1
    <3> QED
      BY <2>1, <2>2, <3>1 DEF Shared
  <2> QED
    BY <1>1, <1>2, <2>1, <2>3, <2>4, <2>5, <2>6, <2>7, <2>8 DEF Shared
<1>4. CASE ~(next < count)
  <2>1. pc'[w] = "done" /\ index' = index /\ \A v \in Workers \ {w} : pc'[v] = pc[v]
    BY <1>1, <1>4 DEF TakeJob, Typed
  <2>2. Running' = Running
    BY <1>1, <2>1 DEF Running
  <2>3. count <= next /\ count <= next'
    BY <1>1, <1>4
  <2>4. \A j \in Jobs : j < next /\ j < next' /\ ~(next' <= j)
    BY <2>3, <1>1 DEF Jobs
  <2>5. \A v \in Running : index[v] \in Jobs
    BY DEF Running, Typed
  <2> QED
    BY <1>1, <1>2, <2>1, <2>2, <2>3, <2>4, <2>5 DEF Shared
<1> QED
  BY <1>3, <1>4

LEMMA SharedRun ==
    ASSUME Typed, Shared, NEW w \in Workers, Run(w)
    PROVE  Shared'
<1> USE DEF At, Goto
<1>1. pc[w] = "run" /\ w \in Running /\ pc'[w] = "next" /\ index' = index /\ next' = next /\ returned' = returned
  BY DEF Run, Typed, Running
<1>2. \A v \in Workers \ {w} : pc'[v] = pc[v]
  BY DEF Run, Typed
<1>3. Running' = Running \ {w}
  BY <1>1, <1>2 DEF Running
<1>4. runs[index[w]] = 0 /\ index[w] \in Jobs /\ index[w] < next
  BY <1>1 DEF Shared, Typed
<1>5. runs'[index[w]] = 1 /\ \A j \in Jobs \ {index[w]} : runs'[j] = runs[j]
  BY <1>4 DEF Run, Typed
<1>6. ~returned
  BY <1>1 DEF Shared
<1>7. \A v \in Running' : index[v] \in Jobs \ {index[w]}
  BY <1>1, <1>3 DEF Shared, Typed, Running
<1>8. \A j \in Jobs : next <= j => j # index[w]
  BY <1>4, Constants DEF Jobs, Typed
<1>9. \A j \in Jobs : j < next => runs'[j] = 1 \/ \E v \in Running' : index[v] = j
  BY <1>3, <1>5 DEF Shared
<1>10. pc'[0] = "done" => count <= next
  BY <1>1, <1>2, Constants DEF Shared
<1>11. \A j \in Jobs : runs'[j] <= 1
  BY <1>5 DEF Shared
<1> QED
  BY <1>1, <1>3, <1>5, <1>6, <1>7, <1>8, <1>9, <1>10, <1>11 DEF Shared

LEMMA SharedStep ==
    ASSUME Typed, Typed', Shared, [Next]_vars
    PROVE  Shared'
<1> USE Constants DEF At, Goto, sizes
<1>1. ASSUME NEW w \in Workers, Start(w) \/ TakeSize(w) \/ Measure(w)
      PROVE  Shared'
  <2>1. \E place \in {"size", "next", "measure", "arrive"} : pc' = [pc EXCEPT ![w] = place]
    BY <1>1 DEF Start, TakeSize, Measure
  <2>2. pc[w] \notin {"run", "done"} /\ next' = next /\ runs' = runs /\ returned' = returned
    BY <1>1 DEF Start, TakeSize, Measure
  <2>3. \A v \in Workers \ {w} : index'[v] = index[v]
    BY <1>1 DEF Start, TakeSize, Measure, Typed
  <2> QED
    BY <2>1, <2>2, <2>3, SharedElsewhere
<1>2. ASSUME NEW w \in Workers, Arrive(w) \/ Woken(w)
      PROVE  Shared'
  <2>1. active' \in 1 .. workers
    BY DEF Typed
  <2>2. w = 0 => ~(w >= active')
    BY <2>1
  <2>3. \E place \in {"wait", "next", "done"} :
            pc' = [pc EXCEPT ![w] = place] /\ (place = "done" => w >= active')
    BY <1>2 DEF Arrive, Woken
  <2>4. pc[w] \notin {"run", "done"} /\ next' = next /\ runs' = runs /\ returned' = returned /\ index' = index
    BY <1>2 DEF Arrive, Woken
  <2> QED
    BY <2>2, <2>3, <2>4, SharedElsewhere
<1>3. CASE Join
  BY <1>3 DEF Join, Shared, Running
<1>4. CASE UNCHANGED vars
  BY <1>4 DEF vars, Shared, Running
<1> QED
  BY <1>1, <1>2, <1>3, <1>4, SharedTake, SharedRun DEF Next, Work, Rest

\* Every job is run once, whatever the threads do between its two counters.
LEMMA SharedInit ==
    ASSUME Init
    PROVE  Typed /\ Shared
<1>1. Typed
  <2>1. workers \in 1 .. workers
    BY Constants
  <2> QED
    BY <2>1, Constants DEF Init, Typed
<1>2. Running = {}
  BY DEF Init, Running, At
<1>3. \A j \in Jobs : 0 <= j /\ ~(j < 0)
  BY DEF Jobs
<1> QED
  BY <1>1, <1>2, <1>3, Constants DEF Init, Shared

THEOREM JobsOnce == Spec => []EachOnce
<1>1. Init => Typed /\ Shared
  BY SharedInit
<1>2. Typed /\ Shared /\ [Next]_vars => Typed' /\ Shared'
  BY TypedStep, SharedStep
<1>3. Typed /\ Shared => EachOnce
  <2> SUFFICES ASSUME Typed, Shared
               PROVE  EachOnce
    OBVIOUS
  <2>1. ASSUME returned, NEW j \in Jobs
        PROVE  runs[j] = 1
    <3>1. count <= next /\ Running = {}
      BY <2>1, Constants DEF Shared, Running, At
    <3>2. j < next
      BY <3>1, Constants DEF Jobs, Typed
    <3> QED
      BY <3>1, <3>2 DEF Shared
  <2> QED
    BY <2>1 DEF EachOnce, Shared
<1> QED
  BY <1>1, <1>2, <1>3, PTL DEF Spec

-----------------------------------------------------------------------------
(* The sizes *)

LEMMA MeasuredStep ==
    ASSUME Typed, Typed', Measured, [Next]_vars
    PROVE  Measured'
<1> USE Constants DEF At, Goto, sizes
<1>1. ASSUME NEW w \in Workers, Start(w) \/ TakeJob(w) \/ Woken(w) \/ Run(w)
      PROVE  Measured'
  <2>1. sizing' = sizing /\ mine' = mine /\ largest' = largest
    BY <1>1 DEF Start, TakeJob, Woken, Run
  <2>2. \A v \in Workers : pc[v] = "measure" => pc'[v] = "measure" /\ index'[v] = index[v]
    BY <1>1 DEF Start, TakeJob, Woken, Run, Typed
  <2> QED
    BY <2>1, <2>2 DEF Measured
<1>2. ASSUME NEW w \in Workers, TakeSize(w)
      PROVE  Measured'
  <2>1. mine' = mine /\ largest' = largest /\ sizing' = sizing + 1 /\ sizing \in Nat
    BY <1>2 DEF TakeSize, Typed
  <2>2. \A v \in Workers : pc[v] = "measure" => pc'[v] = "measure" /\ index'[v] = index[v]
    BY <1>2 DEF TakeSize, Typed
  <2>3. \A j \in Jobs : j < sizing' => j < sizing \/ j = sizing
    BY <2>1 DEF Jobs
  <2>4. CASE sizing < count
    <3>1. pc'[w] = "measure" /\ index'[w] = sizing
      BY <1>2, <2>4 DEF TakeSize, Typed
    <3> QED
      BY <2>1, <2>2, <2>3, <3>1 DEF Measured
  <2>5. CASE ~(sizing < count)
    <3>1. \A j \in Jobs : j < sizing
      BY <2>1, <2>5 DEF Jobs
    <3> QED
      BY <2>1, <2>2, <3>1 DEF Measured
  <2> QED
    BY <2>4, <2>5
<1>3. ASSUME NEW w \in Workers, Measure(w)
      PROVE  Measured'
  <2> DEFINE j == index[w]
  <2>1. j \in Jobs /\ mine'[w] = Larger(mine[w], Size[j]) /\ mine[w] \in Nat /\ Size[j] \in Int
    BY <1>3, SizeTypes DEF Measure, Typed
  <2>2. mine'[w] >= mine[w] /\ mine'[w] >= Size[j] /\ mine'[w] \in {mine[w], Size[j]} /\ mine'[w] \in Nat
    BY <2>1, LargerType
  <2>3. \A v \in Workers \ {w} : mine'[v] = mine[v] /\ pc'[v] = pc[v]
    BY <1>3 DEF Measure, Typed
  <2>4. index' = index /\ sizing' = sizing /\ largest' = largest
    BY <1>3 DEF Measure
  <2>5. \A i \in Jobs : Size[i] <= mine[w] => Size[i] <= mine'[w]
    BY <2>1, <2>2, SizeTypes
  <2>6. Size[j] <= mine'[w]
    BY <2>1, <2>2
  <2> HIDE DEF j
  <2>7. \A i \in Jobs : i < sizing =>
            \E v \in Workers : (pc'[v] = "measure" /\ index[v] = i) \/ Size[i] <= mine'[v]
    BY <2>3, <2>5, <2>6 DEF Measured, j
  <2> QED
    BY <2>1, <2>2, <2>3, <2>4, <2>7 DEF Measured
<1>4. ASSUME NEW w \in Workers, Arrive(w)
      PROVE  Measured'
  <2>1. sizing' = sizing /\ mine' = mine /\ index' = index /\ largest' \in {largest, mine[w]}
    BY <1>4, LargerType DEF Arrive, Typed, Larger
  <2>2. \A v \in Workers : pc[v] = "measure" => pc'[v] = "measure"
    BY <1>4 DEF Arrive, Typed
  <2> QED
    BY <2>1, <2>2 DEF Measured
<1>5. CASE Join
  BY <1>5 DEF Join, Measured
<1>6. CASE UNCHANGED vars
  BY <1>6 DEF vars, Measured
<1> QED
  BY <1>1, <1>2, <1>3, <1>4, <1>5, <1>6 DEF Next, Work, Rest

LEMMA AloneStep ==
    ASSUME Typed, Alone, [Next]_vars
    PROVE  Alone'
<1> SUFFICES ASSUME workers = 1
             PROVE  \A v \in Workers : pc'[v] \in {"new", "next", "run", "done"}
  BY DEF Alone
<1>0. \A v \in Workers : pc[v] \in {"new", "next", "run", "done"}
  BY DEF Alone
<1>1. ASSUME NEW w \in Workers, Start(w) \/ Work(w)
      PROVE  \E place \in {"next", "run", "done"} : pc' = [pc EXCEPT ![w] = place]
  BY <1>0, <1>1 DEF Start, Work, TakeSize, Measure, Arrive, Woken, TakeJob, Run, At, Goto
<1> QED
  BY <1>0, <1>1 DEF Next, Join, Rest, vars, Typed

\* A thread's move on its side of the barrier.
Elsewhere(w, place) ==
    /\ pc' = [pc EXCEPT ![w] = place]
    /\ \/ place \in {"size", "measure", "arrive"} /\ pc[w] \in {"new", "size", "measure"}
       \/ place \in {"next", "run", "done"} /\ pc[w] \in {"wait", "next", "run", "done"} /\ arrived = workers
    /\ arrived' = arrived /\ active' = active /\ largest' = largest /\ waiting' = waiting
    /\ sizing <= sizing' /\ (place = "arrive" => count <= sizing')
    /\ \A v \in Past : mine'[v] = mine[v]
    /\ place \in {"next", "run"} => w < active

LEMMA BarrierElsewhere ==
    ASSUME Typed, Typed', Barrier, NEW w \in Workers, NEW place, Elsewhere(w, place)
    PROVE  Barrier'
<1> USE Constants
<1>1. pc'[w] = place /\ \A v \in Workers \ {w} : pc'[v] = pc[v]
  BY DEF Typed, Elsewhere
<1>2. Past' = Past
  BY <1>1 DEF Past, Elsewhere
<1>3. \A v \in Workers : pc'[v] \in {"arrive", "wait", "next", "run", "done"} => count <= sizing'
  <2>1. count <= sizing => count <= sizing'
    BY DEF Typed, Elsewhere
  <2> QED
    BY <1>1, <2>1 DEF Barrier, Elsewhere
<1>4. Through' # {} => arrived = workers
  BY <1>1 DEF Through, Barrier, Past, Elsewhere
<1>5. \A v \in Past : v \notin Through' /\ v \notin waiting => arrived = workers
  BY <1>1 DEF Through, Barrier, Past, Elsewhere
<1>6. \A v \in Workers : pc'[v] \in {"next", "run"} => v < active
  BY <1>1 DEF Barrier, Elsewhere
<1>7. \A v \in Past : mine'[v] <= largest
  BY DEF Barrier, Elsewhere
<1>8. arrived = Cardinality(Past) /\ (arrived = workers => active = ActiveFor(largest))
  BY DEF Barrier
<1> QED
  BY <1>2, <1>3, <1>4, <1>5, <1>6, <1>7, <1>8 DEF Barrier, Elsewhere

LEMMA BarrierArrive ==
    ASSUME Typed, Typed', Barrier, NEW w \in Workers, Arrive(w)
    PROVE  Barrier'
<1> USE Constants DEF At, Goto
<1>1. /\ pc[w] = "arrive" /\ arrived' = arrived + 1 /\ sizing' = sizing /\ mine' = mine
      /\ largest' = Larger(largest, mine[w]) /\ arrived \in Nat
  BY DEF Arrive, Typed
<1>2. pc'[w] \in {"wait", "next", "done"} /\ \A v \in Workers \ {w} : pc'[v] = pc[v]
  BY DEF Arrive, Typed
<1>3. Past' = Past \cup {w} /\ w \notin Past
  BY <1>1, <1>2 DEF Past
<1>4. IsFiniteSet(Past) /\ Cardinality(Past) <= workers /\ IsFiniteSet(Past')
      /\ Cardinality(Past') <= workers /\ Cardinality(Past) \in Nat
  <2>1. Past \in SUBSET Workers /\ Past' \in SUBSET Workers
    BY DEF Past
  <2> QED
    BY <2>1, FS_Subset, FS_CardinalityType
<1>5. Cardinality(Past') = Cardinality(Past) + 1
  BY <1>3, <1>4, FS_AddElement
<1>6. arrived' = Cardinality(Past') /\ arrived # workers
  BY <1>1, <1>4, <1>5 DEF Barrier
<1>7. Through = {}
  BY <1>6 DEF Barrier
<1>8. \A v \in Workers : pc'[v] \in {"arrive", "wait", "next", "run", "done"} => count <= sizing'
  BY <1>1, <1>2 DEF Barrier
<1>9. \A v \in Past' : mine'[v] <= largest'
  <2>1. largest \in Nat /\ \A v \in Workers : mine[v] \in Nat
    BY DEF Typed
  <2>2. largest' \in Nat /\ largest <= largest' /\ mine[w] <= largest'
    <3>1. mine[w] \in Nat /\ mine[w] \in Int
      BY <2>1
    <3>2. Larger(largest, mine[w]) \in Nat /\ Larger(largest, mine[w]) >= largest
          /\ Larger(largest, mine[w]) >= mine[w]
      BY <2>1, <3>1, LargerType
    <3> QED
      BY <1>1, <2>1, <3>1, <3>2
  <2>3. \A v \in Past : v \in Workers /\ mine[v] <= largest
    BY DEF Past, Barrier
  <2>4. \A v \in Past : mine[v] <= largest'
    BY <2>1, <2>2, <2>3
  <2> QED
    BY <1>1, <1>3, <2>2, <2>4
<1>10. CASE arrived + 1 = workers
  <2>1. arrived' = workers /\ active' = ActiveFor(largest')
    BY <1>1, <1>10 DEF Arrive
  <2>2. pc'[w] = "next" => w < active'
    <3>1. pc'[w] = "next" => ~(w >= active')
      BY <1>10 DEF Arrive, Typed
    <3>2. active' \in Nat /\ w \in Nat
      BY DEF Typed, Workers
    <3> QED
      BY <3>1, <3>2
  <2>3. \A v \in Workers : pc'[v] \in {"next", "run"} => v < active'
    BY <1>2, <1>7, <2>2 DEF Through
  <2> QED
    BY <1>6, <1>8, <1>9, <2>1, <2>3 DEF Barrier
<1>11. CASE arrived + 1 # workers
  <2>1. arrived' # workers /\ pc'[w] = "wait" /\ waiting' = waiting \cup {w}
    BY <1>1, <1>11 DEF Arrive, Typed
  <2>2. Through' = {}
    BY <1>2, <1>7, <2>1 DEF Through
  <2>3. \A v \in Past' : v \in waiting'
    BY <1>3, <1>6, <1>7, <2>1 DEF Barrier
  <2>4. \A v \in Workers : pc'[v] \notin {"next", "run"}
    BY <2>2 DEF Through
  <2> QED
    BY <1>6, <1>8, <1>9, <2>1, <2>2, <2>3, <2>4 DEF Barrier
<1> QED
  BY <1>10, <1>11

LEMMA BarrierStep ==
    ASSUME Typed, Typed', Barrier, workers > 1, [Next]_vars
    PROVE  Barrier'
<1> USE Constants DEF At, Goto, sizes
<1>0. sizing \in Nat /\ sizing' \in Nat
  BY DEF Typed
<1>1. ASSUME NEW w \in Workers, Start(w)
      PROVE  Barrier'
  <2>1. pc' = [pc EXCEPT ![w] = "size"] /\ pc[w] = "new" /\ w \notin Past
    BY <1>1 DEF Start, Past
  <2>2. Elsewhere(w, "size")
    BY <1>0, <1>1, <2>1 DEF Start, Elsewhere
  <2> QED
    BY <2>2, BarrierElsewhere
<1>2. ASSUME NEW w \in Workers, TakeSize(w)
      PROVE  Barrier'
  <2>1. \/ pc' = [pc EXCEPT ![w] = "measure"]
        \/ pc' = [pc EXCEPT ![w] = "arrive"] /\ sizing >= count
    BY <1>2 DEF TakeSize
  <2>2. pc[w] = "size" /\ w \notin Past /\ sizing' = sizing + 1
    BY <1>2 DEF TakeSize, Past
  <2>3. sizing <= sizing' /\ (sizing >= count => count <= sizing')
    BY <1>0, <2>2
  <2>4. Elsewhere(w, "measure") \/ Elsewhere(w, "arrive")
    BY <1>2, <2>1, <2>2, <2>3 DEF TakeSize, Elsewhere
  <2> QED
    BY <2>4, BarrierElsewhere
<1>3. ASSUME NEW w \in Workers, Measure(w)
      PROVE  Barrier'
  <2>1. pc' = [pc EXCEPT ![w] = "size"] /\ pc[w] = "measure" /\ w \notin Past
    BY <1>3 DEF Measure, Past
  <2>2. \A v \in Past : mine'[v] = mine[v]
    BY <1>3, <2>1 DEF Measure, Typed, Past
  <2>3. Elsewhere(w, "size")
    BY <1>0, <1>3, <2>1, <2>2 DEF Measure, Elsewhere
  <2> QED
    BY <2>3, BarrierElsewhere
<1>4. ASSUME NEW w \in Workers, Woken(w)
      PROVE  Barrier'
  <2>1. pc[w] = "wait" /\ arrived = workers /\ w \in Past
    BY <1>4 DEF Woken, Barrier, Past, Through
  <2>2. w \in Nat /\ active \in Nat
    BY DEF Workers, Typed
  <2>3. \E place \in {"next", "done"} :
            pc' = [pc EXCEPT ![w] = place] /\ (place = "next" => ~(w >= active))
    BY <1>4 DEF Woken
  <2>4. ~(w >= active) => w < active
    BY <2>2
  <2>5. \E place \in {"next", "done"} : Elsewhere(w, place)
    <3>1. PICK place \in {"next", "done"} :
              pc' = [pc EXCEPT ![w] = place] /\ (place = "next" => w < active)
      BY <2>3, <2>4
    <3>2. UNCHANGED sizes /\ sizing <= sizing'
      BY <1>0, <1>4 DEF Woken
    <3>3. Elsewhere(w, place)
      BY <2>1, <3>1, <3>2 DEF Elsewhere
    <3> QED
      BY <3>3
  <2> QED
    BY <2>5, BarrierElsewhere
<1>5. ASSUME NEW w \in Workers, TakeJob(w) \/ Run(w)
      PROVE  Barrier'
  <2>1. pc[w] \in {"next", "run"} /\ w \in Past /\ arrived = workers /\ w < active
    BY <1>5 DEF TakeJob, Run, Barrier, Past, Through
  <2>2. \E place \in {"next", "run", "done"} : pc' = [pc EXCEPT ![w] = place]
    BY <1>5 DEF TakeJob, Run
  <2>3. UNCHANGED sizes
    BY <1>5 DEF TakeJob, Run
  <2>4. \E place \in {"next", "run", "done"} : Elsewhere(w, place)
    <3>1. PICK place \in {"next", "run", "done"} : pc' = [pc EXCEPT ![w] = place]
      BY <2>2
    <3>2. sizing <= sizing'
      BY <1>0, <2>3
    <3>3. Elsewhere(w, place)
      BY <2>1, <2>3, <3>1, <3>2 DEF Elsewhere
    <3> QED
      BY <3>3
  <2> QED
    BY <2>4, BarrierElsewhere
<1>6. CASE Join
  BY <1>6 DEF Join, Barrier, Past, Through
<1>7. CASE UNCHANGED vars
  BY <1>7 DEF vars, Barrier, Past, Through
<1> QED
  BY <1>1, <1>2, <1>3, <1>4, <1>5, <1>6, <1>7, BarrierArrive DEF Next, Work, Rest

LEMMA IInvInit ==
    ASSUME Init
    PROVE  IInv
<1>1. Past = {} /\ Through = {}
  BY DEF Init, Past, Through
<1>2. Cardinality(Past) = 0
  BY <1>1, FS_EmptySet
<1>3. workers > 1 => Barrier
  BY <1>1, <1>2, Constants DEF Init, Barrier
<1>4. Measured
  <2>1. \A j \in Jobs : ~(j < 0)
    BY DEF Jobs
  <2> QED
    BY <2>1 DEF Init, Measured
<1> QED
  BY <1>3, <1>4, SharedInit DEF Init, IInv, Alone

LEMMA IInvStep ==
    ASSUME IInv, [Next]_vars
    PROVE  IInv'
<1>1. Typed'
  BY TypedStep DEF IInv
<1> QED
  BY <1>1, SharedStep, MeasuredStep, BarrierStep, AloneStep DEF IInv

\* While a thread runs a job, all sizes are known and the threads that run are below the limit.
LEMMA AllMeasured ==
    ASSUME IInv, workers > 1, Running # {}
    PROVE  /\ active = ActiveFor(largest) /\ Running \subseteq 0 .. active - 1
           /\ \A j \in Jobs : Size[j] <= largest
<1> USE Constants DEF IInv, At
<1>1. arrived = workers /\ active = ActiveFor(largest)
  BY DEF Barrier, Through, Running
<1>2. Past = Workers
  <2>1. Past \in SUBSET Workers
    BY DEF Past
  <2> QED
    BY <1>1, <2>1, FS_Subset DEF Barrier
<1>3. count <= sizing
  BY <1>2 DEF Barrier, Past
<1>4. ASSUME NEW j \in Jobs
      PROVE  Size[j] <= largest
  <2>1. j < sizing
    BY <1>3 DEF Jobs, Typed
  <2>2. PICK w \in Workers : Size[j] <= mine[w]
    BY <1>2, <2>1 DEF Measured, Past
  <2>3. mine[w] <= largest /\ mine[w] \in Nat /\ largest \in Nat
    BY <1>2 DEF Barrier, Typed
  <2> QED
    BY <2>2, <2>3, SizeTypes
<1>5. \A w \in Running : w \in 0 .. active - 1
  <2>1. \A w \in Running : w < active /\ w \in Nat /\ active \in Nat
    BY DEF Running, Barrier, Typed, Workers
  <2> QED
    BY <2>1
<1> QED
  BY <1>1, <1>4, <1>5

LEMMA RunningBound ==
    ASSUME IInv
    PROVE  /\ IsFiniteSet(Running) /\ Cardinality(Running) \in Nat /\ Cardinality(Running) <= workers
           /\ workers > 1 /\ Running # {} => Cardinality(Running) <= ActiveFor(largest)
<1>1. Running \in SUBSET Workers
  BY DEF Running
<1>2. IsFiniteSet(Running) /\ Cardinality(Running) \in Nat /\ Cardinality(Running) <= workers
  BY <1>1, Constants, FS_Subset, FS_CardinalityType
<1>3. ASSUME workers > 1, Running # {}
      PROVE  Cardinality(Running) <= ActiveFor(largest)
  <2>1. active \in Nat \ {0}
    BY DEF IInv, Typed
  <2>2. IsFiniteSet(0 .. active - 1) /\ Cardinality(0 .. active - 1) = active
    BY <2>1, FS_Interval
  <2>3. Running \in SUBSET (0 .. active - 1) /\ active = ActiveFor(largest)
    BY <1>3, AllMeasured
  <2> QED
    BY <2>2, <2>3, FS_Subset
<1> QED
  BY <1>2, <1>3

\* However many threads a batch has, a large input leaves two of them and a huge one leaves one.
THEOREM MemoryBounded == Spec => []MemoryBound
<1>1. IInv => MemoryBound
  <2> SUFFICES ASSUME IInv, NEW j \in Jobs
               PROVE  /\ Size[j] > Large => Cardinality(Running) <= 2
                      /\ Size[j] > Huge => Cardinality(Running) <= 1
    BY DEF MemoryBound
  <2>0. Cardinality(Running) \in Nat /\ Cardinality(Running) <= workers
    BY RunningBound
  <2>1. CASE workers = 1
    BY <2>0, <2>1
  <2>2. CASE Running = {}
    BY <2>2, FS_EmptySet
  <2>3. CASE workers # 1 /\ Running # {}
    <3>1. workers > 1
      BY <2>3, Constants
    <3>2. Cardinality(Running) <= ActiveFor(largest) /\ Size[j] <= largest
      BY <2>3, <3>1, RunningBound, AllMeasured
    <3>3. largest \in Nat /\ Size[j] \in Int
      BY SizeTypes DEF IInv, Typed
    <3>4. /\ Size[j] > Large => ActiveFor(largest) <= 2
          /\ Size[j] > Huge => ActiveFor(largest) <= 1
      BY <3>2, <3>3, SizeTypes, Constants DEF ActiveFor
    <3>5. ActiveFor(largest) \in Nat
      BY <3>3, ActiveForType
    <3> QED
      BY <2>0, <3>2, <3>4, <3>5
  <2> QED
    BY <2>1, <2>2, <2>3
<1> QED
  BY <1>1, IInvInit, IInvStep, PTL DEF Spec

-----------------------------------------------------------------------------
(* The threads implement a pool of workers *)

PoolLimit == IF workers > 1 THEN ActiveFor(LargestSize) ELSE 1
Todo == {j \in Jobs : next <= j}
Doing == {index[w] : w \in Running}

\* Once all sizes are in, `largest` decides as the largest size does.
LEMMA LargestKnown ==
    ASSUME IInv, workers > 1, Running # {}
    PROVE  ActiveFor(largest) = PoolLimit
<1> DEFINE all == {Size[j] : j \in Jobs}
<1>0. all \subseteq Nat \cup {NoSize} /\ largest \in Nat /\ 0 \in Jobs
  BY SizeAssumption, Constants DEF IInv, Typed
<1>1. \A j \in Jobs : Size[j] <= largest
  BY AllMeasured
<1>2. CASE \E j \in Jobs : largest = Size[j]
  <2>1. largest \in all /\ \A j \in Jobs : Size[j] <= largest
    BY <1>1, <1>2
  <2>2. LargestSize \in all /\ \A j \in Jobs : Size[j] <= LargestSize
    BY <2>1 DEF LargestSize
  <2>3. LargestSize <= largest /\ largest <= LargestSize /\ LargestSize \in Int
    BY <1>0, <1>2, <2>1, <2>2 DEF NoSize
  <2> QED
    BY <1>0, <2>3 DEF PoolLimit
<1>3. CASE ~ \E j \in Jobs : largest = Size[j]
  <2>1. largest = 0
    BY <1>3 DEF IInv, Measured
  <2>2. \A j \in Jobs : Size[j] = NoSize
    BY <1>0, <1>1, <1>3, <2>1 DEF NoSize
  <2>3. all = {NoSize}
    BY <1>0, <2>2
  <2>4. NoSize \in all /\ \A j \in Jobs : Size[j] <= NoSize
    BY <2>2, <2>3 DEF NoSize
  <2>5. LargestSize \in all
    BY <2>4 DEF LargestSize
  <2>6. LargestSize = NoSize
    BY <2>3, <2>5
  <2> QED
    BY <2>1, <2>6, SizeTypes DEF PoolLimit, ActiveFor, NoSize
<1> QED
  BY <1>2, <1>3

\* No more jobs are under way than the limit.
LEMMA DoingBound ==
    ASSUME IInv
    PROVE  /\ IsFiniteSet(Doing) /\ Cardinality(Doing) \in Nat
           /\ Running # {} => Cardinality(Doing) <= PoolLimit
<1> DEFINE f == [w \in Running |-> index[w]]
<1>1. f \in Surjection(Running, Doing)
  BY DEF Surjection, Doing
<1>2. IsFiniteSet(Running) /\ Cardinality(Running) \in Nat /\ Cardinality(Running) <= workers
  BY RunningBound
<1> HIDE DEF f
<1>3. IsFiniteSet(Doing) /\ Cardinality(Doing) <= Cardinality(Running)
  BY <1>1, <1>2, FS_Surjection
<1>4. Cardinality(Doing) \in Nat
  BY <1>3, FS_CardinalityType
<1>5. ASSUME Running # {}
      PROVE  Cardinality(Doing) <= PoolLimit
  <2>1. CASE workers > 1
    <3>1. Cardinality(Running) <= PoolLimit /\ PoolLimit \in Int
      <4>1. Cardinality(Running) <= ActiveFor(largest)
        BY <1>5, <2>1, RunningBound
      <4>2. largest \in Nat
        BY DEF IInv, Typed
      <4> QED
        BY <1>5, <2>1, <4>1, <4>2, LargestKnown, ActiveForType
    <3> QED
      BY <1>2, <1>3, <1>4, <3>1
  <2>2. CASE ~(workers > 1)
    <3>1. PoolLimit = 1 /\ workers = 1
      BY <2>2, Constants DEF PoolLimit
    <3> QED
      BY <1>2, <1>3, <1>4, <3>1
  <2> QED
    BY <2>1, <2>2
<1> QED
  BY <1>3, <1>4, <1>5

LEMMA PoolCardinality ==
    ASSUME NEW S
    PROVE  Pool!Cardinality(S) = Cardinality(S)
BY DEF Pool!Cardinality, Cardinality

LEMMA TakeBegins ==
    ASSUME IInv, IInv', NEW w \in Workers, TakeJob(w), next < count
    PROVE  /\ next \in Todo /\ Cardinality(Doing) < PoolLimit
           /\ Todo' = Todo \ {next} /\ Doing' = Doing \cup {next}
<1> USE Constants DEF At, Goto
<1>1. next \in Jobs /\ next \in Nat /\ next' = next + 1
  BY DEF IInv, Typed, Jobs, TakeJob
<1>2. pc[w] = "next" /\ pc'[w] = "run" /\ index'[w] = next
  BY <1>1 DEF TakeJob, IInv, Typed
<1>3. \A v \in Workers \ {w} : pc'[v] = pc[v] /\ index'[v] = index[v]
  BY DEF TakeJob, IInv, Typed
<1>4. Running' = Running \cup {w} /\ w \notin Running
  BY <1>2, <1>3 DEF Running
<1>5. Doing' = Doing \cup {next}
  BY <1>2, <1>3, <1>4 DEF Doing, Running
<1>6. next \notin Doing
  <2>1. \A v \in Running : index[v] # next
    <3>1. \A v \in Running : index[v] < next /\ index[v] \in Jobs
      BY DEF IInv, Shared, Running, Typed
    <3> QED
      BY <1>1, <3>1 DEF Jobs
  <2> QED
    BY <2>1 DEF Doing
<1>7. Cardinality(Doing') = Cardinality(Doing) + 1
  BY <1>5, <1>6, DoingBound, FS_AddElement
<1>8. Cardinality(Doing') <= PoolLimit'
  <2>1. IInv' /\ Running' # {}
    BY <1>4
  <2>2. (IInv /\ Running # {} => Cardinality(Doing) <= PoolLimit)'
    BY DoingBound, PTL
  <2> QED
    BY <2>1, <2>2
<1>9. PoolLimit' = PoolLimit /\ PoolLimit \in Int
  BY Constants DEF PoolLimit, ActiveFor, LargestSize
<1>10. Cardinality(Doing) < PoolLimit
  BY <1>7, <1>8, <1>9, DoingBound
<1>11. next \in Todo /\ Todo' = Todo \ {next}
  BY <1>1 DEF Todo, Jobs
<1> QED
  BY <1>5, <1>10, <1>11

\* Every thread's steps are steps of a pool that runs each job once and within the limit.
THEOREM PoolOfThreads == Spec => IsAPool
<1>1. Init => Pool!Init
  <2> SUFFICES ASSUME Init
               PROVE  Pool!Init
    OBVIOUS
  <2>1. \A j \in Jobs : next <= j
    BY DEF Init, Jobs
  <2>2. Running = {}
    BY DEF Init, Running, At
  <2> QED
    BY <2>1, <2>2 DEF Init, Pool!Init
<1>2. IInv /\ IInv' /\ [Next]_vars => [Pool!Next]_Pool!vars
  <2> SUFFICES ASSUME IInv, IInv', [Next]_vars
               PROVE  Pool!Next \/ UNCHANGED Pool!vars
    BY DEF Pool!vars
  <2> USE Constants DEF At, Goto, sizes
  <2>1. ASSUME NEW w \in Workers, TakeJob(w), next < count
        PROVE  Pool!Next
    <3>1. PICK j \in Jobs : j = next
      BY <2>1 DEF IInv, Typed, Jobs
    <3>2. /\ j \in Todo /\ Cardinality(Doing) < PoolLimit
          /\ Todo' = Todo \ {j} /\ Doing' = Doing \cup {j} /\ returned' = returned
      BY <2>1, <3>1, TakeBegins DEF TakeJob
    <3>3. Pool!Begin(j)
      BY <3>2, PoolCardinality DEF Pool!Begin, Todo, Doing, PoolLimit
    <3> QED
      BY <3>3 DEF Pool!Next
  <2>2. ASSUME NEW w \in Workers, Run(w)
        PROVE  Pool!Next
    <3>1. w \in Running /\ Running' = Running \ {w} /\ index' = index /\ UNCHANGED <<next, returned>>
      BY <2>2 DEF Run, Running, IInv, Typed
    <3>2. \A v \in Running : v # w => index[v] # index[w]
      BY <3>1 DEF IInv, Shared
    <3>3. Doing' = Doing \ {index[w]} /\ index[w] \in Doing
      BY <3>1, <3>2 DEF Doing
    <3>4. Todo' = Todo
      BY <3>1 DEF Todo
    <3>5. PICK j \in Jobs : j = index[w]
      BY DEF IInv, Typed
    <3>6. Doing' = Doing \ {j} /\ j \in Doing /\ Todo' = Todo /\ returned' = returned
      BY <3>1, <3>3, <3>4, <3>5
    <3>7. Pool!End(j)
      BY <3>6 DEF Pool!End, Doing, Todo
    <3> QED
      BY <3>7 DEF Pool!Next
  <2>3. CASE Join
    <3>1. Running = {} /\ count <= next /\ Running' = {} /\ next' = next
      BY <2>3 DEF Join, IInv, Shared, Running
    <3>2. Todo = {} /\ Todo' = {}
      <4>1. \A j \in Jobs : ~(next <= j)
        BY <3>1 DEF Jobs, IInv, Typed
      <4> QED
        BY <3>1, <4>1 DEF Todo
    <3>3. Doing = {} /\ Doing' = {}
      BY <3>1 DEF Doing
    <3> QED
      BY <2>3, <3>2, <3>3 DEF Pool!Return, Pool!Next, Join, Todo, Doing
  <2>4. ASSUME NEW w \in Workers, \/ Start(w) \/ TakeSize(w) \/ Measure(w) \/ Arrive(w) \/ Woken(w)
                                  \/ TakeJob(w) /\ ~(next < count)
        PROVE  UNCHANGED Pool!vars
    <3>1. /\ \E place \in {"size", "measure", "arrive", "wait", "next", "done"} : pc' = [pc EXCEPT ![w] = place]
          /\ pc[w] # "run" /\ returned' = returned
          /\ \A v \in Workers \ {w} : index'[v] = index[v]
      BY <2>4 DEF Start, TakeSize, Measure, Arrive, Woken, TakeJob, IInv, Typed
    <3>2. Running' = Running
      BY <3>1 DEF Running, IInv, Typed
    <3>3. Doing' = Doing
      BY <3>1, <3>2 DEF Doing, Running
    <3>4. Todo' = Todo
      <4>1. \/ next' = next
            \/ next' = next + 1 /\ ~(next < count) /\ next \in Nat
        BY <2>4 DEF Start, TakeSize, Measure, Arrive, Woken, TakeJob, IInv, Typed
      <4> QED
        BY <4>1 DEF Todo, Jobs
    <3> QED
      BY <3>1, <3>3, <3>4 DEF Pool!vars, Doing, Todo
  <2>5. CASE UNCHANGED vars
    BY <2>5 DEF vars, Pool!vars, Running
  <2> QED
    BY <2>1, <2>2, <2>3, <2>4, <2>5 DEF Next, Work, Rest
<1> QED
  BY <1>1, <1>2, IInvInit, IInvStep, PTL DEF Spec, IsAPool, Pool!Spec

-----------------------------------------------------------------------------
(* A batch export *)


\* A step of a batch is a step of RunJobs, or leaves RunJobs alone.
LEMMA StepOfThreads == ASSUME ExportNext PROVE [Next]_vars
<1>1. ASSUME NEW w \in Workers, StartJobs(w) PROVE Next
  BY <1>1 DEF StartJobs, Next
<1>2. ASSUME NEW w \in Workers, Between(w) PROVE Next
  BY <1>2 DEF Between, Next, Work
<1>3. ASSUME NEW w \in Workers, Record(w) PROVE Next
  BY <1>3 DEF Record, Next, Work
<1>4. ASSUME NEW w \in Workers, Convert(w) PROVE UNCHANGED vars
  BY <1>4 DEF Convert
<1>5. JoinJobs => Next
  BY DEF JoinJobs, Next
<1>6. Open \/ Close \/ Exit \/ Tick => UNCHANGED vars
  BY DEF Open, Close, Exit, Tick
<1>7. Ended => UNCHANGED vars
  BY DEF Ended, exportVars
<1> QED
  BY <1>1, <1>2, <1>3, <1>4, <1>5, <1>6, <1>7 DEF ExportNext

\* The threads of a batch export behave as RunJobs does (ExecuteBatchJobs adds no step that
\* takes an index, counts an arrival or wakes a thread).
THEOREM UsesRunJobs == ExportSpec => Spec
<1>1. ExportInit => Init
  BY DEF ExportInit
<1>2. [ExportNext]_exportVars => [Next]_vars
  BY StepOfThreads DEF exportVars
<1> QED
  BY <1>1, <1>2, PTL DEF ExportSpec, Spec

\* A batch export runs every document once, and none is left when it ends.
THEOREM DocumentsOnce == ExportSpec => []EachOnce
BY UsesRunJobs, JobsOnce, PTL

\* A batch export with a large input never converts more documents at a time than its memory
\* limits allow.
THEOREM ExportMemoryBounded == ExportSpec => []MemoryBound
BY UsesRunJobs, MemoryBounded, PTL

-----------------------------------------------------------------------------
(* The report.  What is in the file and, after it, in the buffer has one    *)
(* line for each document whose thread has recorded it; a result changes   *)
(* only while the document's thread runs it, before its line is made.      *)

Entries == Jobs \X Codes
Lines == file \o buffer

Exported ==
    /\ result \in [Jobs -> Codes]
    /\ report \in {"none", "asked", "open", "closed"}
    /\ buffer \in Seq(Entries) /\ file \in Seq(Entries)
    /\ failed \in BOOLEAN

\* One line for each document that was run, with its result.
Complete(lines, ran, res) ==
    /\ \A n \in 1 .. Len(lines) : ran[lines[n][1]] = 1 /\ lines[n] = <<lines[n][1], res[lines[n][1]]>>
    /\ \A j \in Jobs : ran[j] = 1 => \E n \in 1 .. Len(lines) : lines[n][1] = j
    /\ \A m, n \in 1 .. Len(lines) : lines[m][1] = lines[n][1] => m = n

NotBegun ==
    /\ report \in {"none", "asked"} => file = << >> /\ buffer = << >> /\ ~failed
    /\ report = "asked" => /\ \A w \in Workers : pc[w] = "new"
                           /\ \A j \in Jobs : runs[j] = 0
Closed == report = "closed" => returned /\ buffer = << >>
Reported == report \in {"open", "closed"} /\ ~failed => Complete(Lines, runs, result)
AtEnd == exit = 0 => returned /\ Failures = {} /\ report \in {"none", "closed"} /\ ~failed

EInv == Exported /\ NotBegun /\ Closed /\ Reported /\ AtEnd

LEMMA EntryType == ASSUME Typed, Exported, NEW w \in Workers
                   PROVE  index[w] \in Jobs /\ <<index[w], result[index[w]]>> \in Entries
BY DEF Typed, Exported, Entries

\* A line for a document that had none.
LEMMA OneMore ==
    ASSUME NEW lines \in Seq(Entries), NEW ran \in [Jobs -> Nat], NEW res \in [Jobs -> Codes],
           NEW j \in Jobs, ran[j] = 0, Complete(lines, ran, res)
    PROVE  Complete(Append(lines, <<j, res[j]>>), [ran EXCEPT ![j] = @ + 1], res)
<1> DEFINE line == <<j, res[j]>>
           more == Append(lines, line)
           size == Len(lines)
           after == [ran EXCEPT ![j] = @ + 1]
<1>1. size \in Nat /\ line \in Entries /\ line[1] = j
  BY DEF Entries
<1>2. /\ Len(more) = size + 1 /\ more[size + 1] = line
      /\ \A n \in 1 .. size : more[n] = lines[n]
  BY <1>1, AppendProperties
<1>3. \A n \in 1 .. size : lines[n] \in Entries /\ lines[n][1] \in Jobs /\ lines[n][1] # j
  <2> SUFFICES ASSUME NEW n \in 1 .. size PROVE lines[n] \in Entries /\ lines[n][1] \in Jobs /\ lines[n][1] # j
    OBVIOUS
  <2>1. lines[n] \in Entries
    BY <1>1
  <2>2. ran[lines[n][1]] = 1
    BY DEF Complete
  <2> QED
    BY <2>1, <2>2 DEF Entries
<1>4. after[j] = 1 /\ \A i \in Jobs : i # j => after[i] = ran[i]
  OBVIOUS
<1> HIDE DEF line, more, size, after
<1>5. ASSUME NEW n \in 1 .. size + 1
      PROVE  after[more[n][1]] = 1 /\ more[n] = <<more[n][1], res[more[n][1]]>>
  <2>1. CASE n = size + 1
    BY <2>1, <1>1, <1>2, <1>4 DEF line
  <2>2. CASE n \in 1 .. size
    BY <2>2, <1>2, <1>3, <1>4 DEF Complete, size
  <2> QED
    BY <2>1, <2>2, <1>1
<1>6. ASSUME NEW i \in Jobs, after[i] = 1
      PROVE  \E n \in 1 .. size + 1 : more[n][1] = i
  <2>1. CASE i = j
    <3>1. size + 1 \in 1 .. size + 1
      BY <1>1
    <3> QED
      BY <2>1, <3>1, <1>1, <1>2
  <2>2. CASE i # j
    <3>1. PICK n \in 1 .. size : lines[n][1] = i
      BY <2>2, <1>4, <1>6 DEF Complete, size
    <3>2. n \in 1 .. size + 1
      BY <3>1, <1>1
    <3> QED
      BY <3>1, <3>2, <1>2
  <2> QED
    BY <2>1, <2>2
<1>7. ASSUME NEW m \in 1 .. size + 1, NEW n \in 1 .. size + 1, more[m][1] = more[n][1]
      PROVE  m = n
  <2>1. \A k \in 1 .. size + 1 : k = size + 1 \/ k \in 1 .. size
    BY <1>1
  <2>2. CASE m \in 1 .. size /\ n \in 1 .. size
    BY <2>2, <1>2, <1>7 DEF Complete, size
  <2>3. CASE m = size + 1
    BY <2>1, <2>3, <1>1, <1>2, <1>3, <1>7
  <2>4. CASE n = size + 1
    BY <2>1, <2>4, <1>1, <1>2, <1>3, <1>7
  <2> QED
    BY <2>1, <2>2, <2>3, <2>4
<1> QED
  BY <1>2, <1>5, <1>6, <1>7 DEF Complete, more, after, line

\* Flushed or not, the file and the buffer hold the same lines.
LEMMA FlushKeeps ==
    ASSUME file \in Seq(Entries), NEW lines \in Seq(Entries), FlushLocked(lines), failed \in BOOLEAN
    PROVE  /\ file' \in Seq(Entries) /\ buffer' \in Seq(Entries) /\ failed' \in BOOLEAN
           /\ ~failed' => ~failed /\ Lines' = file \o lines
<1>1. buffer' = << >>
  BY DEF FlushLocked
<1>2. CASE file' = file \o lines /\ failed' = failed
  <2>1. file' \in Seq(Entries)
    BY <1>2, ConcatProperties
  <2>2. file' \o << >> = file'
    BY <2>1, ConcatEmptySeq
  <2> QED
    BY <1>1, <1>2, <2>1, <2>2 DEF Lines
<1>3. CASE failed' = TRUE /\ \E n \in 0 .. Len(lines) : file' = file \o SubSeq(lines, 1, n)
  <2>1. PICK n \in 0 .. Len(lines) : file' = file \o SubSeq(lines, 1, n)
    BY <1>3
  <2>2. SubSeq(lines, 1, n) \in Seq(Entries)
    BY SubSeqProperties
  <2>3. file' \in Seq(Entries)
    BY <2>1, <2>2, ConcatProperties
  <2> QED
    BY <1>1, <1>3, <2>3
<1> QED
  BY <1>2, <1>3 DEF FlushLocked

LEMMA WriteKeeps ==
    ASSUME file \in Seq(Entries), buffer \in Seq(Entries), NEW line \in Entries, Write(line),
           failed \in BOOLEAN
    PROVE  /\ file' \in Seq(Entries) /\ buffer' \in Seq(Entries) /\ failed' \in BOOLEAN
           /\ ~failed' => ~failed /\ Lines' = Append(Lines, line)
<1>1. Append(buffer, line) \in Seq(Entries)
  BY AppendProperties
<1>2. file \o Append(buffer, line) = Append(Lines, line)
  <2>1. Append(buffer, line) = buffer \o <<line>> /\ <<line>> \in Seq(Entries)
    BY AppendIsConcat
  <2>2. Lines \in Seq(Entries)
    BY ConcatProperties DEF Lines
  <2>3. Append(Lines, line) = Lines \o <<line>>
    BY <2>2, AppendIsConcat
  <2>4. file \o (buffer \o <<line>>) = (file \o buffer) \o <<line>>
    BY <2>1, ConcatAssociative
  <2> QED
    BY <2>1, <2>3, <2>4 DEF Lines
<1>3. CASE FlushLocked(Append(buffer, line))
  BY <1>1, <1>2, <1>3, FlushKeeps
<1>4. CASE buffer' = Append(buffer, line) /\ UNCHANGED <<file, failed>>
  BY <1>1, <1>2, <1>4 DEF Lines
<1> QED
  BY <1>3, <1>4 DEF Write

LEMMA EInit == ExportInit => EInv
<1> SUFFICES ASSUME ExportInit PROVE EInv
  OBVIOUS
<1>1. result \in [Jobs -> Codes]
  BY DEF ExportInit, Codes
<1>2. << >> \in Seq(Entries)
  OBVIOUS
<1>3. Exported
  BY <1>1, <1>2 DEF ExportInit, Exported
<1>4. NotBegun
  BY DEF ExportInit, Init, NotBegun
<1> QED
  BY <1>3, <1>4 DEF ExportInit, EInv, Closed, Reported, AtEnd, NoExit

\* A thread that is not in a document leaves the report as it is.
LEMMA EElsewhere ==
    ASSUME EInv, UNCHANGED <<result, report, buffer, file, failed, exit, runs, returned>>,
           report # "asked" \/ UNCHANGED pc
    PROVE  EInv'
BY DEF EInv, Exported, NotBegun, Closed, Reported, AtEnd, Failures, Lines

LEMMA EConvert ==
    ASSUME Typed, Shared, EInv, NEW w \in Workers, Convert(w)
    PROVE  EInv'
<1>1. /\ UNCHANGED <<report, buffer, file, failed, exit, runs, returned, pc>>
      /\ w \in Running /\ index[w] \in Jobs /\ runs[index[w]] = 0
  BY DEF Convert, reportVars, vars, Running, Shared, Typed
<1>2. result' \in [Jobs -> Codes] /\ \A j \in Jobs : j # index[w] => result'[j] = result[j]
  BY <1>1 DEF Convert, EInv, Exported
<1>3. ~returned
  BY <1>1 DEF Shared, Running, At
<1>4. exit # 0
  BY <1>3 DEF EInv, AtEnd
<1>5. Lines' = Lines /\ Lines \in Seq(Entries)
  BY <1>1, ConcatProperties DEF Lines, EInv, Exported
<1>6. Reported'
  <2> SUFFICES ASSUME Complete(Lines, runs, result) PROVE Complete(Lines, runs, result')
    BY <1>1, <1>5 DEF EInv, Reported
  <2>1. ASSUME NEW n \in 1 .. Len(Lines)
        PROVE  /\ runs[Lines[n][1]] = 1
               /\ Lines[n] = <<Lines[n][1], result'[Lines[n][1]]>>
    <3>1. Lines[n] \in Entries /\ Lines[n][1] \in Jobs
      BY <1>5 DEF Entries
    <3>2. runs[Lines[n][1]] = 1 /\ Lines[n] = <<Lines[n][1], result[Lines[n][1]]>>
      BY DEF Complete
    <3>3. Lines[n][1] # index[w]
      BY <3>2, <1>1
    <3> QED
      BY <3>1, <3>2, <3>3, <1>2
  <2> QED
    BY <2>1 DEF Complete
<1> QED
  BY <1>1, <1>2, <1>4, <1>6 DEF EInv, Exported, NotBegun, Closed, AtEnd

LEMMA ERecord ==
    ASSUME Typed, Shared, EInv, NEW w \in Workers, Record(w)
    PROVE  EInv'
<1> DEFINE j == index[w]
           line == <<j, result[j]>>
<1>1. /\ w \in Running /\ j \in Jobs /\ runs[j] = 0 /\ runs \in [Jobs -> Nat]
      /\ runs' = [runs EXCEPT ![j] = @ + 1]
      /\ result' = result /\ report' = report /\ exit' = exit /\ returned' = returned
  BY DEF Record, Run, Running, Shared, Typed
<1>2. result \in [Jobs -> Codes] /\ line \in Entries
  BY EntryType DEF EInv, Exported
<1>3. ~returned /\ exit # 0 /\ report \in {"none", "open"}
  BY <1>1 DEF Record, Shared, Running, At, EInv, AtEnd
<1>4. CASE report = "open"
  <2>1. Write(line)
    BY <1>4 DEF Record
  <2>2. /\ file' \in Seq(Entries) /\ buffer' \in Seq(Entries) /\ failed' \in BOOLEAN
        /\ ~failed' => ~failed /\ Lines' = Append(Lines, line)
    BY <2>1, <1>2, WriteKeeps DEF EInv, Exported
  <2>3. Lines \in Seq(Entries)
    BY ConcatProperties DEF Lines, EInv, Exported
  <2>4. ASSUME ~failed' PROVE Complete(Lines', runs', result')
    <3>1. Complete(Lines, runs, result)
      BY <2>2, <2>4, <1>4 DEF EInv, Reported
    <3>2. Complete(Append(Lines, line), [runs EXCEPT ![j] = @ + 1], result)
      BY <3>1, <2>3, <1>1, <1>2, OneMore
    <3> QED
      BY <3>2, <2>2, <2>4, <1>1
  <2> QED
    BY <2>2, <2>4, <1>1, <1>2, <1>3, <1>4 DEF EInv, Exported, NotBegun, Closed, Reported, AtEnd
<1>5. CASE report = "none"
  <2>1. UNCHANGED <<buffer, file, failed>>
    BY <1>5 DEF Record
  <2> QED
    BY <2>1, <1>1, <1>2, <1>3, <1>5 DEF EInv, Exported, NotBegun, Closed, Reported, AtEnd
<1> QED
  BY <1>3, <1>4, <1>5

LEMMA EOpen == ASSUME Typed, EInv, Open PROVE EInv'
<1>1. UNCHANGED <<result, buffer, file, failed, runs, returned, pc>>
  BY DEF Open, vars, jobVars
<1>2. /\ file = << >> /\ buffer = << >> /\ ~failed
      /\ \A j \in Jobs : runs[j] = 0
  BY DEF Open, EInv, NotBegun
<1>3. CASE report' = "open" /\ exit' = exit
  <2>1. Lines' = << >>
    BY <1>1, <1>2 DEF Lines
  <2>2. Complete(Lines', runs', result')
    BY <2>1, <1>1, <1>2 DEF Complete
  <2> QED
    BY <1>1, <1>2, <1>3, <2>2 DEF Open, NoExit, EInv, Exported, NotBegun, Closed, Reported, AtEnd
<1>4. CASE exit' = 12 /\ report' = report
  BY <1>1, <1>4 DEF Open, EInv, Exported, NotBegun, Closed, Reported, AtEnd
<1> QED
  BY <1>3, <1>4 DEF Open

LEMMA EClose == ASSUME EInv, Close PROVE EInv'
<1>1. /\ UNCHANGED <<result, runs, returned, pc, exit>> /\ report = "open" /\ report' = "closed"
      /\ returned /\ FlushLocked(buffer) /\ buffer' = << >>
  BY DEF Close, vars, jobVars, FlushLocked
<1>2. /\ file' \in Seq(Entries) /\ buffer' \in Seq(Entries) /\ failed' \in BOOLEAN
      /\ ~failed' => ~failed /\ Lines' = file \o buffer
  BY <1>1, FlushKeeps DEF EInv, Exported
<1>3. Reported'
  BY <1>1, <1>2 DEF EInv, Reported, Lines
<1> QED
  BY <1>1, <1>2, <1>3 DEF EInv, Exported, NotBegun, Closed, AtEnd

\* The exit code of a batch with failures is that of the last document with one, which there is.
LEMMA LastFailure == ASSUME Exported, Failures # {} PROVE LastResult # 0
<1> DEFINE before == {n \in Nat : n < count /\ count - 1 - n \in Failures}
<1> USE Constants
<1>1. before # {}
  <2>1. PICK j \in Failures : TRUE
    OBVIOUS
  <2>2. j \in Jobs /\ j \in Int /\ 0 <= j /\ j <= count - 1
    BY DEF Failures, Jobs
  <2>3. count - 1 - j \in Nat /\ count - 1 - j < count /\ count - 1 - (count - 1 - j) = j
    BY <2>2
  <2> QED
    BY <2>1, <2>3
<1>2. PICK n \in before : \A m \in before : n <= m
  <2> DEFINE less == OpToRel(<, Nat)
  <2>1. PICK n \in before : \A m \in before : <<m, n>> \notin less
    <3>1. before \subseteq Nat
      OBVIOUS
    <3> HIDE DEF before, less
    <3>2. IsWellFoundedOn(less, Nat)
      BY NatLessThanWellFounded DEF less
    <3> QED
      BY <1>1, <3>1, <3>2, WFMin
  <2>2. ASSUME NEW m \in before PROVE n <= m
    <3>1. m \in Nat /\ n \in Nat
      OBVIOUS
    <3>2. ~(m < n)
      BY <2>1, <3>1 DEF OpToRel
    <3> QED
      BY <3>1, <3>2
  <2> QED
    BY <2>1, <2>2
<1>3. ASSUME NEW i \in Failures PROVE i <= count - 1 - n
  <2>1. i \in Int /\ 0 <= i /\ i <= count - 1
    BY DEF Failures, Jobs
  <2>2. count - 1 - i \in Nat /\ count - 1 - i < count /\ count - 1 - (count - 1 - i) = i
    BY <2>1
  <2>3. n <= count - 1 - i /\ n \in Nat
    BY <2>2, <1>2
  <2> QED
    BY <2>1, <2>3
<1>4. \E j \in Failures : \A i \in Failures : i <= j
  BY <1>2, <1>3
<1> QED
  BY <1>4 DEF LastResult, Failures

LEMMA EExit == ASSUME EInv, Exit PROVE EInv'
<1>1. UNCHANGED <<result, report, buffer, file, failed, runs, returned, pc>>
  BY DEF Exit, vars, jobVars, reportVars
<1>2. exit' = 0 => Failures = {} /\ ~failed
  <2>1. Failures # {} => LastResult # 0
    BY LastFailure DEF EInv
  <2> QED
    BY <2>1 DEF Exit
<1>3. AtEnd'
  BY <1>1, <1>2 DEF Exit, AtEnd, Failures
<1> QED
  BY <1>1, <1>3 DEF EInv, Exported, NotBegun, Closed, Reported, Lines

LEMMA EStep == Typed /\ Shared /\ EInv /\ [ExportNext]_exportVars => EInv'
<1> SUFFICES ASSUME Typed, Shared, EInv, [ExportNext]_exportVars PROVE EInv'
  OBVIOUS
<1>1. ASSUME NEW w \in Workers, StartJobs(w) \/ Between(w) PROVE EInv'
  <2>1. UNCHANGED <<result, report, buffer, file, failed, exit, runs, returned>>
    BY <1>1 DEF StartJobs, Between, Start, TakeSize, Measure, Arrive, Woken, TakeJob, jobVars, reportVars
  <2>2. report # "asked"
    BY <1>1 DEF StartJobs, Between, TakeSize, Measure, Arrive, Woken, TakeJob, At, EInv, NotBegun
  <2> QED
    BY <2>1, <2>2, EElsewhere
<1>2. CASE JoinJobs
  <2>1. /\ UNCHANGED <<result, report, buffer, file, failed, exit, runs, pc>> /\ ~returned /\ returned'
    BY <1>2 DEF JoinJobs, Join, jobVars, reportVars
  <2> QED
    BY <2>1 DEF EInv, Exported, NotBegun, Closed, Reported, AtEnd, Lines
<1>3. CASE Tick \/ Ended \/ UNCHANGED exportVars
  <2>1. UNCHANGED <<result, report, buffer, file, failed, exit, runs, returned, pc>>
    BY <1>3 DEF Tick, Ended, exportVars, vars, jobVars, reportVars
  <2> QED
    BY <2>1, EElsewhere
<1> QED
  BY <1>1, <1>2, <1>3, EConvert, ERecord, EOpen, EClose, EExit DEF ExportNext

\* What is proved of RunJobs and of the report, together.
LEMMA ExportInv == ExportSpec => [](Typed /\ Shared /\ EInv)
<1>1. ExportInit => Typed /\ Shared /\ EInv
  BY SharedInit, EInit DEF ExportInit
<1>2. [ExportNext]_exportVars => [Next]_vars
  BY StepOfThreads DEF exportVars
<1>3. Typed /\ Shared /\ EInv /\ [ExportNext]_exportVars => Typed' /\ Shared' /\ EInv'
  BY <1>2, TypedStep, SharedStep, EStep
<1> QED
  BY <1>1, <1>3, PTL DEF ExportSpec

\* While no write of the report has failed, it has one line for each document that was run, with
\* its result, and no other: however the buffer was flushed, and in whatever order the threads
\* wrote (Report::Add, Write, FlushLocked, Close).
THEOREM LinesComplete == ExportSpec => []OneLineEach
<1>1. Typed /\ Shared /\ EInv => OneLineEach
  <2> SUFFICES ASSUME Typed, Shared, EInv, report \in {"open", "closed"}, ~failed
               PROVE  LET lines == file \o (IF report = "open" THEN buffer ELSE << >>)
                      IN /\ \A j \in Jobs :
                              Cardinality({n \in DOMAIN lines : lines[n] = <<j, result[j]>>}) = runs[j]
                         /\ \A n \in DOMAIN lines : runs[lines[n][1]] = 1
    BY DEF OneLineEach
  <2>1. file \o (IF report = "open" THEN buffer ELSE << >>) = Lines
    BY DEF EInv, Closed, Lines
  <2>2. Complete(Lines, runs, result) /\ Lines \in Seq(Entries)
    BY ConcatProperties DEF EInv, Reported, Exported, Lines
  <2>3. DOMAIN Lines = 1 .. Len(Lines)
    BY <2>2
  <2>4. ASSUME NEW j \in Jobs
        PROVE  Cardinality({n \in DOMAIN Lines : Lines[n] = <<j, result[j]>>}) = runs[j]
    <3> DEFINE of == {n \in DOMAIN Lines : Lines[n] = <<j, result[j]>>}
    <3>1. runs[j] \in {0, 1}
      <4>1. runs[j] \in Nat /\ runs[j] <= 1
        BY DEF Typed, Shared
      <4> QED
        BY <4>1
    <3>2. \A n \in of : Lines[n][1] = j
      OBVIOUS
    <3>3. CASE runs[j] = 0
      <4>1. of = {}
        BY <3>2, <3>3, <2>2, <2>3 DEF Complete
      <4> QED
        BY <4>1, <3>3, FS_EmptySet
    <3>4. CASE runs[j] = 1
      <4>1. PICK n \in 1 .. Len(Lines) : Lines[n][1] = j
        BY <3>4, <2>2 DEF Complete
      <4>2. Lines[n] = <<j, result[j]>>
        BY <4>1, <2>2 DEF Complete
      <4>3. of = {n}
        BY <4>1, <4>2, <3>2, <2>2, <2>3 DEF Complete
      <4> QED
        BY <4>3, <3>4, FS_Singleton
    <3> QED
      BY <3>1, <3>3, <3>4
  <2>5. \A n \in DOMAIN Lines : runs[Lines[n][1]] = 1
    BY <2>2, <2>3 DEF Complete
  <2> QED
    BY <2>1, <2>4, <2>5
<1> QED
  BY <1>1, ExportInv, PTL

\* A batch that exits with 0 has run every document without a failure and reported each: for every
\* number of documents and threads, and wherever its disk fails (ExecuteBatchJobs).
THEOREM ZeroIsAll == ExportSpec => []ZeroMeansAll
<1>1. Typed /\ Shared /\ EInv /\ EachOnce => ZeroMeansAll
  <2> SUFFICES ASSUME Typed, Shared, EInv, EachOnce, exit = 0
               PROVE  /\ \A j \in Jobs : runs[j] = 1 /\ result[j] = 0
                      /\ report # "none" => {file[n] : n \in DOMAIN file} = {<<j, 0>> : j \in Jobs}
    BY DEF ZeroMeansAll
  <2>1. returned /\ Failures = {} /\ report \in {"none", "closed"} /\ ~failed
    BY DEF EInv, AtEnd
  <2>2. \A j \in Jobs : runs[j] = 1
    BY <2>1 DEF EachOnce
  <2>3. \A j \in Jobs : result[j] = 0
    BY <2>1 DEF Failures
  <2>4. ASSUME report = "closed" PROVE {file[n] : n \in DOMAIN file} = {<<j, 0>> : j \in Jobs}
    <3>1. file \in Seq(Entries) /\ DOMAIN file = 1 .. Len(file)
      BY DEF EInv, Exported
    <3>2. Lines = file
      BY <2>4, <3>1, ConcatEmptySeq DEF EInv, Closed, Lines
    <3>3. Complete(file, runs, result)
      BY <2>1, <2>4, <3>2 DEF EInv, Reported
    <3>4. ASSUME NEW n \in 1 .. Len(file) PROVE \E j \in Jobs : file[n] = <<j, 0>>
      <4>1. file[n] \in Entries /\ file[n][1] \in Jobs
        BY <3>1 DEF Entries
      <4> QED
        BY <4>1, <3>3, <2>3 DEF Complete
    <3>5. ASSUME NEW j \in Jobs PROVE \E n \in 1 .. Len(file) : file[n] = <<j, 0>>
      BY <3>3, <2>2, <2>3 DEF Complete
    <3> QED
      BY <3>1, <3>4, <3>5
  <2> QED
    BY <2>1, <2>2, <2>3, <2>4
<1> QED
  BY <1>1, ExportInv, DocumentsOnce, PTL
=============================================================================
