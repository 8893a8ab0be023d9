------------------------------ MODULE RunJobs ------------------------------
(***************************************************************************)
(* RunJobs of src/common/batch_report.cpp: the threads of a batch share    *)
(* out the jobs' indices with one counter.  Before that they share out the *)
(* sizes of the inputs, and wait for each other, as the largest input      *)
(* decides how many of them go on.                                         *)
(*                                                                         *)
(* A step is one atomic access, or the critical section of the mutex.      *)
(***************************************************************************)
EXTENDS Integers, FiniteSets

CONSTANTS
    count,         \* the jobs are 0 .. count - 1
    workers,       \* the threads, never more than the jobs
    Size,          \* [Jobs -> bytes], NoSize for none
    Large, Huge    \* 16 and 64 MiB

Jobs == 0 .. count - 1
Workers == 0 .. workers - 1
NoSize == -1       \* UINT64_MAX

ASSUME CountAssumption == count \in Nat \ {0} /\ workers \in 1 .. count
ASSUME SizeAssumption ==
    Size \in [Jobs -> Nat \cup {NoSize}] /\ Large \in Nat /\ Huge \in Nat /\ Large <= Huge

VARIABLES
    sizing, next,     \* the next index to size, the next job to run
    arrived, active, largest,
    mine,             \* per thread: the largest size it saw
    index,            \* per thread: the job it sizes or runs
    pc,
    waiting,          \* threads blocked in sized.wait
    runs,             \* per job: how many times it was run (history variable)
    returned

vars == <<sizing, next, arrived, active, largest, mine, index, pc, waiting, runs, returned>>
sizes == <<sizing, arrived, active, largest, mine, waiting>>

Larger(a, b) == IF a > b THEN a ELSE b

\* The threads that go on when the largest input has `bytes`.
ActiveFor(bytes) ==
    IF bytes > Huge THEN 1
    ELSE IF bytes > Large THEN (IF workers < 2 THEN workers ELSE 2)
    ELSE workers

Init ==
    /\ sizing = 0 /\ next = 0
    /\ arrived = 0 /\ active = workers /\ largest = 0
    /\ mine = [w \in Workers |-> 0] /\ index = [w \in Workers |-> 0]
    /\ pc = [w \in Workers |-> "new"]
    /\ waiting = {}
    /\ runs = [j \in Jobs |-> 0]
    /\ returned = FALSE

At(w, place) == pc[w] = place
Goto(w, place) == pc' = [pc EXCEPT ![w] = place]

\* The calling thread starts the threads in turn.
Start(w) ==
    /\ At(w, "new") /\ \A v \in 0 .. w - 1 : ~At(v, "new")
    /\ Goto(w, IF workers > 1 THEN "size" ELSE "next")
    /\ UNCHANGED <<sizes, next, index, runs, returned>>

TakeSize(w) ==
    /\ At(w, "size")
    /\ sizing' = sizing + 1
    /\ \/ sizing < count /\ index' = [index EXCEPT ![w] = sizing] /\ Goto(w, "measure")
       \/ sizing >= count /\ Goto(w, "arrive") /\ UNCHANGED index
    /\ UNCHANGED <<arrived, active, largest, mine, waiting, next, runs, returned>>

Measure(w) ==
    /\ At(w, "measure")
    /\ mine' = [mine EXCEPT ![w] = Larger(@, Size[index[w]])]   \* NoSize is below every size
    /\ Goto(w, "size")
    /\ UNCHANGED <<sizing, arrived, active, largest, waiting, next, index, runs, returned>>

\* mutant: a thread goes on before the others have arrived
ArriveNoWait(w) ==
    /\ At(w, "arrive")
    /\ largest' = Larger(largest, mine[w])
    /\ arrived' = arrived + 1
    /\ active' = ActiveFor(largest') /\ waiting' = {}
    /\ Goto(w, IF w >= active' THEN "done" ELSE "next")
    /\ UNCHANGED <<sizing, mine, next, index, runs, returned>>

\* mutant: the last to arrive does not wake the others
ArriveSilently(w) ==
    /\ At(w, "arrive")
    /\ largest' = Larger(largest, mine[w])
    /\ arrived' = arrived + 1
    /\ \/ /\ arrived + 1 = workers
          /\ active' = ActiveFor(largest') /\ UNCHANGED waiting
          /\ Goto(w, IF w >= active' THEN "done" ELSE "next")
       \/ /\ arrived + 1 # workers
          /\ waiting' = waiting \cup {w} /\ UNCHANGED active
          /\ Goto(w, "wait")
    /\ UNCHANGED <<sizing, mine, next, index, runs, returned>>

\* The last thread to arrive knows the largest input and wakes the others.
Arrive(w) ==
    /\ At(w, "arrive")
    /\ largest' = Larger(largest, mine[w])
    /\ arrived' = arrived + 1
    /\ \/ /\ arrived + 1 = workers
          /\ active' = ActiveFor(largest') /\ waiting' = {}
          /\ Goto(w, IF w >= active' THEN "done" ELSE "next")
       \/ /\ arrived + 1 # workers
          /\ waiting' = waiting \cup {w} /\ UNCHANGED active
          /\ Goto(w, "wait")
    /\ UNCHANGED <<sizing, mine, next, index, runs, returned>>

Woken(w) ==
    /\ At(w, "wait") /\ w \notin waiting
    /\ Goto(w, IF w >= active THEN "done" ELSE "next")
    /\ UNCHANGED <<sizes, next, index, runs, returned>>

\* mutant: the index is read and then counted on by each thread
TakeJobTwice(w) ==
    /\ At(w, "next")
    /\ \E n \in {next, next + 1} : next' = n
    /\ \/ next < count /\ index' = [index EXCEPT ![w] = next] /\ Goto(w, "run")
       \/ next >= count /\ Goto(w, "done") /\ UNCHANGED index
    /\ UNCHANGED <<sizes, runs, returned>>

TakeJob(w) ==
    /\ At(w, "next")
    /\ next' = next + 1
    /\ \/ next < count /\ index' = [index EXCEPT ![w] = next] /\ Goto(w, "run")
       \/ next >= count /\ Goto(w, "done") /\ UNCHANGED index
    /\ UNCHANGED <<sizes, runs, returned>>

Run(w) ==
    /\ At(w, "run")
    /\ runs' = [runs EXCEPT ![index[w]] = @ + 1]
    /\ Goto(w, "next")
    /\ UNCHANGED <<sizes, next, index, returned>>

Join ==
    /\ ~returned /\ \A w \in Workers : At(w, "done")
    /\ returned' = TRUE
    /\ UNCHANGED <<sizes, next, index, pc, runs>>

Work(w) ==
    TakeSize(w) \/ Measure(w) \/ Arrive(w) \/ Woken(w) \/ TakeJob(w) \/ Run(w)

Rest == returned /\ UNCHANGED vars

Next == (\E w \in Workers : Start(w) \/ Work(w)) \/ Join \/ Rest

Spec == Init /\ [][Next]_vars

-----------------------------------------------------------------------------
(* Properties *)

TypeOK ==
    /\ sizing \in Nat /\ next \in Nat
    /\ arrived \in 0 .. workers /\ active \in 1 .. workers /\ largest \in Nat
    /\ mine \in [Workers -> Nat] /\ index \in [Workers -> Jobs]
    /\ pc \in [Workers -> {"new", "size", "measure", "arrive", "wait", "next", "run", "done"}]
    /\ waiting \subseteq Workers
    /\ runs \in [Jobs -> Nat] /\ returned \in BOOLEAN

Running == {w \in Workers : At(w, "run")}

\* "an input over 16 MiB leaves the batch at most two threads and one over 64 MiB one":
\* no thread begins a job before every input's size is known.
MemoryBound ==
    \A j \in Jobs :
        /\ Size[j] > Large => Cardinality(Running) <= 2
        /\ Size[j] > Huge => Cardinality(Running) <= 1

\* Every job is run once: never twice, never by two threads, and none is left when RunJobs
\* returns, however many threads it has sent home.
EachOnce ==
    /\ \A w, v \in Running : w # v => index[w] # index[v]
    /\ \A w \in Running : runs[index[w]] = 0
    /\ \A j \in Jobs : runs[j] <= 1
    /\ returned => \A j \in Jobs : runs[j] = 1

LargestSize == CHOOSE n \in {Size[j] : j \in Jobs} : \A j \in Jobs : Size[j] <= n

\* The threads, their counters and their barrier are a pool of ActiveFor(largest) workers.
Pool == INSTANCE JobPool WITH
    Limit <- IF workers > 1 THEN ActiveFor(LargestSize) ELSE 1,
    todo <- {j \in Jobs : next <= j},
    doing <- {index[w] : w \in Running},
    over <- returned

IsAPool == Pool!Spec
=============================================================================
