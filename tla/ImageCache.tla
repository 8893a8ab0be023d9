----------------------------- MODULE ImageCache -----------------------------
(***************************************************************************)
(* The image cache of src/core/image_cache.cpp: threads of several         *)
(* processes load, store and trim one directory.  Processes stop at any    *)
(* point and are started again with the same process number.               *)
(*                                                                         *)
(* A step is one system call; a failed one and the removal of the          *)
(* temporary file that follows it are one step, as a stop between the two  *)
(* leaves what a stop before them does.  A file is a number of units of    *)
(* the streams that one version of the program makes of one image.  A      *)
(* thread that reads an entry has it as it was when it was opened: it is   *)
(* whole then (OpensWhole), and nobody writes to a whole file.             *)
(***************************************************************************)
EXTENDS Integers, FiniteSets, FiniteSetsExt

CONSTANTS
    Processes, Threads,
    ProcessOf,           \* [Threads -> Processes]
    VersionOf,           \* [Processes -> the RAYOMD_VERSION it runs]
    Digests,             \* images, by the SHA-256 of their bytes
    Units,               \* [image, version -> units of its entry]
    DirectoryLimit,      \* kDirectoryBytes
    TrimEach,            \* the 32 of `store % 32 == 0`
    Hour,
    MaxStores,           \* bound on the stores of a process from its start
    MaxTime, MaxFaults   \* bounds on the clock, on stops and failures

NoThread == "nobody"
NoVersion == "none"
NoFile == [digest |-> NoVersion, version |-> NoVersion, units |-> 0, time |-> 0, maker |-> NoThread]
Versions == {VersionOf[p] : p \in Processes}
Version(t) == VersionOf[ProcessOf[t]]
ThreadsOf(p) == {t \in Threads : ProcessOf[t] = p}

ASSUME CacheAssumption ==
    /\ IsFiniteSet(Digests) /\ IsFiniteSet(Threads) /\ NoThread \notin Threads
    /\ ProcessOf \in [Threads -> Processes] /\ NoVersion \notin Versions
    /\ Units \in [Digests \X Versions -> Nat \ {0}]
    /\ DirectoryLimit \in Nat /\ TrimEach \in Nat \ {0} /\ Hour \in Nat
    /\ MaxStores \in Nat /\ MaxTime \in Nat /\ MaxFaults \in Nat

\* "<digest>.rimg" and "<digest>.<process>-<store>.tmp".
EntryName(d) == [kind |-> "rimg", digest |-> d]
TempName(d, p, n) == [kind |-> "tmp", digest |-> d, process |-> p, store |-> n]
EntryNames == {EntryName(d) : d \in Digests}
TempNames == {TempName(d, p, n) : d \in Digests, p \in Processes, n \in 0 .. MaxStores - 1}
NoName == "none"
Names == EntryNames \cup TempNames

VARIABLES
    dir,         \* per name: whose streams its file holds, how many units, its time, and
                 \* the thread that made it, NoThread once that was killed (history)
    now,
    stores,      \* per process: the static counter of StoreCachedImage
    local,       \* per thread: its place and variables
    faults,
    fresh, cut   \* history: entries put since the last Trim began; a Trim was killed

history == <<fresh, cut>>
vars == <<dir, now, stores, local, faults, history>>

Present(n) == dir[n] # NoFile
Whole(f) == f # NoFile /\ f.units = Units[<<f.digest, f.version>>]
At(t, place) == local[t].at = place
Entry(t) == EntryName(local[t].image)
Temp(t) == TempName(local[t].image, ProcessOf[t], local[t].store)

\* A thread that has nothing to do with the cache, at "ready" or "stopped".
Idle(place) == [at |-> place, image |-> "none", fd |-> NoFile, got |-> NoVersion, store |-> 0,
                stale |-> 0, unlisted |-> {}, listed |-> {}, total |-> 0, victim |-> NoName]
Set(t, values) == local' = [local EXCEPT ![t] = values]
Goto(t, place) == local' = [local EXCEPT ![t].at = place]

Init ==
    /\ dir = [n \in Names |-> NoFile]
    /\ now = 0 /\ stores = [p \in Processes |-> 0]
    /\ local = [t \in Threads |-> Idle("stopped")]
    /\ faults = 0 /\ fresh = {} /\ cut = FALSE

-----------------------------------------------------------------------------
(* LoadCachedImage *)

\* A thread comes to an image.
Load(t, d) ==
    /\ At(t, "ready")
    /\ Set(t, [local[t] EXCEPT !.at = "open", !.image = d])
    /\ UNCHANGED <<dir, now, stores, faults, history>>

OpenEntry(t) ==
    /\ At(t, "open")
    /\ Set(t, [local[t] EXCEPT !.at = IF Present(Entry(t)) THEN "read" ELSE "count", !.fd = dir[Entry(t)]])
    /\ UNCHANGED <<dir, now, stores, faults, history>>

\* mutant: the version in the header is not compared
SoundAnyVersion(t) == Whole(local[t].fd)

\* The header is of this program's version, and the size is that of the lengths in it.
Sound(t) == Whole(local[t].fd) /\ local[t].fd.version = Version(t)

\* A read may fail, which is a miss too.
Read(t) ==
    /\ At(t, "read")
    /\ \/ /\ Sound(t) /\ UNCHANGED faults
          /\ Set(t, [local[t] EXCEPT !.at = "touch", !.fd = NoFile, !.got = local[t].fd.version])
       \/ /\ \/ ~Sound(t) /\ UNCHANGED faults
             \/ faults < MaxFaults /\ faults' = faults + 1
          /\ Set(t, [local[t] EXCEPT !.at = "count", !.fd = NoFile])
    /\ UNCHANGED <<dir, now, stores, history>>

\* SetWriteTimeNow, by name: the file may be another one by now.
Touch(t) ==
    /\ At(t, "touch")
    /\ dir' = IF Present(Entry(t)) THEN [dir EXCEPT ![Entry(t)].time = now] ELSE dir
    /\ Set(t, Idle("ready"))
    /\ UNCHANGED <<now, stores, faults, history>>

-----------------------------------------------------------------------------
(* StoreCachedImage, after a miss *)

\* An image that could not be decoded, or that is too large, is not stored.
NotStored(t) ==
    /\ At(t, "count")
    /\ Set(t, Idle("ready"))
    /\ UNCHANGED <<dir, now, stores, faults, history>>

CountStore(t) ==
    LET p == ProcessOf[t] IN
    /\ At(t, "count") /\ stores[p] < MaxStores
    /\ Set(t, [local[t] EXCEPT !.at = "create", !.store = stores[p]])
    /\ stores' = [stores EXCEPT ![p] = @ + 1]
    /\ UNCHANGED <<dir, now, faults, history>>

NewFile(t) == [digest |-> local[t].image, version |-> Version(t), units |-> 0, time |-> now, maker |-> t]

\* mutant: the entry is written under its own name
CreateInPlace(t) ==
    /\ At(t, "create") /\ ~Present(Entry(t))
    /\ dir' = [dir EXCEPT ![Entry(t)] = NewFile(t)]
    /\ Set(t, [local[t] EXCEPT !.at = "write", !.fd = NewFile(t)])
    /\ UNCHANGED <<now, stores, faults, history>>

\* open with O_CREAT and O_EXCL.
Create(t) ==
    /\ At(t, "create") /\ ~Present(Temp(t))
    /\ dir' = [dir EXCEPT ![Temp(t)] = NewFile(t)]
    /\ Set(t, [local[t] EXCEPT !.at = "write", !.fd = NewFile(t)])
    /\ UNCHANGED <<now, stores, faults, history>>

\* The name is there, left by a process that had this one's number, or the open fails: what
\* has the name goes, and nothing is stored.
CreateFails(t) ==
    /\ At(t, "create")
    /\ \/ Present(Temp(t)) /\ UNCHANGED faults
       \/ faults < MaxFaults /\ faults' = faults + 1
    /\ dir' = [dir EXCEPT ![Temp(t)] = NoFile]
    /\ Set(t, Idle("ready"))
    /\ UNCHANGED <<now, stores, history>>

\* One unit, to a file that a Trim may have taken the name of.
Write(t) ==
    LET f == [local[t].fd EXCEPT !.units = @ + 1, !.time = now] IN
    /\ At(t, "write")
    /\ dir' = IF dir[Temp(t)] = local[t].fd THEN [dir EXCEPT ![Temp(t)] = f] ELSE dir
    /\ Set(t, [local[t] EXCEPT !.fd = f, !.at = IF Whole(f) THEN "close" ELSE "write"])
    /\ UNCHANGED <<now, stores, faults, history>>

Close(t) ==
    /\ At(t, "close")
    /\ Set(t, [local[t] EXCEPT !.at = "rename", !.fd = NoFile])
    /\ UNCHANGED <<dir, now, stores, faults, history>>

\* mutant: a file that could not be written stays
WriteFailsLeaves(t) ==
    /\ local[t].at \in {"write", "close"} /\ faults < MaxFaults
    /\ faults' = faults + 1
    /\ Set(t, Idle("ready"))
    /\ UNCHANGED <<dir, now, stores, history>>

\* A write or the close fails.
WriteFails(t) ==
    /\ local[t].at \in {"write", "close"} /\ faults < MaxFaults
    /\ faults' = faults + 1
    /\ dir' = [dir EXCEPT ![Temp(t)] = NoFile]
    /\ Set(t, Idle("ready"))
    /\ UNCHANGED <<now, stores, history>>

\* Every 32nd store of a process trims the directory, the first one included.
Stored(t) == Set(t, Idle(IF local[t].store % TrimEach = 0 THEN "trim" ELSE "ready"))

Rename(t) ==
    /\ At(t, "rename") /\ Present(Temp(t))
    /\ dir' = [dir EXCEPT ![Entry(t)] = dir[Temp(t)], ![Temp(t)] = NoFile]
    /\ fresh' = fresh \cup {local[t].image}
    /\ Stored(t)
    /\ UNCHANGED <<now, stores, faults, cut>>

\* Another Trim took the file for an old one, or the rename fails.
RenameFails(t) ==
    /\ At(t, "rename")
    /\ \/ ~Present(Temp(t)) /\ UNCHANGED faults
       \/ faults < MaxFaults /\ faults' = faults + 1
    /\ dir' = [dir EXCEPT ![Temp(t)] = NoFile]
    /\ Stored(t)
    /\ UNCHANGED <<now, stores, history>>

-----------------------------------------------------------------------------
(* Trim *)

TrimBegin(t) ==
    /\ At(t, "trim")
    /\ Set(t, [local[t] EXCEPT !.at = "list", !.stale = IF now > Hour THEN now - Hour ELSE 0,
                               !.unlisted = {n \in Names : Present(n)}])
    /\ fresh' = {} /\ cut' = FALSE
    /\ UNCHANGED <<dir, now, stores, faults>>

\* stat of an entry, if it is still there.
StatEntry(t, n) ==
    LET f == dir[n] IN
    /\ At(t, "list") /\ n \in local[t].unlisted /\ n \in EntryNames
    /\ \/ /\ Present(n)
          /\ Set(t, [local[t] EXCEPT !.unlisted = @ \ {n}, !.total = @ + f.units,
                                     !.listed = @ \cup {[name |-> n, size |-> f.units, time |-> f.time]}])
       \/ /\ ~Present(n)
          /\ Set(t, [local[t] EXCEPT !.unlisted = @ \ {n}])
    /\ UNCHANGED <<dir, now, stores, faults, history>>

StatTemp(t, n) ==
    /\ At(t, "list") /\ n \in local[t].unlisted /\ n \in TempNames
    /\ \/ /\ Present(n) /\ dir[n].time < local[t].stale
          /\ Set(t, [local[t] EXCEPT !.unlisted = @ \ {n}, !.at = "remove old", !.victim = n])
       \/ /\ Present(n) => dir[n].time >= local[t].stale
          /\ Set(t, [local[t] EXCEPT !.unlisted = @ \ {n}])
    /\ UNCHANGED <<dir, now, stores, faults, history>>

RemoveOld(t) ==
    /\ At(t, "remove old")
    /\ dir' = [dir EXCEPT ![local[t].victim] = NoFile]
    /\ Set(t, [local[t] EXCEPT !.at = "list", !.victim = NoName])
    /\ UNCHANGED <<now, stores, faults, history>>

\* mutant: one unit more is let be
ListedLate(t) ==
    /\ At(t, "list") /\ local[t].unlisted = {}
    /\ IF local[t].total > DirectoryLimit + 1 THEN Goto(t, "evict") ELSE Set(t, Idle("ready"))
    /\ UNCHANGED <<dir, now, stores, faults, history>>

Listed(t) ==
    /\ At(t, "list") /\ local[t].unlisted = {}
    /\ IF local[t].total > DirectoryLimit THEN Goto(t, "evict") ELSE Set(t, Idle("ready"))
    /\ UNCHANGED <<dir, now, stores, faults, history>>

Evicting(t) == At(t, "evict") /\ 4 * local[t].total > 3 * DirectoryLimit /\ local[t].listed # {}

\* The least recently used entry goes; one that is gone already does not count.
Evict(t, e) ==
    /\ Evicting(t) /\ e \in local[t].listed
    /\ \A other \in local[t].listed : e.time <= other.time
    /\ dir' = [dir EXCEPT ![e.name] = NoFile]
    /\ Set(t, [local[t] EXCEPT !.listed = @ \ {e}, !.total = IF Present(e.name) THEN @ - e.size ELSE @])
    /\ UNCHANGED <<now, stores, faults, history>>

TrimEnd(t) ==
    /\ At(t, "evict") /\ ~Evicting(t)
    /\ Set(t, Idle("ready"))
    /\ UNCHANGED <<dir, now, stores, faults, history>>

-----------------------------------------------------------------------------
(* The processes *)

Trimming(t) == local[t].at \in {"list", "remove old", "evict"}

Launch(p) ==
    /\ \A t \in ThreadsOf(p) : At(t, "stopped")
    /\ local' = [t \in Threads |-> IF t \in ThreadsOf(p) THEN Idle("ready") ELSE local[t]]
    /\ stores' = [stores EXCEPT ![p] = 0]
    /\ UNCHANGED <<dir, now, faults, history>>

Exit(p) ==
    /\ \A t \in ThreadsOf(p) : At(t, "ready")
    /\ local' = [t \in Threads |-> IF t \in ThreadsOf(p) THEN Idle("stopped") ELSE local[t]]
    /\ stores' = [stores EXCEPT ![p] = 0]
    /\ UNCHANGED <<dir, now, faults, history>>

Kill(p) ==
    /\ faults < MaxFaults /\ \E t \in ThreadsOf(p) : local[t].at \notin {"stopped", "ready"}
    /\ faults' = faults + 1
    /\ local' = [t \in Threads |-> IF t \in ThreadsOf(p) THEN Idle("stopped") ELSE local[t]]
    /\ stores' = [stores EXCEPT ![p] = 0]
    /\ cut' = (cut \/ \E t \in ThreadsOf(p) : Trimming(t))
    /\ dir' = [n \in Names |-> IF dir[n].maker \in ThreadsOf(p)
                               THEN [dir[n] EXCEPT !.maker = NoThread] ELSE dir[n]]
    /\ UNCHANGED <<now, fresh>>

Tick ==
    /\ now < MaxTime
    /\ now' = now + 1
    /\ UNCHANGED <<dir, stores, local, faults, history>>

LoadStep(t) == (\E d \in Digests : Load(t, d)) \/ OpenEntry(t) \/ Read(t) \/ Touch(t)
StoreStep(t) ==
    \/ NotStored(t) \/ CountStore(t) \/ Create(t) \/ CreateFails(t) \/ Write(t) \/ Close(t)
    \/ WriteFails(t) \/ Rename(t) \/ RenameFails(t)
TrimStep(t) ==
    \/ TrimBegin(t) \/ RemoveOld(t) \/ Listed(t) \/ TrimEnd(t)
    \/ \E n \in local[t].unlisted : StatEntry(t, n) \/ StatTemp(t, n)
    \/ \E e \in local[t].listed : Evict(t, e)

Next ==
    \/ \E t \in Threads : LoadStep(t) \/ StoreStep(t) \/ TrimStep(t)
    \/ \E p \in Processes : Launch(p) \/ Exit(p) \/ Kill(p)
    \/ Tick

Spec == Init /\ [][Next]_vars

-----------------------------------------------------------------------------
(* Properties *)

\* "no process reads half of one": what a lookup opens is whole and of the image asked for,
\* whatever other processes, stops and trims do to the directory.
OpensWhole ==
    \A t \in Threads : At(t, "read") =>
        Whole(local[t].fd) /\ local[t].fd.digest = local[t].image

\* A temporary file belongs to the thread that writes it, or to one that was killed: no
\* failure of a store leaves one, and none is taken for another thread's.
TempsAccounted ==
    \A n \in TempNames : Present(n) =>
        LET t == dir[n].maker IN
        t # NoThread => n = Temp(t) /\ local[t].at \in {"write", "close", "rename"}

TotalSize(ds) == MapThenSumSet(LAMBDA d : dir[EntryName(d)].units, ds)

\* When no thread trims and no trim was killed, the entries that were there before the last
\* trim began are within the limit, however many threads trimmed at the same time.
DirectoryBounded ==
    ~cut /\ (\A t \in Threads : ~Trimming(t)) =>
        TotalSize({d \in Digests \ fresh : Present(EntryName(d))}) <= DirectoryLimit

\* The directory is a map from images to whole streams of one version: files under temporary
\* names and renames make each change of it atomic, and a hit is of the asker's version.
Store == INSTANCE ImageStore WITH
    kept <- [d \in Digests |->
               LET f == dir[EntryName(d)] IN
               IF f = NoFile THEN NoVersion
               ELSE IF Whole(f) /\ f.digest = d THEN f.version
               ELSE "torn"],
    found <- [t \in Threads |-> IF At(t, "read") THEN local[t].fd.version ELSE NoVersion],
    got <- [t \in Threads |-> local[t].got],
    VersionOf <- [t \in Threads |-> Version(t)]

IsAStore == Store!Spec
=============================================================================
