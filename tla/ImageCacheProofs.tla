-------------------------- MODULE ImageCacheProofs --------------------------
(***************************************************************************)
(* A lookup opens whole streams of its image, and a temporary file is one  *)
(* thread's, for any number of processes, threads and images.  Both rest   *)
(* on one invariant: the number of a store is one thread's among those of  *)
(* its process, so a temporary name is one thread's and what is there is   *)
(* what it wrote; a file is whole before it gets an entry's name.  From it *)
(* the directory is shown to implement ImageStore.  Then its limit: the    *)
(* trim that began last has every older entry before it or on its list,    *)
(* and counted no less than it listed.                                     *)
(***************************************************************************)
EXTENDS ImageCache, CountingLemmas

(* The invariant *)

\* The variables of a thread, by name.
Fields == {"at", "image", "fd", "got", "store", "stale", "unlisted", "listed", "total", "victim"}
Made == [digest : Digests, version : Versions, units : Nat, time : Nat, maker : Threads \cup {NoThread}]
Files == Made \cup {NoFile}
Held(t) == local[t].at \in {"write", "close", "rename"}
Storing(t) == At(t, "create") \/ Held(t)

Record(r) == r = [f \in Fields |-> r[f]] /\ r.fd \in Files

Typed ==
    /\ dir \in [Names -> Files] /\ now \in Nat
    /\ stores \in [Processes -> 0 .. MaxStores]
    /\ local = [t \in Threads |-> local[t]]
    /\ \A t \in Threads : Record(local[t])

\* What holds of a thread's variables at its places.
WithImage(r) == r.at \in {"open", "read", "touch", "count", "create", "write", "close", "rename"} =>
                    r.image \in Digests
OfImage(f, r) == Whole(f) /\ f.digest = r.image
Opened(r) == r.at = "read" => OfImage(r.fd, r)
Went(r) == r.got # NoVersion => r.at = "touch"
Fit(r) == WithImage(r) /\ Opened(r) /\ Went(r)

Threaded == \A t \in Threads : Fit(local[t])

\* A store's number was counted, and no other store of the process has it.
Numbered ==
    /\ \A t \in Threads : Storing(t) => local[t].store \in Nat /\ local[t].store < stores[ProcessOf[t]]
    /\ \A t, u \in Threads : Storing(t) /\ Storing(u) /\ t # u /\ ProcessOf[t] = ProcessOf[u] =>
           local[t].store # local[u].store

\* A thread's record and the file under its temporary name.
Writes(t, r, f) ==
    /\ r.at \in {"write", "close"} =>
           /\ r.fd \in Made /\ r.fd.maker = t /\ r.fd.digest = r.image
           /\ f # NoFile => f = r.fd
    /\ r.at = "close" => Whole(r.fd)
    /\ r.at = "rename" /\ f # NoFile => OfImage(f, r) /\ f.maker = t

Written == \A t \in Threads : Writes(t, local[t], dir[Temp(t)])

\* What has an entry's name is whole and of its image.
Entries == \A d \in Digests : LET f == dir[EntryName(d)] IN f # NoFile => Whole(f) /\ f.digest = d

IInv == Typed /\ Threaded /\ Numbered /\ Written /\ Entries /\ TempsAccounted

-----------------------------------------------------------------------------

(* Names, files and records *)

LEMMA NameFacts ==
    /\ \A d, e \in Digests : EntryName(d) = EntryName(e) => d = e
    /\ \A d \in Digests : EntryName(d) \in Names /\ EntryName(d) \in EntryNames /\ EntryName(d) \notin TempNames
    /\ \A n \in TempNames : n \in Names /\ n \notin EntryNames
    /\ \A n \in Names : n \in TempNames \/ n \in EntryNames
    /\ \A n \in EntryNames : \E d \in Digests : n = EntryName(d)
    /\ \A d \in Digests, p \in Processes, s \in 0 .. MaxStores - 1 : TempName(d, p, s) \in TempNames
<1>1. \A d, e \in Digests : EntryName(d) = EntryName(e) => d = e
  BY DEF EntryName
<1>2. \A d \in Digests : EntryName(d) \in EntryNames
  BY DEF EntryNames
<1>3. ASSUME NEW n \in TempNames, NEW d \in Digests PROVE n # EntryName(d)
  <2>1. PICK e \in Digests, p \in Processes, s \in 0 .. MaxStores - 1 : n = TempName(e, p, s)
    BY DEF TempNames
  <2>2. n.kind = "tmp"
    BY <2>1 DEF TempName
  <2>3. n = EntryName(d) => n.kind = "rimg"
    BY DEF EntryName
  <2> QED
    BY <2>2, <2>3
<1>4. \A n \in EntryNames : \E d \in Digests : n = EntryName(d)
  BY DEF EntryNames
<1> QED
  <2>1. \A n \in Names : n \in TempNames \/ n \in EntryNames
    BY DEF Names
  <2>2. \A n \in TempNames : n \in Names /\ n \notin EntryNames
    BY <1>3, <1>4 DEF Names
  <2>3. \A d \in Digests : EntryName(d) \in Names /\ EntryName(d) \notin TempNames
    BY <1>2, <1>3 DEF Names
  <2>4. \A d \in Digests, p \in Processes, s \in 0 .. MaxStores - 1 : TempName(d, p, s) \in TempNames
    BY DEF TempNames
  <2> HIDE DEF EntryName, TempName, EntryNames, TempNames, Names
  <2> QED
    BY <1>1, <1>2, <1>4, <2>1, <2>2, <2>3, <2>4

LEMMA FileFacts ==
    /\ NoFile \notin Made
    /\ NoThread \notin Threads
    /\ \A f \in Made : f.maker = NoThread \/ f.maker \in Threads
    /\ \A t \in Threads : ProcessOf[t] \in Processes /\ Version(t) \in Versions
<1>1. NoFile \notin Made
  <2>1. NoVersion \notin Versions
    BY CacheAssumption
  <2>2. \A f \in Made : f.version \in Versions
    BY DEF Made
  <2>3. NoFile.version = NoVersion
    BY DEF NoFile
  <2> QED
    BY <2>1, <2>2, <2>3
<1>2. NoThread \notin Threads
  BY CacheAssumption
<1>3. \A f \in Made : f.maker = NoThread \/ f.maker \in Threads
  BY DEF Made
<1>4. ASSUME NEW t \in Threads PROVE ProcessOf[t] \in Processes /\ Version(t) \in Versions
  <2>1. ProcessOf[t] \in Processes
    BY CacheAssumption
  <2> QED
    BY <2>1 DEF Versions, Version
<1> QED
  BY <1>1, <1>2, <1>3, <1>4

\* A change of a file's time or maker leaves it whole, or not.
LEMMA WholeFacts ==
    ASSUME NEW f \in Made, NEW g \in Made,
           g.digest = f.digest, g.version = f.version, g.units = f.units
    PROVE  Whole(g) <=> Whole(f)
BY FileFacts DEF Whole

LEMMA IdleFacts == ASSUME NEW place \in {"ready", "stopped", "trim"}
    PROVE /\ Record(Idle(place)) /\ Fit(Idle(place)) /\ Idle(place).at = place
          /\ Idle(place).got = NoVersion
BY DEF Idle, Record, Fields, Fit, WithImage, Opened, Went, Files

\* A step of one thread changes its own record only.
LEMMA SetFacts == ASSUME Typed, NEW t \in Threads, NEW r, Set(t, r)
    PROVE /\ local' = [u \in Threads |-> local'[u]]
          /\ local'[t] = r
          /\ \A u \in Threads \ {t} : local'[u] = local[u]
BY DEF Set, Typed

\* The name a thread stores under is its own.
LEMMA TempFacts == ASSUME Typed, Threaded, Numbered, NEW t \in Threads, Storing(t)
    PROVE /\ Temp(t) \in TempNames
          /\ \A u \in Threads : Storing(u) /\ u # t => Temp(u) # Temp(t)
<1>1. local[t].image \in Digests
  BY DEF Threaded, Fit, WithImage, Storing, Held, At
<1>2. local[t].store \in 0 .. MaxStores - 1
  <2>1. local[t].store \in Nat /\ local[t].store < stores[ProcessOf[t]]
    BY DEF Numbered
  <2>2. stores[ProcessOf[t]] \in 0 .. MaxStores
    BY FileFacts DEF Typed
  <2> QED
    BY <2>1, <2>2, CacheAssumption
<1>3. Temp(t) \in TempNames
  BY <1>1, <1>2, FileFacts, NameFacts DEF Temp
<1>4. ASSUME NEW u \in Threads, Storing(u), u # t PROVE Temp(u) # Temp(t)
  <2>1. CASE ProcessOf[u] = ProcessOf[t]
    BY <1>4, <2>1 DEF Numbered, Temp, TempName
  <2>2. CASE ProcessOf[u] # ProcessOf[t]
    BY <2>2 DEF Temp, TempName
  <2> QED
    BY <2>1, <2>2
<1> QED
  BY <1>3, <1>4

-----------------------------------------------------------------------------
(* The steps *)

LEMMA Initially == Init => IInv
<1> SUFFICES ASSUME Init PROVE IInv
  OBVIOUS
<1>1. Typed
  BY IdleFacts, CacheAssumption DEF Init, Typed, Files
<1>2. \A t \in Threads : local[t] = Idle("stopped")
  BY DEF Init
<1>3. Threaded
  BY <1>2, IdleFacts DEF Threaded
<1>4. \A t \in Threads : local[t].at = "stopped"
  BY <1>2, IdleFacts
<1>5. Numbered /\ Written
  BY <1>4 DEF Numbered, Written, Writes, Storing, Held, At
<1>6. \A n \in Names : dir[n] = NoFile
  BY DEF Init
<1>7. Entries /\ TempsAccounted
  BY <1>6, NameFacts DEF Entries, TempsAccounted, Present
<1> QED
  BY <1>1, <1>3, <1>5, <1>7 DEF IInv

\* A step that leaves its thread without a file of its own, and takes none or some away.
LEMMA QuietStep ==
    ASSUME IInv, NEW t \in Threads, NEW r, NEW gone, Set(t, r), Record(r), Fit(r),
           r.at \notin {"create", "write", "close", "rename"},
           dir' = [n \in Names |-> IF n \in gone THEN NoFile ELSE dir[n]],
           Held(t) => Temp(t) \in gone, stores' = stores, now' = now
    PROVE  IInv'
<1>1. /\ local' = [u \in Threads |-> local'[u]]
      /\ local'[t] = r
      /\ \A u \in Threads \ {t} : local'[u] = local[u]
  BY SetFacts DEF IInv
<1> DEFINE Kept(u) == u # t /\ local'[u] = local[u]
<1>2. \A u \in Threads : u = t \/ Kept(u)
  BY <1>1
<1>3. \A u \in Threads : Storing(u)' => Kept(u) /\ Storing(u)
  BY <1>1, <1>2 DEF Storing, Held, At
<1>4. \A n \in Names : dir'[n] = NoFile \/ (dir'[n] = dir[n] /\ n \notin gone)
  OBVIOUS
<1>5. Typed'
  BY <1>1 DEF IInv, Typed, Files
<1>6. Threaded'
  BY <1>1 DEF IInv, Threaded
<1>7. Numbered'
  BY <1>3 DEF IInv, Numbered
<1>8. Written'
  <2> SUFFICES ASSUME NEW u \in Threads PROVE Writes(u, local'[u], dir'[Temp(u)'])
    BY DEF Written
  <2>1. CASE local'[u].at \in {"write", "close", "rename"}
    <3>1. Kept(u) /\ Storing(u)
      BY <1>3, <2>1 DEF Storing, Held
    <3>2. Temp(u) \in Names
      BY <3>1, TempFacts, NameFacts DEF IInv
    <3>3. Temp(u)' = Temp(u)
      BY <3>1 DEF Temp
    <3>4. Writes(u, local[u], dir[Temp(u)])
      BY DEF IInv, Written
    <3>5. Writes(u, local[u], NoFile)
      BY <3>4 DEF Writes
    <3> QED
      BY <3>1, <3>2, <3>3, <3>4, <3>5, <1>4
  <2>2. CASE local'[u].at \notin {"write", "close", "rename"}
    BY <2>2 DEF Writes
  <2> QED
    BY <2>1, <2>2
<1>9. Entries'
  <2> SUFFICES ASSUME NEW d \in Digests, dir'[EntryName(d)] # NoFile
               PROVE  Whole(dir'[EntryName(d)]) /\ dir'[EntryName(d)].digest = d
    BY DEF Entries, Whole
  <2>1. dir'[EntryName(d)] = dir[EntryName(d)]
    BY <1>4, NameFacts
  <2> QED
    BY <2>1 DEF IInv, Entries
<1>10. TempsAccounted'
  <2> SUFFICES ASSUME NEW n \in TempNames, dir'[n] # NoFile, dir'[n].maker # NoThread,
                      NEW u, u = dir'[n].maker
               PROVE  n = Temp(u)' /\ Held(u)'
    BY DEF TempsAccounted, Present, Held
  <2>1. n \in Names /\ dir'[n] = dir[n] /\ n \notin gone
    BY <1>4, NameFacts
  <2>2. u \in Threads
    BY <2>1, FileFacts DEF IInv, Typed, Files
  <2>3. n = Temp(u) /\ Held(u)
    BY <2>1 DEF IInv, TempsAccounted, Present, Held
  <2>4. u # t
    BY <2>1, <2>3
  <2>5. local'[u] = local[u]
    BY <1>2, <2>2, <2>4
  <2> QED
    BY <2>3, <2>5 DEF Temp, Held
<1> QED
  BY <1>5, <1>6, <1>7, <1>8, <1>9, <1>10 DEF IInv

LEMMA SameFiles ==
    ASSUME IInv, NEW t \in Threads, NEW r, Set(t, r), Record(r), Fit(r),
           r.at \notin {"create", "write", "close", "rename"},
           ~Held(t), dir' = dir, stores' = stores, now' = now
    PROVE  IInv'
<1> DEFINE gone == {}
<1>1. dir' = [n \in Names |-> IF n \in gone THEN NoFile ELSE dir[n]]
  BY DEF IInv, Typed
<1> HIDE DEF gone
<1> QED
  BY <1>1, QuietStep

LEMMA OneGone ==
    ASSUME IInv, NEW t \in Threads, NEW r, Set(t, r), Record(r), Fit(r),
           r.at \notin {"create", "write", "close", "rename"},
           NEW m, dir' = [dir EXCEPT ![m] = NoFile], Held(t) => Temp(t) = m,
           stores' = stores, now' = now
    PROVE  IInv'
<1>1. dir' = [n \in Names |-> IF n \in {m} THEN NoFile ELSE dir[n]]
  BY DEF IInv, Typed
<1> QED
  BY <1>1, QuietStep

LEMMA LoadSteps == ASSUME IInv, NEW t \in Threads,
                          (\E d \in Digests : Load(t, d)) \/ OpenEntry(t) \/ Read(t)
                   PROVE  IInv'
<1>1. Record(local[t]) /\ Fit(local[t])
  BY DEF IInv, Typed, Threaded
<1>2. local[t].at \in {"ready", "open", "read"} /\ ~Held(t) /\ local[t].got = NoVersion
  BY <1>1 DEF Load, OpenEntry, Read, At, Held, Fit, Went
<1>3. stores' = stores /\ now' = now /\ dir' = dir
  BY DEF Load, OpenEntry, Read
<1>4. ASSUME NEW d \in Digests, Load(t, d) PROVE IInv'
  <2> DEFINE r == [local[t] EXCEPT !.at = "open", !.image = d]
  <2>1. Record(r) /\ Fit(r) /\ r.at = "open"
    BY <1>1, <1>2 DEF Record, Fields, Fit, WithImage, Opened, Went
  <2>2. Set(t, r)
    BY <1>4 DEF Load
  <2> HIDE DEF r
  <2> QED
    BY <1>2, <1>3, <2>1, <2>2, SameFiles
<1>5. CASE OpenEntry(t)
  <2> DEFINE f == dir[Entry(t)]
             r == [local[t] EXCEPT !.at = IF Present(Entry(t)) THEN "read" ELSE "count", !.fd = f]
  <2>1. local[t].image \in Digests
    BY <1>1, <1>5 DEF OpenEntry, At, Fit, WithImage
  <2>2. f \in Files /\ (Present(Entry(t)) => Whole(f) /\ f.digest = local[t].image)
    BY <2>1, NameFacts DEF IInv, Entries, Typed, Entry, Present
  <2> HIDE DEF f
  <2>3. Record(r) /\ Fit(r) /\ r.at \in {"read", "count"}
    BY <1>1, <1>2, <2>1, <2>2 DEF Record, Fields, Fit, WithImage, Opened, OfImage, Went
  <2>4. Set(t, r)
    BY <1>5 DEF OpenEntry, f
  <2> HIDE DEF r
  <2> QED
    BY <1>2, <1>3, <2>3, <2>4, SameFiles
<1>6. CASE Read(t)
  <2>1. local[t].at = "read"
    BY <1>6 DEF Read, At
  <2>2. NoFile \in Files
    BY DEF Files
  <2>3. CASE Set(t, [local[t] EXCEPT !.at = "touch", !.fd = NoFile, !.got = local[t].fd.version])
    <3> DEFINE r == [local[t] EXCEPT !.at = "touch", !.fd = NoFile, !.got = local[t].fd.version]
    <3>1. Record(r) /\ Fit(r) /\ r.at = "touch"
      BY <1>1, <2>1, <2>2 DEF Record, Fields, Fit, WithImage, Opened, Went
    <3>2. Set(t, r)
      BY <2>3
    <3> HIDE DEF r
    <3> QED
      BY <1>2, <1>3, <3>1, <3>2, SameFiles
  <2>4. CASE Set(t, [local[t] EXCEPT !.at = "count", !.fd = NoFile])
    <3> DEFINE r == [local[t] EXCEPT !.at = "count", !.fd = NoFile]
    <3>1. Record(r) /\ Fit(r) /\ r.at = "count"
      BY <1>1, <1>2, <2>1, <2>2 DEF Record, Fields, Fit, WithImage, Opened, Went
    <3>2. Set(t, r)
      BY <2>4
    <3> HIDE DEF r
    <3> QED
      BY <1>2, <1>3, <3>1, <3>2, SameFiles
  <2> QED
    BY <1>6, <2>3, <2>4 DEF Read
<1> QED
  BY <1>4, <1>5, <1>6

LEMMA MissSteps == ASSUME IInv, NEW t \in Threads,
                          NotStored(t) \/ CreateFails(t) \/ WriteFails(t) \/ RenameFails(t)
                   PROVE  IInv'
<1>1. PICK place \in {"ready", "trim"} : Set(t, Idle(place))
  BY DEF NotStored, CreateFails, WriteFails, RenameFails, Stored
<1>2. Record(Idle(place)) /\ Fit(Idle(place)) /\ Idle(place).at = place
  BY IdleFacts
<1>3. stores' = stores /\ now' = now
  BY DEF NotStored, CreateFails, WriteFails, RenameFails
<1>4. CASE NotStored(t)
  <2>1. ~Held(t) /\ dir' = dir
    BY <1>4 DEF NotStored, At, Held
  <2> QED
    BY <1>1, <1>2, <1>3, <2>1, SameFiles
<1>5. CASE CreateFails(t) \/ WriteFails(t) \/ RenameFails(t)
  <2>1. dir' = [dir EXCEPT ![Temp(t)] = NoFile]
    BY <1>5 DEF CreateFails, WriteFails, RenameFails
  <2> QED
    BY <1>1, <1>2, <1>3, <2>1, OneGone
<1> QED
  BY <1>4, <1>5

LEMMA TrimSteps == ASSUME IInv, NEW t \in Threads, TrimStep(t) PROVE IInv'
<1>1. Record(local[t]) /\ Fit(local[t])
  BY DEF IInv, Typed, Threaded
<1>2. local[t].at \in {"trim", "list", "remove old", "evict"} /\ ~Held(t) /\ local[t].got = NoVersion
  BY <1>1 DEF TrimStep, TrimBegin, RemoveOld, Listed, TrimEnd, StatEntry, StatTemp, Evict, Evicting,
              At, Held, Fit, Went
<1>3. stores' = stores /\ now' = now
  BY DEF TrimStep, TrimBegin, RemoveOld, Listed, TrimEnd, StatEntry, StatTemp, Evict
<1> DEFINE Trims(r) == Record(r) /\ Fit(r) /\ r.at \in {"ready", "list", "remove old", "evict"}
<1>4. ASSUME NEW r, Set(t, r), Trims(r), dir' = dir PROVE IInv'
  BY <1>2, <1>3, <1>4, SameFiles
<1>5. ASSUME NEW r, Set(t, r), Trims(r), NEW m, dir' = [dir EXCEPT ![m] = NoFile] PROVE IInv'
  BY <1>2, <1>3, <1>5, OneGone
<1>6. ASSUME Set(t, Idle("ready")), dir' = dir PROVE IInv'
  BY <1>4, <1>6, IdleFacts
<1>7. CASE TrimBegin(t)
  <2> DEFINE r == [local[t] EXCEPT !.at = "list", !.stale = IF now > Hour THEN now - Hour ELSE 0,
                                   !.unlisted = {n \in Names : Present(n)}]
  <2>1. Trims(r)
    BY <1>1, <1>2 DEF Record, Fields, Fit, WithImage, Opened, Went
  <2>2. Set(t, r) /\ dir' = dir
    BY <1>7 DEF TrimBegin
  <2> QED
    BY <1>4, <2>1, <2>2
<1>8. ASSUME NEW n, StatEntry(t, n) PROVE IInv'
  <2> DEFINE f == dir[n]
             q == [local[t] EXCEPT !.unlisted = @ \ {n}, !.total = @ + f.units,
                                   !.listed = @ \cup {[name |-> n, size |-> f.units, time |-> f.time]}]
             r == [local[t] EXCEPT !.unlisted = @ \ {n}]
  <2>1. local[t].at = "list" /\ dir' = dir
    BY <1>8 DEF StatEntry, At
  <2>2. Trims(q) /\ Trims(r)
    BY <1>1, <1>2, <2>1 DEF Record, Fields, Fit, WithImage, Opened, Went
  <2>3. Set(t, q) \/ Set(t, r)
    BY <1>8 DEF StatEntry
  <2> QED
    BY <1>4, <2>1, <2>2, <2>3
<1>9. ASSUME NEW n, StatTemp(t, n) PROVE IInv'
  <2> DEFINE q == [local[t] EXCEPT !.unlisted = @ \ {n}, !.at = "remove old", !.victim = n]
             r == [local[t] EXCEPT !.unlisted = @ \ {n}]
  <2>1. local[t].at = "list" /\ dir' = dir
    BY <1>9 DEF StatTemp, At
  <2>2. Trims(q) /\ Trims(r)
    BY <1>1, <1>2, <2>1 DEF Record, Fields, Fit, WithImage, Opened, Went
  <2>3. Set(t, q) \/ Set(t, r)
    BY <1>9 DEF StatTemp
  <2> QED
    BY <1>4, <2>1, <2>2, <2>3
<1>10. CASE RemoveOld(t)
  <2> DEFINE r == [local[t] EXCEPT !.at = "list", !.victim = NoName]
  <2>1. Trims(r)
    BY <1>1, <1>2 DEF Record, Fields, Fit, WithImage, Opened, Went
  <2>2. Set(t, r) /\ dir' = [dir EXCEPT ![local[t].victim] = NoFile]
    BY <1>10 DEF RemoveOld
  <2> QED
    BY <1>5, <2>1, <2>2
<1>11. CASE Listed(t) \/ TrimEnd(t)
  <2> DEFINE r == [local[t] EXCEPT !.at = "evict"]
  <2>1. Trims(r)
    BY <1>1, <1>2 DEF Record, Fields, Fit, WithImage, Opened, Went
  <2>2. (Set(t, r) \/ Set(t, Idle("ready"))) /\ dir' = dir
    BY <1>11 DEF Listed, TrimEnd, Goto, Set
  <2> QED
    BY <1>4, <1>6, <2>1, <2>2
<1>12. ASSUME NEW e, Evict(t, e) PROVE IInv'
  <2> DEFINE left == IF Present(e.name) THEN local[t].total - e.size ELSE local[t].total
             r == [local[t] EXCEPT !.listed = @ \ {e}, !.total = left]
  <2>1. local[t].at = "evict"
    BY <1>12 DEF Evict, Evicting, At
  <2>2. Set(t, r) /\ dir' = [dir EXCEPT ![e.name] = NoFile]
    BY <1>12 DEF Evict
  <2> HIDE DEF left
  <2>3. Trims(r)
    BY <1>1, <1>2, <2>1 DEF Record, Fields, Fit, WithImage, Opened, Went
  <2> QED
    BY <1>5, <2>2, <2>3
<1> QED
  BY <1>7, <1>8, <1>9, <1>10, <1>11, <1>12 DEF TrimStep

\* No other thread of the process stores under a number.
Unused(t, n) == \A u \in Threads \ {t} : Storing(u) /\ ProcessOf[u] = ProcessOf[t] =>
                    n # local[u].store

\* A step that makes or changes no other temporary file than its thread's own.
LEMMA OwnStep ==
    ASSUME IInv, NEW t \in Threads, NEW r, Set(t, r), Record(r), Fit(r), now' = now,
           dir' \in [Names -> Files], stores' \in [Processes -> 0 .. MaxStores],
           \A p \in Processes : stores[p] <= stores'[p],
           r.at \in {"create", "write", "close", "rename"} =>
               r.store \in Nat /\ r.store < stores'[ProcessOf[t]] /\ Unused(t, r.store),
           NEW mine, mine = {} \/ (Storing(t) /\ mine = {Temp(t)}),
           r.at \in {"write", "close", "rename"} => mine = {Temp(t)} /\ Temp(t)' = Temp(t),
           Held(t) => mine = {Temp(t)},
           \A n \in TempNames \ mine : dir'[n] = dir[n],
           \A n \in mine : /\ Writes(t, r, dir'[n])
                           /\ dir'[n] = NoFile \/ (r.at \in {"write", "close", "rename"} /\ dir'[n].maker = t),
           Entries'
    PROVE  IInv'
<1>1. /\ local' = [u \in Threads |-> local'[u]]
      /\ local'[t] = r
      /\ \A u \in Threads \ {t} : local'[u] = local[u]
  BY SetFacts DEF IInv
<1>2. \A u \in Threads \ {t} : /\ Storing(u)' <=> Storing(u)
                               /\ Held(u)' <=> Held(u)
                               /\ Temp(u)' = Temp(u)
  BY <1>1 DEF Storing, Held, At, Temp
<1>3. Storing(t)' <=> r.at \in {"create", "write", "close", "rename"}
  BY <1>1 DEF Storing, Held, At
<1>4. Held(t)' <=> r.at \in {"write", "close", "rename"}
  BY <1>1 DEF Held
<1>5. Typed'
  BY <1>1 DEF IInv, Typed
<1>6. Threaded'
  BY <1>1 DEF IInv, Threaded
<1>7. Numbered'
  <2>1. ASSUME NEW u \in Threads, Storing(u)'
        PROVE  local'[u].store \in Nat /\ local'[u].store < stores'[ProcessOf[u]]
    <3>1. CASE u = t
      BY <1>1, <1>3, <2>1, <3>1
    <3>2. CASE u # t
      <4>1. local[u].store \in Nat /\ local[u].store < stores[ProcessOf[u]]
        BY <1>2, <2>1, <3>2 DEF IInv, Numbered
      <4>2. /\ ProcessOf[u] \in Processes
            /\ stores[ProcessOf[u]] <= stores'[ProcessOf[u]]
            /\ stores[ProcessOf[u]] \in Nat /\ stores'[ProcessOf[u]] \in Nat
        BY FileFacts DEF IInv, Typed
      <4> QED
        BY <1>1, <3>2, <4>1, <4>2
    <3> QED
      BY <3>1, <3>2
  <2>2. ASSUME NEW u \in Threads, NEW v \in Threads, Storing(u)', Storing(v)', u # v,
               ProcessOf[u] = ProcessOf[v]
        PROVE  local'[u].store # local'[v].store
    <3>1. CASE u = t
      BY <1>1, <1>2, <1>3, <2>2, <3>1 DEF Unused
    <3>2. CASE v = t
      BY <1>1, <1>2, <1>3, <2>2, <3>2 DEF Unused
    <3>3. CASE u # t /\ v # t
      BY <1>1, <1>2, <2>2, <3>3 DEF IInv, Numbered
    <3> QED
      BY <3>1, <3>2, <3>3
  <2> QED
    BY <2>1, <2>2 DEF Numbered
<1>8. ASSUME NEW u \in Threads \ {t}, Held(u)
      PROVE  Temp(u) \in TempNames /\ Temp(u) \notin mine
  BY <1>8, TempFacts DEF IInv, Storing
<1>9. Written'
  <2> SUFFICES ASSUME NEW u \in Threads, Held(u)' PROVE Writes(u, local'[u], dir'[Temp(u)'])
    BY DEF Written, Writes, Held
  <2>1. CASE u = t
    BY <1>1, <1>4, <2>1
  <2>2. CASE u # t
    <3>1. dir'[Temp(u)] = dir[Temp(u)]
      BY <1>2, <1>8, <2>2
    <3> QED
      BY <1>1, <1>2, <2>2, <3>1 DEF IInv, Written
  <2> QED
    BY <2>1, <2>2
<1>10. TempsAccounted'
  <2> SUFFICES ASSUME NEW n \in TempNames, dir'[n] # NoFile, dir'[n].maker # NoThread,
                      NEW u, u = dir'[n].maker
               PROVE  n = Temp(u)' /\ Held(u)'
    BY DEF TempsAccounted, Present, Held
  <2>1. CASE n \in mine
    BY <1>4, <2>1
  <2>2. CASE n \notin mine
    <3>1. dir'[n] = dir[n]
      BY <2>2
    <3>2. u \in Threads
      BY <3>1, FileFacts, NameFacts DEF IInv, Typed, Files
    <3>3. n = Temp(u) /\ Held(u)
      BY <3>1 DEF IInv, TempsAccounted, Present, Held
    <3>4. u # t
      BY <2>2, <3>3
    <3> QED
      BY <1>2, <3>2, <3>3, <3>4
  <2> QED
    BY <2>1, <2>2
<1> QED
  BY <1>5, <1>6, <1>7, <1>9, <1>10 DEF IInv

\* A use's time is set under the entry's name.
LEMMA TouchStep == ASSUME IInv, NEW t \in Threads, Touch(t) PROVE IInv'
<1> DEFINE r == Idle("ready")
           mine == {}
<1>1. Set(t, r) /\ Record(r) /\ Fit(r) /\ r.at = "ready" /\ now' = now /\ stores' = stores
  BY IdleFacts DEF Touch
<1>2. ~Held(t) /\ local[t].image \in Digests
  BY DEF Touch, Held, At, IInv, Threaded, Fit, WithImage
<1>3. Entry(t) \in Names /\ Entry(t) \notin TempNames
  BY <1>2, NameFacts DEF Entry
<1>4. dir \in [Names -> Files] /\ now \in Nat /\ stores \in [Processes -> 0 .. MaxStores]
  BY DEF IInv, Typed
<1>5. CASE ~Present(Entry(t))
  <2>1. dir' = dir
    BY <1>5 DEF Touch
  <2> HIDE DEF r
  <2> QED
    BY <1>1, <1>2, <2>1, SameFiles
<1>6. CASE Present(Entry(t))
  <2> DEFINE f == dir[Entry(t)]
             g == [f EXCEPT !.time = now]
  <2>1. f \in Made
    BY <1>3, <1>4, <1>6 DEF Files, Present
  <2>2. g \in Made /\ g.digest = f.digest /\ g.version = f.version /\ g.units = f.units
    BY <1>4, <2>1 DEF Made
  <2>3. Whole(g) <=> Whole(f)
    BY <2>1, <2>2, WholeFacts
  <2> HIDE DEF g
  <2>4. dir' = [dir EXCEPT ![Entry(t)] = g]
    BY <1>6 DEF Touch, g
  <2>5. dir' \in [Names -> Files]
    BY <1>4, <2>2, <2>4 DEF Files
  <2>6. \A n \in TempNames \ mine : dir'[n] = dir[n]
    BY <1>3, <1>4, <2>4, NameFacts
  <2>7. Entries'
    <3> SUFFICES ASSUME NEW d \in Digests, dir'[EntryName(d)] # NoFile
                 PROVE  Whole(dir'[EntryName(d)]) /\ dir'[EntryName(d)].digest = d
      BY DEF Entries, Whole
    <3>1. CASE EntryName(d) = Entry(t)
      BY <1>3, <1>4, <1>6, <2>2, <2>3, <2>4, <3>1 DEF IInv, Entries, Present
    <3>2. CASE EntryName(d) # Entry(t)
      BY <1>4, <2>4, <3>2, NameFacts DEF IInv, Entries
    <3> QED
      BY <3>1, <3>2
  <2>8. \A p \in Processes : stores[p] <= stores'[p]
    BY <1>1, <1>4
  <2>9. mine = {}
    OBVIOUS
  <2> HIDE DEF r, mine
  <2> QED
    BY <1>1, <1>2, <1>4, <2>5, <2>6, <2>7, <2>8, <2>9, OwnStep
<1> QED
  BY <1>5, <1>6

\* A store takes the next number of its process.
LEMMA CountStep == ASSUME IInv, NEW t \in Threads, CountStore(t) PROVE IInv'
<1> DEFINE p == ProcessOf[t]
           r == [local[t] EXCEPT !.at = "create", !.store = stores[p]]
           mine == {}
<1>1. Record(local[t]) /\ Fit(local[t]) /\ local[t].at = "count"
  BY DEF IInv, Typed, Threaded, CountStore, At
<1>2. Record(r) /\ Fit(r) /\ r.at = "create" /\ r.store = stores[p]
  BY <1>1 DEF Record, Fields, Fit, WithImage, Opened, Went
<1>3. Set(t, r) /\ dir' = dir /\ now' = now /\ ~Held(t)
  BY <1>1 DEF CountStore, Held
<1>4. dir \in [Names -> Files] /\ stores \in [Processes -> 0 .. MaxStores] /\ p \in Processes
  BY FileFacts DEF IInv, Typed
<1>5. stores[p] < MaxStores /\ stores' = [stores EXCEPT ![p] = stores[p] + 1]
  BY DEF CountStore
<1>6. stores[p] \in Nat /\ stores[p] + 1 \in 0 .. MaxStores
  BY <1>4, <1>5, CacheAssumption
<1>7. stores' \in [Processes -> 0 .. MaxStores] /\ stores'[p] = stores[p] + 1
  BY <1>4, <1>5, <1>6
<1>8. \A q \in Processes : stores[q] <= stores'[q]
  <2> SUFFICES ASSUME NEW q \in Processes PROVE stores[q] <= stores'[q]
    OBVIOUS
  <2>1. stores[q] \in Nat
    BY <1>4
  <2>2. stores'[q] = stores[q] \/ stores'[q] = stores[q] + 1
    BY <1>4, <1>5
  <2> QED
    BY <2>1, <2>2
<1>9. r.store \in Nat /\ r.store < stores'[p]
  BY <1>2, <1>6, <1>7
<1>10. ASSUME NEW u \in Threads \ {t}, Storing(u), ProcessOf[u] = p PROVE r.store # local[u].store
  <2>1. local[u].store \in Nat /\ local[u].store < stores[p]
    BY <1>10 DEF IInv, Numbered
  <2> QED
    BY <1>2, <1>6, <2>1
<1>11. Entries'
  BY <1>3 DEF IInv, Entries, Whole
<1>12. \A n \in TempNames \ mine : dir'[n] = dir[n]
  BY <1>3
<1>13. mine = {}
  OBVIOUS
<1>14. r.store \in Nat /\ r.store < stores'[ProcessOf[t]] /\ Unused(t, r.store)
  BY <1>9, <1>10 DEF Unused
<1>15. r.at \notin {"write", "close", "rename"} /\ dir' \in [Names -> Files]
  BY <1>2, <1>3, <1>4
<1> HIDE DEF r, mine, p
<1> QED
  BY <1>2, <1>3, <1>7, <1>8, <1>11, <1>12, <1>13, <1>14, <1>15, OwnStep

\* A step of a thread that stores, which changes its own temporary file and its entry.
LEMMA StoreStepKeeps ==
    ASSUME IInv, NEW t \in Threads, Storing(t), NEW r, Set(t, r), Record(r), Fit(r),
           now' = now, stores' = stores, dir' \in [Names -> Files],
           r.at \in {"write", "close", "rename"} =>
               r.image = local[t].image /\ r.store = local[t].store,
           r.at # "create",
           \A n \in TempNames : n # Temp(t) => dir'[n] = dir[n],
           Writes(t, r, dir'[Temp(t)]),
           dir'[Temp(t)] = NoFile \/ (r.at \in {"write", "close", "rename"} /\ dir'[Temp(t)].maker = t),
           Entries'
    PROVE  IInv'
<1> DEFINE mine == {Temp(t)}
<1>1. stores \in [Processes -> 0 .. MaxStores] /\ ProcessOf[t] \in Processes
  BY FileFacts DEF IInv, Typed
<1>2. \A p \in Processes : stores[p] <= stores'[p]
  BY <1>1
<1>3. local'[t] = r
  BY SetFacts DEF IInv
<1>4. r.at \in {"write", "close", "rename"} => Temp(t)' = Temp(t)
  BY <1>3 DEF Temp
<1>5. r.at \in {"create", "write", "close", "rename"} =>
          r.store \in Nat /\ r.store < stores'[ProcessOf[t]] /\ Unused(t, r.store)
  BY DEF IInv, Numbered, Unused
<1>6. \A n \in TempNames \ mine : dir'[n] = dir[n]
  OBVIOUS
<1>7. \A n \in mine : /\ Writes(t, r, dir'[n])
                      /\ dir'[n] = NoFile \/ (r.at \in {"write", "close", "rename"} /\ dir'[n].maker = t)
  OBVIOUS
<1>8. mine = {Temp(t)}
  OBVIOUS
<1> HIDE DEF mine
<1> QED
  BY <1>1, <1>2, <1>4, <1>5, <1>6, <1>7, <1>8, OwnStep

\* A change of one temporary file leaves the entries.
LEMMA TempChanges ==
    ASSUME IInv, NEW n \in TempNames, NEW f \in Files, dir' = [dir EXCEPT ![n] = f]
    PROVE  /\ dir' \in [Names -> Files] /\ dir'[n] = f /\ Entries'
           /\ \A m \in TempNames : m # n => dir'[m] = dir[m]
<1>1. dir \in [Names -> Files]
  BY DEF IInv, Typed
<1>2. n \in Names /\ \A m \in TempNames : m \in Names
  BY NameFacts
<1>3. dir' \in [Names -> Files] /\ dir'[n] = f
  BY <1>1, <1>2
<1>4. \A m \in Names : m # n => dir'[m] = dir[m]
  BY <1>1
<1>5. \A d \in Digests : dir'[EntryName(d)] = dir[EntryName(d)]
  BY <1>4, NameFacts
<1>6. Entries'
  BY <1>5 DEF IInv, Entries, Whole
<1> QED
  BY <1>2, <1>3, <1>4, <1>6

\* A file that is created is the thread's own, under a name that nobody has.
LEMMA CreateStep == ASSUME IInv, NEW t \in Threads, Create(t) PROVE IInv'
<1> DEFINE f == NewFile(t)
           r == [local[t] EXCEPT !.at = "write", !.fd = f]
<1>1. Record(local[t]) /\ Fit(local[t]) /\ local[t].at = "create" /\ Storing(t) /\ ~Held(t)
  BY DEF IInv, Typed, Threaded, Create, At, Storing, Held
<1>2. f \in Made /\ f.maker = t /\ f.digest = local[t].image
  BY <1>1, FileFacts DEF IInv, Typed, NewFile, Made, Fit, WithImage
<1> HIDE DEF f
<1>3. Record(r) /\ Fit(r) /\ r.at = "write" /\ r.fd = f /\ r.image = local[t].image /\ r.store = local[t].store
  BY <1>1, <1>2 DEF Record, Fields, Fit, WithImage, Opened, Went, Files
<1>4. Set(t, r) /\ dir' = [dir EXCEPT ![Temp(t)] = f] /\ now' = now /\ stores' = stores
  BY DEF Create, f
<1>5. Temp(t) \in TempNames
  BY <1>1, TempFacts DEF IInv
<1>6. /\ dir' \in [Names -> Files] /\ dir'[Temp(t)] = f /\ Entries'
      /\ \A n \in TempNames : n # Temp(t) => dir'[n] = dir[n]
  BY <1>2, <1>4, <1>5, TempChanges DEF Files
<1>7. Writes(t, r, f)
  BY <1>2, <1>3 DEF Writes
<1> HIDE DEF r
<1> QED
  BY <1>1, <1>2, <1>3, <1>4, <1>6, <1>7, StoreStepKeeps


LEMMA WriteStep == ASSUME IInv, NEW t \in Threads, Write(t) PROVE IInv'
<1> DEFINE f == [local[t].fd EXCEPT !.units = @ + 1, !.time = now]
           r == [local[t] EXCEPT !.fd = f, !.at = IF Whole(f) THEN "close" ELSE "write"]
<1>1. Record(local[t]) /\ Fit(local[t]) /\ local[t].at = "write" /\ Storing(t)
  BY DEF IInv, Typed, Threaded, Write, At, Storing, Held
<1>2. /\ local[t].fd \in Made /\ local[t].fd.maker = t /\ local[t].fd.digest = local[t].image
      /\ dir[Temp(t)] # NoFile => dir[Temp(t)] = local[t].fd
  BY <1>1 DEF IInv, Written, Writes
<1>3. f \in Made /\ f.maker = t /\ f.digest = local[t].image
  <2>1. ASSUME NEW g \in Made
        PROVE  LET h == [g EXCEPT !.units = @ + 1, !.time = now] IN
               h \in Made /\ h.maker = g.maker /\ h.digest = g.digest
    <3>1. g.units + 1 \in Nat /\ now \in Nat
      BY DEF IInv, Typed, Made
    <3> QED
      BY <3>1 DEF Made
  <2> QED
    BY <1>2, <2>1
<1>4. /\ Set(t, r) /\ now' = now /\ stores' = stores
      /\ dir' = IF dir[Temp(t)] = local[t].fd THEN [dir EXCEPT ![Temp(t)] = f] ELSE dir
  BY DEF Write
<1> HIDE DEF f
<1>5. /\ Record(r) /\ Fit(r) /\ r.at \in {"write", "close"} /\ (r.at = "close" => Whole(f))
      /\ r.fd = f /\ r.image = local[t].image /\ r.store = local[t].store
  BY <1>1, <1>3 DEF Record, Fields, Fit, WithImage, Opened, Went, Files
<1>6. Temp(t) \in TempNames
  BY <1>1, TempFacts DEF IInv
<1>7. Writes(t, r, f) /\ Writes(t, r, NoFile)
  BY <1>3, <1>5 DEF Writes
<1> HIDE DEF r
<1>8. CASE dir[Temp(t)] = local[t].fd
  <2>1. /\ dir' \in [Names -> Files] /\ dir'[Temp(t)] = f /\ Entries'
        /\ \A n \in TempNames : n # Temp(t) => dir'[n] = dir[n]
    BY <1>3, <1>4, <1>6, <1>8, TempChanges DEF Files
  <2> QED
    BY <1>1, <1>3, <1>4, <1>5, <1>7, <2>1, StoreStepKeeps
<1>9. CASE dir[Temp(t)] # local[t].fd
  <2>1. dir' = dir /\ dir'[Temp(t)] = NoFile
    BY <1>2, <1>4, <1>9
  <2>2. dir' \in [Names -> Files] /\ Entries'
    BY <2>1 DEF IInv, Typed, Entries, Whole
  <2> QED
    BY <1>1, <1>4, <1>5, <1>7, <2>1, <2>2, StoreStepKeeps
<1> QED
  BY <1>8, <1>9

LEMMA CloseStep == ASSUME IInv, NEW t \in Threads, Close(t) PROVE IInv'
<1> DEFINE r == [local[t] EXCEPT !.at = "rename", !.fd = NoFile]
<1>1. Record(local[t]) /\ Fit(local[t]) /\ local[t].at = "close" /\ Storing(t)
  BY DEF IInv, Typed, Threaded, Close, At, Storing, Held
<1>2. /\ local[t].fd \in Made /\ local[t].fd.maker = t /\ local[t].fd.digest = local[t].image
      /\ Whole(local[t].fd) /\ (dir[Temp(t)] # NoFile => dir[Temp(t)] = local[t].fd)
  BY <1>1 DEF IInv, Written, Writes
<1>3. /\ Record(r) /\ Fit(r) /\ r.at = "rename" /\ r.image = local[t].image
      /\ r.store = local[t].store
  BY <1>1 DEF Record, Fields, Fit, WithImage, Opened, Went, Files
<1>4. Set(t, r) /\ now' = now /\ stores' = stores /\ dir' = dir
  BY DEF Close
<1>5. Writes(t, r, dir[Temp(t)]) /\ (dir[Temp(t)] = NoFile \/ dir[Temp(t)].maker = t)
  BY <1>2, <1>3 DEF Writes, OfImage
<1>6. dir' \in [Names -> Files] /\ Entries'
  BY <1>4 DEF IInv, Typed, Entries, Whole
<1> HIDE DEF r
<1> QED
  BY <1>1, <1>3, <1>4, <1>5, <1>6, StoreStepKeeps

\* What a rename puts under the entry's name is whole and of the image.
LEMMA RenameStep == ASSUME IInv, NEW t \in Threads, Rename(t) PROVE IInv'
<1> DEFINE f == dir[Temp(t)]
<1>1. local[t].at = "rename" /\ Storing(t) /\ local[t].image \in Digests /\ f # NoFile
  BY DEF Rename, At, Storing, Held, Present, IInv, Threaded, Fit, WithImage
<1>2. Whole(f) /\ f.digest = local[t].image
  BY <1>1 DEF IInv, Written, Writes, OfImage
<1>3. Temp(t) \in TempNames /\ Temp(t) \in Names
  BY <1>1, TempFacts, NameFacts DEF IInv
<1>4. /\ Entry(t) = EntryName(local[t].image) /\ Entry(t) \in Names /\ Entry(t) \notin TempNames
      /\ Entry(t) # Temp(t)
  BY <1>1, <1>3, NameFacts DEF Entry
<1>5. dir \in [Names -> Files] /\ f \in Files /\ NoFile \in Files
  BY <1>3 DEF IInv, Typed, Files
<1> HIDE DEF f
<1>6. dir' = [dir EXCEPT ![Entry(t)] = f, ![Temp(t)] = NoFile] /\ now' = now /\ stores' = stores
  BY DEF Rename, f
<1>7. dir' \in [Names -> Files] /\ dir'[Temp(t)] = NoFile /\ dir'[Entry(t)] = f
  BY <1>3, <1>4, <1>5, <1>6
<1>8. \A n \in Names : n # Temp(t) /\ n # Entry(t) => dir'[n] = dir[n]
  BY <1>5, <1>6
<1>9. \A n \in TempNames : n # Temp(t) => dir'[n] = dir[n]
  BY <1>4, <1>8, NameFacts
<1>10. Entries'
  <2> SUFFICES ASSUME NEW d \in Digests, dir'[EntryName(d)] # NoFile
               PROVE  Whole(dir'[EntryName(d)]) /\ dir'[EntryName(d)].digest = d
    BY DEF Entries, Whole
  <2>1. CASE d = local[t].image
    BY <1>2, <1>4, <1>7, <2>1
  <2>2. CASE d # local[t].image
    <3>1. EntryName(d) # Entry(t) /\ EntryName(d) # Temp(t) /\ EntryName(d) \in Names
      BY <1>1, <1>3, <1>4, <2>2, NameFacts
    <3> QED
      BY <1>8, <3>1 DEF IInv, Entries
  <2> QED
    BY <2>1, <2>2
<1>11. PICK place \in {"ready", "trim"} : Set(t, Idle(place))
  BY DEF Rename, Stored
<1> DEFINE r == Idle(place)
<1>12. Record(r) /\ Fit(r) /\ r.at \in {"ready", "trim"}
  BY IdleFacts
<1>13. Writes(t, r, NoFile)
  BY <1>12 DEF Writes
<1>14. Set(t, r)
  BY <1>11
<1> HIDE DEF r
<1> QED
  BY <1>1, <1>6, <1>7, <1>9, <1>10, <1>12, <1>13, <1>14, StoreStepKeeps

-----------------------------------------------------------------------------
(* The processes *)

\* Threads of one process come and go; the files they made are nobody's then.
LEMMA ProcessStep == ASSUME IInv, NEW p \in Processes, Launch(p) \/ Exit(p) \/ Kill(p) PROVE IInv'
<1>1. PICK place \in {"ready", "stopped"} :
          local' = [t \in Threads |-> IF t \in ThreadsOf(p) THEN Idle(place) ELSE local[t]]
  BY DEF Launch, Exit, Kill
<1>2. \A t \in Threads : ProcessOf[t] = p => local'[t] = Idle(place)
  BY <1>1 DEF ThreadsOf
<1>3. \A t \in Threads : ProcessOf[t] # p => local'[t] = local[t]
  BY <1>1 DEF ThreadsOf
<1>4. \A t \in Threads : local'[t].at \in {"create", "write", "close", "rename"} =>
          ProcessOf[t] # p /\ local'[t] = local[t] /\ Temp(t)' = Temp(t)
  BY <1>2, <1>3, IdleFacts DEF Temp
<1>5. stores' = [stores EXCEPT ![p] = 0] /\ now' = now
  BY DEF Launch, Exit, Kill
<1>6. stores \in [Processes -> 0 .. MaxStores] /\ dir \in [Names -> Files]
  BY DEF IInv, Typed
<1>7. stores' \in [Processes -> 0 .. MaxStores] /\ \A q \in Processes \ {p} : stores'[q] = stores[q]
  BY <1>5, <1>6, CacheAssumption
\* A file stays, but for its maker.
<1> DEFINE Orphan(f) == [f EXCEPT !.maker = NoThread]
<1>8. \A n \in Names :
          \/ /\ dir'[n] = dir[n]
             /\ dir[n].maker \in ThreadsOf(p) => dir[n].maker \in Threads /\ ~Held(dir[n].maker)
          \/ dir[n].maker \in ThreadsOf(p) /\ dir'[n] = Orphan(dir[n])
  <2>1. CASE Launch(p) \/ Exit(p)
    BY <2>1 DEF Launch, Exit, At, Held, ThreadsOf
  <2>2. CASE Kill(p)
    BY <2>2 DEF Kill
  <2> QED
    BY <2>1, <2>2
<1>9. ASSUME NEW f \in Made
      PROVE  /\ Orphan(f) \in Made /\ Orphan(f).digest = f.digest
             /\ Orphan(f).maker = NoThread /\ (Whole(Orphan(f)) <=> Whole(f))
  <2> DEFINE g == Orphan(f)
  <2>1. g \in Made /\ g.digest = f.digest /\ g.version = f.version /\ g.units = f.units
        /\ g.maker = NoThread
    BY DEF Made
  <2> HIDE DEF g
  <2>2. Whole(g) <=> Whole(f)
    BY <2>1, WholeFacts
  <2> QED
    BY <2>1, <2>2 DEF g
<1>10. \A n \in Names : dir[n].maker \in ThreadsOf(p) => dir[n] \in Made
  <2>1. NoFile.maker \notin ThreadsOf(p)
    BY FileFacts DEF NoFile, ThreadsOf
  <2> QED
    BY <1>6, <2>1 DEF Files
<1> HIDE DEF Orphan
<1>11. DOMAIN dir' = Names /\ dir' = [n \in Names |-> dir'[n]]
  BY <1>6 DEF Launch, Exit, Kill
<1>12. dir' \in [Names -> Files]
  <2>1. \A n \in Names : dir'[n] \in Files
    BY <1>6, <1>8, <1>9, <1>10 DEF Files
  <2> QED
    BY <1>11, <2>1
<1>13. Typed'
  <2>1. local' = [t \in Threads |-> local'[t]]
    BY <1>1
  <2>2. \A t \in Threads : Record(local'[t])
    BY <1>2, <1>3, IdleFacts DEF IInv, Typed
  <2> QED
    BY <1>5, <1>7, <1>12, <2>1, <2>2 DEF IInv, Typed
<1>14. Threaded'
  BY <1>2, <1>3, IdleFacts DEF IInv, Threaded
<1>15. Numbered'
  BY <1>4, <1>7, FileFacts DEF IInv, Numbered, Storing, Held, At
<1>16. Written'
  <2> SUFFICES ASSUME NEW t \in Threads, Held(t)' PROVE Writes(t, local'[t], dir'[Temp(t)'])
    BY DEF Written, Writes, Held
  <2>1. ProcessOf[t] # p /\ local'[t] = local[t] /\ Temp(t)' = Temp(t) /\ Storing(t)
    BY <1>4 DEF Storing, Held
  <2>2. Temp(t) \in Names
    BY <2>1, TempFacts, NameFacts DEF IInv
  <2>3. Writes(t, local[t], dir[Temp(t)])
    BY DEF IInv, Written
  <2>4. dir[Temp(t)] # NoFile => dir[Temp(t)].maker = t
    BY <2>1, <2>3 DEF Held, Writes, Storing, At
  <2>5. dir'[Temp(t)] = dir[Temp(t)]
    BY <1>8, <2>1, <2>2, <2>4, FileFacts DEF ThreadsOf, NoFile
  <2> QED
    BY <2>1, <2>3, <2>5
<1>17. Entries'
  <2> SUFFICES ASSUME NEW d \in Digests, dir'[EntryName(d)] # NoFile
               PROVE  Whole(dir'[EntryName(d)]) /\ dir'[EntryName(d)].digest = d
    BY DEF Entries, Whole
  <2>1. EntryName(d) \in Names
    BY NameFacts
  <2>2. CASE dir'[EntryName(d)] = dir[EntryName(d)]
    BY <2>2 DEF IInv, Entries
  <2>3. CASE dir[EntryName(d)].maker \in ThreadsOf(p) /\ dir'[EntryName(d)] = Orphan(dir[EntryName(d)])
    <3>1. dir[EntryName(d)] \in Made /\ dir[EntryName(d)] # NoFile
      BY <1>10, <2>1, <2>3, FileFacts
    <3> QED
      BY <1>9, <2>3, <3>1 DEF IInv, Entries
  <2> QED
    BY <1>8, <2>1, <2>2, <2>3
<1>18. TempsAccounted'
  <2> SUFFICES ASSUME NEW n \in TempNames, dir'[n] # NoFile, dir'[n].maker # NoThread,
                      NEW u, u = dir'[n].maker
               PROVE  n = Temp(u)' /\ Held(u)'
    BY DEF TempsAccounted, Present, Held
  <2>1. n \in Names
    BY NameFacts
  <2>2. dir'[n] = dir[n]
    BY <1>8, <1>9, <1>10, <2>1
  <2>3. u \in Threads /\ n = Temp(u) /\ Held(u)
    BY <1>6, <2>1, <2>2, FileFacts DEF IInv, TempsAccounted, Present, Held, Files
  <2>4. u \notin ThreadsOf(p)
    BY <1>8, <1>9, <1>10, <2>1, <2>2, <2>3
  <2>5. local'[u] = local[u]
    BY <1>3, <2>3, <2>4 DEF ThreadsOf
  <2> QED
    BY <2>3, <2>5 DEF Temp, Held
<1> QED
  BY <1>13, <1>14, <1>15, <1>16, <1>17, <1>18 DEF IInv

\* The clock.
LEMMA TickStep == ASSUME IInv, Tick \/ UNCHANGED vars PROVE IInv'
<1>1. dir' = dir /\ local' = local /\ stores' = stores /\ now' \in Nat
  BY DEF Tick, vars, IInv, Typed
<1> QED
  BY <1>1 DEF IInv, Typed, Threaded, Numbered, Written, Entries, TempsAccounted, Storing, Held, At,
              Temp, Present, Whole

LEMMA Inductive == IInv /\ [Next]_vars => IInv'
<1> SUFFICES ASSUME IInv, [Next]_vars PROVE IInv'
  OBVIOUS
<1>1. ASSUME NEW t \in Threads, LoadStep(t) PROVE IInv'
  BY <1>1, LoadSteps, TouchStep DEF LoadStep
<1>2. ASSUME NEW t \in Threads, StoreStep(t) PROVE IInv'
  BY <1>2, MissSteps, CountStep, CreateStep, WriteStep, CloseStep, RenameStep DEF StoreStep
<1>3. ASSUME NEW t \in Threads, TrimStep(t) PROVE IInv'
  BY <1>3, TrimSteps
<1>4. ASSUME NEW p \in Processes, Launch(p) \/ Exit(p) \/ Kill(p) PROVE IInv'
  BY <1>4, ProcessStep
<1>5. CASE Tick \/ UNCHANGED vars
  BY <1>5, TickStep
<1> QED
  BY <1>1, <1>2, <1>3, <1>4, <1>5 DEF Next

-----------------------------------------------------------------------------

\* A lookup that opens an entry has whole streams of the image it asked for: for any number of
\* processes, threads and images, wherever processes are killed and whatever a Trim takes.
THEOREM WholeOpened == Spec => []OpensWhole
<1>1. IInv => OpensWhole
  BY DEF IInv, Threaded, Fit, Opened, OfImage, OpensWhole, At
<1> QED
  BY Initially, Inductive, <1>1, PTL DEF Spec

\* A temporary file is the one that a living thread writes, or a killed one left: no failed
\* store leaves one, and no thread meets another's (StoreCachedImage, Trim).
THEOREM TempsOwned == Spec => []TempsAccounted
<1>1. IInv => TempsAccounted
  BY DEF IInv
<1> QED
  BY Initially, Inductive, <1>1, PTL DEF Spec

-----------------------------------------------------------------------------
(* The directory as a store of whole streams *)

KeptIn(d, f) == IF f = NoFile THEN NoVersion
                ELSE IF Whole(f) /\ f.digest = d THEN f.version ELSE "torn"
FoundBy(r) == IF r.at = "read" THEN r.fd.version ELSE NoVersion

Kept == [d \in Digests |-> KeptIn(d, dir[EntryName(d)])]
Found == [t \in Threads |-> FoundBy(local[t])]
Got == [t \in Threads |-> local[t].got]

LEMMA MappedInit == Kept = [d \in Digests |-> NoVersion] /\ Found = [t \in Threads |-> NoVersion]
                    /\ Got = [t \in Threads |-> NoVersion] => Store!Init
BY DEF Store!Init, Store!NoVersion, NoVersion, Kept, KeptIn, Found, FoundBy, Got, At

LEMMA MappedKeep == ASSUME NEW d \in Digests, NEW v \in Versions, Kept' = [Kept EXCEPT ![d] = v],
                           Found' = Found, Got' = Got
                    PROVE  Store!Next
<1>1. Store!Keep(d, v)
  BY DEF Store!Keep, Kept, KeptIn, Found, FoundBy, Got, At
<1> QED
  BY <1>1 DEF Store!Next

LEMMA MappedDrop == ASSUME NEW d \in Digests, Kept' = [Kept EXCEPT ![d] = NoVersion],
                           Found' = Found, Got' = Got
                    PROVE  Store!Next
<1>1. Store!Drop(d)
  BY DEF Store!Drop, Store!NoVersion, NoVersion, Kept, KeptIn, Found, FoundBy, Got, At
<1> QED
  BY <1>1 DEF Store!Next

LEMMA MappedLook == ASSUME NEW t \in Threads, NEW d \in Digests, Got[t] = NoVersion,
                           Found' = [Found EXCEPT ![t] = Kept[d]], Kept' = Kept, Got' = Got
                    PROVE  Store!Next
<1>1. Store!Look(t, d)
  BY DEF Store!Look, Store!NoVersion, NoVersion, Kept, KeptIn, Found, FoundBy, Got, At
<1> QED
  BY <1>1 DEF Store!Next

LEMMA MappedHit == ASSUME NEW t \in Threads, Found[t] = Version(t),
                          Got' = [Got EXCEPT ![t] = Found[t]],
                          Found' = [Found EXCEPT ![t] = NoVersion], Kept' = Kept
                   PROVE  Store!Next
<1>1. Store!Hit(t)
  BY DEF Store!Hit, Store!NoVersion, NoVersion, Kept, KeptIn, Found, FoundBy, Got, At
<1> QED
  BY <1>1 DEF Store!Next

LEMMA MappedLeave == ASSUME NEW ts \in SUBSET Threads, Kept' = Kept,
                            Found' = [t \in Threads |-> IF t \in ts THEN NoVersion ELSE Found[t]],
                            Got' = [t \in Threads |-> IF t \in ts THEN NoVersion ELSE Got[t]]
                     PROVE  Store!Next
<1>1. Store!Leave(ts)
  BY DEF Store!Leave, Store!NoVersion, NoVersion, Kept, KeptIn, Found, FoundBy, Got, At
<1> QED
  BY <1>1 DEF Store!Next

LEMMA MappedStutter == Kept' = Kept /\ Found' = Found /\ Got' = Got => UNCHANGED Store!vars
BY DEF Store!vars, Kept, KeptIn, Found, FoundBy, Got, At

\* What a step of one thread does to the lookups.
LEMMA LookupFacts == ASSUME Typed, NEW t \in Threads, NEW r, Set(t, r)
    PROVE  /\ Found' = [Found EXCEPT ![t] = FoundBy(r)]
           /\ Got' = [Got EXCEPT ![t] = r.got]
           /\ Found[t] = FoundBy(local[t]) /\ Got[t] = local[t].got
<1>1. local'[t] = r /\ \A u \in Threads \ {t} : local'[u] = local[u]
  BY SetFacts
<1> QED
  BY <1>1 DEF Found, Got

\* The places of a thread that has no lookup in hand.
Away(place) == place \notin {"read", "touch"}

LEMMA AwayFacts == ASSUME IInv, IInv', NEW t \in Threads, NEW r, Set(t, r), Away(local[t].at), Away(r.at)
                   PROVE  Found' = Found /\ Got' = Got
<1>1. local'[t] = r
  BY SetFacts DEF IInv
<1>2. r.got = NoVersion /\ local[t].got = NoVersion
  BY <1>1 DEF IInv, Threaded, Fit, Went, Away
<1>3. FoundBy(r) = NoVersion /\ FoundBy(local[t]) = NoVersion
  BY DEF FoundBy, Away
<1>4. Found \in [Threads -> {Found[u] : u \in Threads}] /\ Got \in [Threads -> {Got[u] : u \in Threads}]
  BY DEF Found, Got
<1> QED
  BY <1>2, <1>3, <1>4, LookupFacts DEF IInv

\* A file under another name than an entry's changes nothing; an entry that goes is dropped.
LEMMA KeptSame == ASSUME \A d \in Digests : dir'[EntryName(d)] = dir[EntryName(d)] PROVE Kept' = Kept
BY DEF Kept, KeptIn, Whole

LEMMA KeptLess == ASSUME IInv, NEW m, dir' = [dir EXCEPT ![m] = NoFile]
                  PROVE  Kept' = Kept \/ \E d \in Digests : Kept' = [Kept EXCEPT ![d] = NoVersion]
<1>1. dir \in [Names -> Files]
  BY DEF IInv, Typed
<1>2. CASE \E d \in Digests : m = EntryName(d)
  <2>1. PICK d \in Digests : m = EntryName(d)
    BY <1>2
  <2>2. \A e \in Digests : /\ EntryName(e) \in Names
                           /\ e # d => EntryName(e) # m
    BY <2>1, NameFacts
  <2>3. dir'[EntryName(d)] = NoFile /\ \A e \in Digests \ {d} : dir'[EntryName(e)] = dir[EntryName(e)]
    BY <1>1, <2>1, <2>2
  <2>4. Kept' = [e \in Digests |-> KeptIn(e, dir'[EntryName(e)])]
    BY DEF Kept, KeptIn, Whole
  <2>5. KeptIn(d, NoFile) = NoVersion
    BY DEF KeptIn
  <2>6. Kept' = [e \in Digests |-> IF e = d THEN NoVersion ELSE Kept[e]]
    BY <2>3, <2>4, <2>5 DEF Kept
  <2>7. Kept' = [Kept EXCEPT ![d] = NoVersion]
    BY <2>6 DEF Kept
  <2> QED
    BY <2>7
<1>3. CASE \A d \in Digests : m # EntryName(d)
  <2>1. \A d \in Digests : dir'[EntryName(d)] = dir[EntryName(d)]
    BY <1>1, <1>3, NameFacts
  <2> QED
    BY <2>1, KeptSame
<1> QED
  BY <1>2, <1>3

\* The steps without a lookup, but for the rename.
LEMMA AwaySteps ==
    ASSUME IInv, IInv', NEW t \in Threads, NEW r, Set(t, r), Away(local[t].at), Away(r.at),
           \/ dir' = dir
           \/ \E m : dir' = [dir EXCEPT ![m] = NoFile]
           \/ \E m \in TempNames : \E f : dir' = [dir EXCEPT ![m] = f]
    PROVE  Store!Next \/ UNCHANGED Store!vars
<1>1. Found' = Found /\ Got' = Got
  BY AwayFacts
<1>2. ASSUME \A d \in Digests : dir'[EntryName(d)] = dir[EntryName(d)]
      PROVE  UNCHANGED Store!vars
  BY <1>1, <1>2, KeptSame, MappedStutter
<1>3. CASE dir' = dir
  BY <1>2, <1>3
<1>4. ASSUME NEW m, dir' = [dir EXCEPT ![m] = NoFile] PROVE Store!Next \/ UNCHANGED Store!vars
  BY <1>1, <1>4, KeptLess, MappedDrop, MappedStutter
<1>5. ASSUME NEW m \in TempNames, NEW f, dir' = [dir EXCEPT ![m] = f] PROVE UNCHANGED Store!vars
  <2>1. \A d \in Digests : dir'[EntryName(d)] = dir[EntryName(d)]
    BY <1>5, NameFacts DEF IInv, Typed
  <2> QED
    BY <1>2, <2>1
<1> QED
  BY <1>3, <1>4, <1>5

\* A miss, or the end of a use.
LEMMA LeaveOne == ASSUME IInv, NEW t \in Threads, NEW r, Set(t, r), FoundBy(r) = NoVersion,
                         r.got = NoVersion, Kept' = Kept
                  PROVE  Store!Next
<1>1. /\ Found' = [Found EXCEPT ![t] = NoVersion]
      /\ Got' = [Got EXCEPT ![t] = NoVersion]
  BY LookupFacts DEF IInv
<1> DEFINE ts == {t}
<1>2. /\ Found' = [u \in Threads |-> IF u \in ts THEN NoVersion ELSE Found[u]]
      /\ Got' = [u \in Threads |-> IF u \in ts THEN NoVersion ELSE Got[u]]
  BY <1>1 DEF Found, Got
<1>3. ts \in SUBSET Threads
  OBVIOUS
<1> HIDE DEF ts
<1> QED
  BY <1>2, <1>3, MappedLeave

\* An entry whose time or maker changes is what it was.
LEMMA KeptMeta ==
    ASSUME \A d \in Digests : LET f == dir[EntryName(d)]
                                  g == dir'[EntryName(d)] IN
               g = f \/ (f \in Made /\ g \in Made /\ g.digest = f.digest /\ g.version = f.version
                         /\ g.units = f.units)
    PROVE  Kept' = Kept
<1>1. Kept' = [d \in Digests |-> KeptIn(d, dir'[EntryName(d)])]
  BY DEF Kept, KeptIn, Whole
<1>2. ASSUME NEW f \in Made, NEW g \in Made, NEW d,
             g.digest = f.digest, g.version = f.version, g.units = f.units
      PROVE  KeptIn(d, g) = KeptIn(d, f)
  BY <1>2, WholeFacts, FileFacts DEF KeptIn
<1>3. \A d \in Digests : KeptIn(d, dir'[EntryName(d)]) = KeptIn(d, dir[EntryName(d)])
  BY <1>2
<1> QED
  BY <1>1, <1>3 DEF Kept

LEMMA TouchKeeps == ASSUME IInv, NEW t \in Threads, Touch(t) PROVE Kept' = Kept
<1>1. dir \in [Names -> Files] /\ now \in Nat
  BY DEF IInv, Typed
<1>2. ASSUME NEW f \in Made
      PROVE  LET g == [f EXCEPT !.time = now] IN
             g \in Made /\ g.digest = f.digest /\ g.version = f.version /\ g.units = f.units
  BY <1>1 DEF Made
<1>3. CASE ~Present(Entry(t))
  BY <1>3, KeptMeta DEF Touch
<1>4. CASE Present(Entry(t))
  <2> DEFINE g == [dir[Entry(t)] EXCEPT !.time = now]
  <2>1. dir' = [dir EXCEPT ![Entry(t)] = g]
    BY <1>4 DEF Touch
  <2>2. Entry(t) \in Names
    BY NameFacts DEF Touch, At, IInv, Threaded, Fit, WithImage, Entry
  <2>3. dir[Entry(t)] \in Made
    BY <1>1, <1>4, <2>2 DEF Present, Files
  <2>4. g \in Made /\ g.digest = dir[Entry(t)].digest /\ g.version = dir[Entry(t)].version
        /\ g.units = dir[Entry(t)].units
    BY <1>2, <2>3
  <2> HIDE DEF g
  <2>5. \A n \in Names : dir'[n] = IF n = Entry(t) THEN g ELSE dir[n]
    BY <1>1, <2>1, <2>2
  <2> QED
    BY <2>3, <2>4, <2>5, NameFacts, KeptMeta
<1> QED
  BY <1>3, <1>4

LEMMA LookupSteps == ASSUME IInv, NEW t \in Threads, OpenEntry(t) \/ Read(t) \/ Touch(t)
                     PROVE  Store!Next
<1>1. Record(local[t]) /\ Fit(local[t])
  BY DEF IInv, Typed, Threaded
<1>2. CASE OpenEntry(t)
  <2> DEFINE f == dir[Entry(t)]
             d == local[t].image
             r == [local[t] EXCEPT !.at = IF Present(Entry(t)) THEN "read" ELSE "count", !.fd = f]
  <2>1. local[t].at = "open" /\ d \in Digests /\ local[t].got = NoVersion
    BY <1>1, <1>2 DEF OpenEntry, At, Fit, WithImage, Went
  <2>2. Entry(t) = EntryName(d)
    BY DEF Entry
  <2>3. f # NoFile => Whole(f) /\ f.digest = d
    BY <2>1, <2>2 DEF IInv, Entries
  <2>4. Kept[d] = KeptIn(d, f)
    BY <2>1, <2>2 DEF Kept
  <2>5. r.got = NoVersion /\ FoundBy(r) = Kept[d]
    <3> HIDE DEF f
    <3>1. r.got = NoVersion /\ r.fd = f /\ r.at = IF f # NoFile THEN "read" ELSE "count"
      BY <1>1, <2>1 DEF Record, Fields, Present, f
    <3> HIDE DEF r
    <3>2. CASE f = NoFile
      BY <2>4, <3>1, <3>2 DEF FoundBy, KeptIn
    <3>3. CASE f # NoFile
      BY <2>3, <2>4, <3>1, <3>3 DEF FoundBy, KeptIn
    <3> QED
      BY <3>1, <3>2, <3>3
  <2>6. Set(t, r) /\ dir' = dir
    BY <1>2 DEF OpenEntry
  <2> HIDE DEF r
  <2>7. /\ Found' = [Found EXCEPT ![t] = Kept[d]] /\ Got' = [Got EXCEPT ![t] = NoVersion]
        /\ Got[t] = NoVersion
    BY <2>1, <2>5, <2>6, LookupFacts DEF IInv
  <2>8. Got' = Got
    BY <2>7 DEF Got
  <2>9. Kept' = Kept
    BY <2>6, KeptSame
  <2> HIDE DEF d
  <2> QED
    BY <2>1, <2>7, <2>8, <2>9, MappedLook
<1>3. CASE Read(t)
  <2>1. local[t].at = "read" /\ local[t].got = NoVersion /\ dir' = dir
    BY <1>1, <1>3 DEF Read, At, Fit, Went
  <2>2. Kept' = Kept
    BY <2>1, KeptSame
  <2>3. ASSUME Sound(t), Set(t, [local[t] EXCEPT !.at = "touch", !.fd = NoFile, !.got = local[t].fd.version])
        PROVE  Store!Next
    <3> DEFINE r == [local[t] EXCEPT !.at = "touch", !.fd = NoFile, !.got = local[t].fd.version]
    <3>1. r.at = "touch" /\ r.got = local[t].fd.version
      BY <1>1 DEF Record, Fields
    <3>2. Set(t, r)
      BY <2>3
    <3> HIDE DEF r
    <3>3. FoundBy(r) = NoVersion /\ FoundBy(local[t]) = local[t].fd.version
      BY <2>1, <3>1 DEF FoundBy
    <3>4. local[t].fd.version = Version(t)
      BY <2>3 DEF Sound
    <3>5. /\ Found' = [Found EXCEPT ![t] = NoVersion] /\ Got' = [Got EXCEPT ![t] = Found[t]]
          /\ Found[t] = Version(t)
      BY <3>1, <3>2, <3>3, <3>4, LookupFacts DEF IInv
    <3> QED
      BY <2>2, <3>5, MappedHit
  <2>4. ASSUME Set(t, [local[t] EXCEPT !.at = "count", !.fd = NoFile]) PROVE Store!Next
    <3> DEFINE r == [local[t] EXCEPT !.at = "count", !.fd = NoFile]
    <3>1. r.at = "count" /\ r.got = NoVersion
      BY <1>1, <2>1 DEF Record, Fields
    <3>2. Set(t, r)
      BY <2>4
    <3> HIDE DEF r
    <3>3. FoundBy(r) = NoVersion
      BY <3>1 DEF FoundBy
    <3> QED
      BY <2>2, <3>1, <3>2, <3>3, LeaveOne
  <2> QED
    BY <1>3, <2>3, <2>4 DEF Read
<1>4. CASE Touch(t)
  <2> DEFINE r == Idle("ready")
  <2>1. Set(t, r) /\ r.got = NoVersion /\ r.at = "ready"
    BY <1>4, IdleFacts DEF Touch
  <2>2. FoundBy(r) = NoVersion
    BY <2>1 DEF FoundBy
  <2> HIDE DEF r
  <2>3. Kept' = Kept
    BY <1>4, TouchKeeps
  <2> QED
    BY <2>1, <2>2, <2>3, LeaveOne
<1> QED
  BY <1>2, <1>3, <1>4

LEMMA TrimAway == ASSUME IInv, IInv', NEW t \in Threads, TrimStep(t)
                  PROVE  Store!Next \/ UNCHANGED Store!vars
<1>1. Record(local[t]) /\ local = [u \in Threads |-> local[u]]
  BY DEF IInv, Typed
<1>2. Away(local[t].at)
  BY DEF TrimStep, TrimBegin, RemoveOld, Listed, TrimEnd, StatEntry, StatTemp, Evict, Evicting, At, Away
<1>3. Idle("ready").at = "ready" /\ Away("ready")
  BY IdleFacts DEF Away
<1>4. Set(t, local'[t]) /\ Away(local'[t].at)
  <2>1. CASE TrimBegin(t)
    BY <1>1, <2>1 DEF TrimBegin, Set, Record, Fields, Away
  <2>2. CASE RemoveOld(t)
    BY <1>1, <2>2 DEF RemoveOld, Set, Record, Fields, Away
  <2>3. CASE Listed(t) \/ TrimEnd(t)
    <3>1. Set(t, Idle("ready")) \/ Set(t, [local[t] EXCEPT !.at = "evict"])
      BY <2>3 DEF Listed, TrimEnd, Goto, Set
    <3> QED
      BY <1>1, <1>3, <3>1 DEF Set, Record, Fields, Away
  <2>4. ASSUME NEW n, StatEntry(t, n) PROVE Set(t, local'[t]) /\ Away(local'[t].at)
    BY <1>1, <1>2, <2>4 DEF StatEntry, Set, Record, Fields, Away
  <2>5. ASSUME NEW n, StatTemp(t, n) PROVE Set(t, local'[t]) /\ Away(local'[t].at)
    BY <1>1, <1>2, <2>5 DEF StatTemp, Set, Record, Fields, Away
  <2>6. ASSUME NEW e, Evict(t, e) PROVE Set(t, local'[t]) /\ Away(local'[t].at)
    BY <1>1, <1>2, <2>6 DEF Evict, Set, Record, Fields, Away
  <2> QED
    BY <2>1, <2>2, <2>3, <2>4, <2>5, <2>6 DEF TrimStep
<1>5. dir' = dir \/ \E m : dir' = [dir EXCEPT ![m] = NoFile]
  BY DEF TrimStep, TrimBegin, RemoveOld, Listed, TrimEnd, StatEntry, StatTemp, Evict
<1> QED
  BY <1>2, <1>4, <1>5, AwaySteps

LEMMA StoreAway == ASSUME IInv, IInv', NEW t \in Threads,
                          \/ \E d \in Digests : Load(t, d)
                          \/ NotStored(t) \/ CountStore(t) \/ Create(t) \/ CreateFails(t) \/ Write(t)
                          \/ Close(t) \/ WriteFails(t) \/ RenameFails(t)
                   PROVE  Store!Next \/ UNCHANGED Store!vars
<1>1. Record(local[t]) /\ local = [u \in Threads |-> local[u]]
  BY DEF IInv, Typed
<1>2. Away(local[t].at)
  BY DEF Load, NotStored, CountStore, Create, CreateFails, Write, Close, WriteFails, RenameFails, At, Away
<1>3. \A place \in {"ready", "trim"} : Away(Idle(place).at)
  BY IdleFacts DEF Away
<1>4. Set(t, local'[t]) /\ Away(local'[t].at)
  <2>1. CASE NotStored(t) \/ CreateFails(t) \/ WriteFails(t) \/ RenameFails(t)
    <3>1. \E place \in {"ready", "trim"} : Set(t, Idle(place))
      BY <2>1 DEF NotStored, CreateFails, WriteFails, RenameFails, Stored
    <3> QED
      BY <1>1, <1>3, <3>1 DEF Set
  <2>2. ASSUME NEW d \in Digests, Load(t, d) PROVE Set(t, local'[t]) /\ Away(local'[t].at)
    BY <1>1, <2>2 DEF Load, Set, Record, Fields, Away
  <2>3. CASE CountStore(t)
    BY <1>1, <2>3 DEF CountStore, Set, Record, Fields, Away
  <2>4. CASE Create(t)
    BY <1>1, <2>4 DEF Create, Set, Record, Fields, Away
  <2>5. CASE Write(t)
    BY <1>1, <2>5 DEF Write, Set, Record, Fields, Away
  <2>6. CASE Close(t)
    BY <1>1, <2>6 DEF Close, Set, Record, Fields, Away
  <2> QED
    BY <2>1, <2>2, <2>3, <2>4, <2>5, <2>6
<1>5. CASE (\E d \in Digests : Load(t, d)) \/ NotStored(t) \/ CountStore(t) \/ Close(t)
  <2>1. dir' = dir
    BY <1>5 DEF Load, NotStored, CountStore, Close
  <2> QED
    BY <1>2, <1>4, <2>1, AwaySteps
<1>6. CASE CreateFails(t) \/ WriteFails(t) \/ RenameFails(t)
  <2>1. \E m : dir' = [dir EXCEPT ![m] = NoFile]
    BY <1>6 DEF CreateFails, WriteFails, RenameFails
  <2> QED
    BY <1>2, <1>4, <2>1, AwaySteps
<1>7. CASE Create(t) \/ Write(t)
  <2>1. Temp(t) \in TempNames
    BY <1>7, TempFacts DEF IInv, Create, Write, At, Storing, Held
  <2>2. dir' = dir \/ \E f : dir' = [dir EXCEPT ![Temp(t)] = f]
    BY <1>7 DEF Create, Write
  <2> QED
    BY <1>2, <1>4, <2>1, <2>2, AwaySteps
<1> QED
  BY <1>5, <1>6, <1>7

\* A rename keeps the streams of the version that made them.
LEMMA RenameKeeps == ASSUME IInv, IInv', NEW t \in Threads, Rename(t) PROVE Store!Next
<1> DEFINE f == dir[Temp(t)]
           d == local[t].image
<1>1. local[t].at = "rename" /\ Storing(t) /\ d \in Digests /\ f # NoFile
  BY DEF Rename, At, Storing, Held, Present, IInv, Threaded, Fit, WithImage
<1>2. Whole(f) /\ f.digest = d
  BY <1>1 DEF IInv, Written, Writes, OfImage
<1>3. Temp(t) \in TempNames /\ Temp(t) \in Names
  BY <1>1, TempFacts, NameFacts DEF IInv
<1>4. f \in Made /\ f.version \in Versions
  BY <1>1, <1>3 DEF IInv, Typed, Files, Made
<1>5. dir \in [Names -> Files] /\ EntryName(d) # Temp(t) /\ EntryName(d) \in Names
  BY <1>1, <1>3, NameFacts DEF IInv, Typed
<1>6. dir' = [dir EXCEPT ![EntryName(d)] = f, ![Temp(t)] = NoFile]
  BY DEF Rename, Entry
<1>7. PICK place \in {"ready", "trim"} : Set(t, Idle(place))
  BY DEF Rename, Stored
<1>8. Found' = Found /\ Got' = Got
  BY <1>1, <1>7, IdleFacts, AwayFacts DEF Away
<1> HIDE DEF f, d
<1>9. dir'[EntryName(d)] = f /\ \A e \in Digests \ {d} : dir'[EntryName(e)] = dir[EntryName(e)]
  <2>1. \A e \in Digests \ {d} : /\ EntryName(e) \in Names
                                 /\ EntryName(e) # EntryName(d) /\ EntryName(e) # Temp(t)
    BY <1>1, <1>3, NameFacts
  <2> QED
    BY <1>3, <1>5, <1>6, <2>1
<1>10. KeptIn(d, f) = f.version
  BY <1>1, <1>2 DEF KeptIn
<1>11. Kept' = [e \in Digests |-> KeptIn(e, dir'[EntryName(e)])]
  BY DEF Kept, KeptIn, Whole
<1>12. Kept' = [e \in Digests |-> IF e = d THEN f.version ELSE Kept[e]]
  BY <1>9, <1>10, <1>11 DEF Kept
<1>13. Kept' = [Kept EXCEPT ![d] = f.version]
  BY <1>12 DEF Kept
<1> QED
  BY <1>1, <1>4, <1>8, <1>13, MappedKeep

\* Processes that come and go leave the entries, and end their lookups.
LEMMA ProcessKeeps == ASSUME IInv, IInv', NEW p \in Processes, Launch(p) \/ Exit(p) \/ Kill(p)
                      PROVE  Store!Next
<1> DEFINE ts == ThreadsOf(p)
<1>1. PICK place \in {"ready", "stopped"} :
          local' = [t \in Threads |-> IF t \in ThreadsOf(p) THEN Idle(place) ELSE local[t]]
  BY DEF Launch, Exit, Kill
<1>2. Idle(place).got = NoVersion /\ FoundBy(Idle(place)) = NoVersion
  BY IdleFacts DEF FoundBy
<1>3. /\ Found' = [t \in Threads |-> IF t \in ts THEN NoVersion ELSE Found[t]]
      /\ Got' = [t \in Threads |-> IF t \in ts THEN NoVersion ELSE Got[t]]
  <2>1. \A t \in Threads : local'[t] = IF t \in ts THEN Idle(place) ELSE local[t]
    BY <1>1
  <2> HIDE DEF ts
  <2> QED
    BY <1>2, <2>1 DEF Found, Got
<1>4. ts \in SUBSET Threads
  BY DEF ThreadsOf
<1>5. Kept' = Kept
  <2>1. CASE Launch(p) \/ Exit(p)
    <3>1. dir' = dir
      BY <2>1 DEF Launch, Exit
    <3> QED
      BY <3>1, KeptSame
  <2>2. CASE Kill(p)
    <3>1. ASSUME NEW n \in Names
          PROVE  dir'[n] = dir[n] \/ (/\ dir[n] \in Made /\ dir'[n] \in Made
                                      /\ dir'[n].digest = dir[n].digest
                                      /\ dir'[n].version = dir[n].version
                                      /\ dir'[n].units = dir[n].units)
      <4>1. dir[n] \in Files
        BY DEF IInv, Typed
      <4>2. CASE dir[n].maker \notin ts
        BY <2>2, <4>2 DEF Kill
      <4>3. CASE dir[n].maker \in ts
        <5>1. dir[n] \in Made
          BY <4>1, <4>3, FileFacts DEF Files, NoFile, ThreadsOf
        <5>2. dir'[n] = [dir[n] EXCEPT !.maker = NoThread]
          BY <2>2, <4>3 DEF Kill
        <5> QED
          BY <5>1, <5>2 DEF Made
      <4> QED
        BY <4>2, <4>3
    <3> QED
      BY <3>1, NameFacts, KeptMeta
  <2> QED
    BY <2>1, <2>2
<1> HIDE DEF ts
<1> QED
  BY <1>3, <1>4, <1>5, MappedLeave

\* The cache promises what image_cache.h says: per image it keeps the streams of one program
\* version, or none, each change is made as a whole, and a lookup hits only streams of the
\* asker's version.
THEOREM DirectoryIsStore == Spec => IsAStore
<1>1. Init => Store!Init
  <2> SUFFICES ASSUME Init PROVE Store!Init
    OBVIOUS
  <2>1. \A d \in Digests : KeptIn(d, dir[EntryName(d)]) = NoVersion
    BY NameFacts DEF Init, KeptIn
  <2>2. \A t \in Threads : FoundBy(local[t]) = NoVersion /\ local[t].got = NoVersion
    BY IdleFacts DEF Init, FoundBy
  <2> QED
    BY <2>1, <2>2, MappedInit DEF Kept, Found, Got
<1>2. IInv /\ IInv' /\ [Next]_vars => [Store!Next]_Store!vars
  <2> SUFFICES ASSUME IInv, IInv', [Next]_vars PROVE Store!Next \/ UNCHANGED Store!vars
    OBVIOUS
  <2>1. ASSUME NEW t \in Threads, LoadStep(t) \/ StoreStep(t) \/ TrimStep(t)
        PROVE  Store!Next \/ UNCHANGED Store!vars
    BY <2>1, LookupSteps, StoreAway, TrimAway, RenameKeeps DEF LoadStep, StoreStep
  <2>2. ASSUME NEW p \in Processes, Launch(p) \/ Exit(p) \/ Kill(p) PROVE Store!Next
    BY <2>2, ProcessKeeps
  <2>3. CASE Tick \/ UNCHANGED vars
    <3>1. dir' = dir /\ local' = local
      BY <2>3 DEF Tick, vars
    <3>2. Kept' = Kept /\ Found' = Found /\ Got' = Got
      BY <3>1, KeptSame DEF Found, FoundBy, Got
    <3> QED
      BY <3>2, MappedStutter
  <2> QED
    BY <2>1, <2>2, <2>3 DEF Next
<1> QED
  BY Initially, Inductive, <1>1, <1>2, PTL DEF Spec, IsAStore, Store!Spec

-----------------------------------------------------------------------------

(* The limit of the directory *)

\* What the entries hold, and those that were there before the last trim began.
Sizes(listed) == [e \in listed |-> e.size]
UnitsAt == [d \in Digests |-> dir[EntryName(d)].units]
Old == {d \in Digests \ fresh : Present(EntryName(d))}

TrimPlaces == {"list", "remove old", "evict"}

\* What a trim counted is no less than what it listed.
Tally(r) ==
    /\ IsFiniteSet(r.listed) /\ (\A e \in r.listed : e.size \in Nat) /\ r.total \in Int
    /\ Total(Sizes(r.listed), r.listed) <= r.total
    /\ r.at \notin TrimPlaces => r.listed = {} /\ r.total = 0

Tallied == \A t \in Threads : Tally(local[t])

\* A trim has the entries ds before it, or has listed them with their sizes.
Sees(r, ds, units) ==
    \A d \in ds : \/ r.at # "evict" /\ EntryName(d) \in r.unlisted
                  \/ \E e \in r.listed : e.name = EntryName(d) /\ e.size = units[d]

\* The old entries are within the limit, or the trim that began last goes on and sees them all.
Tended ==
    \/ cut
    \/ Total(UnitsAt, Old) <= DirectoryLimit
    \/ \E t \in Threads : Trimming(t) /\ Sees(local[t], Old, UnitsAt)

BInv == IInv /\ Tallied /\ Tended

LEMMA OldFacts ==
    ASSUME IInv
    PROVE  /\ IsFiniteSet(Old) /\ Old \in SUBSET Digests
           /\ \A d \in Digests : UnitsAt[d] \in Nat
<1>1. IsFiniteSet(Digests)
  BY CacheAssumption
<1>2. Old \in SUBSET Digests
  BY DEF Old
<1>3. ASSUME NEW d \in Digests PROVE UnitsAt[d] \in Nat
  <2>1. EntryName(d) \in Names
    BY NameFacts
  <2>2. dir[EntryName(d)] \in Files
    BY <2>1 DEF IInv, Typed
  <2>3. \A f \in Files : f.units \in Nat
    BY DEF Files, Made, NoFile
  <2> QED
    BY <2>2, <2>3 DEF UnitsAt
<1> QED
  BY <1>1, <1>2, <1>3, FS_Subset

\* A step that adds no old entry and changes none.
Fewer ==
    /\ Old' \subseteq Old
    /\ \A d \in Old' : UnitsAt'[d] = UnitsAt[d]

LEMMA FewerLess ==
    ASSUME IInv, Fewer
    PROVE  /\ Total(UnitsAt', Old') \in Int /\ Total(UnitsAt, Old) \in Int
           /\ Total(UnitsAt', Old') <= Total(UnitsAt, Old)
<1>1. IsFiniteSet(Old) /\ Old' \in SUBSET Old /\ \A d \in Old : UnitsAt[d] \in Nat
  BY OldFacts DEF Fewer
<1>2. IsFiniteSet(Old')
  BY <1>1, FS_Subset
<1>3. Total(UnitsAt', Old') = Total(UnitsAt, Old')
  BY <1>2, TotalSame DEF Fewer
<1>4. Total(UnitsAt, Old') <= Total(UnitsAt, Old)
  BY <1>1, TotalOfSome
<1>5. Total(UnitsAt, Old') \in Int /\ Total(UnitsAt, Old) \in Int
  BY <1>1, <1>2, TotalType
<1> QED
  BY <1>3, <1>4, <1>5

LEMMA FewerFiles ==
    ASSUME IInv, fresh \subseteq fresh',
           \A d \in Digests \ fresh' :
               \/ dir'[EntryName(d)] = NoFile
               \/ Present(EntryName(d)) /\ dir'[EntryName(d)].units = dir[EntryName(d)].units
    PROVE  Fewer
<1>1. Old' = {d \in Digests \ fresh' : dir'[EntryName(d)] # NoFile}
  BY DEF Old, Present, EntryName
<1>2. \A d \in Digests : UnitsAt'[d] = dir'[EntryName(d)].units /\ UnitsAt[d] = dir[EntryName(d)].units
  BY DEF UnitsAt, EntryName
<1>3. Old' \subseteq Old
  BY <1>1 DEF Old, Present
<1> QED
  BY <1>1, <1>2, <1>3 DEF Fewer

LEMMA SameEntries ==
    ASSUME IInv, fresh' = fresh, \A n \in EntryNames : dir'[n] = dir[n] \/ dir'[n] = NoFile
    PROVE  Fewer
<1>1. \A d \in Digests : dir'[EntryName(d)] = dir[EntryName(d)] \/ dir'[EntryName(d)] = NoFile
  BY NameFacts
<1> QED
  BY <1>1, FewerFiles DEF Present

\* Less to see, and a trim that sees it all the same.
LEMMA TendedKept ==
    ASSUME IInv, IInv', Tended, Fewer, cut => cut',
           \A t \in Threads : Trimming(t) /\ Sees(local[t], Old, UnitsAt) =>
               \/ cut' \/ Total(UnitsAt', Old') <= DirectoryLimit
               \/ Trimming(t)' /\ Sees(local'[t], Old', UnitsAt')
    PROVE  Tended'
<1>1. CASE cut
  BY <1>1 DEF Tended
<1>2. CASE Total(UnitsAt, Old) <= DirectoryLimit
  <2>1. Total(UnitsAt', Old') <= DirectoryLimit
    BY <1>2, FewerLess, CacheAssumption
  <2> QED
    BY <2>1 DEF Tended
<1>3. ASSUME NEW t \in Threads, Trimming(t) /\ Sees(local[t], Old, UnitsAt) PROVE Tended'
  BY <1>3 DEF Tended
<1> QED
  BY <1>1, <1>2, <1>3 DEF Tended

LEMMA SeesFewer ==
    ASSUME Fewer, NEW r, Sees(r, Old, UnitsAt)
    PROVE  Sees(r, Old', UnitsAt')
BY DEF Fewer, Sees

\* A step of a thread that does not trim.
LEMMA QuietTended ==
    ASSUME IInv, IInv', Tended, Fewer, NEW t \in Threads, NEW r, Set(t, r), cut' = cut, ~Trimming(t)
    PROVE  Tended'
<1>1. \A u \in Threads \ {t} : local'[u] = local[u]
  BY SetFacts DEF IInv
<1>2. \A u \in Threads : Trimming(u) => u # t /\ local'[u] = local[u] /\ Trimming(u)'
  BY <1>1 DEF Trimming
<1> QED
  BY <1>2, SeesFewer, TendedKept

LEMMA TallyEmpty ==
    ASSUME NEW r, r.listed = {}, r.total = 0
    PROVE  Tally(r)
BY TotalEmpty, FS_EmptySet DEF Tally

LEMMA TallyStep ==
    ASSUME IInv, Tallied, NEW t \in Threads, NEW r, Set(t, r), Tally(r)
    PROVE  Tallied'
<1>1. local'[t] = r /\ \A u \in Threads \ {t} : local'[u] = local[u]
  BY SetFacts DEF IInv
<1>2. ASSUME NEW u \in Threads PROVE Tally(local'[u])
  <2>1. CASE u = t
    BY <1>1, <2>1
  <2>2. CASE u # t
    BY <1>1, <2>2 DEF Tallied
  <2> QED
    BY <2>1, <2>2
<1> QED
  BY <1>2 DEF Tallied, Tally

LEMMA IdleTally ==
    ASSUME NEW place
    PROVE  Tally(Idle(place))
<1>1. Idle(place).listed = {} /\ Idle(place).total = 0
  BY DEF Idle
<1> QED
  BY <1>1, TallyEmpty

\* A trim that has nothing left to list counted all it sees.
LEMMA SeenTotal ==
    ASSUME IInv, NEW r, Tally(r), Sees(r, Old, UnitsAt), r.at = "evict" \/ r.unlisted = {}
    PROVE  /\ Total(UnitsAt, Old) \in Int /\ Total(UnitsAt, Old) <= r.total
           /\ r.listed = {} => Total(UnitsAt, Old) <= 0
<1> DEFINE L == r.listed
           sizes == Sizes(L)
           f == [d \in Old |-> CHOOSE e \in L : e.name = EntryName(d) /\ e.size = UnitsAt[d]]
<1>1. \A d \in Old : \E e \in L : e.name = EntryName(d) /\ e.size = UnitsAt[d]
  BY DEF Sees
<1>2. \A d \in Old : f[d] \in L /\ f[d].name = EntryName(d) /\ f[d].size = UnitsAt[d]
  BY <1>1
<1>3. \A d, e \in Old : f[d] = f[e] => d = e
  BY <1>2, OldFacts, NameFacts
<1>4. IsFiniteSet(L) /\ (\A e \in L : sizes[e] \in Nat /\ sizes[e] = e.size) /\ r.total \in Int
      /\ Total(sizes, L) <= r.total
  BY DEF Tally, Sizes
<1>5. IsFiniteSet(Old) /\ \A d \in Old : UnitsAt[d] \in Int
  BY OldFacts
<1> HIDE DEF f, sizes, L
<1>6. Total(UnitsAt, Old) <= Total(sizes, L)
  BY <1>2, <1>3, <1>4, <1>5, TotalMapped
<1>7. Total(UnitsAt, Old) \in Int /\ Total(sizes, L) \in Int
  BY <1>4, <1>5, TotalType
<1>8. L = {} => Total(sizes, L) = 0
  BY TotalEmpty
<1> QED
  BY <1>4, <1>6, <1>7, <1>8 DEF L

LEMMA LoadBounded ==
    ASSUME BInv, IInv', NEW t \in Threads, LoadStep(t)
    PROVE  Tallied' /\ Tended'
<1>1. /\ local[t].at \notin TrimPlaces /\ Record(local[t])
      /\ local[t].listed = {} /\ local[t].total = 0
  BY DEF BInv, IInv, Typed, Tallied, Tally, LoadStep, Load, OpenEntry, Read, Touch, At, TrimPlaces
<1>2. \E r : Set(t, r) /\ Tally(r)
  <2>1. ASSUME NEW d \in Digests, Load(t, d) PROVE \E r : Set(t, r) /\ Tally(r)
    <3> DEFINE r == [local[t] EXCEPT !.at = "open", !.image = d]
    <3>1. r.listed = {} /\ r.total = 0
      BY <1>1 DEF Record, Fields
    <3>2. Set(t, r)
      BY <2>1 DEF Load
    <3> HIDE DEF r
    <3> QED
      BY <3>1, <3>2, TallyEmpty
  <2>2. CASE OpenEntry(t)
    <3> DEFINE r == [local[t] EXCEPT !.at = IF Present(Entry(t)) THEN "read" ELSE "count", !.fd = dir[Entry(t)]]
    <3>1. r.listed = {} /\ r.total = 0
      BY <1>1 DEF Record, Fields
    <3>2. Set(t, r)
      BY <2>2 DEF OpenEntry
    <3> HIDE DEF r
    <3> QED
      BY <3>1, <3>2, TallyEmpty
  <2>3. CASE Read(t)
    <3> DEFINE q == [local[t] EXCEPT !.at = "touch", !.fd = NoFile, !.got = local[t].fd.version]
               r == [local[t] EXCEPT !.at = "count", !.fd = NoFile]
    <3>1. r.listed = {} /\ r.total = 0 /\ q.listed = {} /\ q.total = 0
      BY <1>1 DEF Record, Fields
    <3>2. Set(t, q) \/ Set(t, r)
      BY <2>3 DEF Read
    <3> HIDE DEF q, r
    <3> QED
      BY <3>1, <3>2, TallyEmpty
  <2>4. CASE Touch(t)
    BY <2>4, IdleTally DEF Touch
  <2> QED
    BY <2>1, <2>2, <2>3, <2>4 DEF LoadStep
<1>3. PICK r : Set(t, r) /\ Tally(r)
  BY <1>2
<1>4. fresh' = fresh /\ cut' = cut
  BY DEF LoadStep, Load, OpenEntry, Read, Touch, history
<1>5. Fewer
  <2>1. CASE Touch(t)
    <3>1. ASSUME NEW d \in Digests
          PROVE  \/ dir'[EntryName(d)] = NoFile
                 \/ Present(EntryName(d)) /\ dir'[EntryName(d)].units = dir[EntryName(d)].units
      <4>1. EntryName(d) \in Names
        BY NameFacts
      <4>2. CASE dir[EntryName(d)] = NoFile /\ EntryName(d) # Entry(t)
        BY <2>1, <4>1, <4>2 DEF Touch, BInv, IInv, Typed
      <4>3. CASE dir[EntryName(d)] = NoFile /\ EntryName(d) = Entry(t)
        BY <2>1, <4>1, <4>3 DEF Touch, Present
      <4>4. CASE Present(EntryName(d))
        <5>1. dir[EntryName(d)] \in Made
          BY <4>1, <4>4 DEF BInv, IInv, Typed, Files, Present
        <5>2. dir'[EntryName(d)] = dir[EntryName(d)] \/ dir'[EntryName(d)] = [dir[EntryName(d)] EXCEPT !.time = now]
          BY <2>1, <4>1 DEF Touch, BInv, IInv, Typed
        <5> QED
          BY <4>4, <5>1, <5>2 DEF Made
      <4> QED
        BY <4>2, <4>3, <4>4 DEF Present
    <3> QED
      BY <1>4, <3>1, FewerFiles DEF BInv
  <2>2. CASE ~Touch(t)
    <3>1. dir' = dir
      BY <2>2 DEF LoadStep, Load, OpenEntry, Read
    <3> QED
      BY <1>4, <3>1, SameEntries DEF BInv
  <2> QED
    BY <2>1, <2>2
<1>6. ~Trimming(t)
  BY <1>1 DEF Trimming, TrimPlaces
<1> QED
  BY <1>3, <1>4, <1>5, <1>6, TallyStep, QuietTended DEF BInv

LEMMA StoreBounded ==
    ASSUME BInv, IInv', NEW t \in Threads, StoreStep(t)
    PROVE  Tallied' /\ Tended'
<1>1. /\ local[t].at \notin TrimPlaces /\ Record(local[t])
      /\ local[t].listed = {} /\ local[t].total = 0
  BY DEF BInv, IInv, Typed, Tallied, Tally, StoreStep, NotStored, CountStore, Create, CreateFails, Write, Close,
         WriteFails, Rename, RenameFails, At, TrimPlaces
<1>2. \E r : Set(t, r) /\ Tally(r)
  <2>1. CASE NotStored(t) \/ CreateFails(t) \/ WriteFails(t) \/ Rename(t) \/ RenameFails(t)
    BY <2>1, IdleTally DEF NotStored, CreateFails, WriteFails, Rename, RenameFails, Stored
  <2>2. CASE CountStore(t)
    <3> DEFINE r == [local[t] EXCEPT !.at = "create", !.store = stores[ProcessOf[t]]]
    <3>1. r.listed = {} /\ r.total = 0
      BY <1>1 DEF Record, Fields
    <3>2. Set(t, r)
      BY <2>2 DEF CountStore
    <3> HIDE DEF r
    <3> QED
      BY <3>1, <3>2, TallyEmpty
  <2>3. CASE Create(t)
    <3> DEFINE r == [local[t] EXCEPT !.at = "write", !.fd = NewFile(t)]
    <3>1. r.listed = {} /\ r.total = 0
      BY <1>1 DEF Record, Fields
    <3>2. Set(t, r)
      BY <2>3 DEF Create
    <3> HIDE DEF r
    <3> QED
      BY <3>1, <3>2, TallyEmpty
  <2>4. CASE Write(t)
    <3> DEFINE f == [local[t].fd EXCEPT !.units = @ + 1, !.time = now]
               r == [local[t] EXCEPT !.fd = f, !.at = IF Whole(f) THEN "close" ELSE "write"]
    <3>1. r.listed = {} /\ r.total = 0
      BY <1>1 DEF Record, Fields
    <3>2. Set(t, r)
      BY <2>4 DEF Write
    <3> HIDE DEF r
    <3> QED
      BY <3>1, <3>2, TallyEmpty
  <2>5. CASE Close(t)
    <3> DEFINE r == [local[t] EXCEPT !.at = "rename", !.fd = NoFile]
    <3>1. r.listed = {} /\ r.total = 0
      BY <1>1 DEF Record, Fields
    <3>2. Set(t, r)
      BY <2>5 DEF Close
    <3> HIDE DEF r
    <3> QED
      BY <3>1, <3>2, TallyEmpty
  <2> QED
    BY <2>1, <2>2, <2>3, <2>4, <2>5 DEF StoreStep
<1>3. PICK r : Set(t, r) /\ Tally(r)
  BY <1>2
<1>4. cut' = cut
  BY DEF StoreStep, NotStored, CountStore, Create, CreateFails, Write, Close, WriteFails, Rename, RenameFails, history
<1>5. Fewer
  <2>1. CASE NotStored(t) \/ CountStore(t) \/ Close(t)
    <3>1. dir' = dir /\ fresh' = fresh
      BY <2>1 DEF NotStored, CountStore, Close, history
    <3> QED
      BY <3>1, SameEntries DEF BInv
  <2>2. CASE CreateFails(t) \/ WriteFails(t) \/ RenameFails(t)
    <3>1. dir' = [dir EXCEPT ![Temp(t)] = NoFile] /\ fresh' = fresh
      BY <2>2 DEF CreateFails, WriteFails, RenameFails, history
    <3> QED
      BY <3>1, SameEntries, NameFacts DEF BInv, IInv, Typed
  <2>3. CASE Create(t) \/ Write(t)
    <3>1. Temp(t) \notin EntryNames /\ fresh' = fresh
      <4>1. Storing(t)
        BY <2>3 DEF Create, Write, Storing, Held, At
      <4> QED
        BY <2>3, <4>1, TempFacts, NameFacts DEF Create, Write, history, BInv, IInv
    <3>2. \A n \in EntryNames : dir'[n] = dir[n]
      BY <2>3, <3>1, NameFacts DEF Create, Write, BInv, IInv, Typed
    <3> QED
      BY <3>1, <3>2, SameEntries DEF BInv
  <2>4. CASE Rename(t)
    <3>1. fresh' = fresh \cup {local[t].image} /\ dir' = [dir EXCEPT ![Entry(t)] = dir[Temp(t)], ![Temp(t)] = NoFile]
      BY <2>4 DEF Rename
    <3>2. ASSUME NEW d \in Digests \ fresh'
          PROVE  \/ dir'[EntryName(d)] = NoFile
                 \/ dir'[EntryName(d)] = dir[EntryName(d)]
      <4>1. EntryName(d) # Entry(t)
        BY <3>1 DEF Entry, EntryName
      <4>2. EntryName(d) \in Names
        BY NameFacts
      <4> QED
        BY <3>1, <4>1, <4>2 DEF BInv, IInv, Typed
    <3> QED
      BY <3>1, <3>2, FewerFiles DEF BInv, Present
  <2> QED
    BY <2>1, <2>2, <2>3, <2>4 DEF StoreStep
<1>6. ~Trimming(t)
  BY <1>1 DEF Trimming, TrimPlaces
<1> QED
  BY <1>3, <1>4, <1>5, <1>6, TallyStep, QuietTended DEF BInv

\* A step of a trim.
LEMMA TrimTended ==
    ASSUME IInv, IInv', Tended, Fewer, NEW t \in Threads, NEW r, Set(t, r), cut' = cut,
           Sees(local[t], Old, UnitsAt) =>
               \/ r.at \in TrimPlaces /\ Sees(r, Old', UnitsAt')
               \/ Total(UnitsAt', Old') <= DirectoryLimit
    PROVE  Tended'
<1>1. local'[t] = r /\ \A u \in Threads \ {t} : local'[u] = local[u]
  BY SetFacts DEF IInv
<1>2. ASSUME NEW u \in Threads, Trimming(u), Sees(local[u], Old, UnitsAt)
      PROVE  \/ Total(UnitsAt', Old') <= DirectoryLimit
             \/ Trimming(u)' /\ Sees(local'[u], Old', UnitsAt')
  <2>1. CASE u = t
    BY <1>1, <1>2, <2>1 DEF Trimming, TrimPlaces
  <2>2. CASE u # t
    <3>1. local'[u] = local[u]
      BY <1>1, <2>2
    <3> QED
      BY <1>2, <3>1, SeesFewer DEF Trimming
  <2> QED
    BY <2>1, <2>2
<1> QED
  BY <1>2, TendedKept

\* Whatever the files were before, a trim that begins has all entries before it.
LEMMA BeginBounded ==
    ASSUME BInv, IInv', NEW t \in Threads, TrimBegin(t)
    PROVE  Tallied' /\ Tended'
<1> DEFINE names == {n \in Names : Present(n)}
           r == [local[t] EXCEPT !.at = "list", !.stale = IF now > Hour THEN now - Hour ELSE 0,
                                 !.unlisted = names]
<1>1. Record(local[t]) /\ local[t].listed = {} /\ local[t].total = 0
  BY DEF BInv, IInv, Typed, Tallied, Tally, TrimBegin, At, TrimPlaces
<1>2. r.at = "list" /\ r.unlisted = names /\ r.listed = {} /\ r.total = 0
  BY <1>1 DEF Record, Fields
<1>3. Set(t, r) /\ dir' = dir
  BY DEF TrimBegin
<1> HIDE DEF r
<1>4. Tallied'
  BY <1>2, <1>3, TallyEmpty, TallyStep DEF BInv
<1>5. \A d \in Old' : EntryName(d) \in names
  BY <1>3, NameFacts DEF Old, Present
<1>6. local'[t] = r
  BY <1>3, SetFacts DEF BInv, IInv
<1>7. Trimming(t)' /\ Sees(local'[t], Old', UnitsAt')
  BY <1>2, <1>5, <1>6 DEF Trimming, Sees
<1> QED
  BY <1>4, <1>7 DEF Tended

LEMMA StatBounded ==
    ASSUME BInv, IInv', NEW t \in Threads, NEW n, StatEntry(t, n)
    PROVE  Tallied' /\ Tended'
<1> DEFINE c == local[t]
           f == dir[n]
           e == [name |-> n, size |-> f.units, time |-> f.time]
           q == [c EXCEPT !.unlisted = @ \ {n}, !.total = @ + f.units, !.listed = @ \cup {e}]
           r == [c EXCEPT !.unlisted = @ \ {n}]
<1>1. /\ Record(c) /\ Tally(c) /\ c.at = "list" /\ n \in EntryNames
      /\ dir' = dir /\ fresh' = fresh /\ cut' = cut
  BY DEF BInv, IInv, Typed, Tallied, StatEntry, At, history
<1>6. (Present(n) /\ Set(t, q)) \/ (~Present(n) /\ Set(t, r))
  BY DEF StatEntry
<1>2. Fewer
  BY <1>1, SameEntries DEF BInv
<1>3. Old' = Old /\ UnitsAt' = UnitsAt
  BY <1>1 DEF Old, UnitsAt, Present
<1>4. CASE Present(n) /\ Set(t, q)
  <2>1. q.at = "list" /\ q.unlisted = c.unlisted \ {n} /\ q.total = c.total + f.units /\ q.listed = c.listed \cup {e}
    BY <1>1 DEF Record, Fields
  <2>2. f.units \in Nat
    <3>1. n \in Names
      BY <1>1, NameFacts
    <3>2. f \in Made
      BY <1>4, <3>1 DEF BInv, IInv, Typed, Files, Present
    <3> QED
      BY <3>2 DEF Made
  <2>3. Tally(q)
    <3> DEFINE L == c.listed
               M == L \cup {e}
    <3>1. IsFiniteSet(L) /\ IsFiniteSet(M) /\ c.total \in Int /\ Total(Sizes(L), L) <= c.total
          /\ \A x \in M : x.size \in Nat
      <4>1. IsFiniteSet(L) /\ c.total \in Int /\ Total(Sizes(L), L) <= c.total /\ \A x \in L : x.size \in Nat
        BY <1>1 DEF Tally
      <4>2. IsFiniteSet(L \cup {e})
        BY <4>1, FS_AddElement
      <4>3. e.size \in Nat
        BY <2>2
      <4> HIDE DEF e, L
      <4> QED
        BY <4>1, <4>2, <4>3
    <3>2. Total(Sizes(M), L) = Total(Sizes(L), L)
      <4>1. \A x \in L : Sizes(M)[x] = Sizes(L)[x]
        BY DEF Sizes
      <4> QED
        BY <3>1, <4>1, TotalSame
    <3>3. \A x \in M : Sizes(M)[x] \in Int /\ Sizes(M)[x] = x.size
      BY <3>1 DEF Sizes
    <3>4. Total(Sizes(M), M) <= Total(Sizes(M), L) + f.units
      <4>1. Total(Sizes(M), L) \in Int
        <5>1. \A x \in L : Sizes(M)[x] \in Int
          BY <3>3
        <5> QED
          BY <3>1, <5>1, TotalType
      <4>2. CASE e \in L
        <5>1. M = L
          BY <4>2
        <5> HIDE DEF M, L
        <5> QED
          BY <2>2, <4>1, <5>1
      <4>3. CASE e \notin L
        <5>1. Total(Sizes(M), L \union {e}) = Sizes(M)[e] + Total(Sizes(M), L)
          BY <3>1, <3>3, <4>3, TotalMore
        <5>2. Sizes(M)[e] = f.units
          BY <3>3
        <5> QED
          BY <2>2, <4>1, <5>1, <5>2
      <4> QED
        BY <4>2, <4>3
    <3>5. Total(Sizes(M), M) \in Int /\ Total(Sizes(L), L) \in Int
      <4>1. \A x \in L : Sizes(L)[x] \in Int
        BY <3>1 DEF Sizes
      <4> QED
        BY <3>1, <3>3, <4>1, TotalType
    <3>6. q.listed = M
      BY <2>1
    <3> HIDE DEF M, L, q, f, e
    <3>7. Total(Sizes(M), M) <= q.total /\ q.total \in Int
      BY <2>1, <2>2, <3>1, <3>2, <3>4, <3>5
    <3> QED
      BY <2>1, <3>1, <3>6, <3>7 DEF Tally, TrimPlaces
  <2>4. Sees(c, Old, UnitsAt) => Sees(q, Old', UnitsAt')
    <3>1. SUFFICES ASSUME Sees(c, Old, UnitsAt), NEW d \in Old
                   PROVE  \/ EntryName(d) \in q.unlisted
                          \/ \E x \in q.listed : x.name = EntryName(d) /\ x.size = UnitsAt[d]
      BY <1>3, <2>1 DEF Sees
    <3>2. CASE EntryName(d) = n
      <4>1. e.name = EntryName(d) /\ e.size = UnitsAt[d] /\ e \in q.listed
        BY <2>1, <3>2 DEF UnitsAt, Old
      <4> QED
        BY <4>1
    <3>3. CASE EntryName(d) # n
      BY <2>1, <3>1, <3>3 DEF Sees
    <3> QED
      BY <3>2, <3>3
  <2> HIDE DEF q
  <2> QED
    BY <1>1, <1>2, <1>4, <2>1, <2>3, <2>4, TallyStep, TrimTended DEF BInv, TrimPlaces
<1>5. CASE ~Present(n) /\ Set(t, r)
  <2>1. r.at = "list" /\ r.unlisted = c.unlisted \ {n} /\ r.total = c.total /\ r.listed = c.listed
    BY <1>1 DEF Record, Fields
  <2>2. Tally(r)
    BY <1>1, <2>1 DEF Tally
  <2>3. Sees(c, Old, UnitsAt) => Sees(r, Old', UnitsAt')
    BY <1>3, <1>5, <2>1 DEF Sees, Old
  <2> HIDE DEF r
  <2> QED
    BY <1>1, <1>2, <1>5, <2>1, <2>2, <2>3, TallyStep, TrimTended DEF BInv, TrimPlaces
<1> QED
  BY <1>4, <1>5, <1>6

LEMMA OldTempsBounded ==
    ASSUME BInv, IInv', NEW t \in Threads, (\E n \in local[t].unlisted : StatTemp(t, n)) \/ RemoveOld(t)
    PROVE  Tallied' /\ Tended'
<1> DEFINE c == local[t]
<1>1. Record(c) /\ Tally(c) /\ fresh' = fresh /\ cut' = cut
  BY DEF BInv, IInv, Typed, Tallied, StatTemp, RemoveOld, history
<1>2. Fewer
  <2>1. CASE RemoveOld(t)
    <3>1. dir' = [dir EXCEPT ![c.victim] = NoFile]
      BY <2>1 DEF RemoveOld
    <3> QED
      BY <1>1, <3>1, SameEntries, NameFacts DEF BInv, IInv, Typed
  <2>2. CASE ~RemoveOld(t)
    <3>1. dir' = dir
      BY <2>2 DEF StatTemp
    <3> QED
      BY <1>1, <3>1, SameEntries DEF BInv
  <2> QED
    BY <2>1, <2>2
<1>3. ASSUME NEW n, StatTemp(t, n) PROVE Tallied' /\ Tended'
  <2> DEFINE q == [c EXCEPT !.unlisted = @ \ {n}, !.at = "remove old", !.victim = n]
             r == [c EXCEPT !.unlisted = @ \ {n}]
             Like(x) == x.unlisted = c.unlisted \ {n} /\ x.at \in {"list", "remove old"}
                        /\ x.listed = c.listed /\ x.total = c.total
  <2>1. c.at = "list" /\ n \in TempNames /\ (Set(t, q) \/ Set(t, r))
    BY <1>3 DEF StatTemp, At
  <2>2. Like(q) /\ Like(r)
    BY <1>1, <2>1 DEF Record, Fields
  <2>3. PICK x : Set(t, x) /\ Like(x)
    BY <2>1, <2>2
  <2>4. Tally(x)
    BY <1>1, <2>1, <2>3 DEF Tally, TrimPlaces
  <2>5. Sees(c, Old, UnitsAt) => Sees(x, Old, UnitsAt)
    BY <2>1, <2>3, NameFacts DEF Sees, Old
  <2>6. Sees(c, Old, UnitsAt) => x.at \in TrimPlaces /\ Sees(x, Old', UnitsAt')
    BY <1>2, <2>3, <2>5, SeesFewer DEF TrimPlaces
  <2> QED
    BY <1>1, <1>2, <2>3, <2>4, <2>6, TallyStep, TrimTended DEF BInv
<1>4. CASE RemoveOld(t)
  <2> DEFINE r == [c EXCEPT !.at = "list", !.victim = NoName]
  <2>1. Set(t, r) /\ c.at = "remove old"
    BY <1>4 DEF RemoveOld, At
  <2>2. r.at = "list" /\ r.unlisted = c.unlisted /\ r.listed = c.listed /\ r.total = c.total
    BY <1>1 DEF Record, Fields
  <2> HIDE DEF r
  <2>3. Tally(r)
    BY <1>1, <2>2 DEF Tally, TrimPlaces
  <2>4. Sees(c, Old, UnitsAt) => Sees(r, Old, UnitsAt)
    BY <2>1, <2>2 DEF Sees
  <2>5. Sees(c, Old, UnitsAt) => r.at \in TrimPlaces /\ Sees(r, Old', UnitsAt')
    BY <1>2, <2>2, <2>4, SeesFewer DEF TrimPlaces
  <2> QED
    BY <1>1, <1>2, <2>1, <2>3, <2>5, TallyStep, TrimTended DEF BInv
<1> QED
  BY <1>3, <1>4

LEMMA ListedBounded ==
    ASSUME BInv, IInv', NEW t \in Threads, Listed(t) \/ TrimEnd(t)
    PROVE  Tallied' /\ Tended'
<1> DEFINE c == local[t]
           r == [c EXCEPT !.at = "evict"]
<1>1. Record(c) /\ Tally(c) /\ fresh' = fresh /\ cut' = cut /\ dir' = dir
  BY DEF BInv, IInv, Typed, Tallied, Listed, TrimEnd, history
<1>2. Fewer
  BY <1>1, SameEntries DEF BInv
<1>3. Old' = Old /\ UnitsAt' = UnitsAt
  BY <1>1 DEF Old, UnitsAt, Present
<1>4. c.total \in Int /\ DirectoryLimit \in Nat
  BY <1>1, CacheAssumption DEF Tally
<1>5. CASE Listed(t) /\ c.total > DirectoryLimit
  <2>1. Set(t, r) /\ c.at = "list" /\ c.unlisted = {}
    BY <1>5 DEF Listed, Goto, Set, At
  <2>2. r.at = "evict" /\ r.unlisted = c.unlisted /\ r.listed = c.listed /\ r.total = c.total
    BY <1>1 DEF Record, Fields
  <2> HIDE DEF r
  <2>3. Tally(r)
    BY <1>1, <2>2 DEF Tally, TrimPlaces
  <2>4. Sees(c, Old, UnitsAt) => r.at \in TrimPlaces /\ Sees(r, Old', UnitsAt')
    BY <1>3, <2>1, <2>2 DEF Sees, TrimPlaces
  <2> QED
    BY <1>1, <1>2, <2>1, <2>3, <2>4, TallyStep, TrimTended DEF BInv
<1>6. ASSUME Set(t, Idle("ready")), c.at = "evict" \/ c.unlisted = {},
             c.listed = {} \/ c.total <= DirectoryLimit
      PROVE  Tallied' /\ Tended'
  <2>1. Sees(c, Old, UnitsAt) => Total(UnitsAt', Old') <= DirectoryLimit
    BY <1>1, <1>3, <1>4, <1>6, SeenTotal DEF BInv
  <2> QED
    BY <1>1, <1>2, <1>6, <2>1, IdleTally, TallyStep, TrimTended DEF BInv
<1>7. CASE Listed(t) /\ ~(c.total > DirectoryLimit)
  BY <1>4, <1>6, <1>7 DEF Listed
<1>8. CASE TrimEnd(t)
  BY <1>4, <1>6, <1>8 DEF TrimEnd, Evicting, At
<1> QED
  BY <1>5, <1>7, <1>8

\* The entry that goes was counted with the size listed, so the rest is still counted.
LEMMA EvictBounded ==
    ASSUME BInv, IInv', NEW t \in Threads, NEW e, Evict(t, e)
    PROVE  Tallied' /\ Tended'
<1> DEFINE c == local[t]
           L == c.listed
           M == L \ {e}
           less == IF Present(e.name) THEN c.total - e.size ELSE c.total
           r == [c EXCEPT !.listed = M, !.total = less]
<1>1. /\ Record(c) /\ Tally(c) /\ c.at = "evict" /\ e \in L /\ Set(t, r)
      /\ dir' = [dir EXCEPT ![e.name] = NoFile] /\ fresh' = fresh /\ cut' = cut
  BY DEF BInv, IInv, Typed, Tallied, Evict, Evicting, At, history
<1>2. r.at = "evict" /\ r.listed = M /\ r.total = less
  BY <1>1 DEF Record, Fields
<1>3. Tally(r)
  <2>1. IsFiniteSet(L) /\ IsFiniteSet(M) /\ c.total \in Int /\ Total(Sizes(L), L) <= c.total
        /\ e.size \in Nat /\ \A x \in L : x.size \in Nat
    BY <1>1, FS_RemoveElement DEF Tally
  <2>2. \A x \in L : Sizes(L)[x] \in Int /\ Sizes(L)[x] = x.size
    BY <2>1 DEF Sizes
  <2>3. Total(Sizes(L), L) = e.size + Total(Sizes(L), M)
    BY <1>1, <2>1, <2>2, TotalLess
  <2>4. Total(Sizes(L), M) = Total(Sizes(M), M)
    <3>1. \A x \in M : Sizes(L)[x] = Sizes(M)[x]
      BY DEF Sizes
    <3> QED
      BY <2>1, <3>1, TotalSame
  <2>5. Total(Sizes(M), M) \in Int
    <3>1. \A x \in M : Sizes(M)[x] \in Int
      BY <2>1 DEF Sizes
    <3> QED
      BY <2>1, <3>1, TotalType
  <2>6. less \in Int /\ less >= c.total - e.size
    BY <2>1
  <2>7. \A x \in M : x.size \in Nat
    BY <2>1
  <2> HIDE DEF M, L, r, less
  <2>8. Total(Sizes(M), M) <= less
    BY <2>1, <2>3, <2>4, <2>5, <2>6
  <2> QED
    BY <1>2, <2>1, <2>6, <2>7, <2>8 DEF Tally, TrimPlaces
<1>4. Fewer
  BY <1>1, SameEntries, NameFacts DEF BInv, IInv, Typed
<1>5. Sees(c, Old, UnitsAt) => Sees(r, Old', UnitsAt')
  <2>1. SUFFICES ASSUME Sees(c, Old, UnitsAt), NEW d \in Old'
                 PROVE  \E x \in r.listed : x.name = EntryName(d) /\ x.size = UnitsAt'[d]
    BY DEF Sees
  <2>2. d \in Old /\ UnitsAt'[d] = UnitsAt[d]
    BY <1>4 DEF Fewer
  <2>3. PICK x \in L : x.name = EntryName(d) /\ x.size = UnitsAt[d]
    BY <1>1, <2>1, <2>2 DEF Sees
  <2>4. x # e
    <3>1. dir'[EntryName(d)] # NoFile
      BY DEF Old, Present, EntryName
    <3>2. EntryName(d) \in Names
      BY <2>2, OldFacts, NameFacts DEF BInv
    <3> QED
      BY <1>1, <2>3, <3>1, <3>2 DEF BInv, IInv, Typed
  <2> QED
    BY <1>2, <2>2, <2>3, <2>4
<1> HIDE DEF r
<1> QED
  BY <1>1, <1>2, <1>3, <1>4, <1>5, TallyStep, TrimTended DEF BInv, TrimPlaces

\* A trim that is killed is cut; a process is only begun or ended when none of its threads trims.
LEMMA ProcessBounded ==
    ASSUME BInv, IInv', NEW p \in Processes, Launch(p) \/ Exit(p) \/ Kill(p)
    PROVE  Tallied' /\ Tended'
<1>1. PICK place \in {"ready", "stopped"} :
          local' = [t \in Threads |-> IF t \in ThreadsOf(p) THEN Idle(place) ELSE local[t]]
  BY DEF Launch, Exit, Kill
<1>2. Tallied'
  <2>1. ASSUME NEW t \in Threads PROVE Tally(local'[t])
    <3>1. local'[t] = Idle(place) \/ local'[t] = local[t]
      BY <1>1
    <3>2. Tally(Idle(place)) /\ Tally(local[t])
      BY IdleTally DEF BInv, Tallied
    <3> QED
      BY <3>1, <3>2
  <2> QED
    BY <2>1 DEF Tallied
<1>3. fresh' = fresh /\ (cut => cut')
  <2>1. CASE Kill(p)
    BY <2>1, Zenon DEF Kill
  <2>2. CASE Launch(p) \/ Exit(p)
    <3>1. fresh' = fresh /\ cut' = cut
      BY <2>2 DEF Launch, Exit, history
    <3> QED
      BY <3>1
  <2> QED
    BY <2>1, <2>2
<1>4. Fewer
  <2>1. CASE Kill(p)
    <3>1. ASSUME NEW d \in Digests
          PROVE  \/ dir'[EntryName(d)] = NoFile
                 \/ Present(EntryName(d)) /\ dir'[EntryName(d)].units = dir[EntryName(d)].units
      <4>1. EntryName(d) \in Names
        BY NameFacts
      <4>2. CASE dir[EntryName(d)] = NoFile
        <5>1. NoFile.maker \notin ThreadsOf(p)
          BY FileFacts DEF NoFile, ThreadsOf
        <5>2. dir'[EntryName(d)] = NoFile
          BY <2>1, <4>1, <4>2, <5>1 DEF Kill
        <5> QED
          BY <5>2
      <4>3. CASE Present(EntryName(d))
        <5>1. dir[EntryName(d)] \in Made
          BY <4>1, <4>3 DEF BInv, IInv, Typed, Files, Present
        <5>2. \/ dir'[EntryName(d)] = dir[EntryName(d)]
              \/ dir'[EntryName(d)] = [dir[EntryName(d)] EXCEPT !.maker = NoThread]
          BY <2>1, <4>1 DEF Kill
        <5> QED
          BY <4>3, <5>1, <5>2 DEF Made
      <4> QED
        BY <4>2, <4>3 DEF Present
    <3> QED
      BY <1>3, <3>1, FewerFiles DEF BInv
  <2>2. CASE ~Kill(p)
    <3>1. dir' = dir
      BY <2>2 DEF Launch, Exit
    <3> QED
      BY <1>3, <3>1, SameEntries DEF BInv
  <2> QED
    BY <2>1, <2>2
<1>5. ASSUME NEW t \in Threads, Trimming(t) PROVE cut' \/ local'[t] = local[t]
  <2>1. CASE t \in ThreadsOf(p)
    <3>1. ~Launch(p) /\ ~Exit(p)
      BY <1>5, <2>1 DEF Launch, Exit, At, Trimming
    <3>2. cut'
      BY <1>5, <2>1, <3>1 DEF Kill
    <3> QED
      BY <3>2
  <2>2. CASE t \notin ThreadsOf(p)
    BY <1>1, <2>2
  <2> QED
    BY <2>1, <2>2
<1>6. ASSUME NEW t \in Threads, Trimming(t), Sees(local[t], Old, UnitsAt)
      PROVE  cut' \/ (Trimming(t)' /\ Sees(local'[t], Old', UnitsAt'))
  <2>1. CASE local'[t] = local[t]
    BY <1>4, <1>6, <2>1, SeesFewer DEF Trimming
  <2> QED
    BY <1>5, <1>6, <2>1
<1>7. Tended'
  BY <1>3, <1>4, <1>6, TendedKept DEF BInv
<1> QED
  BY <1>2, <1>7

LEMMA Bounding == BInv /\ [Next]_vars => BInv'
<1> SUFFICES ASSUME BInv, [Next]_vars PROVE Tallied' /\ Tended'
  BY Inductive DEF BInv
<1>0. IInv'
  BY Inductive DEF BInv
<1>1. ASSUME NEW t \in Threads, LoadStep(t) PROVE Tallied' /\ Tended'
  BY <1>0, <1>1, LoadBounded
<1>2. ASSUME NEW t \in Threads, StoreStep(t) PROVE Tallied' /\ Tended'
  BY <1>0, <1>2, StoreBounded
<1>3. ASSUME NEW t \in Threads, TrimStep(t) PROVE Tallied' /\ Tended'
  BY <1>0, <1>3, BeginBounded, StatBounded, OldTempsBounded, ListedBounded, EvictBounded DEF TrimStep
<1>4. ASSUME NEW p \in Processes, Launch(p) \/ Exit(p) \/ Kill(p) PROVE Tallied' /\ Tended'
  BY <1>0, <1>4, ProcessBounded
<1>5. CASE Tick \/ UNCHANGED vars
  <2>1. dir' = dir /\ local' = local /\ fresh' = fresh /\ cut' = cut
    BY <1>5 DEF Tick, vars, history
  <2>2. Old' = Old /\ UnitsAt' = UnitsAt
    BY <2>1 DEF Old, UnitsAt, Present
  <2> QED
    BY <2>1, <2>2 DEF BInv, Tallied, Tended, Trimming
<1> QED
  BY <1>1, <1>2, <1>3, <1>4, <1>5 DEF Next

\* When no thread trims and no trim was killed, the entries that were there before the last trim
\* began are within the limit, however many threads and processes trimmed, stored and looked up at
\* the same time (Trim).
THEOREM LimitKept == Spec => []DirectoryBounded
<1>1. Init => BInv
  <2>1. SUFFICES ASSUME Init PROVE BInv
    OBVIOUS
  <2>2. IInv
    BY <2>1, Initially
  <2>3. Tallied
    BY <2>1, IdleTally DEF Init, Tallied
  <2>4. Old = {}
    <3>1. \A d \in Digests : ~Present(EntryName(d))
      BY <2>1, NameFacts DEF Init, Present
    <3> QED
      BY <3>1 DEF Old
  <2>5. Tended
    BY <2>4, TotalEmpty, CacheAssumption DEF Tended
  <2> QED
    BY <2>2, <2>3, <2>5 DEF BInv
<1>2. BInv => DirectoryBounded
  <2>1. SUFFICES ASSUME BInv, ~cut, \A t \in Threads : ~Trimming(t)
                 PROVE  TotalSize(Old) <= DirectoryLimit
    BY DEF DirectoryBounded, Old
  <2>2. Total(UnitsAt, Old) <= DirectoryLimit
    BY <2>1 DEF BInv, Tended
  <2>3. TotalSize(Old) = Total(UnitsAt, Old)
    <3> DEFINE S == Old
               Equation(g) == g = [s \in SUBSET S |-> IF s = {} THEN 0
                                       ELSE dir[EntryName(First(s))].units + g[s \ {First(s)}]]
    <3>1. IsFiniteSet(S) /\ S \in SUBSET Digests
      BY <2>1, OldFacts DEF BInv
    <3>2. PICK sums : AreSums(UnitsAt, S, sums)
      BY <3>1, SumsExist
    <3>3. \A s \in SUBSET S : s # {} => UnitsAt[First(s)] = dir[EntryName(First(s))].units
      BY <3>1, FirstIn DEF UnitsAt
    <3>4. \A g : Equation(g) <=> AreSums(UnitsAt, S, g)
      <4> HIDE DEF S
      <4> QED
        BY <3>3 DEF AreSums, SumsFrom
    <3>5. \E g : Equation(g)
      BY <3>2, <3>4
    <3>6. \E g : Equation(g) /\ TotalSize(S) = g[S]
      <4> HIDE DEF S
      <4> QED
        BY <3>5 DEF TotalSize, MapThenSumSet, MapThenFoldSet, First
    <3>7. PICK g : AreSums(UnitsAt, S, g) /\ TotalSize(S) = g[S]
      BY <3>4, <3>6
    <3>8. PICK h : AreSums(UnitsAt, S, h) /\ Total(UnitsAt, S) = h[S]
      BY <3>1, TotalIs
    <3>9. g[S] = h[S]
      <4>1. S \in (SUBSET S) \cap (SUBSET S)
        OBVIOUS
      <4> HIDE DEF S
      <4> QED
        BY <3>1, <3>7, <3>8, <4>1, SumsSame
    <3> QED
      BY <3>7, <3>8, <3>9
  <2> QED
    BY <2>2, <2>3
<1> QED
  BY <1>1, <1>2, Bounding, PTL DEF Spec
=============================================================================
