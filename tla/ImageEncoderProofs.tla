------------------------- MODULE ImageEncoderProofs -------------------------
(***************************************************************************)
(* Proofs about ImageEncoder, for every image, every number of helpers and *)
(* every failed allocation: the counts and the segments, then who owns a   *)
(* buffer, the lock and the state's end, what Finish reads, the promise of *)
(* PlaneStreams, and that there are buffers enough.                        *)
(***************************************************************************)
EXTENDS ImageEncoder, FiniteSetTheorems, WellFoundedInduction, TLAPS

HeldPlaces == {"count", "wake last", "encode", "deflate", "release"}

\* The types, with the counters only known to be integers.
TypedShared ==
    /\ ready \in [Planes -> Nat \cup {Abandoned}]
    /\ claimed \in [Segs -> BOOLEAN] /\ whole \subseteq Segs
    /\ mutex \in Threads \cup {NoThread} /\ waiting \subseteq Threads

TypedCounts == claimedCount \in Nat /\ sleepers \in Int /\ running \in Int /\ queue \in Nat

TypedBuffers ==
    /\ input \in [Segs -> Buffers \cup {NoBuffer}]
    /\ spare \subseteq Buffers
    /\ made \in 0 .. bufferLimit /\ holds \in [Buffers -> Segs \cup {0}]

TypedDecoder ==
    /\ position \in [Planes -> Nat] /\ wakeStart \in [Planes -> Nat]
    /\ out \in [Planes -> BOOLEAN] /\ failed \in BOOLEAN
    /\ call \in {"none", "Write", "EncodeReady", "Finish", "Destroy"}
    /\ target \in [plane : Planes, units : Nat]
    /\ result \in {"none", "failed", "streams"}

TypedThreads ==
    /\ pc \in [Threads -> Places \cup DecoderPlaces]
    /\ \A h \in Helpers : pc[h] \in Places

TypedPacked == packed \in [Threads -> Nat]

TypedIndex == index \in [Threads -> 0 .. Count + 1]

Typed ==
    /\ TypedShared /\ TypedCounts /\ TypedBuffers /\ TypedDecoder
    /\ TypedThreads /\ TypedPacked /\ TypedIndex

\* A thread scanning or holding a segment has a segment.
Indexed ==
    \A t \in Threads :
        /\ pc[t] = "claim" => index[t] # 0
        /\ pc[t] \in HeldPlaces => index[t] \in Segs

\* A write under way is of a plane that is not full.
WritePending ==
    \/ pc[Decoder] \in {"acquire", "await buffer", "fill"}
    \/ call = "Write" /\ pc[Decoder] \in HeldPlaces \cup {"claim"}

Pending ==
    /\ WritePending =>
          /\ call = "Write"
          /\ position[target.plane] < Sizes[target.plane]
          /\ position[target.plane] + target.units <= Sizes[target.plane]
    /\ pc[Decoder] \in {"work", "lock", "check", "sleep"} => call = "Finish"
    /\ pc[Decoder] # "pool"
    /\ \A p \in Planes : position[p] <= Sizes[p]

TInv == Typed /\ Indexed /\ Pending

LEMMA Constants ==
    /\ Count \in Nat /\ bufferLimit \in Nat
    /\ Planes # {} /\ Sizes \in [Planes -> Nat \ {0}]
    /\ Block \in Nat \ {0} /\ Ahead \in Nat
    /\ Decoder \in Threads /\ Decoder \notin Helpers /\ Helpers \subseteq Threads
    /\ NoThread \notin Threads
<1>1. Cardinality(Planes) \in Nat /\ Cardinality(Helpers) \in Nat
  BY FS_CardinalityType, HelpersAssumption, SizesAssumption
<1>2. Count \in Nat
  BY SegmentsAssumption DEF Count
<1>5. bufferLimit \in Nat
  BY <1>1 DEF bufferLimit
<1>6. Decoder \in Threads /\ Decoder \notin Helpers /\ Helpers \subseteq Threads /\ NoThread \notin Threads
  BY HelpersAssumption DEF Threads
<1> QED
  BY <1>2, <1>5, <1>6, SizesAssumption, BlockAssumption

LEMMA SegmentTypes ==
    ASSUME NEW s \in Segs
    PROVE  /\ PlaneOf(s) \in Planes /\ Start(s) \in Nat /\ End(s) \in Nat
           /\ segments[s].size \in Nat \ {0} /\ Start(s) < End(s)
           /\ End(s) <= Sizes[PlaneOf(s)]
<1> DEFINE T == [plane : Planes, start : Nat, size : Nat \ {0}]
<1>1. segments \in Seq(T)
  BY SegmentsAssumption
<1> HIDE DEF T
<1>2. segments[s] \in T
  BY <1>1 DEF Count, Segs
<1>3. End(s) <= Sizes[PlaneOf(s)]
  BY SegmentsAssumption
<1> QED
  BY <1>2, <1>3 DEF PlaneOf, Start, End, T

LEMMA WakeNextValues ==
    /\ DOMAIN WakeNext = {"wake last", "wake advance", "wake abandon", "wake destroy"}
    /\ WakeNext["wake last"] = "encode" /\ WakeNext["wake advance"] = "written"
    /\ WakeNext["wake abandon"] = "idle" /\ WakeNext["wake destroy"] = "cancel"
BY DEF WakeNext

\* A thread that goes to a place with an index that fits the place.
LEMMA IndexStep ==
    ASSUME Indexed, TypedIndex, TypedThreads, NEW t \in Threads, NEW place, NEW n \in 0 .. Count + 1,
           pc' = [pc EXCEPT ![t] = place], index' = [index EXCEPT ![t] = n],
           place = "claim" => n # 0, place \in HeldPlaces => n \in Segs
    PROVE  Indexed' /\ TypedIndex'
<1>1. TypedIndex'
  BY DEF TypedIndex
<1>2. ASSUME NEW u \in Threads
      PROVE  (pc'[u] = "claim" => index'[u] # 0) /\ (pc'[u] \in HeldPlaces => index'[u] \in Segs)
  <2>1. CASE u = t
    BY <2>1 DEF TypedThreads, TypedIndex
  <2>2. CASE u # t
    BY <2>2 DEF TypedThreads, TypedIndex, Indexed
  <2> QED
    BY <2>1, <2>2
<1> QED
  BY <1>1, <1>2 DEF Indexed

\* A thread that begins a scan, or goes to a place without a segment.
LEMMA ScanStep ==
    ASSUME Indexed, TypedIndex, TypedThreads, NEW t \in Threads,
           pc' = [pc EXCEPT ![t] = "claim"], index' = [index EXCEPT ![t] = 1]
    PROVE  Indexed' /\ TypedIndex'
<1> DEFINE place == "claim"  n == 1
<1>1. n \in 0 .. Count + 1 /\ n # 0
  BY Constants
<1>2. place \notin HeldPlaces
  BY DEF HeldPlaces
<1>3. pc' = [pc EXCEPT ![t] = place] /\ index' = [index EXCEPT ![t] = n]
  OBVIOUS
<1> HIDE DEF place, n
<1> QED
  BY <1>1, <1>2, <1>3, IndexStep

LEMMA OffStep ==
    ASSUME Indexed, TypedIndex, TypedThreads, NEW t \in Threads, NEW place,
           place \notin HeldPlaces \cup {"claim"},
           pc' = [pc EXCEPT ![t] = place], index' = [index EXCEPT ![t] = 0]
    PROVE  Indexed' /\ TypedIndex'
<1> DEFINE n == 0
<1>1. n \in 0 .. Count + 1
  BY Constants
<1>2. index' = [index EXCEPT ![t] = n]
  OBVIOUS
<1> HIDE DEF n
<1> QED
  BY <1>1, <1>2, IndexStep

LEMMA StayStep ==
    ASSUME Indexed, TypedIndex, TypedThreads, NEW t \in Threads, NEW place,
           place \notin HeldPlaces \cup {"claim"},
           pc' = [pc EXCEPT ![t] = place], index' = index
    PROVE  Indexed' /\ TypedIndex'
<1>1. index' = [index EXCEPT ![t] = index[t]] /\ index[t] \in 0 .. Count + 1
  BY DEF TypedIndex
<1> QED
  BY <1>1, IndexStep

\* The segment a plane's next unit goes to is one of the plane's segments.
LEMMA WritingSegment ==
    ASSUME Typed, NEW p \in Planes, position[p] < Sizes[p]
    PROVE  /\ Writing(p) \in Segs /\ PlaneOf(Writing(p)) = p
           /\ Start(Writing(p)) <= position[p] /\ position[p] < End(Writing(p))
<1>1. position[p] \in 0 .. Sizes[p] - 1
  BY Constants DEF Typed, TypedDecoder
<1>2. \E s \in Segs : PlaneOf(s) = p /\ Start(s) <= position[p] /\ position[p] < End(s)
  BY <1>1, SegmentsAssumption
<1> QED
  BY <1>2 DEF Writing
LEMMA NatMinimum ==
    ASSUME NEW T, T \subseteq Nat, T # {}
    PROVE  \E n \in T : \A m \in T : n <= m
<1> DEFINE R == OpToRel(<, Nat)
<1>1. PICK n \in T : \A m \in T : ~ (<<m, n>> \in R)
  <2>1. IsWellFoundedOn(R, Nat)
    BY NatLessThanWellFounded
  <2> HIDE DEF R
  <2> QED
    BY <2>1, WFMin
<1>2. \A m \in T : ~ (m < n)
  BY <1>1 DEF OpToRel
<1> QED
  BY <1>2
 
LEMMA NextToWakeType ==
    ASSUME NEW p \in Planes
    PROVE  NextToWake(p) \in Nat
<1> DEFINE later == {s \in Segs : PlaneOf(s) = p /\ position[p] < ClaimAt(s, TRUE)}
           starts == {Start(s) : s \in later}
<1>1. Sizes[p] \in Nat
  BY Constants
<1>2. CASE later = {}
  BY <1>1, <1>2 DEF NextToWake
<1>3. CASE later # {}
  <2>1. starts \in SUBSET Nat /\ starts # {}
    BY <1>3, SegmentTypes
  <2>2. \E n \in starts : \A m \in starts : n <= m
    BY <2>1, NatMinimum
  <2>3. \E n \in starts : \A s \in later : n <= Start(s)
    BY <2>2
  <2> QED
    BY <1>3, <2>1, <2>3 DEF NextToWake
<1> QED
  BY <1>2, <1>3


\* A step of Work, Claim, Encode or Release keeps the types.
LEMMA TypeThread ==
    ASSUME TInv, NEW t \in Threads, ThreadStep(t)
    PROVE  TInv'
<1> USE DEF TInv, Typed
<1>1. CASE WorkLoop(t)
  <2>1. TypedShared'
    BY <1>1 DEF WorkLoop, TypedShared
  <2>2. TypedCounts'
    BY <1>1 DEF WorkLoop, TypedCounts
  <2>3. TypedBuffers'
    BY <1>1 DEF WorkLoop, TypedBuffers, buffersVars
  <2>4. TypedDecoder'
    BY <1>1 DEF WorkLoop, TypedDecoder, decoderVars
  <2>5. TypedPacked'
    BY <1>1 DEF WorkLoop, TypedPacked
  <2>6. Indexed' /\ TypedIndex'
    <3>1. CASE claimedCount < Count
      <4>1. pc' = [pc EXCEPT ![t] = "claim"] /\ index' = [index EXCEPT ![t] = 1]
        BY <1>1, <3>1, Constants DEF WorkLoop, Goto, TypedCounts
      <4> QED
        BY <4>1, ScanStep
    <3>2. CASE claimedCount >= Count
      <4>1. PICK place \in {"cancel", "exit"} : pc' = [pc EXCEPT ![t] = place]
        BY <1>1, <3>2, Constants DEF WorkLoop, Goto, TypedCounts
      <4>2. index' = [index EXCEPT ![t] = index[t]] /\ index[t] \in 0 .. Count + 1
        BY <1>1, <3>2, Constants DEF WorkLoop, TypedCounts, TypedIndex
      <4>3. place # "claim" /\ place \notin HeldPlaces
        BY <4>1 DEF HeldPlaces
      <4> QED
        BY <4>1, <4>2, <4>3, IndexStep
    <3> QED
      BY <3>1, <3>2, Constants DEF TypedCounts
  <2>7. TypedThreads'
    BY <1>1, Constants DEF WorkLoop, TypedThreads, Places, DecoderPlaces, Goto, At
  <2>8. Pending'
    BY <1>1, Constants DEF WorkLoop, TypedThreads, TypedDecoder, Pending, WritePending, HeldPlaces, Goto, At, decoderVars
  <2> QED
    BY <2>1, <2>2, <2>3, <2>4, <2>5, <2>6, <2>7, <2>8
<1>2. CASE ClaimTake(t)
  <2>1. TypedShared'
    <3>1. index[t] \in Segs
      BY <1>2 DEF ClaimTake, Indexed, HeldPlaces, At
    <3> QED
      BY <1>2, <3>1 DEF ClaimTake, TypedShared
  <2>2. TypedCounts'
    BY <1>2 DEF ClaimTake, TypedCounts
  <2>3. TypedBuffers'
    BY <1>2 DEF ClaimTake, TypedBuffers, buffersVars
  <2>4. TypedDecoder'
    BY <1>2 DEF ClaimTake, TypedDecoder, decoderVars
  <2>5. TypedPacked'
    BY <1>2 DEF ClaimTake, TypedPacked
  <2>6. Indexed' /\ TypedIndex'
    <3>1. pc' = [pc EXCEPT ![t] = "count"] /\ index' = [index EXCEPT ![t] = index[t]]
      BY <1>2 DEF ClaimTake, Goto, TypedIndex
    <3>2. index[t] \in 0 .. Count + 1 /\ index[t] \in Segs
      BY <1>2 DEF ClaimTake, TypedIndex, Indexed, HeldPlaces, At
    <3> QED
      BY <3>1, <3>2, IndexStep
  <2>7. TypedThreads'
    BY <1>2, Constants DEF ClaimTake, TypedThreads, Places, DecoderPlaces, Goto, At
  <2>8. Pending'
    BY <1>2, Constants DEF ClaimTake, TypedThreads, TypedDecoder, Pending, WritePending, HeldPlaces, Goto, At, decoderVars
  <2> QED
    BY <2>1, <2>2, <2>3, <2>4, <2>5, <2>6, <2>7, <2>8
<1>3. CASE ClaimSkip(t)
  <2>1. TypedShared'
    BY <1>3 DEF ClaimSkip, TypedShared
  <2>2. TypedCounts'
    BY <1>3 DEF ClaimSkip, TypedCounts
  <2>3. TypedBuffers'
    BY <1>3 DEF ClaimSkip, TypedBuffers, buffersVars
  <2>4. TypedDecoder'
    BY <1>3 DEF ClaimSkip, TypedDecoder, decoderVars
  <2>5. TypedPacked'
    BY <1>3 DEF ClaimSkip, TypedPacked
  <2>6. Indexed' /\ TypedIndex'
    <3>1. pc' = [pc EXCEPT ![t] = pc[t]] /\ index' = [index EXCEPT ![t] = index[t] + 1]
      BY <1>3 DEF ClaimSkip, TypedThreads, TypedIndex
    <3>2. index[t] \in Int /\ 0 <= index[t] /\ index[t] <= Count /\ pc[t] \notin HeldPlaces
      BY <1>3, Constants DEF ClaimSkip, TypedIndex, HeldPlaces, At, Segs
    <3>3. index[t] + 1 \in 0 .. Count + 1 /\ index[t] + 1 # 0
      BY <3>2, Constants
    <3> QED
      BY <3>1, <3>2, <3>3, IndexStep
  <2>7. TypedThreads'
    BY <1>3, Constants DEF ClaimSkip, TypedThreads, Places, DecoderPlaces, Goto, At
  <2>8. Pending'
    BY <1>3, Constants DEF ClaimSkip, TypedThreads, TypedDecoder, Pending, WritePending, HeldPlaces, Goto, At, decoderVars
  <2> QED
    BY <2>1, <2>2, <2>3, <2>4, <2>5, <2>6, <2>7, <2>8
<1>4. CASE ClaimNone(t)
  <2>1. TypedShared'
    BY <1>4 DEF ClaimNone, TypedShared
  <2>2. TypedCounts'
    BY <1>4 DEF ClaimNone, TypedCounts
  <2>3. TypedBuffers'
    BY <1>4 DEF ClaimNone, TypedBuffers, buffersVars
  <2>4. TypedDecoder'
    BY <1>4 DEF ClaimNone, TypedDecoder, decoderVars
  <2>5. TypedPacked'
    BY <1>4 DEF ClaimNone, TypedPacked
  <2>6. Indexed' /\ TypedIndex'
    <3>1. PICK place \in {"lock", "await buffer", "idle"} : pc' = [pc EXCEPT ![t] = place]
      BY <1>4 DEF ClaimNone, Goto
    <3>2. index' = [index EXCEPT ![t] = 0]
      BY <1>4 DEF ClaimNone
    <3> QED
      BY <3>1, <3>2, OffStep DEF HeldPlaces
  <2>7. TypedThreads'
    BY <1>4, Constants DEF ClaimNone, TypedThreads, Places, DecoderPlaces, Goto, At, InWork
  <2>8. Pending'
    BY <1>4, Constants DEF ClaimNone, TypedThreads, TypedDecoder, Pending, WritePending, HeldPlaces, Goto, At, decoderVars, InWork
  <2> QED
    BY <2>1, <2>2, <2>3, <2>4, <2>5, <2>6, <2>7, <2>8
<1>5. CASE CountClaim(t)
  <2>1. TypedShared'
    BY <1>5 DEF CountClaim, TypedShared
  <2>2. TypedCounts'
    <3>1. claimedCount \in Nat /\ claimedCount' = claimedCount + 1
      BY <1>5 DEF CountClaim, TypedCounts
    <3>2. claimedCount' \in Nat
      BY <3>1
    <3> QED
      BY <1>5, <3>2 DEF CountClaim, TypedCounts
  <2>3. TypedBuffers'
    BY <1>5 DEF CountClaim, TypedBuffers, buffersVars
  <2>4. TypedDecoder'
    BY <1>5 DEF CountClaim, TypedDecoder, decoderVars
  <2>5. TypedPacked'
    BY <1>5 DEF CountClaim, TypedPacked
  <2>6. Indexed' /\ TypedIndex'
    <3>1. PICK place \in {"wake last", "encode"} : pc' = [pc EXCEPT ![t] = place]
      BY <1>5 DEF CountClaim, Goto
    <3>2. index' = [index EXCEPT ![t] = index[t]] /\ index[t] \in 0 .. Count + 1 /\ index[t] \in Segs
      BY <1>5 DEF CountClaim, TypedIndex, Indexed, HeldPlaces, At
    <3> QED
      BY <3>1, <3>2, IndexStep
  <2>7. TypedThreads'
    BY <1>5, Constants DEF CountClaim, TypedThreads, Places, DecoderPlaces, Goto, At
  <2>8. Pending'
    BY <1>5, Constants DEF CountClaim, TypedThreads, TypedDecoder, Pending, WritePending, HeldPlaces, Goto, At, decoderVars
  <2> QED
    BY <2>1, <2>2, <2>3, <2>4, <2>5, <2>6, <2>7, <2>8
<1>6. CASE Encode(t)
  <2>1. TypedShared'
    BY <1>6 DEF Encode, TypedShared
  <2>2. TypedCounts'
    BY <1>6 DEF Encode, TypedCounts
  <2>3. TypedBuffers'
    BY <1>6 DEF Encode, TypedBuffers, buffersVars
  <2>4. TypedDecoder'
    BY <1>6 DEF Encode, TypedDecoder, decoderVars
  <2>5. TypedPacked'
    BY <1>6 DEF Encode, TypedPacked
  <2>6. Indexed' /\ TypedIndex'
    <3>1. PICK place \in {"deflate", "release"} : pc' = [pc EXCEPT ![t] = place]
      BY <1>6 DEF Encode, Goto
    <3>2. index' = [index EXCEPT ![t] = index[t]] /\ index[t] \in 0 .. Count + 1 /\ index[t] \in Segs
      BY <1>6 DEF Encode, TypedIndex, Indexed, HeldPlaces, At
    <3> QED
      BY <3>1, <3>2, IndexStep
  <2>7. TypedThreads'
    BY <1>6, Constants DEF Encode, TypedThreads, Places, DecoderPlaces, Goto, At
  <2>8. Pending'
    BY <1>6, Constants DEF Encode, TypedThreads, TypedDecoder, Pending, WritePending, HeldPlaces, Goto, At, decoderVars
  <2> QED
    BY <2>1, <2>2, <2>3, <2>4, <2>5, <2>6, <2>7, <2>8
<1>7. CASE DeflateBlock(t)
  <2>1. TypedShared'
    <3>1. index[t] \in Segs
      BY <1>7 DEF DeflateBlock, Indexed, HeldPlaces, At
    <3> QED
      BY <1>7, <3>1 DEF DeflateBlock, TypedShared
  <2>2. TypedCounts'
    BY <1>7 DEF DeflateBlock, TypedCounts
  <2>3. TypedBuffers'
    BY <1>7 DEF DeflateBlock, TypedBuffers, buffersVars
  <2>4. TypedDecoder'
    BY <1>7 DEF DeflateBlock, TypedDecoder, decoderVars
  <2>5. TypedPacked'
    <3>1. index[t] \in Segs /\ packed[t] \in Nat
      BY <1>7 DEF DeflateBlock, Indexed, HeldPlaces, At, TypedPacked
    <3>2. Least(segments[index[t]].size, packed[t] + Block) \in Nat
      BY <3>1, SegmentTypes, Constants DEF Least
    <3>3. packed' = [packed EXCEPT ![t] = Least(segments[index[t]].size, packed[t] + Block)]
      BY <1>7 DEF DeflateBlock
    <3> QED
      BY <3>2, <3>3 DEF TypedPacked
  <2>6. Indexed' /\ TypedIndex'
    <3>1. PICK place \in {"release", "deflate"} : pc' = [pc EXCEPT ![t] = place]
      BY <1>7 DEF DeflateBlock, Goto, TypedThreads, At
    <3>2. index' = [index EXCEPT ![t] = index[t]] /\ index[t] \in 0 .. Count + 1 /\ index[t] \in Segs
      BY <1>7 DEF DeflateBlock, TypedIndex, Indexed, HeldPlaces, At
    <3> QED
      BY <3>1, <3>2, IndexStep
  <2>7. TypedThreads'
    BY <1>7, Constants DEF DeflateBlock, TypedThreads, Places, DecoderPlaces, Goto, At
  <2>8. Pending'
    BY <1>7, Constants DEF DeflateBlock, TypedThreads, TypedDecoder, Pending, WritePending, HeldPlaces, Goto, At, decoderVars
  <2> QED
    BY <2>1, <2>2, <2>3, <2>4, <2>5, <2>6, <2>7, <2>8
<1>8. CASE DeflateStop(t)
  <2>1. TypedShared'
    <3>1. index[t] \in Segs
      BY <1>8 DEF DeflateStop, Indexed, HeldPlaces, At
    <3> QED
      BY <1>8, <3>1 DEF DeflateStop, TypedShared
  <2>2. TypedCounts'
    BY <1>8 DEF DeflateStop, TypedCounts
  <2>3. TypedBuffers'
    BY <1>8 DEF DeflateStop, TypedBuffers, buffersVars
  <2>4. TypedDecoder'
    BY <1>8 DEF DeflateStop, TypedDecoder, decoderVars
  <2>5. TypedPacked'
    BY <1>8 DEF DeflateStop, TypedPacked
  <2>6. Indexed' /\ TypedIndex'
    <3>1. pc' = [pc EXCEPT ![t] = "release"] /\ index' = [index EXCEPT ![t] = index[t]]
      BY <1>8 DEF DeflateStop, Goto, TypedIndex
    <3>2. index[t] \in 0 .. Count + 1 /\ index[t] \in Segs
      BY <1>8 DEF DeflateStop, TypedIndex, Indexed, HeldPlaces, At
    <3> QED
      BY <3>1, <3>2, IndexStep
  <2>7. TypedThreads'
    BY <1>8, Constants DEF DeflateStop, TypedThreads, Places, DecoderPlaces, Goto, At
  <2>8. Pending'
    BY <1>8, Constants DEF DeflateStop, TypedThreads, TypedDecoder, Pending, WritePending, HeldPlaces, Goto, At, decoderVars
  <2> QED
    BY <2>1, <2>2, <2>3, <2>4, <2>5, <2>6, <2>7, <2>8
<1>9. CASE Release(t)
  <2>1. TypedShared'
    BY <1>9 DEF Release, TypedShared
  <2>2. TypedCounts'
    BY <1>9 DEF Release, TypedCounts
  <2>3. TypedBuffers'
    <3>1. index[t] \in Segs
      BY <1>9 DEF Release, Indexed, HeldPlaces, At
    <3> QED
      BY <1>9, <3>1 DEF Release, TypedBuffers, buffersVars, NoBuffer
  <2>4. TypedDecoder'
    BY <1>9 DEF Release, TypedDecoder, decoderVars
  <2>5. TypedPacked'
    BY <1>9 DEF Release, TypedPacked
  <2>6. Indexed' /\ TypedIndex'
    <3>1. PICK place \in {"work", "acquire", "claim"} :
              /\ pc' = [pc EXCEPT ![t] = place]
              /\ index' = [index EXCEPT ![t] = IF place = "claim" THEN 1 ELSE 0]
      BY <1>9 DEF Release, Goto, Released
    <3>2. CASE place = "claim"
      BY <3>1, <3>2, ScanStep
    <3>3. CASE place # "claim"
      <4>1. place \notin HeldPlaces \cup {"claim"} /\ index' = [index EXCEPT ![t] = 0]
        BY <3>1, <3>3 DEF HeldPlaces
      <4> QED
        BY <3>1, <4>1, OffStep
    <3> QED
      BY <3>2, <3>3
  <2>7. TypedThreads'
    BY <1>9, Constants DEF Release, TypedThreads, Places, DecoderPlaces, Goto, At, Released, InWork
  <2>8. Pending'
    BY <1>9, Constants DEF Release, TypedThreads, TypedDecoder, Pending, WritePending, HeldPlaces, Goto, At, decoderVars, Released, InWork
  <2> QED
    BY <2>1, <2>2, <2>3, <2>4, <2>5, <2>6, <2>7, <2>8
<1>10. CASE Lock(t)
  <2>1. TypedShared'
    BY <1>10 DEF Lock, TypedShared
  <2>2. TypedCounts'
    <3>1. sleepers \in Int /\ sleepers' = sleepers + 1
      BY <1>10 DEF Lock, TypedCounts
    <3>2. sleepers' \in Int
      BY <3>1
    <3> QED
      BY <1>10, <3>2 DEF Lock, TypedCounts
  <2>3. TypedBuffers'
    BY <1>10 DEF Lock, TypedBuffers, buffersVars
  <2>4. TypedDecoder'
    BY <1>10 DEF Lock, TypedDecoder, decoderVars
  <2>5. TypedPacked'
    BY <1>10 DEF Lock, TypedPacked
  <2>6. Indexed' /\ TypedIndex'
    <3>1. pc' = [pc EXCEPT ![t] = "check"] /\ index' = [index EXCEPT ![t] = 0]
      BY <1>10 DEF Lock, Goto, TypedIndex
    <3> QED
      BY <3>1, OffStep DEF HeldPlaces
  <2>7. TypedThreads'
    BY <1>10, Constants DEF Lock, TypedThreads, Places, DecoderPlaces, Goto, At
  <2>8. Pending'
    BY <1>10, Constants DEF Lock, TypedThreads, TypedDecoder, Pending, WritePending, HeldPlaces, Goto, At, decoderVars
  <2> QED
    BY <2>1, <2>2, <2>3, <2>4, <2>5, <2>6, <2>7, <2>8
<1>11. CASE CheckYes(t)
  <2>1. TypedShared'
    BY <1>11 DEF CheckYes, TypedShared
  <2>2. TypedCounts'
    <3>1. sleepers \in Int /\ sleepers' = sleepers - 1
      BY <1>11 DEF CheckYes, TypedCounts
    <3>2. sleepers' \in Int
      BY <3>1
    <3> QED
      BY <1>11, <3>2 DEF CheckYes, TypedCounts
  <2>3. TypedBuffers'
    BY <1>11 DEF CheckYes, TypedBuffers, buffersVars
  <2>4. TypedDecoder'
    BY <1>11 DEF CheckYes, TypedDecoder, decoderVars
  <2>5. TypedPacked'
    BY <1>11 DEF CheckYes, TypedPacked
  <2>6. Indexed' /\ TypedIndex'
    <3>1. pc' = [pc EXCEPT ![t] = "work"] /\ index' = [index EXCEPT ![t] = 0]
      BY <1>11 DEF CheckYes, Goto, TypedIndex
    <3> QED
      BY <3>1, OffStep DEF HeldPlaces
  <2>7. TypedThreads'
    BY <1>11, Constants DEF CheckYes, TypedThreads, Places, DecoderPlaces, Goto, At
  <2>8. Pending'
    BY <1>11, Constants DEF CheckYes, TypedThreads, TypedDecoder, Pending, WritePending, HeldPlaces, Goto, At, decoderVars
  <2> QED
    BY <2>1, <2>2, <2>3, <2>4, <2>5, <2>6, <2>7, <2>8
<1>12. CASE CheckNext(t)
  <2>1. TypedShared'
    BY <1>12 DEF CheckNext, TypedShared
  <2>2. TypedCounts'
    BY <1>12 DEF CheckNext, TypedCounts
  <2>3. TypedBuffers'
    BY <1>12 DEF CheckNext, TypedBuffers, buffersVars
  <2>4. TypedDecoder'
    BY <1>12 DEF CheckNext, TypedDecoder, decoderVars
  <2>5. TypedPacked'
    BY <1>12 DEF CheckNext, TypedPacked
  <2>6. Indexed' /\ TypedIndex'
    <3>1. pc' = [pc EXCEPT ![t] = pc[t]] /\ index' = [index EXCEPT ![t] = index[t] + 1]
      BY <1>12 DEF CheckNext, TypedThreads, TypedIndex
    <3>2. index[t] \in Int /\ 0 <= index[t] /\ index[t] <= Count /\ pc[t] \notin HeldPlaces
      BY <1>12, Constants DEF CheckNext, TypedIndex, HeldPlaces, At, Segs
    <3>3. index[t] + 1 \in 0 .. Count + 1 /\ index[t] + 1 # 0
      BY <3>2, Constants
    <3> QED
      BY <3>1, <3>2, <3>3, IndexStep
  <2>7. TypedThreads'
    BY <1>12, Constants DEF CheckNext, TypedThreads, Places, DecoderPlaces, Goto, At
  <2>8. Pending'
    BY <1>12, Constants DEF CheckNext, TypedThreads, TypedDecoder, Pending, WritePending, HeldPlaces, Goto, At, decoderVars
  <2> QED
    BY <2>1, <2>2, <2>3, <2>4, <2>5, <2>6, <2>7, <2>8
<1>13. CASE CheckNo(t)
  <2>1. TypedShared'
    BY <1>13 DEF CheckNo, TypedShared
  <2>2. TypedCounts'
    BY <1>13 DEF CheckNo, TypedCounts
  <2>3. TypedBuffers'
    BY <1>13 DEF CheckNo, TypedBuffers, buffersVars
  <2>4. TypedDecoder'
    BY <1>13 DEF CheckNo, TypedDecoder, decoderVars
  <2>5. TypedPacked'
    BY <1>13 DEF CheckNo, TypedPacked
  <2>6. Indexed' /\ TypedIndex'
    <3>1. pc' = [pc EXCEPT ![t] = "sleep"] /\ index' = [index EXCEPT ![t] = 0]
      BY <1>13 DEF CheckNo, Goto, TypedIndex
    <3> QED
      BY <3>1, OffStep DEF HeldPlaces
  <2>7. TypedThreads'
    BY <1>13, Constants DEF CheckNo, TypedThreads, Places, DecoderPlaces, Goto, At
  <2>8. Pending'
    BY <1>13, Constants DEF CheckNo, TypedThreads, TypedDecoder, Pending, WritePending, HeldPlaces, Goto, At, decoderVars
  <2> QED
    BY <2>1, <2>2, <2>3, <2>4, <2>5, <2>6, <2>7, <2>8
<1>14. CASE Woken(t)
  <2>1. TypedShared'
    BY <1>14 DEF Woken, TypedShared
  <2>2. TypedCounts'
    BY <1>14 DEF Woken, TypedCounts
  <2>3. TypedBuffers'
    BY <1>14 DEF Woken, TypedBuffers, buffersVars
  <2>4. TypedDecoder'
    BY <1>14 DEF Woken, TypedDecoder, decoderVars
  <2>5. TypedPacked'
    BY <1>14 DEF Woken, TypedPacked
  <2>6. Indexed' /\ TypedIndex'
    <3>1. pc' = [pc EXCEPT ![t] = "check"] /\ index' = [index EXCEPT ![t] = 0]
      BY <1>14 DEF Woken, Goto, TypedIndex
    <3> QED
      BY <3>1, OffStep DEF HeldPlaces
  <2>7. TypedThreads'
    BY <1>14, Constants DEF Woken, TypedThreads, Places, DecoderPlaces, Goto, At
  <2>8. Pending'
    BY <1>14, Constants DEF Woken, TypedThreads, TypedDecoder, Pending, WritePending, HeldPlaces, Goto, At, decoderVars
  <2> QED
    BY <2>1, <2>2, <2>3, <2>4, <2>5, <2>6, <2>7, <2>8
<1>15. CASE Wake(t)
  <2>1. TypedShared'
    BY <1>15 DEF Wake, TypedShared
  <2>2. TypedCounts'
    BY <1>15 DEF Wake, TypedCounts
  <2>3. TypedBuffers'
    BY <1>15 DEF Wake, TypedBuffers, buffersVars
  <2>4. TypedDecoder'
    BY <1>15 DEF Wake, TypedDecoder, decoderVars
  <2>5. TypedPacked'
    BY <1>15 DEF Wake, TypedPacked
  <2>6. Indexed' /\ TypedIndex'
    <3>1. pc' = [pc EXCEPT ![t] = WakeNext[pc[t]]] /\ index' = [index EXCEPT ![t] = index[t]]
      BY <1>15 DEF Wake, Goto, TypedIndex
    <3>2. /\ index[t] \in 0 .. Count + 1 /\ WakeNext[pc[t]] # "claim"
          /\ WakeNext[pc[t]] \in HeldPlaces => index[t] \in Segs
      BY <1>15, WakeNextValues DEF Wake, TypedIndex, Indexed, HeldPlaces
    <3> QED
      BY <3>1, <3>2, IndexStep
  <2>7. TypedThreads'
    BY <1>15, Constants, WakeNextValues DEF Wake, TypedThreads, Places, DecoderPlaces, Goto, At
  <2>8. Pending'
    BY <1>15, Constants, WakeNextValues DEF Wake, TypedThreads, TypedDecoder, Pending, WritePending, HeldPlaces, Goto, At, decoderVars
  <2> QED
    BY <2>1, <2>2, <2>3, <2>4, <2>5, <2>6, <2>7, <2>8
<1> QED
  BY <1>1, <1>2, <1>3, <1>4, <1>5, <1>6, <1>7, <1>8, <1>9, <1>10, <1>11, <1>12, <1>13, <1>14, <1>15 DEF ThreadStep

\* A step of the decoder's own keeps the types.
LEMMA TypeDecoder ==
    ASSUME TInv, DecoderChoice \/ DecoderStep
    PROVE  TInv'
<1> USE DEF TInv, Typed
<1>1. ASSUME NEW p \in Planes, NEW n \in 1 .. Sizes[p], Write(p, n)
      PROVE  TInv'
  <2>1. TypedShared'
    BY <1>1 DEF Write, TypedShared, sharedVars, Idle
  <2>2. TypedCounts'
    BY <1>1 DEF Write, TypedCounts, sharedVars, Idle
  <2>3. TypedBuffers'
    BY <1>1 DEF Write, TypedBuffers, buffersVars, sharedVars, Idle
  <2>4. TypedDecoder'
    <3>1. n \in Nat
      BY <1>1, Constants
    <3> QED
      BY <1>1, <3>1 DEF Write, TypedDecoder
  <2>5. TypedPacked'
    BY <1>1 DEF Write, TypedPacked, sharedVars, Idle
  <2>6. Indexed' /\ TypedIndex'
    <3>1. PICK place \in {"acquire", "fill"} : pc' = [pc EXCEPT ![Decoder] = place]
      BY <1>1 DEF Write, Goto
    <3>2. index' = index
      BY <1>1 DEF Write
    <3> QED
      BY <3>1, <3>2, Constants, StayStep DEF HeldPlaces
  <2>7. TypedThreads'
    BY <1>1, Constants DEF Write, TypedThreads, Places, DecoderPlaces, Goto, At
  <2>8. Pending'
    <3>1. position[p] < Sizes[p] /\ position[p] + n <= Sizes[p]
      <4>1. position[p] \in Nat /\ Sizes[p] \in Nat /\ position[p] <= Sizes[p] /\ position[p] # Sizes[p]
        BY <1>1, Constants DEF Write, Written, Pending, TypedDecoder
      <4>2. position[p] < Sizes[p]
        BY <4>1
      <4>3. End(Writing(p)) <= Sizes[p] /\ End(Writing(p)) \in Nat
        BY <1>1, <4>2, WritingSegment, SegmentTypes
      <4>4. position[p] + n <= End(Writing(p)) /\ n \in Int
        BY <1>1 DEF Write
      <4> QED
        BY <4>1, <4>2, <4>3, <4>4
    <3>2. target' = [plane |-> p, units |-> n] /\ position' = position /\ call' = "Write"
      BY <1>1 DEF Write
    <3>3. pc'[Decoder] \in {"acquire", "fill"}
      BY <1>1, Constants DEF Write, Goto, TypedThreads
    <3> QED
      BY <3>1, <3>2, <3>3 DEF Pending, WritePending
  <2> QED
    BY <2>1, <2>2, <2>3, <2>4, <2>5, <2>6, <2>7, <2>8
<1>2. ASSUME NEW b \in Buffers, AcquireSpare(b)
      PROVE  TInv'
  <2>1. TypedShared'
    BY <1>2 DEF AcquireSpare, TypedShared, sharedVars, Acquiring, GiveBuffer
  <2>2. TypedCounts'
    BY <1>2 DEF AcquireSpare, TypedCounts, sharedVars, Acquiring, GiveBuffer
  <2>3. TypedBuffers'
    <3>1. Writing(target.plane) \in Segs
      <4>1. target.plane \in Planes /\ position[target.plane] < Sizes[target.plane]
        BY <1>2 DEF AcquireSpare, Acquiring, At, Pending, WritePending, TypedDecoder
      <4> QED
        BY <4>1, WritingSegment
    <3> QED
      BY <1>2, <3>1 DEF AcquireSpare, GiveBuffer, TypedBuffers
  <2>4. TypedDecoder'
    BY <1>2 DEF AcquireSpare, TypedDecoder, decoderVars, sharedVars, Acquiring, GiveBuffer
  <2>5. TypedPacked'
    BY <1>2 DEF AcquireSpare, TypedPacked, sharedVars, Acquiring, GiveBuffer
  <2>6. Indexed' /\ TypedIndex'
    <3>1. PICK place \in {"fill"} : pc' = [pc EXCEPT ![Decoder] = place]
      BY <1>2 DEF AcquireSpare, Goto, Acquiring, GiveBuffer
    <3>2. index' = index
      BY <1>2 DEF AcquireSpare
    <3> QED
      BY <3>1, <3>2, Constants, StayStep DEF HeldPlaces
  <2>7. TypedThreads'
    BY <1>2, Constants DEF AcquireSpare, TypedThreads, Places, DecoderPlaces, Goto, At, Acquiring, GiveBuffer
  <2>8. Pending'
    BY <1>2, Constants DEF AcquireSpare, TypedThreads, TypedDecoder, Pending, WritePending, HeldPlaces, Goto, At, decoderVars, Acquiring, GiveBuffer
  <2> QED
    BY <2>1, <2>2, <2>3, <2>4, <2>5, <2>6, <2>7, <2>8
<1>3. CASE AcquireNew
  <2>1. TypedShared'
    BY <1>3 DEF AcquireNew, TypedShared, sharedVars, Acquiring, GiveBuffer
  <2>2. TypedCounts'
    BY <1>3 DEF AcquireNew, TypedCounts, sharedVars, Acquiring, GiveBuffer
  <2>3. TypedBuffers'
    <3>1. Writing(target.plane) \in Segs
      <4>1. target.plane \in Planes /\ position[target.plane] < Sizes[target.plane]
        BY <1>3 DEF AcquireNew, Acquiring, At, Pending, WritePending, TypedDecoder
      <4> QED
        BY <4>1, WritingSegment
    <3>2. made + 1 \in 0 .. bufferLimit /\ made + 1 \in Buffers
      <4>1. made \in 0 .. bufferLimit /\ made < bufferLimit
        BY <1>3 DEF AcquireNew, TypedBuffers
      <4> QED
        BY <4>1, Constants DEF Buffers
    <3> QED
      BY <1>3, <3>1, <3>2 DEF AcquireNew, GiveBuffer, TypedBuffers
  <2>4. TypedDecoder'
    BY <1>3 DEF AcquireNew, TypedDecoder, decoderVars, sharedVars, Acquiring, GiveBuffer
  <2>5. TypedPacked'
    BY <1>3 DEF AcquireNew, TypedPacked, sharedVars, Acquiring, GiveBuffer
  <2>6. Indexed' /\ TypedIndex'
    <3>1. PICK place \in {"fill"} : pc' = [pc EXCEPT ![Decoder] = place]
      BY <1>3 DEF AcquireNew, Goto, Acquiring, GiveBuffer
    <3>2. index' = index
      BY <1>3 DEF AcquireNew
    <3> QED
      BY <3>1, <3>2, Constants, StayStep DEF HeldPlaces
  <2>7. TypedThreads'
    BY <1>3, Constants DEF AcquireNew, TypedThreads, Places, DecoderPlaces, Goto, At, Acquiring, GiveBuffer
  <2>8. Pending'
    BY <1>3, Constants DEF AcquireNew, TypedThreads, TypedDecoder, Pending, WritePending, HeldPlaces, Goto, At, decoderVars, Acquiring, GiveBuffer
  <2> QED
    BY <2>1, <2>2, <2>3, <2>4, <2>5, <2>6, <2>7, <2>8
<1>4. CASE AcquireFails
  <2>1. TypedShared'
    BY <1>4 DEF AcquireFails, TypedShared, sharedVars, Acquiring
  <2>2. TypedCounts'
    BY <1>4 DEF AcquireFails, TypedCounts, sharedVars, Acquiring
  <2>3. TypedBuffers'
    <3>1. made \in 0 .. bufferLimit /\ made < bufferLimit /\ made' = made + 1
      BY <1>4 DEF AcquireFails, TypedBuffers
    <3>2. made' \in 0 .. bufferLimit
      BY <3>1, Constants
    <3> QED
      BY <1>4, <3>2 DEF AcquireFails, TypedBuffers
  <2>4. TypedDecoder'
    BY <1>4 DEF AcquireFails, TypedDecoder, decoderVars, sharedVars, Acquiring
  <2>5. TypedPacked'
    BY <1>4 DEF AcquireFails, TypedPacked, sharedVars, Acquiring
  <2>6. Indexed' /\ TypedIndex'
    <3>1. PICK place \in {"destroy"} : pc' = [pc EXCEPT ![Decoder] = place]
      BY <1>4 DEF AcquireFails, Goto, Acquiring
    <3>2. index' = index
      BY <1>4 DEF AcquireFails
    <3> QED
      BY <3>1, <3>2, Constants, StayStep DEF HeldPlaces
  <2>7. TypedThreads'
    BY <1>4, Constants DEF AcquireFails, TypedThreads, Places, DecoderPlaces, Goto, At, Acquiring
  <2>8. Pending'
    BY <1>4, Constants DEF AcquireFails, TypedThreads, TypedDecoder, Pending, WritePending, HeldPlaces, Goto, At, decoderVars, Acquiring
  <2> QED
    BY <2>1, <2>2, <2>3, <2>4, <2>5, <2>6, <2>7, <2>8
<1>5. CASE AcquireEncode
  <2>1. TypedShared'
    BY <1>5 DEF AcquireEncode, TypedShared, sharedVars, Acquiring
  <2>2. TypedCounts'
    BY <1>5 DEF AcquireEncode, TypedCounts, sharedVars, Acquiring
  <2>3. TypedBuffers'
    BY <1>5 DEF AcquireEncode, TypedBuffers, buffersVars, sharedVars, Acquiring
  <2>4. TypedDecoder'
    BY <1>5 DEF AcquireEncode, TypedDecoder, decoderVars, sharedVars, Acquiring
  <2>5. TypedPacked'
    BY <1>5 DEF AcquireEncode, TypedPacked, sharedVars, Acquiring
  <2>6. Indexed' /\ TypedIndex'
    <3>1. pc' = [pc EXCEPT ![Decoder] = "claim"] /\ index' = [index EXCEPT ![Decoder] = 1]
      BY <1>5 DEF AcquireEncode, Goto
    <3> QED
      BY <3>1, Constants, ScanStep
  <2>7. TypedThreads'
    BY <1>5, Constants DEF AcquireEncode, TypedThreads, Places, DecoderPlaces, Goto, At, Acquiring
  <2>8. Pending'
    BY <1>5, Constants DEF AcquireEncode, TypedThreads, TypedDecoder, Pending, WritePending, HeldPlaces, Goto, At, decoderVars, Acquiring
  <2> QED
    BY <2>1, <2>2, <2>3, <2>4, <2>5, <2>6, <2>7, <2>8
<1>6. CASE AwaitBuffer
  <2>1. TypedShared'
    BY <1>6, Constants DEF AwaitBuffer, TypedShared, sharedVars
  <2>2. TypedCounts'
    BY <1>6 DEF AwaitBuffer, TypedCounts, sharedVars
  <2>3. TypedBuffers'
    BY <1>6 DEF AwaitBuffer, TypedBuffers, buffersVars, sharedVars
  <2>4. TypedDecoder'
    BY <1>6 DEF AwaitBuffer, TypedDecoder, decoderVars, sharedVars
  <2>5. TypedPacked'
    BY <1>6 DEF AwaitBuffer, TypedPacked, sharedVars
  <2>6. Indexed' /\ TypedIndex'
    <3>1. PICK place \in {"acquire", "await buffer"} : pc' = [pc EXCEPT ![Decoder] = place]
      BY <1>6 DEF AwaitBuffer, Goto, TypedThreads, At
    <3>2. index' = index
      BY <1>6 DEF AwaitBuffer
    <3> QED
      BY <3>1, <3>2, Constants, StayStep DEF HeldPlaces
  <2>7. TypedThreads'
    BY <1>6, Constants DEF AwaitBuffer, TypedThreads, Places, DecoderPlaces, Goto, At
  <2>8. Pending'
    BY <1>6, Constants DEF AwaitBuffer, TypedThreads, TypedDecoder, Pending, WritePending, HeldPlaces, Goto, At, decoderVars
  <2> QED
    BY <2>1, <2>2, <2>3, <2>4, <2>5, <2>6, <2>7, <2>8
<1>7. CASE Fill
  <2>1. TypedShared'
    BY <1>7 DEF Fill, TypedShared, sharedVars
  <2>2. TypedCounts'
    BY <1>7 DEF Fill, TypedCounts, sharedVars
  <2>3. TypedBuffers'
    BY <1>7 DEF Fill, TypedBuffers, buffersVars, sharedVars
  <2>4. TypedDecoder'
    <3>1. position[target.plane] \in Nat /\ target.units \in Nat
      BY DEF TypedDecoder
    <3>2. position[target.plane] + target.units \in Nat
      BY <3>1
    <3>3. position' \in [Planes -> Nat]
      BY <1>7, <3>2 DEF Fill, TypedDecoder
    <3> QED
      BY <1>7, <3>3 DEF Fill, TypedDecoder
  <2>5. TypedPacked'
    BY <1>7 DEF Fill, TypedPacked, sharedVars
  <2>6. Indexed' /\ TypedIndex'
    <3>1. PICK place \in {"publish"} : pc' = [pc EXCEPT ![Decoder] = place]
      BY <1>7 DEF Fill, Goto
    <3>2. index' = index
      BY <1>7 DEF Fill
    <3> QED
      BY <3>1, <3>2, Constants, StayStep DEF HeldPlaces
  <2>7. TypedThreads'
    BY <1>7, Constants DEF Fill, TypedThreads, Places, DecoderPlaces, Goto, At
  <2>8. Pending'
    <3>1. pc'[Decoder] = "publish"
      BY <1>7, Constants DEF Fill, Goto, TypedThreads
    <3>2. position[target.plane] + target.units <= Sizes[target.plane] /\ target.plane \in Planes
      BY <1>7 DEF Fill, At, Pending, WritePending, TypedDecoder
    <3>3. position' = [position EXCEPT ![target.plane] = position[target.plane] + target.units]
      BY <1>7 DEF Fill
    <3>4. \A p \in Planes : position'[p] <= Sizes[p]
      BY <3>2, <3>3 DEF Pending, TypedDecoder
    <3> QED
      BY <3>1, <3>4 DEF Pending, WritePending, HeldPlaces
  <2> QED
    BY <2>1, <2>2, <2>3, <2>4, <2>5, <2>6, <2>7, <2>8
<1>8. CASE Publish
  <2>1. TypedShared'
    BY <1>8 DEF Publish, TypedShared, TypedDecoder, sharedVars
  <2>2. TypedCounts'
    BY <1>8 DEF Publish, TypedCounts, sharedVars
  <2>3. TypedBuffers'
    BY <1>8 DEF Publish, TypedBuffers, buffersVars, sharedVars
  <2>4. TypedDecoder'
    BY <1>8 DEF Publish, TypedDecoder, decoderVars, sharedVars
  <2>5. TypedPacked'
    BY <1>8 DEF Publish, TypedPacked, sharedVars
  <2>6. Indexed' /\ TypedIndex'
    <3>1. PICK place \in {"advance"} : pc' = [pc EXCEPT ![Decoder] = place]
      BY <1>8 DEF Publish, Goto
    <3>2. index' = index
      BY <1>8 DEF Publish
    <3> QED
      BY <3>1, <3>2, Constants, StayStep DEF HeldPlaces
  <2>7. TypedThreads'
    BY <1>8, Constants DEF Publish, TypedThreads, Places, DecoderPlaces, Goto, At
  <2>8. Pending'
    BY <1>8, Constants DEF Publish, TypedThreads, TypedDecoder, Pending, WritePending, HeldPlaces, Goto, At, decoderVars
  <2> QED
    BY <2>1, <2>2, <2>3, <2>4, <2>5, <2>6, <2>7, <2>8
<1>9. CASE Advance
  <2>1. TypedShared'
    BY <1>9 DEF Advance, TypedShared, sharedVars
  <2>2. TypedCounts'
    BY <1>9 DEF Advance, TypedCounts, sharedVars
  <2>3. TypedBuffers'
    BY <1>9 DEF Advance, TypedBuffers, buffersVars, sharedVars
  <2>4. TypedDecoder'
    <3>1. target.plane \in Planes
      BY DEF TypedDecoder
    <3>2. NextToWake(target.plane) \in Nat
      BY <3>1, NextToWakeType
    <3>3. wakeStart' \in [Planes -> Nat]
      BY <1>9, <3>2 DEF Advance, TypedDecoder
    <3> QED
      BY <1>9, <3>3 DEF Advance, TypedDecoder
  <2>5. TypedPacked'
    BY <1>9 DEF Advance, TypedPacked, sharedVars
  <2>6. Indexed' /\ TypedIndex'
    <3>1. PICK place \in {"wake advance", "written"} : pc' = [pc EXCEPT ![Decoder] = place]
      BY <1>9 DEF Advance, Goto
    <3>2. index' = index
      BY <1>9 DEF Advance
    <3> QED
      BY <3>1, <3>2, Constants, StayStep DEF HeldPlaces
  <2>7. TypedThreads'
    BY <1>9, Constants DEF Advance, TypedThreads, Places, DecoderPlaces, Goto, At
  <2>8. Pending'
    BY <1>9, Constants DEF Advance, TypedThreads, TypedDecoder, Pending, WritePending, HeldPlaces, Goto, At, decoderVars
  <2> QED
    BY <2>1, <2>2, <2>3, <2>4, <2>5, <2>6, <2>7, <2>8
<1>10. CASE WriteDone
  <2>1. TypedShared'
    BY <1>10 DEF WriteDone, TypedShared, sharedVars
  <2>2. TypedCounts'
    BY <1>10 DEF WriteDone, TypedCounts, sharedVars
  <2>3. TypedBuffers'
    BY <1>10 DEF WriteDone, TypedBuffers, buffersVars, sharedVars
  <2>4. TypedDecoder'
    BY <1>10 DEF WriteDone, TypedDecoder, decoderVars, sharedVars
  <2>5. TypedPacked'
    BY <1>10 DEF WriteDone, TypedPacked, sharedVars
  <2>6. Indexed' /\ TypedIndex'
    <3>1. CASE pc' = [pc EXCEPT ![Decoder] = "claim"] /\ index' = [index EXCEPT ![Decoder] = 1]
      BY <3>1, Constants, ScanStep
    <3>2. CASE pc' = [pc EXCEPT ![Decoder] = "idle"] /\ index' = index
      BY <3>2, Constants, StayStep DEF HeldPlaces
    <3> QED
      BY <1>10, <3>1, <3>2 DEF WriteDone, Goto
  <2>7. TypedThreads'
    BY <1>10, Constants DEF WriteDone, TypedThreads, Places, DecoderPlaces, Goto, At
  <2>8. Pending'
    BY <1>10, Constants DEF WriteDone, TypedThreads, TypedDecoder, Pending, WritePending, HeldPlaces, Goto, At, decoderVars
  <2> QED
    BY <2>1, <2>2, <2>3, <2>4, <2>5, <2>6, <2>7, <2>8
<1>11. ASSUME NEW p \in Planes, Abandon(p)
      PROVE  TInv'
  <2>1. TypedShared'
    BY <1>11 DEF Abandon, TypedShared, sharedVars, Idle
  <2>2. TypedCounts'
    BY <1>11 DEF Abandon, TypedCounts, sharedVars, Idle
  <2>3. TypedBuffers'
    BY <1>11 DEF Abandon, TypedBuffers, buffersVars, sharedVars, Idle
  <2>4. TypedDecoder'
    BY <1>11 DEF Abandon, TypedDecoder, decoderVars, sharedVars, Idle
  <2>5. TypedPacked'
    BY <1>11 DEF Abandon, TypedPacked, sharedVars, Idle
  <2>6. Indexed' /\ TypedIndex'
    <3>1. PICK place \in {"wake abandon"} : pc' = [pc EXCEPT ![Decoder] = place]
      BY <1>11 DEF Abandon, Goto
    <3>2. index' = index
      BY <1>11 DEF Abandon
    <3> QED
      BY <3>1, <3>2, Constants, StayStep DEF HeldPlaces
  <2>7. TypedThreads'
    BY <1>11, Constants DEF Abandon, TypedThreads, Places, DecoderPlaces, Goto, At
  <2>8. Pending'
    BY <1>11, Constants DEF Abandon, TypedThreads, TypedDecoder, Pending, WritePending, HeldPlaces, Goto, At, decoderVars
  <2> QED
    BY <2>1, <2>2, <2>3, <2>4, <2>5, <2>6, <2>7, <2>8
<1>12. CASE Finish
  <2>1. TypedShared'
    BY <1>12 DEF Finish, TypedShared, sharedVars, Idle
  <2>2. TypedCounts'
    BY <1>12 DEF Finish, TypedCounts, sharedVars, Idle
  <2>3. TypedBuffers'
    BY <1>12 DEF Finish, TypedBuffers, buffersVars, sharedVars, Idle
  <2>4. TypedDecoder'
    BY <1>12 DEF Finish, TypedDecoder, decoderVars, sharedVars, Idle
  <2>5. TypedPacked'
    BY <1>12 DEF Finish, TypedPacked, sharedVars, Idle
  <2>6. Indexed' /\ TypedIndex'
    <3>1. PICK place \in {"work"} : pc' = [pc EXCEPT ![Decoder] = place]
      BY <1>12 DEF Finish, Goto
    <3>2. index' = index
      BY <1>12 DEF Finish
    <3> QED
      BY <3>1, <3>2, Constants, StayStep DEF HeldPlaces
  <2>7. TypedThreads'
    BY <1>12, Constants DEF Finish, TypedThreads, Places, DecoderPlaces, Goto, At
  <2>8. Pending'
    BY <1>12, Constants DEF Finish, TypedThreads, TypedDecoder, Pending, WritePending, HeldPlaces, Goto, At, decoderVars
  <2> QED
    BY <2>1, <2>2, <2>3, <2>4, <2>5, <2>6, <2>7, <2>8
<1>13. CASE GiveUp
  <2>1. TypedShared'
    BY <1>13 DEF GiveUp, TypedShared, sharedVars, Idle
  <2>2. TypedCounts'
    BY <1>13 DEF GiveUp, TypedCounts, sharedVars, Idle
  <2>3. TypedBuffers'
    BY <1>13 DEF GiveUp, TypedBuffers, buffersVars, sharedVars, Idle
  <2>4. TypedDecoder'
    BY <1>13 DEF GiveUp, TypedDecoder, decoderVars, sharedVars, Idle
  <2>5. TypedPacked'
    BY <1>13 DEF GiveUp, TypedPacked, sharedVars, Idle
  <2>6. Indexed' /\ TypedIndex'
    <3>1. PICK place \in {"destroy"} : pc' = [pc EXCEPT ![Decoder] = place]
      BY <1>13 DEF GiveUp, Goto
    <3>2. index' = index
      BY <1>13 DEF GiveUp
    <3> QED
      BY <3>1, <3>2, Constants, StayStep DEF HeldPlaces
  <2>7. TypedThreads'
    BY <1>13, Constants DEF GiveUp, TypedThreads, Places, DecoderPlaces, Goto, At
  <2>8. Pending'
    BY <1>13, Constants DEF GiveUp, TypedThreads, TypedDecoder, Pending, WritePending, HeldPlaces, Goto, At, decoderVars
  <2> QED
    BY <2>1, <2>2, <2>3, <2>4, <2>5, <2>6, <2>7, <2>8
<1>14. CASE Destroy
  <2>1. TypedShared'
    BY <1>14 DEF Destroy, TypedShared, sharedVars
  <2>2. TypedCounts'
    BY <1>14 DEF Destroy, TypedCounts, sharedVars
  <2>3. TypedBuffers'
    BY <1>14 DEF Destroy, TypedBuffers, buffersVars, sharedVars
  <2>4. TypedDecoder'
    BY <1>14 DEF Destroy, TypedDecoder, decoderVars, sharedVars
  <2>5. TypedPacked'
    BY <1>14 DEF Destroy, TypedPacked, sharedVars
  <2>6. Indexed' /\ TypedIndex'
    <3>1. PICK place \in {"destroy", "wake destroy"} : pc' = [pc EXCEPT ![Decoder] = place]
      BY <1>14 DEF Destroy, Goto, TypedThreads, At
    <3>2. index' = index
      BY <1>14 DEF Destroy
    <3> QED
      BY <3>1, <3>2, Constants, StayStep DEF HeldPlaces
  <2>7. TypedThreads'
    BY <1>14, Constants DEF Destroy, TypedThreads, Places, DecoderPlaces, Goto, At
  <2>8. Pending'
    BY <1>14, Constants DEF Destroy, TypedThreads, TypedDecoder, Pending, WritePending, HeldPlaces, Goto, At, decoderVars
  <2> QED
    BY <2>1, <2>2, <2>3, <2>4, <2>5, <2>6, <2>7, <2>8
<1>15. CASE Cancel
  <2>1. TypedShared'
    BY <1>15 DEF Cancel, TypedShared, sharedVars
  <2>2. TypedCounts'
    <3>1. queue' = 0
      BY <1>15 DEF Cancel
    <3> QED
      BY <1>15, <3>1 DEF Cancel, TypedCounts, sharedVars
  <2>3. TypedBuffers'
    BY <1>15 DEF Cancel, TypedBuffers, buffersVars, sharedVars
  <2>4. TypedDecoder'
    BY <1>15 DEF Cancel, TypedDecoder, decoderVars, sharedVars
  <2>5. TypedPacked'
    BY <1>15 DEF Cancel, TypedPacked, sharedVars
  <2>6. Indexed' /\ TypedIndex'
    <3>1. PICK place \in {"leave"} : pc' = [pc EXCEPT ![Decoder] = place]
      BY <1>15 DEF Cancel, Goto
    <3>2. index' = index
      BY <1>15 DEF Cancel
    <3> QED
      BY <3>1, <3>2, Constants, StayStep DEF HeldPlaces
  <2>7. TypedThreads'
    BY <1>15, Constants DEF Cancel, TypedThreads, Places, DecoderPlaces, Goto, At
  <2>8. Pending'
    BY <1>15, Constants DEF Cancel, TypedThreads, TypedDecoder, Pending, WritePending, HeldPlaces, Goto, At, decoderVars
  <2> QED
    BY <2>1, <2>2, <2>3, <2>4, <2>5, <2>6, <2>7, <2>8
<1>16. CASE LeaveHelpers
  <2>1. TypedShared'
    BY <1>16, Constants DEF LeaveHelpers, TypedShared, sharedVars
  <2>2. TypedCounts'
    BY <1>16 DEF LeaveHelpers, TypedCounts, sharedVars
  <2>3. TypedBuffers'
    BY <1>16 DEF LeaveHelpers, TypedBuffers, buffersVars, sharedVars
  <2>4. TypedDecoder'
    BY <1>16 DEF LeaveHelpers, TypedDecoder, decoderVars, sharedVars
  <2>5. TypedPacked'
    BY <1>16 DEF LeaveHelpers, TypedPacked, sharedVars
  <2>6. Indexed' /\ TypedIndex'
    <3>1. PICK place \in {"streams", "freed", "leave"} : pc' = [pc EXCEPT ![Decoder] = place]
      BY <1>16 DEF LeaveHelpers, Goto, TypedThreads, At
    <3>2. index' = index
      BY <1>16 DEF LeaveHelpers
    <3> QED
      BY <3>1, <3>2, Constants, StayStep DEF HeldPlaces
  <2>7. TypedThreads'
    BY <1>16, Constants DEF LeaveHelpers, TypedThreads, Places, DecoderPlaces, Goto, At
  <2>8. Pending'
    BY <1>16, Constants DEF LeaveHelpers, TypedThreads, TypedDecoder, Pending, WritePending, HeldPlaces, Goto, At, decoderVars
  <2> QED
    BY <2>1, <2>2, <2>3, <2>4, <2>5, <2>6, <2>7, <2>8
<1>17. CASE Streams
  <2>1. TypedShared'
    BY <1>17 DEF Streams, TypedShared, sharedVars
  <2>2. TypedCounts'
    BY <1>17 DEF Streams, TypedCounts, sharedVars
  <2>3. TypedBuffers'
    BY <1>17 DEF Streams, TypedBuffers, buffersVars, sharedVars
  <2>4. TypedDecoder'
    BY <1>17 DEF Streams, TypedDecoder, decoderVars, sharedVars
  <2>5. TypedPacked'
    BY <1>17 DEF Streams, TypedPacked, sharedVars
  <2>6. Indexed' /\ TypedIndex'
    <3>1. PICK place \in {"destroy"} : pc' = [pc EXCEPT ![Decoder] = place]
      BY <1>17 DEF Streams, Goto
    <3>2. index' = index
      BY <1>17 DEF Streams
    <3> QED
      BY <3>1, <3>2, Constants, StayStep DEF HeldPlaces
  <2>7. TypedThreads'
    BY <1>17, Constants DEF Streams, TypedThreads, Places, DecoderPlaces, Goto, At
  <2>8. Pending'
    BY <1>17, Constants DEF Streams, TypedThreads, TypedDecoder, Pending, WritePending, HeldPlaces, Goto, At, decoderVars
  <2> QED
    BY <2>1, <2>2, <2>3, <2>4, <2>5, <2>6, <2>7, <2>8
<1> QED
  BY <1>1, <1>2, <1>3, <1>4, <1>5, <1>6, <1>7, <1>8, <1>9, <1>10, <1>11, <1>12, <1>13, <1>14, <1>15, <1>16, <1>17 DEF DecoderChoice, DecoderStep

\* A pool thread that comes or leaves keeps the types.
LEMMA TypePool ==
    ASSUME TInv, NEW h \in Helpers, Take(h) \/ Leave(h)
    PROVE  TInv'
<1> USE DEF TInv, Typed
<1>1. CASE Take(h)
  <2>1. TypedShared' /\ TypedPacked'
    BY <1>1 DEF Take, TypedShared, TypedPacked
  <2>2. TypedCounts'
    <3>1. queue \in Nat /\ queue > 0 /\ queue' = queue - 1 /\ running \in Int /\ running' = running + 1
      BY <1>1 DEF Take, TypedCounts
    <3>2. queue' \in Nat /\ running' \in Int
      BY <3>1
    <3> QED
      BY <1>1, <3>2 DEF Take, TypedCounts
  <2>3. TypedBuffers'
    BY <1>1 DEF Take, TypedBuffers, buffersVars
  <2>4. TypedDecoder'
    BY <1>1 DEF Take, TypedDecoder, decoderVars
  <2>5. Indexed' /\ TypedIndex'
    <3>1. pc' = [pc EXCEPT ![h] = "work"] /\ index' = index
      BY <1>1 DEF Take, Goto
    <3> QED
      BY <3>1, Constants, StayStep DEF HeldPlaces
  <2>6. TypedThreads'
    BY <1>1, Constants DEF Take, TypedThreads, Places, DecoderPlaces, Goto, At
  <2>7. Pending'
    BY <1>1, Constants DEF Take, TypedThreads, TypedDecoder, Pending, WritePending, HeldPlaces, Goto, At, decoderVars
  <2> QED
    BY <2>1, <2>2, <2>3, <2>4, <2>5, <2>6, <2>7
<1>2. CASE Leave(h)
  <2>1. TypedShared' /\ TypedPacked'
    BY <1>2 DEF Leave, TypedShared, TypedPacked
  <2>2. TypedCounts'
    <3>1. running \in Int /\ running' = running - 1
      BY <1>2 DEF Leave, TypedCounts
    <3>2. running' \in Int
      BY <3>1
    <3> QED
      BY <1>2, <3>2 DEF Leave, TypedCounts
  <2>3. TypedBuffers'
    BY <1>2 DEF Leave, TypedBuffers, buffersVars
  <2>4. TypedDecoder'
    BY <1>2 DEF Leave, TypedDecoder, decoderVars
  <2>5. Indexed' /\ TypedIndex'
    <3>1. pc' = [pc EXCEPT ![h] = "pool"] /\ index' = index
      BY <1>2 DEF Leave, Goto
    <3> QED
      BY <3>1, Constants, StayStep DEF HeldPlaces
  <2>6. TypedThreads'
    BY <1>2, Constants DEF Leave, TypedThreads, Places, DecoderPlaces, Goto, At
  <2>7. Pending'
    BY <1>2, Constants DEF Leave, TypedThreads, TypedDecoder, Pending, WritePending, HeldPlaces, Goto, At, decoderVars
  <2> QED
    BY <2>1, <2>2, <2>3, <2>4, <2>5, <2>6, <2>7
<1> QED
  BY <1>1, <1>2

\* Every behaviour keeps the types.
LEMMA TypeInit ==
    ASSUME Init
    PROVE  TInv
<1> USE Constants
<1>1. Typed
  <2>1. TypedShared
    BY DEF Init, TypedShared
  <2>2. TypedCounts
    <3>1. Cardinality(Helpers) \in Nat
      BY HelpersAssumption, FS_CardinalityType
    <3> QED
      BY <3>1 DEF Init, TypedCounts
  <2>3. TypedBuffers
    <3>1. 0 \in 0 .. bufferLimit
      OBVIOUS
    <3> QED
      BY <3>1 DEF Init, TypedBuffers
  <2>4. TypedDecoder
    BY DEF Init, TypedDecoder
  <2>5. TypedThreads
    BY DEF Init, TypedThreads, Places, DecoderPlaces
  <2>6. TypedPacked
    BY DEF Init, TypedPacked
  <2>7. TypedIndex
    <3>1. 0 \in 0 .. Count + 1
      OBVIOUS
    <3> QED
      BY <3>1 DEF Init, TypedIndex
  <2> QED
    BY <2>1, <2>2, <2>3, <2>4, <2>5, <2>6, <2>7 DEF Typed
<1>2. Indexed
  BY DEF Init, Indexed, HeldPlaces
<1>3. Pending
  BY DEF Init, Pending, WritePending, HeldPlaces
<1> QED
  BY <1>1, <1>2, <1>3 DEF TInv

LEMMA TypeStutter ==
    ASSUME TInv, UNCHANGED vars
    PROVE  TInv'
<1> USE DEF TInv, vars
<1>1. Typed'
  BY DEF Typed, TypedShared, TypedCounts, TypedBuffers, TypedDecoder, TypedThreads, TypedPacked, TypedIndex
<1>2. Indexed'
  BY DEF Indexed
<1>3. Pending'
  BY DEF Pending, WritePending
<1> QED
  BY <1>1, <1>2, <1>3

LEMMA TypeStep ==
    ASSUME TInv, [Next]_vars
    PROVE  TInv'
<1>1. CASE \E t \in Threads : ThreadStep(t)
  BY <1>1, TypeThread
<1>2. CASE \E h \in Helpers : Take(h) \/ Leave(h)
  BY <1>2, TypePool
<1>3. CASE DecoderChoice \/ DecoderStep
  BY <1>3, TypeDecoder
<1>4. CASE UNCHANGED vars
  BY <1>4, TypeStutter
<1> QED
  BY <1>1, <1>2, <1>3, <1>4 DEF Next, Rest

-----------------------------------------------------------------------------
(* The counts of sleepers and of helpers in the encoder *)

SleepPlaces == {"check", "sleep"}
Sleepers == {t \in Threads : pc[t] \in SleepPlaces}
Inside == {h \in Helpers : pc[h] # "pool"}

Counted == sleepers = Cardinality(Sleepers) /\ running = Cardinality(Inside)

\* What one thread's move does to the number of threads of S at the places P.
LEMMA CountMove ==
    ASSUME TypedThreads, NEW S \in SUBSET Threads, IsFiniteSet(S), NEW P,
           NEW t \in Threads, NEW place, pc' = [pc EXCEPT ![t] = place]
    PROVE  LET A == {u \in S : pc[u] \in P}
               B == {u \in S : pc'[u] \in P}
           IN  /\ Cardinality(A) \in Nat /\ Cardinality(B) \in Nat
               /\ t \in S /\ pc[t] \notin P /\ place \in P => Cardinality(B) = Cardinality(A) + 1
               /\ t \in S /\ pc[t] \in P /\ place \notin P => Cardinality(B) = Cardinality(A) - 1
               /\ (t \notin S \/ (pc[t] \in P <=> place \in P)) => B = A
<1> DEFINE A == {u \in S : pc[u] \in P}
           B == {u \in S : pc'[u] \in P}
<1>1. pc'[t] = place /\ \A u \in Threads \ {t} : pc'[u] = pc[u]
  BY DEF TypedThreads
<1>2. IsFiniteSet(A) /\ IsFiniteSet(B)
  BY FS_Subset
<1>3. Cardinality(A) \in Nat /\ Cardinality(B) \in Nat
  BY <1>2, FS_CardinalityType
<1>4. ASSUME t \in S, pc[t] \notin P, place \in P
      PROVE  Cardinality(B) = Cardinality(A) + 1
  <2>1. B = A \cup {t} /\ t \notin A
    BY <1>1, <1>4
  <2> QED
    BY <1>2, <2>1, FS_AddElement
<1>5. ASSUME t \in S, pc[t] \in P, place \notin P
      PROVE  Cardinality(B) = Cardinality(A) - 1
  <2>1. B = A \ {t} /\ t \in A
    BY <1>1, <1>5
  <2> QED
    BY <1>2, <2>1, FS_RemoveElement
<1>6. ASSUME t \notin S \/ (pc[t] \in P <=> place \in P)
      PROVE  B = A
  BY <1>1, <1>6
<1> QED
  BY <1>3, <1>4, <1>5, <1>6

LEMMA ThreadsFinite == IsFiniteSet(Threads) /\ IsFiniteSet(Helpers)
BY HelpersAssumption, FS_AddElement DEF Threads

\* A thread at a step of Work moves once, and counts itself asleep as it moves.
LEMMA ThreadMove ==
    ASSUME TInv, NEW t \in Threads, ThreadStep(t)
    PROVE  /\ running' = running /\ pc[t] # "pool"
           /\ \E place : /\ pc' = [pc EXCEPT ![t] = place] /\ place # "pool"
                         /\ \/ sleepers' = sleepers + 1 /\ pc[t] \notin SleepPlaces /\ place \in SleepPlaces
                            \/ sleepers' = sleepers - 1 /\ pc[t] \in SleepPlaces /\ place \notin SleepPlaces
                            \/ sleepers' = sleepers /\ (pc[t] \in SleepPlaces <=> place \in SleepPlaces)
<1> USE DEF SleepPlaces, Goto, At
<1> DEFINE Moves(place) == pc' = [pc EXCEPT ![t] = place]
<1>0. TypedThreads
  BY DEF TInv, Typed
<1>1. CASE WorkLoop(t)
  <2>1. \E place \in {"claim", "cancel", "exit"} : Moves(place)
    BY <1>1 DEF WorkLoop
  <2> QED
    BY <1>1, <2>1 DEF WorkLoop
<1>2. CASE ClaimTake(t) \/ ClaimSkip(t)
  BY <1>0, <1>2 DEF ClaimTake, ClaimSkip, TypedThreads
<1>3. CASE ClaimNone(t)
  <2>1. \E place \in {"lock", "await buffer", "idle"} : Moves(place)
    BY <1>3 DEF ClaimNone
  <2> QED
    BY <1>3, <2>1 DEF ClaimNone
<1>4. CASE CountClaim(t)
  <2>1. \E place \in {"wake last", "encode"} : Moves(place)
    BY <1>4 DEF CountClaim
  <2> QED
    BY <1>4, <2>1 DEF CountClaim
<1>5. CASE Encode(t)
  <2>1. \E place \in {"deflate", "release"} : Moves(place)
    BY <1>5 DEF Encode
  <2> QED
    BY <1>5, <2>1 DEF Encode
<1>6. CASE DeflateBlock(t)
  <2>1. \E place \in {"deflate", "release"} : Moves(place)
    BY <1>0, <1>6 DEF DeflateBlock, TypedThreads
  <2> QED
    BY <1>6, <2>1 DEF DeflateBlock
<1>7. CASE DeflateStop(t)
  <2>1. Moves("release")
    BY <1>7 DEF DeflateStop
  <2> QED
    BY <1>7, <2>1 DEF DeflateStop
<1>8. CASE Release(t)
  <2>1. \E place \in {"work", "acquire", "claim"} : Moves(place)
    BY <1>8 DEF Release, Released
  <2> QED
    BY <1>8, <2>1 DEF Release
<1>9. CASE Lock(t)
  BY <1>9 DEF Lock
<1>10. CASE CheckYes(t)
  <2>1. Moves("work") /\ sleepers' = sleepers - 1 /\ running' = running /\ pc[t] = "check"
    BY <1>10 DEF CheckYes
  <2>2. pc[t] \in SleepPlaces /\ "work" \notin SleepPlaces /\ pc[t] # "pool"
    BY <2>1
  <2> HIDE DEF SleepPlaces
  <2>3. \E place : Moves(place) /\ place # "pool" /\ place \notin SleepPlaces
    BY <2>1, <2>2
  <2> QED
    BY <2>1, <2>2, <2>3
<1>11. CASE CheckNext(t)
  BY <1>0, <1>11 DEF CheckNext, TypedThreads
<1>12. CASE CheckNo(t)
  BY <1>12 DEF CheckNo
<1>13. CASE Woken(t)
  BY <1>13 DEF Woken
<1>14. CASE Wake(t)
  <2>1. pc[t] \in {"wake last", "wake advance", "wake abandon", "wake destroy"}
    BY <1>14, WakeNextValues DEF Wake
  <2>2. \E place \in {"encode", "written", "idle", "cancel"} : Moves(place)
    BY <1>14, <2>1, WakeNextValues DEF Wake
  <2> QED
    BY <1>14, <2>1, <2>2 DEF Wake
<1> QED
  BY <1>1, <1>2, <1>3, <1>4, <1>5, <1>6, <1>7, <1>8, <1>9, <1>10, <1>11, <1>12, <1>13, <1>14
  DEF ThreadStep

\* The decoder's own steps count no one, and take it neither to nor from sleep.
OwnPlaces == DecoderPlaces \ {"wake advance", "wake abandon", "wake destroy"}

LeavingPlaces == OwnPlaces \cup {"work", "claim", "wake abandon", "wake advance", "wake destroy"}

LEMMA DecoderGoes ==
    ASSUME TInv, DecoderChoice \/ DecoderStep
    PROVE  \E place \in LeavingPlaces : pc' = [pc EXCEPT ![Decoder] = place]
<1> USE DEF Goto, At, sharedVars
<1> DEFINE Moves(place) == pc' = [pc EXCEPT ![Decoder] = place]
<1>0. TypedThreads
  BY DEF TInv, Typed
<1>1. ASSUME NEW p \in Planes, NEW n, Write(p, n)
      PROVE  \E place \in {"acquire", "fill"} : Moves(place)
  BY <1>1 DEF Write
<1>2. ASSUME NEW p \in Planes, Abandon(p)
      PROVE  Moves("wake abandon")
  BY <1>2 DEF Abandon
<1>3. ASSUME Finish \/ GiveUp
      PROVE  \E place \in {"work", "destroy"} : Moves(place)
  BY <1>3 DEF Finish, GiveUp
<1>4. ASSUME NEW b \in Buffers, AcquireSpare(b)
      PROVE  Moves("fill")
  BY <1>4 DEF AcquireSpare, GiveBuffer
<1>5. ASSUME AcquireNew \/ AcquireFails \/ AcquireEncode
      PROVE  \E place \in {"fill", "destroy", "claim"} : Moves(place)
  BY <1>5 DEF AcquireNew, GiveBuffer, AcquireFails, AcquireEncode
<1>6. ASSUME AwaitBuffer
      PROVE  \E place \in {"acquire", "await buffer"} : Moves(place)
  BY <1>0, <1>6 DEF AwaitBuffer, TypedThreads
<1>7. ASSUME Fill \/ Publish \/ Advance \/ WriteDone
      PROVE  \E place \in {"publish", "advance", "wake advance", "written", "idle", "claim"} : Moves(place)
  BY <1>7 DEF Fill, Publish, Advance, WriteDone
<1>8. ASSUME Destroy
      PROVE  \E place \in {"destroy", "wake destroy"} : Moves(place)
  BY <1>0, <1>8 DEF Destroy, TypedThreads
<1>9. ASSUME Cancel \/ LeaveHelpers \/ Streams
      PROVE  \E place \in {"leave", "streams", "freed", "destroy"} : Moves(place)
  BY <1>0, <1>9 DEF Cancel, LeaveHelpers, Streams, TypedThreads
<1> QED
  BY <1>1, <1>2, <1>3, <1>4, <1>5, <1>6, <1>7, <1>8, <1>9
  DEF DecoderChoice, DecoderStep, LeavingPlaces, OwnPlaces, DecoderPlaces

LEMMA DecoderMove ==
    ASSUME TInv, DecoderChoice \/ DecoderStep
    PROVE  /\ running' = running /\ sleepers' = sleepers /\ pc[Decoder] \notin SleepPlaces
           /\ \E place : pc' = [pc EXCEPT ![Decoder] = place] /\ place \notin SleepPlaces
<1> USE DEF Goto, At, SleepPlaces, sharedVars
<1>10. \E place \in LeavingPlaces : pc' = [pc EXCEPT ![Decoder] = place]
  BY DecoderGoes
<1>11. pc[Decoder] \in OwnPlaces /\ running' = running /\ sleepers' = sleepers
  BY DEF DecoderChoice, DecoderStep, OwnPlaces, DecoderPlaces, Idle, Acquiring, Write, Abandon, Finish,
     GiveUp, AcquireSpare, AcquireNew, AcquireFails, AcquireEncode, AwaitBuffer, Fill, Publish, Advance,
     WriteDone, Destroy, Cancel, LeaveHelpers, Streams
<1> QED
  BY <1>10, <1>11 DEF LeavingPlaces, OwnPlaces, DecoderPlaces

LEMMA CountStep ==
    ASSUME TInv, Counted, [Next]_vars
    PROVE  Counted'
<1> USE ThreadsFinite, Constants
<1> DEFINE Awake == (Places \cup DecoderPlaces) \ {"pool"}
<1>0. TypedThreads /\ sleepers \in Int /\ running \in Int
  BY DEF TInv, Typed, TypedCounts
<1>1. Inside = {h \in Helpers : pc[h] \in Awake} /\ Sleepers = {t \in Threads : pc[t] \in SleepPlaces}
  BY <1>0 DEF Inside, Sleepers, TypedThreads
<1>2. ASSUME NEW t \in Threads, NEW place, pc' = [pc EXCEPT ![t] = place],
             t \notin Helpers \/ (pc[t] # "pool" /\ place # "pool"), running' = running,
             \/ sleepers' = sleepers + 1 /\ pc[t] \notin SleepPlaces /\ place \in SleepPlaces
             \/ sleepers' = sleepers - 1 /\ pc[t] \in SleepPlaces /\ place \notin SleepPlaces
             \/ sleepers' = sleepers /\ (pc[t] \in SleepPlaces <=> place \in SleepPlaces)
      PROVE  Counted'
  <2>1. Inside' = Inside
    BY <1>0, <1>2 DEF Inside, TypedThreads
  <2>2. sleepers' = Cardinality(Sleepers')
    <3> DEFINE B == {u \in Threads : pc'[u] \in SleepPlaces}
    <3>1. Sleepers' = B
      BY DEF Sleepers
    <3>2. /\ Cardinality(Sleepers) \in Nat
          /\ pc[t] \notin SleepPlaces /\ place \in SleepPlaces => Cardinality(B) = Cardinality(Sleepers) + 1
          /\ pc[t] \in SleepPlaces /\ place \notin SleepPlaces => Cardinality(B) = Cardinality(Sleepers) - 1
          /\ (pc[t] \in SleepPlaces <=> place \in SleepPlaces) => B = Sleepers
      BY <1>0, <1>1, <1>2, CountMove
    <3>3. sleepers = Cardinality(Sleepers)
      BY DEF Counted
    <3> QED
      BY <1>2, <3>1, <3>2, <3>3
  <2> QED
    BY <1>2, <2>1, <2>2 DEF Counted
<1>3. ASSUME NEW t \in Threads, ThreadStep(t)
      PROVE  Counted'
  BY <1>2, <1>3, ThreadMove
<1>4. ASSUME DecoderChoice \/ DecoderStep
      PROVE  Counted'
  BY <1>2, <1>4, DecoderMove
<1>5. ASSUME NEW h \in Helpers, Take(h) \/ Leave(h)
      PROVE  Counted'
  <2> DEFINE B == {u \in Helpers : pc'[u] \in Awake}
  <2>1. PICK place \in {"work", "pool"} :
            /\ pc' = [pc EXCEPT ![h] = place]
            /\ \/ pc[h] = "pool" /\ place = "work" /\ running' = running + 1
               \/ pc[h] = "exit" /\ place = "pool" /\ running' = running - 1
    BY <1>5 DEF Take, Leave, Goto, At
  <2>2. sleepers' = sleepers
    BY <1>5 DEF Take, Leave
  <2>3. Sleepers' = Sleepers
    BY <1>0, <2>1 DEF Sleepers, SleepPlaces, TypedThreads
  <2>4. Inside' = B
    BY <1>0, <2>1 DEF Inside, TypedThreads, Places
  <2>5. \/ pc[h] \notin Awake /\ place \in Awake /\ running' = running + 1
        \/ pc[h] \in Awake /\ place \notin Awake /\ running' = running - 1
    BY <2>1 DEF Places
  <2>6. /\ Cardinality(Inside) \in Nat
        /\ pc[h] \notin Awake /\ place \in Awake => Cardinality(B) = Cardinality(Inside) + 1
        /\ pc[h] \in Awake /\ place \notin Awake => Cardinality(B) = Cardinality(Inside) - 1
    <3> HIDE DEF Awake
    <3> QED
      BY <1>0, <1>1, <2>1, CountMove
  <2> HIDE DEF Awake, B
  <2> QED
    BY <2>2, <2>3, <2>4, <2>5, <2>6 DEF Counted
<1>6. ASSUME UNCHANGED vars
      PROVE  Counted'
  BY <1>6 DEF vars, Counted, Sleepers, Inside
<1> QED
  BY <1>3, <1>4, <1>5, <1>6 DEF Next, Rest

LEMMA CountInit ==
    ASSUME Init
    PROVE  Counted
<1>1. Sleepers = {} /\ Inside = {}
  BY Constants DEF Init, Sleepers, Inside, SleepPlaces
<1> QED
  BY <1>1, FS_EmptySet DEF Init, Counted

\* TypeOK in every state, the counters never below zero.
LEMMA TypeOKFromInvariant ==
    ASSUME TInv, Counted
    PROVE  TypeOK
<1>1. Cardinality(Sleepers) \in Nat /\ Cardinality(Inside) \in Nat
  <2>1. IsFiniteSet(Sleepers) /\ IsFiniteSet(Inside)
    BY ThreadsFinite, FS_Subset DEF Sleepers, Inside
  <2> QED
    BY <2>1, FS_CardinalityType
<1>2. sleepers \in Nat /\ running \in Nat
  BY <1>1 DEF Counted
<1> QED
  BY <1>2 DEF TypeOK, TInv, Typed, TypedShared, TypedCounts, TypedBuffers, TypedDecoder, TypedThreads,
              TypedPacked, TypedIndex, Pending

THEOREM TypeCorrect == Spec => []TypeOK
<1>1. Init => TInv /\ Counted
  BY TypeInit, CountInit
<1>2. TInv /\ Counted /\ [Next]_vars => TInv' /\ Counted'
  BY TypeStep, CountStep
<1>3. TInv /\ Counted => TypeOK
  BY TypeOKFromInvariant
<1> QED
  BY <1>1, <1>2, <1>3, PTL DEF Spec

-----------------------------------------------------------------------------
(* Each segment is held by one thread *)

\* A thread either takes an untaken segment or moves without a new one.
HeldMove(t) ==
    \/ /\ pc[t] = "claim" /\ pc' = [pc EXCEPT ![t] = "count"] /\ index' = index
       /\ ~claimed[index[t]] /\ claimed' = [claimed EXCEPT ![index[t]] = TRUE]
    \/ /\ claimed' = claimed
       /\ \E place : /\ pc' = [pc EXCEPT ![t] = place]
                     /\ place \in HeldPlaces => pc[t] \in HeldPlaces /\ index' = index
       /\ \A u \in Threads \ {t} : index'[u] = index[u]

LEMMA ThreadHolds ==
    ASSUME TInv, NEW t \in Threads, ThreadStep(t)
    PROVE  HeldMove(t)
<1> USE DEF Goto, At
<1>0. TypedThreads /\ TypedIndex
  BY DEF TInv, Typed
<1> DEFINE Moves(place) == pc' = [pc EXCEPT ![t] = place]
<1>1. CASE WorkLoop(t)
  <2>1. \E place \in {"claim", "cancel", "exit"} : Moves(place)
    BY <1>1 DEF WorkLoop
  <2>2. claimed' = claimed /\ \A u \in Threads \ {t} : index'[u] = index[u]
    BY <1>0, <1>1 DEF WorkLoop, TypedIndex
  <2> QED
    BY <2>1, <2>2 DEF HeldMove, HeldPlaces
<1>2. CASE ClaimTake(t)
  BY <1>2 DEF ClaimTake, Claimable, HeldMove
<1>3. CASE ClaimSkip(t)
  <2>1. /\ \E place \in {"claim", "exit"} : Moves(place)
        /\ claimed' = claimed /\ \A u \in Threads \ {t} : index'[u] = index[u]
    BY <1>0, <1>3 DEF ClaimSkip, TypedThreads, TypedIndex
  <2> QED
    BY <2>1 DEF HeldMove, HeldPlaces
<1>4. CASE ClaimNone(t)
  <2>1. \E place \in {"lock", "await buffer", "idle"} : Moves(place)
    BY <1>4 DEF ClaimNone
  <2>2. claimed' = claimed /\ \A u \in Threads \ {t} : index'[u] = index[u]
    BY <1>0, <1>4 DEF ClaimNone, TypedIndex
  <2> QED
    BY <2>1, <2>2 DEF HeldMove, HeldPlaces
<1>5. CASE CountClaim(t) \/ Encode(t) \/ DeflateBlock(t) \/ DeflateStop(t)
  <2>1. \E place : Moves(place)
    BY <1>0, <1>5 DEF CountClaim, Encode, DeflateBlock, DeflateStop, TypedThreads
  <2>2. claimed' = claimed /\ index' = index /\ pc[t] \in HeldPlaces
    BY <1>5 DEF CountClaim, Encode, DeflateBlock, DeflateStop, HeldPlaces
  <2> QED
    BY <2>1, <2>2 DEF HeldMove
<1>6. CASE Release(t)
  <2>1. \E place \in {"work", "acquire", "claim"} : Moves(place)
    BY <1>6 DEF Release, Released
  <2>2. claimed' = claimed /\ \A u \in Threads \ {t} : index'[u] = index[u]
    BY <1>0, <1>6 DEF Release, Released, TypedIndex
  <2> QED
    BY <2>1, <2>2 DEF HeldMove, HeldPlaces
<1>7. CASE Lock(t) \/ CheckYes(t) \/ CheckNo(t) \/ Woken(t)
  <2>1. \E place \in {"check", "work", "sleep"} : Moves(place)
    BY <1>7 DEF Lock, CheckYes, CheckNo, Woken
  <2>2. claimed' = claimed /\ \A u \in Threads \ {t} : index'[u] = index[u]
    BY <1>0, <1>7 DEF Lock, CheckYes, CheckNo, Woken, TypedIndex
  <2> QED
    BY <2>1, <2>2 DEF HeldMove, HeldPlaces
<1>8. CASE CheckNext(t)
  <2>1. /\ \E place \in {"check", "work"} : Moves(place)
        /\ claimed' = claimed /\ \A u \in Threads \ {t} : index'[u] = index[u]
    BY <1>0, <1>8 DEF CheckNext, TypedThreads, TypedIndex
  <2> QED
    BY <2>1 DEF HeldMove, HeldPlaces
<1>9. CASE Wake(t)
  <2>1. pc[t] \in {"wake last", "wake advance", "wake abandon", "wake destroy"}
    BY <1>9, WakeNextValues DEF Wake
  <2>2. claimed' = claimed /\ index' = index
    BY <1>9 DEF Wake
  <2>3. CASE pc[t] = "wake last"
    BY <1>9, <2>2, <2>3 DEF Wake, HeldMove, HeldPlaces
  <2>4. CASE pc[t] # "wake last"
    <3>1. \E place \in {"written", "idle", "cancel"} : Moves(place)
      BY <1>9, <2>1, <2>4, WakeNextValues DEF Wake
    <3> QED
      BY <2>2, <3>1 DEF HeldMove, HeldPlaces
  <2> QED
    BY <2>3, <2>4
<1> QED
  BY <1>1, <1>2, <1>3, <1>4, <1>5, <1>6, <1>7, <1>8, <1>9 DEF ThreadStep

LEMMA DecoderHolds ==
    ASSUME TInv, DecoderChoice \/ DecoderStep
    PROVE  HeldMove(Decoder)
<1> USE DEF Goto, At, sharedVars
<1>0. TypedIndex
  BY DEF TInv, Typed
<1>10. \E place : pc' = [pc EXCEPT ![Decoder] = place] /\ place \notin HeldPlaces
  BY DecoderGoes DEF LeavingPlaces, OwnPlaces, DecoderPlaces, HeldPlaces
<1>11. claimed' = claimed
  BY DEF DecoderChoice, DecoderStep, Write, Abandon, Finish, GiveUp, AcquireSpare, AcquireNew,
     AcquireFails, AcquireEncode, AwaitBuffer, Fill, Publish, Advance, WriteDone, Destroy, Cancel,
     LeaveHelpers, Streams
<1>12. \A u \in Threads \ {Decoder} : index'[u] = index[u]
  BY <1>0 DEF DecoderChoice, DecoderStep, Write, Abandon, Finish, GiveUp, AcquireSpare, AcquireNew,
     AcquireFails, AcquireEncode, AwaitBuffer, Fill, Publish, Advance, WriteDone, Destroy, Cancel,
     LeaveHelpers, Streams, TypedIndex
<1> QED
  BY <1>10, <1>11, <1>12 DEF HeldMove

LEMMA HeldMoveKeeps ==
    ASSUME TInv, TInv', OneThreadEach, NEW t \in Threads, HeldMove(t)
    PROVE  OneThreadEach'
<1>0. /\ pc \in [Threads -> Places \cup DecoderPlaces] /\ index \in [Threads -> 0 .. Count + 1]
      /\ claimed \in [Segs -> BOOLEAN]
      /\ \A u \in Threads : pc[u] \in HeldPlaces => index[u] \in Segs
      /\ \A u \in Threads : pc'[u] \in HeldPlaces => index'[u] \in Segs
  BY DEF TInv, Typed, TypedShared, TypedThreads, TypedIndex, Indexed
<1>1. \A u \in Threads : Encoding(u) <=> pc[u] \in HeldPlaces
  BY DEF Encoding, HeldPlaces
<1>2. \A u \in Threads : Encoding(u)' <=> pc'[u] \in HeldPlaces
  BY DEF Encoding, HeldPlaces
<1>3. CASE /\ pc[t] = "claim" /\ pc' = [pc EXCEPT ![t] = "count"] /\ index' = index
           /\ ~claimed[index[t]] /\ claimed' = [claimed EXCEPT ![index[t]] = TRUE]
  <2>1. \A u \in Threads \ {t} : pc'[u] = pc[u] /\ index'[u] = index[u]
    BY <1>0, <1>3
  <2>2. \A u \in Threads \ {t} : Encoding(u) => index[u] # index[t]
    BY <1>3 DEF OneThreadEach
  <2>3. pc'[t] = "count" /\ index[t] \in Segs
    BY <1>0, <1>3 DEF HeldPlaces
  <2> QED
    BY <1>0, <1>1, <1>2, <1>3, <2>1, <2>2, <2>3 DEF OneThreadEach
<1>4. CASE /\ claimed' = claimed
           /\ \E place : /\ pc' = [pc EXCEPT ![t] = place]
                         /\ place \in HeldPlaces => pc[t] \in HeldPlaces /\ index' = index
           /\ \A u \in Threads \ {t} : index'[u] = index[u]
  <2>1. \A u \in Threads : pc'[u] \in HeldPlaces => pc[u] \in HeldPlaces /\ index'[u] = index[u]
    BY <1>0, <1>4
  <2> QED
    BY <1>1, <1>2, <1>4, <2>1 DEF OneThreadEach
<1> QED
  BY <1>3, <1>4 DEF HeldMove

LEMMA HoldersStep ==
    ASSUME TInv, TInv', OneThreadEach, [Next]_vars
    PROVE  OneThreadEach'
<1>1. CASE \E t \in Threads : ThreadStep(t)
  BY <1>1, ThreadHolds, HeldMoveKeeps
<1>2. ASSUME NEW h \in Helpers, Take(h) \/ Leave(h)
      PROVE  OneThreadEach'
  <2>1. HeldMove(h)
    BY <1>2 DEF Take, Leave, HeldMove, HeldPlaces, Goto
  <2> QED
    BY <2>1, Constants, HeldMoveKeeps
<1>3. CASE DecoderChoice \/ DecoderStep
  BY <1>3, Constants, DecoderHolds, HeldMoveKeeps
<1>4. CASE UNCHANGED vars
  BY <1>4 DEF vars, OneThreadEach, Encoding
<1> QED
  BY <1>1, <1>2, <1>3, <1>4 DEF Next, Rest

LEMMA HoldersInit ==
    ASSUME Init
    PROVE  OneThreadEach
BY Constants DEF Init, OneThreadEach, Encoding

\* No two threads ever compress the same segment.
THEOREM SegmentsDivided == Spec => []OneThreadEach
<1>1. Init => TInv /\ OneThreadEach
  BY TypeInit, HoldersInit
<1>2. TInv /\ OneThreadEach /\ [Next]_vars => TInv' /\ OneThreadEach'
  BY TypeStep, HoldersStep
<1> QED
  BY <1>1, <1>2, PTL DEF Spec

-----------------------------------------------------------------------------
(* The lock, the threads that wait and the end of the state *)

WaitPlaces == {"sleep", "await buffer", "leave"}

\* Once Cancel emptied the queue no helper comes; once running was 0 none is inside.
Locked ==
    /\ \A t \in Threads : mutex = t <=> pc[t] = "check"
    /\ \A t \in waiting : pc[t] \in WaitPlaces
    /\ pc[Decoder] \in {"leave", "streams", "freed"} => queue = 0
    /\ pc[Decoder] \in {"streams", "freed"} => \A h \in Helpers : pc[h] = "pool"

\* What a step of one thread does to the lock and to the threads that wait.
Passes(t, place) ==
    /\ pc' = [pc EXCEPT ![t] = place]
    /\ \/ mutex' = mutex /\ pc[t] # "check" /\ place # "check"
       \/ mutex = NoThread /\ mutex' = t /\ place = "check"
       \/ pc[t] = "check" /\ mutex' = NoThread /\ place # "check"
       \/ mutex' = mutex /\ place = pc[t]
    /\ \/ waiting' = {}
       \/ waiting' \subseteq waiting /\ (t \notin waiting \/ place \in WaitPlaces)
       \/ waiting' = waiting \cup {t} /\ place \in WaitPlaces

LEMMA PassesKeep ==
    ASSUME TypedThreads, TypedShared, Locked, NEW t \in Threads, NEW place, Passes(t, place)
    PROVE  /\ \A u \in Threads : mutex' = u <=> pc'[u] = "check"
           /\ \A u \in waiting' : pc'[u] \in WaitPlaces
<1>0. /\ pc'[t] = place /\ \A u \in Threads \ {t} : pc'[u] = pc[u]
      /\ NoThread \notin Threads /\ waiting \subseteq Threads
  BY Constants DEF Passes, TypedThreads, TypedShared
<1>1. \A u \in Threads : mutex' = u <=> pc'[u] = "check"
  BY <1>0 DEF Passes, Locked
<1>2. ASSUME NEW u \in waiting'
      PROVE  pc'[u] \in WaitPlaces
  <2>1. CASE u = t
    BY <1>0, <2>1, <1>2 DEF Passes
  <2>2. CASE u # t
    <3>1. u \in waiting
      BY <1>2, <2>2 DEF Passes
    <3> QED
      BY <1>0, <2>2, <3>1 DEF Locked
  <2> QED
    BY <2>1, <2>2
<1> QED
  BY <1>1, <1>2

LEMMA ThreadPasses ==
    ASSUME TInv, Locked, NEW t \in Threads, ThreadStep(t)
    PROVE  /\ \E place \in Places \cup DecoderPlaces : Passes(t, place)
           /\ queue' = queue /\ pc[t] # "pool" /\ pc'[t] \notin {"leave", "streams", "freed"}
<1> USE DEF Goto, At
<1>0. TypedThreads /\ pc[t] \in Places \cup DecoderPlaces
  BY DEF TInv, Typed, TypedThreads
<1> DEFINE Moves(place) == pc' = [pc EXCEPT ![t] = place]
<1>1. ASSUME NEW place, Moves(place)
      PROVE  pc'[t] = place
  BY <1>0, <1>1 DEF TypedThreads
<1>q. ASSUME NEW place \in Places \cup DecoderPlaces, Moves(place), mutex' = mutex,
             pc[t] # "check", place # "check", pc[t] # "pool", pc[t] \notin WaitPlaces,
             waiting' = waiting \/ waiting' = {}, queue' = queue,
             place \notin {"leave", "streams", "freed"}
      PROVE  /\ \E q \in Places \cup DecoderPlaces : Passes(t, q)
             /\ queue' = queue /\ pc[t] # "pool" /\ pc'[t] \notin {"leave", "streams", "freed"}
  <2>1. t \notin waiting
    BY <1>q DEF Locked
  <2> QED
    BY <1>q, <1>1, <2>1 DEF Passes
<1>2. CASE WorkLoop(t)
  <2>1. \E place \in {"claim", "cancel", "exit"} : Moves(place)
    BY <1>2 DEF WorkLoop
  <2> QED
    BY <1>2, <2>1, <1>q DEF WorkLoop, WaitPlaces, Places, DecoderPlaces
<1>3. CASE ClaimTake(t) \/ CountClaim(t) \/ Encode(t)
  <2>1. \E place \in {"count", "wake last", "encode", "deflate", "release"} : Moves(place)
    BY <1>3 DEF ClaimTake, CountClaim, Encode
  <2> QED
    BY <1>3, <2>1, <1>q DEF ClaimTake, CountClaim, Encode, WaitPlaces, Places, DecoderPlaces
<1>4. CASE ClaimSkip(t)
  <2>1. Moves("claim")
    BY <1>0, <1>4 DEF ClaimSkip, TypedThreads
  <2> QED
    BY <1>4, <2>1, <1>q DEF ClaimSkip, WaitPlaces, Places
<1>5. CASE ClaimNone(t)
  <2>1. \E place \in {"lock", "await buffer", "idle"} : Moves(place)
    BY <1>5 DEF ClaimNone
  <2> QED
    BY <1>5, <2>1, <1>q DEF ClaimNone, WaitPlaces, Places, DecoderPlaces
<1>6. CASE DeflateBlock(t) \/ DeflateStop(t)
  <2>1. \E place \in {"deflate", "release"} : Moves(place)
    BY <1>0, <1>6 DEF DeflateBlock, DeflateStop, TypedThreads
  <2>2. pc[t] = "deflate" /\ mutex' = mutex /\ waiting' = waiting /\ queue' = queue
    BY <1>6 DEF DeflateBlock, DeflateStop
  <2> QED
    BY <2>1, <2>2, <1>q DEF WaitPlaces, Places, DecoderPlaces
<1>7. CASE Release(t)
  <2>1. \E place \in {"work", "acquire", "claim"} : Moves(place)
    BY <1>7 DEF Release, Released
  <2>2. pc[t] = "release" /\ mutex' = mutex /\ (waiting' = waiting \/ waiting' = {}) /\ queue' = queue
    BY <1>7 DEF Release
  <2> QED
    BY <2>1, <2>2, <1>q DEF WaitPlaces, Places, DecoderPlaces
<1>8. CASE Lock(t)
  <2>1. Passes(t, "check")
    BY <1>8, <1>0 DEF Lock, Passes, Locked, WaitPlaces
  <2> QED
    BY <1>8, <1>1, <2>1 DEF Lock, Places, Passes
<1>9. CASE CheckYes(t)
  <2>1. Passes(t, "work")
    BY <1>9 DEF CheckYes, Passes, Locked, WaitPlaces
  <2> QED
    BY <1>9, <1>1, <2>1 DEF CheckYes, Places, Passes
<1>10. CASE CheckNext(t)
  <2>1. Passes(t, "check")
    BY <1>0, <1>10 DEF CheckNext, Passes, Locked, WaitPlaces, TypedThreads
  <2> QED
    BY <1>10, <1>1, <2>1 DEF CheckNext, Places, Passes
<1>11. CASE CheckNo(t)
  <2>1. Passes(t, "sleep")
    BY <1>11 DEF CheckNo, Passes, Locked, WaitPlaces
  <2> QED
    BY <1>11, <1>1, <2>1 DEF CheckNo, Places, Passes
<1>12. CASE Woken(t)
  <2>1. Passes(t, "check")
    BY <1>12 DEF Woken, Passes
  <2> QED
    BY <1>12, <1>1, <2>1 DEF Woken, Places, Passes
<1>13. CASE Wake(t)
  <2>1. pc[t] \in {"wake last", "wake advance", "wake abandon", "wake destroy"}
    BY <1>13, WakeNextValues DEF Wake
  <2>2. \E place \in {"encode", "written", "idle", "cancel"} : Moves(place)
    BY <1>13, <2>1, WakeNextValues DEF Wake
  <2>3. mutex' = mutex /\ waiting' = {} /\ queue' = queue
    BY <1>13 DEF Wake
  <2> QED
    BY <2>1, <2>2, <2>3, <1>q DEF WaitPlaces, Places, DecoderPlaces
<1> QED
  BY <1>2, <1>3, <1>4, <1>5, <1>6, <1>7, <1>8, <1>9, <1>10, <1>11, <1>12, <1>13 DEF ThreadStep

LEMMA DecoderPasses ==
    ASSUME TInv, Locked, DecoderChoice \/ DecoderStep
    PROVE  \E place \in Places \cup DecoderPlaces : Passes(Decoder, place)
<1> USE DEF Goto, At, sharedVars
<1>1. PICK place \in LeavingPlaces : pc' = [pc EXCEPT ![Decoder] = place]
  BY DecoderGoes
<1>0. pc'[Decoder] = place
  BY <1>1, Constants DEF TInv, Typed, TypedThreads
<1>2. mutex' = mutex /\ pc[Decoder] # "check" /\ place # "check"
  BY <1>1 DEF DecoderChoice, DecoderStep, Idle, Acquiring, Write, Abandon, Finish,
     GiveUp, AcquireSpare, AcquireNew, AcquireFails, AcquireEncode, AwaitBuffer, Fill, Publish, Advance,
     WriteDone, Destroy, Cancel, LeaveHelpers, Streams, LeavingPlaces, OwnPlaces, DecoderPlaces
<1>3. place \in Places \cup DecoderPlaces
  BY <1>1 DEF LeavingPlaces, OwnPlaces, Places, DecoderPlaces
<1>4. \/ waiting' = waiting /\ Decoder \notin waiting
      \/ waiting' = waiting \cup {Decoder} /\ place \in WaitPlaces
  <2>1. CASE AwaitBuffer \/ LeaveHelpers
    BY <2>1, <1>0 DEF AwaitBuffer, LeaveHelpers, WaitPlaces
  <2>2. CASE ~(AwaitBuffer \/ LeaveHelpers)
    BY <2>2 DEF DecoderChoice, DecoderStep, Idle, Acquiring, Write, Abandon, Finish,
       GiveUp, AcquireSpare, AcquireNew, AcquireFails, AcquireEncode, Fill, Publish, Advance,
       WriteDone, Destroy, Cancel, Streams, WaitPlaces, Locked
  <2> QED
    BY <2>1, <2>2
<1> QED
  BY <1>1, <1>2, <1>3, <1>4 DEF Passes

LEMMA LockedStep ==
    ASSUME TInv, Counted, Locked, [Next]_vars
    PROVE  Locked'
<1>0. TypedThreads /\ TypedShared
  BY DEF TInv, Typed
<1>1. ASSUME NEW t \in Threads, ThreadStep(t)
      PROVE  Locked'
  <2>1. PICK place \in Places \cup DecoderPlaces : Passes(t, place)
    BY <1>1, ThreadPasses
  <2>2. queue' = queue /\ pc[t] # "pool" /\ pc'[t] \notin {"leave", "streams", "freed"}
    BY <1>1, ThreadPasses
  <2>3. \A u \in Threads \ {t} : pc'[u] = pc[u]
    BY <1>0, <2>1 DEF Passes, TypedThreads
  <2>4. ASSUME pc'[Decoder] \in {"leave", "streams", "freed"}
        PROVE  t # Decoder /\ pc[Decoder] = pc'[Decoder]
    BY <2>2, <2>3, <2>4, Constants
  <2>5. pc'[Decoder] \in {"streams", "freed"} => \A h \in Helpers : pc'[h] = "pool"
    BY <2>2, <2>3, <2>4, Constants DEF Locked, Threads
  <2> QED
    BY <1>0, <2>1, <2>2, <2>4, <2>5, PassesKeep DEF Locked
<1>2. ASSUME NEW h \in Helpers, Take(h) \/ Leave(h)
      PROVE  Locked'
  <2> USE DEF Goto, At
  <2>1. PICK place \in {"work", "pool"} : pc' = [pc EXCEPT ![h] = place]
    BY <1>2 DEF Take, Leave
  <2>2. /\ pc[h] \in {"pool", "exit"} /\ mutex' = mutex /\ (waiting' = waiting \/ waiting' = {})
    BY <1>2 DEF Take, Leave
  <2>3. Passes(h, place)
    <3>1. h \notin waiting
      BY <2>2 DEF Locked, WaitPlaces
    <3> QED
      BY <2>1, <2>2, <3>1 DEF Passes
  <2>4. h \in Threads /\ h # Decoder /\ pc'[Decoder] = pc[Decoder]
    BY <1>0, <2>1, Constants DEF TypedThreads
  <2>5. CASE Take(h)
    BY <1>0, <2>3, <2>4, <2>5, PassesKeep DEF Locked, Take
  <2>6. CASE Leave(h)
    <3>1. queue' = queue
      BY <2>6 DEF Leave
    <3>2. pc'[Decoder] \in {"streams", "freed"} => \A g \in Helpers : pc'[g] = "pool"
      BY <2>4, <2>6 DEF Locked, Leave
    <3> QED
      BY <1>0, <2>3, <2>4, <3>1, <3>2, PassesKeep DEF Locked
  <2> QED
    BY <1>2, <2>5, <2>6
<1>3. ASSUME DecoderChoice \/ DecoderStep
      PROVE  Locked'
  <2> USE DEF Goto, At, sharedVars
  <2>1. PICK place \in Places \cup DecoderPlaces : Passes(Decoder, place)
    BY <1>3, DecoderPasses
  <2>2. \A h \in Helpers : pc'[h] = pc[h]
    BY <1>0, <2>1, Constants DEF Passes, TypedThreads
  <2>3. \/ pc'[Decoder] \notin {"leave", "streams", "freed"}
        \/ Cancel \/ LeaveHelpers
    BY <1>0, <1>3, Constants DEF TypedThreads, DecoderChoice, DecoderStep, Idle, Acquiring, Write, Abandon, Finish,
       GiveUp, AcquireSpare, AcquireNew, AcquireFails, AcquireEncode, AwaitBuffer, Fill, Publish, Advance,
       WriteDone, Destroy, Streams, GiveBuffer
  <2>4. CASE pc'[Decoder] \notin {"leave", "streams", "freed"}
    BY <1>0, <2>1, <2>4, Constants, PassesKeep DEF Locked
  <2>5. CASE Cancel
    <3>1. queue' = 0 /\ pc'[Decoder] = "leave"
      BY <1>0, <2>5, Constants DEF Cancel, TypedThreads
    <3> QED
      BY <1>0, <2>1, <3>1, Constants, PassesKeep DEF Locked
  <2>6. CASE LeaveHelpers
    <3>1. queue' = queue /\ pc[Decoder] = "leave" /\ (running = 0 \/ pc' = pc)
      BY <2>6 DEF LeaveHelpers
    <3>2. CASE running = 0
      <4>1. Inside = {}
        BY <3>2, ThreadsFinite, FS_EmptySet, FS_Subset DEF Counted, Inside
      <4>2. \A h \in Helpers : pc'[h] = "pool"
        BY <2>2, <4>1 DEF Inside
      <4> QED
        BY <1>0, <2>1, <3>1, <4>2, Constants, PassesKeep DEF Locked
    <3>3. CASE pc' = pc
      BY <1>0, <2>1, <3>1, <3>3, Constants, PassesKeep DEF Locked
    <3> QED
      BY <3>1, <3>2, <3>3
  <2> QED
    BY <2>3, <2>4, <2>5, <2>6
<1>4. CASE UNCHANGED vars
  BY <1>4 DEF vars, Locked
<1> QED
  BY <1>1, <1>2, <1>3, <1>4 DEF Next, Rest

\* The destructor leaves the encoder alone: when the state is freed it is in no queue of the
\* pool, no thread waits for it or holds its mutex, and no helper is in Work or on its way out.
THEOREM LeftAlone == Spec => []NotUsedAfterFree
<1>1. Init => TInv /\ Counted /\ Locked
  <2>1. Init => Locked
    BY Constants DEF Init, Locked
  <2> QED
    BY <2>1, TypeInit, CountInit
<1>2. TInv /\ Counted /\ Locked /\ [Next]_vars => TInv' /\ Counted' /\ Locked'
  BY TypeStep, CountStep, LockedStep
<1>3. TInv /\ Locked => NotUsedAfterFree
  <2> SUFFICES ASSUME TInv, Locked, pc[Decoder] = "freed"
               PROVE  /\ queue = 0 /\ waiting = {} /\ mutex = NoThread
                      /\ \A h \in Helpers : pc[h] = "pool"
    BY DEF NotUsedAfterFree, At
  <2>1. \A t \in Threads : pc[t] \in {"freed", "pool"}
    BY DEF Locked, Threads
  <2> QED
    BY <2>1 DEF Locked, WaitPlaces, TInv, Typed, TypedShared
<1> QED
  BY <1>1, <1>2, <1>3, PTL DEF Spec

-----------------------------------------------------------------------------
(* What a step of a thread does to the segments *)

Dropped(p) == ready[p] = Abandoned
Reached(s) == Start(s) < position[PlaneOf(s)]
Full(s) == End(s) <= position[PlaneOf(s)]
Unwanted(p) == Dropped(p) \/ ~out[p]

Others(t) == \A u \in Threads \ {t} : pc'[u] = pc[u] /\ index'[u] = index[u]
SameSegments == claimed' = claimed /\ whole' = whole /\ input' = input /\ spare' = spare
SamePlanes ==
    /\ ready' = ready /\ position' = position /\ out' = out /\ failed' = failed
    /\ call' = call /\ target' = target /\ result' = result /\ made' = made /\ holds' = holds

Quiet(t) == pc[t] \notin HeldPlaces /\ pc'[t] \notin HeldPlaces /\ SameSegments
Takes(t) ==
    /\ pc[t] = "claim" /\ pc'[t] = "count" /\ index'[t] = index[t] /\ index[t] \in Segs
    /\ Claimable(index[t], InWork(t))
    /\ claimed' = [claimed EXCEPT ![index[t]] = TRUE]
    /\ whole' = whole /\ input' = input /\ spare' = spare
Keeps(t) ==
    /\ \/ pc[t] \in {"count", "wake last"} /\ pc'[t] \in {"wake last", "encode"}
       \/ pc[t] = "deflate" /\ pc'[t] = "deflate"
    /\ index'[t] = index[t] /\ SameSegments
Begins(t) ==
    /\ pc[t] = "encode" /\ pc'[t] = "deflate" /\ ~Unwanted(PlaneOf(index[t]))
    /\ index'[t] = index[t] /\ SameSegments
Stops(t) ==
    /\ pc[t] \in {"encode", "deflate"} /\ pc'[t] = "release" /\ Unwanted(PlaneOf(index[t]))
    /\ index'[t] = index[t] /\ SameSegments
Completes(t) ==
    /\ pc[t] = "deflate" /\ pc'[t] = "release"
    /\ InWork(t) => ~Dropped(PlaneOf(index[t])) /\ End(index[t]) <= ready[PlaneOf(index[t])]
    /\ whole' = whole \cup {index[t]}
    /\ index'[t] = index[t] /\ claimed' = claimed /\ input' = input /\ spare' = spare
GivesBack(t) ==
    /\ pc[t] = "release" /\ pc'[t] \in {"work", "acquire", "claim"}
    /\ input' = [input EXCEPT ![index[t]] = NoBuffer]
    /\ spare' = spare \cup ({input[index[t]]} \ {NoBuffer})
    /\ claimed' = claimed /\ whole' = whole

Does(t) ==
    \/ Quiet(t) \/ Takes(t) \/ Keeps(t) \/ Begins(t) \/ Stops(t) \/ Completes(t) \/ GivesBack(t)

LEMMA ThreadDoes ==
    ASSUME TInv, NEW t \in Threads, ThreadStep(t)
    PROVE  Others(t) /\ SamePlanes /\ Does(t)
<1> USE DEF Goto, At, Does, SameSegments
<1>0. TypedThreads /\ TypedIndex
  BY DEF TInv, Typed
<1>s. SamePlanes
  BY DEF ThreadStep, WorkLoop, ClaimTake, ClaimSkip, ClaimNone, CountClaim, Encode, DeflateBlock, DeflateStop,
     Release, Lock, CheckYes, CheckNext, CheckNo, Woken, Wake, SamePlanes, buffersVars, decoderVars
<1> DEFINE Moves(place) == pc' = [pc EXCEPT ![t] = place]
<1>1. ASSUME NEW place, Moves(place)
      PROVE  pc'[t] = place /\ \A u \in Threads \ {t} : pc'[u] = pc[u]
  BY <1>0, <1>1 DEF TypedThreads
<1>i. \A u \in Threads \ {t} : index'[u] = index[u]
  BY <1>0 DEF ThreadStep, WorkLoop, ClaimTake, ClaimSkip, ClaimNone, CountClaim, Encode, DeflateBlock, DeflateStop,
     Release, Released, Lock, CheckYes, CheckNext, CheckNo, Woken, Wake, TypedIndex
<1>q. ASSUME NEW place, Moves(place), pc[t] \notin HeldPlaces, place \notin HeldPlaces,
             claimed' = claimed, whole' = whole, UNCHANGED buffersVars
      PROVE  Others(t) /\ Does(t)
  BY <1>1, <1>i, <1>q DEF Others, Quiet, buffersVars
<1>2. CASE WorkLoop(t)
  <2>1. \E place \in {"claim", "cancel", "exit"} : Moves(place)
    BY <1>2 DEF WorkLoop
  <2> QED
    BY <1>2, <1>s, <2>1, <1>q DEF WorkLoop, HeldPlaces
<1>3. CASE ClaimTake(t)
  BY <1>1, <1>3, <1>i, <1>s DEF ClaimTake, Takes, Others, buffersVars
<1>4. CASE ClaimSkip(t)
  <2>1. Moves("claim")
    BY <1>0, <1>4 DEF ClaimSkip, TypedThreads
  <2> QED
    BY <1>4, <1>s, <2>1, <1>q DEF ClaimSkip, HeldPlaces
<1>5. CASE ClaimNone(t)
  <2>1. \E place \in {"lock", "await buffer", "idle"} : Moves(place)
    BY <1>5 DEF ClaimNone
  <2> QED
    BY <1>5, <1>s, <2>1, <1>q DEF ClaimNone, HeldPlaces
<1>6. CASE CountClaim(t)
  <2>1. \E place \in {"wake last", "encode"} : Moves(place)
    BY <1>6 DEF CountClaim
  <2> QED
    BY <1>1, <1>6, <1>i, <1>s, <2>1 DEF CountClaim, Keeps, Others, buffersVars
<1>7. CASE Encode(t)
  <2>1. CASE ~Unwanted(PlaneOf(index[t]))
    <3>1. Moves("deflate")
      BY <1>7, <2>1 DEF Encode, Unwanted, Dropped
    <3> QED
      BY <1>1, <1>7, <1>i, <1>s, <2>1, <3>1 DEF Encode, Begins, Others, buffersVars
  <2>2. CASE Unwanted(PlaneOf(index[t]))
    <3>1. Moves("release")
      BY <1>7, <2>2 DEF Encode, Unwanted, Dropped
    <3> QED
      BY <1>1, <1>7, <1>i, <1>s, <2>2, <3>1 DEF Encode, Stops, Others, buffersVars
  <2> QED
    BY <2>1, <2>2
<1>8. CASE DeflateBlock(t)
  <2> DEFINE s == index[t]
             done == Least(segments[s].size, packed[t] + Block)
  <2>0. /\ pc[t] = "deflate" /\ claimed' = claimed /\ index' = index /\ UNCHANGED buffersVars
        /\ InWork(t) => ~Dropped(PlaneOf(s))
        /\ InWork(t) => ready[PlaneOf(s)] >= Start(s) + Least(segments[s].size, packed[t] + Block + Ahead)
    BY <1>8 DEF DeflateBlock, Dropped
  <2>1. CASE done # segments[s].size
    <3>1. pc' = pc /\ whole' = whole
      BY <1>8, <2>1 DEF DeflateBlock
    <3> QED
      BY <1>i, <1>s, <2>0, <3>1 DEF Keeps, Others, buffersVars
  <2>2. CASE done = segments[s].size
    <3>1. Moves("release") /\ whole' = whole \cup {s}
      BY <1>8, <2>2 DEF DeflateBlock
    <3>2. s \in Segs /\ packed[t] \in Nat
      BY <2>0 DEF TInv, Typed, TypedPacked, Indexed, HeldPlaces
    <3>3. segments[s].size \in Nat /\ Start(s) \in Nat /\ End(s) = Start(s) + segments[s].size
      BY <3>2, SegmentTypes DEF Start, End
    <3>4. segments[s].size <= packed[t] + Block
      BY <2>2, <3>2, <3>3, Constants DEF Least
    <3>5. Least(segments[s].size, packed[t] + Block + Ahead) = segments[s].size
      BY <3>2, <3>3, <3>4, Constants DEF Least
    <3>6. InWork(t) => ready[PlaneOf(s)] >= End(s)
      BY <2>0, <3>3, <3>5
    <3>7. InWork(t) => End(s) <= ready[PlaneOf(s)]
      <4>1. ASSUME InWork(t)
            PROVE  ready[PlaneOf(s)] \in Int
        <5>1. ready[PlaneOf(s)] \in Nat \cup {Abandoned}
          BY <3>2, SegmentTypes DEF TInv, Typed, TypedShared
        <5> QED
          BY <5>1 DEF Abandoned
      <4> QED
        BY <3>3, <3>6, <4>1
    <3> HIDE DEF done
    <3> QED
      BY <1>1, <1>i, <1>s, <2>0, <3>1, <3>7 DEF Completes, Others, buffersVars
  <2> QED
    BY <2>1, <2>2
<1>9. CASE DeflateStop(t)
  BY <1>1, <1>9, <1>i, <1>s DEF DeflateStop, Stops, Unwanted, Dropped, Others, buffersVars
<1>10. CASE Release(t)
  <2>1. \E place \in {"work", "acquire", "claim"} : Moves(place)
    BY <1>10 DEF Release, Released
  <2>2. spare' = spare \cup ({input[index[t]]} \ {NoBuffer})
    BY <1>10 DEF Release
  <2> QED
    BY <1>1, <1>10, <1>i, <1>s, <2>1, <2>2 DEF Release, GivesBack, Others
<1>11. CASE Lock(t) \/ CheckYes(t) \/ CheckNo(t) \/ Woken(t)
  <2>1. \E place \in {"check", "work", "sleep"} : Moves(place)
    BY <1>11 DEF Lock, CheckYes, CheckNo, Woken
  <2>2. pc[t] \notin HeldPlaces /\ claimed' = claimed /\ whole' = whole /\ UNCHANGED buffersVars
    BY <1>11 DEF Lock, CheckYes, CheckNo, Woken, HeldPlaces
  <2> QED
    BY <1>s, <2>1, <2>2, <1>q DEF HeldPlaces
<1>12. CASE CheckNext(t)
  <2>1. Moves("check")
    BY <1>0, <1>12 DEF CheckNext, TypedThreads
  <2> QED
    BY <1>12, <1>s, <2>1, <1>q DEF CheckNext, HeldPlaces
<1>13. CASE Wake(t)
  <2>1. pc[t] \in {"wake last", "wake advance", "wake abandon", "wake destroy"}
    BY <1>13, WakeNextValues DEF Wake
  <2>2. claimed' = claimed /\ whole' = whole /\ index' = index /\ UNCHANGED buffersVars
    BY <1>13 DEF Wake
  <2>3. CASE pc[t] = "wake last"
    <3>1. Moves("encode")
      BY <1>13, <2>3, WakeNextValues DEF Wake
    <3> QED
      BY <1>1, <1>i, <1>s, <2>2, <2>3, <3>1 DEF Keeps, Others, buffersVars
  <2>4. CASE pc[t] # "wake last"
    <3>1. \E place \in {"written", "idle", "cancel"} : Moves(place)
      BY <1>13, <2>1, <2>4, WakeNextValues DEF Wake
    <3> QED
      BY <1>s, <2>1, <2>2, <2>4, <3>1, <1>q DEF HeldPlaces
  <2> QED
    BY <2>3, <2>4
<1> QED
  BY <1>s, <1>2, <1>3, <1>4, <1>5, <1>6, <1>7, <1>8, <1>9, <1>10, <1>11, <1>12, <1>13 DEF ThreadStep

-----------------------------------------------------------------------------
(* What the decoder has written and published *)

\* A plane is published as far as it is written, but for the units just filled in; a plane
\* that is written is not dropped, and a write stays within the segment it began in.
PlanesRight ==
    /\ \A p \in Planes :
          \/ Dropped(p) \/ ready[p] = position[p]
          \/ pc[Decoder] = "publish" /\ p = target.plane /\ ready[p] <= position[p]
    /\ WritePending \/ pc[Decoder] = "publish" => ~Dropped(target.plane)
    /\ WritePending => position[target.plane] + target.units <= End(Writing(target.plane))
    /\ call = "Finish" => \A p \in Planes : Dropped(p) \/ Written(p)

LEMMA ThreadPlanes ==
    ASSUME TInv, PlanesRight, NEW t \in Threads, ThreadStep(t)
    PROVE  PlanesRight'
<1>1. Others(t) /\ SamePlanes /\ Does(t)
  BY ThreadDoes
<1>2. ASSUME t = Decoder
      PROVE  (pc'[Decoder] = "publish" <=> pc[Decoder] = "publish") /\ (WritePending' => WritePending)
  <2>1. \A place : pc' = [pc EXCEPT ![t] = place] => pc'[t] = place
    BY DEF TInv, Typed, TypedThreads
  <2>2. pc[Decoder] = "work" => call = "Finish"
    BY DEF TInv, Pending
  <2> USE DEF Goto, At, HeldPlaces
  <2> DEFINE Fine == pc'[t] # "publish" /\ (WritePending' => WritePending)
  <2>3. call' = call
    BY <1>1 DEF SamePlanes
  <2>4. ASSUME pc[t] = "claim" \/ pc[t] \in HeldPlaces, pc'[t] = "claim" \/ pc'[t] \in HeldPlaces
        PROVE  Fine
    BY <1>2, <2>3, <2>4 DEF WritePending
  <2>5. ASSUME pc'[t] \notin {"acquire", "await buffer", "fill", "claim", "publish"}, pc'[t] \notin HeldPlaces
        PROVE  Fine
    BY <1>2, <2>3, <2>5 DEF WritePending
  <2>6. ASSUME WorkLoop(t)
        PROVE  Fine
    <3>1. pc[t] = "work" /\ pc'[t] \in {"claim", "cancel", "exit"}
      BY <2>1, <2>6 DEF WorkLoop
    <3> QED
      BY <1>2, <2>2, <2>3, <3>1 DEF WritePending
  <2>7. ASSUME ClaimTake(t) \/ ClaimSkip(t) \/ CountClaim(t) \/ Encode(t) \/ DeflateBlock(t) \/ DeflateStop(t)
        PROVE  Fine
    <3>1. pc[t] = "claim" \/ pc[t] \in HeldPlaces
      BY <2>7 DEF ClaimTake, ClaimSkip, CountClaim, Encode, DeflateBlock, DeflateStop
    <3>2. pc'[t] = pc[t] \/ pc'[t] \in HeldPlaces
      BY <2>1, <2>7 DEF ClaimTake, ClaimSkip, CountClaim, Encode, DeflateBlock, DeflateStop
    <3> QED
      BY <2>4, <3>1, <3>2
  <2>8. ASSUME ClaimNone(t)
        PROVE  Fine
    <3>1. pc[t] = "claim" /\ pc'[t] \in {"lock", "await buffer", "idle"}
      BY <2>1, <2>8 DEF ClaimNone
    <3>2. pc'[t] = "await buffer" => call = "Write"
      BY <2>1, <2>8 DEF ClaimNone
    <3> QED
      BY <1>2, <2>5, <3>1, <3>2 DEF WritePending
  <2>9. ASSUME Release(t)
        PROVE  Fine
    <3>1. pc[t] = "release" /\ pc'[t] \in {"work", "acquire", "claim"}
      BY <2>1, <2>9 DEF Release, Released
    <3>2. pc'[t] = "acquire" => call = "Write"
      BY <2>1, <2>9 DEF Release, Released
    <3> QED
      BY <1>2, <2>4, <2>5, <3>1, <3>2 DEF WritePending
  <2>10. ASSUME Lock(t) \/ CheckYes(t) \/ CheckNo(t) \/ Woken(t)
        PROVE  Fine
    <3>1. pc'[t] \in {"check", "work", "sleep"}
      BY <2>1, <2>10 DEF Lock, CheckYes, CheckNo, Woken
    <3> QED
      BY <2>5, <3>1
  <2>11. ASSUME CheckNext(t)
        PROVE  Fine
    <3>1. pc'[t] = "check"
      BY <2>11 DEF CheckNext
    <3> QED
      BY <2>5, <3>1
  <2>12. ASSUME Wake(t)
        PROVE  Fine
    <3>1. \/ pc[t] = "wake last" /\ pc'[t] = "encode"
          \/ pc'[t] \in {"written", "idle", "cancel"}
      BY <2>1, <2>12, WakeNextValues DEF Wake
    <3> QED
      BY <2>4, <2>5, <3>1
  <2>13. Fine
    BY <2>6, <2>7, <2>8, <2>9, <2>10, <2>11, <2>12 DEF ThreadStep
  <2>14. pc[t] # "publish"
    BY WakeNextValues DEF ThreadStep, WorkLoop, ClaimTake, ClaimSkip, ClaimNone, CountClaim, Encode,
       DeflateBlock, DeflateStop, Release, Lock, CheckYes, CheckNext, CheckNo, Woken, Wake
  <2> QED
    BY <1>2, <2>13, <2>14
<1>3. ASSUME t # Decoder
      PROVE  (pc'[Decoder] = "publish" <=> pc[Decoder] = "publish") /\ (WritePending' => WritePending)
  BY <1>1, <1>3, Constants DEF Others, SamePlanes, WritePending
<1>5. \A p \in Planes : (Dropped(p)' <=> Dropped(p)) /\ (Written(p)' <=> Written(p)) /\ Writing(p)' = Writing(p)
  BY <1>1 DEF SamePlanes, Dropped, Written, Writing
<1>6. target.plane \in Planes /\ target' = target /\ call' = call /\ ready' = ready /\ position' = position
  BY <1>1 DEF SamePlanes, TInv, Typed, TypedDecoder
<1> QED
  BY <1>2, <1>3, <1>5, <1>6 DEF PlanesRight

LEMMA DecoderPlanes ==
    ASSUME TInv, PlanesRight, DecoderChoice \/ DecoderStep
    PROVE  PlanesRight'
<1> USE DEF Goto, At, sharedVars
<1>0. /\ TypedThreads /\ target.plane \in Planes /\ target.units \in Nat
      /\ position \in [Planes -> Nat] /\ ready \in [Planes -> Nat \cup {Abandoned}]
  BY DEF TInv, Typed, TypedDecoder, TypedShared
<1>p. \A place : pc' = [pc EXCEPT ![Decoder] = place] => pc'[Decoder] = place
  BY <1>0, Constants DEF TypedThreads
<1>k. position' = position => \A p \in Planes : (Written(p)' <=> Written(p)) /\ Writing(p)' = Writing(p)
  BY DEF Written, Writing
<1>d. ready' = ready => \A p \in Planes : Dropped(p)' <=> Dropped(p)
  BY DEF Dropped
<1>w. ASSUME NEW p \in Planes, NEW n \in 1 .. Sizes[p], Write(p, n)
      PROVE  PlanesRight'
  <2>1. /\ target'.plane = p /\ target'.units = n /\ position' = position /\ ready' = ready
        /\ call' = "Write" /\ ~Dropped(p) /\ position[p] + n <= End(Writing(p))
        /\ pc[Decoder] = "idle" /\ pc'[Decoder] # "publish"
    BY <1>w, <1>p DEF Write, Idle, Dropped
  <2> QED
    BY <2>1, <1>k, <1>d DEF PlanesRight
<1>same. ASSUME ready' = ready, position' = position, target' = target, call' # "Finish" \/ call' = call,
              pc[Decoder] # "publish", pc'[Decoder] # "publish", WritePending' => WritePending
        PROVE  PlanesRight'
  BY <1>0, <1>same, <1>k, <1>d DEF PlanesRight
<1>1. ASSUME NEW b \in Buffers, AcquireSpare(b)
      PROVE  PlanesRight'
  <2>1. /\ ready' = ready /\ position' = position /\ target' = target /\ call' = call
        /\ pc[Decoder] = "acquire" /\ pc'[Decoder] = "fill"
    BY <1>1, <1>p DEF AcquireSpare, GiveBuffer, Acquiring, decoderVars
  <2> QED
    BY <2>1, <1>same DEF WritePending
<1>2. CASE AcquireNew
  <2>1. /\ ready' = ready /\ position' = position /\ target' = target /\ call' = call
        /\ pc[Decoder] = "acquire" /\ pc'[Decoder] = "fill"
    BY <1>2, <1>p DEF AcquireNew, GiveBuffer, Acquiring, decoderVars
  <2> QED
    BY <2>1, <1>same DEF WritePending
<1>3. CASE AcquireFails \/ GiveUp \/ Streams
  <2>1. /\ ready' = ready /\ position' = position /\ target' = target /\ call' = "Destroy"
        /\ pc[Decoder] # "publish" /\ pc'[Decoder] = "destroy"
    BY <1>3, <1>p DEF AcquireFails, Acquiring, GiveUp, Idle, Streams
  <2> QED
    BY <2>1, <1>same DEF WritePending
<1>4. CASE AcquireEncode \/ AwaitBuffer
  <2>1. /\ ready' = ready /\ position' = position /\ target' = target /\ call' = call
        /\ pc[Decoder] \in {"acquire", "await buffer"}
        /\ pc'[Decoder] \in {"claim", "acquire", "await buffer"}
    BY <1>4, <1>p DEF AcquireEncode, AwaitBuffer, Acquiring, decoderVars
  <2> QED
    BY <2>1, <1>same DEF WritePending
<1>5. CASE Fill
  <2>1. /\ ready' = ready /\ target' = target /\ call' = call
        /\ position' = [position EXCEPT ![target.plane] = @ + target.units]
        /\ pc[Decoder] = "fill" /\ pc'[Decoder] = "publish"
    BY <1>5, <1>p DEF Fill
  <2>2. call = "Write" /\ ~Dropped(target.plane) /\ ready[target.plane] = position[target.plane]
    BY <1>0, <2>1 DEF TInv, Pending, WritePending, PlanesRight
  <2>3. ~WritePending'
    BY <2>1 DEF WritePending, HeldPlaces
  <2>4. ready'[target.plane] <= position'[target.plane]
    <3>1. position'[target.plane] = position[target.plane] + target.units
      BY <1>0, <2>1
    <3>2. position[target.plane] \in Nat
      BY <1>0
    <3> QED
      BY <1>0, <2>1, <2>2, <3>1, <3>2
  <2>5. \A p \in Planes \ {target.plane} : position'[p] = position[p]
    BY <1>0, <2>1
  <2> QED
    BY <2>1, <2>2, <2>3, <2>4, <2>5, <1>d, <1>0 DEF PlanesRight
<1>6. CASE Publish
  <2>1. /\ ready' = [ready EXCEPT ![target.plane] = position[target.plane]] /\ target' = target /\ call' = call
        /\ position' = position /\ pc[Decoder] = "publish" /\ pc'[Decoder] = "advance"
    BY <1>6, <1>p DEF Publish, decoderVars
  <2>2. ~WritePending' /\ pc'[Decoder] # "publish"
    BY <2>1 DEF WritePending, HeldPlaces
  <2>3. ready'[target.plane] = position[target.plane] /\ \A p \in Planes \ {target.plane} : ready'[p] = ready[p]
    BY <1>0, <2>1
  <2>4. position[target.plane] # Abandoned
    <3>1. position[target.plane] \in Nat
      BY <1>0
    <3> QED
      BY <3>1 DEF Abandoned
  <2>5. \A p \in Planes : Dropped(p)' <=> Dropped(p)
    <3>1. ~Dropped(target.plane)
      BY <2>1 DEF PlanesRight
    <3> QED
      BY <2>3, <2>4, <3>1 DEF Dropped
  <2> QED
    BY <2>1, <2>2, <2>3, <2>5, <1>k DEF PlanesRight
<1>7. CASE Advance
  <2>1. /\ ready' = ready /\ position' = position /\ target' = target /\ call' = call
        /\ pc[Decoder] = "advance" /\ pc'[Decoder] \in {"wake advance", "written"}
    BY <1>7, <1>p DEF Advance
  <2> QED
    BY <2>1, <1>same DEF WritePending, HeldPlaces
<1>8. CASE WriteDone
  <2>1. /\ ready' = ready /\ position' = position /\ target' = target
        /\ pc[Decoder] = "written" /\ pc'[Decoder] \in {"idle", "claim"}
        /\ (pc'[Decoder] = "idle" /\ call' = call) \/ call' = "EncodeReady"
    BY <1>8, <1>p DEF WriteDone
  <2>2. ~WritePending'
    BY <2>1 DEF WritePending, HeldPlaces
  <2>3. pc[Decoder] # "publish" /\ pc'[Decoder] # "publish" /\ (call' # "Finish" \/ call' = call)
    BY <2>1
  <2> QED
    BY <2>1, <2>2, <2>3, <1>same
<1>9. ASSUME NEW p \in Planes, ready' = [ready EXCEPT ![p] = Abandoned], position' = position,
             target' = target, call' = call, pc[Decoder] # "publish", pc'[Decoder] # "publish", ~WritePending'
      PROVE  PlanesRight'
  <2>1. Dropped(p)' /\ \A q \in Planes \ {p} : ready'[q] = ready[q] /\ (Dropped(q)' <=> Dropped(q))
    BY <1>0, <1>9 DEF Dropped
  <2> QED
    BY <1>9, <2>1, <1>k DEF PlanesRight
<1>10. ASSUME NEW p \in Planes, Abandon(p)
       PROVE  PlanesRight'
  <2>1. /\ ready' = [ready EXCEPT ![p] = Abandoned] /\ position' = position /\ target' = target /\ call' = call
        /\ pc[Decoder] = "idle" /\ pc'[Decoder] = "wake abandon"
    BY <1>10, <1>p DEF Abandon, Idle, decoderVars
  <2>2. ~WritePending'
    BY <2>1 DEF WritePending, HeldPlaces
  <2> QED
    BY <2>1, <2>2, <1>9
<1>11. CASE Finish
  <2>1. /\ ready' = ready /\ position' = position /\ target' = target /\ call' = "Finish"
        /\ pc[Decoder] = "idle" /\ pc'[Decoder] = "work"
        /\ \A p \in Planes : Dropped(p) \/ Written(p)
    BY <1>11, <1>p DEF Finish, Idle, Dropped
  <2>2. ~WritePending' /\ pc'[Decoder] # "publish" /\ pc[Decoder] # "publish"
    BY <2>1 DEF WritePending, HeldPlaces
  <2> QED
    BY <2>1, <2>2, <1>k, <1>d DEF PlanesRight
<1>12. CASE Destroy
  <2>0. position' = position /\ target' = target /\ call' = call /\ pc[Decoder] = "destroy"
    BY <1>12 DEF Destroy, decoderVars
  <2>1. CASE pc' = pc
    <3>1. PICK p \in Planes : ready' = [ready EXCEPT ![p] = Abandoned]
      BY <1>12, <2>0, <2>1, <1>p DEF Destroy
    <3>2. ~WritePending'
      BY <2>0, <2>1 DEF WritePending, HeldPlaces
    <3> QED
      BY <2>0, <2>1, <3>1, <3>2, <1>9
  <2>2. CASE pc' # pc
    <3>1. ready' = ready /\ pc'[Decoder] = "wake destroy"
      BY <1>12, <2>2, <1>p DEF Destroy
    <3> QED
      BY <2>0, <3>1, <1>same DEF WritePending, HeldPlaces
  <2> QED
    BY <2>1, <2>2
<1>13. CASE Cancel \/ LeaveHelpers
  <2>1. /\ ready' = ready /\ position' = position /\ target' = target /\ call' = call
        /\ pc[Decoder] \in {"cancel", "leave"} /\ pc'[Decoder] \in {"leave", "streams", "freed"}
    BY <1>13, <1>p DEF Cancel, LeaveHelpers, decoderVars
  <2> QED
    BY <2>1, <1>same DEF WritePending, HeldPlaces
<1> QED
  BY <1>w, <1>1, <1>2, <1>3, <1>4, <1>5, <1>6, <1>7, <1>8, <1>10, <1>11, <1>12, <1>13
  DEF DecoderChoice, DecoderStep

LEMMA PlanesStep ==
    ASSUME TInv, PlanesRight, [Next]_vars
    PROVE  PlanesRight'
<1>1. ASSUME NEW h \in Helpers, Take(h) \/ Leave(h)
      PROVE  PlanesRight'
  <2>1. pc'[Decoder] = pc[Decoder]
    BY <1>1, Constants DEF Take, Leave, Goto, TInv, Typed, TypedThreads
  <2>2. ready' = ready /\ position' = position /\ target' = target /\ call' = call
    BY <1>1 DEF Take, Leave, decoderVars
  <2> QED
    BY <2>1, <2>2 DEF PlanesRight, Dropped, Written, Writing, WritePending
<1>2. CASE UNCHANGED vars
  BY <1>2 DEF vars, PlanesRight, Dropped, Written, Writing, WritePending
<1> QED
  BY <1>1, <1>2, ThreadPlanes, DecoderPlanes DEF Next, Rest

LEMMA PlanesInit ==
    ASSUME Init
    PROVE  PlanesRight
BY Constants DEF Init, PlanesRight, Dropped, WritePending, HeldPlaces

-----------------------------------------------------------------------------
(* The segments: claimed, compressed, done *)

\* A segment that nothing more is to be done to.
Done(s) == Unwanted(PlaneOf(s)) \/ (s \in whole /\ Full(s))
Held(t) == pc[t] \in HeldPlaces
HoldsOne(s) == \E t \in Threads : Held(t) /\ index[t] = s

ClaimsReached == \A s \in Segs : claimed[s] => Dropped(PlaneOf(s)) \/ Reached(s)
HeldClaimed == \A t \in Threads : Held(t) => claimed[index[t]]
DeflatesReached == \A t \in Threads : pc[t] = "deflate" => Reached(index[t])
ReleasesDone == \A t \in Threads : pc[t] = "release" => Done(index[t])
DecoderHoldsFull ==
    Held(Decoder) /\ call # "Finish" =>
        \/ Full(index[Decoder])
        \/ Dropped(PlaneOf(index[Decoder])) /\ pc[Decoder] # "deflate"
ClaimsDone == \A s \in Segs : claimed[s] => Done(s) \/ HoldsOne(s)
WholeOnce ==
    /\ \A s \in whole : claimed[s] /\ Full(s)
    /\ \A t \in Threads : Held(t) /\ index[t] \in whole => pc[t] = "release"

ClaimsRight ==
    /\ ClaimsReached /\ HeldClaimed /\ DeflatesReached /\ ReleasesDone /\ DecoderHoldsFull
    /\ ClaimsDone /\ WholeOnce

Onward ==
    /\ out' = out
    /\ \A p \in Planes : Dropped(p) => Dropped(p)'
    /\ \A s \in Segs : (Reached(s) => Reached(s)') /\ (Full(s) => Full(s)')

LEMMA StepOnward ==
    ASSUME TInv, PlanesRight, [Next]_vars
    PROVE  Onward
<1> USE DEF Goto, At, sharedVars
<1>0. /\ target.plane \in Planes /\ target.units \in Nat
      /\ position \in [Planes -> Nat] /\ ready \in [Planes -> Nat \cup {Abandoned}]
  BY DEF TInv, Typed, TypedDecoder, TypedShared
<1>1. ASSUME out' = out, position' = position, \A p \in Planes : Dropped(p) => Dropped(p)'
      PROVE  Onward
  BY <1>1 DEF Onward, Reached, Full
<1>2. ASSUME out' = out, position' = position, ready' = ready
      PROVE  Onward
  BY <1>2, <1>1 DEF Dropped
<1>3. ASSUME NEW t \in Threads, ThreadStep(t)
      PROVE  Onward
  BY <1>2, <1>3, ThreadDoes DEF SamePlanes
<1>4. ASSUME NEW h \in Helpers, Take(h) \/ Leave(h)
      PROVE  Onward
  BY <1>2, <1>4 DEF Take, Leave, decoderVars
<1>5. CASE DecoderChoice \/ DecoderStep
  <2>1. ASSUME Fill
        PROVE  Onward
    <3>1. out' = out /\ ready' = ready /\ position' = [position EXCEPT ![target.plane] = @ + target.units]
      BY <2>1 DEF Fill
    <3>2. \A p \in Planes : position[p] \in Nat /\ position'[p] \in Nat /\ position[p] <= position'[p]
      BY <1>0, <3>1
    <3>3. ASSUME NEW s \in Segs
          PROVE  (Reached(s) => Reached(s)') /\ (Full(s) => Full(s)')
      <4>1. PlaneOf(s) \in Planes /\ Start(s) \in Nat /\ End(s) \in Nat
        BY SegmentTypes
      <4> DEFINE a == position[PlaneOf(s)]
                 b == position'[PlaneOf(s)]
      <4>2. a \in Nat /\ b \in Nat /\ a <= b
        BY <3>2, <4>1
      <4>3. /\ (Reached(s) <=> Start(s) < a) /\ (Reached(s)' <=> Start(s) < b)
            /\ (Full(s) <=> End(s) <= a) /\ (Full(s)' <=> End(s) <= b)
        BY DEF Reached, Full, PlaneOf, Start, End
      <4> HIDE DEF a, b
      <4> QED
        BY <4>1, <4>2, <4>3
    <3> QED
      BY <3>1, <3>3 DEF Onward, Dropped
  <2>2. ASSUME Publish
        PROVE  Onward
    <3>1. /\ out' = out /\ position' = position
          /\ ready' = [ready EXCEPT ![target.plane] = position[target.plane]] /\ ~Dropped(target.plane)
      BY <2>2 DEF Publish, decoderVars, PlanesRight
    <3> QED
      BY <1>0, <1>1, <3>1 DEF Dropped
  <2>3. ASSUME \/ \E p \in Planes : Abandon(p)
               \/ Destroy
        PROVE  Onward
    <3>1. /\ out' = out /\ position' = position
          /\ ready' = ready \/ \E p \in Planes : ready' = [ready EXCEPT ![p] = Abandoned]
      BY <2>3 DEF Abandon, Destroy, decoderVars
    <3> QED
      BY <1>0, <1>1, <1>2, <3>1 DEF Dropped
  <2>4. ASSUME NEW p \in Planes, NEW n, Write(p, n)
        PROVE  Onward
    BY <1>2, <2>4 DEF Write
  <2>5. ASSUME NEW b, AcquireSpare(b)
        PROVE  Onward
    BY <1>2, <2>5 DEF AcquireSpare, GiveBuffer, decoderVars
  <2>6. ASSUME \/ AcquireNew \/ AcquireFails \/ AcquireEncode \/ AwaitBuffer \/ Advance \/ WriteDone
               \/ Cancel \/ LeaveHelpers \/ Streams \/ Finish \/ GiveUp
        PROVE  Onward
    BY <1>2, <2>6 DEF AcquireNew, GiveBuffer, AcquireFails, AcquireEncode, AwaitBuffer, Advance, WriteDone,
       Cancel, LeaveHelpers, Streams, Finish, GiveUp, decoderVars
  <2> QED
    BY <1>5, <2>1, <2>2, <2>3, <2>4, <2>5, <2>6 DEF DecoderChoice, DecoderStep
<1>6. CASE UNCHANGED vars
  BY <1>2, <1>6 DEF vars
<1> QED
  BY <1>3, <1>4, <1>5, <1>6 DEF Next, Rest

\* A step that leaves the segments and their holders as they are.
Apart(t) ==
    /\ Others(t) /\ pc[t] \notin HeldPlaces /\ pc'[t] \notin HeldPlaces
    /\ claimed' = claimed /\ whole' = whole

LEMMA DecoderApart ==
    ASSUME TInv, DecoderChoice \/ DecoderStep
    PROVE  Apart(Decoder)
<1> USE DEF Goto, At, sharedVars
<1>0. TypedThreads /\ TypedIndex
  BY DEF TInv, Typed
<1>1. PICK place \in LeavingPlaces : pc' = [pc EXCEPT ![Decoder] = place]
  BY DecoderGoes
<1>2. pc'[Decoder] \notin HeldPlaces /\ \A u \in Threads \ {Decoder} : pc'[u] = pc[u]
  BY <1>0, <1>1, Constants DEF TypedThreads, LeavingPlaces, OwnPlaces, DecoderPlaces, HeldPlaces
<1>3. pc[Decoder] \notin HeldPlaces /\ claimed' = claimed /\ whole' = whole
  BY DEF DecoderChoice, DecoderStep, Idle, Acquiring, Write, Abandon, Finish, GiveUp, AcquireSpare, AcquireNew,
     AcquireFails, AcquireEncode, AwaitBuffer, Fill, Publish, Advance, WriteDone, Destroy, Cancel,
     LeaveHelpers, Streams, HeldPlaces
<1>4. \A u \in Threads \ {Decoder} : index'[u] = index[u]
  BY <1>0 DEF DecoderChoice, DecoderStep, Write, Abandon, Finish, GiveUp, AcquireSpare, AcquireNew,
     AcquireFails, AcquireEncode, AwaitBuffer, Fill, Publish, Advance, WriteDone, Destroy, Cancel,
     LeaveHelpers, Streams, TypedIndex
<1> QED
  BY <1>2, <1>3, <1>4 DEF Apart, Others

LEMMA PoolApart ==
    ASSUME TInv, NEW h \in Helpers, Take(h) \/ Leave(h)
    PROVE  Apart(h) /\ SamePlanes /\ input' = input /\ spare' = spare
<1>1. \A place : pc' = [pc EXCEPT ![h] = place] => pc'[h] = place /\ \A u \in Threads \ {h} : pc'[u] = pc[u]
  BY Constants DEF TInv, Typed, TypedThreads
<1> QED
  BY <1>1 DEF Take, Leave, Apart, Others, SamePlanes, Goto, At, HeldPlaces, decoderVars, buffersVars

LEMMA OnwardDone ==
    ASSUME Onward, whole \subseteq whole'
    PROVE  /\ \A p \in Planes : Unwanted(p) => Unwanted(p)'
           /\ \A s \in Segs : Done(s) => Done(s)'
<1>1. \A p \in Planes : Unwanted(p) => Unwanted(p)'
  BY DEF Onward, Unwanted
<1>2. \A s \in Segs : PlaneOf(s) \in Planes /\ PlaneOf(s)' = PlaneOf(s)
  BY SegmentTypes DEF PlaneOf
<1> QED
  BY <1>1, <1>2 DEF Done, Onward

LEMMA ApartClaims ==
    ASSUME TInv, TInv', ClaimsRight, Onward, NEW t \in Threads, Apart(t),
           t = Decoder \/ call' = call
    PROVE  ClaimsRight'
<1>0. /\ \A u \in Threads : pc'[u] \in HeldPlaces => u # t /\ pc'[u] = pc[u] /\ index'[u] = index[u] /\ index[u] \in Segs
      /\ \A u \in Threads : pc[u] \in HeldPlaces => u # t /\ pc'[u] = pc[u] /\ index'[u] = index[u]
      /\ claimed' = claimed /\ whole' = whole /\ whole \subseteq Segs
      /\ "deflate" \in HeldPlaces /\ "release" \in HeldPlaces
  BY DEF Apart, Others, TInv, Typed, TypedShared, Indexed, HeldPlaces
<1>1. \A s \in Segs : PlaneOf(s) \in Planes /\ (Done(s) => Done(s)')
  BY <1>0, SegmentTypes, OnwardDone
<1>2. ClaimsReached'
  BY <1>0, <1>1 DEF ClaimsRight, ClaimsReached, Onward, PlaneOf
<1>3. HeldClaimed'
  BY <1>0 DEF ClaimsRight, HeldClaimed, Held
<1>4. DeflatesReached'
  BY <1>0 DEF ClaimsRight, DeflatesReached, Onward
<1>5. ReleasesDone'
  BY <1>0, <1>1 DEF ClaimsRight, ReleasesDone
<1>6. DecoderHoldsFull'
  BY <1>0, <1>1, Constants DEF ClaimsRight, DecoderHoldsFull, Held, Onward, PlaneOf
<1>7. ClaimsDone'
  <2>1. \A s \in Segs : HoldsOne(s) => HoldsOne(s)'
    BY <1>0 DEF HoldsOne, Held
  <2> QED
    BY <1>0, <1>1, <2>1 DEF ClaimsRight, ClaimsDone
<1>8. WholeOnce'
  BY <1>0 DEF ClaimsRight, WholeOnce, Held, Onward
<1> QED
  BY <1>2, <1>3, <1>4, <1>5, <1>6, <1>7, <1>8 DEF ClaimsRight

\* What a segment that may be taken is known to be.
LEMMA ClaimableSegment ==
    ASSUME TInv, PlanesRight, NEW s \in Segs, NEW streamed \in BOOLEAN, Claimable(s, streamed)
    PROVE  /\ ~claimed[s]
           /\ Dropped(PlaneOf(s)) \/ Reached(s)
           /\ ~streamed => Dropped(PlaneOf(s)) \/ Full(s)
<1> DEFINE p == PlaneOf(s)
           least == Least(segments[s].size, Block + Ahead)
<1>1. /\ p \in Planes /\ Start(s) \in Nat /\ End(s) \in Nat /\ segments[s].size \in Nat \ {0}
      /\ End(s) = Start(s) + segments[s].size
  BY SegmentTypes DEF End, Start
<1>2. Dropped(p) \/ ready[p] >= ClaimAt(s, streamed)
  BY DEF Claimable, Published, Dropped
<1>3. position[p] \in Nat /\ ready[p] \in Nat \cup {Abandoned}
  BY <1>1 DEF TInv, Typed, TypedDecoder, TypedShared
<1>4. Dropped(p) \/ (ready[p] \in Nat /\ ready[p] <= position[p])
  BY <1>1, <1>3 DEF PlanesRight, Dropped
<1>5. least \in Nat /\ least > 0
  BY <1>1, Constants DEF Least
<1>6. ClaimAt(s, streamed) = IF streamed THEN Start(s) + least ELSE End(s)
  BY <1>1 DEF ClaimAt
<1>7. /\ ClaimAt(s, streamed) \in Nat /\ ClaimAt(s, streamed) > Start(s)
      /\ ~streamed => ClaimAt(s, streamed) = End(s)
  <2> HIDE DEF least
  <2> QED
    BY <1>1, <1>5, <1>6
<1> HIDE DEF p, least
<1>8. CASE Dropped(p)
  BY <1>8 DEF Claimable, p
<1>9. CASE ~Dropped(p)
  <2>1. position[p] > Start(s) /\ (~streamed => position[p] >= End(s))
    BY <1>1, <1>2, <1>3, <1>4, <1>7, <1>9
  <2>2. Start(s) < position[p] /\ (~streamed => End(s) <= position[p])
    BY <1>1, <1>3, <2>1
  <2> QED
    BY <2>2 DEF Claimable, Reached, Full, p
<1> QED
  BY <1>8, <1>9

LEMMA SameSegmentFacts ==
    ASSUME SamePlanes
    PROVE  /\ \A p \in Planes : (Dropped(p)' <=> Dropped(p)) /\ (Unwanted(p)' <=> Unwanted(p))
           /\ \A s \in Segs : PlaneOf(s) \in Planes /\ (Reached(s)' <=> Reached(s)) /\ (Full(s)' <=> Full(s))
           /\ whole' = whole => \A s \in Segs : Done(s)' <=> Done(s)
<1>1. \A s \in Segs : PlaneOf(s) \in Planes /\ PlaneOf(s)' = PlaneOf(s)
  BY SegmentTypes DEF PlaneOf
<1> QED
  BY <1>1 DEF SamePlanes, Dropped, Unwanted, Reached, Full, Done

\* What a thread's step does to ClaimsRight, of the thread's segment s.
LEMMA DoesClaims ==
    ASSUME TInv, TInv', PlanesRight, ClaimsRight, OneThreadEach,
           NEW t \in Threads, Others(t), SamePlanes, Does(t)
    PROVE  ClaimsRight'
<1>s. PICK s : s = index[t]
  OBVIOUS
<1> USE <1>s
<1>0. /\ whole \subseteq Segs /\ claimed \in [Segs -> BOOLEAN]
      /\ \A u \in Threads : pc[u] \in HeldPlaces => index[u] \in Segs
      /\ \A u \in Threads : pc'[u] \in HeldPlaces => index'[u] \in Segs
  BY DEF TInv, Typed, TypedShared, Indexed
<1>1. \A u \in Threads \ {t} : pc'[u] = pc[u] /\ index'[u] = index[u]
  BY DEF Others
<1>2. /\ \A p \in Planes : (Dropped(p)' <=> Dropped(p)) /\ (Unwanted(p)' <=> Unwanted(p))
      /\ \A r \in Segs : PlaneOf(r) \in Planes /\ (Reached(r)' <=> Reached(r)) /\ (Full(r)' <=> Full(r))
      /\ whole' = whole => \A r \in Segs : Done(r)' <=> Done(r)
      /\ call' = call
  BY SameSegmentFacts DEF SamePlanes
<1>c. /\ \A r \in Segs : claimed[r] => Dropped(PlaneOf(r)) \/ Reached(r)
      /\ \A u \in Threads : pc[u] \in HeldPlaces => claimed[index[u]]
      /\ \A u \in Threads : pc[u] = "deflate" => Reached(index[u])
      /\ \A u \in Threads : pc[u] = "release" => Done(index[u])
      /\ pc[Decoder] \in HeldPlaces /\ call # "Finish" =>
            \/ Full(index[Decoder])
            \/ Dropped(PlaneOf(index[Decoder])) /\ pc[Decoder] # "deflate"
      /\ \A r \in Segs : claimed[r] => Done(r) \/ HoldsOne(r)
      /\ \A r \in whole : claimed[r] /\ Full(r)
      /\ \A u \in Threads : pc[u] \in HeldPlaces /\ index[u] \in whole => pc[u] = "release"
  BY DEF ClaimsRight, ClaimsReached, HeldClaimed, DeflatesReached, ReleasesDone, DecoderHoldsFull, ClaimsDone,
     WholeOnce, Held
<1>g. ASSUME \A r \in Segs : claimed'[r] => Dropped(PlaneOf(r)) \/ Reached(r),
             pc'[t] \in HeldPlaces => claimed'[index'[t]],
             \A u \in Threads \ {t} : pc[u] \in HeldPlaces => claimed'[index[u]],
             pc'[t] = "deflate" => Reached(index'[t]),
             \A u \in Threads : pc'[u] = "release" => \A r \in Segs : r = index'[u] => Done(r)',
             t = Decoder /\ pc'[t] \in HeldPlaces /\ call # "Finish" =>
                \/ Full(index'[t])
                \/ Dropped(PlaneOf(index'[t])) /\ pc'[t] # "deflate",
             \A r \in Segs : claimed'[r] => Done(r)' \/ HoldsOne(r)',
             \A r \in whole' : claimed'[r] /\ Full(r),
             \A u \in Threads : pc'[u] \in HeldPlaces /\ index'[u] \in whole' => pc'[u] = "release"
      PROVE  ClaimsRight'
  <2>0. whole' \subseteq Segs /\ "deflate" \in HeldPlaces
    BY DEF TInv, Typed, TypedShared, HeldPlaces
  <2>1. ClaimsReached'
    BY <1>g, <1>2 DEF ClaimsReached, PlaneOf
  <2>2. HeldClaimed'
    BY <1>g, <1>1 DEF HeldClaimed, Held
  <2>3. DeflatesReached'
    <3>1. ASSUME NEW u \in Threads, pc'[u] = "deflate"
          PROVE  Reached(index'[u])
      BY <1>g, <1>1, <1>c, <3>1
    <3>2. ASSUME NEW u \in Threads, pc'[u] = "deflate"
          PROVE  Reached(index[u])'
      <4>1. PICK r \in Segs : r = index'[u]
        BY <1>0, <2>0, <3>2
      <4>2. Reached(r)'
        BY <1>2, <3>1, <3>2, <4>1
      <4> QED
        BY <4>1, <4>2 DEF Reached, Start, PlaneOf
    <3> QED
      BY <3>2 DEF DeflatesReached
  <2>4. ReleasesDone'
    <3>1. ASSUME NEW u \in Threads, pc'[u] = "release"
          PROVE  Done(index[u])'
      <4>1. PICK r \in Segs : r = index'[u]
        BY <1>0, <3>1 DEF HeldPlaces
      <4>2. Done(r)'
        BY <1>g, <3>1, <4>1
      <4> QED
        BY <4>1, <4>2 DEF Done, Unwanted, Dropped, Full, End, PlaneOf
    <3> QED
      BY <3>1 DEF ReleasesDone
  <2>5. DecoderHoldsFull'
    <3>1. CASE t = Decoder
      BY <1>g, <1>0, <1>2, <3>1 DEF DecoderHoldsFull, Held, PlaneOf
    <3>2. CASE t # Decoder
      BY <1>0, <1>1, <1>2, <1>c, <3>2, Constants DEF DecoderHoldsFull, Held, PlaneOf
    <3> QED
      BY <3>1, <3>2
  <2>6. ClaimsDone'
    BY <1>g DEF ClaimsDone
  <2>7. WholeOnce'
    BY <1>g, <1>2, <2>0 DEF WholeOnce, Held
  <2> QED
    BY <2>1, <2>2, <2>3, <2>4, <2>5, <2>6, <2>7 DEF ClaimsRight
<1>h. ASSUME NEW r \in Segs, HoldsOne(r), pc[t] \notin HeldPlaces \/ (pc'[t] \in HeldPlaces /\ index'[t] = s) \/ r # s
      PROVE  HoldsOne(r)'
  <2>1. PICK u \in Threads : pc[u] \in HeldPlaces /\ index[u] = r
    BY <1>h DEF HoldsOne, Held
  <2>2. pc'[u] \in HeldPlaces /\ index'[u] = r
    BY <1>1, <1>h, <2>1
  <2> QED
    BY <2>2 DEF HoldsOne, Held
<1>3. CASE Quiet(t)
  BY <1>3, ApartClaims, <1>2 DEF Quiet, Apart, SameSegments, Onward, SamePlanes
<1>4. CASE Takes(t)
  <2>1. /\ s \in Segs /\ pc'[t] = "count" /\ pc[t] = "claim" /\ index'[t] = s /\ whole' = whole
        /\ claimed' = [claimed EXCEPT ![s] = TRUE] /\ Claimable(s, InWork(t))
    BY <1>4 DEF Takes
  <2>2. /\ ~claimed[s] /\ (Dropped(PlaneOf(s)) \/ Reached(s))
        /\ ~InWork(t) => Dropped(PlaneOf(s)) \/ Full(s)
    BY <2>1, ClaimableSegment DEF InWork
  <2>3. pc'[t] \in HeldPlaces /\ pc[t] \notin HeldPlaces /\ pc'[t] # "deflate" /\ pc'[t] # "release"
    BY <2>1 DEF HeldPlaces
  <2>4. claimed'[s] = TRUE /\ \A r \in Segs \ {s} : claimed'[r] = claimed[r]
    BY <2>1, <1>0
  <2>5. HoldsOne(s)'
    BY <2>1, <2>3 DEF HoldsOne, Held
  <2>6. \A r \in Segs : claimed'[r] => Done(r)' \/ HoldsOne(r)'
    BY <1>c, <1>h, <1>2, <2>1, <2>3, <2>4, <2>5
  <2>7. t = Decoder /\ call # "Finish" => Full(s) \/ Dropped(PlaneOf(s))
    BY <2>2 DEF InWork
  <2>8. \A u \in Threads : pc'[u] = "release" => \A r \in Segs : r = index'[u] => Done(r)'
    BY <1>0, <1>1, <1>2, <1>c, <2>1, <2>3 DEF HeldPlaces
  <2>9. \A u \in Threads : pc'[u] \in HeldPlaces /\ index'[u] \in whole' => pc'[u] = "release"
    BY <1>0, <1>1, <1>c, <2>1, <2>2
  <2>10. \A u \in Threads \ {t} : pc[u] \in HeldPlaces => claimed'[index[u]]
    BY <1>0, <1>c, <2>4
  <2>11. \A r \in whole' : claimed'[r] /\ Full(r)
    BY <1>0, <1>c, <2>1, <2>4
  <2>12. \A r \in Segs : claimed'[r] => Dropped(PlaneOf(r)) \/ Reached(r)
    BY <1>c, <2>2, <2>4
  <2> QED
    BY <1>g, <2>1, <2>3, <2>4, <2>6, <2>7, <2>8, <2>9, <2>10, <2>11, <2>12
\* The steps of a thread with its segment.
<1>k. ASSUME s \in Segs, pc[t] \in HeldPlaces, pc'[t] \in HeldPlaces, index'[t] = s, claimed' = claimed,
             whole' = whole \/ (whole' = whole \cup {s} /\ Full(s) /\ pc'[t] = "release"),
             s \in whole => pc'[t] = "release",
             pc'[t] = "deflate" => pc[t] = "deflate" \/ (~Unwanted(PlaneOf(s))),
             pc'[t] = "release" => Done(s)'
      PROVE  ClaimsRight'
  <2>0. whole \subseteq whole'
    BY <1>k
  <2>1. \A r \in Segs : Done(r) => Done(r)'
    <3>1. Onward
      BY <1>2 DEF Onward, SamePlanes
    <3> QED
      BY <2>0, <3>1, OnwardDone
  <2>2. claimed[s] /\ (Dropped(PlaneOf(s)) \/ Reached(s))
    BY <1>c, <1>k
  <2>3. pc'[t] = "deflate" => Reached(s)
    BY <1>c, <1>k, <2>2 DEF Unwanted
  <2>4. \A r \in Segs : claimed'[r] => Done(r)' \/ HoldsOne(r)'
    BY <1>c, <1>h, <1>k, <2>1
  <2>5. \A u \in Threads : pc'[u] = "release" => \A r \in Segs : r = index'[u] => Done(r)'
    <3>1. ASSUME NEW u \in Threads \ {t}, pc'[u] = "release", NEW r \in Segs, r = index'[u]
          PROVE  Done(r)'
      <4>1. Done(r)
        BY <1>1, <1>c, <3>1
      <4> QED
        BY <2>1, <4>1
    <3> QED
      BY <1>k, <3>1
  <2>6. t = Decoder /\ call # "Finish" => Full(s) \/ (Dropped(PlaneOf(s)) /\ pc'[t] # "deflate")
    BY <1>c, <1>k DEF Unwanted
  <2>7. \A r \in whole' : claimed'[r] /\ Full(r)
    BY <1>c, <1>k, <2>2
  <2>8. \A u \in Threads : pc'[u] \in HeldPlaces /\ index'[u] \in whole' => pc'[u] = "release"
    <3>1. \A u \in Threads \ {t} : pc[u] \in HeldPlaces => index[u] # s
      BY <1>k DEF OneThreadEach, Encoding, HeldPlaces
    <3> QED
      BY <1>0, <1>1, <1>c, <1>k, <3>1
  <2> QED
    BY <1>g, <1>c, <1>k, <2>2, <2>3, <2>4, <2>5, <2>6, <2>7, <2>8
<1>5. CASE Keeps(t)
  <2>1. /\ pc[t] \in HeldPlaces /\ pc'[t] \in HeldPlaces /\ index'[t] = s /\ claimed' = claimed /\ whole' = whole
        /\ pc[t] # "release" /\ pc'[t] # "release" /\ (pc'[t] = "deflate" => pc[t] = "deflate")
    BY <1>5 DEF Keeps, SameSegments, HeldPlaces
  <2>2. s \in Segs /\ s \notin whole
    BY <1>0, <1>c, <2>1
  <2> QED
    BY <1>k, <2>1, <2>2
<1>6. CASE Begins(t)
  <2>1. /\ pc[t] \in HeldPlaces /\ pc'[t] \in HeldPlaces /\ index'[t] = s /\ claimed' = claimed /\ whole' = whole
        /\ pc[t] # "release" /\ pc'[t] # "release" /\ ~Unwanted(PlaneOf(s))
    BY <1>6 DEF Begins, SameSegments, HeldPlaces
  <2>2. s \in Segs /\ s \notin whole
    BY <1>0, <1>c, <2>1
  <2> QED
    BY <1>k, <2>1, <2>2
<1>7. CASE Stops(t)
  <2>1. /\ pc[t] \in HeldPlaces /\ pc'[t] \in HeldPlaces /\ index'[t] = s /\ claimed' = claimed /\ whole' = whole
        /\ pc'[t] = "release" /\ Unwanted(PlaneOf(s))
    BY <1>7 DEF Stops, SameSegments, HeldPlaces
  <2>2. s \in Segs
    BY <1>0, <2>1
  <2>3. Done(s)'
    BY <1>2, <2>1, <2>2 DEF Done
  <2> QED
    BY <1>k, <2>1, <2>2, <2>3
<1>8. CASE Completes(t)
  <2>1. /\ pc[t] \in HeldPlaces /\ pc'[t] \in HeldPlaces /\ index'[t] = s /\ claimed' = claimed
        /\ pc[t] = "deflate" /\ pc'[t] = "release" /\ whole' = whole \cup {s}
        /\ InWork(t) => ~Dropped(PlaneOf(s)) /\ End(s) <= ready[PlaneOf(s)]
    BY <1>8 DEF Completes, HeldPlaces
  <2>2. s \in Segs
    BY <1>0, <2>1
  <2>3. Full(s)
    <3>1. CASE InWork(t)
      <4>1. /\ PlaneOf(s) \in Planes /\ End(s) \in Nat /\ position[PlaneOf(s)] \in Nat
            /\ ready[PlaneOf(s)] \in Nat \cup {Abandoned}
        BY <2>2, SegmentTypes DEF TInv, Typed, TypedDecoder, TypedShared
      <4>2. ~Dropped(PlaneOf(s)) /\ End(s) <= ready[PlaneOf(s)] /\ ready[PlaneOf(s)] \in Nat
        BY <2>1, <3>1, <4>1 DEF Dropped
      <4>3. ready[PlaneOf(s)] <= position[PlaneOf(s)]
        BY <4>1, <4>2 DEF PlanesRight
      <4> QED
        BY <4>1, <4>2, <4>3 DEF Full
    <3>2. CASE ~InWork(t)
      BY <1>c, <2>1, <3>2 DEF InWork
    <3> QED
      BY <3>1, <3>2
  <2>4. Done(s)'
    BY <1>2, <2>1, <2>2, <2>3 DEF Done
  <2> QED
    BY <1>k, <2>1, <2>2, <2>3, <2>4
<1>9. CASE GivesBack(t)
  <2>1. /\ pc[t] = "release" /\ pc'[t] \notin HeldPlaces /\ claimed' = claimed /\ whole' = whole
        /\ pc'[t] # "deflate" /\ pc'[t] # "release"
    BY <1>9 DEF GivesBack, HeldPlaces
  <2>2. Done(s) /\ \A r \in Segs : Done(r) => Done(r)'
    BY <1>2, <1>c, <2>1
  <2>3. \A r \in Segs : claimed'[r] => Done(r)' \/ HoldsOne(r)'
    BY <1>c, <1>h, <2>1, <2>2
  <2>4. \A u \in Threads : pc'[u] = "release" => \A r \in Segs : r = index'[u] => Done(r)'
    BY <1>0, <1>1, <1>c, <2>1, <2>2 DEF HeldPlaces
  <2>5. \A u \in Threads : pc'[u] \in HeldPlaces /\ index'[u] \in whole' => pc'[u] = "release"
    BY <1>1, <1>c, <2>1
  <2> QED
    BY <1>g, <1>c, <2>1, <2>3, <2>4, <2>5
<1> QED
  BY <1>3, <1>4, <1>5, <1>6, <1>7, <1>8, <1>9 DEF Does

LEMMA ClaimsStep ==
    ASSUME TInv, TInv', PlanesRight, ClaimsRight, OneThreadEach, [Next]_vars
    PROVE  ClaimsRight'
<1>1. Onward
  BY StepOnward
<1>2. ASSUME NEW t \in Threads, ThreadStep(t)
      PROVE  ClaimsRight'
  BY <1>2, ThreadDoes, DoesClaims
<1>3. ASSUME NEW h \in Helpers, Take(h) \/ Leave(h)
      PROVE  ClaimsRight'
  BY <1>1, <1>3, Constants, PoolApart, ApartClaims DEF SamePlanes
<1>4. CASE DecoderChoice \/ DecoderStep
  BY <1>1, <1>4, Constants, DecoderApart, ApartClaims
<1>5. CASE UNCHANGED vars
  BY <1>5 DEF vars, ClaimsRight, ClaimsReached, HeldClaimed, DeflatesReached, ReleasesDone, DecoderHoldsFull,
     ClaimsDone, WholeOnce, Held, HoldsOne, Done, Unwanted, Dropped, Reached, Full
<1> QED
  BY <1>2, <1>3, <1>4, <1>5 DEF Next, Rest

LEMMA ClaimsInit ==
    ASSUME Init
    PROVE  ClaimsRight
<1>1. \A t \in Threads : pc[t] \in {"idle", "pool"}
  BY DEF Init
<1>2. whole = {} /\ \A s \in Segs : ~claimed[s]
  BY DEF Init
<1> QED
  BY <1>1, <1>2, Constants DEF ClaimsRight, ClaimsReached, HeldClaimed, DeflatesReached, ReleasesDone, DecoderHoldsFull,
     ClaimsDone, WholeOnce, Held, HeldPlaces

-----------------------------------------------------------------------------
(* The buffers *)

MadeBuffers == spare \subseteq 1 .. made /\ \A s \in Segs : input[s] <= made
HoldsRight == \A s \in Segs : input[s] # NoBuffer => holds[input[s]] = s
ReachedHasBuffer == \A s \in Segs : Reached(s) /\ ~claimed[s] => input[s] # NoBuffer
HeldHasBuffer == \A t \in Threads : Held(t) /\ Reached(index[t]) => input[index[t]] # NoBuffer
FillHasBuffer ==
    pc[Decoder] = "fill" /\ ~claimed[Writing(target.plane)] => input[Writing(target.plane)] # NoBuffer
PartHasBuffer ==
    \A s \in Segs : Reached(s) /\ ~Full(s) /\ ~Unwanted(PlaneOf(s)) => input[s] # NoBuffer

BuffersRight ==
    /\ OneOwnerEach /\ MadeBuffers /\ HoldsRight
    /\ ReachedHasBuffer /\ HeldHasBuffer /\ FillHasBuffer /\ PartHasBuffer

\* The decoder fills a segment's buffer only from steps of its own.
LEMMA ThreadFills ==
    ASSUME TInv, NEW t \in Threads, ThreadStep(t)
    PROVE  pc'[t] \notin {"fill", "publish", "destroy", "leave", "streams", "freed"}
<1> USE DEF Goto, At
<1>1. \A place : pc' = [pc EXCEPT ![t] = place] => pc'[t] = place
  BY DEF TInv, Typed, TypedThreads
<1>2. CASE WorkLoop(t) \/ ClaimTake(t) \/ ClaimSkip(t) \/ ClaimNone(t) \/ CountClaim(t) \/ Encode(t)
  BY <1>1, <1>2 DEF WorkLoop, ClaimTake, ClaimSkip, ClaimNone, CountClaim, Encode
<1>3. CASE DeflateBlock(t) \/ DeflateStop(t) \/ Release(t)
  BY <1>1, <1>3 DEF DeflateBlock, DeflateStop, Release, Released
<1>4. CASE Lock(t) \/ CheckYes(t) \/ CheckNext(t) \/ CheckNo(t) \/ Woken(t)
  BY <1>1, <1>4 DEF Lock, CheckYes, CheckNext, CheckNo, Woken
<1>5. CASE Wake(t)
  BY <1>1, <1>5, WakeNextValues DEF Wake
<1> QED
  BY <1>2, <1>3, <1>4, <1>5 DEF ThreadStep

\* A step that changes no buffer and writes no unit.
LEMMA SameBuffers ==
    ASSUME TInv, TInv', PlanesRight, ClaimsRight, ClaimsRight', BuffersRight, Onward,
           input' = input, spare' = spare, made' = made, holds' = holds, position' = position,
           \A s \in Segs : claimed[s] => claimed'[s],
           \A t \in Threads : pc'[t] \in HeldPlaces =>
               (pc[t] \in HeldPlaces \/ ~claimed[index'[t]]) /\ (pc[t] \in HeldPlaces => index'[t] = index[t]),
           pc'[Decoder] = "fill" =>
               \/ pc[Decoder] = "fill" /\ target' = target
               \/ input[Writing(target'.plane)] # NoBuffer
    PROVE  BuffersRight'
<1>0. /\ \A s \in Segs : (Reached(s)' <=> Reached(s)) /\ (Full(s)' <=> Full(s)) /\ PlaneOf(s) \in Planes
      /\ \A p \in Planes : Writing(p)' = Writing(p) /\ (Unwanted(p) => Unwanted(p)')
      /\ target.plane \in Planes /\ target'.plane \in Planes
      /\ \A t \in Threads : pc'[t] \in HeldPlaces => index'[t] \in Segs
  BY SegmentTypes DEF Reached, Full, Writing, Onward, Unwanted, TInv, Typed, TypedDecoder, Indexed
<1>1. OneOwnerEach' /\ MadeBuffers' /\ HoldsRight'
  BY DEF BuffersRight, OneOwnerEach, MadeBuffers, HoldsRight
<1>2. ReachedHasBuffer'
  BY <1>0 DEF BuffersRight, ReachedHasBuffer
<1>3. HeldHasBuffer'
  <2>1. ASSUME NEW t \in Threads, pc'[t] \in HeldPlaces, NEW s \in Segs, s = index'[t], Reached(s)
        PROVE  input[s] # NoBuffer
    BY <2>1 DEF BuffersRight, HeldHasBuffer, ReachedHasBuffer, Held
  <2>2. ASSUME NEW t \in Threads, pc'[t] \in HeldPlaces, Reached(index[t])'
        PROVE  input'[index'[t]] # NoBuffer
    <3>1. PICK s \in Segs : s = index'[t]
      BY <1>0, <2>2
    <3>2. Reached(s)'
      BY <2>2, <3>1 DEF Reached, Start, PlaneOf
    <3> QED
      BY <1>0, <2>1, <2>2, <3>1, <3>2
  <2> QED
    BY <2>2 DEF HeldHasBuffer, Held
<1>4. FillHasBuffer'
  <2> SUFFICES ASSUME pc'[Decoder] = "fill", ~claimed'[Writing(target'.plane)]
               PROVE  input[Writing(target'.plane)] # NoBuffer
    BY <1>0 DEF FillHasBuffer, Writing
  <2>1. CASE pc[Decoder] = "fill" /\ target' = target
    <3>1. Writing(target.plane) \in Segs
      BY <1>0, <2>1, WritingSegment DEF TInv, Pending, WritePending
    <3> QED
      BY <2>1, <3>1 DEF BuffersRight, FillHasBuffer
  <2> QED
    BY <2>1
<1>5. PartHasBuffer'
  <2>1. ASSUME NEW s \in Segs, Reached(s)', ~Full(s)', ~Unwanted(PlaneOf(s))'
        PROVE  input'[s] # NoBuffer
    <3>1. ~Unwanted(PlaneOf(s))
      BY <1>0, <2>1 DEF PlaneOf, Unwanted, Dropped
    <3> QED
      BY <1>0, <2>1, <3>1 DEF BuffersRight, PartHasBuffer
  <2> QED
    BY <2>1 DEF PartHasBuffer
<1> QED
  BY <1>1, <1>2, <1>3, <1>4, <1>5 DEF BuffersRight

\* A helper or the decoder gives the buffer of its segment back.
LEMMA GivenBack ==
    ASSUME TInv, TInv', PlanesRight, ClaimsRight, OneThreadEach, BuffersRight,
           NEW t \in Threads, Others(t), SamePlanes, GivesBack(t), pc'[Decoder] # "fill" \/ pc[Decoder] = "fill"
    PROVE  BuffersRight'
<1>s. PICK s : s = index[t]
  OBVIOUS
<1>0. /\ \A r \in Segs : (Reached(r)' <=> Reached(r)) /\ (Full(r)' <=> Full(r)) /\ PlaneOf(r) \in Planes
      /\ \A p \in Planes : Unwanted(p)' <=> Unwanted(p)
      /\ input \in [Segs -> Buffers \cup {NoBuffer}] /\ spare \subseteq Buffers
      /\ made' = made /\ holds' = holds /\ claimed' = claimed /\ target' = target /\ target.plane \in Planes
      /\ \A p \in Planes : Writing(p)' = Writing(p)
  BY SameSegmentFacts DEF SamePlanes, GivesBack, Writing, TInv, Typed, TypedBuffers, TypedDecoder
<1>1. /\ s \in Segs /\ pc[t] = "release" /\ pc'[t] \notin HeldPlaces
      /\ spare' = spare \cup ({input[s]} \ {NoBuffer})
      /\ input'[s] = NoBuffer /\ \A r \in Segs \ {s} : input'[r] = input[r]
  BY <1>s, <1>0 DEF GivesBack, HeldPlaces, TInv, Indexed
<1>2. Done(s) /\ claimed[s]
  BY <1>s, <1>1 DEF ClaimsRight, ReleasesDone, HeldClaimed, Held, HeldPlaces
<1>b. NoBuffer \notin Buffers
  BY DEF NoBuffer, Buffers
<1>3. OneOwnerEach'
  <2>1. \A q, r \in Segs : q # r /\ input[q] # NoBuffer => input[q] # input[r]
    BY DEF BuffersRight, OneOwnerEach
  <2>2. \A r \in Segs : input[r] \notin spare
    BY DEF BuffersRight, OneOwnerEach
  <2>3. \A q, r \in Segs : q # r /\ input'[q] # NoBuffer => input'[q] # input'[r]
    BY <1>1, <2>1
  <2>4. \A r \in Segs : input'[r] \notin spare'
    BY <1>0, <1>1, <1>b, <2>1, <2>2
  <2> QED
    BY <2>3, <2>4 DEF OneOwnerEach
<1>4. MadeBuffers'
  <2>1. spare \subseteq 1 .. made /\ \A r \in Segs : input[r] <= made
    BY DEF BuffersRight, MadeBuffers
  <2>2. made \in Nat /\ \A r \in Segs : input[r] \in Nat
    BY <1>0, Constants DEF TInv, Typed, TypedBuffers, Buffers, NoBuffer
  <2>3. input[s] # NoBuffer => input[s] \in 1 .. made
    BY <1>1, <2>1, <2>2 DEF NoBuffer
  <2>4. \A r \in Segs : input'[r] <= made
    BY <1>1, <2>1, <2>2 DEF NoBuffer
  <2> QED
    BY <1>0, <1>1, <2>1, <2>3, <2>4 DEF MadeBuffers
<1>5. HoldsRight'
  BY <1>0, <1>1 DEF BuffersRight, HoldsRight
<1>6. ReachedHasBuffer'
  BY <1>0, <1>1, <1>2 DEF BuffersRight, ReachedHasBuffer
<1>7. HeldHasBuffer'
  <2>1. ASSUME NEW u \in Threads, pc'[u] \in HeldPlaces, Reached(index[u])'
        PROVE  input'[index'[u]] # NoBuffer
    <3>1. u # t /\ pc[u] \in HeldPlaces /\ index'[u] = index[u]
      BY <1>1, <2>1 DEF Others
    <3>2. PICK r \in Segs : r = index[u]
      BY <3>1 DEF TInv, Indexed
    <3>3. Reached(r)
      <4>1. Reached(r)'
        BY <2>1, <3>1, <3>2 DEF Reached, Start, PlaneOf
      <4> QED
        BY <1>0, <4>1
    <3>4. r # s
      BY <1>s, <1>1, <3>1, <3>2 DEF OneThreadEach, Encoding, HeldPlaces
    <3> QED
      BY <1>1, <3>1, <3>2, <3>3, <3>4 DEF BuffersRight, HeldHasBuffer, Held
  <2> QED
    BY <2>1 DEF HeldHasBuffer, Held
<1>8. FillHasBuffer'
  <2> SUFFICES ASSUME pc'[Decoder] = "fill", ~claimed[Writing(target.plane)]
               PROVE  input'[Writing(target.plane)] # NoBuffer
    BY <1>0 DEF FillHasBuffer
  <2>1. pc[Decoder] = "fill"
    OBVIOUS
  <2>2. Writing(target.plane) \in Segs
    BY <1>0, <2>1, WritingSegment DEF TInv, Pending, WritePending
  <2> QED
    BY <1>1, <1>2, <2>1, <2>2 DEF BuffersRight, FillHasBuffer
<1>9. PartHasBuffer'
  <2>1. ASSUME NEW r \in Segs, Reached(r)', ~Full(r)', ~Unwanted(PlaneOf(r))'
        PROVE  input'[r] # NoBuffer
    <3>1. ~Unwanted(PlaneOf(r))
      BY <1>0, <2>1 DEF PlaneOf, Unwanted, Dropped
    <3>2. r # s
      BY <1>0, <1>2, <2>1, <3>1 DEF Done
    <3> QED
      BY <1>0, <1>1, <2>1, <3>1, <3>2 DEF BuffersRight, PartHasBuffer
  <2> QED
    BY <2>1 DEF PartHasBuffer
<1> QED
  BY <1>3, <1>4, <1>5, <1>6, <1>7, <1>8, <1>9 DEF BuffersRight

\* The decoder takes a buffer that is no segment's for the segment it writes.
LEMMA BufferGiven ==
    ASSUME TInv, TInv', PlanesRight, ClaimsRight, BuffersRight, Apart(Decoder),
           NEW b \in Buffers, pc[Decoder] = "acquire", GiveBuffer(b),
           \A s \in Segs : input[s] # b, spare' = spare \ {b}, made <= made', b <= made',
           UNCHANGED <<ready, out, position, target>>
    PROVE  BuffersRight'
<1>w. PICK w : w = Writing(target.plane)
  OBVIOUS
<1>0. /\ \A r \in Segs : (Reached(r)' <=> Reached(r)) /\ (Full(r)' <=> Full(r)) /\ PlaneOf(r) \in Planes
      /\ \A p \in Planes : Writing(p)' = Writing(p) /\ (Unwanted(p)' <=> Unwanted(p))
      /\ input \in [Segs -> Buffers \cup {NoBuffer}] /\ spare \subseteq Buffers /\ holds \in [Buffers -> Segs \cup {0}]
      /\ made \in Nat /\ made' \in Nat /\ claimed' = claimed /\ target' = target /\ target.plane \in Planes
      /\ \A r \in Segs : input[r] \in Nat
  BY SegmentTypes, Constants DEF Apart, Reached, Full, Unwanted, Dropped, Writing, PlaneOf, Start, End,
     TInv, Typed, TypedBuffers, TypedDecoder, Buffers, NoBuffer
<1>1. w \in Segs
  BY <1>w, <1>0, WritingSegment DEF TInv, Pending, WritePending
<1>2. /\ input'[w] = b /\ \A r \in Segs \ {w} : input'[r] = input[r]
      /\ holds'[b] = w /\ \A c \in Buffers \ {b} : holds'[c] = holds[c]
      /\ b # NoBuffer /\ b \in Nat
  BY <1>w, <1>0, <1>1 DEF GiveBuffer, Buffers, NoBuffer
<1>3. OneOwnerEach'
  <2>1. /\ \A q, r \in Segs : q # r /\ input[q] # NoBuffer => input[q] # input[r]
        /\ \A r \in Segs : input[r] \notin spare
    BY DEF BuffersRight, OneOwnerEach
  <2>2. \A q, r \in Segs : q # r /\ input'[q] # NoBuffer => input'[q] # input'[r]
    BY <1>1, <1>2, <2>1
  <2>3. \A r \in Segs : input'[r] \notin spare'
    BY <1>1, <1>2, <2>1
  <2> QED
    BY <2>2, <2>3 DEF OneOwnerEach
<1>4. MadeBuffers'
  <2>1. spare \subseteq 1 .. made /\ \A r \in Segs : input[r] <= made
    BY DEF BuffersRight, MadeBuffers
  <2>2. spare' \subseteq 1 .. made'
    BY <1>0, <2>1
  <2>3. \A r \in Segs : input'[r] <= made'
    BY <1>0, <1>1, <1>2, <2>1
  <2> QED
    BY <2>2, <2>3 DEF MadeBuffers
<1>5. HoldsRight'
  <2>1. ASSUME NEW r \in Segs, input'[r] # NoBuffer
        PROVE  holds'[input'[r]] = r
    <3>1. CASE r = w
      BY <1>2, <3>1
    <3>2. CASE r # w
      <4>1. input'[r] = input[r] /\ input[r] \in Buffers \ {b}
        BY <1>0, <1>2, <2>1, <3>2
      <4> QED
        BY <1>2, <2>1, <4>1 DEF BuffersRight, HoldsRight
    <3> QED
      BY <3>1, <3>2
  <2> QED
    BY <2>1 DEF HoldsRight
<1>6. ReachedHasBuffer'
  BY <1>0, <1>2 DEF BuffersRight, ReachedHasBuffer
<1>7. HeldHasBuffer'
  <2>1. ASSUME NEW u \in Threads, pc'[u] \in HeldPlaces, Reached(index[u])'
        PROVE  input'[index'[u]] # NoBuffer
    <3>1. pc[u] \in HeldPlaces /\ index'[u] = index[u]
      BY <2>1 DEF Apart, Others
    <3>2. PICK r \in Segs : r = index[u]
      BY <3>1 DEF TInv, Indexed
    <3>3. Reached(r)
      <4>1. Reached(r)'
        BY <2>1, <3>1, <3>2 DEF Reached, Start, PlaneOf
      <4> QED
        BY <1>0, <4>1
    <3> QED
      BY <1>2, <3>1, <3>2, <3>3 DEF BuffersRight, HeldHasBuffer, Held
  <2> QED
    BY <2>1 DEF HeldHasBuffer, Held
<1>8. FillHasBuffer'
  <2>1. Writing(target.plane)' = w
    BY <1>0, <1>w
  <2> QED
    BY <1>2, <2>1 DEF FillHasBuffer
<1>9. PartHasBuffer'
  <2>1. ASSUME NEW r \in Segs, Reached(r)', ~Full(r)', ~Unwanted(PlaneOf(r))'
        PROVE  input'[r] # NoBuffer
    <3>1. ~Unwanted(PlaneOf(r))
      BY <1>0, <2>1 DEF PlaneOf, Unwanted, Dropped
    <3> QED
      BY <1>0, <1>2, <2>1, <3>1 DEF BuffersRight, PartHasBuffer
  <2> QED
    BY <2>1 DEF PartHasBuffer
<1> QED
  BY <1>3, <1>4, <1>5, <1>6, <1>7, <1>8, <1>9 DEF BuffersRight

\* The units that Fill writes are of the segment it began in.
LEMMA FillReaches ==
    ASSUME TInv, PlanesRight, Fill, NEW s \in Segs, Reached(s)', ~Reached(s)
    PROVE  s = Writing(target.plane)
<1> DEFINE p == target.plane
           w == Writing(p)
<1>0. /\ target.plane \in Planes /\ target.units \in Nat /\ position \in [Planes -> Nat]
      /\ pc[Decoder] = "fill" /\ position' = [position EXCEPT ![p] = @ + target.units]
  BY DEF TInv, Typed, TypedDecoder, Fill, At
<1>1. position[p] < Sizes[p] /\ position[p] + target.units <= End(w)
  BY <1>0 DEF TInv, Pending, PlanesRight, WritePending
<1>2. w \in Segs /\ PlaneOf(w) = p /\ Start(w) <= position[p] /\ position[p] < End(w)
  BY <1>0, <1>1, WritingSegment DEF TInv
<1>3. PlaneOf(s) = p
  <2>1. PlaneOf(s)' = PlaneOf(s) /\ Start(s)' = Start(s) /\ PlaneOf(s) \in Planes
    BY SegmentTypes DEF PlaneOf, Start
  <2>2. position'[PlaneOf(s)] # position[PlaneOf(s)]
    BY <2>1 DEF Reached
  <2> QED
    BY <1>0, <2>1, <2>2
<1>4. Start(s) < position[p] + target.units /\ ~(Start(s) < position[p])
  <2>1. Start(s) < position'[p]
    BY <1>3 DEF Reached, Start, PlaneOf
  <2>2. position'[p] = position[p] + target.units
    BY <1>0
  <2> QED
    BY <1>3, <2>1, <2>2 DEF Reached
<1>5. /\ Start(s) \in Nat /\ End(s) \in Nat /\ Start(s) < End(s) /\ position[p] \in Nat
      /\ Start(w) \in Nat /\ End(w) \in Nat
  BY <1>0, <1>2, SegmentTypes
<1>6. s # w => End(s) <= Start(w) \/ End(w) <= Start(s)
  BY <1>2, <1>3, SegmentsAssumption
<1> HIDE DEF p, w
<1>7. ~(End(s) <= Start(w)) /\ ~(End(w) <= Start(s))
  BY <1>0, <1>1, <1>2, <1>4, <1>5
<1> QED
  BY <1>6, <1>7 DEF p, w

LEMMA BufferFilled ==
    ASSUME TInv, TInv', PlanesRight, ClaimsRight, BuffersRight, Onward, Apart(Decoder), Fill
    PROVE  BuffersRight'
<1>w. PICK w : w = Writing(target.plane)
  OBVIOUS
<1>0. /\ input' = input /\ spare' = spare /\ made' = made /\ holds' = holds
      /\ ready' = ready /\ out' = out /\ claimed' = claimed /\ pc[Decoder] = "fill"
      /\ target.plane \in Planes
  BY DEF Fill, buffersVars, sharedVars, At, TInv, Typed, TypedDecoder
<1>p. pc'[Decoder] = "publish"
  BY Constants DEF Fill, Goto, TInv, Typed, TypedThreads
<1>1. w \in Segs /\ PlaneOf(w) = target.plane /\ ~Dropped(target.plane)
  BY <1>0, <1>w, WritingSegment DEF TInv, Pending, WritePending, PlanesRight
<1>2. /\ \A r \in Segs : Reached(r)' => Reached(r) \/ r = w
      /\ \A r \in Segs : (Full(r) => Full(r)') /\ PlaneOf(r) \in Planes
      /\ \A p \in Planes : Unwanted(p)' <=> Unwanted(p)
  BY <1>0, <1>w, FillReaches, SegmentTypes DEF Onward, Unwanted, Dropped
<1>3. ~Reached(w) => ~claimed[w] /\ input[w] # NoBuffer
  BY <1>0, <1>1, <1>w DEF ClaimsRight, ClaimsReached, BuffersRight, FillHasBuffer
<1>4. OneOwnerEach' /\ MadeBuffers' /\ HoldsRight'
  BY <1>0 DEF BuffersRight, OneOwnerEach, MadeBuffers, HoldsRight
<1>5. ReachedHasBuffer'
  BY <1>0, <1>2, <1>3 DEF BuffersRight, ReachedHasBuffer
<1>6. HeldHasBuffer'
  <2>1. ASSUME NEW u \in Threads, pc'[u] \in HeldPlaces, Reached(index[u])'
        PROVE  input'[index'[u]] # NoBuffer
    <3>1. pc[u] \in HeldPlaces /\ index'[u] = index[u]
      BY <2>1 DEF Apart, Others
    <3>2. PICK r \in Segs : r = index[u]
      BY <3>1 DEF TInv, Indexed
    <3>3. Reached(r)'
      BY <2>1, <3>1, <3>2 DEF Reached, Start, PlaneOf
    <3>4. claimed[r]
      BY <3>1, <3>2 DEF ClaimsRight, HeldClaimed, Held
    <3>5. Reached(r)
      BY <1>2, <1>3, <3>3, <3>4
    <3> QED
      BY <1>0, <3>1, <3>2, <3>5 DEF BuffersRight, HeldHasBuffer, Held
  <2> QED
    BY <2>1 DEF HeldHasBuffer, Held
<1>7. FillHasBuffer'
  BY <1>p DEF FillHasBuffer
<1>8. PartHasBuffer'
  <2>1. ASSUME NEW r \in Segs, Reached(r)', ~Full(r)', ~Unwanted(PlaneOf(r))'
        PROVE  input'[r] # NoBuffer
    <3>1. ~Unwanted(PlaneOf(r)) /\ ~Full(r)
      BY <1>2, <2>1 DEF PlaneOf, Unwanted, Dropped
    <3> QED
      BY <1>0, <1>2, <1>3, <2>1, <3>1 DEF BuffersRight, PartHasBuffer
  <2> QED
    BY <2>1 DEF PartHasBuffer
<1> QED
  BY <1>4, <1>5, <1>6, <1>7, <1>8 DEF BuffersRight

LEMMA BuffersStep ==
    ASSUME TInv, TInv', PlanesRight, ClaimsRight, ClaimsRight', OneThreadEach, BuffersRight, [Next]_vars
    PROVE  BuffersRight'
<1> USE DEF Goto, At, sharedVars
<1>0. Onward
  BY StepOnward
<1>1. ASSUME NEW t \in Threads, ThreadStep(t)
      PROVE  BuffersRight'
  <2>1. Others(t) /\ SamePlanes /\ Does(t)
    BY <1>1, ThreadDoes
  <2>2. pc'[Decoder] = "fill" => pc[Decoder] = "fill" /\ target' = target
    BY <1>1, <2>1, ThreadFills, Constants DEF Others, SamePlanes
  <2>3. CASE GivesBack(t)
    BY <2>1, <2>2, <2>3, GivenBack
  <2>4. CASE ~GivesBack(t)
    <3>1. /\ input' = input /\ spare' = spare /\ made' = made /\ holds' = holds /\ position' = position
          /\ \A s \in Segs : claimed[s] => claimed'[s]
      BY <2>1, <2>4 DEF Does, Quiet, Takes, Keeps, Begins, Stops, Completes, SameSegments, SamePlanes,
         TInv, Typed, TypedShared
    <3>2. pc'[t] \in HeldPlaces =>
               (pc[t] \in HeldPlaces \/ ~claimed[index'[t]]) /\ (pc[t] \in HeldPlaces => index'[t] = index[t])
      BY <2>1, <2>4 DEF Does, Quiet, Takes, Keeps, Begins, Stops, Completes, Claimable, HeldPlaces
    <3>3. \A u \in Threads : pc'[u] \in HeldPlaces =>
               (pc[u] \in HeldPlaces \/ ~claimed[index'[u]]) /\ (pc[u] \in HeldPlaces => index'[u] = index[u])
      BY <2>1, <3>2 DEF Others
    <3> QED
      BY <1>0, <2>2, <3>1, <3>3, SameBuffers
  <2> QED
    BY <2>3, <2>4
\* Steps of the decoder or of the pool that take and fill no buffer.
<1>s. ASSUME NEW t \in Threads, Apart(t), input' = input, spare' = spare, made' = made, holds' = holds,
             position' = position,
             pc'[Decoder] = "fill" =>
                 \/ pc[Decoder] = "fill" /\ target' = target
                 \/ input[Writing(target'.plane)] # NoBuffer
      PROVE  BuffersRight'
  BY <1>0, <1>s, SameBuffers DEF Apart, Others
<1>2. ASSUME NEW h \in Helpers, Take(h) \/ Leave(h)
      PROVE  BuffersRight'
  <2>1. Apart(h) /\ SamePlanes /\ input' = input /\ spare' = spare
    BY <1>2, PoolApart
  <2>2. pc'[Decoder] = pc[Decoder]
    BY <2>1, Constants DEF Apart, Others
  <2> QED
    BY <1>s, <2>1, <2>2, Constants DEF SamePlanes
<1>3. CASE DecoderChoice \/ DecoderStep
  <2>0. Apart(Decoder) /\ Decoder \in Threads
    BY <1>3, DecoderApart, Constants
  <2>p. \A place : pc' = [pc EXCEPT ![Decoder] = place] => pc'[Decoder] = place
    BY Constants DEF TInv, Typed, TypedThreads
  <2>1. ASSUME NEW p \in Planes, NEW n, Write(p, n)
        PROVE  BuffersRight'
    <3>1. /\ input' = input /\ spare' = spare /\ made' = made /\ holds' = holds /\ position' = position
          /\ target'.plane = p
      BY <2>1 DEF Write, buffersVars
    <3>2. pc'[Decoder] = "fill" => input[Writing(p)] # NoBuffer
      BY <2>1, <2>p DEF Write
    <3> QED
      BY <1>s, <2>0, <3>1, <3>2
  <2>2. ASSUME NEW b \in Buffers, AcquireSpare(b)
        PROVE  BuffersRight'
    <3>1. /\ pc[Decoder] = "acquire" /\ GiveBuffer(b) /\ b \in spare /\ spare' = spare \ {b} /\ made' = made
          /\ UNCHANGED <<ready, out, position, target>>
      BY <2>2 DEF AcquireSpare, Acquiring, decoderVars
    <3>2. \A s \in Segs : input[s] # b
      BY <3>1 DEF BuffersRight, OneOwnerEach
    <3>3. made <= made' /\ b <= made'
      <4>1. spare \subseteq 1 .. made /\ made \in Nat
        BY Constants DEF BuffersRight, MadeBuffers, TInv, Typed, TypedBuffers
      <4> QED
        BY <3>1, <4>1
    <3> QED
      BY <2>0, <3>1, <3>2, <3>3, BufferGiven
  <2>3. ASSUME AcquireNew
        PROVE  BuffersRight'
    <3>1. /\ pc[Decoder] = "acquire" /\ GiveBuffer(made + 1) /\ spare = {} /\ spare' = spare /\ made' = made + 1
          /\ made < bufferLimit /\ UNCHANGED <<ready, out, position, target>>
      BY <2>3 DEF AcquireNew, Acquiring, decoderVars
    <3>2. made \in Nat /\ bufferLimit \in Nat /\ \A s \in Segs : input[s] \in Nat /\ input[s] <= made
      BY Constants DEF BuffersRight, MadeBuffers, TInv, Typed, TypedBuffers, Buffers, NoBuffer
    <3>3. PICK b : b = made + 1
      OBVIOUS
    <3>4. b \in Buffers /\ made <= made' /\ b <= made'
      BY <3>1, <3>2, <3>3 DEF Buffers
    <3>5. \A s \in Segs : input[s] # b
      BY <3>2, <3>3
    <3>6. GiveBuffer(b)
      BY <3>1, <3>3
    <3>7. spare' = spare \ {b}
      BY <3>1
    <3> QED
      BY <2>0, <3>1, <3>4, <3>5, <3>6, <3>7, BufferGiven
  <2>4. ASSUME AcquireFails
        PROVE  BuffersRight'
    <3>1. /\ input' = input /\ spare' = spare /\ made' = made + 1 /\ holds' = holds /\ position' = position
          /\ ready' = ready /\ out' = out /\ claimed' = claimed /\ target' = target /\ pc'[Decoder] = "destroy"
      BY <2>4, <2>p DEF AcquireFails
    <3>2. made \in Nat /\ \A s \in Segs : input[s] \in Nat
      BY Constants DEF TInv, Typed, TypedBuffers, Buffers, NoBuffer
    <3>3. MadeBuffers'
      <4>1. spare \subseteq 1 .. made /\ \A s \in Segs : input[s] <= made
        BY DEF BuffersRight, MadeBuffers
      <4>2. spare \subseteq 1 .. made + 1 /\ \A s \in Segs : input[s] <= made + 1
        BY <3>2, <4>1
      <4> QED
        BY <3>1, <4>2 DEF MadeBuffers
    <3>4. OneOwnerEach' /\ HoldsRight' /\ FillHasBuffer'
      BY <3>1 DEF BuffersRight, OneOwnerEach, HoldsRight, FillHasBuffer
    <3>5. ReachedHasBuffer' /\ PartHasBuffer'
      BY <3>1 DEF BuffersRight, ReachedHasBuffer, PartHasBuffer, Reached, Full, Unwanted, Dropped, PlaneOf, Start, End
    <3>6. HeldHasBuffer'
      <4>1. ASSUME NEW u \in Threads, pc'[u] \in HeldPlaces, Reached(index[u])'
            PROVE  input'[index'[u]] # NoBuffer
        <5>1. pc[u] \in HeldPlaces /\ index'[u] = index[u]
          BY <2>0, <4>1 DEF Apart, Others
        <5>2. Reached(index[u])
          BY <3>1, <4>1, <5>1 DEF Reached, Start, PlaneOf
        <5> QED
          BY <3>1, <5>1, <5>2 DEF BuffersRight, HeldHasBuffer, Held
      <4> QED
        BY <4>1 DEF HeldHasBuffer, Held
    <3> QED
      BY <3>3, <3>4, <3>5, <3>6 DEF BuffersRight
  <2>5. ASSUME Fill
        PROVE  BuffersRight'
    BY <1>0, <2>0, <2>5, BufferFilled
  <2>6. ASSUME \/ \E p \in Planes : Abandon(p)
               \/ AcquireEncode \/ AwaitBuffer \/ Publish \/ Advance \/ WriteDone
               \/ Destroy \/ Cancel \/ LeaveHelpers \/ Streams \/ Finish \/ GiveUp
        PROVE  BuffersRight'
    <3>1. input' = input /\ spare' = spare /\ made' = made /\ holds' = holds /\ position' = position
      BY <2>6 DEF Abandon, AcquireEncode, AwaitBuffer, Publish, Advance, WriteDone, Destroy, Cancel, LeaveHelpers,
         Streams, Finish, GiveUp, buffersVars, decoderVars
    <3>2. pc'[Decoder] # "fill"
      BY <2>6, <2>p DEF Abandon, AcquireEncode, AwaitBuffer, Publish, Advance, WriteDone, Destroy, Cancel, LeaveHelpers,
         Streams, Finish, GiveUp
    <3> QED
      BY <1>s, <2>0, <3>1, <3>2
  <2> QED
    BY <1>3, <2>1, <2>2, <2>3, <2>4, <2>5, <2>6 DEF DecoderChoice, DecoderStep
<1>4. CASE UNCHANGED vars
  BY <1>4 DEF vars, BuffersRight, OneOwnerEach, MadeBuffers, HoldsRight, ReachedHasBuffer, HeldHasBuffer,
     FillHasBuffer, PartHasBuffer, Held, Reached, Full, Unwanted, Dropped, Writing
<1> QED
  BY <1>1, <1>2, <1>3, <1>4 DEF Next, Rest

LEMMA BuffersInit ==
    ASSUME Init
    PROVE  BuffersRight
<1>1. /\ \A t \in Threads : pc[t] \in {"idle", "pool"}
      /\ \A p \in Planes : position[p] = 0
      /\ spare = {} /\ made = 0 /\ \A s \in Segs : input[s] = 0
  BY DEF Init, NoBuffer
<1>2. \A s \in Segs : ~Reached(s)
  BY <1>1, SegmentTypes DEF Reached
<1>3. OneOwnerEach /\ MadeBuffers
  BY <1>1 DEF OneOwnerEach, MadeBuffers, NoBuffer
<1>4. HoldsRight /\ ReachedHasBuffer /\ PartHasBuffer
  BY <1>1, <1>2 DEF HoldsRight, ReachedHasBuffer, PartHasBuffer, NoBuffer
<1>5. HeldHasBuffer /\ FillHasBuffer
  BY <1>1, Constants DEF HeldHasBuffer, FillHasBuffer, Held, HeldPlaces
<1> QED
  BY <1>3, <1>4, <1>5 DEF BuffersRight

-----------------------------------------------------------------------------
(* The theorems about buffers *)

OutRight == \A p \in Planes \ OutFails : out[p]

IInv ==
    /\ TInv /\ Counted /\ Locked /\ OneThreadEach
    /\ PlanesRight /\ ClaimsRight /\ BuffersRight /\ OutRight

LEMMA IInvInit ==
    ASSUME Init
    PROVE  IInv
<1>1. Locked
  BY Constants DEF Init, Locked
<1>2. OutRight
  BY DEF Init, OutRight
<1> QED
  BY <1>1, <1>2, TypeInit, CountInit, HoldersInit, PlanesInit, ClaimsInit, BuffersInit DEF IInv

LEMMA IInvStep ==
    ASSUME IInv, [Next]_vars
    PROVE  IInv'
<1>1. TInv' /\ Counted' /\ Locked'
  BY TypeStep, CountStep, LockedStep DEF IInv
<1>2. OneThreadEach' /\ PlanesRight' /\ ClaimsRight'
  BY <1>1, HoldersStep, PlanesStep, ClaimsStep DEF IInv
<1>3. BuffersRight'
  BY <1>1, <1>2, BuffersStep DEF IInv
<1>4. OutRight'
  BY StepOnward DEF IInv, OutRight, Onward
<1> QED
  BY <1>1, <1>2, <1>3, <1>4 DEF IInv

LEMMA Invariant == Spec => []IInv
BY IInvInit, IInvStep, PTL DEF Spec

\* AcquireBuffer, Writing and Release keep a segment buffer with one segment or in the spare
\* list, never both, whichever allocations fail.
THEOREM BuffersOwned == Spec => []OneOwnerEach
<1>1. IInv => OneOwnerEach
  BY DEF IInv, BuffersRight
<1> QED
  BY <1>1, Invariant, PTL

\* DeflateImageSegment reads the bytes of the segment its thread has claimed: its buffer is not
\* given to another segment meanwhile.
THEOREM BytesOwned == Spec => []OwnBytes
<1>1. IInv => OwnBytes
  <2> SUFFICES ASSUME IInv, NEW t \in Threads, pc[t] = "deflate"
               PROVE  input[index[t]] # NoBuffer /\ holds[input[index[t]]] = index[t]
    BY DEF OwnBytes, At
  <2>1. Reached(index[t]) /\ Held(t) /\ index[t] \in Segs
    BY DEF IInv, ClaimsRight, DeflatesReached, Held, HeldPlaces, TInv, Indexed
  <2> QED
    BY <2>1 DEF IInv, BuffersRight, HeldHasBuffer, HoldsRight
<1> QED
  BY <1>1, Invariant, PTL

\* Writing, Release and DeflateImageSegment together: a buffer is one segment's or spare, and
\* what is compressed from it is that segment's bytes, whichever allocations fail.
THEOREM BuffersHeld == Spec => []BuffersKept
BY BuffersOwned, BytesOwned, PTL DEF BuffersKept

\* Where no output allocation fails, the decoder writes into its segment's own buffer.  (Where
\* one fails it may not: a helper gives the buffer back early.)
THEOREM DecoderWrites ==
    ASSUME OutFails = {}
    PROVE  Spec => []DecoderHasBuffer
<1>1. IInv => DecoderHasBuffer
  <2> SUFFICES ASSUME IInv, pc[Decoder] = "fill"
               PROVE  LET b == input[Writing(target.plane)] IN
                      b # NoBuffer /\ holds[b] = Writing(target.plane)
    BY DEF DecoderHasBuffer, At
  <2>1. PICK w : w = Writing(target.plane)
    OBVIOUS
  <2>2. /\ target.plane \in Planes /\ position[target.plane] < Sizes[target.plane] /\ ~Dropped(target.plane)
        /\ Typed
    BY DEF IInv, TInv, Pending, WritePending, PlanesRight, Typed, TypedDecoder
  <2>3. w \in Segs /\ PlaneOf(w) = target.plane /\ position[PlaneOf(w)] < End(w)
    BY <2>1, <2>2, WritingSegment
  <2>4. ~Full(w)
    <3>1. End(w) \in Nat /\ position[PlaneOf(w)] \in Nat
      BY <2>2, <2>3, SegmentTypes DEF Typed, TypedDecoder
    <3> QED
      BY <2>3, <3>1 DEF Full
  <2>5. ~Unwanted(PlaneOf(w))
    BY <2>2, <2>3 DEF IInv, OutRight, Unwanted
  <2>6. input[w] # NoBuffer
    <3>1. CASE claimed[w]
      <4>1. Reached(w)
        BY <2>2, <2>3, <3>1 DEF IInv, ClaimsRight, ClaimsReached
      <4> QED
        BY <2>3, <2>4, <2>5, <4>1 DEF IInv, BuffersRight, PartHasBuffer
    <3>2. CASE ~claimed[w]
      BY <2>1, <3>2 DEF IInv, BuffersRight, FillHasBuffer
    <3> QED
      BY <3>1, <3>2
  <2> QED
    BY <2>1, <2>3, <2>6 DEF IInv, BuffersRight, HoldsRight
<1> QED
  BY <1>1, Invariant, PTL

-----------------------------------------------------------------------------
(* The count of the claimed segments and the end of the encoder *)

Counting == {t \in Threads : pc[t] \in {"count"}}
Claimed == {s \in Segs : claimed[s]}
CountsRight == claimedCount + Cardinality(Counting) = Cardinality(Claimed)

LEMMA ThreadCounts ==
    ASSUME TInv, NEW t \in Threads, ThreadStep(t)
    PROVE  claimedCount' = IF pc[t] = "count" THEN claimedCount + 1 ELSE claimedCount
<1> USE DEF At
<1>1. CASE CountClaim(t)
  BY <1>1 DEF CountClaim
<1>2. CASE WorkLoop(t) \/ ClaimTake(t) \/ ClaimSkip(t) \/ ClaimNone(t) \/ Encode(t)
  BY <1>2 DEF WorkLoop, ClaimTake, ClaimSkip, ClaimNone, Encode
<1>3. CASE DeflateBlock(t) \/ DeflateStop(t) \/ Release(t)
  BY <1>3 DEF DeflateBlock, DeflateStop, Release
<1>4. CASE Lock(t) \/ CheckYes(t) \/ CheckNext(t) \/ CheckNo(t) \/ Woken(t)
  BY <1>4 DEF Lock, CheckYes, CheckNext, CheckNo, Woken
<1>5. CASE Wake(t)
  BY <1>5, WakeNextValues DEF Wake
<1> QED
  BY <1>1, <1>2, <1>3, <1>4, <1>5 DEF ThreadStep

LEMMA SegsFinite == IsFiniteSet(Segs) /\ Cardinality(Segs) = Count
<1>1. 1 \in Int /\ Count \in Int /\ Count \in Nat
  BY Constants
<1>2. IsFiniteSet(1 .. Count) /\ Cardinality(1 .. Count) = IF 1 > Count THEN 0 ELSE Count - 1 + 1
  BY <1>1, FS_Interval
<1> QED
  BY <1>1, <1>2 DEF Segs

LEMMA CountingFinite ==
    /\ IsFiniteSet(Counting) /\ IsFiniteSet(Claimed)
    /\ Cardinality(Counting) \in Nat /\ Cardinality(Claimed) \in Nat
<1>1. IsFiniteSet(Counting) /\ IsFiniteSet(Claimed)
  BY ThreadsFinite, SegsFinite, FS_Subset DEF Counting, Claimed
<1> QED
  BY <1>1, FS_CardinalityType

LEMMA CountsStep ==
    ASSUME TInv, TInv', CountsRight, [Next]_vars
    PROVE  CountsRight' /\ claimedCount <= claimedCount'
<1>0. TypedThreads /\ claimedCount \in Nat /\ claimed \in [Segs -> BOOLEAN]
  BY DEF TInv, Typed, TypedCounts, TypedShared
<1>1. ASSUME Counting' = Counting, claimed' = claimed, claimedCount' = claimedCount
      PROVE  CountsRight' /\ claimedCount <= claimedCount'
  BY <1>0, <1>1 DEF CountsRight, Claimed
<1>2. ASSUME NEW t \in Threads, Others(t), pc[t] # "count", pc'[t] # "count"
      PROVE  Counting' = Counting
  BY <1>2 DEF Counting, Others
<1>3. ASSUME NEW t \in Threads, ThreadStep(t)
      PROVE  CountsRight' /\ claimedCount <= claimedCount'
  <2>1. Others(t) /\ Does(t) /\ claimedCount' = IF pc[t] = "count" THEN claimedCount + 1 ELSE claimedCount
    BY <1>3, ThreadDoes, ThreadCounts
  <2>2. CASE Takes(t)
    <3>1. PICK s : s = index[t]
      OBVIOUS
    <3>2. /\ s \in Segs /\ ~claimed[s] /\ claimed' = [claimed EXCEPT ![s] = TRUE]
          /\ pc[t] = "claim" /\ pc'[t] = "count"
      BY <2>2, <3>1 DEF Takes, Claimable
    <3>3. Counting' = Counting \cup {t} /\ t \notin Counting
      BY <2>1, <3>2 DEF Counting, Others
    <3>4. Claimed' = Claimed \cup {s} /\ s \notin Claimed
      BY <1>0, <3>2 DEF Claimed
    <3>5. /\ Cardinality(Counting') = Cardinality(Counting) + 1
          /\ Cardinality(Claimed') = Cardinality(Claimed) + 1
      BY <3>3, <3>4, CountingFinite, FS_AddElement
    <3>6. claimedCount' = claimedCount
      BY <2>1, <3>2
    <3> QED
      BY <1>0, <3>5, <3>6, CountingFinite DEF CountsRight
  <2>3. CASE Keeps(t) /\ pc[t] = "count"
    <3>1. pc'[t] # "count" /\ claimed' = claimed /\ claimedCount' = claimedCount + 1
      BY <2>1, <2>3 DEF Keeps, SameSegments
    <3>2. Counting' = Counting \ {t} /\ t \in Counting
      BY <2>1, <2>3, <3>1 DEF Counting, Others
    <3>3. Cardinality(Counting') = Cardinality(Counting) - 1
      BY <3>2, CountingFinite, FS_RemoveElement
    <3>4. Claimed' = Claimed
      BY <3>1 DEF Claimed
    <3> QED
      BY <1>0, <3>1, <3>3, <3>4, CountingFinite DEF CountsRight
  <2>4. CASE ~Takes(t) /\ ~(Keeps(t) /\ pc[t] = "count")
    <3>1. pc[t] # "count" /\ pc'[t] # "count" /\ claimed' = claimed
      BY <2>1, <2>4 DEF Does, Quiet, Keeps, Begins, Stops, Completes, GivesBack, SameSegments, HeldPlaces
    <3> QED
      BY <1>1, <1>2, <2>1, <3>1
  <2> QED
    BY <2>2, <2>3, <2>4
<1>4. ASSUME NEW t \in Threads, Apart(t), claimedCount' = claimedCount
      PROVE  CountsRight' /\ claimedCount <= claimedCount'
  BY <1>1, <1>2, <1>4 DEF Apart, HeldPlaces
<1>5. ASSUME NEW h \in Helpers, Take(h) \/ Leave(h)
      PROVE  CountsRight' /\ claimedCount <= claimedCount'
  <2>1. claimedCount' = claimedCount
    BY <1>5 DEF Take, Leave
  <2> QED
    BY <1>4, <1>5, <2>1, Constants, PoolApart
<1>6. CASE DecoderChoice \/ DecoderStep
  <2>1. claimedCount' = claimedCount
    BY <1>6 DEF DecoderChoice, DecoderStep, Write, Abandon, Finish, GiveUp, AcquireSpare, AcquireNew,
       AcquireFails, AcquireEncode, AwaitBuffer, Fill, Publish, Advance, WriteDone, Destroy, Cancel,
       LeaveHelpers, Streams, sharedVars
  <2> QED
    BY <1>4, <1>6, <2>1, Constants, DecoderApart
<1>7. CASE UNCHANGED vars
  BY <1>1, <1>7 DEF vars, Counting
<1> QED
  BY <1>3, <1>5, <1>6, <1>7 DEF Next, Rest

LEMMA AllClaimed ==
    ASSUME TInv, CountsRight, claimedCount >= Count, NEW s \in Segs
    PROVE  claimed[s]
<1>1. /\ claimedCount \in Nat /\ Cardinality(Counting) \in Nat /\ Cardinality(Claimed) \in Nat
      /\ Count \in Nat /\ claimedCount + Cardinality(Counting) = Cardinality(Claimed)
  BY CountingFinite, Constants DEF CountsRight, TInv, Typed, TypedCounts
<1>2. Cardinality(Claimed) >= Count
  BY <1>1
<1>3. Claimed = Segs
  <2>1. Claimed \subseteq Segs /\ IsFiniteSet(Segs) /\ Cardinality(Segs) = Count
    BY SegsFinite DEF Claimed
  <2>2. Cardinality(Claimed) <= Cardinality(Segs)
    BY <2>1, FS_Subset
  <2>3. Cardinality(Claimed) = Cardinality(Segs)
    BY <1>1, <1>2, <2>1, <2>2
  <2> QED
    BY <2>1, <2>3, FS_Subset
<1> QED
  BY <1>3 DEF Claimed

LEMMA CountsInit ==
    ASSUME Init
    PROVE  CountsRight
<1>1. Counting = {} /\ Claimed = {} /\ claimedCount = 0
  BY Constants DEF Init, Counting, Claimed
<1> QED
  BY <1>1, FS_EmptySet DEF CountsRight

\* Streams are of planes that are whole; the calls that end the encoder come in order.
EndPlaces == {"destroy", "wake destroy", "cancel", "leave", "freed"}

CallsRight ==
    /\ call = "Destroy" <=> result # "none"
    /\ call = "Destroy" => pc[Decoder] \in EndPlaces
    /\ pc[Decoder] \in EndPlaces => call = "Destroy" \/ (call = "Finish" /\ pc[Decoder] \in {"cancel", "leave"})
    /\ pc[Decoder] = "streams" => call = "Finish"
    /\ call = "Finish" /\ pc[Decoder] \in {"cancel", "leave", "streams"} => claimedCount >= Count

ResultRight ==
    result = "streams" =>
        /\ \A p \in Planes : Dropped(p) \/ Written(p)
        /\ \A s \in Segs : Dropped(PlaneOf(s)) \/ s \in whole

LEMMA DecoderThreadCalls ==
    ASSUME TInv, ThreadStep(Decoder)
    PROVE  /\ pc[Decoder] \notin EndPlaces \ {"wake destroy"} /\ pc[Decoder] # "streams"
           /\ pc'[Decoder] \notin EndPlaces \ {"cancel"} /\ pc'[Decoder] # "streams"
           /\ pc[Decoder] = "wake destroy" => pc'[Decoder] = "cancel"
           /\ pc'[Decoder] = "cancel" =>
                 pc[Decoder] = "wake destroy" \/ (call = "Finish" /\ claimedCount >= Count)
<1> USE DEF Goto, At, EndPlaces
<1>1. \A place : pc' = [pc EXCEPT ![Decoder] = place] => pc'[Decoder] = place
  BY Constants DEF TInv, Typed, TypedThreads
<1>2. CASE WorkLoop(Decoder)
  <2>1. pc[Decoder] = "work" /\ call = "Finish"
    BY <1>2 DEF WorkLoop, TInv, Pending
  <2> QED
    BY <1>1, <1>2, <2>1 DEF WorkLoop
<1>3. CASE ClaimTake(Decoder) \/ ClaimSkip(Decoder) \/ ClaimNone(Decoder) \/ CountClaim(Decoder) \/ Encode(Decoder)
  BY <1>1, <1>3 DEF ClaimTake, ClaimSkip, ClaimNone, CountClaim, Encode
<1>4. CASE DeflateBlock(Decoder) \/ DeflateStop(Decoder) \/ Release(Decoder)
  BY <1>1, <1>4 DEF DeflateBlock, DeflateStop, Release, Released
<1>5. CASE Lock(Decoder) \/ CheckYes(Decoder) \/ CheckNext(Decoder) \/ CheckNo(Decoder) \/ Woken(Decoder)
  BY <1>1, <1>5 DEF Lock, CheckYes, CheckNext, CheckNo, Woken
<1>6. CASE Wake(Decoder)
  BY <1>1, <1>6, WakeNextValues DEF Wake
<1> QED
  BY <1>2, <1>3, <1>4, <1>5, <1>6 DEF ThreadStep

LEMMA CallsStep ==
    ASSUME TInv, TInv', CountsRight, CallsRight, [Next]_vars
    PROVE  CallsRight'
<1> USE DEF Goto, At, EndPlaces
<1>0. /\ claimedCount \in Nat /\ claimedCount' \in Nat /\ claimedCount <= claimedCount' /\ Count \in Nat
      /\ claimedCount >= Count => claimedCount' >= Count
  <2>1. claimedCount \in Nat /\ claimedCount' \in Nat /\ claimedCount <= claimedCount' /\ Count \in Nat
    BY CountsStep, Constants DEF TInv, Typed, TypedCounts
  <2> QED
    BY <2>1
<1>p. \A place : pc' = [pc EXCEPT ![Decoder] = place] => pc'[Decoder] = place
  BY Constants DEF TInv, Typed, TypedThreads
<1>1. ASSUME pc'[Decoder] = pc[Decoder], call' = call, result' = result
      PROVE  CallsRight'
  BY <1>0, <1>1 DEF CallsRight
<1>2. ASSUME NEW t \in Threads, ThreadStep(t)
      PROVE  CallsRight'
  <2>1. Others(t) /\ call' = call /\ result' = result
    BY <1>2, ThreadDoes DEF SamePlanes
  <2>2. CASE t # Decoder
    BY <1>1, <2>1, <2>2, Constants DEF Others
  <2>3. CASE t = Decoder
    BY <1>0, <1>2, <2>1, <2>3, DecoderThreadCalls DEF CallsRight
  <2> QED
    BY <2>2, <2>3
<1>3. ASSUME NEW h \in Helpers, Take(h) \/ Leave(h)
      PROVE  CallsRight'
  BY <1>1, <1>3, PoolApart, Constants DEF Apart, Others, SamePlanes
<1>4. CASE DecoderChoice
  <2>0. pc[Decoder] = "idle" /\ result = "none" /\ call # "Destroy"
    BY <1>4 DEF DecoderChoice, Write, Abandon, Finish, GiveUp, Idle, CallsRight
  <2>1. ASSUME NEW p \in Planes, NEW n, Write(p, n)
        PROVE  CallsRight'
    BY <1>p, <2>0, <2>1 DEF Write, CallsRight
  <2>2. ASSUME NEW p \in Planes, Abandon(p)
        PROVE  CallsRight'
    BY <1>p, <2>0, <2>2 DEF Abandon, CallsRight, decoderVars
  <2>3. CASE Finish
    BY <1>p, <2>0, <2>3 DEF Finish, CallsRight
  <2>4. CASE GiveUp
    BY <1>p, <2>0, <2>4 DEF GiveUp, CallsRight
  <2> QED
    BY <1>4, <2>1, <2>2, <2>3, <2>4 DEF DecoderChoice
<1>5. CASE DecoderStep
  <2>1. ASSUME NEW b, AcquireSpare(b)
        PROVE  CallsRight'
    BY <1>p, <2>1 DEF AcquireSpare, Acquiring, GiveBuffer, CallsRight, decoderVars
  <2>2. CASE AcquireNew \/ AcquireEncode \/ AwaitBuffer
    BY <1>p, <2>2 DEF AcquireNew, AcquireEncode, AwaitBuffer, Acquiring, GiveBuffer, CallsRight, decoderVars
  <2>3. CASE AcquireFails
    BY <1>p, <2>3 DEF AcquireFails, Acquiring, CallsRight
  <2>4. CASE Fill \/ Publish \/ Advance
    BY <1>p, <2>4 DEF Fill, Publish, Advance, CallsRight, decoderVars
  <2>5. CASE WriteDone
    BY <1>p, <2>5 DEF WriteDone, CallsRight
  <2>6. CASE Destroy
    <3>1. call' = call /\ result' = result /\ pc[Decoder] = "destroy" /\ pc'[Decoder] \in {"destroy", "wake destroy"}
      BY <1>p, <2>6 DEF Destroy, decoderVars
    <3> QED
      BY <3>1 DEF CallsRight
  <2>7. CASE Cancel
    <3>1. /\ call' = call /\ result' = result /\ pc[Decoder] = "cancel" /\ pc'[Decoder] = "leave"
          /\ claimedCount' = claimedCount
      BY <1>p, <2>7 DEF Cancel, decoderVars, sharedVars
    <3> QED
      BY <3>1 DEF CallsRight
  <2>8. CASE LeaveHelpers
    <3>1. /\ call' = call /\ result' = result /\ pc[Decoder] = "leave" /\ claimedCount' = claimedCount
          /\ \/ pc'[Decoder] = "leave"
             \/ pc'[Decoder] = "streams" /\ call = "Finish"
             \/ pc'[Decoder] = "freed" /\ call # "Finish"
      BY <1>p, <2>8 DEF LeaveHelpers, decoderVars, sharedVars
    <3> QED
      BY <3>1 DEF CallsRight
  <2>9. CASE Streams
    <3>1. /\ call' = "Destroy" /\ result' \in {"failed", "streams"} /\ pc'[Decoder] = "destroy"
      BY <1>p, <2>9 DEF Streams
    <3> QED
      BY <3>1 DEF CallsRight
  <2> QED
    BY <1>5, <2>1, <2>2, <2>3, <2>4, <2>5, <2>6, <2>7, <2>8, <2>9 DEF DecoderStep
<1>6. CASE UNCHANGED vars
  BY <1>1, <1>6 DEF vars
<1> QED
  BY <1>2, <1>3, <1>4, <1>5, <1>6 DEF Next, Rest

LEMMA WholeGrows ==
    ASSUME TInv, [Next]_vars
    PROVE  whole \subseteq whole'
<1>1. ASSUME NEW t \in Threads, ThreadStep(t)
      PROVE  whole \subseteq whole'
  BY <1>1, ThreadDoes DEF Does, Quiet, Takes, Keeps, Begins, Stops, Completes, GivesBack, SameSegments
<1> QED
  BY <1>1, PoolApart, DecoderApart DEF Apart, Next, Rest, vars

LEMMA ResultStep ==
    ASSUME IInv, CountsRight, CallsRight, ResultRight, [Next]_vars
    PROVE  ResultRight'
<1> USE DEF Goto, At
<1>0. /\ Onward /\ whole \subseteq whole' /\ \A s \in Segs : PlaneOf(s) \in Planes /\ PlaneOf(s)' = PlaneOf(s)
      /\ TInv
  BY StepOnward, WholeGrows, SegmentTypes DEF IInv, PlaneOf
<1>1. CASE Streams
  <2>1. /\ pc[Decoder] = "streams" /\ call = "Finish" /\ ready' = ready /\ position' = position /\ whole' = whole
        /\ result' = "streams" => \A p \in Planes : ready[p] = Abandoned \/ out[p]
    BY <1>1 DEF Streams, CallsRight, sharedVars
  <2>2. \A t \in Threads : ~Held(t)
    BY <2>1 DEF IInv, Locked, Held, HeldPlaces, Threads
  <2>3. \A s \in Segs : Done(s)
    <3>1. claimedCount >= Count
      BY <2>1 DEF CallsRight
    <3>2. \A s \in Segs : claimed[s]
      BY <1>0, <3>1, AllClaimed
    <3> QED
      BY <2>2, <3>2 DEF IInv, ClaimsRight, ClaimsDone, HoldsOne
  <2>4. \A p \in Planes : Dropped(p) \/ Written(p)
    BY <2>1 DEF IInv, PlanesRight
  <2>5. result' = "streams" => \A s \in Segs : Dropped(PlaneOf(s)) \/ s \in whole
    BY <1>0, <2>1, <2>3 DEF Done, Unwanted, Dropped
  <2> QED
    BY <1>0, <2>1, <2>4, <2>5 DEF ResultRight, Dropped, Written
<1>2. CASE ~Streams
  <2>1. result' = "streams" => result = "streams" /\ position' = position
    <3>1. ASSUME NEW t \in Threads, ThreadStep(t)
          PROVE  result' = result /\ position' = position
      BY <1>0, <3>1, ThreadDoes DEF SamePlanes
    <3>2. ASSUME NEW h \in Helpers, Take(h) \/ Leave(h)
          PROVE  result' = result /\ position' = position
      BY <1>0, <3>2, PoolApart DEF SamePlanes
    <3>3. ASSUME DecoderChoice \/ DecoderStep, ~Fill, result' = "streams"
          PROVE  result' = result /\ position' = position
      BY <1>2, <3>3 DEF DecoderChoice, DecoderStep, Write, Abandon, Finish, GiveUp, AcquireSpare, AcquireNew,
         AcquireFails, AcquireEncode, AwaitBuffer, Publish, Advance, WriteDone, Destroy, Cancel,
         LeaveHelpers, decoderVars
    <3>4. ASSUME Fill
          PROVE  result' # "streams"
      <4>1. pc[Decoder] = "fill" /\ result' = result /\ call = "Write"
        BY <1>0, <3>4 DEF Fill, TInv, Pending, WritePending
      <4> QED
        BY <4>1 DEF CallsRight
    <3>5. CASE UNCHANGED vars
      BY <3>5 DEF vars
    <3> QED
      BY <3>1, <3>2, <3>3, <3>4, <3>5 DEF Next, Rest
  <2>2. ASSUME result' = "streams", NEW p \in Planes
        PROVE  Dropped(p)' \/ Written(p)'
    BY <1>0, <2>1, <2>2 DEF ResultRight, Onward, Written
  <2>3. ASSUME result' = "streams", NEW s \in Segs
        PROVE  Dropped(PlaneOf(s))' \/ s \in whole'
    <3>1. PICK p \in Planes : p = PlaneOf(s)
      BY <1>0
    <3>2. Dropped(p)' \/ s \in whole'
      BY <1>0, <2>1, <2>3, <3>1 DEF ResultRight, Onward
    <3> QED
      BY <3>1, <3>2 DEF PlaneOf
  <2> QED
    BY <2>2, <2>3 DEF ResultRight
<1> QED
  BY <1>1, <1>2

CallsInv == IInv /\ CountsRight /\ CallsRight /\ ResultRight

LEMMA CallsInvHolds == Spec => []CallsInv
<1>1. Init => CallsInv
  <2>1. Init => CallsRight /\ ResultRight
    BY Constants DEF Init, CallsRight, ResultRight, EndPlaces
  <2> QED
    BY <2>1, IInvInit, CountsInit DEF CallsInv
<1>2. CallsInv /\ [Next]_vars => CallsInv'
  <2> SUFFICES ASSUME CallsInv, [Next]_vars
               PROVE  CallsInv'
    OBVIOUS
  <2>1. IInv' /\ TInv /\ TInv'
    BY IInvStep DEF CallsInv, IInv
  <2>2. CountsRight'
    BY <2>1, CountsStep DEF CallsInv
  <2>3. CallsRight' /\ ResultRight'
    BY <2>1, CallsStep, ResultStep DEF CallsInv
  <2> QED
    BY <2>1, <2>2, <2>3 DEF CallsInv
<1> QED
  BY <1>1, <1>2, PTL DEF Spec

\* Finish returns streams only of planes whose segments were all compressed from start to end,
\* by the helpers or by the decoder itself.
THEOREM WholeStreams == Spec => []StreamsWhole
<1>1. CallsInv => StreamsWhole
  BY DEF CallsInv, ResultRight, StreamsWhole, Dropped
<1> QED
  BY <1>1, CallsInvHolds, PTL

-----------------------------------------------------------------------------
(* The encoder implements PlaneStreams *)

droppedPlanes == {p \in Planes : ready[p] = Abandoned}
gone == pc[Decoder] = "freed"

\* A step that PlaneStreams does not see.
LEMMA PromiseStutter ==
    ASSUME position' = position, droppedPlanes' = droppedPlanes, whole' = whole, result' = result, gone' = gone
    PROVE  [Promise!Next]_Promise!vars
BY DEF Promise!vars, droppedPlanes, gone, At

LEMMA ThreadPromise ==
    ASSUME CallsInv, CallsInv', NEW t \in Threads, ThreadStep(t)
    PROVE  [Promise!Next]_Promise!vars
<1>1. Others(t) /\ SamePlanes /\ Does(t)
  BY ThreadDoes DEF CallsInv, IInv
<1>2. /\ position' = position /\ droppedPlanes' = droppedPlanes /\ result' = result /\ ready' = ready
  BY <1>1 DEF SamePlanes, droppedPlanes
<1>3. gone' = gone
  <2>1. CASE t # Decoder
    BY <1>1, <2>1, Constants DEF Others, gone
  <2>2. CASE t = Decoder
    BY <2>2, DecoderThreadCalls DEF CallsInv, IInv, gone, EndPlaces
  <2> QED
    BY <2>1, <2>2
<1>4. CASE ~Completes(t)
  <2>1. whole' = whole
    BY <1>1, <1>4 DEF Does, Quiet, Takes, Keeps, Begins, Stops, GivesBack, SameSegments
  <2> QED
    BY <1>2, <1>3, <2>1, PromiseStutter
<1>5. CASE Completes(t)
  <2>1. PICK s : s = index[t]
    OBVIOUS
  <2>2. /\ pc[t] = "deflate" /\ whole' = whole \cup {s} /\ s \in Segs
        /\ InWork(t) => ~Dropped(PlaneOf(s))
    BY <1>5, <2>1 DEF Completes, CallsInv, IInv, TInv, Indexed, HeldPlaces
  <2>3. s \notin whole
    BY <2>1, <2>2 DEF CallsInv, IInv, ClaimsRight, WholeOnce, Held, HeldPlaces
  <2>4. End(s) <= position[PlaneOf(s)]
    <3>1. Full(s)'
      BY <2>2 DEF CallsInv, IInv, ClaimsRight, WholeOnce
    <3> QED
      BY <1>2, <3>1 DEF Full, End, PlaneOf
  <2>5. pc[Decoder] # "freed"
    <3>1. CASE t = Decoder
      BY <2>2, <3>1
    <3>2. CASE t # Decoder
      BY <2>2, <3>2 DEF CallsInv, IInv, Locked, Threads
    <3> QED
      BY <3>1, <3>2
  <2>6. result # "streams"
    <3> SUFFICES ASSUME result = "streams"
                 PROVE  FALSE
      OBVIOUS
    <3>1. Dropped(PlaneOf(s)) /\ call = "Destroy"
      BY <2>2, <2>3 DEF CallsInv, ResultRight, CallsRight
    <3>2. t = Decoder
      BY <2>2, <3>1 DEF InWork
    <3> QED
      BY <2>2, <3>1, <3>2 DEF CallsInv, CallsRight, EndPlaces
  <2>7. Promise!Compress(s)
    BY <1>2, <1>3, <2>2, <2>3, <2>4, <2>5, <2>6
    DEF Promise!Compress, At, gone, droppedPlanes, End, PlaneOf
  <2>8. s \in Promise!Segs
    BY <2>2 DEF Promise!Segs, Segs, Count
  <2> QED
    BY <2>7, <2>8 DEF Promise!Next
<1> QED
  BY <1>4, <1>5

LEMMA DropPromise ==
    ASSUME CallsInv, NEW p \in Planes, ready' = [ready EXCEPT ![p] = Abandoned],
           position[p] < Sizes[p], result # "streams", pc[Decoder] # "freed", pc'[Decoder] # "freed",
           UNCHANGED <<position, whole, result>>
    PROVE  Promise!Next
<1>1. ready \in [Planes -> Nat \cup {Abandoned}]
  BY DEF CallsInv, IInv, TInv, Typed, TypedShared
<1>2. droppedPlanes' = droppedPlanes \cup {p}
  BY <1>1 DEF droppedPlanes
<1>3. Promise!Drop(p)
  BY <1>2 DEF Promise!Drop, droppedPlanes, At
<1> QED
  BY <1>3 DEF Promise!Next

LEMMA DecoderPromise ==
    ASSUME CallsInv, CallsInv', DecoderChoice \/ DecoderStep
    PROVE  [Promise!Next]_Promise!vars
<1> USE DEF Goto, At, sharedVars
<1>0. /\ TInv /\ TInv' /\ whole' = whole
      /\ position \in [Planes -> Nat] /\ ready \in [Planes -> Nat \cup {Abandoned}]
      /\ \A p \in Planes : position[p] <= Sizes[p] /\ position[p] \in Nat /\ Sizes[p] \in Nat
  <2>1. TInv /\ TInv' /\ whole' = whole
    BY DecoderApart DEF Apart, CallsInv, IInv
  <2> QED
    BY <2>1, Constants DEF TInv, Typed, TypedDecoder, TypedShared, Pending
<1>p. \A place : pc' = [pc EXCEPT ![Decoder] = place] => pc'[Decoder] = place
  BY <1>0, Constants DEF TInv, Typed, TypedThreads
<1>s. ASSUME position' = position, result' = result, pc[Decoder] # "freed", pc'[Decoder] # "freed", ready' = ready
      PROVE  [Promise!Next]_Promise!vars
  BY <1>0, <1>s, PromiseStutter DEF droppedPlanes, gone
<1>f. ASSUME result = "none", result' = "failed", position' = position, ready' = ready,
             pc[Decoder] # "freed", pc'[Decoder] # "freed"
      PROVE  [Promise!Next]_Promise!vars
  <2>1. Promise!Fail
    BY <1>0, <1>f DEF Promise!Fail
  <2> QED
    BY <2>1 DEF Promise!Next
<1>1. ASSUME NEW p \in Planes, NEW n, Write(p, n)
      PROVE  [Promise!Next]_Promise!vars
  BY <1>1, <1>s, <1>p DEF Write, Idle
<1>2. ASSUME NEW p \in Planes, Abandon(p)
      PROVE  [Promise!Next]_Promise!vars
  <2>0. pc'[Decoder] = "wake abandon"
    BY <1>2, <1>p DEF Abandon
  <2>1. /\ ready' = [ready EXCEPT ![p] = Abandoned] /\ position' = position /\ result' = result
        /\ pc[Decoder] = "idle" /\ position[p] # Sizes[p]
    BY <1>2 DEF Abandon, Idle, decoderVars, Written
  <2>2. position[p] < Sizes[p]
    BY <1>0, <2>1
  <2>3. result # "streams"
    BY <2>1 DEF CallsInv, CallsRight, EndPlaces
  <2> QED
    BY <1>0, <2>0, <2>1, <2>2, <2>3, DropPromise
<1>3. CASE Finish
  BY <1>3, <1>s, <1>p DEF Finish, Idle
<1>4. CASE GiveUp
  <2>1. result = "none"
    BY <1>4 DEF GiveUp, Idle, CallsInv, CallsRight, EndPlaces
  <2> QED
    BY <1>4, <1>f, <1>p, <2>1 DEF GiveUp, Idle
<1>5. ASSUME NEW b, AcquireSpare(b)
      PROVE  [Promise!Next]_Promise!vars
  BY <1>5, <1>s, <1>p DEF AcquireSpare, Acquiring, GiveBuffer, decoderVars
<1>6. CASE AcquireNew \/ AcquireEncode \/ AwaitBuffer
  <2>1. /\ position' = position /\ result' = result /\ ready' = ready
        /\ pc[Decoder] \in {"acquire", "await buffer"} /\ pc'[Decoder] \in {"fill", "claim", "acquire", "await buffer"}
    BY <1>6, <1>p DEF AcquireNew, AcquireEncode, AwaitBuffer, Acquiring, GiveBuffer, decoderVars
  <2> QED
    BY <2>1, <1>s
<1>7. CASE AcquireFails
  <2>1. result = "none"
    BY <1>7 DEF AcquireFails, Acquiring, CallsInv, CallsRight, EndPlaces
  <2> QED
    BY <1>7, <1>f, <1>p, <2>1 DEF AcquireFails, Acquiring
<1>8. CASE Fill
  <2>1. PICK p, n : p = target.plane /\ n = target.units
    OBVIOUS
  <2>2. /\ p \in Planes /\ n \in Nat /\ position' = [position EXCEPT ![p] = @ + n]
        /\ ready' = ready /\ result' = result /\ pc[Decoder] = "fill" /\ pc'[Decoder] = "publish"
    BY <1>0, <1>8, <1>p, <2>1 DEF Fill, TInv, Typed, TypedDecoder
  <2>3. call = "Write" /\ position[p] + n <= Sizes[p] /\ ~Dropped(p)
    BY <2>1, <2>2 DEF CallsInv, IInv, TInv, Pending, WritePending, PlanesRight
  <2>4. result = "none"
    BY <2>3 DEF CallsInv, CallsRight
  <2>5. CASE n = 0
    <3>1. position' = position
      BY <1>0, <2>2, <2>5
    <3> QED
      BY <1>s, <2>2, <3>1
  <2>6. CASE n # 0
    <3>1. Promise!Write(p, n)
      BY <1>0, <2>2, <2>3, <2>4 DEF Promise!Write, Dropped
    <3>2. n \in 1 .. Sizes[p]
      BY <1>0, <2>2, <2>3, <2>6
    <3> QED
      BY <2>2, <3>1, <3>2 DEF Promise!Next
  <2> QED
    BY <2>5, <2>6
<1>9. CASE Publish
  <2>1. /\ ready' = [ready EXCEPT ![target.plane] = position[target.plane]]
        /\ position' = position /\ result' = result
        /\ pc[Decoder] = "publish" /\ pc'[Decoder] = "advance" /\ target.plane \in Planes
    BY <1>0, <1>9, <1>p DEF Publish, decoderVars, TInv, Typed, TypedDecoder
  <2>2. ready[target.plane] # Abandoned
    BY <2>1 DEF CallsInv, IInv, PlanesRight, Dropped
  <2>3. position[target.plane] # Abandoned
    BY <1>0, <2>1 DEF Abandoned
  <2>4. droppedPlanes' = droppedPlanes
    BY <1>0, <2>1, <2>2, <2>3 DEF droppedPlanes
  <2> QED
    BY <1>0, <2>1, <2>4, PromiseStutter DEF gone
<1>10. CASE Advance \/ WriteDone
  <2>1. /\ position' = position /\ result' = result /\ ready' = ready
        /\ pc[Decoder] \in {"advance", "written"} /\ pc'[Decoder] \in {"wake advance", "written", "idle", "claim"}
    BY <1>10, <1>p DEF Advance, WriteDone
  <2> QED
    BY <2>1, <1>s
<1>11. CASE Destroy
  <2>0. position' = position /\ result' = result /\ pc[Decoder] = "destroy"
    BY <1>11 DEF Destroy, decoderVars
  <2>1. CASE ready' = ready
    <3>1. pc'[Decoder] # "freed"
      BY <1>11, <1>p DEF Destroy
    <3> QED
      BY <2>0, <2>1, <3>1, <1>s
  <2>2. CASE ready' # ready
    <3>1. PICK p \in Planes : /\ ready[p] \notin {Sizes[p], Abandoned}
                              /\ ready' = [ready EXCEPT ![p] = Abandoned] /\ pc' = pc
      BY <1>11, <2>2 DEF Destroy
    <3>2. ready[p] = position[p]
      BY <2>0, <3>1 DEF CallsInv, IInv, PlanesRight, Dropped
    <3>3. position[p] < Sizes[p]
      BY <1>0, <3>1, <3>2
    <3>4. result # "streams"
      BY <1>0, <3>1, <3>3 DEF CallsInv, ResultRight, Dropped, Written
    <3> QED
      BY <1>0, <2>0, <3>1, <3>3, <3>4, DropPromise
  <2> QED
    BY <2>1, <2>2
<1>12. CASE Cancel
  BY <1>12, <1>s, <1>p DEF Cancel, decoderVars
<1>13. CASE LeaveHelpers
  <2>1. /\ position' = position /\ result' = result /\ ready' = ready /\ pc[Decoder] = "leave"
        /\ pc'[Decoder] \in {"leave", "streams", "freed"}
        /\ pc'[Decoder] = "freed" => call # "Finish"
    BY <1>13, <1>p DEF LeaveHelpers, decoderVars
  <2>2. CASE pc'[Decoder] # "freed"
    BY <2>1, <2>2, <1>s
  <2>3. CASE pc'[Decoder] = "freed"
    <3>1. result # "none"
      BY <2>1, <2>3 DEF CallsInv, CallsRight, EndPlaces
    <3>2. Promise!Free
      BY <1>0, <2>1, <2>3, <3>1 DEF Promise!Free
    <3> QED
      BY <3>2 DEF Promise!Next
  <2> QED
    BY <2>2, <2>3
<1>14. CASE Streams
  <2>1. /\ position' = position /\ ready' = ready /\ result' \in {"failed", "streams"}
        /\ pc[Decoder] = "streams" /\ pc'[Decoder] = "destroy"
    BY <1>14, <1>p DEF Streams
  <2>2. result = "none"
    BY <2>1 DEF CallsInv, CallsRight
  <2>3. CASE result' = "failed"
    BY <1>f, <2>1, <2>2, <2>3
  <2>4. CASE result' = "streams"
    <3>1. /\ \A p \in Planes : ready[p] = Abandoned \/ position[p] = Sizes[p]
          /\ \A s \in Segs : ready[PlaneOf(s)] = Abandoned \/ s \in whole
      BY <1>0, <2>1, <2>4 DEF CallsInv, ResultRight, Dropped, Written, PlaneOf
    <3>2. \A s \in Segs : PlaneOf(s) \in Planes
      BY SegmentTypes
    <3>3. Promise!Finish
      BY <1>0, <2>1, <2>2, <2>4, <3>1, <3>2 DEF Promise!Finish, Promise!Segs, Segs, Count, PlaneOf
    <3> QED
      BY <3>3 DEF Promise!Next
  <2> QED
    BY <2>1, <2>3, <2>4
<1> QED
  BY <1>1, <1>2, <1>3, <1>4, <1>5, <1>6, <1>7, <1>8, <1>9, <1>10, <1>11, <1>12, <1>13, <1>14
  DEF DecoderChoice, DecoderStep

\* The encoder with its helpers, buffers and lock implements PlaneStreams, what image_encoder.h
\* promises of Append, Abandon, Finish and the destructor.
THEOREM PromiseKept == Spec => KeepsPromise
<1>1. Init => Promise!Init
  BY Constants DEF Init, Promise!Init, At, Abandoned
<1>2. CallsInv /\ CallsInv' /\ [Next]_vars => [Promise!Next]_Promise!vars
  <2> SUFFICES ASSUME CallsInv, CallsInv', [Next]_vars
               PROVE  [Promise!Next]_Promise!vars
    OBVIOUS
  <2>1. ASSUME NEW h \in Helpers, Take(h) \/ Leave(h)
        PROVE  [Promise!Next]_Promise!vars
    <3>1. Apart(h) /\ SamePlanes
      BY <2>1, PoolApart DEF CallsInv, IInv
    <3>2. /\ position' = position /\ droppedPlanes' = droppedPlanes /\ result' = result /\ whole' = whole
          /\ gone' = gone
      BY <3>1, Constants DEF Apart, Others, SamePlanes, droppedPlanes, gone
    <3> QED
      BY <3>2, PromiseStutter
  <2>2. CASE UNCHANGED vars
    BY <2>2, PromiseStutter DEF vars, droppedPlanes, gone
  <2> QED
    BY <2>1, <2>2, ThreadPromise, DecoderPromise DEF Next, Rest
<1> QED
  BY <1>1, <1>2, CallsInvHolds, PTL DEF Spec, KeepsPromise, Promise!Spec

-----------------------------------------------------------------------------
(* The buffers in use, where every output could be allocated *)

\* A decoder that acquires a buffer, or looks for a segment to get one from.
Seeking == WritePending /\ pc[Decoder] # "fill"
Searching == Seeking /\ pc[Decoder] # "acquire"

SeeksForNone == Seeking => input[Writing(target.plane)] = NoBuffer /\ target.units > 0
SearchesAtLimit == Searching => made >= bufferLimit
Searched ==
    /\ Searching /\ pc[Decoder] = "claim" =>
          \A s \in Segs : s < index[Decoder] => ~Claimable(s, FALSE)
    /\ pc[Decoder] = "await buffer" => \A s \in Segs : ~Claimable(s, FALSE)
AllUsed == call # "Destroy" => \A b \in 1 .. made : b \in spare \/ \E s \in Segs : input[s] = b
UsedHeld == \A s \in Segs : claimed[s] /\ input[s] # NoBuffer => HoldsOne(s)
UsedReached ==
    /\ \A s \in Segs : input[s] # NoBuffer =>
          Reached(s) \/ (pc[Decoder] = "fill" /\ s = Writing(target.plane))
    /\ pc[Decoder] = "fill" => target.units > 0

UseRight ==
    /\ SeeksForNone /\ SearchesAtLimit /\ Searched /\ AllUsed /\ UsedHeld /\ UsedReached

\* How a decoder at a write goes on in Claim and Encode.
LEMMA DecoderSearches ==
    ASSUME TInv, TInv', ThreadStep(Decoder), WritePending'
    PROVE  /\ call = "Write" /\ Searching /\ pc'[Decoder] # "fill"
           /\ \/ /\ pc[Decoder] = "claim" /\ pc'[Decoder] = "claim" /\ index[Decoder] \in Segs
                 /\ index'[Decoder] = index[Decoder] + 1 /\ ~Claimable(index[Decoder], FALSE)
              \/ pc[Decoder] = "claim" /\ pc'[Decoder] = "await buffer" /\ index[Decoder] > Count
              \/ pc'[Decoder] \in HeldPlaces \cup {"acquire"}
<1> USE DEF Goto, At
<1>0. call' = call /\ target' = target
  BY ThreadDoes, Constants DEF SamePlanes
<1>1. call = "Write" /\ InWork(Decoder) = FALSE
  BY <1>0 DEF TInv, Pending, InWork
<1>p. /\ \A place : pc' = [pc EXCEPT ![Decoder] = place] => pc'[Decoder] = place
      /\ pc'[Decoder] \in {"acquire", "await buffer", "fill", "claim"} \cup HeldPlaces
  BY Constants DEF TInv, Typed, TypedThreads, WritePending
<1>2. CASE WorkLoop(Decoder)
  BY <1>1, <1>2 DEF WorkLoop, TInv, Pending
<1>3. CASE ClaimTake(Decoder)
  <2>1. pc[Decoder] = "claim" /\ pc'[Decoder] = "count"
    BY <1>3, <1>p DEF ClaimTake
  <2> QED
    BY <1>1, <2>1 DEF Searching, Seeking, WritePending, HeldPlaces
<1>4. CASE ClaimSkip(Decoder)
  <2>1. index'[Decoder] = index[Decoder] + 1 /\ index[Decoder] \in Segs /\ ~Claimable(index[Decoder], FALSE)
    BY <1>1, <1>4, Constants DEF ClaimSkip, TInv, Typed, TypedIndex
  <2> QED
    BY <1>1, <1>4, <2>1 DEF ClaimSkip, Searching, Seeking, WritePending
<1>5. CASE ClaimNone(Decoder)
  BY <1>1, <1>5, <1>p DEF ClaimNone, Searching, Seeking, WritePending
<1>6. CASE CountClaim(Decoder) \/ Encode(Decoder)
  BY <1>1, <1>6, <1>p DEF CountClaim, Encode, Searching, Seeking, WritePending, HeldPlaces
<1>7. CASE DeflateBlock(Decoder) \/ DeflateStop(Decoder)
  BY <1>1, <1>7, <1>p DEF DeflateBlock, DeflateStop, Searching, Seeking, WritePending, HeldPlaces
<1>8. CASE Release(Decoder)
  BY <1>1, <1>8, <1>p DEF Release, Released, Searching, Seeking, WritePending, HeldPlaces
<1>9. CASE Lock(Decoder) \/ CheckYes(Decoder) \/ CheckNext(Decoder) \/ CheckNo(Decoder) \/ Woken(Decoder)
  BY <1>1, <1>9 DEF Lock, CheckYes, CheckNext, CheckNo, Woken, TInv, Pending
<1>10. CASE Wake(Decoder)
  BY <1>1, <1>10, <1>p, WakeNextValues DEF Wake, Searching, Seeking, WritePending, HeldPlaces
<1> QED
  BY <1>2, <1>3, <1>4, <1>5, <1>6, <1>7, <1>8, <1>9, <1>10 DEF ThreadStep

\* A thread's step leaves the buffers as they are, or gives its segment's back.
LEMMA ThreadUses ==
    ASSUME TInv, TInv', ClaimsRight, OneThreadEach, UseRight, NEW t \in Threads, ThreadStep(t)
    PROVE  UseRight'
<1>d. Others(t) /\ SamePlanes /\ Does(t)
  BY ThreadDoes
<1>0. /\ ready' = ready /\ position' = position /\ call' = call /\ target' = target /\ made' = made
      /\ target.plane \in Planes /\ \A p \in Planes : Writing(p)' = Writing(p)
      /\ claimed \in [Segs -> BOOLEAN] /\ input \in [Segs -> Buffers \cup {NoBuffer}]
      /\ \A s \in Segs : Reached(s)' <=> Reached(s)
      /\ bufferLimit' = bufferLimit
  BY <1>d, SameSegmentFacts DEF SamePlanes, Writing, TInv, Typed, TypedShared, TypedBuffers, TypedDecoder, bufferLimit
<1>i. /\ \A s \in Segs : input'[s] \in {input[s], NoBuffer}
      /\ \A s \in Segs : claimed[s] => claimed'[s]
  <2>1. CASE GivesBack(t)
    BY <1>0, <2>1 DEF GivesBack
  <2>2. CASE ~GivesBack(t)
    BY <1>0, <1>d, <2>2 DEF Does, Quiet, Takes, Keeps, Begins, Stops, Completes, SameSegments
  <2> QED
    BY <2>1, <2>2
<1>c. \A s \in Segs : ~Claimable(s, FALSE) => ~Claimable(s, FALSE)'
  BY <1>0, <1>i DEF Claimable, Published, ClaimAt
<1>o. t # Decoder => pc'[Decoder] = pc[Decoder] /\ index'[Decoder] = index[Decoder]
  BY <1>d, Constants DEF Others
<1>f. pc[t] # "fill" /\ pc'[t] # "fill"
  <2>1. pc[t] # "fill"
    BY WakeNextValues DEF ThreadStep, WorkLoop, ClaimTake, ClaimSkip, ClaimNone, CountClaim, Encode, DeflateBlock, DeflateStop,
       Release, Lock, CheckYes, CheckNext, CheckNo, Woken, Wake, At
  <2> QED
    BY <2>1, ThreadFills
<1>w. WritePending' => WritePending /\ (pc'[Decoder] = "fill" <=> pc[Decoder] = "fill")
  <2>1. CASE t = Decoder
    BY <1>f, <2>1, DecoderSearches DEF Searching, Seeking
  <2>2. CASE t # Decoder
    BY <1>0, <1>o, <2>2 DEF WritePending
  <2> QED
    BY <2>1, <2>2
<1>s. WritePending => Writing(target.plane) \in Segs
  BY <1>0, WritingSegment DEF TInv, Pending
<1>1. SeeksForNone'
  <2> SUFFICES ASSUME Seeking'
               PROVE  input'[Writing(target.plane)] = NoBuffer /\ target.units > 0
    BY <1>0 DEF SeeksForNone
  <2>1. Seeking
    BY <1>w DEF Seeking
  <2>2. input[Writing(target.plane)] = NoBuffer /\ target.units > 0
    BY <2>1 DEF UseRight, SeeksForNone
  <2> QED
    BY <1>i, <1>s, <2>1, <2>2 DEF Seeking
<1>2. Searching' => Searching
  <2>1. CASE t = Decoder
    BY <2>1, DecoderSearches DEF Searching, Seeking
  <2>2. CASE t # Decoder
    BY <1>o, <1>w, <2>2 DEF Searching, Seeking
  <2> QED
    BY <2>1, <2>2
<1>3. SearchesAtLimit'
  BY <1>0, <1>2 DEF UseRight, SearchesAtLimit
<1>4. Searched'
  <2>1. CASE t = Decoder
    <3>1. ASSUME Searching', pc'[Decoder] = "claim", NEW s \in Segs, s < index'[Decoder]
          PROVE  ~Claimable(s, FALSE)
      <4>1. /\ pc[Decoder] = "claim" /\ index[Decoder] \in Segs /\ index'[Decoder] = index[Decoder] + 1
            /\ ~Claimable(index[Decoder], FALSE) /\ Searching
        BY <2>1, <3>1, DecoderSearches DEF Searching, Seeking, HeldPlaces
      <4>2. s = index[Decoder] \/ s < index[Decoder]
        BY <3>1, <4>1, Constants DEF Segs
      <4> QED
        BY <4>1, <4>2 DEF UseRight, Searched
    <3>2. ASSUME pc'[Decoder] = "await buffer", NEW s \in Segs
          PROVE  ~Claimable(s, FALSE)
      <4>1. pc[Decoder] = "claim" /\ index[Decoder] > Count /\ Searching
        BY <2>1, <3>2, DecoderSearches DEF WritePending, HeldPlaces
      <4>2. s < index[Decoder]
        BY <4>1, Constants DEF Segs, TInv, Typed, TypedIndex
      <4> QED
        BY <4>1, <4>2 DEF UseRight, Searched
    <3> QED
      BY <1>c, <3>1, <3>2 DEF Searched
  <2>2. CASE t # Decoder
    BY <1>2, <1>c, <1>o, <2>2 DEF UseRight, Searched
  <2> QED
    BY <2>1, <2>2
<1>5. AllUsed'
  <2> SUFFICES ASSUME call # "Destroy", NEW b \in 1 .. made
               PROVE  b \in spare' \/ \E s \in Segs : input'[s] = b
    BY <1>0 DEF AllUsed
  <2>1. b \in spare \/ \E s \in Segs : input[s] = b
    BY DEF UseRight, AllUsed
  <2>b. b # NoBuffer
    BY DEF NoBuffer
  <2>2. CASE GivesBack(t)
    <3>1. index[t] \in Segs /\ spare' = spare \cup ({input[index[t]]} \ {NoBuffer})
      BY <2>2 DEF GivesBack, TInv, Indexed, HeldPlaces
    <3>2. \A s \in Segs \ {index[t]} : input'[s] = input[s]
      BY <1>0, <2>2 DEF GivesBack
    <3> QED
      BY <2>1, <2>b, <3>1, <3>2
  <2>3. CASE ~GivesBack(t)
    BY <1>d, <2>1, <2>3 DEF Does, Quiet, Takes, Keeps, Begins, Stops, Completes, SameSegments
  <2> QED
    BY <2>2, <2>3
<1>6. UsedHeld'
  <2> SUFFICES ASSUME NEW s \in Segs, claimed'[s], input'[s] # NoBuffer
               PROVE  HoldsOne(s)'
    BY DEF UsedHeld
  <2>1. input[s] # NoBuffer
    BY <1>i
  <2>2. CASE ~claimed[s]
    <3>1. Takes(t) /\ s = index[t]
      BY <1>0, <1>d, <2>2 DEF Does, Quiet, Takes, Keeps, Begins, Stops, Completes, GivesBack, SameSegments
    <3> QED
      BY <3>1 DEF Takes, HoldsOne, Held, HeldPlaces
  <2>3. CASE claimed[s]
    <3>1. PICK u \in Threads : pc[u] \in HeldPlaces /\ index[u] = s
      BY <2>1, <2>3 DEF UseRight, UsedHeld, HoldsOne, Held
    <3>2. CASE u # t
      BY <1>d, <3>1, <3>2 DEF Others, HoldsOne, Held
    <3>3. CASE u = t
      <4>1. ~GivesBack(t)
        BY <1>0, <3>1, <3>3 DEF GivesBack
      <4>2. pc'[t] \in HeldPlaces /\ index'[t] = index[t]
        BY <1>d, <3>1, <3>3, <4>1 DEF Does, Quiet, Takes, Keeps, Begins, Stops, Completes, HeldPlaces
      <4> QED
        BY <3>1, <3>3, <4>2 DEF HoldsOne, Held
    <3> QED
      BY <3>2, <3>3
  <2> QED
    BY <2>2, <2>3
<1>7. UsedReached'
  <2>1. pc'[Decoder] = "fill" <=> pc[Decoder] = "fill"
    BY <1>f, <1>o
  <2>2. \A s \in Segs : input'[s] # NoBuffer => input[s] # NoBuffer
    BY <1>i
  <2> QED
    BY <1>0, <2>1, <2>2 DEF UseRight, UsedReached
<1> QED
  BY <1>1, <1>3, <1>4, <1>5, <1>6, <1>7 DEF UseRight

\* The pool's steps change nothing that the buffers in use depend on.
LEMMA PoolUses ==
    ASSUME TInv, UseRight, NEW h \in Helpers, Take(h) \/ Leave(h)
    PROVE  UseRight'
<1>1. Apart(h) /\ SamePlanes /\ input' = input /\ spare' = spare
  BY PoolApart
<1>2. /\ ready' = ready /\ position' = position /\ call' = call /\ target' = target /\ made' = made
      /\ claimed' = claimed /\ pc'[Decoder] = pc[Decoder] /\ index'[Decoder] = index[Decoder]
      /\ target.plane \in Planes /\ \A p \in Planes : Writing(p)' = Writing(p)
      /\ \A s \in Segs : Reached(s)' <=> Reached(s)
      /\ bufferLimit' = bufferLimit
  BY <1>1, SameSegmentFacts, Constants DEF Apart, Others, SamePlanes, Writing, TInv, Typed, TypedDecoder, bufferLimit
<1>3. /\ Seeking' <=> Seeking
      /\ Searching' <=> Searching
      /\ \A s \in Segs : Claimable(s, FALSE)' <=> Claimable(s, FALSE)
  BY <1>2 DEF Seeking, Searching, WritePending, Claimable, Published, ClaimAt
<1>4. \A s \in Segs : HoldsOne(s) => HoldsOne(s)'
  BY <1>1 DEF Apart, Others, HoldsOne, Held
<1>5. SeeksForNone' /\ SearchesAtLimit' /\ Searched' /\ AllUsed'
  BY <1>1, <1>2, <1>3 DEF UseRight, SeeksForNone, SearchesAtLimit, Searched, AllUsed
<1>6. UsedHeld' /\ UsedReached'
  BY <1>1, <1>2, <1>4 DEF UseRight, UsedHeld, UsedReached
<1> QED
  BY <1>5, <1>6 DEF UseRight

\* The segment a write goes to is not taken before it has a buffer.
LEMMA WritingUnclaimed ==
    ASSUME IInv, UseRight, OutFails = {}, Seeking
    PROVE  /\ Writing(target.plane) \in Segs /\ ~claimed[Writing(target.plane)]
           /\ input[Writing(target.plane)] = NoBuffer
<1>1. PICK w : w = Writing(target.plane)
  OBVIOUS
<1>2. /\ target.plane \in Planes /\ position[target.plane] < Sizes[target.plane] /\ ~Dropped(target.plane)
      /\ Typed
  BY DEF IInv, TInv, Pending, Seeking, PlanesRight, Typed, TypedDecoder
<1>3. w \in Segs /\ PlaneOf(w) = target.plane /\ position[PlaneOf(w)] < End(w)
  BY <1>1, <1>2, WritingSegment
<1>4. ~Full(w)
  <2>1. End(w) \in Nat /\ position[PlaneOf(w)] \in Nat
    BY <1>2, <1>3, SegmentTypes DEF Typed, TypedDecoder
  <2> QED
    BY <1>3, <2>1 DEF Full
<1>5. ~Unwanted(PlaneOf(w))
  BY <1>2, <1>3 DEF IInv, OutRight, Unwanted
<1>6. input[w] = NoBuffer
  BY <1>1 DEF UseRight, SeeksForNone
<1>7. ~Reached(w)
  BY <1>3, <1>4, <1>5, <1>6 DEF IInv, BuffersRight, PartHasBuffer
<1>8. ~claimed[w]
  BY <1>2, <1>3, <1>7 DEF IInv, ClaimsRight, ClaimsReached
<1> QED
  BY <1>1, <1>3, <1>6, <1>8

\* The decoder gives its segment a buffer, spare or new.
LEMMA GivenUses ==
    ASSUME IInv, UseRight, OutFails = {}, Apart(Decoder), pc'[Decoder] = "fill",
           NEW b \in Buffers, pc[Decoder] = "acquire", GiveBuffer(b),
           spare' = spare \ {b}, made' \in {made, b}, made' = made \/ made' = made + 1,
           UNCHANGED <<ready, position, target, call>>
    PROVE  UseRight'
<1>1. PICK w : w = Writing(target.plane)
  OBVIOUS
<1>2. Seeking
  BY DEF Seeking, WritePending
<1>3. w \in Segs /\ ~claimed[w] /\ input[w] = NoBuffer /\ target.units > 0
  BY <1>1, <1>2, WritingUnclaimed DEF UseRight, SeeksForNone
<1>4. /\ input'[w] = b /\ \A s \in Segs \ {w} : input'[s] = input[s]
      /\ claimed' = claimed /\ made \in Nat
      /\ target.plane \in Planes /\ Writing(target.plane)' = w
      /\ \A s \in Segs : Reached(s)' <=> Reached(s)
  BY <1>1, <1>3, Constants DEF Apart, GiveBuffer, Reached, Writing, PlaneOf, Start, End, IInv, TInv, Typed, TypedBuffers, TypedDecoder
<1>5. SeeksForNone' /\ SearchesAtLimit' /\ Searched'
  BY DEF SeeksForNone, SearchesAtLimit, Searched, Seeking, Searching
<1>6. AllUsed'
  <2> SUFFICES ASSUME call # "Destroy", NEW c \in 1 .. made'
               PROVE  c \in spare' \/ \E s \in Segs : input'[s] = c
    BY DEF AllUsed
  <2>1. CASE c = b
    BY <1>3, <1>4, <2>1
  <2>2. CASE c # b
    <3>1. c \in 1 .. made
      BY <1>4, <2>2
    <3>2. c \in spare \/ \E s \in Segs : input[s] = c
      BY <3>1 DEF UseRight, AllUsed
    <3>3. c # NoBuffer
      BY DEF NoBuffer
    <3> QED
      BY <1>3, <1>4, <2>2, <3>2, <3>3
  <2> QED
    BY <2>1, <2>2
<1>7. UsedHeld'
  <2>1. \A s \in Segs : HoldsOne(s) => HoldsOne(s)'
    BY DEF Apart, Others, HoldsOne, Held
  <2> QED
    BY <1>3, <1>4, <2>1 DEF UseRight, UsedHeld
<1>8. UsedReached'
  <2>1. \A s \in Segs : input'[s] # NoBuffer => Reached(s) \/ s = w
    BY <1>4 DEF UseRight, UsedReached
  <2> QED
    BY <1>3, <1>4, <2>1 DEF UsedReached
<1> QED
  BY <1>5, <1>6, <1>7, <1>8 DEF UseRight

LEMMA SegmentNumbers == \A s \in Segs : s \in Nat /\ s >= 1
BY Constants DEF Segs

\* A step of the decoder that gives no buffer.
LEMMA PlainUses ==
    ASSUME IInv, UseRight, Onward, Apart(Decoder), input' = input, spare' = spare,
           made' = made \/ call' = "Destroy", call = "Destroy" => call' = "Destroy",
           pc[Decoder] # "fill", pc'[Decoder] = "fill" => target'.units > 0,
           Seeking' => /\ input[Writing(target'.plane)] = NoBuffer /\ target'.units > 0
                       /\ position' = position /\ target'.plane \in Planes,
           Searching' => made >= bufferLimit /\ made' = made /\ ready' = ready,
           Searching' /\ pc'[Decoder] = "claim" => index'[Decoder] = 1,
           pc'[Decoder] = "await buffer" => pc[Decoder] = "await buffer" /\ ready' = ready
    PROVE  UseRight'
<1>1. claimed' = claimed /\ bufferLimit' = bufferLimit
  BY DEF Apart, bufferLimit
<1>2. SeeksForNone'
  <2>1. position' = position => \A p \in Planes : Writing(p)' = Writing(p)
    BY DEF Writing
  <2> QED
    BY <2>1 DEF SeeksForNone
<1>3. SearchesAtLimit'
  BY <1>1 DEF SearchesAtLimit
<1>4. Searched'
  <2>1. \A s \in Segs : s >= 1
    BY SegmentNumbers
  <2>2. ASSUME Searching', pc'[Decoder] = "claim", NEW s \in Segs
        PROVE  ~(s < index'[Decoder])
    BY <2>1, <2>2, SegmentNumbers
  <2>3. ASSUME pc'[Decoder] = "await buffer", NEW s \in Segs
        PROVE  ~Claimable(s, FALSE)'
    <3>1. ~Claimable(s, FALSE) /\ ready' = ready
      BY <2>3 DEF UseRight, Searched
    <3> QED
      BY <1>1, <3>1 DEF Claimable, Published, ClaimAt
  <2> QED
    BY <2>2, <2>3 DEF Searched
<1>5. AllUsed'
  BY DEF UseRight, AllUsed
<1>6. UsedHeld'
  <2>1. \A s \in Segs : HoldsOne(s) => HoldsOne(s)'
    BY DEF Apart, Others, HoldsOne, Held
  <2> QED
    BY <1>1, <2>1 DEF UseRight, UsedHeld
<1>7. UsedReached'
  BY DEF UseRight, UsedReached, Onward
<1> QED
  BY <1>2, <1>3, <1>4, <1>5, <1>6, <1>7 DEF UseRight

\* The write into the segment makes it one that was reached.
LEMMA FillUses ==
    ASSUME IInv, UseRight, Onward, Apart(Decoder), Fill
    PROVE  UseRight'
<1>0. /\ pc[Decoder] = "fill" /\ pc'[Decoder] = "publish"
      /\ input' = input /\ spare' = spare /\ made' = made /\ call' = call /\ claimed' = claimed
      /\ position' = [position EXCEPT ![target.plane] = @ + target.units]
      /\ target.units \in Nat /\ target.units > 0 /\ target.plane \in Planes /\ position \in [Planes -> Nat]
  BY Constants DEF Fill, At, Goto, buffersVars, sharedVars, IInv, TInv, Typed, TypedThreads, TypedDecoder, UseRight, UsedReached
<1>1. SeeksForNone' /\ SearchesAtLimit' /\ Searched'
  BY <1>0 DEF SeeksForNone, SearchesAtLimit, Searched, Seeking, Searching, WritePending, HeldPlaces
<1>2. AllUsed'
  BY <1>0 DEF UseRight, AllUsed
<1>3. UsedHeld'
  <2>1. \A s \in Segs : HoldsOne(s) => HoldsOne(s)'
    BY DEF Apart, Others, HoldsOne, Held
  <2> QED
    BY <1>0, <2>1 DEF UseRight, UsedHeld
<1>4. UsedReached'
  <2>1. ASSUME NEW s \in Segs, input[s] # NoBuffer
        PROVE  Reached(s)'
    <3>1. CASE Reached(s)
      BY <3>1 DEF Onward
    <3>2. CASE s = Writing(target.plane)
      <4>1. PlaneOf(s) = target.plane /\ Start(s) <= position[target.plane]
        BY <1>0, <3>2, WritingSegment DEF IInv, TInv, Pending, WritePending
      <4>2. position'[target.plane] = position[target.plane] + target.units /\ Start(s) \in Nat
        BY <1>0, SegmentTypes
      <4>3. Start(s) < position'[target.plane]
        BY <1>0, <4>1, <4>2
      <4> QED
        BY <4>1, <4>3 DEF Reached, PlaneOf, Start
    <3> QED
      BY <2>1, <3>1, <3>2 DEF UseRight, UsedReached
  <2> QED
    BY <1>0, <2>1 DEF UsedReached
<1> QED
  BY <1>1, <1>2, <1>3, <1>4 DEF UseRight

LEMMA DecoderUses ==
    ASSUME IInv, TInv', CallsRight, UseRight, OutFails = {}, DecoderChoice \/ DecoderStep, [Next]_vars
    PROVE  UseRight'
<1> USE DEF Goto, At, EndPlaces
<1>0. /\ Onward /\ Apart(Decoder) /\ TInv /\ Decoder \in Threads
      /\ made \in Nat /\ target.plane \in Planes
  BY StepOnward, DecoderApart, Constants DEF IInv, TInv, Typed, TypedBuffers, TypedDecoder
<1>p. \A place : pc' = [pc EXCEPT ![Decoder] = place] => pc'[Decoder] = place
  BY Constants DEF TInv, Typed, TypedThreads, IInv
<1>1. ASSUME NEW p \in Planes, NEW n \in 1 .. Sizes[p], Write(p, n)
      PROVE  UseRight'
  <2>1. /\ input' = input /\ spare' = spare /\ made' = made /\ position' = position /\ call' = "Write"
        /\ pc[Decoder] = "idle" /\ target'.plane = p /\ target'.units > 0
        /\ \/ pc'[Decoder] = "acquire" /\ input[Writing(p)] = NoBuffer
           \/ pc'[Decoder] = "fill"
    <3>1. n > 0
      BY Constants
    <3> QED
      BY <1>1, <1>p, <3>1 DEF Write, Idle, buffersVars
  <2>2. call # "Destroy"
    BY <2>1 DEF CallsRight
  <2>3. ~Searching' /\ (Seeking' => pc'[Decoder] = "acquire")
    BY <2>1 DEF Searching, Seeking, HeldPlaces
  <2> QED
    BY <1>0, <2>1, <2>2, <2>3, PlainUses
<1>2. ASSUME NEW b \in Buffers, AcquireSpare(b)
      PROVE  UseRight'
  <2>1. /\ pc[Decoder] = "acquire" /\ pc'[Decoder] = "fill" /\ GiveBuffer(b) /\ spare' = spare \ {b} /\ made' = made
        /\ UNCHANGED <<ready, position, target, call>>
    BY <1>2, <1>p DEF AcquireSpare, Acquiring, GiveBuffer, decoderVars
  <2> QED
    BY <1>0, <2>1, GivenUses
<1>3. ASSUME AcquireNew
      PROVE  UseRight'
  <2>1. PICK b : b = made + 1
    OBVIOUS
  <2>2. /\ pc[Decoder] = "acquire" /\ pc'[Decoder] = "fill" /\ GiveBuffer(made + 1) /\ spare = {} /\ spare' = spare
        /\ made' = made + 1 /\ made < bufferLimit /\ UNCHANGED <<ready, position, target, call>>
    BY <1>3, <1>p DEF AcquireNew, Acquiring, GiveBuffer, decoderVars
  <2>3. b \in Buffers
    BY <1>0, <2>1, <2>2, Constants DEF Buffers
  <2>4. GiveBuffer(b)
    BY <2>1, <2>2
  <2>5. spare' = spare \ {b} /\ made' = b
    BY <2>1, <2>2
  <2> QED
    BY <1>0, <2>2, <2>3, <2>4, <2>5, GivenUses
<1>4. CASE AcquireEncode
  <2>1. /\ input' = input /\ spare' = spare /\ made' = made /\ position' = position /\ call' = call
        /\ pc[Decoder] = "acquire" /\ target' = target /\ made >= bufferLimit /\ ready' = ready
        /\ pc'[Decoder] = "claim" /\ index'[Decoder] = 1
    BY <1>4, <1>p, <1>0 DEF AcquireEncode, Acquiring, buffersVars, decoderVars, TInv, Typed, TypedIndex
  <2>2. input[Writing(target.plane)] = NoBuffer /\ target.units > 0
    BY <2>1 DEF UseRight, SeeksForNone, Seeking, WritePending
  <2> QED
    BY <1>0, <2>1, <2>2, PlainUses
<1>5. CASE AwaitBuffer
  <2>1. /\ input' = input /\ spare' = spare /\ made' = made /\ position' = position /\ call' = call
        /\ pc[Decoder] = "await buffer" /\ target' = target /\ ready' = ready
        /\ pc'[Decoder] \in {"acquire", "await buffer"}
    BY <1>5, <1>p DEF AwaitBuffer, buffersVars, decoderVars
  <2>2. Seeking /\ Searching
    BY <2>1 DEF Seeking, Searching, WritePending
  <2>3. input[Writing(target.plane)] = NoBuffer /\ target.units > 0 /\ made >= bufferLimit
    BY <2>2 DEF UseRight, SeeksForNone, SearchesAtLimit
  <2> QED
    BY <1>0, <2>1, <2>3, PlainUses
<1>6. CASE Fill
  BY <1>0, <1>6, FillUses
<1>7. CASE AcquireFails
  <2>1. /\ input' = input /\ spare' = spare /\ call' = "Destroy" /\ pc[Decoder] = "acquire" /\ pc'[Decoder] = "destroy"
    BY <1>7, <1>p DEF AcquireFails, Acquiring
  <2>2. ~Seeking' /\ ~Searching'
    BY <2>1 DEF Seeking, Searching, WritePending, HeldPlaces
  <2> QED
    BY <1>0, <2>1, <2>2, PlainUses
<1>8. ASSUME \/ \E p \in Planes : Abandon(p)
             \/ Publish \/ Advance \/ WriteDone \/ Destroy \/ Cancel \/ LeaveHelpers \/ Streams \/ Finish \/ GiveUp
      PROVE  UseRight'
  <2>1. input' = input /\ spare' = spare /\ made' = made /\ pc[Decoder] # "fill"
    BY <1>8 DEF Abandon, Publish, Advance, WriteDone, Destroy, Cancel, LeaveHelpers, Streams, Finish, GiveUp, Idle,
       buffersVars
  <2>2. /\ pc'[Decoder] \notin HeldPlaces \cup {"acquire", "await buffer", "fill"}
        /\ pc'[Decoder] = "claim" => call' = "EncodeReady"
    BY <1>8, <1>p DEF Abandon, Publish, Advance, WriteDone, Destroy, Cancel, LeaveHelpers, Streams, Finish, GiveUp,
       HeldPlaces
  <2>3. call = "Destroy" => call' = "Destroy"
    BY <1>8 DEF Abandon, Publish, Advance, WriteDone, Destroy, Cancel, LeaveHelpers, Streams, Finish, GiveUp, Idle,
       decoderVars, CallsRight
  <2>4. ~Seeking' /\ ~Searching'
    BY <2>2 DEF Seeking, Searching, WritePending
  <2> QED
    BY <1>0, <2>1, <2>2, <2>3, <2>4, PlainUses
<1> QED
  BY <1>1, <1>2, <1>3, <1>4, <1>5, <1>6, <1>7, <1>8 DEF DecoderChoice, DecoderStep

LEMMA UseStep ==
    ASSUME CallsInv, UseRight, OutFails = {}, [Next]_vars
    PROVE  UseRight'
<1>0. IInv /\ TInv /\ TInv' /\ CallsRight /\ ClaimsRight /\ OneThreadEach
  BY IInvStep DEF CallsInv, IInv
<1>1. ASSUME NEW t \in Threads, ThreadStep(t)
      PROVE  UseRight'
  BY <1>0, <1>1, ThreadUses
<1>2. ASSUME NEW h \in Helpers, Take(h) \/ Leave(h)
      PROVE  UseRight'
  BY <1>0, <1>2, PoolUses
<1>3. CASE DecoderChoice \/ DecoderStep
  BY <1>0, <1>3, DecoderUses
<1>4. CASE UNCHANGED vars
  BY <1>4 DEF vars, UseRight, SeeksForNone, SearchesAtLimit, Searched, AllUsed, UsedHeld, UsedReached, Seeking, Searching,
     WritePending, Writing, Reached, HoldsOne, Held, Claimable, Published, ClaimAt, bufferLimit
<1> QED
  BY <1>1, <1>2, <1>3, <1>4 DEF Next, Rest

LEMMA UseInit ==
    ASSUME Init
    PROVE  UseRight
<1>1. /\ pc[Decoder] = "idle" /\ made = 0 /\ \A s \in Segs : input[s] = NoBuffer
  BY Constants DEF Init
<1>2. \A b \in 1 .. made : FALSE
  BY <1>1
<1>3. ~Seeking /\ ~Searching
  BY <1>1 DEF Seeking, Searching, WritePending, HeldPlaces
<1> QED
  BY <1>1, <1>2, <1>3 DEF UseRight, SeeksForNone, SearchesAtLimit, Searched, AllUsed, UsedHeld, UsedReached

\* At most one segment of a plane is written in part.
LEMMA PartIsWriting ==
    ASSUME TInv, NEW s \in Segs, Reached(s), position[PlaneOf(s)] < End(s)
    PROVE  s = Writing(PlaneOf(s))
<1>1. PICK p : p = PlaneOf(s)
  OBVIOUS
<1>2. /\ p \in Planes /\ Start(s) \in Nat /\ End(s) \in Nat /\ position[p] \in Nat /\ Sizes[p] \in Nat
      /\ End(s) <= Sizes[p]
  BY <1>1, SegmentTypes, Constants DEF TInv, Typed, TypedDecoder
<1>3. position[p] < End(s) /\ Start(s) < position[p]
  BY <1>1 DEF Reached
<1>4. position[p] < Sizes[p]
  BY <1>2, <1>3
<1>5. PICK w \in Segs : w = Writing(p) /\ PlaneOf(w) = p /\ Start(w) <= position[p] /\ position[p] < End(w)
  BY <1>2, <1>4, WritingSegment DEF TInv
<1>6. Start(w) \in Nat /\ End(w) \in Nat
  BY SegmentTypes
<1>7. ~(End(s) <= Start(w)) /\ ~(End(w) <= Start(s))
  BY <1>2, <1>3, <1>5, <1>6
<1>8. s = w
  BY <1>1, <1>5, <1>7, SegmentsAssumption
<1> QED
  BY <1>1, <1>5, <1>8

LEMMA NumbersUpTo ==
    ASSUME NEW n \in Nat
    PROVE  Cardinality(1 .. n) = n
<1>1. Cardinality(1 .. n) = IF 1 > n THEN 0 ELSE n - 1 + 1
  BY FS_Interval
<1> QED
  BY <1>1

\* Two functions name no more numbers than their domains have members.
LEMMA NamedNumbers ==
    ASSUME NEW S, IsFiniteSet(S), NEW T, IsFiniteSet(T), NEW n \in Nat,
           NEW f, f = [x \in S |-> f[x]], NEW g, g = [y \in T |-> g[y]],
           \A b \in 1 .. n : (\E x \in S : f[x] = b) \/ (\E y \in T : g[y] = b)
    PROVE  n <= Cardinality(S) + Cardinality(T)
<1> DEFINE A == {f[x] : x \in S}
           B == {g[y] : y \in T}
<1>1. (1 .. n) \in SUBSET (A \cup B)
  OBVIOUS
<1>2. f \in Surjection(S, A) /\ g \in Surjection(T, B)
  BY DEF Surjection
<1> HIDE DEF A, B
<1>3. /\ IsFiniteSet(A) /\ Cardinality(A) <= Cardinality(S)
      /\ IsFiniteSet(B) /\ Cardinality(B) <= Cardinality(T)
  BY <1>2, FS_Surjection
<1>4. /\ IsFiniteSet(A \cup B)
      /\ Cardinality(A \cup B) = Cardinality(A) + Cardinality(B) - Cardinality(A \cap B)
  BY <1>3, FS_Union
<1>5. IsFiniteSet(A \cap B)
  BY <1>3, FS_Subset
<1>6. Cardinality(1 .. n) <= Cardinality(A \cup B)
  BY <1>1, <1>4, FS_Subset
<1>7. Cardinality(1 .. n) = n
  BY NumbersUpTo
<1>8. /\ Cardinality(A) \in Nat /\ Cardinality(B) \in Nat /\ Cardinality(A \cap B) \in Nat
      /\ Cardinality(S) \in Nat /\ Cardinality(T) \in Nat
  BY <1>3, <1>5, FS_CardinalityType
<1> QED
  BY <1>3, <1>4, <1>6, <1>7, <1>8

\* The decoder waits and no buffer is spare.
Stuck == pc[Decoder] = "await buffer" /\ spare = {}

\* The limit is above the buffers that can be in use and not free to take.
LEMMA LimitSuffices ==
    ASSUME CallsInv, UseRight
    PROVE  ~Stuck
<1> SUFFICES ASSUME Stuck
             PROVE  FALSE
  OBVIOUS
<1>t. TInv /\ PlanesRight
  BY DEF CallsInv, IInv
<1>0. call = "Write" /\ made = bufferLimit
  <2>1. call = "Write" /\ Searching
    BY <1>t DEF Stuck, TInv, Pending, WritePending, Searching, Seeking
  <2>2. made >= bufferLimit
    BY <2>1 DEF UseRight, SearchesAtLimit
  <2>3. bufferLimit \in Nat /\ made \in 0 .. bufferLimit
    BY <1>t, Constants DEF TInv, Typed, TypedBuffers
  <2> QED
    BY <2>1, <2>2, <2>3
<1>1. ASSUME NEW b \in Buffers
      PROVE  (\E h \in Helpers : input[index[h]] = b) \/ (\E p \in Planes : input[Writing(p)] = b)
  <2>1. b \in 1 .. made /\ b # NoBuffer
    BY <1>0, Constants DEF Buffers, NoBuffer
  <2>2. PICK s \in Segs : input[s] = b
    BY <1>0, <2>1 DEF Stuck, UseRight, AllUsed
  <2>3. CASE claimed[s]
    <3>1. PICK t \in Threads : pc[t] \in HeldPlaces /\ index[t] = s
      BY <2>1, <2>2, <2>3 DEF UseRight, UsedHeld, HoldsOne, Held
    <3>2. t \in Helpers
      BY <3>1 DEF Stuck, Threads, HeldPlaces
    <3> QED
      BY <2>2, <3>1, <3>2
  <2>4. CASE ~claimed[s]
    <3>1. ~Claimable(s, FALSE)
      BY DEF Stuck, UseRight, Searched
    <3>2. PICK p \in Planes : p = PlaneOf(s)
      BY SegmentTypes
    <3>3. ready[p] # Abandoned /\ ~(ready[p] >= End(s))
      BY <2>4, <3>1, <3>2 DEF Claimable, Published, ClaimAt, End, Start
    <3>4. ready[p] = position[p] /\ position[p] \in Nat /\ End(s) \in Nat
      <4>1. position[p] \in Nat /\ End(s) \in Nat
        BY <1>t, SegmentTypes DEF TInv, Typed, TypedDecoder
      <4> QED
        BY <1>t, <3>3, <4>1 DEF Stuck, PlanesRight, Dropped
    <3>5. position[p] < End(s)
      BY <3>3, <3>4
    <3>6. Reached(s)
      BY <2>1, <2>2 DEF Stuck, UseRight, UsedReached
    <3>7. s = Writing(p)
      BY <1>t, <3>2, <3>5, <3>6, PartIsWriting
    <3> QED
      BY <2>2, <3>7
  <2> QED
    BY <2>3, <2>4
<1>2. bufferLimit <= Cardinality(Helpers) + Cardinality(Planes)
  <2>1. PICK f : f = [h \in Helpers |-> input[index[h]]]
    OBVIOUS
  <2>2. PICK g : g = [p \in Planes |-> input[Writing(p)]]
    OBVIOUS
  <2>3. \A b \in 1 .. bufferLimit : (\E h \in Helpers : f[h] = b) \/ (\E p \in Planes : g[p] = b)
    BY <1>1, <2>1, <2>2 DEF Buffers
  <2>4. f = [h \in Helpers |-> f[h]] /\ g = [p \in Planes |-> g[p]]
    BY <2>1, <2>2
  <2>5. IsFiniteSet(Helpers) /\ IsFiniteSet(Planes) /\ bufferLimit \in Nat
    BY ThreadsFinite, SizesAssumption, Constants
  <2> QED
    BY <2>3, <2>4, <2>5, NamedNumbers
<1>3. bufferLimit = Cardinality(Planes) + Cardinality(Helpers) + 1
  BY DEF bufferLimit
<1>4. Cardinality(Helpers) \in Nat /\ Cardinality(Planes) \in Nat
  BY ThreadsFinite, SizesAssumption, FS_CardinalityType
<1> QED
  BY <1>2, <1>3, <1>4

\* Where no output allocation fails, a decoder that reached the limit of buffers and found no
\* segment to compress finds a buffer that a helper just freed: AcquireBuffer never waits for ever.
THEOREM NeverWithout ==
    ASSUME OutFails = {}
    PROVE  Spec => []AlwaysABuffer
<1>1. Init => UseRight
  BY UseInit
<1>2. CallsInv /\ UseRight /\ [Next]_vars => UseRight'
  BY UseStep
<1>3. CallsInv /\ UseRight => AlwaysABuffer
  BY LimitSuffices DEF Stuck, AlwaysABuffer, At
<1> QED
  BY <1>1, <1>2, <1>3, CallsInvHolds, PTL DEF Spec

\* Where no output allocation fails, Writing and AcquireBuffer serve the decoder: the segment it
\* writes has its own buffer, and a full encoder has one to free.
THEOREM AlwaysServed ==
    ASSUME OutFails = {}
    PROVE  Spec => []DecoderServed
<1>1. Spec => []DecoderHasBuffer
  BY DecoderWrites
<1>2. Spec => []AlwaysABuffer
  BY NeverWithout
<1> QED
  BY <1>1, <1>2, PTL DEF DecoderServed
=============================================================================
