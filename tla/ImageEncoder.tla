---------------------------- MODULE ImageEncoder ----------------------------
(***************************************************************************)
(* One ImagePlanesEncoder of src/core/image_encoder.cpp: the decoder       *)
(* thread writes the rows of an image's planes into segment buffers while  *)
(* helper threads of the process compress the segments, each from its      *)
(* first block on.                                                         *)
(*                                                                         *)
(* A step is one atomic access of the code, or one critical section of     *)
(* State::mutex where the section reads nothing that changes outside it.   *)
(* Bytes are counted in units; a deflate block is Block units and looks    *)
(* Ahead units past its end.  Accesses of atomics are sequentially         *)
(* consistent.                                                             *)
(***************************************************************************)
EXTENDS Integers, Sequences, FiniteSets

CONSTANTS
    Planes,        \* the planes of the image (0 and 1 in the code)
    Sizes,         \* [Planes -> units], the constructor's `sizes`
    segments,      \* State::segments, in the order their bytes arrive
    Helpers,       \* threads of the HelperPool that this encoder asked for
    Decoder,       \* the thread that owns the encoder
    Block, Ahead,  \* kBlockStart; kMaxMatch and a hash past it
    BufferFails,   \* TRUE: the malloc of a segment buffer may fail
    OutFails       \* planes whose output allocation may fail

Threads == Helpers \cup {Decoder}
Count == Len(segments)
Segs == 1 .. Count
PlaneOf(s) == segments[s].plane
Start(s) == segments[s].start
End(s) == segments[s].start + segments[s].size

NoThread == "none"

ASSUME HelpersAssumption ==
    IsFiniteSet(Helpers) /\ Decoder \notin Helpers /\ NoThread \notin Threads
ASSUME SizesAssumption ==
    IsFiniteSet(Planes) /\ Planes # {} /\ Sizes \in [Planes -> Nat \ {0}]
ASSUME BlockAssumption == Block \in Nat \ {0} /\ Ahead \in Nat
ASSUME FailAssumption == BufferFails \in BOOLEAN /\ OutFails \subseteq Planes
ASSUME SegmentsAssumption ==
    /\ segments \in Seq([plane : Planes, start : Nat, size : Nat \ {0}])
    /\ \A s \in Segs : End(s) <= Sizes[PlaneOf(s)]
    /\ \A p \in Planes : \A n \in 0 .. Sizes[p] - 1 :
          \E s \in Segs : PlaneOf(s) = p /\ Start(s) <= n /\ n < End(s)
    /\ \A s, r \in Segs : PlaneOf(s) = PlaneOf(r) /\ s # r =>
          End(s) <= Start(r) \/ End(r) <= Start(s)

VARIABLES
    ready,         \* per plane: units published, or Abandoned
    position,      \* per plane: units written (the decoder's own)
    wakeStart,     \* per plane: start of the next segment to wake helpers for
    claimed,       \* per segment: taken by a thread
    claimedCount,
    input,         \* per segment: its buffer, or NoBuffer
    whole,         \* segments whose compression ended with written # 0
    spare,         \* free buffers
    made,          \* buffers.size() + carved
    holds,         \* per buffer: the segment last written into it (history variable)
    out,           \* per plane: its output was allocated
    failed,
    mutex,         \* the owner of State::mutex, or NoThread
    waiting,       \* threads blocked in changed.wait
    sleepers, running, queue,
    pc, index, packed,  \* per thread: its place, segment and units compressed
    call,          \* the decoder's call that encodes
    target,        \* the decoder's write: plane and units
    result         \* what the decoder's use of the encoder came to

buffersVars == <<input, spare, made, holds>>
decoderVars == <<position, wakeStart, failed, call, target, result, out>>
vars == <<ready, position, wakeStart, claimed, claimedCount, input, whole, spare,
          made, holds, out, failed, mutex, waiting, sleepers, running, queue,
          pc, index, packed, call, target, result>>

Abandoned == -1      \* kAbandoned, above every size
NoBuffer == 0
bufferLimitNoneForHelpers == Cardinality(Planes) + Cardinality(Helpers) - 1   \* mutant
bufferLimit == Cardinality(Planes) + Cardinality(Helpers) + 1
Buffers == 1 .. bufferLimit

Least(a, b) == IF a < b THEN a ELSE b

\* The units a segment needs before it is taken: all for the thread that writes
\* them, else its first block.
ClaimAt(s, streamed) ==
    Start(s) + (IF streamed THEN Least(segments[s].size, Block + Ahead) ELSE segments[s].size)

\* `ready[plane] >= units`, kAbandoned being the largest size_t.
Published(p, units) == ready[p] = Abandoned \/ ready[p] >= units

Claimable(s, streamed) == ~claimed[s] /\ Published(PlaneOf(s), ClaimAt(s, streamed))

\* A helper, and the decoder in Finish, are in Work; the decoder's other calls take
\* full segments only.
InWork(t) == t # Decoder \/ call = "Finish"

\* The segment that the plane's next unit goes to (planeSegments[plane][writing[plane]]).
Writing(p) == CHOOSE s \in Segs : PlaneOf(s) = p /\ Start(s) <= position[p] /\ position[p] < End(s)

Written(p) == position[p] = Sizes[p]

Init ==
    /\ ready = [p \in Planes |-> 0]
    /\ position = [p \in Planes |-> 0]
    /\ wakeStart = [p \in Planes |-> 0]
    /\ claimed = [s \in Segs |-> FALSE]
    /\ claimedCount = 0
    /\ input = [s \in Segs |-> NoBuffer]
    /\ whole = {}
    /\ spare = {} /\ made = 0
    /\ holds = [b \in Buffers |-> 0]
    /\ out \in {o \in [Planes -> BOOLEAN] : \A p \in Planes \ OutFails : o[p]}
    /\ failed = FALSE
    /\ mutex = NoThread /\ waiting = {}
    /\ sleepers = 0 /\ running = 0
    /\ queue = Cardinality(Helpers)
    /\ pc = [t \in Threads |-> IF t = Decoder THEN "idle" ELSE "pool"]
    /\ index = [t \in Threads |-> 0]
    /\ packed = [t \in Threads |-> 0]
    /\ call = "none"
    /\ target = [plane |-> CHOOSE p \in Planes : TRUE, units |-> 0]
    /\ result = "none"

Goto(t, place) == pc' = [pc EXCEPT ![t] = place]
At(t, place) == pc[t] = place

-----------------------------------------------------------------------------
(* HelperPool::Run around Work *)

\* A pool thread takes the encoder from the queue.  It may never come: the pool is
\* shared with other encoders.
Take(h) ==
    /\ At(h, "pool") /\ queue > 0
    /\ queue' = queue - 1
    /\ running' = running + 1
    /\ Goto(h, "work")
    /\ UNCHANGED <<ready, claimed, claimedCount, whole, mutex, waiting, sleepers,
                   index, packed, buffersVars, decoderVars>>

\* mutant: leaves without notifying the decoder
LeaveSilently(h) ==
    /\ At(h, "exit") /\ mutex = NoThread
    /\ running' = running - 1
    /\ Goto(h, "pool")
    /\ UNCHANGED <<ready, claimed, claimedCount, whole, mutex, waiting, sleepers, queue,
                   index, packed, buffersVars, decoderVars>>

\* Under the lock: once this helper has left, the encoder may destroy the state.
Leave(h) ==
    /\ At(h, "exit") /\ mutex = NoThread
    /\ running' = running - 1
    /\ waiting' = {}
    /\ Goto(h, "pool")
    /\ UNCHANGED <<ready, claimed, claimedCount, whole, mutex, sleepers, queue,
                   index, packed, buffersVars, decoderVars>>

-----------------------------------------------------------------------------
(* State::Work, Claim, CanClaim, Encode and Release, by any thread *)

WorkLoop(t) ==
    /\ At(t, "work")
    /\ \/ /\ claimedCount < Count
          /\ Goto(t, "claim") /\ index' = [index EXCEPT ![t] = 1]
       \/ /\ claimedCount >= Count
          /\ Goto(t, IF t = Decoder THEN "cancel" ELSE "exit")
          /\ UNCHANGED index
    /\ UNCHANGED <<ready, claimed, claimedCount, whole, mutex, waiting, sleepers,
                   running, queue, packed, buffersVars, decoderVars>>

\* mutant: a test without the exchange
ClaimNoExchange(t) ==
    /\ At(t, "claim") /\ index[t] \in Segs
    /\ Claimable(index[t], InWork(t))
    /\ Goto(t, "count")
    /\ UNCHANGED <<ready, claimed, claimedCount, whole, mutex, waiting, sleepers, running,
                   queue, index, packed, buffersVars, decoderVars>>

\* One segment of Claim's loop.  The test and the exchange are one step, as a segment
\* that was claimable stays so until it is claimed.
ClaimTake(t) ==
    /\ At(t, "claim") /\ index[t] \in Segs
    /\ Claimable(index[t], InWork(t))
    /\ claimed' = [claimed EXCEPT ![index[t]] = TRUE]
    /\ Goto(t, "count")
    /\ UNCHANGED <<ready, claimedCount, whole, mutex, waiting, sleepers, running,
                   queue, index, packed, buffersVars, decoderVars>>

ClaimSkip(t) ==
    /\ At(t, "claim") /\ index[t] \in Segs
    /\ ~Claimable(index[t], InWork(t))
    /\ index' = [index EXCEPT ![t] = @ + 1]
    /\ UNCHANGED <<ready, claimed, claimedCount, whole, mutex, waiting, sleepers,
                   running, queue, pc, packed, buffersVars, decoderVars>>

\* Claim returns null: Work goes to sleep, AcquireBuffer waits, EncodeReady is done.
ClaimNone(t) ==
    /\ At(t, "claim") /\ index[t] > Count
    /\ Goto(t, IF InWork(t) THEN "lock" ELSE IF call = "Write" THEN "await buffer" ELSE "idle")
    /\ index' = [index EXCEPT ![t] = 0]
    /\ UNCHANGED <<ready, claimed, claimedCount, whole, mutex, waiting, sleepers,
                   running, queue, packed, buffersVars, decoderVars>>

CountClaim(t) ==
    /\ At(t, "count")
    /\ claimedCount' = claimedCount + 1
    /\ Goto(t, IF claimedCount + 1 = Count THEN "wake last" ELSE "encode")
    /\ UNCHANGED <<ready, claimed, whole, mutex, waiting, sleepers, running, queue,
                   index, packed, buffersVars, decoderVars>>

Encode(t) ==
    /\ At(t, "encode")
    /\ LET p == PlaneOf(index[t]) IN
         Goto(t, IF ready[p] # Abandoned /\ out[p] THEN "deflate" ELSE "release")
    /\ UNCHANGED <<ready, claimed, claimedCount, whole, mutex, waiting, sleepers,
                   running, queue, index, packed, buffersVars, decoderVars>>

\* The next block: all its input is awaited, then it is compressed.  The decoder's own
\* segments are full and await nothing.
DeflateBlock(t) ==
    LET s == index[t]
        done == Least(segments[s].size, packed[t] + Block) IN
    /\ At(t, "deflate")
    /\ InWork(t) => ready[PlaneOf(s)] # Abandoned
    /\ InWork(t) => ready[PlaneOf(s)] >= Start(s) + Least(segments[s].size, packed[t] + Block + Ahead)
    /\ packed' = [packed EXCEPT ![t] = done]
    /\ IF done = segments[s].size
       THEN whole' = whole \cup {s} /\ Goto(t, "release")
       ELSE UNCHANGED <<whole, pc>>
    /\ UNCHANGED <<ready, claimed, claimedCount, mutex, waiting, sleepers, running,
                   queue, index, buffersVars, decoderVars>>

\* mutant: what was compressed when the plane was abandoned counts as the segment
DeflateStopWhole(t) ==
    /\ At(t, "deflate") /\ InWork(t)
    /\ ready[PlaneOf(index[t])] = Abandoned
    /\ whole' = whole \cup {index[t]} /\ Goto(t, "release")
    /\ UNCHANGED <<ready, claimed, claimedCount, mutex, waiting, sleepers,
                   running, queue, index, packed, buffersVars, decoderVars>>

\* The await of a block's input finds the plane abandoned: DeflateImageSegment returns 0.
DeflateStop(t) ==
    /\ At(t, "deflate") /\ InWork(t)
    /\ ready[PlaneOf(index[t])] = Abandoned
    /\ Goto(t, "release")
    /\ UNCHANGED <<ready, claimed, claimedCount, whole, mutex, waiting, sleepers,
                   running, queue, index, packed, buffersVars, decoderVars>>

\* Where a thread goes on once Encode returns.
Released(t) ==
    IF InWork(t) THEN Goto(t, "work") /\ index' = [index EXCEPT ![t] = 0]
    ELSE IF call = "Write" THEN Goto(t, "acquire") /\ index' = [index EXCEPT ![t] = 0]
    ELSE Goto(t, "claim") /\ index' = [index EXCEPT ![t] = 1]

\* mutant: the segment keeps its pointer to the freed buffer
ReleaseKeepsInput(t) ==
    LET b == input[index[t]] IN
    /\ At(t, "release")
    /\ b # NoBuffer => mutex = NoThread
    /\ spare' = IF b = NoBuffer THEN spare ELSE spare \cup {b}
    /\ waiting' = IF b = NoBuffer THEN waiting ELSE {}
    /\ packed' = [packed EXCEPT ![t] = 0]
    /\ Released(t)
    /\ UNCHANGED <<ready, claimed, claimedCount, whole, input, made, holds, mutex, sleepers,
                   running, queue, decoderVars>>

Release(t) ==
    LET b == input[index[t]] IN
    /\ At(t, "release")
    /\ b # NoBuffer => mutex = NoThread
    /\ spare' = IF b = NoBuffer THEN spare ELSE spare \cup {b}
    /\ waiting' = IF b = NoBuffer THEN waiting ELSE {}
    /\ input' = [input EXCEPT ![index[t]] = NoBuffer]
    /\ packed' = [packed EXCEPT ![t] = 0]
    /\ Released(t)
    /\ UNCHANGED <<ready, claimed, claimedCount, whole, made, holds, mutex, sleepers,
                   running, queue, decoderVars>>

\* No segment to take: the thread locks the mutex and counts itself asleep.
Lock(t) ==
    /\ At(t, "lock") /\ mutex = NoThread
    /\ mutex' = t
    /\ sleepers' = sleepers + 1
    /\ Goto(t, "check") /\ index' = [index EXCEPT ![t] = 0]
    /\ UNCHANGED <<ready, claimed, claimedCount, whole, waiting, running, queue,
                   packed, buffersVars, decoderVars>>

\* CanClaim, a read at a time and under the lock; index 0 is the count of the claimed.
CanClaim(t) ==
    \/ index[t] = 0 /\ claimedCount = Count
    \/ index[t] \in Segs /\ Claimable(index[t], TRUE)

CheckYes(t) ==
    /\ At(t, "check") /\ CanClaim(t)
    /\ sleepers' = sleepers - 1
    /\ mutex' = NoThread
    /\ Goto(t, "work") /\ index' = [index EXCEPT ![t] = 0]
    /\ UNCHANGED <<ready, claimed, claimedCount, whole, waiting, running, queue,
                   packed, buffersVars, decoderVars>>

CheckNext(t) ==
    /\ At(t, "check") /\ index[t] <= Count /\ ~CanClaim(t)
    /\ index' = [index EXCEPT ![t] = @ + 1]
    /\ UNCHANGED <<ready, claimed, claimedCount, whole, mutex, waiting, sleepers,
                   running, queue, pc, packed, buffersVars, decoderVars>>

CheckNo(t) ==
    /\ At(t, "check") /\ index[t] > Count
    /\ mutex' = NoThread
    /\ waiting' = waiting \cup {t}
    /\ Goto(t, "sleep") /\ index' = [index EXCEPT ![t] = 0]
    /\ UNCHANGED <<ready, claimed, claimedCount, whole, sleepers, running, queue,
                   packed, buffersVars, decoderVars>>

Woken(t) ==
    /\ At(t, "sleep") /\ t \notin waiting /\ mutex = NoThread
    /\ mutex' = t
    /\ Goto(t, "check") /\ index' = [index EXCEPT ![t] = 0]
    /\ UNCHANGED <<ready, claimed, claimedCount, whole, waiting, sleepers, running,
                   queue, packed, buffersVars, decoderVars>>

\* Wake: the mutex is taken and left before every sleeper is notified.
WakeNext == [place \in {"wake last", "wake advance", "wake abandon", "wake destroy"} |->
    CASE place = "wake last" -> "encode"
      [] place = "wake advance" -> "written"
      [] place = "wake abandon" -> "idle"
      [] place = "wake destroy" -> "cancel"]

\* mutant: notifies without taking the mutex first
WakeUnlocked(t) ==
    /\ pc[t] \in DOMAIN WakeNext
    /\ waiting' = {}
    /\ Goto(t, WakeNext[pc[t]])
    /\ UNCHANGED <<ready, claimed, claimedCount, whole, mutex, sleepers, running,
                   queue, index, packed, buffersVars, decoderVars>>

Wake(t) ==
    /\ pc[t] \in DOMAIN WakeNext
    /\ mutex = NoThread
    /\ waiting' = {}
    /\ Goto(t, WakeNext[pc[t]])
    /\ UNCHANGED <<ready, claimed, claimedCount, whole, mutex, sleepers, running,
                   queue, index, packed, buffersVars, decoderVars>>

-----------------------------------------------------------------------------
(* The decoder: BuildDecodedPngImage's use of Reserve, Commit, Append, Abandon,  *)
(* EncodeReady, Finish and the destructor                                        *)

sharedVars == <<claimed, claimedCount, whole, sleepers, running, packed>>

Idle == At(Decoder, "idle")

\* Reserve, or a piece of Append: the next units of a plane, within one segment.
Write(p, n) ==
    /\ Idle /\ ready[p] # Abandoned
    /\ ~Written(p) /\ position[p] + n <= End(Writing(p))
    /\ call' = "Write"
    /\ target' = [plane |-> p, units |-> n]
    /\ Goto(Decoder, IF input[Writing(p)] = NoBuffer THEN "acquire" ELSE "fill")
    /\ UNCHANGED <<ready, position, wakeStart, out, failed, mutex, waiting, queue, index,
                   result, buffersVars, sharedVars>>

\* The buffer becomes the segment's and begins with its history (Writing).
GiveBuffer(b) ==
    LET s == Writing(target.plane) IN
    /\ input' = [input EXCEPT ![s] = b]
    /\ holds' = [holds EXCEPT ![b] = s]
    /\ Goto(Decoder, "fill")

Acquiring == At(Decoder, "acquire") /\ mutex = NoThread

AcquireSpare(b) ==
    /\ Acquiring /\ b \in spare
    /\ spare' = spare \ {b}
    /\ GiveBuffer(b)
    /\ UNCHANGED <<ready, made, mutex, waiting, queue, index, sharedVars, decoderVars>>

\* mutant: the limit is not looked at
AcquireUnlimited ==
    /\ Acquiring /\ spare = {}
    /\ made' = made + 1
    /\ GiveBuffer(made + 1)
    /\ UNCHANGED <<ready, spare, mutex, waiting, queue, index, sharedVars, decoderVars>>

AcquireNew ==
    /\ Acquiring /\ spare = {} /\ made < bufferLimit
    /\ made' = made + 1
    /\ GiveBuffer(made + 1)
    /\ UNCHANGED <<ready, spare, mutex, waiting, queue, index, sharedVars, decoderVars>>

\* NewBuffer's malloc fails: the write returns false and the decode is given up.
AcquireFails ==
    /\ Acquiring /\ spare = {} /\ made < bufferLimit /\ BufferFails
    /\ made' = made + 1
    /\ failed' = TRUE
    /\ call' = "Destroy" /\ result' = "failed"
    /\ Goto(Decoder, "destroy")
    /\ UNCHANGED <<ready, position, wakeStart, out, target, input, spare, holds, mutex,
                   waiting, queue, index, sharedVars>>

\* Every buffer is in use: compress a full segment here, if there is one to take.
AcquireEncode ==
    /\ Acquiring /\ spare = {} /\ made >= bufferLimit
    /\ Goto(Decoder, "claim") /\ index' = [index EXCEPT ![Decoder] = 1]
    /\ UNCHANGED <<ready, mutex, waiting, queue, buffersVars, sharedVars, decoderVars>>

\* Else wait for a helper to free one.
AwaitBuffer ==
    /\ At(Decoder, "await buffer") /\ Decoder \notin waiting /\ mutex = NoThread
    /\ \/ spare # {} /\ Goto(Decoder, "acquire") /\ UNCHANGED waiting
       \/ spare = {} /\ waiting' = waiting \cup {Decoder} /\ UNCHANGED pc
    /\ UNCHANGED <<ready, mutex, queue, index, buffersVars, sharedVars, decoderVars>>

\* The bytes go into the buffer; a segment's last ones are kept for the next one's history.
Fill ==
    /\ At(Decoder, "fill")
    /\ position' = [position EXCEPT ![target.plane] = @ + target.units]
    /\ Goto(Decoder, "publish")
    /\ UNCHANGED <<ready, wakeStart, out, failed, call, target, result, mutex, waiting,
                   queue, index, buffersVars, sharedVars>>

Publish ==
    /\ At(Decoder, "publish")
    /\ ready' = [ready EXCEPT ![target.plane] = position[target.plane]]
    /\ Goto(Decoder, "advance")
    /\ UNCHANGED <<mutex, waiting, queue, index, buffersVars, sharedVars, decoderVars>>

\* The start of the plane's first segment whose first block is not written.
NextToWake(p) ==
    LET later == {s \in Segs : PlaneOf(s) = p /\ position[p] < ClaimAt(s, TRUE)} IN
    IF later = {} THEN Sizes[p]
    ELSE CHOOSE n \in {Start(s) : s \in later} : \A s \in later : n <= Start(s)

Advance ==
    LET p == target.plane IN
    /\ At(Decoder, "advance")
    /\ wakeStart' = [wakeStart EXCEPT ![p] = NextToWake(p)]
    /\ Goto(Decoder, IF NextToWake(p) # wakeStart[p] /\ sleepers > 0
                     THEN "wake advance" ELSE "written")
    /\ UNCHANGED <<ready, position, out, failed, call, target, result, mutex, waiting,
                   queue, index, buffersVars, sharedVars>>

\* Between rows a decoder without helpers calls EncodeReady; a row may be several pieces.
WriteDone ==
    /\ At(Decoder, "written")
    /\ \/ Goto(Decoder, "idle") /\ UNCHANGED <<call, index>>
       \/ /\ Helpers = {}
          /\ call' = "EncodeReady"
          /\ Goto(Decoder, "claim") /\ index' = [index EXCEPT ![Decoder] = 1]
    /\ UNCHANGED <<ready, position, wakeStart, out, failed, target, result, mutex, waiting,
                   queue, buffersVars, sharedVars>>

Abandon(p) ==
    /\ Idle /\ ready[p] # Abandoned /\ ~Written(p)
    /\ ready' = [ready EXCEPT ![p] = Abandoned]
    /\ Goto(Decoder, "wake abandon")
    /\ UNCHANGED <<mutex, waiting, queue, index, buffersVars, sharedVars, decoderVars>>

\* Every plane must be written whole or abandoned first.
Finish ==
    /\ Idle /\ \A p \in Planes : ready[p] = Abandoned \/ Written(p)
    /\ call' = "Finish"
    /\ Goto(Decoder, "work")
    /\ UNCHANGED <<ready, position, wakeStart, out, failed, target, result, mutex, waiting,
                   queue, index, buffersVars, sharedVars>>

\* A cancelled build or bad image data: the decoder returns and the encoder is destroyed.
GiveUp ==
    /\ Idle
    /\ call' = "Destroy" /\ result' = "failed"
    /\ Goto(Decoder, "destroy")
    /\ UNCHANGED <<ready, position, wakeStart, out, failed, target, mutex, waiting, queue,
                   index, buffersVars, sharedVars>>

\* The destructor abandons what is not whole, a plane at a time, and wakes the helpers.
Destroy ==
    /\ At(Decoder, "destroy")
    /\ \/ \E p \in Planes :
             /\ ready[p] \notin {Sizes[p], Abandoned}
             /\ ready' = [ready EXCEPT ![p] = Abandoned]
             /\ UNCHANGED pc
       \/ /\ \A p \in Planes : ready[p] \in {Sizes[p], Abandoned}
          /\ Goto(Decoder, "wake destroy")
          /\ UNCHANGED ready
    /\ UNCHANGED <<mutex, waiting, queue, index, buffersVars, sharedVars, decoderVars>>

\* LeaveHelpers: HelperPool::Cancel, then wait until the helpers in Work have left.
Cancel ==
    /\ At(Decoder, "cancel")
    /\ queue' = 0
    /\ Goto(Decoder, "leave")
    /\ UNCHANGED <<ready, mutex, waiting, index, buffersVars, sharedVars, decoderVars>>

\* mutant: does not wait for the helpers that took the encoder
LeaveAtOnce ==
    /\ At(Decoder, "leave") /\ mutex = NoThread
    /\ Goto(Decoder, IF call = "Finish" THEN "streams" ELSE "freed")
    /\ UNCHANGED <<ready, mutex, waiting, queue, index, buffersVars, sharedVars, decoderVars>>

LeaveHelpers ==
    /\ At(Decoder, "leave") /\ Decoder \notin waiting /\ mutex = NoThread
    /\ \/ /\ running = 0
          /\ Goto(Decoder, IF call = "Finish" THEN "streams" ELSE "freed")
          /\ UNCHANGED waiting
       \/ /\ running # 0
          /\ waiting' = waiting \cup {Decoder} /\ UNCHANGED pc
    /\ UNCHANGED <<ready, mutex, queue, index, buffersVars, sharedVars, decoderVars>>

\* Finish puts the streams of the planes together; the encoder then goes out of scope.
Streams ==
    /\ At(Decoder, "streams")
    /\ result' = IF failed \/ \E p \in Planes : ready[p] # Abandoned /\ ~out[p]
                 THEN "failed" ELSE "streams"
    /\ call' = "Destroy"
    /\ Goto(Decoder, "destroy")
    /\ UNCHANGED <<ready, position, wakeStart, out, failed, target, mutex, waiting, queue,
                   index, buffersVars, sharedVars>>

\* The end: the encoder is gone and the pool's threads wait for other encoders.
Rest ==
    /\ At(Decoder, "freed") /\ \A h \in Helpers : At(h, "pool")
    /\ UNCHANGED vars

-----------------------------------------------------------------------------
ThreadStep(t) ==
    \/ WorkLoop(t) \/ ClaimTake(t) \/ ClaimSkip(t) \/ ClaimNone(t) \/ CountClaim(t)
    \/ Encode(t) \/ DeflateBlock(t) \/ DeflateStop(t) \/ Release(t)
    \/ Lock(t) \/ CheckYes(t) \/ CheckNext(t) \/ CheckNo(t) \/ Woken(t) \/ Wake(t)

\* What the decoder chooses to do next with the encoder.
DecoderChoice ==
    \/ \E p \in Planes : \E n \in 1 .. Sizes[p] : Write(p, n)
    \/ \E p \in Planes : Abandon(p)
    \/ Finish \/ GiveUp

DecoderStep ==
    \/ \E b \in Buffers : AcquireSpare(b)
    \/ AcquireNew \/ AcquireFails \/ AcquireEncode \/ AwaitBuffer
    \/ Fill \/ Publish \/ Advance \/ WriteDone
    \/ Destroy \/ Cancel \/ LeaveHelpers \/ Streams

Next ==
    \/ \E t \in Threads : ThreadStep(t)
    \/ \E h \in Helpers : Take(h) \/ Leave(h)
    \/ DecoderChoice \/ DecoderStep \/ Rest

Spec == Init /\ [][Next]_vars

\* Threads that hold work go on with it.  Nothing makes a pool thread come (Take), nor the
\* decoder write its next row.
BusySpec ==
    /\ Spec
    /\ \A h \in Helpers : WF_vars(ThreadStep(h) \/ Leave(h))
    /\ WF_vars(ThreadStep(Decoder) \/ DecoderStep)

-----------------------------------------------------------------------------
(* Properties *)

Places == {"pool", "work", "claim", "count", "wake last", "encode", "deflate", "release",
           "lock", "check", "sleep", "exit"}
DecoderPlaces == {"idle", "acquire", "await buffer", "fill", "publish", "advance",
                  "wake advance", "written", "wake abandon", "destroy", "wake destroy",
                  "cancel", "leave", "streams", "freed"}

TypeOK ==
    /\ ready \in [Planes -> Nat \cup {Abandoned}]
    /\ position \in [Planes -> Nat] /\ wakeStart \in [Planes -> Nat]
    /\ \A p \in Planes : position[p] <= Sizes[p]
    /\ claimed \in [Segs -> BOOLEAN] /\ claimedCount \in Nat
    /\ input \in [Segs -> Buffers \cup {NoBuffer}]
    /\ whole \subseteq Segs /\ spare \subseteq Buffers
    /\ made \in 0 .. bufferLimit /\ holds \in [Buffers -> Segs \cup {0}]
    /\ out \in [Planes -> BOOLEAN] /\ failed \in BOOLEAN
    /\ mutex \in Threads \cup {NoThread} /\ waiting \subseteq Threads
    /\ sleepers \in Nat /\ running \in Nat /\ queue \in Nat
    /\ pc \in [Threads -> Places \cup DecoderPlaces]
    /\ \A h \in Helpers : pc[h] \in Places
    /\ index \in [Threads -> 0 .. Count + 1]
    /\ packed \in [Threads -> Nat]
    /\ call \in {"none", "Write", "EncodeReady", "Finish", "Destroy"}
    /\ target \in [plane : Planes, units : Nat]
    /\ result \in {"none", "failed", "streams"}

Encoding(t) == pc[t] \in {"count", "wake last", "encode", "deflate", "release"}

\* No two threads compress the same segment, and a claimed segment that no thread holds
\* is done with: the claim is the only thing that divides the work.
OneThreadEach ==
    /\ \A t, u \in Threads : t # u /\ Encoding(t) /\ Encoding(u) => index[t] # index[u]
    /\ \A t \in Threads : Encoding(t) => claimed[index[t]]

\* A segment buffer belongs to one segment, or is free: the spare list never holds a buffer
\* that the decoder writes or a thread compresses from.
OneOwnerEach ==
    /\ \A s, r \in Segs : s # r /\ input[s] # NoBuffer => input[s] # input[r]
    /\ \A s \in Segs : input[s] \notin spare

\* What a thread compresses is its own segment's bytes, still in the segment's buffer: no
\* buffer is given to another segment while one compresses from it.
OwnBytes ==
    \A t \in Threads : At(t, "deflate") =>
        input[index[t]] # NoBuffer /\ holds[input[index[t]]] = index[t]

\* A buffer is one segment's, or spare, and what is compressed from it is that segment's
\* bytes, whatever the decoder takes next and whichever thread gives it back.
BuffersKept == OneOwnerEach /\ OwnBytes

\* Segment.input is "its buffer, from when the decoder reaches it until it is compressed":
\* the decoder's write goes into, and its history is taken from, the segment's own buffer.
DecoderHasBuffer ==
    At(Decoder, "fill") =>
        LET b == input[Writing(target.plane)] IN
        b # NoBuffer /\ holds[b] = Writing(target.plane)

\* bufferLimit leaves "one more, so that a full one is always there to free": a decoder
\* without a free buffer finds a segment to compress or a buffer just freed, never neither.
AlwaysABuffer == At(Decoder, "await buffer") => spare # {}

\* The decoder is served: it writes into its segment's own buffer, and when it has to wait
\* for one there is one.
DecoderServed == DecoderHasBuffer /\ AlwaysABuffer

\* "A decoder with no free buffer sleeps until one is freed": while it sleeps, some buffer is
\* that of a segment still to be taken, or of one that a helper has in hand.
BufferComes ==
    At(Decoder, "await buffer") /\ Decoder \in waiting =>
        \E s \in Segs :
            /\ input[s] # NoBuffer
            /\ claimed[s] => \E h \in Helpers : Encoding(h) /\ index[h] = s

\* Once the encoder is destroyed no pool thread is between taking it and leaving it, nor
\* can one take it.
NotUsedAfterFree ==
    At(Decoder, "freed") =>
        queue = 0 /\ waiting = {} /\ mutex = NoThread /\ \A h \in Helpers : At(h, "pool")

\* Finish gives streams only when every segment of every plane not abandoned was
\* compressed from start to end, whichever threads did it and in whatever order.
StreamsWhole ==
    result = "streams" =>
        \A s \in Segs : ready[PlaneOf(s)] # Abandoned => s \in whole

\* No wake-up is lost: a helper that sleeps while some segment has its first block goes
\* on, or the segment is taken, even if the decoder writes nothing more.
HelperWakes ==
    \A h \in Helpers : \A s \in Segs :
        At(h, "sleep") /\ Claimable(s, TRUE) ~> ~At(h, "sleep") \/ claimed[s]

\* Every call of the decoder returns, with no wait for a buffer or for the helpers that does
\* not end, and after the destructor every helper is back in the pool.
Ends == []<>(Idle \/ (At(Decoder, "freed") /\ \A h \in Helpers : At(h, "pool")))

\* The encoder, with its helpers, buffers and lock, does what image_encoder.h promises of
\* it: each segment is compressed at most once and from bytes all written, streams are of
\* whole planes, and a destroyed encoder is left alone.
Promise == INSTANCE PlaneStreams WITH
    written <- position,
    dropped <- {p \in Planes : ready[p] = Abandoned},
    compressed <- whole,
    outcome <- result,
    alive <- ~At(Decoder, "freed")

KeepsPromise == Promise!Spec
=============================================================================
