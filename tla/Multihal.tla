------------------------------ MODULE Multihal ------------------------------
(***************************************************************************)
(* The event path of the sensor multi-HAL (sensors/multihal.cpp): one      *)
(* writerTask thread per sub-HAL fills that sub-HAL's SensorEventQueue,    *)
(* and the framework's poll() drains all queues in turn.  One mutex,       *)
(* queue_mutex, protects all queues; the sub-HAL's poll() writes into the  *)
(* lent region without it.                                                 *)
(*                                                                         *)
(* A critical section of a writer is one action, enabled while the mutex   *)
(* is free.  The reader's critical section takes many steps, and holds the *)
(* mutex while pollPc = "scan".                                            *)
(***************************************************************************)
EXTENDS Integers, Sequences
-----------------------------------------------------------------------------
(***************************************************************************)
(* The class SensorEventQueue (sensors/SensorEventQueue.cpp): a circular   *)
(* queue whose free part is lent to one writer, which fills it without the *)
(* lock.  A queue object is a record with the fields of the class; every   *)
(* method is an operator from the object to its result or to the new       *)
(* object.  The condition variable of the class is modelled where threads  *)
(* are, below.                                                             *)
(***************************************************************************)

CONSTANTS mCapacity,  \* slots of the data array (36 in multihal.cpp)
          Event,      \* what a slot can hold
          Indeterminate \* a slot of "new sensors_event_t[]" nobody has written

ASSUME CapacityAssumption == mCapacity \in Nat \ {0}
ASSUME EventAssumption == Indeterminate \notin Event

Slot == 0 .. mCapacity - 1

Queue == [mStart : Slot, mSize : 0 .. mCapacity, mData : [Slot -> Event \cup {Indeterminate}]]

\* The constructor.
EmptyQueue == [mStart |-> 0, mSize |-> 0, mData |-> [s \in Slot |-> Indeterminate]]

NoRegion == [first |-> 0, length |-> 0]

getWritableRegion_unclipped(q, requestedLength) ==
    LET firstWritable == (q.mStart + q.mSize) % mCapacity
        inArray == IF firstWritable + requestedLength - 1 > mCapacity - 1
                     THEN mCapacity - 1
                     ELSE firstWritable + requestedLength - 1
    IN  IF q.mSize = mCapacity \/ requestedLength <= 0
          THEN NoRegion
          ELSE [first |-> firstWritable, length |-> inArray - firstWritable + 1]

(***************************************************************************)
(* The contiguous free region lent to the writer: it starts after the last *)
(* readable record, stops at the end of the array and before the readable  *)
(* region.                                                                 *)
(***************************************************************************)
getWritableRegion(q, requestedLength) ==
    LET firstWritable == (q.mStart + q.mSize) % mCapacity
        inArray == IF firstWritable + requestedLength - 1 > mCapacity - 1
                     THEN mCapacity - 1
                     ELSE firstWritable + requestedLength - 1
        lastWritable == IF firstWritable < q.mStart /\ inArray >= q.mStart
                          THEN q.mStart - 1
                          ELSE inArray
    IN  IF q.mSize = mCapacity \/ requestedLength <= 0
          THEN NoRegion
          ELSE [first |-> firstWritable, length |-> lastWritable - firstWritable + 1]

markAsWritten(q, count) ==
    [mStart |-> q.mStart, mSize |-> q.mSize + count, mData |-> q.mData]

\* A writer stores one record through the pointer to its region.
store(q, slot, e) ==
    [mStart |-> q.mStart, mSize |-> q.mSize, mData |-> [q.mData EXCEPT ![slot] = e]]

\* The record peek() points to; only used when mSize # 0.
peek(q) == q.mData[q.mStart]

dequeue_unwrapped(q) ==
    IF q.mSize = 0 THEN q
    ELSE [mStart |-> q.mStart + 1, mSize |-> q.mSize - 1, mData |-> q.mData]

dequeue(q) ==
    IF q.mSize = 0 THEN q
    ELSE [mStart |-> (q.mStart + 1) % mCapacity, mSize |-> q.mSize - 1, mData |-> q.mData]

\* Whether dequeue() broadcasts mSpaceAvailableCondition, and whether
\* waitForSpace() blocks.
IsFull(q) == q.mSize = mCapacity

\* The slots that hold readable records, oldest first at offset 0.
ReadableSlot(q, offset) == (q.mStart + offset) % mCapacity
Readable(q) == {ReadableSlot(q, k) : k \in 0 .. q.mSize - 1}
-----------------------------------------------------------------------------
(* The threads. *)

CONSTANTS queueCount,     \* sub-HAL devices opened by open_sensors
          MaxReads,       \* the values of poll()'s count argument
          full_to_global, \* global handle of each registered <<sub-HAL, local handle>>
          NoHandle        \* the -1 that stands for an unknown handle

ASSUME QueueCountAssumption == queueCount \in Nat \ {0}
ASSUME MaxReadsAssumption == MaxReads \subseteq Nat \ {0}

Sub == 0 .. queueCount - 1

ASSUME HandleAssumption ==
    /\ NoHandle \notin {full_to_global[f] : f \in DOMAIN full_to_global}
    /\ NoHandle \notin DOMAIN full_to_global
    /\ \A f, g \in DOMAIN full_to_global : full_to_global[f] = full_to_global[g] => f = g
    /\ \A e \in Event : e.meta \in BOOLEAN

VARIABLES
    queues,            \* the SensorEventQueue of each sub-HAL
    writer,            \* where each writerTask is
    region,            \* region lent to each writer
    batch,             \* events the sub-HAL has stored since it was called
    pollPc,            \* where the framework's poll() is
    maxReads, empties, data,  \* parameter, local and result array of poll()
    nextReadIndex,
    waiting_for_data

pollVars == <<pollPc, maxReads, empties, data>>
vars == <<queues, writer, region, batch, pollVars, nextReadIndex, waiting_for_data>>

\* What poll() hands upstream for an event of sub-HAL w.
Upstream == [meta : BOOLEAN,
             handle : {full_to_global[f] : f \in DOMAIN full_to_global} \cup {NoHandle}]

TypeOK ==
    /\ queues \in [Sub -> Queue]
    /\ writer \in [Sub -> {"claim", "space", "poll", "mark"}]
    /\ region \in [Sub -> [first : Slot, length : 0 .. mCapacity]]
    /\ batch \in [Sub -> Seq(Event)]
    /\ pollPc \in {"idle", "scan", "wait", "woken"}
    /\ maxReads \in MaxReads
    /\ empties \in 0 .. queueCount
    /\ data \in Seq(Upstream)
    /\ nextReadIndex \in Sub
    /\ waiting_for_data \in BOOLEAN

Init ==
    /\ queues = [w \in Sub |-> EmptyQueue]
    /\ writer = [w \in Sub |-> "claim"]
    /\ region = [w \in Sub |-> NoRegion]
    /\ batch = [w \in Sub |-> <<>>]
    /\ pollPc = "idle" /\ maxReads \in MaxReads /\ empties = 0 /\ data = <<>>
    /\ nextReadIndex = 0
    /\ waiting_for_data = FALSE

queue_mutex_free == pollPc # "scan"
-----------------------------------------------------------------------------
(* writerTask *)

\* Lock, waitForSpace(), getWritableRegion(), unlock.  A full queue sends the
\* thread to sleep on mSpaceAvailableCondition, which releases the mutex.
writerClaim(w) ==
    /\ writer[w] = "claim" /\ queue_mutex_free
    /\ IF IsFull(queues[w])
         THEN writer' = [writer EXCEPT ![w] = "space"] /\ UNCHANGED region
         ELSE /\ writer' = [writer EXCEPT ![w] = "poll"]
              /\ region' = [region EXCEPT ![w] = getWritableRegion(queues[w], mCapacity)]
    /\ UNCHANGED <<queues, batch, pollVars, nextReadIndex, waiting_for_data>>

\* pthread_cond_wait may return without a broadcast; the loop of
\* waitForSpace() tests the size again.
spaceSpuriousWakeup(w) ==
    /\ writer[w] = "space"
    /\ writer' = [writer EXCEPT ![w] = "claim"]
    /\ UNCHANGED <<queues, region, batch, pollVars, nextReadIndex, waiting_for_data>>

\* The sub-HAL's poll() stores one more event in the region, without the lock.
devicePollStores(w) ==
    /\ writer[w] = "poll"
    /\ Len(batch[w]) < region[w].length
    /\ \E e \in Event :
         /\ queues' = [queues EXCEPT ![w] = store(@, region[w].first + Len(batch[w]), e)]
         /\ batch' = [batch EXCEPT ![w] = Append(@, e)]
    /\ UNCHANGED <<writer, region, pollVars, nextReadIndex, waiting_for_data>>

\* The sub-HAL's poll() returns the number of events it stored, or an error.
devicePollReturns(w) ==
    /\ writer[w] = "poll"
    /\ \/ /\ batch[w] # <<>>
          /\ writer' = [writer EXCEPT ![w] = "mark"]
          /\ UNCHANGED <<region, batch>>
       \/ /\ writer' = [writer EXCEPT ![w] = "claim"]
          /\ batch' = [batch EXCEPT ![w] = <<>>]
          /\ region' = [region EXCEPT ![w] = NoRegion]
    /\ UNCHANGED <<queues, pollVars, nextReadIndex, waiting_for_data>>

\* Lock, markAsWritten(), wake the reader if it waits for data, unlock.
writerMark(w) ==
    /\ writer[w] = "mark" /\ queue_mutex_free
    /\ queues' = [queues EXCEPT ![w] = markAsWritten(@, Len(batch[w]))]
    /\ pollPc' = IF waiting_for_data /\ pollPc = "wait" THEN "woken" ELSE pollPc
    /\ writer' = [writer EXCEPT ![w] = "claim"]
    /\ region' = [region EXCEPT ![w] = NoRegion]
    /\ batch' = [batch EXCEPT ![w] = <<>>]
    /\ UNCHANGED <<maxReads, empties, data, nextReadIndex, waiting_for_data>>
-----------------------------------------------------------------------------
(* sensors_poll_context_t::poll, called by the framework's one poll thread *)

get_global_handle(full_handle) ==
    IF full_handle \in DOMAIN full_to_global THEN full_to_global[full_handle] ELSE NoHandle

copy_event_remap_handle_firstModule(src, sub_index) ==
    [meta |-> src.meta, handle |-> get_global_handle(<<0, src.handle>>)]

\* "handle" is the sensor field of an ordinary event and the inner
\* meta_data.sensor of a meta-data event, whose own sensor field is 0.
copy_event_remap_handle(src, sub_index) ==
    [meta |-> src.meta, handle |-> get_global_handle(<<sub_index, src.handle>>)]

\* poll() tests the sensor field of the copy, which is 0 in a meta-data event.
IsDropped(d) == ~d.meta /\ d.handle = NoHandle

pollCall(n) ==
    /\ pollPc = "idle"
    /\ pollPc' = "scan" /\ maxReads' = n /\ empties' = 0 /\ data' = <<>>
    /\ UNCHANGED <<queues, writer, region, batch, nextReadIndex, waiting_for_data>>

\* The condition of the inner loop.
MoreToScan == empties < queueCount /\ Len(data) < maxReads

pollSkip ==
    /\ pollPc = "scan" /\ MoreToScan
    /\ queues[nextReadIndex].mSize = 0
    /\ empties' = empties + 1
    /\ nextReadIndex' = (nextReadIndex + 1) % queueCount
    /\ UNCHANGED <<queues, writer, region, batch, pollPc, maxReads, data, waiting_for_data>>

pollTake_noBroadcast ==
    LET w == nextReadIndex
        d == copy_event_remap_handle(peek(queues[w]), w)
    IN  /\ pollPc = "scan" /\ MoreToScan
        /\ queues[w].mSize # 0
        /\ empties' = 0
        /\ data' = IF IsDropped(d) THEN data ELSE Append(data, d)
        /\ queues' = [queues EXCEPT ![w] = dequeue(@)]
        /\ nextReadIndex' = (nextReadIndex + 1) % queueCount
        /\ UNCHANGED <<writer, region, batch, pollPc, maxReads, waiting_for_data>>

\* One iteration that finds an event: copy, drop or keep, dequeue.  The
\* dequeue of a full queue broadcasts mSpaceAvailableCondition.
pollTake ==
    LET w == nextReadIndex
        d == copy_event_remap_handle(peek(queues[w]), w)
    IN  /\ pollPc = "scan" /\ MoreToScan
        /\ queues[w].mSize # 0
        /\ empties' = 0
        /\ data' = IF IsDropped(d) THEN data ELSE Append(data, d)
        /\ writer' = IF IsFull(queues[w]) /\ writer[w] = "space"
                       THEN [writer EXCEPT ![w] = "claim"] ELSE writer
        /\ queues' = [queues EXCEPT ![w] = dequeue(@)]
        /\ nextReadIndex' = (nextReadIndex + 1) % queueCount
        /\ UNCHANGED <<region, batch, pollPc, maxReads, waiting_for_data>>

\* Nothing was read: sleep on data_available_cond, which releases the mutex.
pollWait ==
    /\ pollPc = "scan" /\ ~MoreToScan
    /\ data = <<>>
    /\ waiting_for_data' = TRUE
    /\ pollPc' = "wait"
    /\ UNCHANGED <<queues, writer, region, batch, maxReads, empties, data, nextReadIndex>>

dataSpuriousWakeup ==
    /\ pollPc = "wait"
    /\ pollPc' = "woken"
    /\ UNCHANGED <<queues, writer, region, batch, maxReads, empties, data, nextReadIndex,
                   waiting_for_data>>

pollResume_keepEmpties ==
    /\ pollPc = "woken"
    /\ waiting_for_data' = FALSE
    /\ pollPc' = "scan"
    /\ UNCHANGED <<queues, writer, region, batch, maxReads, empties, data, nextReadIndex>>

\* The cond_wait has the mutex again: scan from the start.
pollResume ==
    /\ pollPc = "woken"
    /\ waiting_for_data' = FALSE
    /\ pollPc' = "scan" /\ empties' = 0
    /\ UNCHANGED <<queues, writer, region, batch, maxReads, data, nextReadIndex>>

pollReturn ==
    /\ pollPc = "scan" /\ ~MoreToScan
    /\ data # <<>>
    /\ pollPc' = "idle"
    /\ UNCHANGED <<queues, writer, region, batch, maxReads, empties, data, nextReadIndex,
                   waiting_for_data>>
-----------------------------------------------------------------------------
Writer(w) ==
    writerClaim(w) \/ devicePollStores(w) \/ devicePollReturns(w) \/ writerMark(w)

Poller ==
    \/ \E n \in MaxReads : pollCall(n)
    \/ pollSkip \/ pollTake \/ pollWait \/ pollResume \/ pollReturn

Next ==
    \/ \E w \in Sub : Writer(w) \/ spaceSpuriousWakeup(w)
    \/ Poller \/ dataSpuriousWakeup

Spec == Init /\ [][Next]_vars

(***************************************************************************)
(* The poll thread of the framework calls poll() again and again, and a    *)
(* thread that waits for a mutex which is released again and again gets it *)
(* in the end (strong fairness).  Nothing is assumed of a sub-HAL's poll().*)
(***************************************************************************)
Fairness ==
    /\ WF_vars(Poller)
    /\ \A w \in Sub : SF_vars(writerClaim(w)) /\ SF_vars(writerMark(w))

FairSpec == Spec /\ Fairness
-----------------------------------------------------------------------------
(* Properties *)

\* The region a sub-HAL writes without the lock shares no slot with the
\* records poll() may read under the lock: what makes the scheme "safe while
\* poll() writing in a separate thread" (SensorEventQueue.h).
WriterRegionFree ==
    \A w \in Sub : writer[w] \in {"poll", "mark"} =>
        \A k \in 0 .. region[w].length - 1 : region[w].first + k \notin Readable(queues[w])

\* A sub-HAL is never asked to poll into a buffer of no records.
RegionNotEmpty == \A w \in Sub : writer[w] \in {"poll", "mark"} => region[w].length > 0

\* No wakeup is lost: poll() sleeps only while every queue is empty, and a
\* writer sleeps only while its own queue is full.
NoLostWakeup ==
    /\ pollPc = "wait" => \A w \in Sub : queues[w].mSize = 0
    /\ \A w \in Sub : writer[w] = "space" => IsFull(queues[w])

\* No event with an unknown handle at all goes upstream ("Bad handle, do not
\* pass corrupted event upstream !").  The code lets meta-data events through.
NoBadEvent == \A i \in DOMAIN data : data[i].handle # NoHandle

\* The oldest event of a queue is read in the end, whatever the others do.
OldestIsRead ==
    \A w \in Sub : \A s \in Slot :
        (queues[w].mStart = s /\ queues[w].mSize > 0) ~> (queues[w].mStart # s)

\* A writer blocked on a full queue gets space in the end.
BlockedWriterProceeds == \A w \in Sub : (writer[w] = "space") ~> (writer[w] = "poll")
-----------------------------------------------------------------------------
(* The inductive invariant behind these properties *)

\* A lent region starts right after the readable records, however many poll()
\* has dequeued since it was lent, and fits in the array and in the free space.
RingOK(q, pc, r, b) ==
    /\ pc \in {"poll", "mark"} =>
         /\ r.first = ReadableSlot(q, q.mSize)
         /\ r.length > 0
         /\ r.first + r.length <= mCapacity
         /\ q.mSize + r.length <= mCapacity
         /\ Len(b) <= r.length
         /\ \A k \in 1 .. Len(b) : q.mData[r.first + k - 1] = b[k]
    /\ pc = "mark" => b # <<>>
    /\ pc \in {"claim", "space"} => b = <<>>
    /\ \A k \in 0 .. q.mSize - 1 : q.mData[ReadableSlot(q, k)] \in Event

RingInv == \A w \in Sub : RingOK(queues[w], writer[w], region[w], batch[w])

\* How many positions ago the scan looked at queue w.
Behind(w) == IF w < nextReadIndex THEN nextReadIndex - w ELSE nextReadIndex - w + queueCount

\* While poll() has read nothing, the queues it counted as empty are empty.
ScanInv ==
    /\ pollPc = "wait" => waiting_for_data
    /\ pollPc = "scan" =>
         \A w \in Sub : Behind(w) <= empties => queues[w].mSize = 0

IInv == TypeOK /\ RingInv /\ ScanInv /\ NoLostWakeup
-----------------------------------------------------------------------------
(* Refinement *)

Fifo(q) == [i \in 1 .. q.mSize |-> q.mData[ReadableSlot(q, i - 1)]]

\* The sensor a global handle stands for.
SensorOf(handle) ==
    IF handle = NoHandle THEN NoHandle
    ELSE CHOOSE f \in DOMAIN full_to_global : full_to_global[f] = handle

\* What the queues hold, and what poll() has read so far.
Queued == [w \in Sub |-> Fifo(queues[w])]
Delivered ==
    [i \in DOMAIN data |-> [meta |-> data[i].meta, sensor |-> SensorOf(data[i].handle)]]

Mux == INSTANCE SensorMux WITH
    Capacity <- mCapacity,
    Registered <- DOMAIN full_to_global,
    NoSensor <- NoHandle,
    fifo <- Queued,
    filling <- batch,
    out <- Delivered

\* The rings, lent regions and condition variables of the multi-HAL implement
\* one FIFO per sub-HAL and a poll() that names each event by its sensor.
ImplementsMux == Mux!Spec
=============================================================================
