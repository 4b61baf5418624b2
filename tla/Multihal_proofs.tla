--------------------------- MODULE Multihal_proofs --------------------------
(***************************************************************************)
(* Proofs about the sensor multi-HAL, for every capacity of the queues,    *)
(* every number of sub-HALs and every set of events.                       *)
(***************************************************************************)
EXTENDS Multihal, SequenceTheorems, TLAPS

\* Ring arithmetic: one conditional subtraction instead of the modulus.
LEMMA ModSum ==
    ASSUME NEW C \in Nat \ {0}, NEW a \in 0 .. C - 1, NEW b \in 0 .. C
    PROVE  (a + b) % C = IF a + b < C THEN a + b ELSE a + b - C
  OBVIOUS

\* A shift commutes with the modulus of the ring.
LEMMA ModShift ==
    ASSUME NEW C \in Nat \ {0}, NEW a \in 0 .. C - 1, NEW k \in 0 .. C - 1
    PROVE  (((a + 1) % C) + k) % C = (a + (k + 1)) % C
  OBVIOUS

\* getWritableRegion() on a queue that is not full: a non-empty region that
\* starts after the last readable record and fits in the array and in the
\* free space.
LEMMA WritableRegion ==
    ASSUME NEW q \in Queue, ~IsFull(q)
    PROVE  LET r == getWritableRegion(q, mCapacity)
           IN  /\ r \in [first : Slot, length : 0 .. mCapacity]
               /\ r.first = ReadableSlot(q, q.mSize)
               /\ r.length > 0
               /\ r.first + r.length <= mCapacity
               /\ q.mSize + r.length <= mCapacity
  <1>1. /\ mCapacity \in Nat \ {0} /\ q.mStart \in 0 .. mCapacity - 1
        /\ q.mSize \in 0 .. mCapacity - 1
    BY CapacityAssumption DEF Queue, Slot, IsFull
  <1>a. q.mSize \in 0 .. mCapacity
    BY <1>1
  <1>2. (q.mStart + q.mSize) % mCapacity = IF q.mStart + q.mSize < mCapacity
            THEN q.mStart + q.mSize ELSE q.mStart + q.mSize - mCapacity
    BY <1>1, <1>a, ModSum, Zenon
  <1>3. QED
    BY <1>1, <1>2 DEF getWritableRegion, ReadableSlot, Slot

\* dequeue() of a queue with records drops the oldest one and leaves the place
\* after the last record where it is.
LEMMA Dequeue ==
    ASSUME NEW q \in Queue, q.mSize # 0
    PROVE  /\ dequeue(q) \in Queue
           /\ dequeue(q).mSize = q.mSize - 1
           /\ dequeue(q).mData = q.mData
           /\ ReadableSlot(dequeue(q), dequeue(q).mSize) = ReadableSlot(q, q.mSize)
           /\ \A k \in 0 .. q.mSize - 2 : ReadableSlot(dequeue(q), k) = ReadableSlot(q, k + 1)
  <1>1. /\ mCapacity \in Nat \ {0} /\ q.mStart \in 0 .. mCapacity - 1
        /\ q.mSize \in 1 .. mCapacity
    BY CapacityAssumption DEF Queue, Slot
  <1>2. /\ dequeue(q).mSize = q.mSize - 1
        /\ dequeue(q).mStart = (q.mStart + 1) % mCapacity
        /\ dequeue(q).mData = q.mData
        /\ dequeue(q) \in Queue
    BY <1>1 DEF dequeue, Queue, Slot
  <1>a. 1 \in 0 .. mCapacity
    BY <1>1
  <1>3. (q.mStart + 1) % mCapacity = IF q.mStart + 1 < mCapacity
            THEN q.mStart + 1 ELSE q.mStart + 1 - mCapacity
    BY <1>1, <1>a, ModSum, Zenon
  <1>4. ASSUME NEW k \in 0 .. q.mSize - 1
        PROVE  ReadableSlot(dequeue(q), k) = ReadableSlot(q, k + 1)
    <2>1. (((q.mStart + 1) % mCapacity) + k) % mCapacity = (q.mStart + (k + 1)) % mCapacity
      <3>1. k \in 0 .. mCapacity - 1
        BY <1>1
      <3>2. QED
        BY <1>1, <3>1, ModShift, Zenon
    <2>2. QED BY <1>2, <2>1 DEF ReadableSlot
  <1>5. ReadableSlot(dequeue(q), q.mSize - 1) = ReadableSlot(q, q.mSize)
    BY <1>1, <1>4
  <1>6. QED BY <1>1, <1>2, <1>4, <1>5

\* The slots of a region that starts after the last record and fits in the
\* free space are not readable, and are all different.
LEMMA RegionDisjoint ==
    ASSUME NEW q \in Queue, NEW n \in 0 .. mCapacity, NEW k \in 0 .. n - 1,
           ReadableSlot(q, q.mSize) + n <= mCapacity, q.mSize + n <= mCapacity
    PROVE  /\ ReadableSlot(q, q.mSize) + k \in Slot
           /\ ReadableSlot(q, q.mSize) + k = ReadableSlot(q, q.mSize + k)
           /\ \A j \in 0 .. q.mSize - 1 : ReadableSlot(q, j) # ReadableSlot(q, q.mSize) + k
  <1>1. /\ mCapacity \in Nat \ {0} /\ q.mStart \in 0 .. mCapacity - 1
        /\ q.mSize \in 0 .. mCapacity
    BY CapacityAssumption DEF Queue, Slot
  <1>2. \A j \in 0 .. mCapacity : ReadableSlot(q, j) =
            IF q.mStart + j < mCapacity THEN q.mStart + j ELSE q.mStart + j - mCapacity
    BY <1>1, ModSum, ZenonT(120) DEF ReadableSlot
  <1>3. QED
    BY <1>1, <1>2 DEF Slot
-----------------------------------------------------------------------------
USE DEF queue_mutex_free, pollVars

\* The inductive invariant holds when the context has just been opened.
LEMMA InitIInv == Init => IInv
  <1> SUFFICES ASSUME Init PROVE IInv
    OBVIOUS
  <1> USE DEF Init
  <1>1. TypeOK
    <2>1. EmptyQueue \in Queue
      BY CapacityAssumption DEF EmptyQueue, Queue, Slot
    <2>2. NoRegion \in [first : Slot, length : 0 .. mCapacity]
      BY CapacityAssumption DEF NoRegion, Slot
    <2>3. 0 \in Sub
      BY QueueCountAssumption DEF Sub
    <2>4. QED
      BY <2>1, <2>2, <2>3, QueueCountAssumption DEF TypeOK
  <1>2. RingInv
    BY DEF RingInv, RingOK, EmptyQueue
  <1>3. ScanInv /\ NoLostWakeup
    BY DEF ScanInv, NoLostWakeup
  <1>4. QED BY <1>1, <1>2, <1>3 DEF IInv

\* writerTask claiming a region (or going to sleep) preserves the invariant:
\* the region it is lent starts after the last record.
LEMMA StepClaim ==
    ASSUME IInv, NEW w \in Sub, writerClaim(w)
    PROVE  IInv'
  <1> USE DEF IInv, writerClaim
  <1>1. CASE IsFull(queues[w])
    <2>1. TypeOK'
      BY <1>1 DEF TypeOK
    <2>2. RingInv'
      BY <1>1 DEF TypeOK, RingInv, RingOK
    <2>3. ScanInv' /\ NoLostWakeup'
      BY <1>1 DEF TypeOK, ScanInv, NoLostWakeup, Behind
    <2>4. QED BY <2>1, <2>2, <2>3
  <1>2. CASE ~IsFull(queues[w])
    <2> DEFINE r == getWritableRegion(queues[w], mCapacity)
    <2>1. /\ r \in [first : Slot, length : 0 .. mCapacity]
          /\ r.first = ReadableSlot(queues[w], queues[w].mSize)
          /\ r.length > 0
          /\ r.first + r.length <= mCapacity
          /\ queues[w].mSize + r.length <= mCapacity
      BY <1>2, WritableRegion DEF TypeOK
    <2> HIDE DEF r
    <2>2. region' = [region EXCEPT ![w] = r] /\ writer' = [writer EXCEPT ![w] = "poll"]
      BY <1>2 DEF r
    <2>3. TypeOK'
      BY <2>1, <2>2 DEF TypeOK
    <2>4. RingInv'
      BY <2>1, <2>2 DEF TypeOK, RingInv, RingOK
    <2>5. ScanInv' /\ NoLostWakeup'
      BY <1>2, <2>2 DEF TypeOK, ScanInv, NoLostWakeup, Behind
    <2>6. QED BY <2>3, <2>4, <2>5
  <1>3. QED BY <1>1, <1>2

\* A spurious wakeup of waitForSpace() preserves the invariant.
LEMMA StepSpaceWakeup ==
    ASSUME IInv, NEW w \in Sub, spaceSpuriousWakeup(w)
    PROVE  IInv'
  <1> USE DEF IInv, spaceSpuriousWakeup
  <1>1. TypeOK'
    BY DEF TypeOK
  <1>2. RingInv'
    BY DEF TypeOK, RingInv, RingOK
  <1>3. ScanInv' /\ NoLostWakeup'
    BY DEF TypeOK, ScanInv, NoLostWakeup, Behind
  <1>4. QED BY <1>1, <1>2, <1>3

\* A store of the sub-HAL's poll() touches no readable record.
LEMMA StepStores ==
    ASSUME IInv, NEW w \in Sub, devicePollStores(w)
    PROVE  IInv'
  <1> USE DEF IInv
  <1> DEFINE q == queues[w]
             n == Len(batch[w])
             slot == region[w].first + n
  <1>1. PICK e \in Event :
            /\ queues' = [queues EXCEPT ![w] = store(q, slot, e)]
            /\ batch' = [batch EXCEPT ![w] = Append(batch[w], e)]
    BY DEF devicePollStores
  <1>2. /\ writer[w] = "poll" /\ n < region[w].length
        /\ UNCHANGED <<writer, region, pollPc, maxReads, empties, data, nextReadIndex,
                       waiting_for_data>>
    BY DEF devicePollStores
  <1>3. /\ q \in Queue /\ batch[w] \in Seq(Event) /\ n \in Nat
        /\ region[w].length \in 0 .. mCapacity /\ n \in 0 .. region[w].length - 1
    BY <1>2 DEF TypeOK
  <1>4. /\ region[w].first = ReadableSlot(q, q.mSize)
        /\ region[w].first + region[w].length <= mCapacity
        /\ q.mSize + region[w].length <= mCapacity
        /\ \A k \in 1 .. n : q.mData[region[w].first + k - 1] = batch[w][k]
        /\ \A k \in 0 .. q.mSize - 1 : q.mData[ReadableSlot(q, k)] \in Event
    BY <1>2 DEF RingInv, RingOK
  <1>5. /\ slot \in Slot
        /\ \A j \in 0 .. q.mSize - 1 : ReadableSlot(q, j) # slot
    BY <1>3, <1>4, RegionDisjoint
  <1> DEFINE q2 == store(q, slot, e)
  <1>6. /\ q2 \in Queue
        /\ q2.mStart = q.mStart /\ q2.mSize = q.mSize
        /\ q2.mData = [q.mData EXCEPT ![slot] = e]
    BY <1>3, <1>5 DEF store, Queue
  <1>7. \A j : ReadableSlot(q2, j) = ReadableSlot(q, j)
    BY <1>6 DEF ReadableSlot
  <1> HIDE DEF q2
  <1>8. queues' = [queues EXCEPT ![w] = q2]
    BY <1>1 DEF q2
  <1>9. TypeOK'
    BY <1>1, <1>2, <1>6, <1>8 DEF TypeOK
  <1>10. RingInv'
    <2> SUFFICES ASSUME NEW v \in Sub
                 PROVE  RingOK(queues'[v], writer'[v], region'[v], batch'[v])
      BY DEF RingInv
    <2>1. CASE v # w
      BY <1>1, <1>2, <1>8, <2>1 DEF TypeOK, RingInv
    <2>2. CASE v = w
      <3>1. queues'[w] = q2 /\ batch'[w] = Append(batch[w], e)
        BY <1>1, <1>8 DEF TypeOK
      <3>2. ASSUME NEW k \in 1 .. n + 1
            PROVE  q2.mData[region[w].first + k - 1] = Append(batch[w], e)[k]
        <4>1. region[w].first \in Nat
          BY DEF TypeOK, Slot
        <4>2. CASE k = n + 1
          BY <1>3, <1>5, <1>6, <4>1, <4>2 DEF Queue
        <4>3. CASE k # n + 1
          <5>1. k \in 1 .. n /\ Append(batch[w], e)[k] = batch[w][k]
            BY <1>3, <4>3
          <5>2. region[w].first + k - 1 # slot
            BY <1>3, <4>1, <5>1
          <5>3. region[w].first + k - 1 \in Slot
            BY <1>3, <1>4, <4>1, <5>1, CapacityAssumption, SMTT(120) DEF Slot
          <5>4. QED BY <1>3, <1>4, <1>6, <5>1, <5>2, <5>3 DEF Queue
        <4>4. QED BY <4>2, <4>3
      <3>3. \A k \in 0 .. q2.mSize - 1 : q2.mData[ReadableSlot(q2, k)] \in Event
        BY <1>3, <1>4, <1>5, <1>6, <1>7 DEF Queue
      <3>4. Len(Append(batch[w], e)) = n + 1
        BY <1>3
      <3>5. writer'[w] = "poll" /\ region'[w] = region[w] /\ region[w].length > 0
        BY <1>2, <1>3
      <3>6. region[w].first = ReadableSlot(q2, q2.mSize) /\ n + 1 <= region[w].length
        BY <1>3, <1>4, <1>6, <1>7
      <3> HIDE DEF q, n, slot
      <3>7. RingOK(q2, "poll", region[w], Append(batch[w], e))
        BY <1>4, <1>6, <3>2, <3>3, <3>4, <3>5, <3>6 DEF RingOK
      <3>8. QED
        BY <2>2, <3>1, <3>5, <3>7
    <2>3. QED BY <2>1, <2>2
  <1>11. ScanInv' /\ NoLostWakeup'
    BY <1>2, <1>6, <1>8 DEF TypeOK, ScanInv, NoLostWakeup, Behind, IsFull
  <1>12. QED BY <1>9, <1>10, <1>11

\* The return of the sub-HAL's poll() preserves the invariant.
LEMMA StepReturns ==
    ASSUME IInv, NEW w \in Sub, devicePollReturns(w)
    PROVE  IInv'
  <1> USE DEF IInv, devicePollReturns
  <1>1. TypeOK'
    <2>1. NoRegion \in [first : Slot, length : 0 .. mCapacity] /\ <<>> \in Seq(Event)
      BY CapacityAssumption DEF NoRegion, Slot
    <2>2. CASE writer' = [writer EXCEPT ![w] = "mark"] /\ UNCHANGED <<region, batch>>
      BY <2>2 DEF TypeOK
    <2>3. CASE writer' = [writer EXCEPT ![w] = "claim"]
      BY <2>1, <2>3, ZenonT(120) DEF TypeOK
    <2>4. QED BY <2>2, <2>3
  <1>2. RingInv'
    <2>1. CASE /\ batch[w] # <<>>
               /\ writer' = [writer EXCEPT ![w] = "mark"] /\ UNCHANGED <<region, batch>>
      BY <2>1 DEF TypeOK, RingInv, RingOK
    <2>2. CASE /\ writer' = [writer EXCEPT ![w] = "claim"]
               /\ batch' = [batch EXCEPT ![w] = <<>>]
               /\ region' = [region EXCEPT ![w] = NoRegion]
      BY <2>2 DEF TypeOK, RingInv, RingOK
    <2>3. QED BY <2>1, <2>2
  <1>3. ScanInv' /\ NoLostWakeup'
    BY DEF TypeOK, ScanInv, NoLostWakeup, Behind
  <1>4. QED BY <1>1, <1>2, <1>3

\* markAsWritten() makes exactly the stored records readable, and its
\* broadcast leaves no reader asleep beside a non-empty queue.
LEMMA StepMark ==
    ASSUME IInv, NEW w \in Sub, writerMark(w)
    PROVE  IInv'
  <1> USE DEF IInv
  <1> DEFINE q == queues[w]
             n == Len(batch[w])
             q2 == markAsWritten(q, n)
  <1>1. /\ writer[w] = "mark" /\ pollPc # "scan"
        /\ queues' = [queues EXCEPT ![w] = q2]
        /\ pollPc' = IF waiting_for_data /\ pollPc = "wait" THEN "woken" ELSE pollPc
        /\ writer' = [writer EXCEPT ![w] = "claim"]
        /\ region' = [region EXCEPT ![w] = NoRegion]
        /\ batch' = [batch EXCEPT ![w] = <<>>]
        /\ UNCHANGED <<maxReads, empties, data, nextReadIndex, waiting_for_data>>
    BY DEF writerMark
  <1>2. /\ q \in Queue /\ batch[w] \in Seq(Event) /\ n \in Nat
        /\ mCapacity \in Nat \ {0} /\ q.mSize \in 0 .. mCapacity
    BY CapacityAssumption DEF TypeOK, Queue
  <1>3. /\ region[w].first = ReadableSlot(q, q.mSize)
        /\ region[w].first + region[w].length <= mCapacity
        /\ q.mSize + region[w].length <= mCapacity /\ n <= region[w].length
        /\ \A k \in 1 .. n : q.mData[region[w].first + k - 1] = batch[w][k]
        /\ \A k \in 0 .. q.mSize - 1 : q.mData[ReadableSlot(q, k)] \in Event
        /\ region[w].length \in 0 .. mCapacity
    BY <1>1 DEF RingInv, RingOK, TypeOK
  <1>4. /\ q2 \in Queue /\ q2.mSize = q.mSize + n /\ q2.mStart = q.mStart
        /\ q2.mData = q.mData
    BY <1>2, <1>3 DEF markAsWritten, Queue
  <1>5. \A j : ReadableSlot(q2, j) = ReadableSlot(q, j)
    BY <1>4 DEF ReadableSlot
  <1> HIDE DEF q2
  <1>6. ASSUME NEW k \in 0 .. q2.mSize - 1
        PROVE  q2.mData[ReadableSlot(q2, k)] \in Event
    <2>1. CASE k < q.mSize
      BY <1>2, <1>3, <1>4, <1>5, <2>1
    <2>2. CASE k >= q.mSize
      <3> DEFINE j == k - q.mSize
      <3>1. /\ j \in 0 .. region[w].length - 1 /\ j + 1 \in 1 .. n /\ k = q.mSize + j
        <4>1. /\ q.mSize \in Nat /\ n \in Nat /\ region[w].length \in Nat
              /\ k \in 0 .. q.mSize + n - 1 /\ n <= region[w].length
          BY <1>2, <1>3, <1>4
        <4> HIDE DEF q, n
        <4>2. QED BY <2>2, <4>1
      <3> HIDE DEF j
      <3>2. region[w].first + j = ReadableSlot(q, k)
        BY <1>2, <1>3, <3>1, RegionDisjoint, SMTT(120)
      <3>3. q.mData[region[w].first + (j + 1) - 1] = batch[w][j + 1]
        BY <1>3, <3>1
      <3>4. region[w].first + (j + 1) - 1 = region[w].first + j
        BY <3>1 DEF TypeOK, Slot
      <3>5. batch[w][j + 1] \in Event
        BY <1>2, <3>1
      <3>6. QED BY <1>4, <1>5, <3>2, <3>3, <3>4, <3>5
    <2>3. QED BY <1>2, <1>4, <2>1, <2>2
  <1>7. TypeOK'
    <2>1. NoRegion \in [first : Slot, length : 0 .. mCapacity] /\ <<>> \in Seq(Event)
      BY CapacityAssumption DEF NoRegion, Slot
    <2>2. QED BY <1>1, <1>4, <2>1 DEF TypeOK
  <1>8. RingInv'
    <2> SUFFICES ASSUME NEW v \in Sub
                 PROVE  RingOK(queues'[v], writer'[v], region'[v], batch'[v])
      BY DEF RingInv
    <2>1. CASE v # w
      BY <1>1, <2>1 DEF TypeOK, RingInv
    <2>2. CASE v = w
      <3>1. queues'[v] = q2 /\ writer'[v] = "claim" /\ batch'[v] = <<>>
        BY <1>1, <2>2 DEF TypeOK
      <3>2. QED BY <1>6, <3>1 DEF RingOK
    <2>3. QED BY <2>1, <2>2
  <1>9. ScanInv' /\ NoLostWakeup'
    <2>1. pollPc' \notin {"scan", "wait"}
      BY <1>1 DEF ScanInv
    <2>2. \A v \in Sub : writer'[v] = "space" => IsFull(queues'[v])
      BY <1>1 DEF TypeOK, NoLostWakeup
    <2>3. QED BY <2>1, <2>2 DEF ScanInv, NoLostWakeup
  <1>10. QED BY <1>7, <1>8, <1>9

\* A new call of poll() preserves the invariant.
LEMMA StepPollCall ==
    ASSUME IInv, NEW n \in MaxReads, pollCall(n)
    PROVE  IInv'
  <1> USE DEF IInv, pollCall
  <1>1. TypeOK'
    BY QueueCountAssumption DEF TypeOK
  <1>2. RingInv'
    BY DEF RingInv
  <1>3. ScanInv' /\ NoLostWakeup'
    BY QueueCountAssumption DEF TypeOK, ScanInv, NoLostWakeup, Behind, Sub
  <1>4. QED BY <1>1, <1>2, <1>3

\* Passing over an empty queue counts it among the empties.
LEMMA StepSkip ==
    ASSUME IInv, pollSkip
    PROVE  IInv'
  <1> USE DEF IInv, pollSkip
  <1>1. nextReadIndex' = IF nextReadIndex + 1 < queueCount THEN nextReadIndex + 1 ELSE 0
    <2>1. queueCount \in Nat \ {0} /\ nextReadIndex \in 0 .. queueCount - 1
      BY QueueCountAssumption DEF TypeOK, Sub
    <2>2. QED BY <2>1
  <1>2. TypeOK'
    BY <1>1, QueueCountAssumption, SMTT(120) DEF TypeOK, Sub, MoreToScan
  <1>3. RingInv'
    BY DEF RingInv
  <1>4. ScanInv'
    <2> SUFFICES ASSUME NEW w \in Sub, Behind(w)' <= empties'
                 PROVE  queues[w].mSize = 0
      BY DEF ScanInv
    <2>1. CASE w = nextReadIndex
      BY <2>1
    <2>2. CASE w # nextReadIndex
      <3>1. Behind(w)' = Behind(w) + 1
        <4>1. /\ queueCount \in Nat \ {0} /\ nextReadIndex \in 0 .. queueCount - 1
              /\ w \in 0 .. queueCount - 1
          BY QueueCountAssumption DEF TypeOK, Sub
        <4>2. CASE nextReadIndex + 1 < queueCount
          <5>1. nextReadIndex' = nextReadIndex + 1
            BY <1>1, <4>2
          <5>2. QED BY <2>2, <4>1, <4>2, <5>1 DEF Behind
        <4>3. CASE ~(nextReadIndex + 1 < queueCount)
          <5>1. nextReadIndex' = 0 /\ nextReadIndex = queueCount - 1
            BY <1>1, <4>1, <4>3
          <5>2. QED BY <2>2, <4>1, <5>1 DEF Behind
        <4>4. QED BY <4>2, <4>3
      <3>2. Behind(w) <= empties
        BY <3>1, QueueCountAssumption, SMTT(120) DEF TypeOK, Behind, Sub
      <3>3. QED BY <3>2 DEF ScanInv
    <2>3. QED BY <2>1, <2>2
  <1>5. NoLostWakeup'
    BY DEF NoLostWakeup
  <1>6. QED BY <1>2, <1>3, <1>4, <1>5

\* Dequeuing moves the readable records away from a lent region, and its
\* broadcast leaves no writer asleep beside a queue with space.
LEMMA StepTake ==
    ASSUME IInv, pollTake
    PROVE  IInv'
  <1> USE DEF IInv
  <1> DEFINE w == nextReadIndex
             q == queues[w]
             d == copy_event_remap_handle(peek(q), w)
  <1>1. /\ pollPc = "scan" /\ MoreToScan /\ q.mSize # 0
        /\ empties' = 0
        /\ data' = IF IsDropped(d) THEN data ELSE Append(data, d)
        /\ writer' = IF IsFull(q) /\ writer[w] = "space"
                       THEN [writer EXCEPT ![w] = "claim"] ELSE writer
        /\ queues' = [queues EXCEPT ![w] = dequeue(q)]
        /\ nextReadIndex' = (nextReadIndex + 1) % queueCount
        /\ UNCHANGED <<region, batch, pollPc, maxReads, waiting_for_data>>
    BY DEF pollTake
  <1>2. nextReadIndex' \in Sub /\ w \in Sub /\ q \in Queue
    <2>1. queueCount \in Nat \ {0} /\ nextReadIndex \in 0 .. queueCount - 1
      BY QueueCountAssumption DEF TypeOK, Sub
    <2>2. QED BY <1>1, <2>1, SMTT(120) DEF TypeOK, Sub
  <1>3. /\ dequeue(q) \in Queue
        /\ dequeue(q).mSize = q.mSize - 1
        /\ dequeue(q).mData = q.mData
        /\ ReadableSlot(dequeue(q), dequeue(q).mSize) = ReadableSlot(q, q.mSize)
        /\ \A k \in 0 .. q.mSize - 2 : ReadableSlot(dequeue(q), k) = ReadableSlot(q, k + 1)
    BY <1>1, <1>2, Dequeue
  <1>4. q.mSize \in 1 .. mCapacity /\ mCapacity \in Nat \ {0}
    BY <1>1, <1>2, CapacityAssumption, SMTT(120) DEF Queue
  <1>5. d \in Upstream
    <2>1. ReadableSlot(q, 0) = q.mStart
      <3>1. q.mStart \in 0 .. mCapacity - 1
        BY <1>2, SMTT(120) DEF Queue, Slot
      <3> HIDE DEF q
      <3>2. QED BY <1>4, <3>1 DEF ReadableSlot
    <2>2. peek(q) \in Event
      BY <1>2, <1>4, <2>1 DEF RingInv, RingOK, peek
    <2>3. QED
      BY <2>2, HandleAssumption DEF Upstream, copy_event_remap_handle, get_global_handle
  <1> HIDE DEF d
  <1>6. TypeOK'
    <2>1. data' \in Seq(Upstream)
      BY <1>1, <1>5 DEF TypeOK
    <2>2. QED BY <1>1, <1>2, <1>3, <2>1, QueueCountAssumption, SMTT(120) DEF TypeOK
  <1>7. ASSUME NEW v \in Sub
        PROVE  RingOK(queues'[v], writer'[v], region'[v], batch'[v])
    <2>1. CASE v # w
      BY <1>1, <2>1, SMTT(120) DEF TypeOK, RingInv
    <2>2. CASE v = w
      <3> DEFINE q2 == dequeue(q)
      <3> HIDE DEF q2
      <3>1. queues'[w] = q2
        BY <1>1, <1>2, SMTT(120) DEF TypeOK, q2
      <3>2. ASSUME NEW k \in 0 .. q2.mSize - 1
            PROVE  q2.mData[ReadableSlot(q2, k)] \in Event
        <4>1. k + 1 \in 0 .. q.mSize - 1 /\ ReadableSlot(q2, k) = ReadableSlot(q, k + 1)
          BY <1>3, <1>4 DEF q2
        <4>2. QED BY <1>2, <1>3, <4>1 DEF RingInv, RingOK, q2
      <3>3. /\ q2.mSize = q.mSize - 1 /\ q2.mData = q.mData
            /\ ReadableSlot(q2, q2.mSize) = ReadableSlot(q, q.mSize)
        BY <1>3 DEF q2
      <3>4. RingOK(q, writer[w], region[w], batch[w])
        BY <1>2 DEF RingInv
      <3>5. region[w].length \in Nat
        BY <1>2, CapacityAssumption, SMTT(120) DEF TypeOK
      <3>6. RingOK(q2, writer[w], region[w], batch[w])
        BY <1>4, <3>2, <3>3, <3>4, <3>5, SMTT(120) DEF RingOK
      <3>7. RingOK(q2, "claim", region[w], batch[w]) \/ writer'[w] = writer[w]
        BY <1>1, <3>6 DEF RingOK
      <3>8. QED
        BY <1>1, <1>2, <2>2, <3>1, <3>6, <3>7 DEF TypeOK, RingOK
    <2>3. QED BY <2>1, <2>2
  <1>8. ScanInv'
    BY <1>1, <1>2, QueueCountAssumption DEF TypeOK, ScanInv, Behind, Sub
  <1>9. NoLostWakeup'
    BY <1>1, <1>2 DEF TypeOK, NoLostWakeup
  <1>10. QED BY <1>6, <1>7, <1>8, <1>9 DEF RingInv

\* poll() goes to sleep only after a full round of empty queues.
LEMMA StepWait ==
    ASSUME IInv, pollWait
    PROVE  IInv'
  <1> USE DEF IInv, pollWait
  <1>1. TypeOK'
    BY DEF TypeOK
  <1>2. RingInv'
    BY DEF RingInv
  <1>3. \A w \in Sub : queues[w].mSize = 0
    <2>1. empties = queueCount
      BY MaxReadsAssumption, QueueCountAssumption DEF TypeOK, MoreToScan
    <2>2. \A w \in Sub : Behind(w) <= queueCount
      BY QueueCountAssumption DEF TypeOK, Behind, Sub
    <2>3. QED BY <2>1, <2>2 DEF ScanInv
  <1>4. ScanInv' /\ NoLostWakeup'
    BY <1>3 DEF ScanInv, NoLostWakeup
  <1>5. QED BY <1>1, <1>2, <1>4

\* The remaining steps of poll(), and stuttering, preserve the invariant.
LEMMA StepPollOther ==
    ASSUME IInv, dataSpuriousWakeup \/ pollResume \/ pollReturn \/ UNCHANGED vars
    PROVE  IInv'
  <1> USE DEF IInv
  <1>1. CASE dataSpuriousWakeup
    BY <1>1 DEF dataSpuriousWakeup, TypeOK, RingInv, ScanInv, NoLostWakeup
  <1>2. CASE pollResume
    <2>0. empties' \in 0 .. queueCount
      BY <1>2, QueueCountAssumption DEF pollResume
    <2>1. TypeOK' /\ RingInv' /\ NoLostWakeup'
      BY <1>2, <2>0 DEF pollResume, TypeOK, RingInv, NoLostWakeup
    <2>2. ScanInv'
      BY <1>2, QueueCountAssumption DEF pollResume, TypeOK, ScanInv, Behind, Sub
    <2>3. QED BY <2>1, <2>2
  <1>3. CASE pollReturn
    BY <1>3 DEF pollReturn, TypeOK, RingInv, ScanInv, NoLostWakeup
  <1>4. CASE UNCHANGED vars
    BY <1>4 DEF vars, TypeOK, RingInv, ScanInv, NoLostWakeup, Behind
  <1>5. QED BY <1>1, <1>2, <1>3, <1>4

\* Every step of the multi-HAL preserves the invariant.
LEMMA NextIInv == IInv /\ [Next]_vars => IInv'
  <1> SUFFICES ASSUME IInv, [Next]_vars
               PROVE  IInv'
    OBVIOUS
  <1>1. ASSUME NEW w \in Sub, Writer(w) \/ spaceSpuriousWakeup(w)
        PROVE  IInv'
    BY <1>1, StepClaim, StepStores, StepReturns, StepMark, StepSpaceWakeup DEF Writer
  <1>2. CASE Poller \/ dataSpuriousWakeup
    BY <1>2, StepPollCall, StepSkip, StepTake, StepWait, StepPollOther DEF Poller
  <1>3. CASE UNCHANGED vars
    BY <1>3, StepPollOther
  <1>4. QED BY <1>1, <1>2, <1>3 DEF Next

\* The inductive invariant holds in every reachable state, for every capacity,
\* every number of sub-HALs and every handle table.
THEOREM InductiveInvariant == Spec => []IInv
  <1>1. QED BY InitIInv, NextIInv, PTL DEF Spec

\* Every variable of the multi-HAL keeps its type; in particular the ring
\* indices stay inside the array and mSize between zero and the capacity.
THEOREM TypeCorrect == Spec => []TypeOK
  <1>1. IInv => TypeOK
    BY DEF IInv
  <1>2. QED BY <1>1, InductiveInvariant, PTL

\* A sub-HAL that writes its region without queue_mutex never touches a
\* record that poll() may read.
THEOREM RegionsAreFree == Spec => []WriterRegionFree
  <1>1. IInv => WriterRegionFree
    <2> SUFFICES ASSUME IInv, NEW w \in Sub, writer[w] \in {"poll", "mark"},
                        NEW k \in 0 .. region[w].length - 1
                 PROVE  region[w].first + k \notin Readable(queues[w])
      BY SMTT(120) DEF WriterRegionFree
    <2>1. /\ queues[w] \in Queue /\ region[w].length \in 0 .. mCapacity
          /\ region[w].first = ReadableSlot(queues[w], queues[w].mSize)
          /\ region[w].first + region[w].length <= mCapacity
          /\ queues[w].mSize + region[w].length <= mCapacity
      BY SMTT(120) DEF IInv, TypeOK, RingInv, RingOK
    <2>2. \A j \in 0 .. queues[w].mSize - 1 :
             ReadableSlot(queues[w], j) # region[w].first + k
      BY <2>1, RegionDisjoint
    <2>3. QED BY <2>2 DEF Readable
  <1>2. QED BY <1>1, InductiveInvariant, PTL

\* poll() sleeps only while every queue is empty and a writer only while its
\* queue is full: no broadcast of either condition variable is missed.
THEOREM WakeupsAreKept == Spec => []NoLostWakeup
  <1>1. IInv => NoLostWakeup
    BY DEF IInv
  <1>2. QED BY <1>1, InductiveInvariant, PTL
-----------------------------------------------------------------------------
(* The multi-HAL implements SensorMux *)

\* The records of a queue are a sequence of as many events as mSize says.
LEMMA FifoSeq ==
    ASSUME NEW q, q.mSize \in Nat
    PROVE  /\ Len(Fifo(q)) = q.mSize
           /\ \A S : (\A k \in 0 .. q.mSize - 1 : q.mData[ReadableSlot(q, k)] \in S)
                        => Fifo(q) \in Seq(S)
  BY SMTT(120) DEF Fifo

\* store() beside the readable region leaves the records as they are.
LEMMA FifoStore ==
    ASSUME NEW q \in Queue, NEW slot \in Slot, NEW e,
           \A j \in 0 .. q.mSize - 1 : ReadableSlot(q, j) # slot
    PROVE  Fifo(store(q, slot, e)) = Fifo(q)
  <1>1. q.mSize \in Nat /\ q.mData \in [Slot -> Event \cup {Indeterminate}]
    BY CapacityAssumption DEF Queue
  <1>2. \A k \in 0 .. q.mSize - 1 : ReadableSlot(q, k) \in Slot
    BY CapacityAssumption DEF Queue, ReadableSlot, Slot
  <1>3. QED
    BY <1>1, <1>2 DEF Fifo, store, ReadableSlot

\* markAsWritten() appends the records that were stored in the lent region.
LEMMA FifoMark ==
    ASSUME NEW q \in Queue, NEW r \in [first : Slot, length : 0 .. mCapacity],
           NEW b \in Seq(Event), RingOK(q, "mark", r, b)
    PROVE  Fifo(markAsWritten(q, Len(b))) = Fifo(q) \o b
  <1> DEFINE n == Len(b)
             q2 == markAsWritten(q, n)
  <1>1. /\ q.mSize \in Nat /\ n \in Nat
        /\ q2.mSize = q.mSize + n /\ q2.mData = q.mData
        /\ \A k : ReadableSlot(q2, k) = ReadableSlot(q, k)
    BY CapacityAssumption DEF Queue, markAsWritten, ReadableSlot
  <1> HIDE DEF n, q2
  <1>2. /\ Len(Fifo(q)) = q.mSize /\ Len(Fifo(q2)) = q.mSize + n
        /\ Fifo(q) \in Seq(Event)
    <2>1. q2.mSize \in Nat
      BY <1>1
    <2>2. Len(Fifo(q)) = q.mSize /\ Len(Fifo(q2)) = q2.mSize
      BY <1>1, <2>1, FifoSeq
    <2>3. \A k \in 0 .. q.mSize - 1 : q.mData[ReadableSlot(q, k)] \in Event
      BY DEF RingOK
    <2>4. QED BY <1>1, <2>2, <2>3, FifoSeq
  <1>3. ASSUME NEW i \in 1 .. q.mSize + n
        PROVE  Fifo(q2)[i] = (Fifo(q) \o b)[i]
    <2>1. Fifo(q2)[i] = q.mData[ReadableSlot(q, i - 1)]
      BY <1>1, SMTT(120) DEF Fifo
    <2>2. CASE i <= q.mSize
      BY <1>1, <1>2, <2>1, <2>2 DEF Fifo
    <2>3. CASE i > q.mSize
      <3> DEFINE k == i - q.mSize
      <3>1. k \in 1 .. n /\ k - 1 \in 0 .. n - 1 /\ k - 1 \in 0 .. r.length - 1
            /\ r.length \in 0 .. mCapacity
        BY <1>1, <2>3, CapacityAssumption, SMTT(120) DEF RingOK, n
      <3>2. ReadableSlot(q, q.mSize) + (k - 1) = ReadableSlot(q, q.mSize + (k - 1))
        BY <3>1, RegionDisjoint DEF RingOK
      <3>3. q.mData[r.first + k - 1] = b[k]
        BY <3>1 DEF RingOK, n
      <3>4. r.first + k - 1 = ReadableSlot(q, q.mSize) + (k - 1) /\ q.mSize + (k - 1) = i - 1
        <4>1. r.first = ReadableSlot(q, q.mSize) /\ r.first \in Int
          BY CapacityAssumption DEF RingOK, Slot
        <4>2. q.mSize \in Int /\ i \in Int
          BY <1>1
        <4>3. ASSUME NEW x \in Int, NEW y \in Int, NEW z \in Int
              PROVE  x + (z - y) - 1 = x + ((z - y) - 1) /\ y + ((z - y) - 1) = z - 1
          OBVIOUS
        <4>4. QED BY <4>1, <4>2, <4>3, Zenon
      <3>5. (Fifo(q) \o b)[i] = b[k]
        BY <1>1, <1>2, <2>3, SMTT(120) DEF n
      <3>6. QED BY <2>1, <3>2, <3>3, <3>4, <3>5
    <2>4. i <= q.mSize \/ i > q.mSize
      BY <1>1
    <2>5. QED BY <2>2, <2>3, <2>4, Zenon
  <1>4. Fifo(q2) \in Seq(Event)
    <2>1. ASSUME NEW k \in 0 .. q2.mSize - 1
          PROVE  q2.mData[ReadableSlot(q2, k)] \in Event
      <3>1. k + 1 \in 1 .. q.mSize + n /\ Fifo(q2)[k + 1] = q2.mData[ReadableSlot(q2, k)]
        BY <1>1 DEF Fifo
      <3>2. (Fifo(q) \o b)[k + 1] \in Event
        BY <1>1, <1>2, <3>1 DEF n
      <3>3. Fifo(q2)[k + 1] \in Event
        BY <1>3, <3>1, <3>2, Zenon
      <3>4. QED BY <3>1, <3>3, Zenon
    <2>2. q2.mSize \in Nat
      BY <1>1
    <2>3. QED BY <2>1, <2>2, FifoSeq, Zenon
  <1>5. /\ Fifo(q) \o b \in Seq(Event) /\ Len(Fifo(q) \o b) = q.mSize + n
    BY <1>2, SMTT(120) DEF n
  <1>6. Fifo(q2) = Fifo(q) \o b
    BY <1>2, <1>3, <1>4, <1>5, SeqEqual, SMTT(120)
  <1>7. QED BY <1>6 DEF q2, n

\* dequeue() removes the head of the sequence, which is what peek() shows.
LEMMA FifoDequeue ==
    ASSUME NEW q \in Queue, q.mSize # 0
    PROVE  /\ Fifo(q) # <<>> /\ Head(Fifo(q)) = peek(q)
           /\ Fifo(dequeue(q)) = Tail(Fifo(q))
  <1>1. /\ q.mSize \in Nat \ {0} /\ q.mStart \in 0 .. mCapacity - 1 /\ mCapacity \in Nat \ {0}
    BY CapacityAssumption DEF Queue, Slot
  <1>2. ReadableSlot(q, 0) = q.mStart
    BY <1>1 DEF ReadableSlot
  <1>3. Fifo(q) # <<>> /\ Head(Fifo(q)) = peek(q)
    BY <1>1, <1>2 DEF Fifo, peek
  <1>4. Fifo(dequeue(q)) = Tail(Fifo(q))
    <2> DEFINE q2 == dequeue(q)
    <2>1. /\ q2.mSize = q.mSize - 1 /\ q2.mData = q.mData
          /\ \A k \in 0 .. q.mSize - 2 : ReadableSlot(q2, k) = ReadableSlot(q, k + 1)
      BY Dequeue
    <2> HIDE DEF q2
    <2>2. \A i \in 1 .. q2.mSize : q2.mData[ReadableSlot(q2, i - 1)] = Fifo(q)[i + 1]
      BY <1>1, <2>1, SMTT(120) DEF Fifo
    <2> DEFINE S == {q.mData[ReadableSlot(q, k)] : k \in 0 .. q.mSize - 1}
    <2>3. Fifo(q) \in Seq(S) /\ Len(Fifo(q)) = q.mSize /\ Fifo(q) # <<>>
      BY <1>1, <1>3, FifoSeq
    <2>a. \A k \in 0 .. q2.mSize - 1 : q2.mData[ReadableSlot(q2, k)] \in S
      BY <1>1, <2>1
    <2> HIDE DEF S
    <2>b. Fifo(q2) \in Seq(S) /\ Len(Fifo(q2)) = q.mSize - 1
      <3>1. q2.mSize \in Nat
        BY <1>1, <2>1
      <3>2. QED BY <2>1, <2>a, <3>1, FifoSeq
    <2>4. /\ Tail(Fifo(q)) \in Seq(S) /\ Len(Tail(Fifo(q))) = q.mSize - 1
          /\ \A i \in 1 .. q.mSize - 1 : Tail(Fifo(q))[i] = Fifo(q)[i + 1]
      BY <1>1, <2>3, HeadTailProperties
    <2>c. \A i \in 1 .. q.mSize - 1 : Fifo(q2)[i] = Tail(Fifo(q))[i]
      BY <1>1, <2>1, <2>2, <2>4 DEF Fifo
    <2>5. Fifo(q2) = Tail(Fifo(q))
      BY <2>b, <2>4, <2>c, SeqEqual
    <2>6. QED BY <2>5 DEF q2
  <1>5. QED BY <1>3, <1>4

\* A global handle stands for the one sensor it was assigned to.
LEMMA SensorOfHandle ==
    ASSUME NEW f
    PROVE  SensorOf(get_global_handle(f)) =
             IF f \in DOMAIN full_to_global THEN f ELSE NoHandle
  BY HandleAssumption DEF SensorOf, get_global_handle

\* Nothing is queued, stored or delivered at first.
LEMMA MuxInit == Init => Mux!Init
  <1> SUFFICES ASSUME Init PROVE Mux!Init
    OBVIOUS
  <1>1. Fifo(EmptyQueue) = <<>>
    BY DEF Fifo, EmptyQueue
  <1>2. Queued = [w \in Sub |-> <<>>]
    BY <1>1 DEF Init, Queued
  <1>3. Delivered = <<>>
    BY DEF Init, Delivered
  <1>4. QED BY <1>2, <1>3 DEF Init, Mux!Init

\* Steps that touch neither records nor batches nor results are no steps of
\* the abstract specification.
LEMMA MuxStutter ==
    ASSUME UNCHANGED <<queues, batch, data>>
    PROVE  UNCHANGED Mux!muxVars
  BY DEF Mux!muxVars, Queued, Delivered

\* A store through the pointer to the lent region is a Store.
LEMMA MuxStore ==
    ASSUME IInv, NEW w \in Sub, devicePollStores(w)
    PROVE  \E e \in Event : Mux!Store(w, e)
  <1> DEFINE q == queues[w]
             slot == region[w].first + Len(batch[w])
  <1>1. PICK e \in Event :
            /\ queues' = [queues EXCEPT ![w] = store(q, slot, e)]
            /\ batch' = [batch EXCEPT ![w] = Append(batch[w], e)]
            /\ UNCHANGED data /\ writer[w] = "poll" /\ Len(batch[w]) < region[w].length
    BY DEF devicePollStores, pollVars
  <1>2. /\ q \in Queue /\ batch[w] \in Seq(Event) /\ queues \in [Sub -> Queue]
        /\ region[w].length \in 0 .. mCapacity /\ RingOK(q, "poll", region[w], batch[w])
    BY <1>1 DEF IInv, TypeOK, RingInv
  <1>3. /\ slot \in Slot /\ \A j \in 0 .. q.mSize - 1 : ReadableSlot(q, j) # slot
    <2>1. Len(batch[w]) \in 0 .. region[w].length - 1
      BY <1>1, <1>2, SMTT(120)
    <2>2. QED BY <1>2, <2>1, RegionDisjoint DEF RingOK
  <1>4. Fifo(store(q, slot, e)) = Fifo(q)
    BY <1>2, <1>3, FifoStore, SMTT(120)
  <1>5. UNCHANGED Queued
    BY <1>1, <1>2, <1>4, SMTT(120) DEF Queued
  <1>6. Len(Queued[w]) + Len(batch[w]) < mCapacity
    <2>1. q.mSize \in Nat /\ Len(Fifo(q)) = q.mSize
      BY <1>2, FifoSeq, CapacityAssumption DEF Queue
    <2>2. QED BY <1>1, <1>2, <2>1, CapacityAssumption, SMTT(120) DEF Queued, RingOK
  <1>7. QED BY <1>1, <1>5, <1>6, ZenonT(120) DEF Mux!Store, Delivered

\* An error of the sub-HAL drops its batch; a count keeps it for the mark.
LEMMA MuxReturns ==
    ASSUME IInv, NEW w \in Sub, devicePollReturns(w)
    PROVE  Mux!Fail(w) \/ UNCHANGED Mux!muxVars
  BY DEF devicePollReturns, Mux!Fail, Mux!muxVars, Queued, Delivered, pollVars

\* markAsWritten() commits the whole batch.
LEMMA MuxCommit ==
    ASSUME IInv, NEW w \in Sub, writerMark(w)
    PROVE  Mux!Commit(w)
  <1> DEFINE q == queues[w]
  <1>1. /\ q \in Queue /\ batch[w] \in Seq(Event) /\ queues \in [Sub -> Queue]
        /\ region[w] \in [first : Slot, length : 0 .. mCapacity]
        /\ RingOK(q, "mark", region[w], batch[w])
    BY SMTT(120) DEF IInv, TypeOK, RingInv, writerMark
  <1>2. Fifo(markAsWritten(q, Len(batch[w]))) = Fifo(q) \o batch[w]
    BY <1>1, FifoMark
  <1>3. Queued' = [Queued EXCEPT ![w] = Queued[w] \o batch[w]]
    BY <1>1, <1>2 DEF Queued, writerMark
  <1>4. batch[w] # <<>>
    BY <1>1 DEF RingOK
  <1>5. QED BY <1>3, <1>4 DEF Mux!Commit, writerMark, Delivered

\* One iteration of poll() takes the head of one queue, and names or drops it
\* as the abstract specification does.
LEMMA MuxTake ==
    ASSUME IInv, pollTake
    PROVE  \E w \in Sub : Mux!Take(w)
  <1> DEFINE w == nextReadIndex
             q == queues[w]
             e == peek(q)
             d == copy_event_remap_handle(e, w)
             a == Mux!Named(w, e)
  <1>1. /\ q.mSize # 0
        /\ data' = IF IsDropped(d) THEN data ELSE Append(data, d)
        /\ queues' = [queues EXCEPT ![w] = dequeue(q)]
        /\ UNCHANGED batch
    BY DEF pollTake
  <1>2. w \in Sub /\ q \in Queue /\ queues \in [Sub -> Queue] /\ data \in Seq(Upstream)
    BY DEF IInv, TypeOK
  <1>3. Queued[w] = Fifo(q) /\ Queued[w] # <<>> /\ Head(Queued[w]) = e
        /\ Queued' = [Queued EXCEPT ![w] = Tail(Queued[w])]
    <2>1. /\ Fifo(q) # <<>> /\ Head(Fifo(q)) = e /\ Fifo(dequeue(q)) = Tail(Fifo(q))
      BY <1>1, <1>2, FifoDequeue
    <2>2. QED BY <1>1, <1>2, <2>1, ZenonT(120) DEF Queued
  <1>4. a.meta = d.meta /\ a.sensor = SensorOf(d.handle)
    BY SensorOfHandle DEF Mux!Named, copy_event_remap_handle
  <1>5. IsDropped(d) <=> (~a.meta /\ a.sensor = NoHandle)
    BY <1>4, HandleAssumption DEF IsDropped, Mux!Named, copy_event_remap_handle, get_global_handle
  <1>6. Delivered' = IF ~a.meta /\ a.sensor = NoHandle THEN Delivered ELSE Append(Delivered, a)
    <2>1. CASE IsDropped(d)
      BY <1>1, <1>5, <2>1 DEF Delivered
    <2>2. CASE ~IsDropped(d)
      <3>1. a = [meta |-> d.meta, sensor |-> SensorOf(d.handle)]
        BY <1>4 DEF Mux!Named
      <3>2. data' = Append(data, d)
        BY <1>1, <2>2
      <3> HIDE DEF d, a
      <3>3. Delivered' = Append(Delivered, [meta |-> d.meta, sensor |-> SensorOf(d.handle)])
        BY <1>2, <3>2 DEF Delivered
      <3>4. QED BY <1>5, <2>2, <3>1, <3>3, SMTT(120)
    <2>3. QED BY <2>1, <2>2
  <1>7. Mux!Take(w)
    BY <1>1, <1>3, <1>6 DEF Mux!Take
  <1>8. QED BY <1>2, <1>7

\* Every step of the multi-HAL is a step of the abstract specification or
\* leaves it alone.
LEMMA MuxNext == IInv /\ [Next]_vars => [Mux!Next]_(Mux!muxVars)
  <1> SUFFICES ASSUME IInv, [Next]_vars
               PROVE  Mux!Next \/ UNCHANGED Mux!muxVars
    BY SMTT(120)
  <1>1. ASSUME NEW w \in Sub, writerClaim(w) \/ spaceSpuriousWakeup(w)
        PROVE  UNCHANGED Mux!muxVars
    BY <1>1, MuxStutter DEF writerClaim, spaceSpuriousWakeup, pollVars
  <1>2. ASSUME NEW w \in Sub, devicePollStores(w) \/ devicePollReturns(w) \/ writerMark(w)
        PROVE  Mux!Next \/ UNCHANGED Mux!muxVars
    BY <1>2, MuxStore, MuxReturns, MuxCommit DEF Mux!Next
  <1>3. ASSUME NEW n \in MaxReads, pollCall(n)
        PROVE  Mux!Next
    <2>1. Delivered' = <<>> /\ UNCHANGED <<Queued, batch>>
      BY <1>3 DEF pollCall, Delivered, Queued
    <2>2. QED BY <2>1 DEF Mux!NewPoll, Mux!Next
  <1>4. CASE pollTake
    BY <1>4, MuxTake DEF Mux!Next
  <1>5. CASE pollSkip \/ pollWait \/ pollResume \/ pollReturn \/ dataSpuriousWakeup
    BY <1>5, MuxStutter DEF pollSkip, pollWait, pollResume, pollReturn, dataSpuriousWakeup
  <1>6. CASE UNCHANGED vars
    BY <1>6, MuxStutter DEF vars, pollVars
  <1>7. QED
    BY <1>1, <1>2, <1>3, <1>4, <1>5, <1>6 DEF Next, Writer, Poller

\* Whatever the threads, the sub-HALs and the condition variables do, the rings
\* deliver each sub-HAL's events once, in order, and under their own sensor.
THEOREM MultihalImplementsMux == Spec => ImplementsMux
  <1>1. QED
    BY MuxInit, MuxNext, InductiveInvariant, PTL DEF Spec, ImplementsMux, Mux!Spec
=============================================================================
