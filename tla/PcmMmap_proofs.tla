--------------------------- MODULE PcmMmap_proofs ---------------------------
(***************************************************************************)
(* Proofs about the mapped ring of tinyalsa, for every size of the ring,   *)
(* of a transfer and of the start threshold: the pointers, which wrap at   *)
(* the boundary, tell what the ring holds.                                 *)
(***************************************************************************)
EXTENDS PcmMmap, TLAPS

\* The boundary is the size of the ring, doubled at least once.  A stream
\* starts when the ring is full, if not earlier.
ConstantsOK ==
    /\ BufferSize \in Nat \ {0} /\ StartThreshold \in 0 .. BufferSize
    /\ boundary \in Nat /\ boundary % BufferSize = 0 /\ boundary > BufferSize
    /\ MaxCount \in Nat /\ Id \in Nat \ {0}

Slot == 0 .. BufferSize - 1
Frame == 0 .. Id - 1

RingTypes ==
    /\ TypeOK
    /\ ring \in [Slot -> Frame] /\ queue \in Seq(Frame) /\ next \in Frame
    /\ mapped \in BOOLEAN /\ prepared \in BOOLEAN /\ running \in BOOLEAN /\ insync \in BOOLEAN
    /\ size > 0 => size <= count

\* When the hardware moves and when the two sides agree on the pointers.
Modes ==
    /\ kernel # "stopped" => running
    /\ running => prepared
    /\ prepared => insync
    /\ dir = "capture" => insync /\ kernel # "xrun"

\* p is n ahead of q, counted round the boundary.
AheadBy(p, q, n) == p = q + n \/ p = q + n - boundary \/ p = q + n + boundary

\* From p on lies what is n places on from q.
OnePlace(p, q, n) == \A j \in Nat : (p + j) % BufferSize = (q + (n + j)) % BufferSize

\* q lies in the ring r from position x on.
Holds(r, x, q) == \A i \in 1 .. Len(q) : r[(x + i - 1) % BufferSize] = q[i]

\* The last n frames of p, of which q are the others, are put into the ring r
\* from y on, which leaves s.
Puts(r, s, y, n, q, p) ==
    /\ Len(p) = Len(q) + n /\ \A i \in 1 .. Len(q) : p[i] = q[i]
    /\ \A j \in 1 .. n : s[(y + (j - 1)) % BufferSize] = p[Len(q) + j]
    /\ \A k \in Slot : (\A j \in 1 .. n : k # (y + (j - 1)) % BufferSize) => s[k] = r[k]

\* The writer is ahead of the reader by the frames in transit, which lie there.
InTransit ==
    IF dir = "playback" THEN AheadBy(appl_ptr, hw_ptr, Len(queue)) /\ Holds(ring, hw_ptr, queue)
    ELSE AheadBy(hw_ptr, appl_ptr, Len(queue)) /\ Holds(ring, appl_ptr, queue)

\* What a playback stream finds free when its own pointer is at zero.
Room == IF hw_ptr + BufferSize >= boundary THEN hw_ptr + BufferSize - boundary ELSE hw_ptr + BufferSize

\* Until a prepare the frames written so far lie at the front of the ring.
Unprepared ==
    /\ Len(queue) = appl_ptr
    /\ \A i \in 1 .. Len(queue) : ring[i - 1] = queue[i]
    /\ insync => hw_ptr = 0
    /\ dir = "capture" => appl_ptr = 0 /\ size = 0
    /\ appl_ptr + size > 0 => Room <= BufferSize /\ appl_ptr + size <= Room

RingInv ==
    /\ RingTypes /\ Modes /\ moved
    /\ insync => InTransit
    /\ ~prepared => Unprepared
-----------------------------------------------------------------------------
(* Ring arithmetic *)

\* The remainder is the one number below the divisor that a multiple of it
\* leaves.
LEMMA Remainder ==
    ASSUME NEW B \in Nat \ {0}, NEW q \in Int, NEW r \in 0 .. B - 1
    PROVE  (q * B + r) % B = r
<1> DEFINE x == q * B + r
           d == x \div B
           m == x % B
<1>1. x \in Int /\ d \in Int /\ m \in 0 .. B - 1 /\ x = d * B + m
  OBVIOUS
<1>2. q * B + r = d * B + m
  BY <1>1
<1> HIDE DEF x, d, m
<1>3. (q - d) * B = m - r
  <2>1. (q - d) * B = q * B - d * B
    BY <1>1
  <2> QED
    BY <1>1, <1>2, <2>1
<1>4. q - d = 0
  <2>1. CASE q - d >= 1
    <3>1. (q - d) * B >= B
      BY <1>1, <2>1
    <3> QED
      BY <1>1, <1>3, <3>1
  <2>2. CASE q - d <= -1
    <3>1. (q - d) * B <= -B
      BY <1>1, <2>2
    <3> QED
      BY <1>1, <1>3, <3>1
  <2> QED
    BY <1>1, <2>1, <2>2
<1>5. m = r
  BY <1>1, <1>3, <1>4
<1> QED
  BY <1>5 DEF m, x

\* What is added to a position may lead past the end of the ring, once.
LEMMA ModStep ==
    ASSUME NEW B \in Nat \ {0}, NEW x \in Nat, NEW i \in 0 .. B
    PROVE  /\ x % B \in 0 .. B - 1
           /\ (x + i) % B = IF (x % B) + i < B THEN (x % B) + i ELSE (x % B) + i - B
<1> DEFINE d == x \div B
           m == x % B
<1>1. d \in Int /\ m \in 0 .. B - 1 /\ x = d * B + m
  OBVIOUS
<1> HIDE DEF d, m
<1>2. CASE m + i < B
  <2>1. m + i \in 0 .. B - 1 /\ x + i = d * B + (m + i)
    BY <1>1, <1>2
  <2> QED
    BY <1>1, <1>2, <2>1, Remainder, SMTT(120) DEF m
<1>3. CASE m + i >= B
  <2>1. (d + 1) * B = d * B + B
    BY <1>1
  <2>2. m + i - B \in 0 .. B - 1 /\ d + 1 \in Int /\ x + i = (d + 1) * B + (m + i - B)
    BY <1>1, <1>3, <2>1
  <2>3. (x + i) % B = m + i - B
    BY <2>2, Remainder
  <2> QED
    BY <1>1, <1>3, <2>3 DEF m
<1> QED
  BY <1>1, <1>2, <1>3

\* Positions that differ by a multiple of its size are one place of the ring.
LEMMA MultipleMod ==
    ASSUME NEW B \in Nat \ {0}, NEW x \in Nat, NEW N \in Nat, N % B = 0
    PROVE  (x + N) % B = x % B
<1> DEFINE d == x \div B
           m == x % B
           k == N \div B
<1>1. d \in Int /\ m \in 0 .. B - 1 /\ x = d * B + m
  OBVIOUS
<1>2. k \in Int /\ N = k * B
  OBVIOUS
<1> HIDE DEF d, m, k
<1>3. (d + k) * B = d * B + k * B
  BY <1>1, <1>2
<1>4. x + N = (d + k) * B + m /\ d + k \in Int
  BY <1>1, <1>2, <1>3
<1>5. (x + N) % B = m
  BY <1>1, <1>4, Remainder, Zenon
<1> QED
  BY <1>5 DEF m

\* The place of a position that is ahead of another by n, counted round the
\* boundary.
LEMMA SamePlace ==
    ASSUME ConstantsOK, NEW p \in Nat, NEW q \in Nat, NEW n \in Nat,
           AheadBy(p, q, n)
    PROVE  OnePlace(p, q, n)
<1> SUFFICES ASSUME NEW j \in Nat PROVE (p + j) % BufferSize = (q + (n + j)) % BufferSize
  BY Zenon DEF OnePlace
<1>1. /\ BufferSize \in Nat \ {0} /\ boundary \in Nat /\ boundary % BufferSize = 0
  BY DEF ConstantsOK
<1> DEFINE a == p + j
           b == q + (n + j)
           N == boundary
<1>2. a \in Nat /\ b \in Nat
  OBVIOUS
<1> HIDE DEF N
<1>3. a = b \/ b = a + N \/ a = b + N
  <2>1. p = q + n \/ p = q + n - N \/ p = q + n + N
    BY DEF N, AheadBy
  <2>2. N \in Nat
    BY <1>1 DEF N
  <2> QED
    BY <2>1, <2>2
<1> HIDE DEF a, b
<1>4. (a + N) % BufferSize = a % BufferSize /\ (b + N) % BufferSize = b % BufferSize
  BY <1>1, <1>2, MultipleMod, Zenon DEF N
<1>5. a % BufferSize = b % BufferSize
  BY <1>3, <1>4, Zenon
<1> QED
  BY <1>5 DEF a, b

\* A pointer that moves on by one, or back to zero at the boundary.
LEMMA MovesOn ==
    ASSUME ConstantsOK, NEW p \in 0 .. boundary - 1
    PROVE  (p + 1) % boundary = IF p + 1 = boundary THEN 0 ELSE p + 1
<1> DEFINE N == boundary
<1>1. N \in Nat \ {0} /\ p \in 0 .. N - 1
  BY DEF ConstantsOK
<1> HIDE DEF N
<1>2. (p + 1) % N = IF p + 1 = N THEN 0 ELSE p + 1
  BY <1>1
<1> QED
  BY <1>2 DEF N

\* Less than a ring apart, two positions are two places.
LEMMA Places ==
    ASSUME ConstantsOK, NEW x \in Nat, NEW i \in 0 .. BufferSize - 1, NEW j \in 0 .. BufferSize - 1
    PROVE  /\ (x + i) % BufferSize \in Slot
           /\ (x + i) % BufferSize = (x + j) % BufferSize => i = j
<1> DEFINE B == BufferSize
           m == x % B
<1>1. B \in Nat \ {0} /\ i \in 0 .. B /\ j \in 0 .. B /\ i < B /\ j < B
  BY DEF ConstantsOK
<1> HIDE DEF B
<1>2. /\ m \in 0 .. B - 1
      /\ (x + i) % B = IF m + i < B THEN m + i ELSE m + i - B
      /\ (x + j) % B = IF m + j < B THEN m + j ELSE m + j - B
  BY <1>1, ModStep, Zenon
<1> HIDE DEF m
<1>3. (x + i) % B \in 0 .. B - 1 /\ ((x + i) % B = (x + j) % B => i = j)
  BY <1>1, <1>2
<1> QED
  BY <1>3 DEF B, Slot
-----------------------------------------------------------------------------
(* What is available *)

\* The least of two numbers.
LEMMA MinOfTwo ==
    ASSUME NEW a \in Int, NEW b \in Int
    PROVE  Min({a, b}) \in {a, b} /\ Min({a, b}) <= a /\ Min({a, b}) <= b
<1>1. \E x \in {a, b} : \A y \in {a, b} : x <= y
  <2>1. CASE a <= b
    BY <2>1
  <2>2. CASE b <= a
    BY <2>2
  <2> QED
    BY <2>1, <2>2
<1> QED
  BY <1>1, Zenon DEF Min

\* The least of four numbers.
LEMMA MinOfFour ==
    ASSUME NEW a \in Int, NEW b \in Int, NEW c \in Int, NEW d \in Int
    PROVE  LET m == Min({a, b, c, d}) IN m \in {a, b, c, d} /\ m <= a /\ m <= b /\ m <= c /\ m <= d
<1> DEFINE S == {a, b, c, d}
<1>1. \E x \in S : \A y \in S : x <= y
  <2>1. CASE a <= b /\ a <= c /\ a <= d
    BY <2>1
  <2>2. CASE b <= a /\ b <= c /\ b <= d
    BY <2>2
  <2>3. CASE c <= a /\ c <= b /\ c <= d
    BY <2>3
  <2>4. CASE d <= a /\ d <= b /\ d <= c
    BY <2>4
  <2> QED
    BY <2>1, <2>2, <2>3, <2>4
<1> QED
  BY <1>1, Zenon DEF Min

\* The types, as numbers.
LEMMA Numbers ==
    ASSUME ConstantsOK, RingTypes
    PROVE  /\ BufferSize \in Nat /\ BufferSize > 0 /\ boundary \in Nat /\ boundary > BufferSize
           /\ hw_ptr \in Nat /\ hw_ptr < boundary /\ appl_ptr \in Nat /\ appl_ptr <= boundary
           /\ Len(queue) \in Nat /\ Len(queue) <= BufferSize
           /\ count \in Int /\ count >= -1 /\ count <= MaxCount /\ MaxCount \in Nat
           /\ size \in Nat /\ size <= MaxCount
  BY DEF ConstantsOK, RingTypes, TypeOK

\* What pcm_mmap_avail says is what is free or filled, and so is a count of
\* pcm_get_htimestamp that fits the buffer.
LEMMA AvailIsTrue ==
    ASSUME ConstantsOK, RingTypes, InTransit
    PROVE  /\ pcm_mmap_avail = IF dir = "playback" THEN BufferSize - Len(queue) ELSE Len(queue)
           /\ pcm_get_htimestamp \in 0 .. BufferSize => pcm_get_htimestamp = pcm_mmap_avail
<1> DEFINE N == boundary
           L == Len(queue)
<1>1. /\ BufferSize \in Nat /\ BufferSize > 0 /\ N \in Nat /\ N > BufferSize
      /\ hw_ptr \in Nat /\ hw_ptr < N /\ appl_ptr \in Nat /\ appl_ptr <= N
      /\ L \in Nat /\ L <= BufferSize
  BY Numbers
<1>2. dir = "playback" \/ dir = "capture"
  BY DEF RingTypes, TypeOK
<1>3. CASE dir = "playback"
  <2>1. appl_ptr = hw_ptr + L \/ appl_ptr = hw_ptr + L - N \/ appl_ptr = hw_ptr + L + N
    BY <1>3 DEF InTransit, AheadBy
  <2>2. /\ pcm_mmap_avail = LET avail == hw_ptr + BufferSize - appl_ptr
                            IN  IF avail < 0 THEN avail + N ELSE IF avail >= N THEN avail - N ELSE avail
        /\ pcm_get_htimestamp = hw_ptr + BufferSize - appl_ptr
    BY <1>3 DEF pcm_mmap_avail, pcm_mmap_playback_avail, pcm_get_htimestamp
  <2> HIDE DEF N, L
  <2>3. pcm_mmap_avail = BufferSize - L
    BY <1>1, <2>1, <2>2
  <2>4. pcm_get_htimestamp \in 0 .. BufferSize => pcm_get_htimestamp = BufferSize - L
    BY <1>1, <2>1, <2>2
  <2> QED
    BY <1>3, <2>3, <2>4 DEF L
<1>4. CASE dir = "capture"
  <2>1. hw_ptr = appl_ptr + L \/ hw_ptr = appl_ptr + L - N \/ hw_ptr = appl_ptr + L + N
    BY <1>4 DEF InTransit, AheadBy
  <2>2. /\ pcm_mmap_avail = LET avail == hw_ptr - appl_ptr IN IF avail < 0 THEN avail + N ELSE avail
        /\ pcm_get_htimestamp = hw_ptr - appl_ptr
    BY <1>4 DEF pcm_mmap_avail, pcm_mmap_capture_avail, pcm_get_htimestamp
  <2> HIDE DEF N, L
  <2>3. pcm_mmap_avail = L
    BY <1>1, <2>1, <2>2
  <2>4. pcm_get_htimestamp \in 0 .. BufferSize => pcm_get_htimestamp = L
    BY <1>1, <2>1, <2>2
  <2> QED
    BY <1>4, <2>3, <2>4 DEF L
<1> QED
  BY <1>2, <1>3, <1>4

\* Before a prepare a playback stream counts from where the hardware was left.
LEMMA AvailUnprepared ==
    ASSUME ConstantsOK, RingTypes, Unprepared, dir = "playback"
    PROVE  pcm_mmap_avail \in Nat /\ Room \in Nat /\ pcm_mmap_avail = Room - appl_ptr
<1> DEFINE N == boundary
<1>1. /\ BufferSize \in Nat /\ BufferSize > 0 /\ N \in Nat /\ N > BufferSize
      /\ hw_ptr \in Nat /\ hw_ptr < N /\ appl_ptr \in Nat /\ appl_ptr <= N /\ size \in Nat
  BY Numbers
<1>2. appl_ptr + size > 0 => Room <= BufferSize /\ appl_ptr + size <= Room
  BY DEF Unprepared
<1>3. /\ pcm_mmap_avail = LET avail == hw_ptr + BufferSize - appl_ptr
                          IN  IF avail < 0 THEN avail + N ELSE IF avail >= N THEN avail - N ELSE avail
      /\ Room = IF hw_ptr + BufferSize >= N THEN hw_ptr + BufferSize - N ELSE hw_ptr + BufferSize
  BY DEF pcm_mmap_avail, pcm_mmap_playback_avail, Room
<1> HIDE DEF N
<1> QED
  BY <1>1, <1>2, <1>3

\* There are never fewer than no frames.
LEMMA AvailIsNat ==
    ASSUME ConstantsOK, RingInv
    PROVE  pcm_mmap_avail \in Nat
<1>1. /\ RingTypes /\ Modes /\ (insync => InTransit) /\ (~prepared => Unprepared)
      /\ (dir = "playback" \/ dir = "capture")
  BY DEF RingInv, RingTypes, TypeOK
<1>2. BufferSize \in Nat /\ Len(queue) \in Nat /\ Len(queue) <= BufferSize
  BY <1>1, Numbers
<1>3. CASE insync
  BY <1>1, <1>2, <1>3, AvailIsTrue
<1>4. CASE ~insync
  BY <1>1, <1>4, AvailUnprepared, Zenon DEF Modes
<1> QED
  BY <1>3, <1>4
-----------------------------------------------------------------------------
(* Transfers begin and end *)

\* What depends on constants only.
LEMMA Fixed == boundary' = boundary /\ Slot' = Slot /\ Frame' = Frame
  BY Zenon DEF boundary, Slot, Frame

\* Where the pointers and the ring stay, so does what they say of each other.
LEMMA RingStays ==
    ASSUME UNCHANGED <<dir, pointers>>
    PROVE  (InTransit => InTransit') /\ Room' = Room
  BY Zenon DEF InTransit, Room, pointers

\* The ring is empty at first.
LEMMA RingStarts ==
    ASSUME ConstantsOK, Init
    PROVE  RingInv
<1>1. RingTypes
  <2>1. 0 \in 0 .. boundary - 1 /\ 0 \in 0 .. boundary /\ -1 \in -1 .. MaxCount /\ 0 \in 0 .. MaxCount
    BY DEF ConstantsOK
  <2>2. 0 \in Frame /\ <<>> \in Seq(Frame) /\ Len(<<>>) <= BufferSize /\ ~(0 > 0)
    BY DEF ConstantsOK, Frame
  <2> QED
    BY <2>1, <2>2, Zenon DEF Init, RingTypes, TypeOK, Slot
<1>2. Modes /\ moved
  BY DEF Init, Modes
<1>3. Len(queue) = 0 /\ appl_ptr = 0 /\ hw_ptr = 0 /\ size = 0
  BY DEF Init
<1>4. InTransit
  BY <1>3 DEF InTransit, AheadBy, Holds
<1>5. Unprepared
  BY <1>3 DEF Unprepared
<1> QED
  BY <1>1, <1>2, <1>4, <1>5 DEF RingInv

\* pcm_mmap_transfer.
LEMMA TransferBegins ==
    ASSUME ConstantsOK, RingInv, NEW n \in 1 .. MaxCount, pcm_mmap_transfer(n)
    PROVE  RingInv'
<1> USE DEF pcm_mmap_transfer, pointers
<1>1. RingTypes'
  BY DEF RingInv, RingTypes, TypeOK, ConstantsOK
<1>2. Modes' /\ moved'
  BY DEF RingInv, Modes
<1>3. insync' => InTransit'
  BY RingStays DEF RingInv
<1>4. ASSUME ~prepared' PROVE Unprepared'
  <2>1. Unprepared /\ UNCHANGED <<dir, queue, ring, insync, hw_ptr, appl_ptr>> /\ size' = 0 /\ Room' = Room
    BY <1>4, RingStays DEF RingInv
  <2>2. appl_ptr \in Nat /\ size \in Nat
    BY Numbers DEF RingInv
  <2>3. (appl_ptr' + size' > 0 => Room <= BufferSize /\ appl_ptr' + size' <= Room)
    <3> SUFFICES ASSUME appl_ptr > 0 PROVE Room <= BufferSize /\ appl_ptr <= Room
      BY <2>1, <2>2
    <3>1. Room <= BufferSize /\ appl_ptr + size <= Room
      BY <2>1, <2>2 DEF Unprepared
    <3>2. Room \in Int
      BY Numbers, SMTT(120) DEF Room, RingInv
    <3> QED
      BY <2>2, <3>1, <3>2
  <2> QED
    BY <2>1, <2>3 DEF Unprepared
<1> QED
  BY <1>1, <1>2, <1>3, <1>4 DEF RingInv

\* pcm_start: after a prepare both sides count from zero, or the frames already
\* written are those that the application's pointer is ahead.
LEMMA Starts ==
    ASSUME ConstantsOK, RingInv, pcm_start
    PROVE  RingInv'
<1>1. /\ prepared' = TRUE /\ UNCHANGED <<dir, mapped, ring, next>> /\ ~running /\ kernel = "stopped"
      /\ \/ running' = running /\ kernel' = kernel /\ count' = -1 /\ size' = 0 /\ moved' = TRUE
         \/ running' = TRUE /\ kernel' = "running" /\ UNCHANGED <<count, size, moved>>
  BY ZenonT(120) DEF pcm_start, Return, RingInv, Modes, RingTypes, TypeOK
<1>2. /\ queue' \in Seq(Frame) /\ Len(queue') <= BufferSize
      /\ hw_ptr' \in 0 .. boundary - 1 /\ appl_ptr' \in 0 .. boundary
      /\ insync' = TRUE /\ InTransit'
  <2>1. CASE prepared
    <3>1. UNCHANGED <<dir, pointers, insync>> /\ insync
      BY <2>1 DEF pcm_start, pointers, RingInv, Modes
    <3>2. InTransit'
      BY <3>1, RingStays DEF RingInv
    <3> QED
      BY <3>1, <3>2, Zenon DEF RingInv, RingTypes, TypeOK, pointers
  <2>2. CASE ~prepared
    <3>1. /\ hw_ptr' = 0 /\ insync' = TRUE
          /\ appl_ptr' = IF mapped THEN 0 ELSE appl_ptr
          /\ queue' = IF dir = "playback" THEN [i \in 1..appl_ptr' |-> ring[i - 1]] ELSE <<>>
      BY <2>2 DEF pcm_start
    <3>2. Unprepared /\ RingTypes /\ dir' = dir /\ ring' = ring
      BY <1>1, <2>2 DEF RingInv
    <3>3. /\ appl_ptr' \in Nat /\ appl_ptr' <= BufferSize /\ BufferSize \in Nat
          /\ boundary \in Nat /\ boundary > BufferSize
      BY <3>1, <3>2, Numbers DEF Unprepared
    <3>4. CASE dir = "playback"
      <4>1. queue' = [i \in 1..appl_ptr' |-> ring[i - 1]]
        BY <3>1, <3>4
      <4>2. \A i \in 1 .. appl_ptr' : ring[i - 1] \in Frame
        BY <3>2, <3>3 DEF RingTypes, Slot
      <4>3. queue' \in Seq(Frame) /\ Len(queue') = appl_ptr'
        BY <3>3, <4>1, <4>2
      <4>4. \A i \in 1 .. Len(queue') : ring'[(hw_ptr' + i - 1) % BufferSize] = queue'[i]
        <5> TAKE i \in 1 .. Len(queue')
        <5>1. i \in 1 .. appl_ptr' /\ i - 1 \in 0 .. BufferSize - 1
          BY <3>3, <4>3
        <5>2. (0 + i - 1) % BufferSize = i - 1
          BY <3>3, <5>1
        <5> QED
          BY <3>1, <3>2, <4>1, <5>1, <5>2
      <4>5. appl_ptr' = hw_ptr' + Len(queue')
        <5>1. \A x \in Nat : x = 0 + x
          OBVIOUS
        <5> QED
          BY <3>1, <3>3, <4>3, <5>1, Zenon
      <4>6. AheadBy(appl_ptr, hw_ptr, Len(queue))'
        BY <4>5, Zenon DEF AheadBy
      <4>7. InTransit'
        BY <3>2, <3>4, <4>4, <4>6, Zenon DEF InTransit, Holds
      <4> QED
        BY <3>1, <3>3, <4>3, <4>7
    <3>5. CASE dir = "capture"
      <4>1. queue' = <<>> /\ appl_ptr' = 0
        BY <3>1, <3>2, <3>5 DEF Unprepared
      <4>2. AheadBy(hw_ptr, appl_ptr, Len(queue))'
        BY <3>1, <4>1 DEF AheadBy
      <4>3. InTransit'
        BY <3>2, <3>5, <4>1, <4>2 DEF InTransit, Holds
      <4> QED
        BY <3>1, <3>3, <4>1, <4>3
    <3> QED
      BY <3>2, <3>4, <3>5 DEF RingTypes, TypeOK
  <2> QED
    BY <2>1, <2>2
<1>3. RingTypes'
  <2>1. RingTypes /\ -1 \in -1 .. MaxCount /\ 0 \in 0 .. MaxCount
    BY DEF RingInv, ConstantsOK
  <2>2. TypeOK'
    BY <1>1, <1>2, <2>1, Fixed, Zenon DEF RingTypes, TypeOK
  <2>3. (size > 0 => size <= count)'
    BY <1>1, <2>1 DEF RingTypes
  <2> QED
    BY <1>1, <1>2, <2>1, <2>2, <2>3, Zenon DEF RingTypes
<1>4. Modes' /\ moved'
  BY <1>1, <1>2, Zenon DEF RingInv, Modes
<1> QED
  BY <1>1, <1>2, <1>3, <1>4, Zenon DEF RingInv

\* pcm_wait: after an error the application counts from zero; only a playback
\* stream gets there.
LEMMA WaitFails ==
    ASSUME ConstantsOK, RingInv, pcm_wait_fails
    PROVE  RingInv'
<1>1. /\ UNCHANGED <<dir, mapped, hw_ptr, ring, next>> /\ dir # "capture"
      /\ prepared' = FALSE /\ running' = FALSE /\ appl_ptr' = 0 /\ insync' = FALSE
      /\ kernel' = "stopped" /\ queue' = <<>> /\ count' = -1 /\ size' = 0 /\ moved' = TRUE
  BY DEF pcm_wait_fails, Return, RingInv, Modes
<1>2. RingTypes'
  <2>1. /\ RingTypes /\ -1 \in -1 .. MaxCount /\ 0 \in 0 .. MaxCount /\ 0 \in 0 .. boundary
        /\ <<>> \in Seq(Frame) /\ Len(<<>>) <= BufferSize /\ ~(0 > 0)
    BY DEF RingInv, ConstantsOK
  <2> QED
    BY <1>1, <2>1, Fixed, Zenon DEF RingTypes, TypeOK
<1>3. Modes' /\ moved'
  BY <1>1 DEF Modes
<1>4. Unprepared'
  BY <1>1 DEF Unprepared
<1> QED
  BY <1>1, <1>2, <1>3, <1>4 DEF RingInv

\* pcm_mmap_transfer: it does not give up, since a full ring starts the stream,
\* and asks for what there is.
LEMMA TransferLoops ==
    ASSUME ConstantsOK, RingInv, pcm_mmap_transfer_loop
    PROVE  RingInv'
<1> DEFINE av == pcm_mmap_avail
<1>1. /\ UNCHANGED <<dir, mapped, pointers, kernel, prepared, running, insync>>
      /\ count >= 0 /\ size = 0
      /\ \/ count = 0 /\ count' = -1 /\ size' = 0 /\ moved' = TRUE
         \/ count # 0 /\ av = 0 /\ ~running /\ ~ReachesThreshold
         \/ /\ count # 0 /\ av # 0 /\ size' = Min({count, av}) /\ UNCHANGED <<count, moved>>
            /\ running \/ ~ReachesThreshold
  BY Zenon DEF pcm_mmap_transfer_loop, Return
<1>2. /\ RingTypes /\ Modes /\ moved /\ (insync => InTransit) /\ (~prepared => Unprepared)
      /\ mapped \in BOOLEAN /\ (dir = "playback" \/ dir = "capture")
  BY DEF RingInv, RingTypes, TypeOK
<1>3. /\ BufferSize \in Nat /\ BufferSize > 0 /\ Len(queue) \in Nat /\ Len(queue) <= BufferSize
      /\ appl_ptr \in Nat /\ count \in Int /\ count <= MaxCount /\ MaxCount \in Nat
      /\ StartThreshold \in Nat /\ StartThreshold <= BufferSize
  BY <1>2, Numbers DEF ConstantsOK
<1>4. av \in Nat
  BY AvailIsNat
<1>5. ReachesThreshold <=> BufferSize - av < 0 \/ BufferSize - av >= StartThreshold
  BY Zenon DEF ReachesThreshold
<1>6. InTransit' \/ ~insync'
  BY <1>1, <1>2, RingStays, Zenon
<1>7. Modes'
  BY <1>1, <1>2, Zenon DEF Modes
<1> HIDE DEF av
<1>8. CASE count = 0 /\ count' = -1 /\ size' = 0 /\ moved' = TRUE
  <2>1. RingTypes'
    <3>1. -1 \in -1 .. MaxCount /\ 0 \in 0 .. MaxCount /\ ~(0 > 0)
      BY <1>3
    <3> QED
      BY <1>1, <1>2, <1>8, <3>1, Fixed, Zenon DEF RingTypes, TypeOK, pointers
  <2>2. ~prepared' => Unprepared'
    BY <1>1, <1>2, <1>8, RingStays, Zenon DEF Unprepared, pointers
  <2> QED
    BY <1>6, <1>7, <1>8, <2>1, <2>2, Zenon DEF RingInv
<1>9. ~(av = 0 /\ ~ReachesThreshold)
  BY <1>3, <1>5
<1>10. CASE /\ count # 0 /\ av # 0 /\ size' = Min({count, av}) /\ UNCHANGED <<count, moved>>
            /\ running \/ ~ReachesThreshold
  <2>1. size' \in Nat /\ size' > 0 /\ size' <= count /\ size' <= av
    <3> DEFINE m == Min({count, av})
    <3>1. count \in Int /\ av \in Int
      BY <1>3, <1>4
    <3>2. m \in {count, av} /\ m <= count /\ m <= av
      BY <3>1, MinOfTwo, Zenon
    <3> HIDE DEF m
    <3>3. m \in Nat /\ m > 0
      BY <1>1, <1>3, <1>4, <1>10, <3>2
    <3> QED
      BY <1>10, <3>2, <3>3, Zenon DEF m
  <2>2. RingTypes'
    <3>1. size' \in 0 .. MaxCount
      BY <1>3, <2>1
    <3> QED
      BY <1>1, <1>2, <1>10, <2>1, <3>1, Fixed, Zenon DEF RingTypes, TypeOK, pointers
  <2>3. ASSUME ~prepared PROVE Unprepared'
    <3>1. Unprepared /\ ~running /\ av <= BufferSize
      BY <1>2, <1>3, <1>4, <1>5, <1>10, <2>3 DEF Modes
    <3>2. dir = "playback"
      <4>1. CASE dir = "capture"
        <5>1. av = Len(queue) /\ Len(queue) = appl_ptr /\ appl_ptr = 0
          BY <1>2, <3>1, <4>1, AvailIsTrue DEF av, Modes, Unprepared
        <5> QED
          BY <1>10, <5>1
      <4> QED
        BY <1>2, <4>1
    <3>3. Room \in Nat /\ av = Room - appl_ptr
      BY <1>2, <3>1, <3>2, AvailUnprepared DEF av
    <3>4. Room <= BufferSize /\ appl_ptr + size' <= Room
      <4>1. appl_ptr + size' <= Room
        <5> DEFINE m == size'
        <5>1. m \in Nat /\ m <= av
          BY <2>1
        <5> HIDE DEF m
        <5>2. appl_ptr + m <= Room
          BY <1>3, <3>3, <5>1
        <5> QED
          BY <5>2 DEF m
      <4>2. appl_ptr = 0 \/ appl_ptr + size > 0
        BY <1>1, <1>3
      <4>3. CASE appl_ptr = 0
        BY <1>3, <3>1, <3>3, <4>1, <4>3
      <4>4. CASE appl_ptr + size > 0
        BY <3>1, <4>1, <4>4 DEF Unprepared
      <4> QED
        BY <4>1, <4>2, <4>3, <4>4
    <3> QED
      BY <1>1, <3>1, <3>2, <3>4, RingStays, Zenon DEF Unprepared, pointers
  <2> QED
    BY <1>1, <1>2, <1>6, <1>7, <1>10, <2>2, <2>3, Zenon DEF RingInv
<1> QED
  BY <1>1, <1>8, <1>9, <1>10, Zenon
-----------------------------------------------------------------------------
(* Frames move *)

\* q lies at the front of the ring.
Front(r, q) == \A i \in 1 .. Len(q) : r[i - 1] = q[i]

\* The front of the ring is what lies from position zero on.
LEMMA FrontIsFirst ==
    ASSUME ConstantsOK, NEW r, NEW q, Len(q) \in Nat, Len(q) <= BufferSize
    PROVE  Front(r, q) <=> Holds(r, 0, q)
<1>1. BufferSize \in Nat
  BY DEF ConstantsOK
<1>2. \A i \in 1 .. Len(q) : (0 + i - 1) % BufferSize = i - 1
  <2> TAKE i \in 1 .. Len(q)
  <2>1. i - 1 \in 0 .. BufferSize - 1 /\ 0 + i - 1 = i - 1
    BY <1>1
  <2> QED
    BY <1>1, <2>1
<1> QED
  BY <1>2, Zenon DEF Front, Holds

\* The reader goes on by n frames.
LEMMA Dropped ==
    ASSUME ConstantsOK, NEW r, NEW q, NEW r1, NEW x \in Nat, NEW y \in Nat, NEW n \in Nat,
           AheadBy(y, x, n), Holds(r, x, q), Len(q) \in Nat, Len(r1) \in Nat,
           Len(r1) = Len(q) - n, \A i \in 1 .. Len(r1) : r1[i] = q[n + i]
    PROVE  Holds(r, y, r1)
<1> SUFFICES ASSUME NEW i \in 1 .. Len(r1)
             PROVE  r[(y + i - 1) % BufferSize] = r1[i]
  BY Zenon DEF Holds
<1> DEFINE L == Len(q)
           K == Len(r1)
<1>1. L \in Nat /\ K \in Nat /\ K = L - n /\ i \in 1 .. K
  OBVIOUS
<1> HIDE DEF L, K
<1>2. /\ i - 1 \in Nat /\ n + i \in 1 .. L
      /\ y + i - 1 = y + (i - 1) /\ x + (n + i) - 1 = x + (n + (i - 1))
  BY <1>1
<1>3. (y + (i - 1)) % BufferSize = (x + (n + (i - 1))) % BufferSize
  <2>1. OnePlace(y, x, n)
    BY SamePlace, Zenon
  <2> QED
    BY <1>2, <2>1, Zenon DEF OnePlace
<1>4. r[(x + (n + i) - 1) % BufferSize] = q[n + i]
  BY <1>2, Zenon DEF Holds, L
<1> QED
  BY <1>2, <1>3, <1>4, Zenon

\* The writer puts n frames behind those in transit, in places that are free.
LEMMA Added ==
    ASSUME ConstantsOK, NEW r, NEW s, NEW q, NEW p, NEW x \in Nat, NEW y \in Nat, NEW n \in Nat,
           Len(q) \in Nat, AheadBy(y, x, Len(q)), Len(q) + n <= BufferSize, Holds(r, x, q),
           Puts(r, s, y, n, q, p)
    PROVE  Holds(s, x, p)
<1> SUFFICES ASSUME NEW i \in 1 .. Len(p)
             PROVE  s[(x + i - 1) % BufferSize] = p[i]
  BY Zenon DEF Holds
<1> DEFINE L == Len(q)
           K == Len(p)
           B == BufferSize
<1>1. L \in Nat /\ K = L + n /\ i \in 1 .. K /\ L + n <= B /\ B \in Nat
  BY DEF ConstantsOK, Puts
<1>2. AheadBy(y, x, L)
  OBVIOUS
<1> HIDE DEF L, K, B
<1>3. i - 1 \in 0 .. B - 1 /\ x + i - 1 = x + (i - 1)
  BY <1>1
<1>4. \A j \in 1 .. n : /\ (y + (j - 1)) % B = (x + (L + (j - 1))) % B
                        /\ L + (j - 1) \in 0 .. B - 1
  <2> TAKE j \in 1 .. n
  <2>1. j - 1 \in Nat /\ L + (j - 1) \in 0 .. B - 1
    BY <1>1
  <2>2. (y + (j - 1)) % B = (x + (L + (j - 1))) % B
    <3>1. OnePlace(y, x, L)
      BY <1>1, <1>2, SamePlace, Zenon
    <3> QED
      BY <2>1, <3>1, Zenon DEF OnePlace, B
  <2> QED
    BY <2>1, <2>2
<1>5. CASE i <= L
  <2>1. i \in 1 .. L
    BY <1>1, <1>5
  <2>2. (x + (i - 1)) % B \in Slot
    BY <1>3, Places, Zenon DEF B
  <2>3. ASSUME NEW j \in 1 .. n PROVE (x + (i - 1)) % B # (y + (j - 1)) % B
    <3>1. L + (j - 1) \in 0 .. B - 1 /\ L + (j - 1) # i - 1
      BY <1>1, <1>4, <1>5
    <3>2. (x + (i - 1)) % B # (x + (L + (j - 1))) % B
      BY <1>3, <3>1, Places, Zenon DEF B
    <3> QED
      BY <1>4, <3>2, Zenon
  <2>4. s[(x + (i - 1)) % B] = r[(x + (i - 1)) % B]
    BY <2>2, <2>3, Zenon DEF B, Puts
  <2>5. r[(x + i - 1) % B] = q[i] /\ p[i] = q[i]
    BY <2>1, Zenon DEF Holds, B, L, Puts
  <2> QED
    BY <1>3, <2>4, <2>5, Zenon DEF B
<1>6. CASE i > L
  <2> DEFINE j == i - L
  <2>1. j \in 1 .. n /\ L + j = i /\ L + (j - 1) = i - 1
    BY <1>1, <1>6
  <2> HIDE DEF j
  <2>2. s[(y + (j - 1)) % B] = p[L + j]
    BY <2>1, Zenon DEF B, L, Puts
  <2>3. (y + (j - 1)) % B = (x + (L + (j - 1))) % B
    BY <1>4, <2>1, Zenon
  <2> QED
    BY <1>3, <2>1, <2>2, <2>3, Zenon DEF B
<1> QED
  BY <1>1, <1>5, <1>6

\* The hardware plays a frame, runs out or captures one.
LEMMA HardwareMoves ==
    ASSUME ConstantsOK, RingInv, Hardware
    PROVE  RingInv'
<1> DEFINE N == boundary
           L == Len(queue)
           B == BufferSize
<1>1. /\ UNCHANGED <<dir, mapped, appl_ptr, prepared, running, count, size, moved, insync>>
      /\ kernel = "running"
  BY DEF Hardware
<1>2. RingTypes /\ Modes /\ moved /\ insync /\ prepared /\ running /\ InTransit
  BY <1>1 DEF RingInv, Modes
<1>3. /\ B \in Nat /\ B > 0 /\ N \in Nat /\ N > B
      /\ hw_ptr \in Nat /\ hw_ptr < N /\ appl_ptr \in Nat /\ appl_ptr <= N
      /\ L \in Nat /\ L <= B
  BY <1>2, Numbers
<1>4. (hw_ptr + 1) % N = IF hw_ptr + 1 = N THEN 0 ELSE hw_ptr + 1
  BY <1>3, MovesOn
<1> DEFINE h == (hw_ptr + 1) % N
<1> HIDE DEF N, B
<1>5. h \in 0 .. N - 1 /\ h \in Nat /\ (h = hw_ptr + 1 \/ h = hw_ptr + 1 - N)
  BY <1>3, <1>4
<1>6. AheadBy(h, hw_ptr, 1)
  BY <1>5, Zenon DEF AheadBy, N
<1> HIDE DEF h, L
<1>7. SUFFICES /\ ring' \in [Slot -> Frame] /\ queue' \in Seq(Frame) /\ next' \in Frame
               /\ Len(queue') <= B /\ hw_ptr' \in 0 .. N - 1 /\ InTransit'
               /\ kernel' = "running" \/ (kernel' = "xrun" /\ dir = "playback")
  <2>1. TypeOK'
    BY <1>1, <1>2, <1>7, Fixed, Zenon DEF RingTypes, TypeOK, N, B
  <2>2. RingTypes'
    BY <1>1, <1>2, <1>7, <2>1, Fixed, Zenon DEF RingTypes
  <2>3. Modes'
    BY <1>1, <1>2, <1>7 DEF Modes
  <2> QED
    BY <1>1, <1>2, <1>7, <2>2, <2>3, Zenon DEF RingInv
<1>8. /\ ring \in [Slot -> Frame] /\ queue \in Seq(Frame) /\ next \in Frame
      /\ hw_ptr \in 0 .. N - 1 /\ Id \in Nat \ {0}
  BY <1>2 DEF RingTypes, TypeOK, N, ConstantsOK
<1>9. CASE /\ dir = "playback" /\ queue # <<>>
           /\ queue' = Tail(queue) /\ hw_ptr' = (hw_ptr + 1) % boundary
           /\ UNCHANGED <<ring, next, kernel>>
  <2>1. /\ queue' \in Seq(Frame) /\ Len(queue') = L - 1 /\ L > 0
        /\ \A i \in 1 .. Len(queue') : queue'[i] = queue[1 + i]
    BY <1>8, <1>9 DEF L
  <2>2. hw_ptr' = h
    BY <1>9 DEF h, N
  <2>3. AheadBy(appl_ptr, hw_ptr, L) /\ Holds(ring, hw_ptr, queue)
    BY <1>2, <1>9, Zenon DEF InTransit, L
  <2>4. AheadBy(appl_ptr, h, L - 1)
    <3>1. appl_ptr = hw_ptr + L \/ appl_ptr = hw_ptr + L - N \/ appl_ptr = hw_ptr + L + N
      BY <2>3, Zenon DEF AheadBy, N
    <3>2. appl_ptr = h + (L - 1) \/ appl_ptr = h + (L - 1) - N \/ appl_ptr = h + (L - 1) + N
      BY <1>3, <1>5, <2>1, <3>1
    <3> QED
      BY <3>2, Zenon DEF AheadBy, N
  <2>5. Holds(ring, h, queue')
    <3>1. Len(queue) \in Nat /\ Len(queue') \in Nat /\ Len(queue') = Len(queue) - 1 /\ 1 \in Nat
      BY <1>3, <2>1 DEF L
    <3> QED
      BY <1>3, <1>5, <1>6, <2>1, <2>3, <3>1, Dropped, Zenon
  <2>6. InTransit'
    BY <1>1, <1>9, <2>1, <2>2, <2>4, <2>5, Zenon DEF InTransit, AheadBy, Holds
  <2>7. Len(queue') <= B
    BY <1>3, <2>1
  <2> QED
    BY <1>1, <1>5, <1>8, <1>9, <2>1, <2>2, <2>6, <2>7, Zenon
<1>10. CASE /\ dir = "playback" /\ queue = <<>>
            /\ kernel' = "xrun" /\ UNCHANGED <<queue, hw_ptr, ring, next>>
  <2>1. InTransit'
    BY <1>1, <1>2, <1>10, RingStays, Zenon DEF pointers
  <2>2. Len(queue') <= B
    BY <1>3, <1>10, Zenon DEF L
  <2> QED
    BY <1>8, <1>10, <2>1, <2>2, Zenon
<1>11. CASE /\ dir = "capture" /\ Len(queue) < BufferSize
            /\ ring' = [ring EXCEPT ![hw_ptr % BufferSize] = next]
            /\ queue' = Append(queue, next) /\ next' = (next + 1) % Id
            /\ hw_ptr' = (hw_ptr + 1) % boundary
            /\ UNCHANGED kernel
  <2>1. /\ queue' \in Seq(Frame) /\ Len(queue') = L + 1
        /\ \A i \in 1 .. L : queue'[i] = queue[i]
        /\ queue'[L + 1] = next
    BY <1>8, <1>11 DEF L
  <2>2. hw_ptr' = h /\ L + 1 <= B
    <3>1. hw_ptr' = h /\ L < B
      BY <1>11, Zenon DEF h, N, L, B
    <3> QED
      BY <1>3, <3>1
  <2>3. AheadBy(hw_ptr, appl_ptr, L) /\ Holds(ring, appl_ptr, queue)
    BY <1>2, <1>11, Zenon DEF InTransit, L
  <2>4. AheadBy(h, appl_ptr, L + 1)
    <3>1. hw_ptr = appl_ptr + L \/ hw_ptr = appl_ptr + L - N \/ hw_ptr = appl_ptr + L + N
      BY <2>3, Zenon DEF AheadBy, N
    <3>2. h = appl_ptr + (L + 1) \/ h = appl_ptr + (L + 1) - N \/ h = appl_ptr + (L + 1) + N
      BY <1>3, <1>5, <2>2, <3>1
    <3> QED
      BY <3>2, Zenon DEF AheadBy, N
  <2>5. hw_ptr % BufferSize \in Slot
    BY <1>3 DEF Slot, B
  <2>6. Holds(ring', appl_ptr, queue')
    <3> DEFINE r == ring'
               q == queue'
    <3>1. \A j \in 1 .. 1 : (hw_ptr + (j - 1)) % BufferSize = hw_ptr % BufferSize /\ Len(queue) + j = L + 1
      BY <1>3 DEF L, B
    <3>2. r[hw_ptr % BufferSize] = next
      BY <1>8, <1>11, <2>5, SMTT(120)
    <3>3. \A k \in Slot : k # hw_ptr % BufferSize => r[k] = ring[k]
      BY <1>8, <1>11, <2>5, SMTT(120)
    <3>4. /\ \A i \in 1 .. Len(queue) : q[i] = queue[i]
          /\ Len(q) = Len(queue) + 1 /\ q[L + 1] = next
      BY <2>1 DEF L
    <3> HIDE DEF r, q
    <3>5. \A j \in 1 .. 1 : r[(hw_ptr + (j - 1)) % BufferSize] = q[Len(queue) + j]
      BY <3>1, <3>2, <3>4, Zenon
    <3>6. \A k \in Slot : (\A j \in 1 .. 1 : k # (hw_ptr + (j - 1)) % BufferSize) => r[k] = ring[k]
      <4>1. 1 \in 1 .. 1
        OBVIOUS
      <4> QED
        BY <3>1, <3>3, <4>1, Zenon
    <3>7. Len(queue) \in Nat /\ AheadBy(hw_ptr, appl_ptr, Len(queue)) /\ Len(queue) + 1 <= BufferSize /\ 1 \in Nat
      BY <1>3, <2>2, <2>3 DEF L, B
    <3>8. Puts(ring, r, hw_ptr, 1, queue, q)
      BY <3>4, <3>5, <3>6, Zenon DEF Puts
    <3>9. Holds(r, appl_ptr, q)
      BY <1>3, <2>3, <3>7, <3>8, Added, Zenon
    <3> QED
      BY <3>9 DEF r, q
  <2>7. InTransit'
    BY <1>1, <1>11, <2>1, <2>2, <2>4, <2>6, Zenon DEF InTransit, AheadBy, Holds
  <2>8. ring' \in [Slot -> Frame] /\ next' \in Frame
    BY <1>8, <1>11, <2>5, SMTT(120) DEF Frame
  <2>9. Len(queue') <= B
    BY <2>1, <2>2
  <2>10. kernel' = "running"
    BY <1>1, <1>11, Zenon
  <2>11. hw_ptr' \in 0 .. N - 1
    BY <1>5, <2>2, Zenon
  <2> QED
    BY <2>1, <2>7, <2>8, <2>9, <2>10, <2>11, Zenon
<1> QED
  BY <1>9, <1>10, <1>11, Zenon DEF Hardware

\* The ring after the copy of one round.
Copy(r, a, n, ids) ==
    [k \in DOMAIN r |-> IF \E i \in 1 .. n : k = (a + (i - 1)) % BufferSize
                        THEN ids[CHOOSE i \in 1 .. n : k = (a + (i - 1)) % BufferSize] ELSE r[k]]

\* The copy of one round into the ring: each frame has a place of its own.
LEMMA Copied ==
    ASSUME ConstantsOK, NEW r \in [Slot -> Frame], NEW q \in Seq(Frame), NEW a \in Nat,
           NEW n \in Nat, n <= BufferSize, NEW ids \in [1 .. n -> Frame]
    PROVE  /\ Copy(r, a, n, ids) \in [Slot -> Frame]
           /\ q \o ids \in Seq(Frame) /\ Puts(r, Copy(r, a, n, ids), a, n, q, q \o ids)
<1> DEFINE s == Copy(r, a, n, ids)
           At(i) == (a + (i - 1)) % BufferSize
           Who(k) == CHOOSE i \in 1 .. n : k = At(i)
<1>1. /\ q \o ids \in Seq(Frame) /\ Len(q \o ids) = Len(q) + n
      /\ \A i \in 1 .. Len(q) : (q \o ids)[i] = q[i]
      /\ \A j \in 1 .. n : (q \o ids)[Len(q) + j] = ids[j]
  <2>1. ids \in Seq(Frame) /\ Len(ids) = n
    OBVIOUS
  <2> QED
    BY <2>1, SMTT(120)
<1>2. DOMAIN r = Slot /\ \A k \in Slot : r[k] \in Frame
  OBVIOUS
<1>3. s = [k \in Slot |-> IF \E i \in 1 .. n : k = At(i) THEN ids[Who(k)] ELSE r[k]]
  BY <1>2, Zenon DEF Copy
<1> HIDE DEF s
<1>4. \A j \in 1 .. n : At(j) \in Slot /\ Who(At(j)) = j
  <2> TAKE j \in 1 .. n
  <2>1. BufferSize \in Nat
    BY DEF ConstantsOK
  <2>2. j - 1 \in 0 .. BufferSize - 1
    BY <2>1
  <2>3. At(j) \in Slot
    BY <2>2, Places, Zenon
  <2>4. \A i \in 1 .. n : At(j) = At(i) => j = i
    <3> SUFFICES ASSUME NEW i \in 1 .. n, At(j) = At(i) PROVE j = i
      OBVIOUS
    <3>1. i - 1 \in 0 .. BufferSize - 1
      BY <2>1
    <3>2. j - 1 = i - 1
      BY <2>2, <3>1, Places, Zenon
    <3> QED
      BY <3>2
  <2> HIDE DEF At
  <2>5. Who(At(j)) = j
    BY <2>4, Zenon
  <2> QED
    BY <2>3, <2>5
<1> HIDE DEF At
<1>5. \A k \in Slot : (\E i \in 1 .. n : k = At(i)) => Who(k) \in 1 .. n
  BY <1>4, Zenon
<1>6. s \in [Slot -> Frame]
  <2>1. \A k \in Slot : (\E i \in 1 .. n : k = At(i)) => ids[Who(k)] \in Frame
    BY <1>5, Zenon
  <2> HIDE DEF Who
  <2> QED
    BY <1>2, <1>3, <2>1, Zenon
<1>7. \A j \in 1 .. n : s[At(j)] = ids[j]
  <2> TAKE j \in 1 .. n
  <2>1. At(j) \in Slot /\ Who(At(j)) = j /\ \E i \in 1 .. n : At(j) = At(i)
    BY <1>4, Zenon
  <2> HIDE DEF Who
  <2> QED
    BY <1>3, <2>1
<1>8. \A k \in Slot : (\A j \in 1 .. n : k # At(j)) => s[k] = r[k]
  <2> HIDE DEF Who
  <2> QED
    BY <1>3
<1>9. Puts(r, s, a, n, q, q \o ids)
  BY <1>1, <1>7, <1>8, Zenon DEF Puts, At
<1> QED
  BY <1>1, <1>6, <1>9, Zenon DEF s

\* The application's pointer goes on by less than a ring.
LEMMA Forward ==
    ASSUME ConstantsOK, RingTypes, NEW n \in Nat, n <= BufferSize
    PROVE  /\ pcm_mmap_appl_forward(n) \in 0 .. boundary
           /\ AheadBy(pcm_mmap_appl_forward(n), appl_ptr, n)
<1> DEFINE N == boundary
           a == pcm_mmap_appl_forward(n)
<1>1. BufferSize \in Nat /\ N \in Nat /\ N > BufferSize /\ appl_ptr \in Nat /\ appl_ptr <= N
  BY Numbers
<1>2. a = IF appl_ptr + n > N THEN appl_ptr + n - N ELSE appl_ptr + n
  BY Zenon DEF pcm_mmap_appl_forward
<1> HIDE DEF N, a
<1>3. a \in 0 .. N /\ (a = appl_ptr + n \/ a = appl_ptr + n - N)
  BY <1>1, <1>2
<1>4. AheadBy(a, appl_ptr, n)
  BY <1>3, Zenon DEF AheadBy, N
<1> QED
  BY <1>3, <1>4 DEF N, a

\* Pointers that are a and n ahead add up, as long as that is less than the
\* boundary.
LEMMA AheadAdds ==
    ASSUME ConstantsOK, NEW h \in Nat, h < boundary, NEW p \in Nat, p <= boundary,
           NEW a \in Nat, a <= boundary, NEW l \in Nat, NEW n \in Nat, n > 0,
           l + n <= BufferSize, AheadBy(p, h, l), AheadBy(a, p, n)
    PROVE  AheadBy(a, h, l + n)
<1> DEFINE N == boundary
<1>1. N \in Nat /\ BufferSize \in Nat /\ N > BufferSize /\ h < N /\ p <= N /\ a <= N
  BY DEF ConstantsOK
<1>2. /\ p = h + l \/ p = h + l - N \/ p = h + l + N
      /\ a = p + n \/ a = p + n - N \/ a = p + n + N
  BY Zenon DEF AheadBy, N
<1> HIDE DEF N
<1>3. a = h + (l + n) \/ a = h + (l + n) - N \/ a = h + (l + n) + N
  BY <1>1, <1>2
<1> QED
  BY <1>3, Zenon DEF AheadBy, N

\* The reader catches up.
LEMMA AheadCatches ==
    ASSUME ConstantsOK, NEW h \in Nat, h < boundary, NEW p \in Nat, p <= boundary,
           NEW a \in Nat, a <= boundary, NEW l \in Nat, l <= BufferSize, NEW n \in Nat, n > 0, n <= l,
           AheadBy(h, p, l), AheadBy(a, p, n)
    PROVE  AheadBy(h, a, l - n)
<1> DEFINE N == boundary
<1>1. N \in Nat /\ BufferSize \in Nat /\ N > BufferSize /\ h < N /\ p <= N /\ a <= N
  BY DEF ConstantsOK
<1>2. /\ h = p + l \/ h = p + l - N \/ h = p + l + N
      /\ a = p + n \/ a = p + n - N \/ a = p + n + N
  BY Zenon DEF AheadBy, N
<1> HIDE DEF N
<1>3. h = a + (l - n) \/ h = a + (l - n) - N \/ h = a + (l - n) + N
  BY <1>1, <1>2
<1> QED
  BY <1>3, Zenon DEF AheadBy, N

\* pcm_mmap_begin gives no more than was asked for, is available or fits.
LEMMA BeginFits ==
    ASSUME ConstantsOK, RingInv
    PROVE  LET n == pcm_mmap_begin(size)
           IN  n \in Int /\ n <= size /\ n <= pcm_mmap_avail /\ n <= BufferSize
<1> DEFINE e == BufferSize - (appl_ptr % BufferSize)
           n == Min({size, pcm_mmap_avail, BufferSize, e})
<1>1. size \in Int /\ BufferSize \in Int /\ BufferSize > 0 /\ appl_ptr \in Int
  BY Numbers DEF RingInv
<1>2. e \in Int /\ pcm_mmap_avail \in Int
  BY <1>1, AvailIsNat
<1> HIDE DEF e
<1>3. n \in {size, pcm_mmap_avail, BufferSize, e} /\ n <= size /\ n <= pcm_mmap_avail /\ n <= BufferSize
  BY <1>1, <1>2, MinOfFour, Zenon
<1>4. n \in Int
  BY <1>1, <1>2, <1>3, Zenon
<1>5. pcm_mmap_begin(size) = n
  BY Zenon DEF pcm_mmap_begin, e
<1> HIDE DEF n
<1> QED
  BY <1>3, <1>4, <1>5, Zenon

\* What n more frames, which make the queue q, leave.
Played(a, n, r, q) ==
    /\ Len(q) <= BufferSize
    /\ insync => AheadBy(a, hw_ptr, Len(q)) /\ Holds(r, hw_ptr, q)
    /\ ~prepared => /\ Len(q) = a /\ Front(r, q)
                    /\ Room <= BufferSize /\ a + (size - n) <= Room

\* pcm_mmap_transfer_areas, playback: the frames go behind those in transit, or
\* before a prepare to the front of the ring.
LEMMA PlaybackMoves ==
    ASSUME ConstantsOK, RingInv, dir = "playback", size > 0, NEW n \in Nat, n > 0,
           n <= size, n <= pcm_mmap_avail, n <= BufferSize, NEW a \in 0 .. boundary,
           a = pcm_mmap_appl_forward(n), NEW r, NEW q, Puts(ring, r, appl_ptr, n, queue, q)
    PROVE  Played(a, n, r, q)
<1> DEFINE L == Len(queue)
           B == BufferSize
           N == boundary
<1>1. /\ RingTypes /\ Modes /\ (insync => InTransit) /\ (~prepared => Unprepared)
  BY DEF RingInv
<1>2. /\ B \in Nat /\ B > 0 /\ N \in Nat /\ N > B
      /\ hw_ptr \in Nat /\ hw_ptr < N /\ appl_ptr \in Nat /\ appl_ptr <= N
      /\ L \in Nat /\ L <= B /\ size \in Nat
  BY <1>1, Numbers, SMTT(120)
<1>3. a \in Nat /\ a <= N /\ AheadBy(a, appl_ptr, n)
  BY <1>1, <1>2, Forward
<1>4. Len(q) = L + n
  BY Zenon DEF Puts
<1>5. ASSUME insync PROVE L + n <= B /\ AheadBy(a, hw_ptr, Len(q)) /\ Holds(r, hw_ptr, q)
  <2>1. /\ pcm_mmap_avail = B - L /\ AheadBy(appl_ptr, hw_ptr, Len(queue))
        /\ Holds(ring, hw_ptr, queue)
    BY <1>1, <1>5, AvailIsTrue, SMTT(120) DEF InTransit
  <2>2. L + n <= B
    <3> DEFINE v == pcm_mmap_avail
    <3>1. v = B - L /\ n <= v
      BY <2>1
    <3> HIDE DEF v, L, B
    <3> QED
      BY <1>2, <3>1
  <2>3. AheadBy(a, hw_ptr, L + n)
    BY <1>2, <1>3, <2>1, <2>2, AheadAdds, Zenon
  <2>4. Holds(r, hw_ptr, q)
    BY <1>2, <2>1, <2>2, Added, Zenon
  <2> QED
    BY <1>4, <2>2, <2>3, <2>4, Zenon
<1>6. ASSUME ~prepared
      PROVE  /\ L + n <= B /\ Len(q) = a /\ Front(r, q)
             /\ Room <= BufferSize /\ a + (size - n) <= Room
  <2>1. /\ L = appl_ptr /\ \A i \in 1 .. L : ring[i - 1] = queue[i]
        /\ appl_ptr + size > 0 => Room <= B /\ appl_ptr + size <= Room
    BY <1>1, <1>6 DEF Unprepared
  <2>2. Room \in Nat
    BY <1>1, <1>6, AvailUnprepared, SMTT(120)
  <2> HIDE DEF L, B, N
  <2>3. Room <= B /\ appl_ptr + size <= Room /\ L + n <= B
    BY <1>2, <2>1, <2>2, SMTT(120)
  <2>4. a = appl_ptr + n
    <3>1. a = IF appl_ptr + n > N THEN appl_ptr + n - N ELSE appl_ptr + n
      BY Zenon DEF pcm_mmap_appl_forward, N
    <3> QED
      BY <1>2, <2>1, <2>3, <3>1
  <2>5. Front(ring, queue) <=> Holds(ring, 0, queue)
    BY <1>2, FrontIsFirst, Zenon DEF L, B
  <2>6. Holds(ring, 0, queue)
    BY <2>1, <2>5, Zenon DEF Front, L
  <2>7. AheadBy(appl_ptr, 0, Len(queue)) /\ 0 \in Nat
    <3>1. appl_ptr = 0 + L
      BY <1>2, <2>1
    <3> QED
      BY <3>1, SMTT(120) DEF AheadBy, L
  <2>8. Holds(r, 0, q)
    BY <1>2, <2>3, <2>6, <2>7, Added, Zenon DEF L, B
  <2>9. Len(q) \in Nat /\ Len(q) <= B
    BY <1>2, <1>4, <2>3
  <2>10. Front(r, q)
    BY <2>8, <2>9, FrontIsFirst, Zenon DEF B
  <2>11. Len(q) = a /\ a + (size - n) <= Room
    BY <1>2, <1>4, <2>1, <2>2, <2>3, <2>4
  <2> QED
    BY <2>3, <2>10, <2>11, Zenon DEF B
<1>7. insync \/ ~prepared
  BY <1>1, Zenon DEF Modes
<1> QED
  BY <1>4, <1>5, <1>6, <1>7, Zenon DEF Played

\* pcm_mmap_transfer_areas.
LEMMA AreasMove ==
    ASSUME ConstantsOK, RingInv, pcm_mmap_transfer_areas
    PROVE  RingInv'
<1> DEFINE n == pcm_mmap_begin(size)
           ids == [i \in 1..n |-> (next + i - 1) % Id]
           B == BufferSize
           N == boundary
<1>1. /\ UNCHANGED <<dir, mapped, hw_ptr, kernel, prepared, running, insync>>
      /\ size > 0 /\ n > 0 /\ appl_ptr' = pcm_mmap_appl_forward(n)
      /\ \/ count' = -1 /\ size' = 0 /\ moved' = TRUE
         \/ size' = size - n /\ count' = count - n /\ moved' = moved
  BY DEF pcm_mmap_transfer_areas, Return
<1>2. \/ /\ dir = "playback" /\ queue' = queue \o ids /\ next' = (next + n) % Id
         /\ ring' = Copy(ring, appl_ptr, n, ids)
      \/ dir # "playback" /\ queue' = SubSeq(queue, n + 1, Len(queue)) /\ ring' = ring /\ next' = next
  BY Zenon DEF pcm_mmap_transfer_areas, Copy
<1>3. /\ RingTypes /\ Modes /\ moved /\ (insync => InTransit) /\ (~prepared => Unprepared)
      /\ (dir = "playback" \/ dir = "capture")
      /\ ring \in [Slot -> Frame] /\ queue \in Seq(Frame) /\ next \in Frame
      /\ (size > 0 => size <= count)
  BY SMTT(120) DEF RingInv, RingTypes, TypeOK
<1>4. /\ B \in Nat /\ B > 0 /\ N \in Nat /\ N > B
      /\ hw_ptr \in Nat /\ hw_ptr < N /\ appl_ptr \in Nat /\ appl_ptr <= N
      /\ Len(queue) \in Nat /\ Len(queue) <= B /\ size \in Nat
      /\ count \in Int /\ count <= MaxCount /\ MaxCount \in Nat /\ Id \in Nat \ {0}
      /\ size <= MaxCount
  BY <1>3, Numbers DEF ConstantsOK
<1>5. n \in Int /\ n <= size /\ n <= pcm_mmap_avail /\ n <= B
  BY BeginFits
<1> HIDE DEF n
<1>6. n \in Nat
  BY <1>1, <1>5
<1>7. appl_ptr' \in 0 .. N /\ AheadBy(appl_ptr', appl_ptr, n)
  BY <1>1, <1>3, <1>5, <1>6, Forward, Zenon
<1> HIDE DEF ids, N, B
<1>8. size' \in 0 .. MaxCount /\ count' \in -1 .. MaxCount /\ (size' > 0 => size' <= count') /\ size' <= size - n
  <2>1. size <= count
    BY <1>1, <1>3
  <2>2. CASE count' = -1 /\ size' = 0
    BY <1>4, <1>5, <1>6, <2>2, SMTT(120)
  <2>3. CASE size' = size - n /\ count' = count - n
    BY <1>1, <1>4, <1>5, <1>6, <2>1, <2>3, SMTT(120)
  <2> QED
    BY <1>1, <2>2, <2>3, SMTT(120)
<1>9. Modes' /\ moved'
  BY <1>1, <1>3, Zenon DEF Modes
<1>10. SUFFICES /\ ring' \in [Slot -> Frame] /\ queue' \in Seq(Frame) /\ next' \in Frame
                /\ Len(queue') <= B /\ (insync => InTransit') /\ (~prepared => Unprepared')
  <2>1. TypeOK'
    BY <1>1, <1>3, <1>7, <1>8, <1>10, Fixed, Zenon DEF RingTypes, TypeOK, N, B
  <2>2. RingTypes'
    BY <1>1, <1>3, <1>8, <1>10, <2>1, Fixed, Zenon DEF RingTypes
  <2> QED
    BY <1>1, <1>9, <1>10, <2>2, Zenon DEF RingInv
<1>11. CASE dir = "playback"
  <2>1. /\ queue' = queue \o ids /\ next' = (next + n) % Id
        /\ ring' = Copy(ring, appl_ptr, n, ids)
    BY <1>2, <1>11, Zenon
  <2>2. ids \in [1 .. n -> Frame] /\ next' \in Frame
    BY <1>3, <1>4, <1>6, <2>1, SMTT(120) DEF ids, Frame
  <2>3. ring' \in [Slot -> Frame] /\ queue' \in Seq(Frame) /\ Puts(ring, ring', appl_ptr, n, queue, queue')
    <3> DEFINE s == Copy(ring, appl_ptr, n, ids)
    <3>1. s \in [Slot -> Frame] /\ queue \o ids \in Seq(Frame) /\ Puts(ring, s, appl_ptr, n, queue, queue \o ids)
      BY <1>3, <1>4, <1>5, <1>6, <2>2, Copied, Zenon DEF B
    <3> QED
      BY <2>1, <3>1, Zenon
  <2>4. /\ Len(queue') <= B
        /\ insync => AheadBy(appl_ptr', hw_ptr, Len(queue')) /\ Holds(ring', hw_ptr, queue')
        /\ ~prepared => /\ Len(queue') = appl_ptr' /\ Front(ring', queue')
                        /\ Room <= B /\ appl_ptr' + (size - n) <= Room
    <3>1. Played(appl_ptr', n, ring', queue')
      BY <1>1, <1>5, <1>6, <1>7, <1>11, <2>3, PlaybackMoves, Zenon DEF B, N
    <3> QED
      BY <3>1, Zenon DEF Played, B
  <2>5. insync => InTransit'
    BY <1>1, <1>11, <2>4, Zenon DEF InTransit, AheadBy, Holds
  <2>6. ASSUME ~prepared PROVE Unprepared'
    <3>1. Room' = Room /\ Room \in Int
      <4>1. Room \in Int
        BY <1>4 DEF Room, N, B
      <4> QED
        BY <1>1, <4>1, Fixed, Zenon DEF Room
    <3>2. appl_ptr' + size' <= Room
      <4> DEFINE a == appl_ptr'
                 z == size'
      <4>1. a \in Int /\ z \in Int /\ z <= size - n /\ a + (size - n) <= Room
        BY <1>4, <1>7, <1>8, <2>4, <2>6, SMTT(120)
      <4> HIDE DEF a, z
      <4>2. a + z <= Room
        BY <1>4, <1>6, <3>1, <4>1, SMTT(120)
      <4> QED
        BY <4>2, SMTT(120) DEF a, z
    <3>3. Unprepared
      BY <1>3, <2>6
    <3> QED
      BY <1>1, <1>11, <2>4, <2>6, <3>1, <3>2, <3>3, Zenon DEF Unprepared, Front, B
  <2> QED
    BY <2>2, <2>3, <2>4, <2>5, <2>6
<1>12. CASE dir = "capture"
  <2>1. queue' = SubSeq(queue, n + 1, Len(queue)) /\ ring' = ring /\ next' = next
    BY <1>2, <1>12, SMTT(120)
  <2>2. prepared /\ insync
    <3>1. insync
      BY <1>3, <1>12, Zenon DEF Modes
    <3>2. prepared \/ size = 0
      BY <1>3, <1>12, Zenon DEF Unprepared
    <3> QED
      BY <1>1, <1>4, <3>1, <3>2
  <2>3. /\ pcm_mmap_avail = Len(queue) /\ AheadBy(hw_ptr, appl_ptr, Len(queue))
        /\ Holds(ring, appl_ptr, queue)
    BY <1>3, <1>12, <2>2, AvailIsTrue DEF InTransit
  <2>4. n <= Len(queue)
    BY <1>5, <2>3, Zenon
  <2>5. /\ queue' \in Seq(Frame) /\ Len(queue') = Len(queue) - n /\ Len(queue') \in Nat
        /\ \A i \in 1 .. Len(queue') : queue'[i] = queue[n + i]
    <3>1. \A f \in Seq(Frame), m \in Nat : m <= Len(f) =>
            LET g == SubSeq(f, m + 1, Len(f))
            IN  g \in Seq(Frame) /\ Len(g) = Len(f) - m /\ \A i \in 1 .. Len(g) : g[i] = f[m + i]
      BY SMTT(120)
    <3>2. Len(queue') = Len(queue) - n => Len(queue') \in Nat
      BY <1>4, <1>6, <2>4, SMTT(120)
    <3> QED
      BY <1>3, <1>6, <2>1, <2>4, <3>1, <3>2, Zenon
  <2>6. appl_ptr' \in Nat /\ appl_ptr' <= N
    BY <1>4, <1>7
  <2>7. AheadBy(hw_ptr, appl_ptr', Len(queue) - n)
    BY <1>1, <1>4, <1>6, <1>7, <2>3, <2>4, <2>6, AheadCatches, Zenon DEF N, B
  <2>8. Holds(ring, appl_ptr', queue')
    BY <1>4, <1>6, <1>7, <2>3, <2>5, <2>6, Dropped, Zenon
  <2>9. InTransit'
    <3>1. dir # "playback"
      BY <1>12, SMTT(120)
    <3> QED
      BY <1>1, <2>1, <2>5, <2>7, <2>8, <3>1, Zenon DEF InTransit, AheadBy, Holds
  <2>10. Len(queue') <= B
    BY <1>4, <1>6, <2>5
  <2> QED
    BY <1>3, <2>1, <2>2, <2>5, <2>9, <2>10, Zenon
<1> QED
  BY <1>3, <1>11, <1>12, Zenon
-----------------------------------------------------------------------------
(* The ring is true *)

\* Every step keeps the ring and the pointers in agreement.
LEMMA RingStep ==
    ASSUME ConstantsOK, RingInv, Next \/ UNCHANGED vars
    PROVE  RingInv'
<1>1. CASE Next
  BY <1>1, TransferBegins, Starts, WaitFails, TransferLoops, AreasMove, HardwareMoves, Zenon DEF Next
<1>2. CASE UNCHANGED vars
  <2>1. (insync => InTransit)' /\ Room' = Room
    BY <1>2, RingStays, Zenon DEF vars, pointers, RingInv
  <2>2. RingTypes'
    BY <1>2, Fixed, Zenon DEF vars, RingInv, RingTypes, TypeOK
  <2>3. Modes' /\ moved'
    BY <1>2, Zenon DEF vars, RingInv, Modes
  <2>4. (~prepared => Unprepared)'
    BY <1>2, <2>1, Zenon DEF vars, RingInv, Unprepared
  <2> QED
    BY <2>1, <2>2, <2>3, <2>4, Zenon DEF RingInv
<1> QED
  BY <1>1, <1>2

\* What the invariant says of the ring.
LEMMA RingSays ==
    ASSUME ConstantsOK, RingInv
    PROVE  TypeOK /\ RingHoldsQueue /\ TransferIsComplete /\ HtimestampInBufferIsTrue
<1>1. TypeOK /\ TransferIsComplete
  BY DEF RingInv, RingTypes, TransferIsComplete
<1>2. HtimestampInBufferIsTrue
  BY AvailIsTrue, Zenon DEF RingInv, HtimestampInBufferIsTrue
<1>3. RingHoldsQueue
  <2> SUFFICES ASSUME insync
               PROVE  LET from == IF dir = "playback" THEN hw_ptr ELSE appl_ptr
                      IN  /\ pcm_mmap_avail = IF dir = "playback" THEN BufferSize - Len(queue) ELSE Len(queue)
                          /\ \A i \in 1..Len(queue) : ring[(from + i - 1) % BufferSize] = queue[i]
    BY Zenon DEF RingHoldsQueue
  <2>1. InTransit /\ RingTypes
    BY Zenon DEF RingInv
  <2>2. pcm_mmap_avail = IF dir = "playback" THEN BufferSize - Len(queue) ELSE Len(queue)
    BY <2>1, AvailIsTrue, Zenon
  <2>3. Holds(ring, IF dir = "playback" THEN hw_ptr ELSE appl_ptr, queue)
    BY <2>1, Zenon DEF InTransit
  <2> QED
    BY <2>2, <2>3, Zenon DEF Holds
<1> QED
  BY <1>1, <1>2, <1>3, SMTT(120)

\* For every size of the ring and of a transfer: the ring holds the frames in
\* transit in order, on both sides of the boundary, pcm_mmap_avail is what is
\* free or filled, no transfer returns 0 before it moved all its frames, and a
\* count of pcm_get_htimestamp that fits the buffer is right.
THEOREM RingIsInStep ==
    ASSUME ConstantsOK
    PROVE  Init /\ [][Next]_vars => [](TypeOK /\ RingHoldsQueue /\ TransferIsComplete /\ HtimestampInBufferIsTrue)
<1>1. Init => RingInv
  BY RingStarts
<1>2. RingInv /\ [Next]_vars => RingInv'
  BY RingStep
<1>3. RingInv => TypeOK /\ RingHoldsQueue /\ TransferIsComplete /\ HtimestampInBufferIsTrue
  BY RingSays
<1> QED
  BY <1>1, <1>2, <1>3, PTL
=============================================================================
