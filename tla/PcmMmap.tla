------------------------------ MODULE PcmMmap -------------------------------
(***************************************************************************)
(* Transfers of a tinyalsa handle through the mapped ring buffer           *)
(* (tinyalsa/src/pcm.c, the pcm_mmap functions): the application and the   *)
(* hardware pointer run up to a boundary and wrap, and what is available   *)
(* is worked out from them.  The hardware moves between any two steps.     *)
(***************************************************************************)
EXTENDS Integers, Sequences, FiniteSetsExt

CONSTANTS BufferSize,       \* frames of the ring
          StartThreshold,   \* config.start_threshold
          IntMax,           \* INT_MAX
          MaxCount,         \* most frames of one transfer
          Id                \* ids of frames, 0..k: ghost content

VARIABLES
    dir,        \* "playback" or "capture"
    mapped,     \* the status page is mapped, and there is no sync_ptr
    hw_ptr, appl_ptr,
    ring,       \* ring[i]: the id of the frame at i
    queue,      \* ghost: the frames that were put in and not taken out, in order
    next,       \* ghost: id of the next frame put in
    kernel,     \* "stopped", "running" or "xrun"
    prepared, running,
    count,      \* frames that the transfer still has to do; -1: no transfer
    size,       \* frames that pcm_mmap_transfer_areas still has to do
    moved,      \* ghost: the last transfer that returned 0 moved all its frames
    insync      \* history: FALSE from a failed wait to the next prepare

vars == <<dir, mapped, hw_ptr, appl_ptr, ring, queue, next, kernel, prepared, running, count, size, moved, insync>>
pointers == <<hw_ptr, appl_ptr, ring, queue, next>>

\* "while (pcm->boundary * 2 <= INT_MAX - pcm->buffer_size) pcm->boundary *= 2"
boundary == BufferSize * 2 ^ Max({0} \cup {k \in 1..16 : BufferSize * 2 ^ k <= IntMax - BufferSize})

TypeOK ==
    /\ dir \in {"playback", "capture"}
    /\ hw_ptr \in 0..(boundary - 1) /\ appl_ptr \in 0..boundary
    /\ Len(queue) <= BufferSize
    /\ count \in -1..MaxCount /\ size \in 0..MaxCount
    /\ kernel \in {"stopped", "running", "xrun"}
-----------------------------------------------------------------------------
(* The pointer arithmetic *)

pcm_mmap_playback_avail ==
    LET avail == hw_ptr + BufferSize - appl_ptr
    IN  IF avail < 0 THEN avail + boundary
        ELSE IF avail >= boundary THEN avail - boundary ELSE avail

pcm_mmap_capture_avail ==
    LET avail == hw_ptr - appl_ptr
    IN  IF avail < 0 THEN avail + boundary ELSE avail

pcm_mmap_avail == IF dir = "capture" THEN pcm_mmap_capture_avail ELSE pcm_mmap_playback_avail

pcm_mmap_appl_forward_early(frames) ==
    IF appl_ptr + frames >= boundary - 1 THEN appl_ptr + frames - (boundary - 1) ELSE appl_ptr + frames

pcm_mmap_appl_forward(frames) ==
    IF appl_ptr + frames > boundary THEN appl_ptr + frames - boundary ELSE appl_ptr + frames

\* What of a request is available and continuous.
pcm_mmap_begin(frames) ==
    Min({frames, pcm_mmap_avail, BufferSize, BufferSize - (appl_ptr % BufferSize)})

\* pcm_get_htimestamp's count, which knows nothing of the boundary.
pcm_get_htimestamp ==
    IF dir = "capture" THEN hw_ptr - appl_ptr ELSE hw_ptr + BufferSize - appl_ptr
-----------------------------------------------------------------------------
(* The transfer *)

pcm_mmap_transfer(n) ==
    /\ count = -1
    /\ count' = n /\ size' = 0
    /\ UNCHANGED <<dir, mapped, pointers, kernel, prepared, running, moved, insync>>

Return(all) == count' = -1 /\ size' = 0 /\ moved' = all

\* Enough is queued, as an unsigned difference.
ReachesThreshold ==
    LET queued == BufferSize - pcm_mmap_avail IN queued < 0 \/ queued >= StartThreshold

\* pcm_start: a prepare resets both pointers, and the application's one is
\* then synced again, if by ioctl; a playback stream with nothing queued does
\* not start.
pcm_start ==
    /\ count > 0 /\ size = 0 /\ ~running /\ ReachesThreshold
    /\ prepared' = TRUE
    /\ IF prepared THEN UNCHANGED <<hw_ptr, appl_ptr, queue, insync>>
       ELSE /\ hw_ptr' = 0 /\ insync' = TRUE
            /\ appl_ptr' = IF mapped THEN 0 ELSE appl_ptr
            /\ queue' = IF dir = "playback" THEN [i \in 1..appl_ptr' |-> ring[i - 1]] ELSE <<>>
    /\ IF dir = "playback" /\ appl_ptr' = hw_ptr'
       THEN Return(TRUE) /\ UNCHANGED <<running, kernel>>
       ELSE running' = TRUE /\ kernel' = "running" /\ UNCHANGED <<count, size, moved>>
    /\ UNCHANGED <<dir, mapped, ring, next>>

\* pcm_wait sees the stream's error.
pcm_wait_fails ==
    /\ count > 0 /\ size = 0 /\ running /\ pcm_mmap_avail < 1 /\ kernel = "xrun"
    /\ prepared' = FALSE /\ running' = FALSE /\ appl_ptr' = 0 /\ insync' = FALSE
    /\ kernel' = "stopped" /\ queue' = <<>>
    /\ Return(TRUE)
    /\ UNCHANGED <<dir, mapped, hw_ptr, ring, next>>

\* Frames to move, or the end: a transfer with nothing available that does not
\* run gives up and returns 0.
pcm_mmap_transfer_loop ==
    /\ count >= 0 /\ size = 0
    /\ running \/ ~ReachesThreshold \/ count = 0
    /\ IF count = 0 THEN Return(TRUE)
       ELSE IF pcm_mmap_avail = 0 THEN ~running /\ Return(FALSE)
       ELSE size' = Min({count, pcm_mmap_avail}) /\ UNCHANGED <<count, moved>>
    /\ UNCHANGED <<dir, mapped, pointers, kernel, prepared, running, insync>>

\* One round of pcm_mmap_transfer_areas: begin, copy, commit.  Without sync_ptr
\* pcm_mmap_commit reports failure for the frames that it has moved.
pcm_mmap_transfer_areas ==
    /\ size > 0
    /\ LET n == pcm_mmap_begin(size)
           At(i) == (appl_ptr + i) % BufferSize
           ids == [i \in 1..n |-> (next + i - 1) % Id]
       IN  /\ n > 0
           /\ appl_ptr' = pcm_mmap_appl_forward(n)
           /\ IF mapped THEN Return(TRUE)
              ELSE size' = size - n /\ count' = count - n /\ UNCHANGED moved
           /\ IF dir = "playback"
              THEN /\ ring' = [k \in DOMAIN ring |->
                                 IF \E i \in 1..n : k = At(i - 1)
                                 THEN ids[CHOOSE i \in 1..n : k = At(i - 1)] ELSE ring[k]]
                   /\ queue' = queue \o ids /\ next' = (next + n) % Id
              ELSE queue' = SubSeq(queue, n + 1, Len(queue)) /\ UNCHANGED <<ring, next>>
    /\ UNCHANGED <<dir, mapped, hw_ptr, kernel, prepared, running, insync>>

-----------------------------------------------------------------------------
\* The hardware plays or captures a frame (external).  Playback that runs out
\* stops; capture is taken never to overrun the reader.
Hardware ==
    /\ kernel = "running"
    /\ \/ /\ dir = "playback" /\ queue # <<>>
          /\ queue' = Tail(queue) /\ hw_ptr' = (hw_ptr + 1) % boundary
          /\ UNCHANGED <<ring, next, kernel>>
       \/ /\ dir = "playback" /\ queue = <<>>
          /\ kernel' = "xrun" /\ UNCHANGED <<queue, hw_ptr, ring, next>>
       \/ /\ dir = "capture" /\ Len(queue) < BufferSize
          /\ ring' = [ring EXCEPT ![hw_ptr % BufferSize] = next]
          /\ queue' = Append(queue, next) /\ next' = (next + 1) % Id
          /\ hw_ptr' = (hw_ptr + 1) % boundary
          /\ UNCHANGED kernel
    /\ UNCHANGED <<dir, mapped, appl_ptr, prepared, running, count, size, moved, insync>>

Init ==
    /\ dir \in {"playback", "capture"} /\ mapped \in BOOLEAN
    /\ hw_ptr = 0 /\ appl_ptr = 0 /\ ring = [i \in 0..(BufferSize - 1) |-> 0]
    /\ queue = <<>> /\ next = 0 /\ kernel = "stopped" /\ prepared = FALSE /\ running = FALSE
    /\ count = -1 /\ size = 0 /\ moved = TRUE /\ insync = TRUE

Next ==
    \/ \E n \in 1..MaxCount : pcm_mmap_transfer(n)
    \/ pcm_start \/ pcm_wait_fails \/ pcm_mmap_transfer_loop \/ pcm_mmap_transfer_areas
    \/ Hardware
-----------------------------------------------------------------------------
(* Properties *)

\* The ring holds the frames in transit, in order, from the reader's pointer
\* on, and what pcm_mmap_avail says is what is really free or filled; on both
\* sides of the boundary, and when appl_ptr rests on it.
RingHoldsQueue ==
    LET from == IF dir = "playback" THEN hw_ptr ELSE appl_ptr
    IN  insync => /\ pcm_mmap_avail = IF dir = "playback" THEN BufferSize - Len(queue) ELSE Len(queue)
                  /\ \A i \in 1..Len(queue) : ring[(from + i - 1) % BufferSize] = queue[i]

\* A transfer that returns 0 has moved all its frames.
TransferIsComplete == moved

\* A count of pcm_get_htimestamp that fits the buffer is right; past the
\* boundary it is negative, which is refused, or does not fit.
HtimestampInBufferIsTrue ==
    insync /\ pcm_get_htimestamp \in 0..BufferSize => pcm_get_htimestamp = pcm_mmap_avail
=============================================================================
