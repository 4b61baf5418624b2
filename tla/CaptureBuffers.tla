--------------------------- MODULE CaptureBuffers ---------------------------
(***************************************************************************)
(* The two buffers between a capture device and the reader of a mono input *)
(* stream (audio/audio_hw.c): the buffer that feeds the resampler, and the *)
(* accumulator behind the decompressor of a compressed capture.  From each *)
(* start the device delivers frames (decompressed bytes) 1, 2, 3, ...; the *)
(* reader asks for some number of them at a time, and may put the stream   *)
(* in standby between reads.  The resampler, which calls get_next_buffer   *)
(* until it has what it needs, is taken at ratio 1.                        *)
(***************************************************************************)
EXTENDS Integers, Sequences

CONSTANTS Fragment,    \* frames of one fill; half of the accumulator
          MaxRead,     \* most that the reader asks for
          MaxOutput,   \* most that unshorten_process yields at a time
          Length       \* bound on what the device delivers after a start

VARIABLES
    path,        \* "resampler" or "unshorten"
    captured,    \* frames the device delivered since the start
    buffer,      \* rsp->buffer / accumulator_buf
    frames_in,   \* frames_in / accumulator_avail: what is not delivered yet
    delivered,   \* what the reader got since the start
    claimed,     \* the sum of the counts that the reads returned
    junk,        \* frames_in when the stream was started
    lost         \* frames consumed by reads that failed

vars == <<path, captured, buffer, frames_in, delivered, claimed, junk, lost>>

TypeOK ==
    /\ path \in {"resampler", "unshorten"}
    /\ captured \in 0..Length
    /\ Len(buffer) <= 2 * Fragment /\ frames_in \in 0..Len(buffer)
    /\ {claimed, junk, lost} \subseteq Nat

Frames(first, count) == [i \in 1..count |-> first + i - 1]
AtMost(n, bound) == IF n > bound THEN bound ELSE n

-----------------------------------------------------------------------------
(* The resampler *)

get_next_buffer_restart(s, want) ==
    LET fill == s.in = 0
        b == IF fill THEN Frames(s.captured + 1, Fragment) ELSE s.buffer
        in == IF fill THEN Fragment ELSE s.in
        n == AtMost(want, in)
    IN  [captured |-> IF fill THEN s.captured + Fragment ELSE s.captured,
         buffer |-> b, in |-> in - n, got |-> s.got \o SubSeq(b, 1, n)]

\* get_next_buffer and release_buffer: an empty buffer is filled; at most what
\* is left in it is handed out, from the first frame not handed out yet.
get_next_buffer(s, want) ==
    LET fill == s.in = 0
        b == IF fill THEN Frames(s.captured + 1, Fragment) ELSE s.buffer
        in == IF fill THEN Fragment ELSE s.in
        n == AtMost(want, in)
        from == Len(b) - in
    IN  [captured |-> IF fill THEN s.captured + Fragment ELSE s.captured,
         buffer |-> b, in |-> in - n, got |-> s.got \o SubSeq(b, from + 1, from + n)]

\* One call of the resampler delivers all frames, unless a fill fails.
read_resampled_frames(frames) ==
    LET calls[i \in 0..frames] ==
          IF i = 0 THEN [captured |-> captured, buffer |-> buffer, in |-> frames_in, got |-> <<>>]
          ELSE LET s == calls[i - 1]
               IN  IF Len(s.got) < frames THEN get_next_buffer(s, frames - Len(s.got)) ELSE s
    IN  calls[frames]

\* "Assume any non-negative return is a successful read"
do_in_pcm_read(frames) ==
    /\ path = "resampler" /\ captured + frames + Fragment <= Length
    /\ LET s == read_resampled_frames(frames)
       IN  /\ captured' = s.captured /\ buffer' = s.buffer /\ frames_in' = s.in
           /\ delivered' = delivered \o s.got
    /\ claimed' = claimed + frames
    /\ UNCHANGED <<path, junk, lost>>

\* pcm_readi fails after the rest of the buffer was taken: the read returns
\* the error, and what it took is not seen again.
do_in_pcm_read_fails(frames) ==
    /\ path = "resampler" /\ frames_in < frames
    /\ lost' = lost + frames_in /\ frames_in' = 0
    /\ UNCHANGED <<path, captured, buffer, delivered, claimed, junk>>

-----------------------------------------------------------------------------
(* The decompressor *)

\* What a read takes of the accumulator and of the outputs that follow, and
\* what of the last output it puts into the accumulator.
in_unshorten_read(bytes, output) ==
    LET carried == AtMost(frames_in, bytes)
        count == bytes - carried
        outputs == (count + output - 1) \div output
    IN  [carried |-> carried, count |-> count, outputs |-> outputs,
         kept |-> AtMost(outputs * output - count, 2 * Fragment)]

\* in_unshorten_read over the bytes: the device may run dry, or its data be
\* corrupt, after some outputs.  Then less than was asked for is returned.
do_in_compress_pcm_read(bytes, output, dry) ==
    /\ path = "unshorten"
    /\ LET r == in_unshorten_read(bytes, output)
           from == Len(buffer) - frames_in
           n == AtMost(dry, r.outputs)
           count == AtMost(r.count, n * output)
       IN  /\ captured + n * output <= Length
           /\ captured' = captured + n * output
           /\ delivered' = delivered \o SubSeq(buffer, from + 1, from + r.carried)
                                     \o Frames(captured + 1, count)
           /\ claimed' = claimed + r.carried + count
           /\ IF n * output > count
              THEN buffer' = Frames(captured + count + 1, r.kept) /\ frames_in' = r.kept
              ELSE UNCHANGED buffer /\ frames_in' = frames_in - r.carried
    /\ UNCHANGED <<path, junk, lost>>

-----------------------------------------------------------------------------
\* Standby and the next start.  in_resampler_init allocates a new buffer and
\* leaves frames_in alone; in_unshorten_init empties the accumulator.
restart ==
    /\ captured > 0
    /\ captured' = 0 /\ delivered' = <<>> /\ claimed' = 0 /\ lost' = 0
    /\ IF path = "resampler"
       THEN buffer' = [i \in 1..Fragment |-> 0] /\ junk' = frames_in /\ UNCHANGED frames_in
       ELSE buffer' = <<>> /\ junk' = 0 /\ frames_in' = 0
    /\ UNCHANGED path

Init ==
    /\ path \in {"resampler", "unshorten"}
    /\ captured = 0 /\ buffer = <<>> /\ frames_in = 0 /\ delivered = <<>>
    /\ claimed = 0 /\ junk = 0 /\ lost = 0

Next ==
    \/ \E frames \in 1..MaxRead : do_in_pcm_read(frames) \/ do_in_pcm_read_fails(frames)
    \/ \E bytes \in 1..MaxRead, output \in 1..MaxOutput, dry \in 0..MaxRead :
         do_in_compress_pcm_read(bytes, output, dry)
    \/ restart
-----------------------------------------------------------------------------
(* Properties *)

\* The reader gets what the device captured since the start, in order, each
\* frame once, however the sizes of its reads, of the fills and of the
\* decompressor's outputs fall; what is missing is in the buffer or went with
\* a read that failed.  Before it come the frames of the new buffer that the
\* last session's frames_in counts as filled.
DeliveredInOrder ==
    LET unread == SubSeq(buffer, Len(buffer) - frames_in + 1, Len(buffer))
        seen == delivered \o unread
        real == SelectSeq(seen, LAMBDA f : f # 0)
    IN  /\ \A i, j \in 1..Len(real) : i < j => real[i] < real[j]
        /\ Len(real) + lost >= captured
        /\ Len(seen) + lost = captured + junk

\* The counts that the reads return are what they delivered.
CountsAreTrue == claimed = Len(delivered)
=============================================================================
