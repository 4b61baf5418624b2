-------------------------- MODULE CompressOutput ----------------------------
(***************************************************************************)
(* A compressed output stream of the audio HAL (audio/audio_hw.c, compiled *)
(* with TINYHAL_COMPRESS_PLAYBACK).  Three threads: the player, which      *)
(* writes, drains and closes; a controller, which puts the stream in       *)
(* standby, pauses, resumes and flushes it; and the worker that the stream *)
(* starts for a callback, which waits for the driver in their place.       *)
(* A section under common.lock or async_common.mutex is one step.          *)
(***************************************************************************)
EXTENDS Integers, Sequences

VARIABLES
    compress,    \* the device node: "closed" or "open"
    started, paused,
    use_async, mode, exit,   \* use_async and async->stream are assigned together
    player,      \* step of the player's call
    worker,      \* step of the worker
    request,     \* the request that the worker has picked up
    bound,       \* the worker's own copy of the stream pointer is not NULL
    missed,      \* history: a signal was sent while the worker did not wait
    tally        \* history: parities of the requests accepted and of the callbacks

vars == <<compress, started, paused, use_async, mode, exit, player, worker,
          request, bound, missed, tally>>
asyncVars == <<use_async, mode, exit, worker, request, bound, missed, tally>>
nodeVars == <<compress, started, paused>>

TypeOK ==
    /\ compress \in {"closed", "open"}
    /\ {started, paused, use_async, exit, bound, missed} \subseteq BOOLEAN
    /\ tally \in [asked : 0..1, answered : 0..1]
    /\ mode \in {"none", "poll", "early drain", "full drain"}
    /\ player \in {"none", "idle", "write", "start", "signal", "callback set", "closing", "joining"}
    /\ worker \in {"none", "new", "top", "entering", "waiting", "woken", "working", "exited"}
-----------------------------------------------------------------------------
(* The device node. *)

\* "prevents standby while in pause"
do_standby_compress_l ==
    IF compress = "open" /\ ~paused
    THEN compress' = "closed" /\ started' = FALSE /\ UNCHANGED paused
    ELSE UNCHANGED nodeVars

Controllable == player \notin {"none", "closing", "joining"}

out_compress_standby ==
    /\ Controllable
    /\ do_standby_compress_l
    /\ UNCHANGED <<asyncVars, player>>

out_compress_pause ==
    /\ Controllable /\ ~paused /\ compress = "open"
    /\ paused' = TRUE
    /\ UNCHANGED <<compress, started, asyncVars, player>>

out_compress_resume ==
    /\ Controllable /\ paused /\ compress = "open"
    /\ paused' = FALSE
    /\ UNCHANGED <<compress, started, asyncVars, player>>

out_compress_flush ==
    /\ Controllable /\ compress = "open" /\ started
    /\ paused' = FALSE /\ started' = FALSE
    /\ UNCHANGED <<compress, asyncVars, player>>
-----------------------------------------------------------------------------
(* The player. *)

\* adev_open_output_stream, do_init_out_compress: the node is opened to learn
\* its buffer size; a stream whose node does not open is not created.
do_init_out_compress ==
    /\ player = "none"
    /\ player' = "idle" /\ compress' = "open"
    /\ UNCHANGED <<started, paused, asyncVars>>

\* open_output_compress: a node that cannot be opened fails the write.
writeOpen ==
    /\ player = "idle"
    /\ \/ compress' = "open" /\ player' = "write"
       \/ compress = "closed" /\ UNCHANGED <<compress, player>>
    /\ UNCHANGED <<started, paused, asyncVars>>

\* compress_write, without a lock: an error, all bytes, or some of them.
writeData ==
    /\ player = "write"
    /\ \E outcome \in {"error", "all", "partial"} :
         player' = CASE outcome = "error" -> "idle"
                     [] outcome # "error" /\ ~started -> "start"
                     [] outcome = "partial" /\ started /\ use_async -> "signal"
                     [] OTHER -> "idle"
    /\ UNCHANGED <<nodeVars, asyncVars>>

\* start_output_compress: a failed start puts the stream in standby.
writeStart ==
    /\ player = "start"
    /\ \/ /\ compress = "open"
          /\ started' = TRUE /\ player' \in (IF use_async THEN {"signal", "idle"} ELSE {"idle"})
          /\ UNCHANGED <<compress, paused>>
       \/ do_standby_compress_l /\ player' = "idle"
    /\ UNCHANGED asyncVars

\* pthread_cond_signal wakes the worker if it waits, and is lost otherwise.
Signal ==
    /\ worker' = IF worker = "waiting" THEN "woken" ELSE worker
    /\ missed' = (missed \/ worker # "waiting")

\* History: one more request was accepted, or one more callback made.
Flip(side) == tally' = [tally EXCEPT ![side] = 1 - @]

\* signal_async_thread: -EBUSY while the last request is not picked up.
signal_async_thread(m) ==
    IF mode # "none" THEN UNCHANGED <<mode, worker, missed, tally>>
    ELSE mode' = m /\ Signal /\ Flip("asked")

writeSignal ==
    /\ player = "signal"
    /\ player' = "idle"
    /\ signal_async_thread("poll")
    /\ UNCHANGED <<nodeVars, use_async, exit, request, bound>>

\* Without a worker the drain is done in place.
out_compress_drain(type) ==
    /\ player = "idle"
    /\ IF use_async
       THEN signal_async_thread(type) /\ UNCHANGED started
       ELSE started' = FALSE /\ UNCHANGED <<mode, worker, missed, tally>>
    /\ UNCHANGED <<compress, paused, use_async, exit, request, bound, player>>

\* out_set_callback: the worker runs before the stream pointer is assigned.
setCallbackCreate ==
    /\ player = "idle" /\ ~use_async
    /\ worker' = "new" /\ exit' = FALSE /\ player' = "callback set"
    /\ UNCHANGED <<nodeVars, use_async, mode, request, bound, missed, tally>>

setCallbackAssign ==
    /\ player = "callback set"
    /\ use_async' = TRUE /\ player' = "idle"
    /\ UNCHANGED <<nodeVars, mode, exit, worker, request, bound, missed, tally>>

\* out_compress_close: a paused stream is closed too.
out_compress_close ==
    /\ player = "idle"
    /\ player' = "closing"
    /\ paused' = FALSE /\ compress' = "closed" /\ started' = FALSE
    /\ UNCHANGED asyncVars

do_close_out_common_noSignal ==
    /\ player = "closing"
    /\ player' = "joining"
    /\ exit' = use_async
    /\ UNCHANGED <<nodeVars, use_async, mode, worker, request, bound, missed, tally>>

\* do_close_out_common, up to pthread_join.
do_close_out_common ==
    /\ player = "closing"
    /\ player' = "joining"
    /\ IF use_async THEN exit' = TRUE /\ Signal ELSE UNCHANGED <<exit, worker, missed>>
    /\ UNCHANGED <<nodeVars, use_async, mode, request, bound, tally>>

Gone ==
    /\ player' = "none" /\ worker' = "none" /\ mode' = "none" /\ request' = "none"
    /\ use_async' = FALSE /\ exit' = FALSE /\ bound' = FALSE /\ missed' = FALSE
    /\ tally' = [asked |-> 0, answered |-> 0]

\* pthread_join, release_stream and free.
closeJoin ==
    /\ player = "joining" /\ (use_async => worker = "exited")
    /\ Gone
    /\ UNCHANGED nodeVars
-----------------------------------------------------------------------------
(* The worker, out_compress_async_fn. *)

workerStart ==
    /\ worker = "new"
    /\ worker' = "top" /\ bound' = use_async
    /\ UNCHANGED <<nodeVars, use_async, mode, exit, request, missed, tally, player>>

workerTop ==
    /\ worker = "top"
    /\ worker' = IF exit THEN "exited" ELSE "entering"
    /\ UNCHANGED <<nodeVars, use_async, mode, exit, request, bound, missed, tally, player>>

\* pthread_cond_wait, whatever mode and exit are by now.
workerWait ==
    /\ worker = "entering"
    /\ worker' = "waiting"
    /\ UNCHANGED <<nodeVars, use_async, mode, exit, request, bound, missed, tally, player>>

workerSpuriousWakeup ==
    /\ worker = "waiting"
    /\ worker' = "woken"
    /\ UNCHANGED <<nodeVars, use_async, mode, exit, request, bound, missed, tally, player>>

workerPick_keepsMode ==
    /\ worker = "woken"
    /\ IF exit THEN worker' = "exited" /\ UNCHANGED <<mode, request>>
       ELSE worker' = "working" /\ request' = mode /\ UNCHANGED mode
    /\ UNCHANGED <<nodeVars, use_async, exit, bound, missed, tally, player>>

\* An exit leaves the mutex locked, which nobody asks for any more.
workerPick ==
    /\ worker = "woken"
    /\ IF exit THEN worker' = "exited" /\ UNCHANGED <<mode, request>>
       ELSE worker' = "working" /\ request' = mode /\ mode' = "none"
    /\ UNCHANGED <<nodeVars, use_async, exit, bound, missed, tally, player>>

\* Waits for the driver, without a lock, and calls back.  A drain also ends
\* the playback as far as the stream is concerned.
workerAnswer ==
    /\ worker = "working" /\ (request = "none" \/ bound)
    /\ worker' = "top" /\ request' = "none"
    /\ started' = IF request \in {"early drain", "full drain"} THEN FALSE ELSE started
    /\ IF request = "none" THEN UNCHANGED tally ELSE Flip("answered")
    /\ UNCHANGED <<compress, paused, use_async, mode, exit, bound, missed, player>>

\* A worker that read the stream pointer before it was assigned takes the
\* process down with its first request.
workerCrash ==
    /\ worker = "working" /\ request # "none" /\ ~bound
    /\ Gone
    /\ compress' = "closed" /\ started' = FALSE /\ paused' = FALSE
-----------------------------------------------------------------------------
Init ==
    /\ compress = "closed" /\ started = FALSE /\ paused = FALSE
    /\ use_async = FALSE /\ mode = "none" /\ exit = FALSE
    /\ player = "none" /\ worker = "none" /\ request = "none" /\ bound = FALSE
    /\ missed = FALSE /\ tally = [asked |-> 0, answered |-> 0]

WorkerNext == workerStart \/ workerTop \/ workerWait \/ workerPick \/ workerAnswer \/ workerCrash

PlayerInCall == writeData \/ writeStart \/ writeSignal \/ setCallbackAssign \/ do_close_out_common \/ closeJoin

Next ==
    \/ out_compress_standby \/ out_compress_pause \/ out_compress_resume \/ out_compress_flush
    \/ do_init_out_compress \/ writeOpen \/ setCallbackCreate \/ out_compress_close
    \/ \E type \in {"early drain", "full drain"} : out_compress_drain(type)
    \/ PlayerInCall
    \/ WorkerNext \/ workerSpuriousWakeup

Spec == Init /\ [][Next]_vars

\* A call that has begun goes on, and the worker runs; the driver makes
\* progress, so compress_wait and compress_drain return.
Fairness == WF_vars(PlayerInCall) /\ WF_vars(WorkerNext)
-----------------------------------------------------------------------------
(* Properties *)

\* The stream implements AsyncContract: what it owes is what the worker has
\* picked up and what is left in mode; the two tallies tell a request of the
\* player and a callback from a change of mode.
Owed == (IF request = "none" THEN <<>> ELSE <<request>>) \o (IF mode = "none" THEN <<>> ELSE <<mode>>)
Contract == INSTANCE AsyncContract WITH owed <- Owed, asked <- tally.asked,
    answered <- tally.answered
ImplementsAsync == Contract!Spec

\* A paused stream keeps its node, however standby, a failing start and a
\* flush interleave, and a stream that is not open is not started: resume
\* always finds what pause left.
PausedKeepsNode == (paused \/ started) => compress = "open"

\* A request that is accepted while the worker waits is picked up.  One that
\* is signalled before the worker waits is not: the wait does not look at mode.
RequestPickedUp == (mode # "none") ~> (mode = "none" \/ missed)

\* A close returns, unless its signal was sent before the worker waited.
CloseReturns == (player = "joining") ~> (player # "joining" \/ missed)

=============================================================================
