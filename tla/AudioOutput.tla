---------------------------- MODULE AudioOutput -----------------------------
(***************************************************************************)
(* PCM output streams of the audio HAL (audio/audio_hw.c) that share one   *)
(* hardware stream of the configuration manager.  A stream's writes run on *)
(* its own playback thread; routing commands and closes come from others.  *)
(* get_current_routes is read before out->common.lock is taken.            *)
(***************************************************************************)
EXTENDS Integers

CONSTANTS Out,          \* output streams
          Devices,      \* devices that the hardware stream can reach
          MaxRefCount   \* instances of the hardware stream

VARIABLES
    out,        \* out[o]: closed, or [standby, pcm: the node that out->pcm is]
    step,       \* step[o]: where o's write is
    routes,     \* current devices of the hardware stream
    ref_count,
    overtaken   \* history: the last route went away after o's write looked

vars == <<out, step, routes, ref_count, overtaken>>

Stream == [standby : BOOLEAN, pcm : {"none", "open", "freed"}]
Closed == [standby |-> TRUE, pcm |-> "closed"]

TypeOK ==
    /\ out \in [Out -> Stream \cup {Closed}]
    /\ step \in [Out -> {"idle", "write"}]
    /\ routes \subseteq Devices
    /\ ref_count \in 0..MaxRefCount

IsOpen(o) == out[o] # Closed

\* apply_route, with what it means for the writes that have looked already.
apply_route(devices) ==
    /\ routes' = devices
    /\ overtaken' = [o \in Out |-> step[o] = "write" /\ (overtaken[o] \/ devices = {})]

\* get_stream, do_init_out_common with the initial route, do_init_out_pcm.
adev_open_output_stream(o, devices) ==
    /\ ~IsOpen(o) /\ ref_count < MaxRefCount
    /\ ref_count' = ref_count + 1
    /\ out' = [out EXCEPT ![o] = [standby |-> TRUE, pcm |-> "none"]]
    /\ apply_route(devices)
    /\ UNCHANGED step

out_set_parameters(o, devices) ==
    /\ IsOpen(o)
    /\ apply_route(devices)
    /\ UNCHANGED <<out, step, ref_count>>

\* A stream that is connected to nothing writes nothing and says 0.
out_pcm_write(o) ==
    /\ IsOpen(o) /\ step[o] = "idle" /\ routes # {}
    /\ step' = [step EXCEPT ![o] = "write"]
    /\ overtaken' = [overtaken EXCEPT ![o] = FALSE]
    /\ UNCHANGED <<out, routes, ref_count>>

\* A node that is not ready is closed, and out->pcm still points to it.
start_output_pcm(o) == [standby |-> TRUE, pcm |-> "freed"]

\* Under the lock: open the node if in standby, and pcm_writei.
out_pcm_write_locked(o) ==
    /\ step[o] = "write"
    /\ step' = [step EXCEPT ![o] = "idle"]
    /\ overtaken' = [overtaken EXCEPT ![o] = FALSE]
    /\ \/ out' = [out EXCEPT ![o] = [standby |-> FALSE, pcm |-> "open"]]
       \/ out[o].standby /\ out' = [out EXCEPT ![o] = start_output_pcm(o)]
    /\ UNCHANGED <<routes, ref_count>>

do_out_pcm_standby(o) ==
    IF out[o].standby THEN out[o] ELSE [standby |-> TRUE, pcm |-> "none"]

out_pcm_standby(o) ==
    /\ IsOpen(o)
    /\ out' = [out EXCEPT ![o] = do_out_pcm_standby(o)]
    /\ UNCHANGED <<step, routes, ref_count, overtaken>>

\* Standby, and the release of the hardware stream: the last one disconnects it.
do_close_out_pcm(o) ==
    /\ IsOpen(o) /\ step[o] = "idle"
    /\ out' = [out EXCEPT ![o] = Closed]
    /\ ref_count' = ref_count - 1
    /\ IF ref_count = 1 THEN apply_route({}) ELSE UNCHANGED <<routes, overtaken>>
    /\ UNCHANGED step

Init ==
    /\ out = [o \in Out |-> Closed]
    /\ step = [o \in Out |-> "idle"]
    /\ routes = {} /\ ref_count = 0
    /\ overtaken = [o \in Out |-> FALSE]

Next == \E o \in Out :
    \/ \E devices \in SUBSET Devices : adev_open_output_stream(o, devices) \/ out_set_parameters(o, devices)
    \/ out_pcm_write(o) \/ out_pcm_write_locked(o) \/ out_pcm_standby(o) \/ do_close_out_pcm(o)
-----------------------------------------------------------------------------
(* Properties *)

\* "We shouldn't issue any write commands because we can't be sure that the
\* driver will accept a write to nowhere": a write that goes to the driver
\* goes to some device, unless a routing command of any stream of the same
\* hardware took the last device away after the write had looked.
WriteGoesSomewhere == \A o \in Out : step[o] = "write" => routes # {} \/ overtaken[o]

\* A stream that is out of standby has a live node: after a failed start
\* out->pcm is a freed node, and neither a write nor a standby touches it.
ActiveNodeIsLive == \A o \in Out : IsOpen(o) => (~out[o].standby <=> out[o].pcm = "open")
=============================================================================
