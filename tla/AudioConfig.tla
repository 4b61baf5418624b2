---- MODULE AudioConfig ----
(***************************************************************************)
(* The audio configuration manager (configmgr/audio_config.c) once the     *)
(* configuration file is parsed: hardware streams with reference counts,   *)
(* devices with use counts, and the ALSA mixer controls that the labelled  *)
(* paths of a device set when a stream is opened, routed and released.     *)
(*                                                                         *)
(* A client is one stream of the audio HAL (audio/audio_hw.c) holding at   *)
(* most one hardware stream.  Several clients may share a hardware stream. *)
(* Everything under cm->lock is one step; apply_route computes what        *)
(* changes BEFORE it takes the lock, so it is two steps.                   *)
(*                                                                         *)
(* Device masks are sets of bits; "IN" is AUDIO_DEVICE_BIT_IN.  The same   *)
(* bit may stand for an input and for an output device, as in Android.     *)
(***************************************************************************)
EXTENDS Integers, Sequences, SequencesExt, FiniteSets, FiniteSetsExt

CONSTANTS
    Client,       \* streams of the HAL
    Devices,      \* sequence of [type, paths]; paths: path id -> sequence of ctls
    Streams,      \* sequence of [type, name, enable_path, disable_path, max_ref_count,
                  \*              volume, usecases]
    Routes,       \* device masks the framework asks for
    Percent,      \* volume percentages the framework asks for
    InitialMixer, \* value of every mixer control after the init path
    MissingCtls,  \* controls that the configuration names and the card lacks
    MaxRaces      \* bound on the overlapping routings of one stream

Device == DOMAIN Devices
Stream == DOMAIN Streams
NoStream == 0
NoName == "anonymous"

ASSUME ConfigAssumption ==
    /\ IsFiniteSet(Client)
    /\ Len(Devices) \in Nat /\ Device = 1..Len(Devices)
    /\ Len(Streams) \in Nat /\ Stream = 1..Len(Streams)
    /\ \A s \in Stream : Streams[s].max_ref_count \in Nat
    /\ MaxRaces \in Nat

NoCall == [devices |-> {}, enabling |-> {}, disabling |-> {}, running |-> FALSE]

VARIABLES
    mixer,           \* value of each mixer control
    use_count,       \* of each device
    ref_count,       \* of each stream
    current_devices, \* mask each stream is routed to
    hw,              \* stream that each client holds
    call,            \* apply_route of each client, between its read and its lock
    races            \* history: how often two apply_routes of one stream overlapped

vars == <<mixer, use_count, ref_count, current_devices, hw, call, races>>

TypeOK ==
    /\ use_count \in [Device -> Int]
    /\ ref_count \in [Stream -> Nat]
    /\ current_devices \in [Stream -> Routes \cup {{}}]
    /\ hw \in [Client -> {NoStream} \cup Stream]
    /\ \A c \in Client : call[c].running => hw[c] # NoStream
    /\ races \in 0..MaxRaces

---------------------------------------------------------------------------
(* Applying paths.  A configuration state is [mixer, use_count].           *)

\* Sets the controls in order and stops at the first that cannot be opened.
apply_ctls_l(m, ctls) ==
    LET open == SelectInSeq(ctls, LAMBDA ctl : ctl.name \in MissingCtls)
        done == IF open = 0 THEN ctls ELSE SubSeq(ctls, 1, open - 1)
    IN  FoldLeft(LAMBDA acc, ctl : [acc EXCEPT ![ctl.name] = ctl.val], m, done)

\* "on" and "off" are counted and take effect on the first use and the last.
apply_device_path_l(cfg, d, id) ==
    LET count == CASE id = "off" -> cfg.use_count[d] - 1
                   [] id = "on"  -> cfg.use_count[d] + 1
                   [] OTHER      -> cfg.use_count[d]
        skip  == \/ id = "off" /\ count > 0
                 \/ id = "on" /\ count > 1
    IN  [mixer |-> IF skip THEN cfg.mixer ELSE apply_ctls_l(cfg.mixer, Devices[d].paths[id]),
         use_count |-> [cfg.use_count EXCEPT ![d] = count]]

Defines(d, id) == id \in DOMAIN Devices[d].paths

\* The paths of device d among the two ids, first_id first.
apply_paths_by_id_l(cfg, d, first_id, second_id) ==
    LET first == IF Defines(d, first_id) THEN apply_device_path_l(cfg, d, first_id) ELSE cfg
    IN  IF Defines(d, second_id) /\ second_id # first_id
        THEN apply_device_path_l(first, d, second_id) ELSE first

\* Each bit goes to the first device of the list that has it.  A mask with
\* the IN bit matches input devices only; without it, any device.
Reached(devices, d) ==
    LET input_flag == devices \cap {"IN"}
        Matches(e) == input_flag \subseteq Devices[e].type
    IN  /\ Matches(d)
        /\ \E bit \in Devices[d].type \cap (devices \ {"IN"}) :
              \A e \in 1..(d - 1) : Matches(e) => bit \notin Devices[e].type

\* The devices reached are counted each on its own; what they set on the
\* mixer is set in the order of the list.
apply_paths_to_devices_l(cfg, devices, first_id, second_id) ==
    LET reached == {d \in Device : Reached(devices, d)}
        Applied(m, d) == apply_paths_by_id_l([cfg EXCEPT !.mixer = m], d, first_id, second_id)
        after[d \in 0..Len(Devices)] ==
            IF d = 0 THEN cfg.mixer
            ELSE IF d \in reached THEN Applied(after[d - 1], d).mixer ELSE after[d - 1]
    IN  [mixer |-> after[Len(Devices)],
         use_count |-> [d \in Device |-> IF d \in reached THEN Applied(cfg.mixer, d).use_count[d]
                                         ELSE cfg.use_count[d]]]

\* The global device is the first one without a type.
apply_paths_to_global_l(cfg, first_id, second_id) ==
    LET global == {d \in Device : Devices[d].type = {}}
    IN  IF global = {} THEN cfg ELSE apply_paths_by_id_l(cfg, Min(global), first_id, second_id)

Configuration == [mixer |-> mixer, use_count |-> use_count]

Configured(cfg) == mixer' = cfg.mixer /\ use_count' = cfg.use_count

---------------------------------------------------------------------------
(* Streams.                                                                *)

stream_is_input(s) == Streams[s].type \in {"in_pcm", "in_compress", "in_hw"}

CanOpen_offByOne(s) == ref_count[s] <= Streams[s].max_ref_count

CanOpen(s) == ref_count[s] < Streams[s].max_ref_count

open_stream_l(c, s) ==
    /\ CanOpen(s)
    /\ ref_count' = [ref_count EXCEPT ![s] = @ + 1]
    /\ Configured(IF ref_count[s] = 0
                  THEN apply_paths_to_global_l(Configuration, "on", Streams[s].enable_path)
                  ELSE Configuration)
    /\ hw' = [hw EXCEPT ![c] = s]
    /\ UNCHANGED <<current_devices, call, races>>

\* The last stream of the type that has a reference left.
get_stream(c, type) ==
    LET free == {s \in Stream : Streams[s].type = type /\ CanOpen(s)}
    IN  /\ hw[c] = NoStream
        /\ free # {}
        /\ open_stream_l(c, Max(free))

\* The first stream of that name, when it has a reference left.
get_named_stream(c, name) ==
    LET named == {s \in Stream : Streams[s].name = name /\ name # NoName}
    IN  /\ hw[c] = NoStream
        /\ named # {}
        /\ open_stream_l(c, Min(named))

release_stream_keepsDevices(c) ==
    LET s == hw[c]
    IN  /\ s # NoStream
        /\ ~call[c].running
        /\ ref_count' = [ref_count EXCEPT ![s] = @ - 1]
        /\ Configured(IF ref_count[s] = 1
                      THEN apply_paths_to_global_l(Configuration, Streams[s].disable_path, "off")
                      ELSE Configuration)
        /\ current_devices' = [current_devices EXCEPT ![s] = IF ref_count[s] = 1 THEN {} ELSE @]
        /\ hw' = [hw EXCEPT ![c] = NoStream]
        /\ UNCHANGED <<call, races>>

\* The last reference disconnects the stream from every device.
release_stream(c) ==
    LET s    == hw[c]
        last == ref_count[s] = 1
        off  == apply_paths_to_devices_l(Configuration, current_devices[s],
                                         "off", Streams[s].disable_path)
    IN  /\ s # NoStream
        /\ ~call[c].running
        /\ ref_count' = [ref_count EXCEPT ![s] = @ - 1]
        /\ Configured(IF last
                      THEN apply_paths_to_global_l(off, Streams[s].disable_path, "off")
                      ELSE Configuration)
        /\ current_devices' = [current_devices EXCEPT ![s] = IF last THEN {} ELSE @]
        /\ hw' = [hw EXCEPT ![c] = NoStream]
        /\ UNCHANGED <<call, races>>

---------------------------------------------------------------------------
(* Routing.                                                                *)

\* apply_route up to the lock: what changes, and the check of the direction.
applyRouteRead(c, devices) ==
    LET s == hw[c]
    IN  /\ s # NoStream
        /\ ~call[c].running
        /\ devices # {} => ("IN" \in devices <=> stream_is_input(s))
        /\ call' = [call EXCEPT ![c] = [devices   |-> devices,
                                        enabling  |-> devices \ current_devices[s],
                                        disabling |-> current_devices[s] \ devices,
                                        running   |-> TRUE]]
        /\ races' = races + (IF \E o \in Client \ {c} : hw[o] = s /\ call[o].running THEN 1 ELSE 0)
        /\ races' <= MaxRaces
        /\ UNCHANGED <<mixer, use_count, ref_count, current_devices, hw>>

\* apply_route under the lock: disconnect, connect, remember.
applyRouteLocked(c) ==
    LET s   == hw[c]
        off == apply_paths_to_devices_l(Configuration, call[c].disabling,
                                        Streams[s].disable_path, "off")
    IN  /\ call[c].running
        /\ Configured(apply_paths_to_devices_l(off, call[c].enabling,
                                               "on", Streams[s].enable_path))
        /\ current_devices' = [current_devices EXCEPT ![s] = call[c].devices]
        /\ call' = [call EXCEPT ![c] = NoCall]
        /\ UNCHANGED <<ref_count, hw, races>>

---------------------------------------------------------------------------
(* Volume and use cases.                                                   *)

VolumeLevel(volume, percent) ==
    CASE percent = 0   -> volume.min
      [] percent = 100 -> volume.max
      [] OTHER         -> volume.min + ((percent * (volume.max - volume.min)) \div 100)

set_vol_ctl(m, volume, percent) == [m EXCEPT ![volume.name] = VolumeLevel(volume, percent)]

\* Stream s has no, a mono (left only) or a stereo volume control.
set_hw_volume(c, left_pc, right_pc) ==
    LET s      == hw[c]
        volume == Streams[s].volume
    IN  /\ s # NoStream
        /\ Len(volume) > 0
        /\ mixer' = IF Len(volume) = 1
                    THEN set_vol_ctl(mixer, volume[1], (left_pc + right_pc) \div 2)
                    ELSE set_vol_ctl(set_vol_ctl(mixer, volume[1], left_pc), volume[2], right_pc)
        /\ UNCHANGED <<use_count, ref_count, current_devices, hw, call, races>>

\* Runs inside the client's call, as apply_route does, but wholly under the lock.
apply_use_case(c, case) ==
    /\ hw[c] # NoStream
    /\ ~call[c].running
    /\ case \in DOMAIN Streams[hw[c]].usecases
    /\ mixer' = apply_ctls_l(mixer, Streams[hw[c]].usecases[case])
    /\ UNCHANGED <<use_count, ref_count, current_devices, hw, call, races>>

---------------------------------------------------------------------------
Init ==
    /\ mixer = InitialMixer
    /\ use_count = [d \in Device |-> 0]
    /\ ref_count = [s \in Stream |-> 0]
    /\ current_devices = [s \in Stream |-> {}]
    /\ hw = [c \in Client |-> NoStream]
    /\ call = [c \in Client |-> NoCall]
    /\ races = 0

Cases == UNION {DOMAIN Streams[s].usecases : s \in Stream}

Next ==
    \E c \in Client :
        \/ \E s \in Stream : get_stream(c, Streams[s].type)
        \/ \E s \in Stream : get_named_stream(c, Streams[s].name)
        \/ release_stream(c)
        \/ \E devices \in Routes : applyRouteRead(c, devices)
        \/ applyRouteLocked(c)
        \/ \E left_pc, right_pc \in Percent : set_hw_volume(c, left_pc, right_pc)
        \/ \E case \in Cases : apply_use_case(c, case)

Spec == Init /\ [][Next]_vars

---------------------------------------------------------------------------
(* Properties.                                                             *)

IsGlobal(d) == Devices[d].type = {}

\* Stream s is connected to device d of its own direction.
Connected(s, d) ==
    /\ "IN" \in Devices[d].type <=> stream_is_input(s)
    /\ (Devices[d].type \ {"IN"}) \cap current_devices[s] # {}

\* The streams that use device d; every open stream uses the global one.
Users(d) == {s \in Stream : IF IsGlobal(d) THEN ref_count[s] > 0 ELSE Connected(s, d)}

\* The settings of a path are in force.
InForce(d, id) ==
    Defines(d, id) =>
        \A i \in DOMAIN Devices[d].paths[id] :
            mixer[Devices[d].paths[id][i].name] = Devices[d].paths[id][i].val

\* A configuration that keeps its devices apart: one device per bit, at most
\* one global device, masks that name a device by all its bits and with its
\* direction, and stream labels that are not the opposite switch.
DevicesApart ==
    /\ \A d, e \in Device : d # e => /\ Devices[d].type \cap Devices[e].type \subseteq {"IN"}
                                     /\ ~(IsGlobal(d) /\ IsGlobal(e))
    /\ \A r \in Routes, d \in Device :
          (Devices[d].type \ {"IN"}) \cap r # {} =>
              Devices[d].type \ {"IN"} \subseteq r /\ ("IN" \in Devices[d].type <=> "IN" \in r)
    /\ \A s \in Stream : Streams[s].enable_path # "off" /\ Streams[s].disable_path # "on"

\* The use count of every device is the number of hardware streams connected
\* to it ("counts total streams using this device", audio_config.c:128),
\* through any interleaving of opens, routes and releases of clients that
\* share streams, as long as no two routings of one stream have overlapped and
\* the configuration keeps its devices apart.
UseCountExact ==
    DevicesApart /\ races = 0 => \A d \in Device :
        Defines(d, "on") /\ Defines(d, "off") => use_count[d] = Cardinality(Users(d))

\* The mixer follows the routes: a device in use has its "on" settings and
\* those of the enable path of each stream connected to it, a device out of
\* use its "off" settings, and a stream not connected its disable path's.
\* This is the pseudo-logic of audio/README:126-159, however the calls of
\* several clients interleave.
MixerFollowsRoutes ==
    races = 0 => \A d \in Device :
        /\ InForce(d, IF Users(d) # {} THEN "on" ELSE "off")
        /\ \A s \in Stream : InForce(d, IF s \in Users(d) THEN Streams[s].enable_path
                                                         ELSE Streams[s].disable_path)

\* A stream has one reference per client that holds it and never more than
\* its configured maximum; the last release leaves it unrouted.
ReferencesExact ==
    \A s \in Stream :
        /\ ref_count[s] = Cardinality({c \in Client : hw[c] = s})
        /\ ref_count[s] <= Streams[s].max_ref_count
        /\ ref_count[s] = 0 => current_devices[s] = {}

\* No percentage the framework sends drives a volume control outside the
\* limits that the configuration gives it.
VolumeInLimits ==
    \A s \in Stream : \A i \in DOMAIN Streams[s].volume :
        LET volume == Streams[s].volume[i]
        IN  mixer[volume.name] \in volume.min..volume.max

\* The mixer follows the routes through every interleaving of the clients'
\* calls, as long as no two routings of one stream have overlapped, and no
\* volume leaves its limits.
RoutesExact == DOMAIN mixer = DOMAIN InitialMixer /\ MixerFollowsRoutes /\ VolumeInLimits

\* Whatever the clients open, release and route, a hardware stream's
\* references are its holders and a device's use count is its users.
StreamsExact == TypeOK /\ ReferencesExact /\ UseCountExact

\* What the shipped configuration is written for: whenever a stream is routed
\* to a device, the settings of the stream's enable path on that device are
\* in force ("Stream connected to device=> ... invoke ALSA settings from
\* device label", audio/README:134-141).
ConnectedDeviceEnabled ==
    \A s \in Stream, d \in Device :
        races = 0 /\ Connected(s, d) => InForce(d, Streams[s].enable_path)
====
