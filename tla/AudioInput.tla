---------------------------- MODULE AudioInput ------------------------------
(***************************************************************************)
(* Input streams of the audio HAL (audio/audio_hw.c) and the voice trigger *)
(* whose state machine they drive.  Each input stream has a thread that    *)
(* reads and a thread that sets parameters; in->common.lock is held while  *)
(* ctl[i] is not idle.  A section under adev->lock is one step.            *)
(*                                                                         *)
(* Of the configuration manager (AudioConfig) only what this code tells    *)
(* apart is kept: the references of a hardware stream, and whether it is   *)
(* routed to any device.                                                   *)
(***************************************************************************)
EXTENDS Integers, FiniteSets

CONSTANTS
    In,            \* input streams
    NULL,
    NamedStreams,  \* sets of named streams that a configuration may define
    MaxRefCount    \* instances of each hardware stream

\* "recog" and "trigger" are named; "pcm" is the generic input stream.
Hw == {"recog", "trigger", "pcm"}

\* The device node of the recogniser is a compressed one.
Kind(h) == IF h = "recog" THEN "compress" ELSE "pcm"

VARIABLES
    named,                 \* named streams of this configuration
    ref_count, routed,     \* of each hardware stream
    voice_st,
    voice_trig_stream,     \* never reset by a close: see do_voice_trigger_close_stream
    active_voice_control,
    in,                    \* of each input stream: see Closed
    ctl,                   \* of each stream: step of its set_parameters or close
    reader,                \* of each stream: how in_pcm_read, not yet locked, will read
    refired,               \* history: the trigger was enabled again after it fired
    overtaken              \* history: of each stream, its node changed under a reader

vars == <<named, ref_count, routed, voice_st, voice_trig_stream, active_voice_control,
          in, ctl, reader, refired, overtaken>>
hwVars == <<ref_count, routed>>
voiceVars == <<voice_st, voice_trig_stream, active_voice_control, refired>>

Closed == [open |-> FALSE, hw |-> NULL, source |-> "unset", standby |-> TRUE, node |-> "none"]
Idle == [step |-> "idle", source |-> "unset", name |-> NULL, devices |-> FALSE]

VoiceTriggerOnly == {"TriggerIdle", "TriggerArmed", "TriggerFired"}
VoiceState == {"None", "RecogIdle", "RecogArmed", "RecogFired", "RecogAudio", "RecogReArm"}
                  \cup VoiceTriggerOnly

TypeOK ==
    /\ ref_count \in [Hw -> Nat] /\ routed \in [Hw -> BOOLEAN]
    /\ voice_st \in VoiceState
    /\ voice_trig_stream \in {NULL, "recog", "trigger"}
    /\ active_voice_control \in In \cup {NULL}
    /\ \A i \in In : in[i].node \in {"none", "pcm", "compress"} /\ in[i].hw \in Hw \cup {NULL}
    /\ reader \in [In -> {"idle", "pcm", "compress"}]
-----------------------------------------------------------------------------
(* The configuration manager, as used here. *)

CanGet(h) == /\ h \in named \cup {"pcm"}
             /\ ref_count[h] < MaxRefCount[h]

Acquired(refs, h) == [refs EXCEPT ![h] = @ + 1]

\* release_stream: the last reference disconnects the stream.
release_stream(h) ==
    /\ ref_count' = [ref_count EXCEPT ![h] = @ - 1]
    /\ routed' = IF ref_count[h] = 1 THEN [routed EXCEPT ![h] = FALSE] ELSE routed
-----------------------------------------------------------------------------
(* The voice trigger. *)

\* A stream that cannot be had leaves the pointer NULL; the caller goes on.
do_voice_trigger_open_stream(name) ==
    IF CanGet(name)
    THEN /\ voice_trig_stream' = name
         /\ ref_count' = Acquired(ref_count, name)
         /\ routed' = [routed EXCEPT ![name] = TRUE]
    ELSE voice_trig_stream' = NULL /\ UNCHANGED hwVars

\* The pointer keeps its value: the assignment is written as a comparison.
do_voice_trigger_close_stream ==
    /\ UNCHANGED voice_trig_stream
    /\ IF voice_trig_stream = NULL THEN UNCHANGED hwVars
       ELSE /\ ref_count' = [ref_count EXCEPT ![voice_trig_stream] = @ - 1]
            /\ routed' = [routed EXCEPT ![voice_trig_stream] = FALSE]

Move(from, to) ==
    voice_st = from /\ voice_st' = to /\ UNCHANGED <<voice_trig_stream, hwVars>>

voice_trigger_enable ==
    /\ \/ /\ voice_st \in {"TriggerIdle", "TriggerFired"}
          /\ do_voice_trigger_open_stream("trigger")
          /\ voice_st' = "TriggerArmed"
       \/ /\ voice_st = "RecogIdle"
          /\ do_voice_trigger_open_stream("recog")
          /\ voice_st' = "RecogArmed"
       \/ Move("RecogAudio", "RecogReArm")
    /\ refired' = (refired \/ voice_st = "TriggerFired")
    /\ UNCHANGED <<named, active_voice_control, in, ctl, reader, overtaken>>

\* Once it has fired, a recogniser waits for the capture to end.
voice_trigger_disable ==
    /\ \/ /\ voice_st \in {"TriggerFired", "TriggerArmed"}
          /\ do_voice_trigger_close_stream
          /\ voice_st' = "TriggerIdle"
       \/ /\ voice_st = "RecogArmed"
          /\ do_voice_trigger_close_stream
          /\ voice_st' = "RecogIdle"
       \/ Move("RecogReArm", "RecogAudio")
    /\ UNCHANGED <<named, active_voice_control, in, ctl, reader, refired, overtaken>>

voice_trigger_triggered ==
    /\ Move("TriggerArmed", "TriggerFired") \/ Move("RecogArmed", "RecogFired")
    /\ UNCHANGED <<named, active_voice_control, in, ctl, reader, refired, overtaken>>

voice_trigger_audio_started_locked ==
    /\ voice_st' = IF voice_st = "RecogFired" THEN "RecogAudio" ELSE voice_st
    /\ UNCHANGED <<voice_trig_stream, hwVars>>

voice_trigger_audio_ended_locked_keepsStream ==
    /\ voice_st' = CASE voice_st = "RecogAudio" -> "RecogIdle"
                     [] voice_st = "RecogReArm" -> "RecogArmed"
                     [] OTHER -> voice_st
    /\ UNCHANGED <<voice_trig_stream, hwVars>>

voice_trigger_audio_ended_locked ==
    IF voice_st = "RecogAudio"
    THEN do_voice_trigger_close_stream /\ voice_st' = "RecogIdle"
    ELSE /\ voice_st' = IF voice_st = "RecogReArm" THEN "RecogArmed" ELSE voice_st
         /\ UNCHANGED <<voice_trig_stream, hwVars>>

\* Trigger-only hardware has a stream of its own for recognition; full
\* hardware has audio on it only once it has fired.
voice_trigger_audio_stream_name ==
    IF voice_st \in VoiceTriggerOnly \cup {"None", "RecogFired"} THEN "recog" ELSE NULL
-----------------------------------------------------------------------------
(* Opening, setting parameters, closing. *)

Unlocked(i) == ctl[i].step = "idle"

adev_open_input_stream(i) ==
    /\ ~in[i].open
    /\ in' = [in EXCEPT ![i] = [Closed EXCEPT !.open = TRUE]]
    /\ UNCHANGED <<named, hwVars, voiceVars, ctl, reader, overtaken>>

\* in_pcm_set_parameters with an input_source, up to the choice of a stream:
\* only in standby, only for a new source; voice_st is read without
\* adev->lock.  Without a routing the new stream inherits the old one's.
change_input_source_begin(i, new_source, routing) ==
    /\ in[i].open /\ Unlocked(i)
    /\ in[i].standby
    /\ in[i].source # new_source
    /\ ctl' = [ctl EXCEPT ![i] =
           [step |-> "get", source |-> new_source,
            name |-> IF new_source = "recognition" THEN voice_trigger_audio_stream_name ELSE NULL,
            devices |-> \/ routing = "on"
                        \/ routing = "none" /\ in[i].hw # NULL /\ routed[in[i].hw]]]
    /\ UNCHANGED <<named, hwVars, voiceVars, in, reader, overtaken>>

\* The new stream is taken before the old one is given back.
change_input_source_get(i) ==
    LET old == in[i].hw
        Switch(h) ==
            LET refs == Acquired(ref_count, h)
            IN  /\ ref_count' = IF old = NULL THEN refs ELSE [refs EXCEPT ![old] = @ - 1]
                /\ routed' = IF old # NULL /\ refs[old] = 1
                             THEN [routed EXCEPT ![old] = FALSE] ELSE routed
                /\ in' = [in EXCEPT ![i].hw = h]
                /\ ctl' = [ctl EXCEPT ![i].step = "voice"]
                /\ overtaken' = [overtaken EXCEPT ![i] = @ \/ reader[i] \notin {"idle", Kind(h)}]
    IN  /\ ctl[i].step = "get"
        /\ IF ctl[i].name # NULL /\ CanGet(ctl[i].name) THEN Switch(ctl[i].name)
           ELSE IF CanGet("pcm") THEN Switch("pcm")
           ELSE /\ ctl' = [ctl EXCEPT ![i] = Idle]
                /\ UNCHANGED <<hwVars, in, overtaken>>
        /\ UNCHANGED <<named, voiceVars, reader>>

\* Under adev->lock: this stream becomes, or stops being, the voice stream,
\* also when it had to fall back to the generic one.
change_input_source_voice(i) ==
    /\ ctl[i].step = "voice"
    /\ IF ctl[i].source = "recognition"
       THEN /\ active_voice_control' = i
            /\ voice_trigger_audio_started_locked
       ELSE IF active_voice_control = i
       THEN /\ active_voice_control' = NULL
            /\ voice_trigger_audio_ended_locked
       ELSE UNCHANGED <<active_voice_control, voice_st, voice_trig_stream, hwVars>>
    /\ in' = [in EXCEPT ![i].source = ctl[i].source]
    /\ ctl' = [ctl EXCEPT ![i].step = "route"]
    /\ UNCHANGED <<named, reader, refired, overtaken>>

change_input_source_route(i) ==
    /\ ctl[i].step = "route"
    /\ routed' = [routed EXCEPT ![in[i].hw] = ctl[i].devices]
    /\ ctl' = [ctl EXCEPT ![i] = Idle]
    /\ UNCHANGED <<named, ref_count, voiceVars, in, reader, overtaken>>

\* in_pcm_set_parameters with a routing only.
in_pcm_set_routing(i, on) ==
    /\ in[i].open /\ Unlocked(i) /\ in[i].hw # NULL
    /\ routed' = [routed EXCEPT ![in[i].hw] = on]
    /\ UNCHANGED <<named, ref_count, voiceVars, in, ctl, reader, overtaken>>

in_pcm_standby(i) ==
    /\ in[i].open /\ Unlocked(i) /\ in[i].hw # NULL
    /\ in' = [in EXCEPT ![i].standby = TRUE, ![i].node = "none"]
    /\ UNCHANGED <<named, hwVars, voiceVars, ctl, reader, overtaken>>

\* Closing a stream that is in standby and that nobody reads any more.
\* "active_voice_control is not cleared by standby so we must clear it here".
do_close_in_common_voice(i) ==
    /\ in[i].open /\ Unlocked(i) /\ reader[i] = "idle" /\ in[i].standby
    /\ IF active_voice_control = i
       THEN active_voice_control' = NULL /\ voice_trigger_audio_ended_locked
       ELSE UNCHANGED <<active_voice_control, voice_st, voice_trig_stream, hwVars>>
    /\ ctl' = [ctl EXCEPT ![i].step = "close"]
    /\ UNCHANGED <<named, in, reader, refired, overtaken>>

do_close_in_common_release(i) ==
    /\ ctl[i].step = "close"
    /\ IF in[i].hw = NULL THEN UNCHANGED hwVars ELSE release_stream(in[i].hw)
    /\ in' = [in EXCEPT ![i] = Closed]
    /\ ctl' = [ctl EXCEPT ![i] = Idle]
    /\ overtaken' = [overtaken EXCEPT ![i] = FALSE]
    /\ UNCHANGED <<named, voiceVars, reader>>
-----------------------------------------------------------------------------
(* Reading. *)

\* in_pcm_read decides how to read before it takes the stream's lock.
in_pcm_read(i) ==
    /\ in[i].open /\ ctl[i].step # "close" /\ reader[i] = "idle"
    /\ in[i].hw # NULL /\ routed[in[i].hw]
    /\ reader' = [reader EXCEPT ![i] = Kind(in[i].hw)]
    /\ UNCHANGED <<named, hwVars, voiceVars, in, ctl, overtaken>>

\* do_in_pcm_read: a stream that cannot be opened stays in standby.
do_in_pcm_read(i) ==
    /\ reader[i] = "pcm" /\ Unlocked(i)
    /\ reader' = [reader EXCEPT ![i] = "idle"]
    /\ \/ in[i].standby /\ in' = [in EXCEPT ![i].standby = FALSE, ![i].node = "pcm"]
       \/ UNCHANGED in
    /\ UNCHANGED <<named, hwVars, voiceVars, ctl, overtaken>>

\* do_in_compress_pcm_read: a node that cannot be opened is reported by a
\* positive errno, which start_compress_pcm_input_stream takes for success.
do_in_compress_pcm_read(i) ==
    /\ reader[i] = "compress" /\ Unlocked(i)
    /\ reader' = [reader EXCEPT ![i] = "idle"]
    /\ IF in[i].standby
       THEN \E node \in {"compress", "none"} :
                in' = [in EXCEPT ![i].standby = FALSE, ![i].node = node]
       ELSE UNCHANGED in
    /\ UNCHANGED <<named, hwVars, voiceVars, ctl, overtaken>>
-----------------------------------------------------------------------------
voice_trigger_init ==
    voice_st = CASE "recog" \in named -> "RecogIdle"
                 [] "recog" \notin named /\ "trigger" \in named -> "TriggerIdle"
                 [] OTHER -> "None"

Init ==
    /\ named \in NamedStreams
    /\ ref_count = [h \in Hw |-> 0] /\ routed = [h \in Hw |-> FALSE]
    /\ voice_trigger_init
    /\ voice_trig_stream = NULL /\ active_voice_control = NULL
    /\ in = [i \in In |-> Closed] /\ ctl = [i \in In |-> Idle]
    /\ reader = [i \in In |-> "idle"]
    /\ refired = FALSE /\ overtaken = [i \in In |-> FALSE]

Next ==
    \/ voice_trigger_enable \/ voice_trigger_disable \/ voice_trigger_triggered
    \/ \E i \in In :
        \/ adev_open_input_stream(i)
        \/ \E source \in {"mic", "recognition"}, routing \in {"none", "on", "off"} :
               change_input_source_begin(i, source, routing)
        \/ change_input_source_get(i) \/ change_input_source_voice(i)
        \/ change_input_source_route(i)
        \/ \E on \in BOOLEAN : in_pcm_set_routing(i, on)
        \/ in_pcm_standby(i)
        \/ do_close_in_common_voice(i) \/ do_close_in_common_release(i)
        \/ in_pcm_read(i) \/ do_in_pcm_read(i) \/ do_in_compress_pcm_read(i)

Spec == Init /\ [][Next]_vars
-----------------------------------------------------------------------------
(* Properties *)

\* While the recogniser delivers audio (RecogAudio, RecogReArm) there is an
\* open stream whose closing or change of source will end it: whichever
\* streams took active_voice_control over in between, the state machine is
\* never left waiting for an end that nobody will signal.
VoiceAudioHasOwner ==
    voice_st \in {"RecogAudio", "RecogReArm"} =>
        /\ active_voice_control # NULL
        /\ LET i == active_voice_control
           IN  /\ in[i].open /\ in[i].hw # NULL
               /\ "recognition" \in {in[i].source, ctl[i].source}

TriggerHolds(h) ==
    /\ h = voice_trig_stream
    /\ voice_st \in {"TriggerArmed", "TriggerFired", "RecogArmed", "RecogFired", "RecogAudio",
                     "RecogReArm"}

\* Every reference of a hardware stream belongs to an input stream or to the
\* voice trigger, which holds one from arming until it is disabled or its
\* capture ends, and none while idle, although its pointer is never reset.
\* Only a trigger that is enabled again after it fired loses a reference.
ReferencesHaveHolders ==
    ~refired => \A h \in Hw :
        ref_count[h] = Cardinality({i \in In : in[i].hw = h})
                           + (IF TriggerHolds(h) THEN 1 ELSE 0)

\* The union of PCM and compressed node holds a node of the kind that standby
\* will take it for, the kind of the stream's hardware; unless the hardware
\* was changed between a reader's look at it and the reader's lock.
NodeMatchesHardware ==
    \A i \in In : in[i].node # "none" /\ ~overtaken[i] => in[i].node = Kind(in[i].hw)
=============================================================================
