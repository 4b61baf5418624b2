------------------------ MODULE AudioStreams_proofs -------------------------
(***************************************************************************)
(* Proofs about the streams of the audio HAL, for any number of streams    *)
(* and of instances of a hardware stream.  Capture streams (AudioInput):   *)
(* references are counted, nodes are of their hardware's kind and voice    *)
(* audio has an owner.  Output streams (AudioOutput): writes go somewhere. *)
(***************************************************************************)
EXTENDS AudioInput, FiniteSetTheorems, TLAPS

CONSTANTS Out, Devices, OutMaxRefCount
VARIABLES out, step, routes, out_refs, out_overtaken

Output == INSTANCE AudioOutput WITH ref_count <- out_refs, overtaken <- out_overtaken,
                                    MaxRefCount <- OutMaxRefCount

\* There are finitely many streams, and no stream is no stream.
ConstantsOK ==
    /\ IsFiniteSet(In) /\ NULL \notin In \cup Hw
    /\ IsFiniteSet(Out) /\ OutMaxRefCount \in Nat

\* A set that changes at one element: what its cardinality becomes.
LEMMA CountChanges ==
    ASSUME NEW S, IsFiniteSet(S), NEW A \in SUBSET S, NEW B \in SUBSET S, NEW x \in S,
           \A y \in S : y # x => (y \in A <=> y \in B)
    PROVE  /\ Cardinality(A) \in Nat /\ Cardinality(B) \in Nat
           /\ x \in A => Cardinality(A) > 0
           /\ Cardinality(B) = Cardinality(A) + (IF x \in B THEN 1 ELSE 0) - (IF x \in A THEN 1 ELSE 0)
<1>1. IsFiniteSet(A) /\ IsFiniteSet(B)
  BY FS_Subset
<1>2. Cardinality(A) \in Nat /\ Cardinality(B) \in Nat
  BY <1>1, FS_CardinalityType
<1>3. x \in A => Cardinality(A) > 0
  BY <1>1, <1>2, FS_EmptySet
<1>4. CASE x \in A /\ x \notin B
  <2>1. B = A \ {x}
    BY <1>4
  <2> QED
    BY <1>1, <1>2, <1>3, <1>4, <2>1, FS_RemoveElement
<1>5. CASE x \notin A /\ x \in B
  <2>1. B = A \cup {x}
    BY <1>5
  <2> QED
    BY <1>1, <1>2, <1>3, <1>5, <2>1, FS_AddElement
<1>6. CASE x \in A <=> x \in B
  <2>1. A = B
    BY <1>6
  <2> QED
    BY <1>2, <1>3, <2>1
<1> QED
  BY <1>4, <1>5, <1>6

-----------------------------------------------------------------------------
(* Capture streams. *)

Source == {"unset", "mic", "recognition"}
InStream == [open : BOOLEAN, hw : Hw \cup {NULL}, source : Source,
             standby : BOOLEAN, node : {"none", "pcm", "compress"}]
Control == [step : {"idle", "get", "voice", "route", "close"}, source : Source,
            name : {NULL, "recog"}, devices : BOOLEAN]

InTypes ==
    /\ ref_count \in [Hw -> Nat] /\ routed \in [Hw -> BOOLEAN]
    /\ voice_st \in VoiceState
    /\ voice_trig_stream \in {NULL, "recog", "trigger"}
    /\ active_voice_control \in In \cup {NULL}
    /\ in \in [In -> InStream] /\ ctl \in [In -> Control]
    /\ reader \in [In -> {"idle", "pcm", "compress"}]
    /\ refired \in BOOLEAN /\ overtaken \in [In -> BOOLEAN]

\* A closed stream has neither a reader nor a command; a command that changes
\* the source or closes finds the stream in standby, and from the second step
\* on with a hardware stream; a node is held out of standby only.
StreamOK(i) ==
    /\ ~in[i].open => in[i] = Closed /\ reader[i] = "idle" /\ ctl[i].step = "idle"
    /\ ctl[i].step # "idle" => in[i].standby
    /\ ctl[i].step \in {"voice", "route"} => in[i].hw # NULL
    /\ ctl[i].step = "close" => reader[i] = "idle" /\ active_voice_control # i
    /\ in[i].standby => in[i].node = "none"
    /\ reader[i] # "idle" =>
           in[i].hw # NULL /\ (~overtaken[i] => reader[i] = Kind(in[i].hw))
    /\ in[i].node # "none" /\ ~overtaken[i] => in[i].node = Kind(in[i].hw)

\* The voice stream is an open recognition stream, and voice audio has one.
VoiceOK ==
    /\ active_voice_control # NULL =>
           /\ in[active_voice_control].open /\ in[active_voice_control].hw # NULL
           /\ in[active_voice_control].source = "recognition"
    /\ voice_st \in {"RecogAudio", "RecogReArm"} => active_voice_control # NULL

Holders(h) == {i \in In : in[i].hw = h}
TriggerRefs(h) == IF TriggerHolds(h) THEN 1 ELSE 0

\* No reference is given back twice, whether or not one was lost before.
RefsOK ==
    \A h \in Hw :
        /\ ref_count[h] >= Cardinality(Holders(h)) + TriggerRefs(h)
        /\ ~refired => ref_count[h] = Cardinality(Holders(h)) + TriggerRefs(h)

InInv == InTypes /\ (\A i \in In : StreamOK(i)) /\ VoiceOK /\ RefsOK

\* What a step does to one stream leaves the others as they are.
LEMMA OthersKept ==
    ASSUME ConstantsOK, InTypes, NEW i \in In, \A j \in In : StreamOK(j), StreamOK(i)',
           \A j \in In \ {i} : /\ in'[j] = in[j] /\ ctl'[j] = ctl[j]
                               /\ reader'[j] = reader[j] /\ overtaken'[j] = overtaken[j],
           active_voice_control' \in {active_voice_control, NULL, i}
    PROVE  \A j \in In : StreamOK(j)'
<1> SUFFICES ASSUME NEW j \in In, j # i PROVE StreamOK(j)'
  OBVIOUS
<1>1. j # NULL
  BY DEF ConstantsOK
<1>2. /\ in'[j] = in[j] /\ ctl'[j] = ctl[j] /\ reader'[j] = reader[j]
      /\ overtaken'[j] = overtaken[j]
  OBVIOUS
<1>3. active_voice_control # j => active_voice_control' # j
  BY <1>1
<1>4. StreamOK(j)
  OBVIOUS
<1>5. /\ ~in'[j].open => in'[j] = Closed /\ reader'[j] = "idle" /\ ctl'[j].step = "idle"
      /\ ctl'[j].step # "idle" => in'[j].standby
      /\ ctl'[j].step \in {"voice", "route"} => in'[j].hw # NULL
      /\ in'[j].standby => in'[j].node = "none"
  BY <1>2, <1>4, Zenon DEF StreamOK
<1>6. ctl'[j].step = "close" => reader'[j] = "idle" /\ active_voice_control' # j
  BY <1>2, <1>3, <1>4, Zenon DEF StreamOK
<1>7. /\ reader'[j] # "idle"
           => in'[j].hw # NULL /\ (~overtaken'[j] => reader'[j] = Kind(in'[j].hw))
      /\ in'[j].node # "none" /\ ~overtaken'[j] => in'[j].node = Kind(in'[j].hw)
  BY <1>2, <1>4, Zenon DEF StreamOK
<1> QED
  BY <1>5, <1>6, <1>7, Zenon DEF StreamOK, Closed, Kind

\* The holders of the hardware streams when one input stream's changes.
LEMMA HoldersMove ==
    ASSUME ConstantsOK, NEW i \in In, NEW h, \A j \in In \ {i} : in'[j].hw = in[j].hw
    PROVE  /\ Cardinality(Holders(h)) \in Nat /\ Cardinality(Holders(h))' \in Nat
           /\ in[i].hw = h => Cardinality(Holders(h)) > 0
           /\ Cardinality(Holders(h))' = Cardinality(Holders(h))
                + (IF in'[i].hw = h THEN 1 ELSE 0) - (IF in[i].hw = h THEN 1 ELSE 0)
<1>1. Holders(h) \in SUBSET In /\ Holders(h)' \in SUBSET In
  BY DEF Holders
<1>2. /\ i \in Holders(h) <=> in[i].hw = h
      /\ i \in Holders(h)' <=> in'[i].hw = h
      /\ \A j \in In : j # i => (j \in Holders(h) <=> j \in Holders(h)')
  BY DEF Holders
<1> HIDE DEF Holders
<1> QED
  BY <1>1, <1>2, CountChanges DEF ConstantsOK

\* The holders when no input stream's hardware stream changes.
LEMMA HoldersStay ==
    ASSUME ConstantsOK, \A j \in In : in'[j].hw = in[j].hw
    PROVE  \A h : Cardinality(Holders(h))' = Cardinality(Holders(h))
<1> SUFFICES ASSUME NEW h PROVE Holders(h)' = Holders(h)
  OBVIOUS
<1> QED
  BY DEF Holders

\* There are finitely many holders.
LEMMA HoldersCount ==
    ASSUME ConstantsOK
    PROVE  \A h : Cardinality(Holders(h)) \in Nat
<1> SUFFICES ASSUME NEW h PROVE Cardinality(Holders(h)) \in Nat
  OBVIOUS
<1>1. Holders(h) \subseteq In
  BY DEF Holders
<1> QED
  BY <1>1, FS_Subset, FS_CardinalityType DEF ConstantsOK

HoldingStates == {"TriggerArmed", "TriggerFired", "RecogArmed", "RecogFired", "RecogAudio",
                  "RecogReArm"}

\* do_voice_trigger_open_stream: the trigger holds the stream it gets; a
\* trigger that held one before is the refired one.
LEMMA OpenKeepsRefs ==
    ASSUME ConstantsOK, InTypes, RefsOK, \A j \in In : in'[j].hw = in[j].hw,
           NEW name \in {"recog", "trigger"}, do_voice_trigger_open_stream(name),
           voice_st' \in HoldingStates, refired' \in BOOLEAN,
           refired \/ voice_st \in HoldingStates => refired'
    PROVE  /\ ref_count' \in [Hw -> Nat] /\ routed' \in [Hw -> BOOLEAN]
           /\ voice_trig_stream' \in {NULL, "recog", "trigger"}
           /\ RefsOK'
<1>1. CASE CanGet(name)
  <2>1. /\ voice_trig_stream' = name
        /\ ref_count' = [ref_count EXCEPT ![name] = @ + 1]
        /\ routed' = [routed EXCEPT ![name] = TRUE]
    BY <1>1 DEF do_voice_trigger_open_stream, Acquired
  <2>2. /\ ref_count' \in [Hw -> Nat] /\ routed' \in [Hw -> BOOLEAN]
        /\ voice_trig_stream' \in {NULL, "recog", "trigger"}
    BY <2>1 DEF InTypes, Hw
  <2>3. RefsOK'
    <3> SUFFICES ASSUME NEW h \in Hw
                 PROVE  /\ ref_count'[h] >= Cardinality(Holders(h))' + TriggerRefs(h)'
                        /\ ~refired' => ref_count'[h] = Cardinality(Holders(h))' + TriggerRefs(h)'
      BY DEF RefsOK
    <3>1. /\ Cardinality(Holders(h))' = Cardinality(Holders(h)) /\ Cardinality(Holders(h)) \in Nat
      BY HoldersStay, HoldersCount, Zenon
    <3>2. /\ ref_count[h] \in Nat
          /\ ref_count'[h] = IF h = name THEN ref_count[h] + 1 ELSE ref_count[h]
      BY <2>1 DEF InTypes, Hw
    <3>3. /\ TriggerRefs(h)' = IF h = name THEN 1 ELSE 0
          /\ TriggerRefs(h) \in {0, 1} /\ (voice_st \notin HoldingStates => TriggerRefs(h) = 0)
      BY <2>1 DEF TriggerRefs, TriggerHolds, HoldingStates
    <3> QED
      BY <3>1, <3>2, <3>3 DEF RefsOK
  <2> QED
    BY <2>2, <2>3
<1>2. CASE ~CanGet(name)
  <2>1. voice_trig_stream' = NULL /\ UNCHANGED <<ref_count, routed>>
    BY <1>2 DEF do_voice_trigger_open_stream, hwVars
  <2>2. RefsOK'
    <3> SUFFICES ASSUME NEW h \in Hw
                 PROVE  /\ ref_count'[h] >= Cardinality(Holders(h))' + TriggerRefs(h)'
                        /\ ~refired' => ref_count'[h] = Cardinality(Holders(h))' + TriggerRefs(h)'
      BY DEF RefsOK
    <3>1. /\ Cardinality(Holders(h))' = Cardinality(Holders(h)) /\ Cardinality(Holders(h)) \in Nat
      BY HoldersStay, HoldersCount, Zenon
    <3>2. h # NULL
      BY DEF ConstantsOK
    <3>3. /\ TriggerRefs(h)' = 0
          /\ TriggerRefs(h) \in {0, 1} /\ (voice_st \notin HoldingStates => TriggerRefs(h) = 0)
      BY <2>1, <3>2 DEF TriggerRefs, TriggerHolds, HoldingStates
    <3> QED
      BY <2>1, <3>1, <3>3 DEF RefsOK, InTypes
  <2> QED
    BY <2>1, <2>2 DEF InTypes
<1> QED
  BY <1>1, <1>2

\* do_voice_trigger_close_stream, from a state in which the trigger holds its
\* stream to one in which it does not.
LEMMA CloseKeepsRefs ==
    ASSUME ConstantsOK, InTypes, RefsOK, \A j \in In : in'[j].hw = in[j].hw,
           do_voice_trigger_close_stream, UNCHANGED refired,
           voice_st \in HoldingStates, voice_st' \notin HoldingStates
    PROVE  /\ ref_count' \in [Hw -> Nat] /\ routed' \in [Hw -> BOOLEAN]
           /\ voice_trig_stream' \in {NULL, "recog", "trigger"}
           /\ RefsOK'
<1>1. \A h \in Hw :
        /\ Cardinality(Holders(h))' = Cardinality(Holders(h)) /\ Cardinality(Holders(h)) \in Nat
        /\ TriggerRefs(h)' = 0 /\ TriggerRefs(h) = IF h = voice_trig_stream THEN 1 ELSE 0
  BY HoldersStay, HoldersCount DEF TriggerRefs, TriggerHolds, HoldingStates
<1>2. CASE voice_trig_stream = NULL
  <2>1. UNCHANGED <<ref_count, routed, voice_trig_stream>>
    BY <1>2 DEF do_voice_trigger_close_stream, hwVars
  <2>2. RefsOK'
    BY <1>1, <1>2, <2>1 DEF RefsOK, InTypes, ConstantsOK
  <2> QED
    BY <2>1, <2>2 DEF InTypes
<1>3. CASE voice_trig_stream # NULL
  <2>1. /\ UNCHANGED voice_trig_stream
        /\ ref_count' = [ref_count EXCEPT ![voice_trig_stream] = @ - 1]
        /\ routed' = [routed EXCEPT ![voice_trig_stream] = FALSE]
        /\ voice_trig_stream \in Hw
    BY <1>3 DEF do_voice_trigger_close_stream, InTypes, Hw
  <2>2. routed' \in [Hw -> BOOLEAN]
    BY <2>1 DEF InTypes
  <2>3. \A h \in Hw :
          /\ ref_count[h] \in Nat
          /\ ref_count'[h] = IF h = voice_trig_stream THEN ref_count[h] - 1 ELSE ref_count[h]
    BY <2>1 DEF InTypes
  <2>4. ref_count[voice_trig_stream] - 1 \in Nat
    BY <1>1, <2>1, <2>3 DEF RefsOK
  <2>5. ref_count' \in [Hw -> Nat]
    BY <2>1, <2>4 DEF InTypes
  <2>6. RefsOK'
    BY <1>1, <2>3 DEF RefsOK
  <2> QED
    BY <2>1, <2>2, <2>5, <2>6 DEF InTypes
<1> QED
  BY <1>2, <1>3

\* The trigger's references when its holding does not change.
LEMMA StayKeepsRefs ==
    ASSUME ConstantsOK, InTypes, RefsOK, \A j \in In : in'[j].hw = in[j].hw,
           UNCHANGED <<ref_count, voice_trig_stream, refired>>,
           voice_st \in HoldingStates <=> voice_st' \in HoldingStates
    PROVE  RefsOK'
<1>1. \A h \in Hw :
        /\ Cardinality(Holders(h))' = Cardinality(Holders(h))
        /\ TriggerRefs(h)' = TriggerRefs(h)
  BY HoldersStay DEF TriggerRefs, TriggerHolds, HoldingStates
<1> QED
  BY <1>1 DEF RefsOK

\* voice_trigger_audio_ended_locked.
LEMMA AudioEndKeepsRefs ==
    ASSUME ConstantsOK, InTypes, RefsOK, \A j \in In : in'[j].hw = in[j].hw, UNCHANGED refired,
           voice_trigger_audio_ended_locked
    PROVE  /\ ref_count' \in [Hw -> Nat] /\ routed' \in [Hw -> BOOLEAN]
           /\ voice_trig_stream' \in {NULL, "recog", "trigger"}
           /\ voice_st' \in VoiceState \ {"RecogAudio", "RecogReArm"}
           /\ RefsOK'
<1>1. CASE voice_st = "RecogAudio"
  <2>1. do_voice_trigger_close_stream /\ voice_st' = "RecogIdle"
    BY <1>1 DEF voice_trigger_audio_ended_locked
  <2>2. /\ voice_st \in HoldingStates /\ voice_st' \notin HoldingStates
        /\ voice_st' \in VoiceState \ {"RecogAudio", "RecogReArm"}
    BY <1>1, <2>1 DEF HoldingStates, VoiceState
  <2> QED
    BY <2>1, <2>2, CloseKeepsRefs
<1>2. CASE voice_st # "RecogAudio"
  <2>1. /\ voice_st' = IF voice_st = "RecogReArm" THEN "RecogArmed" ELSE voice_st
        /\ UNCHANGED <<voice_trig_stream, ref_count, routed>>
    BY <1>2 DEF voice_trigger_audio_ended_locked, hwVars
  <2>2. /\ voice_st \in HoldingStates <=> voice_st' \in HoldingStates
        /\ voice_st' \in VoiceState \ {"RecogAudio", "RecogReArm"}
    BY <1>2, <2>1 DEF HoldingStates, VoiceState, InTypes
  <2>3. RefsOK'
    BY <2>1, <2>2, StayKeepsRefs
  <2> QED
    BY <2>1, <2>2, <2>3 DEF InTypes
<1> QED
  BY <1>1, <1>2

\* A step that leaves the references, the trigger and the hardware streams
\* alone has to keep its own stream in order, and the voice stream a voice
\* stream.
LEMMA LocalStep ==
    ASSUME ConstantsOK, InInv, NEW i \in In, InTypes', StreamOK(i)',
           \A j \in In \ {i} : /\ in'[j] = in[j] /\ ctl'[j] = ctl[j]
                               /\ reader'[j] = reader[j] /\ overtaken'[j] = overtaken[j],
           UNCHANGED <<ref_count, voice_st, voice_trig_stream, active_voice_control, refired>>,
           in'[i].hw = in[i].hw,
           active_voice_control = i => in'[i].open /\ in'[i].source = in[i].source
    PROVE  InInv'
<1>1. \A j \in In : StreamOK(j)'
  BY OthersKept DEF InInv
<1>2. \A j \in In : in'[j].hw = in[j].hw
  OBVIOUS
<1>3. RefsOK'
  BY <1>2, StayKeepsRefs DEF InInv
<1>4. VoiceOK'
  BY <1>2, SMTT(120) DEF InInv, VoiceOK, InTypes
<1> QED
  BY <1>1, <1>3, <1>4 DEF InInv

\* The records of streams and of their commands.
LEMMA InRecords ==
    /\ Closed \in InStream /\ Idle \in Control
    /\ [Closed EXCEPT !.open = TRUE] \in InStream
    /\ \A r \in InStream :
         /\ \A st \in BOOLEAN, nd \in {"none", "pcm", "compress"} :
              [r EXCEPT !.standby = st, !.node = nd] \in InStream
         /\ \A h \in Hw : [r EXCEPT !.hw = h] \in InStream
         /\ \A src \in Source : [r EXCEPT !.source = src] \in InStream
    /\ \A c \in Control : \A st \in {"idle", "get", "voice", "route", "close"} :
         [c EXCEPT !.step = st] \in Control
  BY ZenonT(120) DEF Closed, Idle, InStream, Control, Source

\* adev_open_input_stream.
LEMMA OpenKeepsInput ==
    ASSUME ConstantsOK, InInv, NEW i \in In, adev_open_input_stream(i)
    PROVE  InInv'
<1> DEFINE r == [Closed EXCEPT !.open = TRUE]
<1>1. /\ ~in[i].open /\ in' = [in EXCEPT ![i] = r]
      /\ UNCHANGED <<named, ref_count, routed, voice_st, voice_trig_stream, active_voice_control,
                     refired, ctl, reader, overtaken>>
  BY SMTT(120) DEF adev_open_input_stream, hwVars, voiceVars
<1>2. /\ r \in InStream /\ r.open = TRUE /\ r.hw = NULL /\ r.standby = TRUE /\ r.node = "none"
  BY InRecords, ZenonT(120) DEF Closed
<1> HIDE DEF r
<1>3. InTypes'
  BY <1>1, <1>2 DEF InInv, InTypes
<1>4. /\ in'[i] = r /\ \A j \in In \ {i} : in'[j] = in[j]
  BY <1>1 DEF InInv, InTypes
<1>5. in[i].hw = NULL /\ reader[i] = "idle" /\ ctl[i].step = "idle"
  BY <1>1 DEF InInv, StreamOK, Closed
<1>6. active_voice_control # i
  BY <1>1 DEF InInv, VoiceOK, ConstantsOK
<1>7. StreamOK(i)'
  BY <1>1, <1>2, <1>4, <1>5 DEF StreamOK
<1> QED
  BY <1>1, <1>2, <1>3, <1>4, <1>5, <1>6, <1>7, LocalStep

\* in_pcm_set_parameters up to the choice of a stream.
LEMMA BeginKeepsInput ==
    ASSUME ConstantsOK, InInv, NEW i \in In, NEW source \in {"mic", "recognition"},
           NEW routing \in {"none", "on", "off"},
           change_input_source_begin(i, source, routing)
    PROVE  InInv'
<1> DEFINE c == [step |-> "get", source |-> source,
                 name |-> IF source = "recognition" THEN voice_trigger_audio_stream_name
                          ELSE NULL,
                 devices |-> \/ routing = "on"
                             \/ routing = "none" /\ in[i].hw # NULL /\ routed[in[i].hw]]
<1>1. /\ in[i].open /\ in[i].standby /\ ctl' = [ctl EXCEPT ![i] = c]
      /\ UNCHANGED <<named, ref_count, routed, voice_st, voice_trig_stream, active_voice_control,
                     refired, in, reader, overtaken>>
  BY DEF change_input_source_begin, hwVars, voiceVars
<1>2. voice_trigger_audio_stream_name \in {NULL, "recog"}
  BY DEF voice_trigger_audio_stream_name
<1>3. in[i].hw # NULL => routed[in[i].hw] \in BOOLEAN
  BY DEF InInv, InTypes, InStream
<1>4. c \in Control /\ c.step = "get"
  BY <1>2, <1>3 DEF Control, Source
<1> HIDE DEF c
<1>5. InTypes'
  BY <1>1, <1>4 DEF InInv, InTypes
<1>6. ctl'[i] = c /\ \A j \in In \ {i} : ctl'[j] = ctl[j]
  BY <1>1, SMTT(120) DEF InInv, InTypes
<1>7. StreamOK(i)'
  BY <1>1, <1>4, <1>6, SMTT(120) DEF InInv, StreamOK
<1> QED
  BY <1>1, <1>5, <1>6, <1>7, LocalStep, SMTT(120)

\* The end of in_pcm_set_parameters, and a routing alone.
LEMMA RouteKeepsInput ==
    ASSUME ConstantsOK, InInv, NEW i \in In, NEW on \in BOOLEAN,
           change_input_source_route(i) \/ in_pcm_set_routing(i, on)
    PROVE  InInv'
<1>1. /\ in[i].hw # NULL /\ ctl[i].step # "close"
      /\ UNCHANGED <<named, ref_count, voice_st, voice_trig_stream, active_voice_control, refired,
                     in, reader, overtaken>>
  BY DEF change_input_source_route, in_pcm_set_routing, voiceVars, InInv, StreamOK,
    Unlocked
<1>2. in[i].hw \in Hw /\ ctl[i].devices \in BOOLEAN
  BY <1>1 DEF InInv, InTypes, InStream, Control
<1>3. \E b \in BOOLEAN : routed' = [routed EXCEPT ![in[i].hw] = b]
  BY <1>2 DEF change_input_source_route, in_pcm_set_routing
<1>4. ctl' = [ctl EXCEPT ![i] = Idle] \/ UNCHANGED ctl
  BY DEF change_input_source_route, in_pcm_set_routing
<1>5. routed' \in [Hw -> BOOLEAN] /\ ctl' \in [In -> Control]
  <2>1. PICK b \in BOOLEAN : routed' = [routed EXCEPT ![in[i].hw] = b]
    BY <1>3
  <2>2. routed' \in [Hw -> BOOLEAN]
    BY <1>2, <2>1 DEF InInv, InTypes
  <2>3. Idle \in Control
    BY InRecords, Zenon
  <2>4. ctl' \in [In -> Control]
    BY <1>4, <2>3 DEF InInv, InTypes
  <2> QED
    BY <2>2, <2>4
<1>6. InTypes'
  BY <1>1, <1>5 DEF InInv, InTypes
<1>7. ctl'[i].step \in {ctl[i].step, "idle"} /\ \A j \in In \ {i} : ctl'[j] = ctl[j]
  BY <1>4 DEF InInv, InTypes, Idle
<1>8. StreamOK(i)'
  <2>1. CASE ctl'[i].step = ctl[i].step
    BY <1>1, <2>1 DEF InInv, StreamOK
  <2>2. CASE ctl'[i].step = "idle"
    BY <1>1, <2>2 DEF InInv, StreamOK
  <2> QED
    BY <1>7, <2>1, <2>2
<1>9. active_voice_control = i => in[i].open
  BY DEF ConstantsOK, InInv, VoiceOK
<1> QED
  BY <1>1, <1>6, <1>7, <1>8, <1>9, LocalStep, SMTT(120)

\* Standby and the two ways of reading: the node that is opened is of the kind
\* that the reader chose.
LEMMA ReadKeepsInput ==
    ASSUME ConstantsOK, InInv, NEW i \in In,
           \/ in_pcm_standby(i) \/ in_pcm_read(i)
           \/ do_in_pcm_read(i) \/ do_in_compress_pcm_read(i)
    PROVE  InInv'
<1>1. /\ UNCHANGED <<named, ref_count, routed, voice_st, voice_trig_stream, active_voice_control,
                     refired, ctl, overtaken>>
  BY DEF in_pcm_standby, in_pcm_read, do_in_pcm_read,
    do_in_compress_pcm_read, hwVars, voiceVars
<1>2. StreamOK(i) /\ InTypes
  BY DEF InInv
<1>3. ASSUME NEW st \in BOOLEAN, NEW nd \in {"none", "pcm", "compress"},
             NEW k \in {"idle", "pcm", "compress"},
             in' = [in EXCEPT ![i].standby = st, ![i].node = nd],
             reader' = [reader EXCEPT ![i] = k], in[i].open,
             ctl[i].step # "idle" => st = in[i].standby /\ k # "idle" /\ ctl[i].step # "close",
             st => nd = "none",
             k # "idle" => in[i].hw # NULL /\ k = Kind(in[i].hw),
             nd # "none" /\ ~overtaken[i] => nd = Kind(in[i].hw)
      PROVE  InInv'
  <2> DEFINE r == [in[i] EXCEPT !.standby = st, !.node = nd]
  <2>1. in[i] \in InStream
    BY <1>2 DEF InTypes
  <2>2. r \in InStream
    BY <2>1, InRecords, Zenon
  <2>3. /\ r.standby = st /\ r.node = nd /\ r.hw = in[i].hw /\ r.open = in[i].open
        /\ r.source = in[i].source
    BY <2>1 DEF InStream
  <2>4. in' = [in EXCEPT ![i] = r]
    BY <1>2, <1>3 DEF InTypes
  <2> HIDE DEF r
  <2>5. in' \in [In -> InStream] /\ reader' \in [In -> {"idle", "pcm", "compress"}]
    BY <1>2, <1>3, <2>2, <2>4, ZenonT(120) DEF InTypes
  <2>6. InTypes'
    BY <1>1, <1>2, <2>5 DEF InTypes
  <2>7. /\ in'[i] = r /\ reader'[i] = k
        /\ \A j \in In \ {i} : in'[j] = in[j] /\ reader'[j] = reader[j]
    BY <1>2, <1>3, <2>4 DEF InTypes
  <2>8. StreamOK(i)'
    BY <1>1, <1>2, <1>3, <2>3, <2>7, ZenonT(120) DEF StreamOK
  <2> QED
    BY <1>1, <1>3, <2>3, <2>6, <2>7, <2>8, LocalStep, ZenonT(120)
<1>4. CASE in_pcm_read(i)
  <2>1. /\ in[i].open /\ ctl[i].step # "close" /\ in[i].hw # NULL
        /\ reader' = [reader EXCEPT ![i] = Kind(in[i].hw)] /\ UNCHANGED in
    BY <1>4 DEF in_pcm_read
  <2>2. Kind(in[i].hw) \in {"pcm", "compress"}
    BY DEF Kind
  <2>3. reader' \in [In -> {"idle", "pcm", "compress"}]
    BY <1>2, <2>1, <2>2 DEF InTypes
  <2>4. InTypes'
    BY <1>1, <1>2, <2>1, <2>3 DEF InTypes
  <2>5. /\ reader'[i] = Kind(in[i].hw)
        /\ \A j \in In \ {i} : reader'[j] = reader[j]
    BY <1>2, <2>1 DEF InTypes
  <2>6. StreamOK(i)'
    BY <1>1, <1>2, <2>1, <2>5 DEF StreamOK
  <2> QED
    BY <1>1, <2>1, <2>4, <2>5, <2>6, LocalStep
<1>5. CASE in_pcm_standby(i)
  <2>1. /\ in[i].open /\ ctl[i].step = "idle" /\ UNCHANGED reader
        /\ in' = [in EXCEPT ![i].standby = TRUE, ![i].node = "none"]
    BY <1>5 DEF in_pcm_standby, Unlocked
  <2> DEFINE r == [in[i] EXCEPT !.standby = TRUE, !.node = "none"]
  <2>2. in[i] \in InStream
    BY <1>2 DEF InTypes
  <2>3. r \in InStream
    BY <2>2, InRecords, Zenon
  <2>4. /\ r.standby = TRUE /\ r.node = "none" /\ r.hw = in[i].hw /\ r.open = in[i].open
        /\ r.source = in[i].source
    BY <2>2 DEF InStream
  <2>5. in' = [in EXCEPT ![i] = r]
    BY <1>2, <2>1 DEF InTypes
  <2> HIDE DEF r
  <2>6. in' \in [In -> InStream]
    BY <1>2, <2>3, <2>5 DEF InTypes
  <2>7. InTypes'
    BY <1>1, <1>2, <2>1, <2>6 DEF InTypes
  <2>8. in'[i] = r /\ \A j \in In \ {i} : in'[j] = in[j]
    BY <1>2, <2>5 DEF InTypes
  <2>9. StreamOK(i)'
    BY <1>1, <1>2, <2>1, <2>4, <2>8, ZenonT(120) DEF StreamOK
  <2> QED
    BY <1>1, <2>1, <2>4, <2>7, <2>8, <2>9, LocalStep
<1>6. CASE do_in_pcm_read(i) \/ do_in_compress_pcm_read(i)
  <2>1. /\ reader[i] # "idle" /\ ctl[i].step = "idle"
        /\ reader' = [reader EXCEPT ![i] = "idle"]
    BY <1>6 DEF do_in_pcm_read, do_in_compress_pcm_read, Unlocked
  <2>2. in[i].open /\ in[i] \in InStream
    BY <1>2, <2>1 DEF StreamOK, InTypes
  <2>3. \/ UNCHANGED in
        \/ \E nd \in {reader[i], "none"} :
             in' = [in EXCEPT ![i].standby = FALSE, ![i].node = nd]
    BY <1>6 DEF do_in_pcm_read, do_in_compress_pcm_read
  <2>4. reader[i] \in {"pcm", "compress"}
    BY <1>2, <2>1 DEF InTypes
  <2>5. CASE UNCHANGED in
    <3>1. reader' \in [In -> {"idle", "pcm", "compress"}]
      BY <1>2, <2>1 DEF InTypes
    <3>2. InTypes'
      BY <1>1, <1>2, <2>5, <3>1 DEF InTypes
    <3>3. reader'[i] = "idle" /\ \A j \in In \ {i} : reader'[j] = reader[j]
      BY <1>2, <2>1 DEF InTypes
    <3>4. StreamOK(i)'
      BY <1>1, <1>2, <2>1, <2>2, <2>5, <3>3, SMTT(120) DEF StreamOK
    <3> QED
      BY <1>1, <2>2, <2>5, <3>2, <3>3, <3>4, LocalStep
  <2>6. ASSUME NEW nd \in {reader[i], "none"},
               in' = [in EXCEPT ![i].standby = FALSE, ![i].node = nd]
        PROVE  InInv'
    <3>1. nd # "none" /\ ~overtaken[i] => nd = Kind(in[i].hw)
      BY <1>2, <2>1, <2>4 DEF StreamOK
    <3> QED
      BY <1>3, <2>1, <2>2, <2>4, <2>6, <3>1
  <2> QED
    BY <2>3, <2>5, <2>6
<1> QED
  BY <1>4, <1>5, <1>6

\* The trigger's own events leave the streams alone, and voice audio with the
\* owner it has.
LEMMA TriggerKeepsInput ==
    ASSUME ConstantsOK, InInv, voice_trigger_enable \/ voice_trigger_disable
                      \/ voice_trigger_triggered
    PROVE  InInv'
<1>1. /\ UNCHANGED <<active_voice_control, in, ctl, reader, overtaken>>
      /\ InTypes /\ RefsOK
      /\ \A j \in In : in'[j].hw = in[j].hw
  BY DEF InInv, voice_trigger_enable, voice_trigger_disable,
    voice_trigger_triggered
<1>2. ASSUME ref_count' \in [Hw -> Nat], routed' \in [Hw -> BOOLEAN],
             voice_trig_stream' \in {NULL, "recog", "trigger"}, refired' \in BOOLEAN, RefsOK',
             voice_st' \in VoiceState,
             voice_st' \in {"RecogAudio", "RecogReArm"} => voice_st \in {"RecogAudio", "RecogReArm"}
      PROVE  InInv'
  <2>1. InTypes'
    BY <1>1, <1>2 DEF InTypes
  <2>2. VoiceOK'
    BY <1>1, <1>2 DEF InInv, VoiceOK
  <2>3. \A i \in In : StreamOK(i)'
    BY <1>1, Zenon DEF InInv, StreamOK, Closed, Kind
  <2> QED
    BY <1>2, <2>1, <2>2, <2>3 DEF InInv
<1>3. ASSUME NEW from \in VoiceState, NEW to \in VoiceState, Move(from, to),
             from \in HoldingStates, to \in HoldingStates, UNCHANGED refired,
             to \in {"RecogAudio", "RecogReArm"} => from \in {"RecogAudio", "RecogReArm"}
      PROVE  InInv'
  <2>1. /\ voice_st = from /\ voice_st' = to /\ UNCHANGED <<voice_trig_stream, ref_count, routed>>
    BY <1>3 DEF Move, hwVars
  <2>2. RefsOK'
    BY <1>1, <1>3, <2>1, StayKeepsRefs
  <2> QED
    BY <1>1, <1>2, <1>3, <2>1, <2>2 DEF InTypes
<1>4. CASE voice_trigger_enable
  <2>1. /\ refired' = (refired \/ voice_st = "TriggerFired") /\ refired' \in BOOLEAN
    BY <1>1, <1>4 DEF InTypes, voice_trigger_enable
  <2>2. ASSUME NEW name \in {"recog", "trigger"}, do_voice_trigger_open_stream(name),
               voice_st \in {"TriggerIdle", "TriggerFired", "RecogIdle"},
               voice_st' \in {"TriggerArmed", "RecogArmed"}
        PROVE  InInv'
    <3>1. /\ voice_st' \in HoldingStates /\ voice_st' \in VoiceState
          /\ voice_st' \notin {"RecogAudio", "RecogReArm"}
      BY <2>2 DEF HoldingStates, VoiceState, VoiceTriggerOnly
    <3>2. refired \/ voice_st \in HoldingStates => refired'
      BY <2>1, <2>2 DEF HoldingStates
    <3>3. /\ ref_count' \in [Hw -> Nat] /\ routed' \in [Hw -> BOOLEAN]
          /\ voice_trig_stream' \in {NULL, "recog", "trigger"}
          /\ RefsOK'
      BY <1>1, <2>1, <2>2, <3>1, <3>2, OpenKeepsRefs
    <3> QED
      BY <1>2, <2>1, <3>1, <3>3
  <2>3. CASE Move("RecogAudio", "RecogReArm")
    <3>1. refired' = refired
      BY <1>1, <2>1, <2>3 DEF Move, InTypes
    <3> QED
      BY <1>3, <2>3, <3>1 DEF HoldingStates, VoiceState
  <2> QED
    BY <1>4, <2>2, <2>3 DEF voice_trigger_enable
<1>5. CASE voice_trigger_disable
  <2>1. UNCHANGED refired
    BY <1>5 DEF voice_trigger_disable
  <2>2. ASSUME do_voice_trigger_close_stream,
               voice_st \in {"TriggerFired", "TriggerArmed", "RecogArmed"},
               voice_st' \in {"TriggerIdle", "RecogIdle"}
        PROVE  InInv'
    <3>1. /\ voice_st \in HoldingStates /\ voice_st' \notin HoldingStates
          /\ voice_st' \in VoiceState /\ voice_st' \notin {"RecogAudio", "RecogReArm"}
      BY <2>2 DEF HoldingStates, VoiceState, VoiceTriggerOnly
    <3>2. /\ ref_count' \in [Hw -> Nat] /\ routed' \in [Hw -> BOOLEAN]
          /\ voice_trig_stream' \in {NULL, "recog", "trigger"}
          /\ RefsOK'
      BY <1>1, <2>1, <2>2, <3>1, CloseKeepsRefs
    <3> QED
      BY <1>1, <1>2, <2>1, <3>1, <3>2 DEF InTypes
  <2>3. CASE Move("RecogReArm", "RecogAudio")
    BY <1>3, <2>1, <2>3 DEF HoldingStates, VoiceState
  <2> QED
    BY <1>5, <2>2, <2>3 DEF voice_trigger_disable
<1>6. CASE voice_trigger_triggered
  BY <1>3, <1>6 DEF voice_trigger_triggered, HoldingStates, VoiceState,
    VoiceTriggerOnly
<1> QED
  BY <1>4, <1>5, <1>6

\* The steps under adev->lock that make a stream the voice stream, or no longer.
LEMMA VoiceStepKeepsInput ==
    ASSUME ConstantsOK, InInv, NEW i \in In,
           change_input_source_voice(i) \/ do_close_in_common_voice(i)
    PROVE  InInv'
<1>1. InTypes /\ StreamOK(i) /\ VoiceOK /\ RefsOK /\ i # NULL
  BY DEF ConstantsOK, InInv
<1>2. in[i] \in InStream /\ ctl[i] \in Control
  BY <1>1 DEF InTypes
<1>3. \E st \in {"route", "close"} : ctl' = [ctl EXCEPT ![i].step = st]
  BY DEF change_input_source_voice, do_close_in_common_voice
<1>4. PICK st \in {"route", "close"} : ctl' = [ctl EXCEPT ![i].step = st]
  BY <1>3
<1>5. /\ UNCHANGED <<named, reader, refired, overtaken>>
  BY DEF change_input_source_voice, do_close_in_common_voice
<1>6. /\ ctl' \in [In -> Control] /\ ctl'[i].step = st
      /\ \A j \in In \ {i} : ctl'[j] = ctl[j]
  <2> DEFINE c == [ctl[i] EXCEPT !.step = st]
  <2>1. c \in Control /\ c.step = st
    BY <1>2 DEF Control
  <2>2. ctl' = [ctl EXCEPT ![i] = c]
    BY <1>1, <1>4 DEF InTypes
  <2> HIDE DEF c
  <2> QED
    BY <1>1, <2>1, <2>2 DEF InTypes
<1>7. ASSUME voice_trigger_audio_ended_locked, active_voice_control' = NULL,
             in' \in [In -> InStream], \A j \in In : in'[j].hw = in[j].hw,
             \A j \in In \ {i} : in'[j] = in[j], StreamOK(i)'
      PROVE  InInv'
  <2>1. /\ ref_count' \in [Hw -> Nat] /\ routed' \in [Hw -> BOOLEAN]
        /\ voice_trig_stream' \in {NULL, "recog", "trigger"}
        /\ voice_st' \in VoiceState \ {"RecogAudio", "RecogReArm"}
        /\ RefsOK'
    BY <1>1, <1>5, <1>7, AudioEndKeepsRefs
  <2>2. InTypes'
    BY <1>1, <1>5, <1>6, <1>7, <2>1 DEF InTypes
  <2>3. VoiceOK'
    BY <1>7, <2>1 DEF VoiceOK
  <2>4. \A j \in In : StreamOK(j)'
    BY <1>1, <1>5, <1>6, <1>7, OthersKept DEF InInv
  <2> QED
    BY <2>1, <2>2, <2>3, <2>4 DEF InInv
<1>8. ASSUME UNCHANGED <<voice_trig_stream, ref_count, routed>>,
             voice_st' \in VoiceState, voice_st \in HoldingStates <=> voice_st' \in HoldingStates,
             active_voice_control' \in {active_voice_control, i},
             active_voice_control' = i =>
                 in'[i].open /\ in'[i].hw # NULL /\ in'[i].source = "recognition",
             voice_st' \in {"RecogAudio", "RecogReArm"} => active_voice_control' # NULL,
             in' \in [In -> InStream], \A j \in In : in'[j].hw = in[j].hw,
             \A j \in In \ {i} : in'[j] = in[j], StreamOK(i)'
      PROVE  InInv'
  <2>1. RefsOK'
    BY <1>1, <1>5, <1>8, StayKeepsRefs
  <2>2. InTypes'
    BY <1>1, <1>5, <1>6, <1>8 DEF InTypes
  <2>3. VoiceOK'
    BY <1>1, <1>8, SMTT(120) DEF VoiceOK, InTypes
  <2>4. \A j \in In : StreamOK(j)'
    BY <1>1, <1>5, <1>6, <1>8, OthersKept DEF InInv
  <2> QED
    BY <2>1, <2>2, <2>3, <2>4, SMTT(120) DEF InInv
<1>9. CASE change_input_source_voice(i)
  <2> DEFINE r == [in[i] EXCEPT !.source = ctl[i].source]
  <2>1. /\ ctl[i].step = "voice" /\ in' = [in EXCEPT ![i].source = ctl[i].source]
        /\ ctl' = [ctl EXCEPT ![i].step = "route"]
    BY <1>9 DEF change_input_source_voice
  <2>2. /\ r \in InStream /\ r.source = ctl[i].source /\ r.hw = in[i].hw /\ r.open = in[i].open
        /\ r.standby = in[i].standby /\ r.node = in[i].node
    BY <1>2 DEF InStream, Control
  <2>3. in' = [in EXCEPT ![i] = r]
    BY <1>1, <2>1 DEF InTypes
  <2>4. ctl'[i].step = "route"
    BY <1>1, <1>2, <2>1, SMTT(120) DEF InTypes, Control
  <2> HIDE DEF r
  <2>5. in' \in [In -> InStream] /\ in'[i] = r /\ \A j \in In \ {i} : in'[j] = in[j]
    BY <1>1, <2>2, <2>3, SMTT(120) DEF InTypes
  <2>6. \A j \in In : in'[j].hw = in[j].hw
    BY <2>2, <2>5
  <2>7. /\ in[i].open /\ in[i].hw # NULL /\ StreamOK(i)'
    BY <1>1, <1>5, <2>1, <2>2, <2>4, <2>5, SMTT(120) DEF StreamOK
  <2>8. CASE ctl[i].source = "recognition"
    <3>1. /\ active_voice_control' = i /\ UNCHANGED <<voice_trig_stream, ref_count, routed>>
          /\ voice_st' = IF voice_st = "RecogFired" THEN "RecogAudio" ELSE voice_st
      BY <1>9, <2>8 DEF change_input_source_voice, voice_trigger_audio_started_locked,
        hwVars
    <3>2. voice_st' \in VoiceState /\ (voice_st \in HoldingStates <=> voice_st' \in HoldingStates)
      BY <1>1, <3>1 DEF InTypes, VoiceState, HoldingStates
    <3> QED
      BY <1>1, <1>8, <2>2, <2>5, <2>6, <2>7, <2>8, <3>1, <3>2
  <2>9. CASE ctl[i].source # "recognition" /\ active_voice_control = i
    BY <1>7, <1>9, <2>5, <2>6, <2>7, <2>9 DEF change_input_source_voice
  <2>10. CASE ctl[i].source # "recognition" /\ active_voice_control # i
    <3>1. UNCHANGED <<active_voice_control, voice_st, voice_trig_stream, ref_count, routed>>
      BY <1>9, <2>10 DEF change_input_source_voice, hwVars
    <3>2. /\ voice_st' \in VoiceState
          /\ voice_st' \in {"RecogAudio", "RecogReArm"} => active_voice_control' # NULL
      BY <1>1, <3>1 DEF InTypes, VoiceOK
    <3> QED
      BY <1>8, <2>5, <2>6, <2>7, <2>10, <3>1, <3>2
  <2> QED
    BY <2>8, <2>9, <2>10
<1>10. CASE do_close_in_common_voice(i)
  <2>1. /\ in[i].open /\ ctl[i].step = "idle" /\ reader[i] = "idle" /\ in[i].standby
        /\ UNCHANGED in /\ ctl' = [ctl EXCEPT ![i].step = "close"]
    BY <1>10 DEF do_close_in_common_voice, Unlocked
  <2>2. /\ in' \in [In -> InStream] /\ (\A j \in In : in'[j].hw = in[j].hw)
        /\ \A j \in In \ {i} : in'[j] = in[j]
    BY <1>1, <2>1 DEF InTypes
  <2>3. ctl'[i].step = "close"
    BY <1>1, <1>2, <2>1 DEF InTypes, Control
  <2>4. active_voice_control' # i => StreamOK(i)'
    BY <1>1, <1>5, <2>1, <2>3 DEF StreamOK
  <2>5. CASE active_voice_control = i
    <3>1. active_voice_control' = NULL /\ voice_trigger_audio_ended_locked
      BY <1>10, <2>5, SMTT(120) DEF do_close_in_common_voice
    <3> QED
      BY <1>1, <1>7, <2>2, <2>4, <3>1
  <2>6. CASE active_voice_control # i
    <3>1. UNCHANGED <<active_voice_control, voice_st, voice_trig_stream, ref_count, routed>>
      BY <1>10, <2>6 DEF do_close_in_common_voice, hwVars
    <3>2. /\ voice_st' \in VoiceState
          /\ voice_st' \in {"RecogAudio", "RecogReArm"} => active_voice_control' # NULL
      BY <1>1, <3>1, SMTT(120) DEF InTypes, VoiceOK
    <3> QED
      BY <1>8, <2>2, <2>4, <2>6, <3>1, <3>2
  <2> QED
    BY <2>5, <2>6
<1> QED
  BY <1>9, <1>10

\* One input stream gives back a hardware stream, takes one, or both; the
\* trigger holds what it held.
LEMMA MoveKeepsRefs ==
    ASSUME ConstantsOK, InTypes, RefsOK, NEW i \in In, NEW new \in Hw \cup {NULL},
           \A j \in In \ {i} : in'[j].hw = in[j].hw, in'[i].hw = new,
           UNCHANGED <<voice_st, voice_trig_stream, refired>>,
           \A g \in Hw : ref_count'[g] =
               ref_count[g] + (IF g = new THEN 1 ELSE 0) - (IF g = in[i].hw THEN 1 ELSE 0)
    PROVE  RefsOK' /\ \A g \in Hw : ref_count'[g] \in Nat
<1>1. \A g \in Hw : /\ TriggerRefs(g)' = TriggerRefs(g) /\ TriggerRefs(g) \in {0, 1}
                          /\ ref_count[g] \in Nat
  BY DEF TriggerRefs, TriggerHolds, InTypes
<1>2. \A g \in Hw :
        /\ Cardinality(Holders(g)) \in Nat /\ Cardinality(Holders(g))' \in Nat
        /\ Cardinality(Holders(g))' = Cardinality(Holders(g))
             + (IF in'[i].hw = g THEN 1 ELSE 0) - (IF in[i].hw = g THEN 1 ELSE 0)
  BY HoldersMove, Zenon
<1>3. ASSUME NEW g \in Hw
      PROVE  /\ ref_count'[g] \in Nat
             /\ ref_count'[g] >= Cardinality(Holders(g))' + TriggerRefs(g)'
             /\ ~refired' => ref_count'[g] = Cardinality(Holders(g))' + TriggerRefs(g)'
  <2>1. /\ ref_count[g] >= Cardinality(Holders(g)) + TriggerRefs(g)
        /\ ~refired => ref_count[g] = Cardinality(Holders(g)) + TriggerRefs(g)
    BY DEF RefsOK
  <2>2. /\ Cardinality(Holders(g)) \in Nat /\ Cardinality(Holders(g))' \in Nat
        /\ Cardinality(Holders(g))' = Cardinality(Holders(g))
             + (IF in'[i].hw = g THEN 1 ELSE 0) - (IF in[i].hw = g THEN 1 ELSE 0)
    BY <1>2
  <2>3. ref_count'[g] - ref_count[g] = Cardinality(Holders(g))' - Cardinality(Holders(g))
    BY <1>1, <2>2
  <2>4. ref_count'[g] \in Int
    BY <1>1, SMTT(120)
  <2> QED
    BY <1>1, <2>1, <2>2, <2>3, <2>4
<1> QED
  BY <1>3 DEF RefsOK

\* What remains of the invariant when one stream moves between hardware
\* streams outside the trigger.
LEMMA MoveKeepsInput ==
    ASSUME ConstantsOK, InInv, NEW i \in In, NEW new \in Hw \cup {NULL},
           in' \in [In -> InStream], ctl' \in [In -> Control], overtaken' \in [In -> BOOLEAN],
           \A j \in In \ {i} : in'[j] = in[j] /\ ctl'[j] = ctl[j] /\ overtaken'[j] = overtaken[j],
           in'[i].hw = new, StreamOK(i)',
           UNCHANGED <<voice_st, voice_trig_stream, active_voice_control, refired, reader>>,
           active_voice_control = i =>
               in'[i].open /\ in'[i].hw # NULL /\ in'[i].source = "recognition",
           ref_count' \in [Hw -> Int], routed' \in [Hw -> BOOLEAN],
           \A g \in Hw : ref_count'[g] =
               ref_count[g] + (IF g = new THEN 1 ELSE 0) - (IF g = in[i].hw THEN 1 ELSE 0)
    PROVE  InInv'
<1>1. InTypes /\ RefsOK /\ VoiceOK
  BY SMTT(120) DEF InInv
<1>2. RefsOK' /\ \A g \in Hw : ref_count'[g] \in Nat
  BY <1>1, MoveKeepsRefs
<1>3. ref_count' \in [Hw -> Nat]
  BY <1>2
<1>4. InTypes'
  BY <1>1, <1>3 DEF InTypes
<1>5. VoiceOK'
  BY <1>1, SMTT(120) DEF VoiceOK, InTypes
<1>6. \A j \in In : StreamOK(j)'
  BY <1>1, OthersKept DEF InInv
<1> QED
  BY <1>2, <1>4, <1>5, <1>6, SMTT(120) DEF InInv

\* change_input_source: the new stream is taken, the old one is given back.
LEMMA GetKeepsInput ==
    ASSUME ConstantsOK, InInv, NEW i \in In, change_input_source_get(i)
    PROVE  InInv'
<1>1. InTypes /\ StreamOK(i) /\ in[i] \in InStream /\ ctl[i] \in Control /\ ctl[i].step = "get"
  BY SMTT(120) DEF InInv, InTypes, change_input_source_get
<1>2. /\ in[i].open /\ in[i].standby /\ in[i].node = "none" /\ in[i].hw \in Hw \cup {NULL}
  BY <1>1 DEF StreamOK, InStream
<1>3. UNCHANGED <<named, voice_st, voice_trig_stream, active_voice_control, refired, reader>>
  BY SMTT(120) DEF change_input_source_get, voiceVars
<1> DEFINE refs(h) == [ref_count EXCEPT ![h] = @ + 1]
           Switched(h) ==
             /\ ref_count' = IF in[i].hw = NULL THEN refs(h)
                             ELSE [refs(h) EXCEPT ![in[i].hw] = @ - 1]
             /\ routed' = IF in[i].hw # NULL /\ refs(h)[in[i].hw] = 1
                          THEN [routed EXCEPT ![in[i].hw] = FALSE] ELSE routed
             /\ in' = [in EXCEPT ![i].hw = h]
             /\ ctl' = [ctl EXCEPT ![i].step = "voice"]
             /\ overtaken' = [overtaken EXCEPT ![i] =
                                  @ \/ reader[i] \notin {"idle", Kind(h)}]
<1>4. ASSUME NEW h \in Hw, Switched(h) PROVE InInv'
  <2>1. h # NULL /\ NULL \notin Hw
    BY DEF ConstantsOK
  <2>2. \A g \in Hw : ref_count'[g] =
            ref_count[g] + (IF g = h THEN 1 ELSE 0) - (IF g = in[i].hw THEN 1 ELSE 0)
    BY <1>1, <1>2, <1>4, <2>1 DEF InTypes
  <2>3. ref_count' \in [Hw -> Int]
    <3>1. refs(h) \in [Hw -> Int]
      BY <1>1 DEF InTypes
    <3> HIDE DEF refs
    <3> QED
      BY <1>2, <1>4, <3>1
  <2>4. routed' \in [Hw -> BOOLEAN]
    BY <1>1, <1>2, <1>4 DEF InTypes
  <2>5. /\ in' \in [In -> InStream] /\ in'[i] = [in[i] EXCEPT !.hw = h]
        /\ \A j \in In \ {i} : in'[j] = in[j]
    <3> DEFINE r == [in[i] EXCEPT !.hw = h]
    <3>1. r \in InStream
      BY <1>1, InRecords, Zenon
    <3>2. in' = [in EXCEPT ![i] = r]
      BY <1>1, <1>4 DEF InTypes
    <3> HIDE DEF r
    <3>3. in' \in [In -> InStream] /\ in'[i] = r /\ \A j \in In \ {i} : in'[j] = in[j]
      BY <1>1, <3>1, <3>2 DEF InTypes
    <3> QED
      BY <3>3 DEF r
  <2>6. /\ in'[i].hw = h /\ in'[i].open = in[i].open /\ in'[i].standby = in[i].standby
        /\ in'[i].node = in[i].node /\ in'[i].source = in[i].source
    BY <1>1, <2>5 DEF InStream
  <2>7. /\ ctl' \in [In -> Control] /\ ctl'[i].step = "voice"
        /\ \A j \in In \ {i} : ctl'[j] = ctl[j]
    <3> DEFINE c == [ctl[i] EXCEPT !.step = "voice"]
    <3>1. c \in Control /\ c.step = "voice"
      BY <1>1 DEF Control
    <3>2. ctl' = [ctl EXCEPT ![i] = c]
      BY <1>1, <1>4 DEF InTypes
    <3> HIDE DEF c
    <3> QED
      BY <1>1, <3>1, <3>2 DEF InTypes
  <2>8. /\ overtaken' \in [In -> BOOLEAN]
        /\ overtaken'[i] <=> overtaken[i] \/ reader[i] \notin {"idle", Kind(h)}
        /\ \A j \in In \ {i} : overtaken'[j] = overtaken[j]
    BY <1>1, <1>4, ZenonT(120) DEF InTypes
  <2>9. StreamOK(i)'
    BY <1>1, <1>2, <1>3, <2>1, <2>6, <2>7, <2>8 DEF StreamOK
  <2>10. active_voice_control = i =>
           in'[i].open /\ in'[i].hw # NULL /\ in'[i].source = "recognition"
    BY <1>2, <2>1, <2>6 DEF InInv, VoiceOK, ConstantsOK
  <2> HIDE DEF Switched
  <2>11. /\ h \in Hw \cup {NULL} /\ in' \in [In -> InStream]
         /\ \A j \in In \ {i} : in'[j] = in[j] /\ ctl'[j] = ctl[j] /\ overtaken'[j] = overtaken[j]
         /\ ctl' \in [In -> Control] /\ overtaken' \in [In -> BOOLEAN] /\ in'[i].hw = h
    BY <2>5, <2>6, <2>7, <2>8, SMTT(120)
  <2> QED
    BY <1>3, <2>2, <2>3, <2>4, <2>9, <2>10, <2>11, MoveKeepsInput
<1>5. ASSUME ctl' = [ctl EXCEPT ![i] = Idle], UNCHANGED <<ref_count, routed, in, overtaken>>
      PROVE  InInv'
  <2>1. Idle \in Control /\ Idle.step = "idle"
    BY InRecords, ZenonT(120) DEF Idle
  <2>2. ctl' \in [In -> Control] /\ ctl'[i].step = "idle" /\ \A j \in In \ {i} : ctl'[j] = ctl[j]
    BY <1>1, <1>5, <2>1 DEF InTypes
  <2>3. InTypes'
    BY <1>1, <1>3, <1>5, <2>2, SMTT(120) DEF InTypes
  <2>4. StreamOK(i)'
    BY <1>1, <1>2, <1>3, <1>5, <2>2 DEF StreamOK
  <2> QED
    BY <1>2, <1>3, <1>5, <2>2, <2>3, <2>4, LocalStep, SMTT(120)
<1>6. CASE ctl[i].name # NULL /\ CanGet(ctl[i].name)
  <2>1. ctl[i].name \in Hw
    BY <1>1, <1>6 DEF Control, Hw
  <2>2. Switched(ctl[i].name)
    BY <1>6 DEF change_input_source_get, Acquired
  <2> HIDE DEF Switched
  <2> QED
    BY <1>4, <2>1, <2>2, SMTT(120)
<1>7. CASE ~(ctl[i].name # NULL /\ CanGet(ctl[i].name)) /\ CanGet("pcm")
  <2>1. Switched("pcm")
    BY <1>7 DEF change_input_source_get, Acquired
  <2>2. "pcm" \in Hw
    BY DEF Hw
  <2> HIDE DEF Switched
  <2> QED
    BY <1>4, <2>1, <2>2
<1>8. CASE ~(ctl[i].name # NULL /\ CanGet(ctl[i].name)) /\ ~CanGet("pcm")
  BY <1>5, <1>8, SMTT(120) DEF change_input_source_get, hwVars
<1> QED
  BY <1>6, <1>7, <1>8

\* The end of a close.
LEMMA ReleaseKeepsInput ==
    ASSUME ConstantsOK, InInv, NEW i \in In, do_close_in_common_release(i)
    PROVE  InInv'
<1>1. InTypes /\ StreamOK(i) /\ in[i] \in InStream /\ ctl[i].step = "close"
  BY DEF InInv, InTypes, do_close_in_common_release
<1>2. /\ active_voice_control # i /\ reader[i] = "idle" /\ in[i].hw \in Hw \cup {NULL}
  BY <1>1 DEF StreamOK, InStream
<1>3. /\ UNCHANGED <<named, voice_st, voice_trig_stream, active_voice_control, refired, reader>>
      /\ in' = [in EXCEPT ![i] = Closed] /\ ctl' = [ctl EXCEPT ![i] = Idle]
      /\ overtaken' = [overtaken EXCEPT ![i] = FALSE]
  BY DEF do_close_in_common_release, voiceVars
<1>4. /\ Closed \in InStream /\ Idle \in Control /\ Idle.step = "idle"
      /\ Closed.hw = NULL /\ Closed.open = FALSE /\ Closed.node = "none"
  BY InRecords, ZenonT(120) DEF Closed, Idle
<1>5. /\ in' \in [In -> InStream] /\ in'[i] = Closed
      /\ ctl' \in [In -> Control] /\ ctl'[i] = Idle
      /\ overtaken' \in [In -> BOOLEAN]
      /\ \A j \in In \ {i} : in'[j] = in[j] /\ ctl'[j] = ctl[j] /\ overtaken'[j] = overtaken[j]
  BY <1>1, <1>3, <1>4, SMTT(120) DEF InTypes
<1>6. StreamOK(i)'
  BY <1>2, <1>3, <1>4, <1>5, SMTT(120) DEF StreamOK, Closed
<1>7. /\ ref_count' \in [Hw -> Int] /\ routed' \in [Hw -> BOOLEAN]
      /\ \A g \in Hw : ref_count'[g] =
            ref_count[g] + (IF g = NULL THEN 1 ELSE 0) - (IF g = in[i].hw THEN 1 ELSE 0)
  <2>1. NULL \notin Hw
    BY DEF ConstantsOK
  <2>2. CASE in[i].hw = NULL
    <3>1. UNCHANGED <<ref_count, routed>>
      BY <2>2 DEF do_close_in_common_release, hwVars
    <3> QED
      BY <1>1, <2>1, <2>2, <3>1 DEF InTypes
  <2>3. CASE in[i].hw # NULL
    <3>1. /\ ref_count' = [ref_count EXCEPT ![in[i].hw] = @ - 1]
          /\ routed' = IF ref_count[in[i].hw] = 1 THEN [routed EXCEPT ![in[i].hw] = FALSE] ELSE routed
      BY <2>3, SMTT(120) DEF do_close_in_common_release, release_stream
    <3>2. routed' \in [Hw -> BOOLEAN]
      BY <1>1, <1>2, <3>1 DEF InTypes
    <3>3. ref_count' \in [Hw -> Int]
      BY <1>1, <1>2, <2>3, <3>1 DEF InTypes
    <3>4. \A g \in Hw : ref_count'[g] = ref_count[g] - (IF g = in[i].hw THEN 1 ELSE 0)
      BY <1>1, <1>2, <2>3, <3>1 DEF InTypes
    <3>5. \A g \in Hw : ref_count[g] \in Int /\ g # NULL
      BY <1>1, <2>1 DEF InTypes
    <3> QED
      BY <3>2, <3>3, <3>4, <3>5, SMTT(120)
  <2> QED
    BY <2>2, <2>3
<1>8. NULL \in Hw \cup {NULL} /\ in'[i].hw = NULL
  BY <1>4, <1>5
<1> QED
  BY <1>2, <1>3, <1>5, <1>6, <1>7, <1>8, MoveKeepsInput, ZenonT(120)
-----------------------------------------------------------------------------
\* At the start no stream is open and nobody holds a reference.
LEMMA InputStarts ==
    ASSUME ConstantsOK, Init
    PROVE  InInv
<1>1. InTypes
  BY InRecords, ZenonT(120) DEF Init, voice_trigger_init, InTypes, VoiceState, VoiceTriggerOnly
<1>2. \A i \in In : StreamOK(i)
  BY DEF ConstantsOK, Init, StreamOK, Closed, Idle
<1>3. VoiceOK
  BY DEF Init, voice_trigger_init, VoiceOK
<1>4. RefsOK
  <2> SUFFICES ASSUME NEW h \in Hw
               PROVE  ref_count[h] = 0 /\ Cardinality(Holders(h)) = 0 /\ TriggerRefs(h) = 0
    BY DEF RefsOK
  <2>1. h # NULL
    BY DEF ConstantsOK
  <2>2. Holders(h) = {}
    BY <2>1 DEF Init, Holders, Closed
  <2>3. TriggerRefs(h) = 0
    BY <2>1 DEF Init, TriggerRefs, TriggerHolds
  <2> QED
    BY <2>2, <2>3, FS_EmptySet DEF Init
<1> QED
  BY <1>1, <1>2, <1>3, <1>4, SMTT(120) DEF InInv

\* Every step of a stream or of the trigger keeps the invariant.
LEMMA InputStep ==
    ASSUME ConstantsOK, InInv, [Next]_vars
    PROVE  InInv'
<1>1. CASE Next
  BY <1>1, OpenKeepsInput, BeginKeepsInput, RouteKeepsInput, ReadKeepsInput, TriggerKeepsInput,
    VoiceStepKeepsInput, GetKeepsInput, ReleaseKeepsInput DEF Next
<1>2. CASE UNCHANGED vars
  <2>1. InTypes' /\ VoiceOK'
    BY <1>2 DEF vars, InInv, InTypes, VoiceOK
  <2>2. \A i \in In : StreamOK(i)'
    BY <1>2 DEF vars, InInv, StreamOK
  <2>3. RefsOK'
    BY <1>2, StayKeepsRefs DEF vars, InInv
  <2> QED
    BY <2>1, <2>2, <2>3 DEF InInv
<1> QED
  BY <1>1, <1>2, SMTT(120)

\* What the invariant says of the streams.
LEMMA InputConsistent ==
    ASSUME InInv
    PROVE  TypeOK /\ VoiceAudioHasOwner /\ ReferencesHaveHolders /\ NodeMatchesHardware
<1>1. TypeOK
  BY DEF InInv, InTypes, InStream, TypeOK
<1>2. VoiceAudioHasOwner
  BY DEF InInv, VoiceOK, VoiceAudioHasOwner
<1>3. ReferencesHaveHolders
  <2> SUFFICES ASSUME ~refired, NEW h \in Hw
               PROVE  ref_count[h] = Cardinality({i \in In : in[i].hw = h})
                                         + (IF TriggerHolds(h) THEN 1 ELSE 0)
    BY DEF ReferencesHaveHolders
  <2>1. ref_count[h] = Cardinality(Holders(h)) + TriggerRefs(h)
    BY SMTT(120) DEF InInv, RefsOK
  <2> QED
    BY <2>1, Zenon DEF Holders, TriggerRefs
<1>4. NodeMatchesHardware
  BY DEF InInv, StreamOK, NodeMatchesHardware
<1> QED
  BY <1>1, <1>2, <1>3, <1>4

\* For any number of capture streams and any instances of the hardware
\* streams: each reference has a holder, each node is of the kind of its
\* hardware stream, and voice audio has a stream that will end it.
THEOREM CaptureIsConsistent ==
    ASSUME ConstantsOK
    PROVE  Spec => [](TypeOK /\ VoiceAudioHasOwner /\ ReferencesHaveHolders /\ NodeMatchesHardware)
<1>1. Init => InInv
  BY InputStarts
<1>2. InInv /\ [Next]_vars => InInv'
  BY InputStep
<1>3. InInv => TypeOK /\ VoiceAudioHasOwner /\ ReferencesHaveHolders /\ NodeMatchesHardware
  BY InputConsistent
<1> QED
  BY <1>1, <1>2, <1>3, PTL DEF Spec

-----------------------------------------------------------------------------
(* Output streams. *)

OpenStreams == {o \in Out : Output!IsOpen(o)}

\* The references of the hardware stream are its open streams, and a stream
\* whose write is under way is open.
OutInv ==
    /\ Output!TypeOK
    /\ out_overtaken \in [Out -> BOOLEAN]
    /\ out_refs = Cardinality(OpenStreams)
    /\ \A o \in Out : step[o] = "write" => Output!IsOpen(o)
    /\ Output!WriteGoesSomewhere
    /\ Output!ActiveNodeIsLive

\* The kinds of records that a stream can be.
LEMMA OpenRecords ==
    ASSUME NEW b \in BOOLEAN, NEW p \in {"none", "open", "freed"}
    PROVE  /\ [standby |-> b, pcm |-> p] \in Output!Stream
           /\ [standby |-> b, pcm |-> p] # Output!Closed
           /\ [standby |-> b, pcm |-> p].standby = b
           /\ [standby |-> b, pcm |-> p].pcm = p
<1>1. [standby |-> b, pcm |-> p].pcm # Output!Closed.pcm
  BY DEF Output!Closed
<1> QED
  BY <1>1 DEF Output!Stream

\* A stream that is opened or closed is counted, any other change is not.
LEMMA OpenIsCounted ==
    ASSUME ConstantsOK, OutInv, NEW o \in Out, NEW r, out' = [out EXCEPT ![o] = r]
    PROVE  /\ Cardinality(OpenStreams)' = Cardinality(OpenStreams)
                 + (IF r # Output!Closed THEN 1 ELSE 0) - (IF Output!IsOpen(o) THEN 1 ELSE 0)
           /\ Cardinality(OpenStreams) \in Nat /\ Cardinality(OpenStreams)' \in Nat
           /\ Output!IsOpen(o) => Cardinality(OpenStreams) > 0
           /\ Output!IsOpen(o)' <=> r # Output!Closed
           /\ \A u \in Out : u # o => (Output!IsOpen(u)' <=> Output!IsOpen(u))
<1>1. out \in [Out -> Output!Stream \cup {Output!Closed}]
  BY DEF OutInv, Output!TypeOK
<1>2. /\ out'[o] = r
      /\ \A u \in Out : u # o => out'[u] = out[u]
  BY <1>1
<1>3. /\ Output!IsOpen(o)' <=> r # Output!Closed
      /\ \A u \in Out : u # o => (Output!IsOpen(u)' <=> Output!IsOpen(u))
  BY <1>2 DEF Output!IsOpen, Output!Closed
<1>4. \A u \in Out : u # o => (u \in OpenStreams <=> u \in OpenStreams')
  BY <1>3 DEF OpenStreams
<1>5. OpenStreams \in SUBSET Out /\ OpenStreams' \in SUBSET Out
  BY DEF OpenStreams
<1>6. /\ o \in OpenStreams <=> Output!IsOpen(o)
      /\ o \in OpenStreams' <=> r # Output!Closed
  BY <1>3 DEF OpenStreams
<1> HIDE DEF OpenStreams
<1> QED
  BY <1>3, <1>4, <1>5, <1>6, CountChanges DEF ConstantsOK

\* apply_route: a write that has looked at the routes before is overtaken when
\* the last one goes away.
LEMMA RouteKeepsWrites ==
    ASSUME ConstantsOK, OutInv, NEW devices \in SUBSET Devices, Output!apply_route(devices), UNCHANGED step
    PROVE  /\ routes' \subseteq Devices
           /\ out_overtaken' \in [Out -> BOOLEAN]
           /\ Output!WriteGoesSomewhere'
<1>1. /\ routes' = devices
      /\ out_overtaken' = [o \in Out |-> step[o] = "write" /\ (out_overtaken[o] \/ devices = {})]
  BY DEF Output!apply_route
<1>2. out_overtaken' \in [Out -> BOOLEAN]
  BY <1>1
<1>3. Output!WriteGoesSomewhere'
  BY <1>1 DEF Output!WriteGoesSomewhere
<1> QED
  BY <1>1, <1>2, <1>3

\* Opening and routing.
LEMMA OutOpens ==
    ASSUME ConstantsOK, OutInv, NEW o \in Out, NEW devices \in SUBSET Devices,
           Output!adev_open_output_stream(o, devices) \/ Output!out_set_parameters(o, devices)
    PROVE  OutInv'
<1>1. Output!apply_route(devices) /\ UNCHANGED step
  BY DEF Output!adev_open_output_stream, Output!out_set_parameters
<1>2. /\ routes' \subseteq Devices
      /\ out_overtaken' \in [Out -> BOOLEAN]
      /\ Output!WriteGoesSomewhere'
  BY <1>1, RouteKeepsWrites
<1>3. CASE Output!adev_open_output_stream(o, devices)
  <2> DEFINE r == [standby |-> TRUE, pcm |-> "none"]
  <2>1. r \in Output!Stream /\ r # Output!Closed /\ r.standby = TRUE /\ r.pcm = "none"
    BY OpenRecords, Zenon
  <2>2. /\ out' = [out EXCEPT ![o] = r] /\ ~Output!IsOpen(o)
        /\ out_refs < OutMaxRefCount /\ out_refs' = out_refs + 1
    BY <1>3 DEF Output!adev_open_output_stream
  <2> HIDE DEF r
  <2>3. /\ Cardinality(OpenStreams)' = Cardinality(OpenStreams) + 1
        /\ Cardinality(OpenStreams) \in Nat
        /\ Output!IsOpen(o)'
        /\ \A u \in Out : u # o => (Output!IsOpen(u)' <=> Output!IsOpen(u))
    <3>1. /\ Cardinality(OpenStreams)' = Cardinality(OpenStreams)
                + (IF r # Output!Closed THEN 1 ELSE 0) - (IF Output!IsOpen(o) THEN 1 ELSE 0)
          /\ Cardinality(OpenStreams) \in Nat
          /\ Output!IsOpen(o)' <=> r # Output!Closed
          /\ \A u \in Out : u # o => (Output!IsOpen(u)' <=> Output!IsOpen(u))
      BY <2>2, OpenIsCounted, Zenon
    <3> QED
      BY <2>1, <2>2, <3>1
  <2>4. out_refs' = Cardinality(OpenStreams)' /\ out_refs' \in 0 .. OutMaxRefCount
    BY <2>2, <2>3, SMTT(120) DEF OutInv, Output!TypeOK, ConstantsOK
  <2>5. out' \in [Out -> Output!Stream \cup {Output!Closed}]
    BY <2>1, <2>2, SMTT(120) DEF OutInv, Output!TypeOK
  <2>6. Output!TypeOK'
    BY <1>1, <1>2, <2>4, <2>5, SMTT(120) DEF OutInv, Output!TypeOK
  <2>7. Output!ActiveNodeIsLive'
    BY <2>1, <2>2, <2>3, SMTT(120) DEF OutInv, Output!TypeOK, Output!ActiveNodeIsLive
  <2> QED
    BY <1>1, <1>2, <2>3, <2>4, <2>6, <2>7 DEF OutInv
<1>4. CASE Output!out_set_parameters(o, devices)
  <2>1. UNCHANGED <<out, step, out_refs>>
    BY <1>4 DEF Output!out_set_parameters
  <2> QED
    BY <1>2, <2>1 DEF OutInv, Output!TypeOK, Output!ActiveNodeIsLive, Output!IsOpen, OpenStreams
<1> QED
  BY <1>3, <1>4

\* Writing and standby: an open stream stays open.
LEMMA OutWrites ==
    ASSUME ConstantsOK, OutInv, NEW o \in Out,
           Output!out_pcm_write(o) \/ Output!out_pcm_write_locked(o) \/ Output!out_pcm_standby(o)
    PROVE  OutInv'
<1>1. CASE Output!out_pcm_write(o)
  BY <1>1, SMTT(120) DEF OutInv, Output!TypeOK, Output!ActiveNodeIsLive, Output!IsOpen, OpenStreams,
    Output!WriteGoesSomewhere, Output!out_pcm_write
<1>2. ASSUME NEW r \in Output!Stream, Output!IsOpen(o), out' = [out EXCEPT ![o] = r],
             r # Output!Closed, ~r.standby <=> r.pcm = "open", UNCHANGED <<routes, out_refs>>,
             step' \in [Out -> {"idle", "write"}], out_overtaken' \in [Out -> BOOLEAN],
             \A u \in Out : step'[u] = "write" =>
                 step[u] = "write" /\ out_overtaken'[u] = out_overtaken[u]
      PROVE  OutInv'
  <2>1. /\ Cardinality(OpenStreams)' = Cardinality(OpenStreams)
        /\ \A u \in Out : Output!IsOpen(u)' <=> Output!IsOpen(u)
    <3>1. /\ Cardinality(OpenStreams)' = Cardinality(OpenStreams)
                + (IF r # Output!Closed THEN 1 ELSE 0) - (IF Output!IsOpen(o) THEN 1 ELSE 0)
          /\ Cardinality(OpenStreams) \in Nat
          /\ Output!IsOpen(o)' <=> r # Output!Closed
          /\ \A u \in Out : u # o => (Output!IsOpen(u)' <=> Output!IsOpen(u))
      <4>1. out' = [out EXCEPT ![o] = r]
        BY <1>2, ZenonT(120)
      <4> QED
        BY <4>1, OpenIsCounted, ZenonT(120)
    <3>2. Cardinality(OpenStreams)' = Cardinality(OpenStreams)
      <4>1. r # Output!Closed /\ Output!IsOpen(o)
        BY <1>2
      <4>2. Cardinality(OpenStreams)' = Cardinality(OpenStreams) + 1 - 1
        BY <3>1, <4>1, Zenon
      <4> QED
        BY <3>1, <4>2, SMTT(120)
    <3>3. Output!IsOpen(o)' <=> Output!IsOpen(o)
      BY <1>2, <3>1, Zenon
    <3> QED
      BY <3>1, <3>2, <3>3, Zenon
  <2>2. out' \in [Out -> Output!Stream \cup {Output!Closed}]
    BY <1>2, SMTT(120) DEF OutInv, Output!TypeOK
  <2>3. Output!TypeOK' /\ Output!WriteGoesSomewhere'
    BY <1>2, <2>2, SMTT(120) DEF OutInv, Output!TypeOK, Output!WriteGoesSomewhere
  <2>4. Output!ActiveNodeIsLive'
    BY <1>2, <2>1, SMTT(120) DEF OutInv, Output!TypeOK, Output!ActiveNodeIsLive
  <2> QED
    BY <1>2, <2>1, <2>3, <2>4 DEF OutInv
<1>3. CASE Output!out_pcm_write_locked(o)
  <2>1. /\ Output!IsOpen(o) /\ UNCHANGED <<routes, out_refs>>
        /\ step' = [step EXCEPT ![o] = "idle"] /\ out_overtaken' = [out_overtaken EXCEPT ![o] = FALSE]
    BY <1>3 DEF OutInv, Output!out_pcm_write_locked
  <2>2. /\ step' \in [Out -> {"idle", "write"}] /\ out_overtaken' \in [Out -> BOOLEAN]
        /\ \A u \in Out : step'[u] = "write" =>
               step[u] = "write" /\ out_overtaken'[u] = out_overtaken[u]
    BY <2>1, ZenonT(120) DEF OutInv, Output!TypeOK
  <2>3. \E b \in BOOLEAN, p \in {"none", "open", "freed"} :
          out' = [out EXCEPT ![o] = [standby |-> b, pcm |-> p]] /\ (~b <=> p = "open")
    BY <1>3 DEF Output!out_pcm_write_locked, Output!start_output_pcm
  <2>4. PICK b \in BOOLEAN, p \in {"none", "open", "freed"} :
          out' = [out EXCEPT ![o] = [standby |-> b, pcm |-> p]] /\ (~b <=> p = "open")
    BY <2>3, Zenon
  <2> DEFINE r == [standby |-> b, pcm |-> p]
  <2>5. /\ r \in Output!Stream /\ r # Output!Closed /\ r.standby = b /\ r.pcm = p
    BY OpenRecords, Zenon
  <2>6. out' = [out EXCEPT ![o] = r]
    BY <2>4, Zenon
  <2> HIDE DEF r
  <2>7. ~r.standby <=> r.pcm = "open"
    BY <2>4, <2>5, Zenon
  <2> QED
    BY <1>2, <2>1, <2>2, <2>5, <2>6, <2>7, ZenonT(120)
<1>4. CASE Output!out_pcm_standby(o)
  <2>1. /\ Output!IsOpen(o) /\ UNCHANGED <<step, routes, out_refs, out_overtaken>>
        /\ out' = [out EXCEPT ![o] = Output!do_out_pcm_standby(o)]
    BY <1>4, SMTT(120) DEF Output!out_pcm_standby
  <2>2. CASE out[o].standby
    <3>1. out' = out
      BY <2>1, <2>2 DEF Output!do_out_pcm_standby, OutInv, Output!TypeOK
    <3> QED
      BY <2>1, <3>1, ZenonT(120) DEF OutInv, Output!TypeOK, Output!ActiveNodeIsLive, Output!IsOpen, OpenStreams,
        Output!WriteGoesSomewhere
  <2>3. CASE ~out[o].standby
    <3>1. out' = [out EXCEPT ![o] = [standby |-> TRUE, pcm |-> "none"]]
      BY <2>1, <2>3 DEF Output!do_out_pcm_standby
    <3>2. step \in [Out -> {"idle", "write"}] /\ out_overtaken \in [Out -> BOOLEAN]
      BY DEF OutInv, Output!TypeOK
    <3> QED
      BY <1>2, <2>1, <3>1, <3>2, OpenRecords
  <2> QED
    BY <2>2, <2>3
<1> QED
  BY <1>1, <1>3, <1>4, SMTT(120)

\* Closing: the last reference disconnects the hardware stream.
LEMMA OutCloses ==
    ASSUME ConstantsOK, OutInv, NEW o \in Out, Output!do_close_out_pcm(o)
    PROVE  OutInv'
<1>1. /\ Output!IsOpen(o) /\ step[o] = "idle" /\ UNCHANGED step
      /\ out' = [out EXCEPT ![o] = Output!Closed] /\ out_refs' = out_refs - 1
  BY DEF Output!do_close_out_pcm
<1>2. /\ Cardinality(OpenStreams)' = Cardinality(OpenStreams) - 1
      /\ Cardinality(OpenStreams) \in Nat /\ Cardinality(OpenStreams) > 0
      /\ ~Output!IsOpen(o)'
      /\ \A u \in Out : u # o => (Output!IsOpen(u)' <=> Output!IsOpen(u))
  <2>1. /\ Cardinality(OpenStreams)' = Cardinality(OpenStreams)
              + (IF Output!Closed # Output!Closed THEN 1 ELSE 0)
              - (IF Output!IsOpen(o) THEN 1 ELSE 0)
        /\ Cardinality(OpenStreams) \in Nat
        /\ Output!IsOpen(o) => Cardinality(OpenStreams) > 0
        /\ Output!IsOpen(o)' <=> Output!Closed # Output!Closed
        /\ \A u \in Out : u # o => (Output!IsOpen(u)' <=> Output!IsOpen(u))
    BY <1>1, OpenIsCounted, Zenon
  <2> QED
    BY <1>1, <2>1
<1>3. /\ routes' \subseteq Devices
      /\ out_overtaken' \in [Out -> BOOLEAN]
      /\ Output!WriteGoesSomewhere'
  <2>1. CASE out_refs = 1
    BY <1>1, <2>1, RouteKeepsWrites DEF Output!do_close_out_pcm
  <2>2. CASE out_refs # 1
    BY <1>1, <2>2 DEF Output!do_close_out_pcm, OutInv, Output!TypeOK, Output!WriteGoesSomewhere
  <2> QED
    BY <2>1, <2>2
<1>4. out_refs' = Cardinality(OpenStreams)' /\ out_refs' \in 0 .. OutMaxRefCount
  BY <1>1, <1>2 DEF OutInv, Output!TypeOK, ConstantsOK
<1>5. out' \in [Out -> Output!Stream \cup {Output!Closed}]
  BY <1>1 DEF OutInv, Output!TypeOK
<1>6. Output!TypeOK'
  BY <1>1, <1>3, <1>4, <1>5, SMTT(120) DEF OutInv, Output!TypeOK
<1>7. Output!ActiveNodeIsLive'
  BY <1>1, <1>2 DEF OutInv, Output!TypeOK, Output!ActiveNodeIsLive
<1> QED
  BY <1>1, <1>2, <1>3, <1>4, <1>6, <1>7 DEF OutInv

\* At the start no output stream is open.
LEMMA OutputStarts ==
    ASSUME ConstantsOK, Output!Init
    PROVE  OutInv
<1>1. OpenStreams = {}
  BY DEF Output!Init, OpenStreams, Output!IsOpen
<1>2. out_refs = Cardinality(OpenStreams) /\ out_refs \in 0 .. OutMaxRefCount
  BY <1>1, FS_EmptySet DEF Output!Init, ConstantsOK
<1>3. Output!TypeOK /\ out_overtaken \in [Out -> BOOLEAN]
  BY <1>2 DEF Output!Init, Output!TypeOK
<1> QED
  BY <1>2, <1>3 DEF OutInv, Output!Init, Output!WriteGoesSomewhere, Output!ActiveNodeIsLive,
    Output!IsOpen

\* A step of an output stream, or of another part.
LEMMA OutputStep ==
    ASSUME ConstantsOK, OutInv, [Output!Next]_Output!vars
    PROVE  OutInv'
<1>1. CASE Output!Next
  BY <1>1, OutOpens, OutWrites, OutCloses, SMTT(120) DEF Output!Next
<1>2. CASE UNCHANGED Output!vars
  BY <1>2 DEF Output!vars, OutInv, Output!TypeOK, Output!WriteGoesSomewhere,
    Output!ActiveNodeIsLive, Output!IsOpen, OpenStreams
<1> QED
  BY <1>1, <1>2

\* What the invariant says of output streams.
LEMMA OutputConsistent ==
    ASSUME OutInv
    PROVE  Output!TypeOK /\ Output!WriteGoesSomewhere /\ Output!ActiveNodeIsLive
  BY DEF OutInv

\* For any number of output streams and of hardware instances: a write goes to
\* a live node that is routed somewhere, unless the route went away after the
\* write had looked.
THEOREM OutputIsConsistent ==
    ASSUME ConstantsOK
    PROVE  Output!Init /\ [][Output!Next]_Output!vars
           => [](Output!TypeOK /\ Output!WriteGoesSomewhere /\ Output!ActiveNodeIsLive)
<1>1. Output!Init => OutInv
  BY OutputStarts
<1>2. OutInv /\ [Output!Next]_Output!vars => OutInv'
  BY OutputStep
<1>3. OutInv => Output!TypeOK /\ Output!WriteGoesSomewhere /\ Output!ActiveNodeIsLive
  BY OutputConsistent
<1> QED
  BY <1>1, <1>2, <1>3, PTL

=============================================================================
