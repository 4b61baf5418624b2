------------------------ MODULE MCAudioParts_proofs -------------------------
(***************************************************************************)
(* Proofs about the streams of the audio HAL and the ring of tinyalsa as   *)
(* parts of one system, for any number of streams and any size of the      *)
(* ring.  The invariants and their preservation come from                  *)
(* AudioStreams_proofs and PcmMmap_proofs.                                 *)
(***************************************************************************)
EXTENDS MCAudioParts, TLAPS

Streams == INSTANCE AudioStreams_proofs WITH NULL <- NoStream, MaxRefCount <- InMaxRefCount
Mapped == INSTANCE PcmMmap_proofs

\* The two inductive invariants.
StreamsInv == Streams!InInv /\ Streams!OutInv

\* The assumption on the constants, for the streams.
LEMMA StreamsConstants == Streams!ConstantsOK
  BY StreamsAssumption, SMTT(120) DEF Streams!ConstantsOK, Streams!Hw, Input!Hw, IsFiniteSet, Streams!IsFiniteSet

\* The two instances of AudioInput are the same.
LEMMA SameInput ==
    /\ Input!Init => Streams!Init
    /\ Input!Next => Streams!Next
<1>1. Input!Init => Streams!Init
  BY Zenon DEF Input!Init, Input!voice_trigger_init, Input!Closed, Input!Idle, Input!Hw,
    Streams!Init, Streams!voice_trigger_init, Streams!Closed, Streams!Idle, Streams!Hw
<1>2. Input!Next => Streams!Next
  BY Zenon DEF
    Input!Next, Input!hwVars, Input!voiceVars, Input!Closed, Input!Idle, Input!Hw, Input!Kind,
    Input!VoiceTriggerOnly, Input!CanGet, Input!Acquired, Input!release_stream, Input!Move,
    Input!do_voice_trigger_open_stream, Input!do_voice_trigger_close_stream,
    Input!voice_trigger_enable, Input!voice_trigger_disable, Input!voice_trigger_triggered,
    Input!voice_trigger_audio_started_locked, Input!voice_trigger_audio_ended_locked,
    Input!voice_trigger_audio_stream_name, Input!Unlocked, Input!adev_open_input_stream,
    Input!change_input_source_begin, Input!change_input_source_get,
    Input!change_input_source_voice, Input!change_input_source_route, Input!in_pcm_set_routing,
    Input!in_pcm_standby, Input!do_close_in_common_voice, Input!do_close_in_common_release,
    Input!in_pcm_read, Input!do_in_pcm_read, Input!do_in_compress_pcm_read,
    Streams!Next, Streams!hwVars, Streams!voiceVars, Streams!Closed, Streams!Idle, Streams!Hw,
    Streams!Kind, Streams!VoiceTriggerOnly, Streams!CanGet, Streams!Acquired,
    Streams!release_stream, Streams!Move,
    Streams!do_voice_trigger_open_stream, Streams!do_voice_trigger_close_stream,
    Streams!voice_trigger_enable, Streams!voice_trigger_disable, Streams!voice_trigger_triggered,
    Streams!voice_trigger_audio_started_locked, Streams!voice_trigger_audio_ended_locked,
    Streams!voice_trigger_audio_stream_name, Streams!Unlocked, Streams!adev_open_input_stream,
    Streams!change_input_source_begin, Streams!change_input_source_get,
    Streams!change_input_source_voice, Streams!change_input_source_route,
    Streams!in_pcm_set_routing, Streams!in_pcm_standby, Streams!do_close_in_common_voice,
    Streams!do_close_in_common_release, Streams!in_pcm_read, Streams!do_in_pcm_read,
    Streams!do_in_compress_pcm_read
<1> QED
  BY <1>1, <1>2, SMTT(120)

\* The properties of AudioInput are those of its instance.
LEMMA SameInputProperties ==
    ASSUME Streams!TypeOK, Streams!VoiceAudioHasOwner, Streams!ReferencesHaveHolders,
           Streams!NodeMatchesHardware
    PROVE  /\ Input!TypeOK /\ Input!VoiceAudioHasOwner /\ Input!ReferencesHaveHolders
           /\ Input!NodeMatchesHardware
<1>1. Input!TypeOK
  BY Zenon DEF Streams!TypeOK, Input!TypeOK, Streams!Hw, Input!Hw, Streams!VoiceState,
    Input!VoiceState, Streams!VoiceTriggerOnly, Input!VoiceTriggerOnly
<1>2. Input!VoiceAudioHasOwner
  BY Zenon DEF Streams!VoiceAudioHasOwner, Input!VoiceAudioHasOwner
<1>3. Input!ReferencesHaveHolders
  BY Zenon DEF Streams!ReferencesHaveHolders, Input!ReferencesHaveHolders, Streams!Hw, Input!Hw,
    Streams!TriggerHolds, Input!TriggerHolds, Streams!Cardinality, Input!Cardinality
<1>4. Input!NodeMatchesHardware
  BY Zenon DEF Streams!NodeMatchesHardware, Input!NodeMatchesHardware, Streams!Kind, Input!Kind
<1> QED
  BY <1>1, <1>2, <1>3, <1>4, SMTT(120)

\* The two instances of AudioOutput are the same.
LEMMA SameOutput ==
    /\ Output!Init => Streams!Output!Init
    /\ Output!Next => Streams!Output!Next
<1>1. Output!Init => Streams!Output!Init
  BY Zenon DEF Output!Init, Streams!Output!Init, Output!Closed, Streams!Output!Closed
<1>2. Output!Next => Streams!Output!Next
  BY Zenon DEF
    Output!Next, Output!Closed, Output!IsOpen, Output!apply_route,
    Output!adev_open_output_stream, Output!out_set_parameters, Output!out_pcm_write,
    Output!start_output_pcm, Output!out_pcm_write_locked, Output!do_out_pcm_standby,
    Output!out_pcm_standby, Output!do_close_out_pcm,
    Streams!Output!Next, Streams!Output!Closed, Streams!Output!IsOpen,
    Streams!Output!apply_route, Streams!Output!adev_open_output_stream,
    Streams!Output!out_set_parameters, Streams!Output!out_pcm_write,
    Streams!Output!start_output_pcm, Streams!Output!out_pcm_write_locked,
    Streams!Output!do_out_pcm_standby, Streams!Output!out_pcm_standby,
    Streams!Output!do_close_out_pcm
<1> QED
  BY <1>1, <1>2, SMTT(120)

\* The properties of AudioOutput are those of its instance.
LEMMA SameOutputProperties ==
    ASSUME Streams!Output!TypeOK, Streams!Output!WriteGoesSomewhere,
           Streams!Output!ActiveNodeIsLive
    PROVE  Output!TypeOK /\ Output!WriteGoesSomewhere /\ Output!ActiveNodeIsLive
  BY Zenon DEF Output!TypeOK, Output!Stream, Output!Closed, Output!WriteGoesSomewhere,
    Output!ActiveNodeIsLive, Output!IsOpen, Streams!Output!TypeOK, Streams!Output!Stream,
    Streams!Output!Closed, Streams!Output!WriteGoesSomewhere,
    Streams!Output!ActiveNodeIsLive, Streams!Output!IsOpen

\* A step of a capture stream or of the trigger, or of another part.
LEMMA CaptureStep ==
    ASSUME Streams!InInv, Input!Next \/ UNCHANGED inputVars
    PROVE  Streams!InInv'
<1>1. Streams!Next \/ UNCHANGED Streams!vars
  BY SameInput, SMTT(120) DEF inputVars, Streams!vars
<1> QED
  BY <1>1, StreamsConstants, Streams!InputStep, SMTT(120)

\* A step of an output stream, or of another part.
LEMMA OutputStep ==
    ASSUME Streams!OutInv, Output!Next \/ UNCHANGED outputVars
    PROVE  Streams!OutInv'
<1>1. Streams!Output!Next \/ UNCHANGED Streams!Output!vars
  BY SameOutput, SMTT(120) DEF outputVars, Streams!Output!vars
<1> QED
  BY <1>1, StreamsConstants, Streams!OutputStep, SMTT(120)

\* For any number of capture and output streams: each reference of a hardware
\* stream has a holder, each node is of the kind of its hardware stream, voice
\* audio has a stream that will end it, and a write goes to a live node that
\* is routed somewhere.
THEOREM StreamsStayConsistent == Spec => []StreamsConsistent
<1>1. Init => StreamsInv
  BY SameInput, SameOutput, StreamsConstants, Streams!InputStarts, Streams!OutputStarts, SMTT(120) DEF Init, StreamsInv
<1>2. StreamsInv /\ [Next]_vars => StreamsInv'
  <2> SUFFICES ASSUME StreamsInv, [Next]_vars PROVE Streams!InInv' /\ Streams!OutInv'
    BY SMTT(120) DEF StreamsInv
  <2>1. Input!Next \/ UNCHANGED inputVars
    BY SMTT(120) DEF Next, vars, inputNext, outputNext, buffersNext, mmapNext, mixerNext, parserNext
  <2>2. Output!Next \/ UNCHANGED outputVars
    BY SMTT(120) DEF Next, vars, inputNext, outputNext, buffersNext, mmapNext, mixerNext, parserNext
  <2> QED
    BY <2>1, <2>2, CaptureStep, OutputStep, SMTT(120) DEF StreamsInv
<1>3. StreamsInv => StreamsConsistent
  BY Streams!InputConsistent, SameInputProperties, Streams!OutputConsistent, SameOutputProperties, SMTT(120)
    DEF StreamsInv, StreamsConsistent
<1> QED
  BY <1>1, <1>2, <1>3, PTL DEF Spec
-----------------------------------------------------------------------------
(* The mapped ring *)

\* The assumption on the constants, for the ring.
LEMMA RingConstants == Mapped!ConstantsOK
  BY RingAssumption, Zenon DEF Mapped!ConstantsOK, Ring!boundary, Mapped!boundary, Ring!Max, Mapped!Max

\* The two instances of PcmMmap are the same.
LEMMA SameRing ==
    /\ Ring!Init => Mapped!Init
    /\ Ring!Next => Mapped!Next
<1>1. Ring!Init => Mapped!Init
  BY Zenon DEF Ring!Init, Mapped!Init
<1>2. Ring!Next => Mapped!Next
  BY ZenonT(120) DEF
    Ring!Next, Ring!pointers, Ring!boundary, Ring!Max, Ring!Min, Ring!Return,
    Ring!pcm_mmap_playback_avail, Ring!pcm_mmap_capture_avail, Ring!pcm_mmap_avail,
    Ring!pcm_mmap_appl_forward, Ring!pcm_mmap_begin, Ring!ReachesThreshold,
    Ring!pcm_mmap_transfer, Ring!pcm_start, Ring!pcm_wait_fails, Ring!pcm_mmap_transfer_loop,
    Ring!pcm_mmap_transfer_areas, Ring!Hardware,
    Mapped!Next, Mapped!pointers, Mapped!boundary, Mapped!Max, Mapped!Min, Mapped!Return,
    Mapped!pcm_mmap_playback_avail, Mapped!pcm_mmap_capture_avail, Mapped!pcm_mmap_avail,
    Mapped!pcm_mmap_appl_forward, Mapped!pcm_mmap_begin, Mapped!ReachesThreshold,
    Mapped!pcm_mmap_transfer, Mapped!pcm_start, Mapped!pcm_wait_fails,
    Mapped!pcm_mmap_transfer_loop, Mapped!pcm_mmap_transfer_areas, Mapped!Hardware
<1> QED
  BY <1>1, <1>2

\* The properties of PcmMmap are those of its instance.
LEMMA SameRingProperties ==
    ASSUME Mapped!TypeOK, Mapped!RingHoldsQueue, Mapped!TransferIsComplete,
           Mapped!HtimestampInBufferIsTrue
    PROVE  /\ Ring!TypeOK /\ Ring!RingHoldsQueue /\ Ring!TransferIsComplete
           /\ Ring!HtimestampInBufferIsTrue
  BY Zenon DEF Ring!TypeOK, Ring!boundary, Ring!Max, Ring!RingHoldsQueue,
    Ring!TransferIsComplete, Ring!HtimestampInBufferIsTrue, Ring!pcm_get_htimestamp,
    Ring!pcm_mmap_playback_avail, Ring!pcm_mmap_capture_avail, Ring!pcm_mmap_avail,
    Mapped!TypeOK, Mapped!boundary, Mapped!Max, Mapped!RingHoldsQueue,
    Mapped!TransferIsComplete, Mapped!HtimestampInBufferIsTrue, Mapped!pcm_get_htimestamp,
    Mapped!pcm_mmap_playback_avail, Mapped!pcm_mmap_capture_avail, Mapped!pcm_mmap_avail

\* A step of a transfer or of the hardware, or of another part.
LEMMA MappedStep ==
    ASSUME Mapped!RingInv, Ring!Next \/ UNCHANGED mmapVars
    PROVE  Mapped!RingInv'
<1>1. Mapped!Next \/ UNCHANGED Mapped!vars
  BY SameRing, Zenon DEF mmapVars, Mapped!vars
<1> QED
  BY <1>1, RingConstants, Mapped!RingStep, Zenon

\* For every size of the ring and of a transfer: the mapped ring holds the
\* frames in transit on both sides of the boundary, a transfer that returns 0
\* has moved all its frames, and a count of pcm_get_htimestamp that fits the
\* buffer is right.
THEOREM RingStaysTrue == Spec => []RingIsTrue
<1>1. Init => Mapped!RingInv
  BY SameRing, RingConstants, Mapped!RingStarts, Zenon DEF Init
<1>2. Mapped!RingInv /\ [Next]_vars => Mapped!RingInv'
  <2> SUFFICES ASSUME Mapped!RingInv, [Next]_vars PROVE Ring!Next \/ UNCHANGED mmapVars
    BY MappedStep, Zenon
  <2> QED
    BY SMTT(120) DEF Next, vars, inputNext, outputNext, buffersNext, mmapNext, mixerNext, parserNext
<1>3. Mapped!RingInv => RingIsTrue
  BY RingConstants, Mapped!RingSays, SameRingProperties, Zenon DEF RingIsTrue
<1> QED
  BY <1>1, <1>2, <1>3, PTL DEF Spec
=============================================================================
