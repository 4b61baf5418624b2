---------------------------- MODULE MCAudioParts ----------------------------
(***************************************************************************)
(* The parts of the audio system with no liveness of their own, one to a   *)
(* behaviour: capture streams with the voice trigger, PCM output streams,  *)
(* the buffers of a capture stream, the ring that tinyalsa shares with the *)
(* driver, the mixer, and the parser of the configuration file.            *)
(***************************************************************************)
EXTENDS Integers, Sequences, FiniteSets, TLC

CONSTANTS In, NoStream, NamedStreams, InMaxRefCount, Out, Devices,
          OutMaxRefCount, Fragment, MaxRead, MaxOutput, Length, BufferSize,
          StartThreshold, IntMax, MaxCount, Id, Tool, MaxCtls, MinV, MaxV,
          Percent, Path, File, FirstFile, PathName, StreamName, Device,
          MaxItems, MaxFiles

VARIABLES
    part,      \* the component that a behaviour is about
    named, ref_count, routed, voice_st, voice_trig_stream,
    active_voice_control, in, ctl, reader, refired, overtaken,
    out, step, routes, out_refs, out_overtaken,
    capture_path, captured, buffer, frames_in, delivered, claimed, junk, lost,
    dir, mapped, hw_ptr, appl_ptr, ring, queue, next, kernel, prepared,
    running, count, size, moved, insync,
    elems, value, tables, mixer_phase, fds, op, pctl, apply, removed, leaked,
    done,
    phase, cur_xml_file, files, stack, path, scase, mixer, names, supported,
    paths, streams, cases, init_ctls, probe, badfree

Input == INSTANCE AudioInput WITH NULL <- NoStream, MaxRefCount <- InMaxRefCount
Output == INSTANCE AudioOutput WITH ref_count <- out_refs, overtaken <-
    out_overtaken, MaxRefCount <- OutMaxRefCount
Buffers == INSTANCE CaptureBuffers WITH path <- capture_path
Ring == INSTANCE PcmMmap
Card == INSTANCE Mixer WITH mixer <- tables, phase <- mixer_phase
Parser == INSTANCE ConfigParser

\* There are finitely many streams, and no stream is no stream.
ASSUME StreamsAssumption ==
    /\ IsFiniteSet(In) /\ IsFiniteSet(Out)
    /\ OutMaxRefCount \in Nat
    /\ NoStream \notin In \cup Input!Hw

\* The boundary is the ring, doubled at least once, and a stream starts at the
\* latest when the ring is full (pcm_set_config's default is half of it, or one).
ASSUME RingAssumption ==
    /\ BufferSize \in Nat \ {0} /\ StartThreshold \in 0 .. BufferSize
    /\ Ring!boundary \in Nat /\ Ring!boundary % BufferSize = 0 /\ Ring!boundary > BufferSize
    /\ MaxCount \in Nat /\ Id \in Nat \ {0}

inputVars == <<named, ref_count, routed, voice_st, voice_trig_stream,
    active_voice_control, in, ctl, reader, refired, overtaken>>
outputVars == <<out, step, routes, out_refs, out_overtaken>>
buffersVars == <<capture_path, captured, buffer, frames_in, delivered,
    claimed, junk, lost>>
mmapVars == <<dir, mapped, hw_ptr, appl_ptr, ring, queue, next, kernel,
    prepared, running, count, size, moved, insync>>
mixerVars == <<elems, value, tables, mixer_phase, fds, op, pctl, apply,
    removed, leaked, done>>
parserVars == <<phase, cur_xml_file, files, stack, path, scase, mixer, names,
    supported, paths, streams, cases, init_ctls, probe, badfree>>
vars == <<part, inputVars, outputVars, buffersVars, mmapVars, mixerVars,
    parserVars>>

Inputs == Permutations(In)
TwoVoiceStreams == [recog |-> 2, trigger |-> 2, pcm |-> 1]
\* A control that may be missing, between two settings of one that is there.
LatePath == <<1, 2, 1>>
Lowest == -1
Percents == {-1, 0, 50, 100, 101}

Init ==
    /\ part \in {"input", "output", "buffers", "mmap", "mixer", "parser"}
    /\ Input!Init
    /\ Output!Init
    /\ Buffers!Init
    /\ Ring!Init
    /\ Card!Init
    /\ Parser!Init
    /\ part # "input" => named = {}
    /\ part # "buffers" => capture_path = "resampler"
    /\ part # "mmap" => dir = "playback" /\ ~mapped

inputNext == Input!Next /\ UNCHANGED <<outputVars, buffersVars, mmapVars,
    mixerVars, parserVars>>
outputNext == Output!Next /\ UNCHANGED <<inputVars, buffersVars, mmapVars,
    mixerVars, parserVars>>
buffersNext == Buffers!Next /\ UNCHANGED <<inputVars, outputVars, mmapVars,
    mixerVars, parserVars>>
mmapNext == Ring!Next /\ UNCHANGED <<inputVars, outputVars, buffersVars,
    mixerVars, parserVars>>
mixerNext == Card!Next /\ UNCHANGED <<inputVars, outputVars, buffersVars,
    mmapVars, parserVars>>
parserNext == Parser!Next /\ UNCHANGED <<inputVars, outputVars, buffersVars,
    mmapVars, mixerVars>>

Next ==
    /\ \/ part = "input" /\ inputNext
       \/ part = "output" /\ outputNext
       \/ part = "buffers" /\ buffersNext
       \/ part = "mmap" /\ mmapNext
       \/ part = "mixer" /\ mixerNext
       \/ part = "parser" /\ parserNext
    /\ UNCHANGED part

Spec == Init /\ [][Next]_vars
-----------------------------------------------------------------------------
\* AudioInput, AudioOutput: in every interleaving of readers, writers and
\* routing commands a stream holds what it uses.  Each reference of a hardware
\* stream has a holder, each node is of the kind its hardware stream is, voice
\* audio has a stream that will end it, and a write goes to a live node that
\* is routed somewhere.
StreamsConsistent ==
    /\ part = "input" => /\ Input!TypeOK
                         /\ Input!VoiceAudioHasOwner
                         /\ Input!ReferencesHaveHolders
                         /\ Input!NodeMatchesHardware
    /\ part = "output" => /\ Output!TypeOK
                          /\ Output!WriteGoesSomewhere
                          /\ Output!ActiveNodeIsLive

\* CaptureBuffers: the reader gets what the device captured, in order, each
\* frame once, and as many frames as the read says.
CaptureDelivers ==
    part = "buffers" => Buffers!TypeOK /\ Buffers!DeliveredInOrder /\ Buffers!CountsAreTrue

\* PcmMmap: the mapped ring holds the frames in transit on both sides of the
\* boundary, a transfer that returns 0 has moved all its frames, and a count of
\* pcm_get_htimestamp that fits the buffer is right.
RingIsTrue ==
    part = "mmap" => /\ Ring!TypeOK
                     /\ Ring!RingHoldsQueue
                     /\ Ring!TransferIsComplete
                     /\ Ring!HtimestampInBufferIsTrue

\* Mixer: the id of a control leads back to it in a table extended at any time,
\* a path is set up to the first control that is not known, no descriptor is
\* left, percentages stay in the control's range, and setting one channel
\* leaves the other unless another process wrote in between.
MixerIsTrue ==
    /\ [](part = "mixer" => /\ Card!TypeOK
                            /\ Card!IdFindsControl
                            /\ Card!NoDescriptorLeft
                            /\ Card!PercentInRange
                            /\ Card!PathIsSetToFirstUnknown)
    /\ Card!OtherChannelStays

\* ConfigParser: whatever files the parser is led through, it opens one mixer
\* before anything needs it, refers to defined paths only, gives a control to
\* the case it stands in, and is redirected once at most.
ConfigAccepted ==
    part = "parser" => /\ Parser!TypeOK
                       /\ Parser!MixerComesFirst
                       /\ Parser!PathsAreDefined
                       /\ Parser!RedirectsEnd
                       /\ Parser!CtlsBelongToTheirCase
=============================================================================
