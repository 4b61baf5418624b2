---------------------------- MODULE MochaCameraHAL --------------------------
(***************************************************************************)
(* The camera3 device (camera/MochaCameraHAL.cpp): openCamera, initialize, *)
(* configure_streams, process_capture_request, flush and close, on top of  *)
(* CameraPipeline and InFlightTracker.                                     *)
(*                                                                         *)
(* The framework calls configure_streams, process_capture_request and      *)
(* close one at a time; it may call flush from another thread while a      *)
(* request is processed, never during a configuration.                     *)
(***************************************************************************)
EXTENDS CameraPipeline, Sequences
-----------------------------------------------------------------------------
(***************************************************************************)
(* The validation of a stream configuration and the choice of the stream   *)
(* that sets the resolution of the pipeline, in                            *)
(* camera_device_configure_streams (camera/MochaCameraHAL.cpp).  A stream  *)
(* is a record [output, format, size]; size "zero" stands for one that has *)
(* a zero in it.                                                           *)
(***************************************************************************)

NULL == 0   \* no stream; streams are numbered from 1

\* More than 20 streams are refused as well.
IsInvalid(s) == Len(s) \notin 1 .. 20 \/ \E i \in DOMAIN s : s[i].size = "zero"

NoneSelected == [pipelineStream |-> NULL, rgbaStream |-> NULL]

\* One turn of the selection loop on stream number i.
selectStep(s, acc, i) ==
    CASE ~s[i].output \/ s[i].format = "BLOB" \/ acc.pipelineStream # NULL -> acc
      [] s[i].format = "RGBA" -> [pipelineStream |-> i, rgbaStream |-> i]
      [] s[i].format = "IMPL" /\ acc.rgbaStream = NULL -> [acc EXCEPT !.rgbaStream = i]
      [] OTHER -> [acc EXCEPT !.pipelineStream = i]

selectLoop(s) ==
    LET acc[i \in 0 .. Len(s)] == IF i = 0 THEN NoneSelected ELSE selectStep(s, acc[i - 1], i)
    IN  acc[Len(s)]

selectPipelineStream_rgbaOnly(s) == selectLoop(s).rgbaStream

\* "If we found RGBA/IMPLEMENTATION_DEFINED, use that as pipeline stream".
selectPipelineStream(s) ==
    LET acc == selectLoop(s)
    IN  IF acc.rgbaStream # NULL THEN acc.rgbaStream ELSE acc.pipelineStream

Usable(s) == {i \in DOMAIN s : s[i].output /\ s[i].format # "BLOB"}

\* What the loop chooses from s: a stream whenever there is an output stream
\* that is not a BLOB, and a YUV one exactly if that comes first of them.
SelectedRightly(s) ==
    LET p == selectPipelineStream(s)
    IN  IF Usable(s) = {} THEN p = NULL
        ELSE /\ p \in Usable(s)
             /\ s[p].format = "YUV" <=> s[CHOOSE i \in Usable(s) :
                                            \A j \in Usable(s) : i <= j].format = "YUV"
-----------------------------------------------------------------------------
(***************************************************************************)
(* The class InFlightTracker (camera/InFlightTracker.h).  Its map from a   *)
(* frame number to the entry of the request is a function to markedError;  *)
(* every method holds the mutex, so it is one operator on the map.         *)
(***************************************************************************)
NoContexts == [f \in {} |-> FALSE]

add(mContexts, frameNumber) ==
    [f \in DOMAIN mContexts \cup {frameNumber} |->
        IF f = frameNumber THEN FALSE ELSE mContexts[f]]

remove(mContexts, frameNumber) ==
    [f \in DOMAIN mContexts \ {frameNumber} |-> mContexts[f]]

markAllAsError(mContexts) == [f \in DOMAIN mContexts |-> TRUE]

isError(mContexts, frameNumber) ==
    frameNumber \in DOMAIN mContexts /\ mContexts[frameNumber]

\* The frames returned; the map is NoContexts afterwards.
drainAll(mContexts) == DOMAIN mContexts
-----------------------------------------------------------------------------
(* The device. *)

CONSTANTS FrameCount,       \* frame numbers are counted modulo this
          Format,           \* formats of the buffers: "BLOB" or others
          Configurations,   \* stream configurations the framework asks for
          Settings,         \* settings of requests: None or [mode, trigger]
          AfCaptures,       \* captures of an autofocus scan
          MaxFlushes        \* bound on the number of calls of flush()

ASSUME HalAssumption ==
    /\ FrameCount \in Nat /\ FrameCount > 1
    /\ AfCaptures \in Nat /\ MaxFlushes \in Nat
    /\ Settings \subseteq [mode : {"auto", "off"}, trigger : {"START", "IDLE", "CANCEL"}]
                            \cup {None}

\* Stream sizes are resolutions; "zero" ones are refused.
ASSUME ConfigurationAssumption ==
    \A s \in Configurations :
        LET p == selectPipelineStream(s)
        IN  ~IsInvalid(s) /\ p # NULL => s[p].size \in Resolution

Frame == 0 .. FrameCount - 1

VARIABLES
    device,              \* "closed", "open" or "initialized"
    pipeline,            \* whether dev->pipeline is set
    streams_configured, last_config,
    mContexts,           \* dev->inflight_tracker
    frame, format,       \* of the request being processed
    af_mode, af_trigger, af_trigger_handled,
    afLeft,              \* captures left in the scan being made
    frameCaptured, frameFlushed,
    calls,               \* callbacks made for the request
    stray,               \* frames completed by configure_streams
    flushes,             \* calls of flush() so far
    overlapped,          \* history: flush() ran beside a request on this pipeline
    wanted               \* history: resolution of the last configuration that succeeded

afVars == <<af_mode, af_trigger, af_trigger_handled, afLeft>>
configVars == <<device, pipeline, streams_configured, last_config>>
requestVars == <<frame, format, frameCaptured, frameFlushed>>
history == <<overlapped, wanted>>
halVars == <<configVars, mContexts, requestVars, afVars, calls, stray, flushes, history>>
vars == <<pipelineVars, halVars>>

pipelineButStep == <<members, queue, asked, buf, ret, threadStores, flushVars>>

\* The device thread is in process_capture_request.
InRequest == thread # "idle" /\ asked = None

TypeOK ==
    /\ PipelineTypeOK
    /\ thread \in ThreadStep \cup {"idle", "af", "afCapture", "buffer", "restart", "lock",
                                   "flushed", "remove", "shutter", "error", "result"}
    /\ device \in {"closed", "open", "initialized"}
    /\ pipeline \in BOOLEAN /\ streams_configured \in BOOLEAN
    /\ last_config \in Resolution \cup {None}
    /\ DOMAIN mContexts \subseteq Frame
    /\ frame \in Frame /\ format \in Format
    /\ frameCaptured \in BOOLEAN /\ frameFlushed \in BOOLEAN
    /\ afLeft \in 0 .. AfCaptures

Init ==
    /\ PipelineInit /\ thread = "idle"
    /\ device = "closed" /\ pipeline = FALSE
    /\ streams_configured = FALSE /\ last_config = None
    /\ mContexts = NoContexts
    /\ frame = 0 /\ format \in Format /\ frameCaptured = FALSE /\ frameFlushed = FALSE
    /\ af_mode = "auto" /\ af_trigger = "IDLE" /\ af_trigger_handled = FALSE /\ afLeft = 0
    /\ calls = <<>> /\ stray = {} /\ flushes = 0
    /\ overlapped = FALSE /\ wanted = None

\* process_capture_request returns.
return == thread' = "idle"
-----------------------------------------------------------------------------
(* openCamera, initialize and close *)

openCamera ==
    /\ device = "closed"
    /\ device' = "open"
    /\ pipeline' = FALSE /\ streams_configured' = FALSE /\ last_config' = None
    /\ mContexts' = NoContexts
    /\ af_mode' = "auto" /\ af_trigger' = "IDLE" /\ af_trigger_handled' = FALSE
    /\ UNCHANGED <<pipelineVars, requestVars, afLeft, calls, stray, flushes, history>>

initialize ==
    /\ device = "open"
    /\ device' = "initialized"
    /\ UNCHANGED <<pipelineVars, pipeline, streams_configured, last_config, mContexts,
                   requestVars, afVars, calls, stray, flushes, history>>

closeDevice ==
    /\ device # "closed" /\ thread = "idle" /\ flusher = "idle"
    /\ device' = "closed"
    /\ mContexts' = NoContexts
    /\ IF pipeline THEN PipelineClosed ELSE UNCHANGED <<members, queue>>
    /\ pipeline' = FALSE /\ overlapped' = FALSE
    /\ UNCHANGED <<threadVars, flushVars, streams_configured, last_config, requestVars, afVars,
                   calls, stray, flushes, wanted>>
-----------------------------------------------------------------------------
(* configure_streams *)

SameConfig(r) ==
    last_config = r /\ streams_configured /\ pipeline /\ mState = "STREAMING"

\* The early exit, or: complete what is in flight, close the old pipeline and
\* make a new one.
configurePipeline(r) ==
    /\ device = "initialized" /\ thread = "idle" /\ flusher = "idle"
    /\ IF SameConfig(r)
         THEN wanted' = r /\ UNCHANGED <<pipelineVars, mContexts, stray, pipeline, overlapped>>
         ELSE /\ stray' = stray \cup drainAll(mContexts)
              /\ mContexts' = NoContexts
              /\ IF pipeline THEN PipelineClosed ELSE UNCHANGED <<members, queue>>
              /\ pipeline' = FALSE
              /\ asked' = r /\ thread' = "open" /\ overlapped' = FALSE
              /\ UNCHANGED <<buf, ret, threadStores, flushVars, wanted>>
    /\ UNCHANGED <<device, streams_configured, last_config, requestVars, afVars, calls, flushes>>

\* The whole call.  An invalid configuration is refused; one without a stream
\* for the pipeline would be a null pointer here, and is left out.
configure_streams(s) ==
    LET p == selectPipelineStream(s)
    IN  ~IsInvalid(s) /\ p # NULL /\ configurePipeline(s[p].size)

\* open(), configure() and startStreaming() have succeeded, or one has failed.
configureDone ==
    /\ thread = "started" /\ asked # None
    /\ IF ret = "OK"
         THEN /\ pipeline' = TRUE /\ streams_configured' = TRUE /\ last_config' = asked
              /\ wanted' = asked
              /\ UNCHANGED <<members, queue>>
         ELSE PipelineClosed /\ UNCHANGED <<pipeline, streams_configured, last_config, wanted>>
    /\ thread' = "idle" /\ asked' = None
    /\ UNCHANGED <<buf, ret, threadStores, flushVars, device, mContexts, requestVars, afVars,
                   calls, stray, flushes, overlapped>>
-----------------------------------------------------------------------------
(* process_capture_request *)

\* The request is refused if it was marked before, else tracked; its settings
\* replace the autofocus mode and trigger.
requestStart(s, f) ==
    LET n == (frame + 1) % FrameCount
    IN  /\ device = "initialized" /\ thread = "idle"
        /\ frame' = n /\ format' = f
        /\ frameCaptured' = FALSE /\ frameFlushed' = FALSE
        /\ calls' = <<>>
        /\ overlapped' = (overlapped \/ flusher # "idle")
        /\ IF isError(mContexts, n)
             THEN /\ mContexts' = remove(mContexts, n)
                  /\ UNCHANGED <<thread, af_mode, af_trigger>>
             ELSE /\ mContexts' = add(mContexts, n)
                  /\ thread' = "af"
                  /\ af_mode' = IF s = None THEN af_mode ELSE s.mode
                  /\ af_trigger' = IF s = None THEN af_trigger ELSE s.trigger
        /\ UNCHANGED <<pipelineButStep, configVars,
                       af_trigger_handled, afLeft, stray, flushes, wanted>>

\* The autofocus trigger.  A scan is only made while streaming, but the
\* trigger counts as handled in any case.
requestAf ==
    /\ thread = "af"
    /\ LET starts == /\ pipeline /\ af_mode = "auto"
                     /\ af_trigger = "START" /\ ~af_trigger_handled
           cancels == pipeline /\ af_mode = "auto" /\ af_trigger = "CANCEL"
       IN  /\ af_trigger_handled' = (~cancels /\ (starts \/ af_trigger_handled))
           /\ IF starts /\ mState = "STREAMING" /\ AfCaptures > 0
                THEN afLeft' = AfCaptures /\ thread' = "afCapture"
                ELSE afLeft' = 0 /\ thread' = "buffer"
    /\ UNCHANGED <<pipelineButStep, configVars, mContexts,
                   requestVars, af_mode, af_trigger, calls, stray, flushes, history>>

\* The next captureForAf() of the scan, or the end of the scan.
requestAfCapture ==
    /\ thread = "afCapture"
    /\ thread' = IF afLeft = 0 THEN "buffer"
                 ELSE IF mState = "STREAMING" THEN "poll" ELSE "afCapture"
    /\ afLeft' = IF afLeft > 0 /\ mState # "STREAMING" THEN afLeft - 1 ELSE afLeft
    /\ UNCHANGED <<pipelineButStep, configVars, mContexts,
                   requestVars, af_mode, af_trigger, af_trigger_handled, calls, stray, flushes,
                   history>>

\* captureForAf() has returned; an error only means no measurement.
requestAfCaptured ==
    /\ thread = "captured" /\ afLeft > 0
    /\ afLeft' = afLeft - 1 /\ thread' = "afCapture"
    /\ UNCHANGED <<pipelineButStep, configVars, mContexts,
                   requestVars, af_mode, af_trigger, af_trigger_handled, calls, stray, flushes,
                   history>>

\* A null buffer is refused; the acquire fence is waited for at most 2 s.
requestBuffer ==
    /\ thread = "buffer"
    /\ \/ thread' = "restart" /\ UNCHANGED mContexts
       \/ Faults /\ mContexts' = remove(mContexts, frame) /\ return
    /\ UNCHANGED <<pipelineButStep, configVars,
                   requestVars, afVars, calls, stray, flushes, history>>

\* Without a pipeline the frame fails; a pipeline in state OPENED is started
\* again.
requestRestart ==
    /\ thread = "restart"
    /\ thread' = IF ~(pipeline /\ streams_configured) THEN "flushed"
                 ELSE IF mState = "OPENED" THEN "qbuf" ELSE "lock"
    /\ buf' = 0
    /\ UNCHANGED <<members, queue, asked, ret, threadStores, flushVars, halVars>>

requestRestarted_leak ==
    /\ thread = "started" /\ InRequest
    /\ IF ret = "OK"
         THEN thread' = "lock"
         ELSE return
    /\ UNCHANGED <<pipelineButStep, halVars>>

\* A failed restart refuses the request.
requestRestarted ==
    /\ thread = "started" /\ InRequest
    /\ IF ret = "OK"
         THEN thread' = "lock" /\ UNCHANGED mContexts
         ELSE mContexts' = remove(mContexts, frame) /\ return
    /\ UNCHANGED <<pipelineButStep, configVars,
                   requestVars, afVars, calls, stray, flushes, history>>

\* gralloc lock of the buffer (a temporary one is allocated for BLOB), then
\* captureFrame(), which first tests mState.
requestLock ==
    /\ thread = "lock"
    /\ \/ /\ mState = "STREAMING"
          /\ thread' = "poll" /\ UNCHANGED ret
       \/ mState # "STREAMING" /\ Return("captured", "ERROR")
       \/ Faults /\ thread' = "flushed" /\ UNCHANGED ret
    /\ UNCHANGED <<members, queue, asked, buf, threadStores, flushVars, halVars>>

\* EAGAIN refuses the request.  A BLOB frame still has to be locked, encoded
\* and fit in the buffer.
requestCaptured ==
    /\ thread = "captured" /\ afLeft = 0
    /\ IF ret = "EAGAIN"
         THEN mContexts' = remove(mContexts, frame) /\ return /\ UNCHANGED frameCaptured
         ELSE /\ thread' = "flushed"
              /\ \/ frameCaptured' = (ret = "OK")
                 \/ Faults /\ format = "BLOB" /\ ret = "OK" /\ frameCaptured' = FALSE
              /\ UNCHANGED mContexts
    /\ UNCHANGED <<pipelineButStep, configVars, frame,
                   format, frameFlushed, afVars, calls, stray, flushes, history>>

\* isError() and remove() are two critical sections.
requestFlushed ==
    /\ thread = "flushed"
    /\ frameFlushed' = isError(mContexts, frame)
    /\ thread' = "remove"
    /\ UNCHANGED <<pipelineButStep, configVars, mContexts,
                   frame, format, frameCaptured, afVars, calls, stray, flushes, history>>

requestRemove ==
    /\ thread = "remove"
    /\ mContexts' = remove(mContexts, frame)
    /\ thread' = "shutter"
    /\ UNCHANGED <<pipelineButStep, configVars,
                   requestVars, afVars, calls, stray, flushes, history>>

\* notify() with SHUTTER, then with ERROR_DEVICE for a frame not captured.
requestNotify(step, next, sends, message) ==
    /\ thread = step
    /\ calls' = IF sends THEN Append(calls, message) ELSE calls
    /\ thread' = next
    /\ UNCHANGED <<pipelineButStep, configVars, mContexts,
                   requestVars, afVars, stray, flushes, history>>

requestShutter == requestNotify("shutter", "error", frameCaptured, "SHUTTER")
requestError_always == requestNotify("error", "result", ~frameFlushed, "ERROR_DEVICE")
requestError ==
    requestNotify("error", "result", ~frameFlushed /\ ~frameCaptured, "ERROR_DEVICE")

\* process_capture_result with the buffer, and the return.
requestResult ==
    /\ thread = "result"
    /\ calls' = Append(calls, IF frameCaptured /\ ~frameFlushed THEN "OK" ELSE "ERROR")
    /\ return
    /\ UNCHANGED <<pipelineButStep, configVars, mContexts,
                   requestVars, afVars, stray, flushes, history>>
-----------------------------------------------------------------------------
(* flush *)

flushStart ==
    /\ device = "initialized" /\ flusher = "idle" /\ flushes < MaxFlushes
    /\ thread = "idle" \/ InRequest
    /\ flushes' = flushes + 1
    /\ overlapped' = (overlapped \/ InRequest)
    /\ flusher' = IF pipeline /\ streams_configured /\ mStreaming THEN "streamoff" ELSE "mark"
    /\ UNCHANGED <<members, queue, threadVars, flushStores, configVars, mContexts, requestVars,
                   afVars, calls, stray, wanted>>

flushStop == StopStep /\ UNCHANGED halVars

flushMark ==
    /\ flusher = "mark"
    /\ mContexts' = markAllAsError(mContexts)
    /\ flusher' = "drain"
    /\ UNCHANGED <<members, queue, threadVars, flushStores, configVars, requestVars, afVars,
                   calls, stray, flushes, history>>

flushDrain ==
    /\ flusher = "drain"
    /\ mContexts' = NoContexts
    /\ flusher' = "idle"
    /\ UNCHANGED <<members, queue, threadVars, flushStores, configVars, requestVars, afVars,
                   calls, stray, flushes, history>>
-----------------------------------------------------------------------------
Request ==
    \/ requestAf \/ requestAfCapture \/ requestAfCaptured \/ requestBuffer \/ requestRestart
    \/ requestRestarted \/ requestLock \/ requestCaptured \/ requestFlushed \/ requestRemove
    \/ requestShutter \/ requestError \/ requestResult

DeviceThread == (PipelineStep /\ UNCHANGED halVars) \/ configureDone \/ Request
Flush == flushStop \/ flushMark \/ flushDrain
Driver == (\E i \in Buffer : driverFills(i)) /\ UNCHANGED halVars
NewRequest == \E s \in Settings, f \in Format : requestStart(s, f)

Next ==
    \/ openCamera \/ initialize \/ closeDevice
    \/ (\E s \in Configurations : configure_streams(s)) \/ NewRequest
    \/ DeviceThread \/ flushStart \/ Flush \/ Driver

Spec == Init /\ [][Next]_vars

\* A thread inside a call goes on, and the driver fills the buffers it has.
Fairness == WF_vars(DeviceThread) /\ WF_vars(Flush) /\ WF_vars(Driver)
FairSpec == Spec /\ Fairness

\* The framework besides goes on asking for frames, as long as it does not
\* close the device.
PreviewSpec == FairSpec /\ WF_vars(NewRequest)
-----------------------------------------------------------------------------
(* Properties *)

Contract == INSTANCE CameraContract WITH busy <- InRequest

\* Whatever flush() does beside it, process_capture_request makes the
\* callbacks of the contract: one completion, after the shutter, or a refusal.
ImplementsContract == Contract!Spec

\* The tracker holds at most the request being processed, and nothing once
\* the call has returned: no error path leaves an entry behind.
TrackerExact == DOMAIN mContexts \subseteq IF InRequest THEN {frame} ELSE {}

\* configure_streams never completes a frame that process_capture_request has
\* completed or refused already.
NotCompletedTwice == stray = {}

\* Every exit of process_capture_request takes its entry out of the tracker, so
\* that no frame is completed a second time by configure_streams.
RequestsTracked == TrackerExact /\ NotCompletedTwice

Quiet == thread = "idle" /\ flusher = "idle"

\* Between calls mState, mStreaming, the buffer count and the queue agree, as
\* long as flush() never ran beside a request.
FlagsAgree ==
    Quiet /\ ~overlapped =>
        /\ mStreaming = (mState = "STREAMING")
        /\ mStreaming = queue.on
        /\ pipeline = (mState # "CLOSED")
        /\ mapped = 0 .. mBufferCount - 1

\* A closed or deleted pipeline has left no buffer mapped, also when
\* configure() failed half way.
NoMappingLeaked == mState = "CLOSED" => mapped = {}

\* The pipeline runs at the resolution of the last successful configuration,
\* also when that was taken for a repetition, or failed ones came in between.
PipelineMatchesStream == thread = "idle" /\ pipeline => mConfig = wanted

\* The pipeline's flags, buffers and resolution agree with each other and with
\* the last configuration, whatever failed and whatever was tried in between.
PipelineConsistent == TypeOK /\ FlagsAgree /\ NoMappingLeaked /\ PipelineMatchesStream

\* Until a flush(), and if no system call fails, every mapped buffer is back
\* with the driver between calls.
BuffersReturned == Quiet /\ flushes = 0 => mapped \subseteq queue.queued \cup queue.done

\* Every call of process_capture_request returns, also when flush() stops the
\* stream at any of its steps.
RequestReturns == InRequest ~> thread = "idle"

GotFrame == calls # <<>> /\ calls[Len(calls)] = "OK"

\* As long as the framework keeps asking and does not reconfigure, close or
\* flush, a frame is delivered in the end.
FramesKeepComing == (pipeline /\ InRequest) ~> (GotFrame \/ ~pipeline \/ flushes > 0)

\* The same also after a flush(): "Auto-restart pipeline if it was stopped by
\* flush()".
FramesComeAfterFlush == (pipeline /\ InRequest) ~> (GotFrame \/ ~pipeline)
=============================================================================
