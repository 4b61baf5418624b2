------------------------ MODULE MochaCameraHAL_proofs -----------------------
(***************************************************************************)
(* Proofs about the camera3 device and its pipeline, for every number of   *)
(* buffers, resolutions, frame numbers, autofocus captures and flushes:    *)
(* its inductive invariant, the contract with the framework that it        *)
(* implements, and that it loses no buffer.                                *)
(***************************************************************************)
EXTENDS MochaCameraHAL, TLAPS

(***************************************************************************)
(* The inductive invariant.  Its first part says which thread may be where *)
(* in which call.                                                          *)
(***************************************************************************)
Configuring == asked # None

StartSteps == {"qbuf", "streamon", "stores", "started"}
CaptureSteps == {"poll", "dqbuf", "index", "process", "requeue", "captured"}

Sites ==
    /\ Configuring =>
         /\ thread \in {"open", "format", "map"} \cup StartSteps
         /\ flusher = "idle" /\ ~pipeline /\ ~overlapped /\ device = "initialized"
    /\ thread \in {"open", "format", "map"} => Configuring
    /\ device # "initialized" => thread = "idle" /\ flusher = "idle" /\ ~pipeline
    /\ thread \in {"afCapture", "lock"} \cup StartSteps \cup CaptureSteps => Configuring \/
       pipeline
    /\ flusher \in {"streamoff", "munmap", "stores"} => pipeline
    /\ ~overlapped => flusher = "idle" \/ thread = "idle"
    /\ thread \in {"index", "process", "requeue"} => buf \in Buffer
    /\ overlapped \in BOOLEAN

\* What a pipeline is that has been closed, is being configured or is in use,
\* also while flush() runs beside a request.
Kept ==
    /\ ~Configuring => (pipeline <=> mState # "CLOSED")
    /\ pipeline => streams_configured /\ mConfig = last_config /\ mConfig = wanted
    /\ mState = "CLOSED" => /\ ~mStreaming /\ mBufferCount = 0 /\ mapped = {}
                            /\ queue = ClosedQueue
    /\ mapped \subseteq 0 .. mBufferCount - 1
    /\ flusher = "stores" => mapped = {}
    /\ thread = "open" => mState = "CLOSED"
    /\ thread = "format" => mState = "OPENED" /\ mapped = {} /\ mBufferCount = 0
    /\ thread = "map" => mapped = 0 .. buf - 1 /\ buf <= mBufferCount
    /\ Configuring /\ (thread \in {"map", "qbuf", "streamon", "stores"}
                         \/ (thread = "started" /\ ret = "OK"))
         => mConfig = asked /\ mState # "CLOSED"

\* A pipeline at rest: its flags, buffers and queue agree.
AtRest ==
    /\ mStreaming = (mState = "STREAMING")
    /\ mStreaming = queue.on
    /\ mapped = 0 .. mBufferCount - 1

\* Without an overlap the pipeline is at rest, except between the system calls
\* and the stores of the one thread that is starting or stopping it.
Ordered ==
    ~overlapped =>
      /\ thread \notin {"map", "stores"} /\ flusher \notin {"munmap", "stores"} => AtRest
      /\ thread \in {"format", "map", "qbuf", "streamon"} =>
           mState = "OPENED" /\ ~mStreaming /\ ~queue.on
      /\ thread = "stores" =>
           /\ queue.on /\ mapped = 0 .. mBufferCount - 1
           /\ "mStreaming" \notin threadStores => mStreaming
           /\ "mState" \notin threadStores => mState = "STREAMING"
      /\ flusher \in {"munmap", "stores"} => ~queue.on
      /\ flusher = "stores" =>
           /\ "mBufferCount" \notin flushStores => mBufferCount = 0
           /\ "mStreaming" \notin flushStores => ~mStreaming
           /\ "mState" \notin flushStores => mState = "OPENED"

\* The tracker, and the callbacks made so far for the request.
Tracked ==
    /\ DOMAIN mContexts \subseteq IF InRequest THEN {frame} ELSE {}
    /\ thread \in {"shutter", "error", "result"} => DOMAIN mContexts = {}
    /\ stray = {}

CalledBack ==
    InRequest => calls = CASE thread = "error"  -> IF frameCaptured THEN <<"SHUTTER">> ELSE <<>>
                           [] thread = "result" -> IF frameCaptured THEN <<"SHUTTER">>
                                                   ELSE IF frameFlushed THEN <<>>
                                                   ELSE <<"ERROR_DEVICE">>
                           [] OTHER -> <<>>

\* The types of the device, apart from those of the pipeline.
HalTypes ==
    /\ thread \in ThreadStep \cup {"idle", "af", "afCapture", "buffer", "restart", "lock",
                                   "flushed", "remove", "shutter", "error", "result"}
    /\ device \in {"closed", "open", "initialized"}
    /\ pipeline \in BOOLEAN /\ streams_configured \in BOOLEAN
    /\ last_config \in Resolution \cup {None}
    /\ DOMAIN mContexts \subseteq Frame
    /\ frame \in Frame /\ format \in Format
    /\ frameCaptured \in BOOLEAN /\ frameFlushed \in BOOLEAN
    /\ afLeft \in 0 .. AfCaptures

IInv == PipelineTypeOK /\ HalTypes /\ Sites /\ Kept /\ Ordered /\ Tracked /\ CalledBack

USE BufferCountAssumption, ResolutionAssumption, EnvironmentAssumption
USE DEF IInv, pipelineVars, threadVars, flushVars, members, halVars, configVars, requestVars, afVars,
        history, pipelineButStep

\* The operations on the V4L2 queue give a queue.
LEMMA QueueOperations ==
    /\ ClosedQueue \in Queue
    /\ \A q \in Queue :
         /\ [q EXCEPT !.allocated = TRUE] \in Queue
         /\ [q EXCEPT !.on = TRUE] \in Queue
         /\ [q EXCEPT !.on = FALSE, !.queued = {}, !.done = {}] \in Queue
         /\ \A i \in Buffer : /\ [q EXCEPT !.queued = @ \cup {i}] \in Queue
                              /\ [q EXCEPT !.done = @ \ {i}] \in Queue
                              /\ [q EXCEPT !.queued = @ \ {i}, !.done = @ \cup {i}] \in Queue
  BY ZenonT(120) DEF Queue, ClosedQueue

\* A new request gets the next frame number; nothing of the pipeline changes.
LEMMA NextFrame ==
    ASSUME frame \in Frame
    PROVE  (frame + 1) % FrameCount \in Frame
  BY HalAssumption DEF Frame

\* configure_streams asks for a resolution.
LEMMA AsksResolution ==
    ASSUME NEW s \in Configurations, configure_streams(s)
    PROVE  \E r \in Resolution : configurePipeline(r)
  BY ConfigurationAssumption DEF configure_streams

\* Types: frame numbers wrap.
LEMMA HalTypesKept ==
    ASSUME IInv, [Next]_vars
    PROVE  HalTypes'
  <1>1. CASE openCamera \/ initialize \/ closeDevice
    BY Zenon, <1>1 DEF openCamera, initialize, closeDevice, PipelineClosed, HalTypes, ThreadStep,
       Sites, StartSteps, CaptureSteps, NoContexts
  <1>2. CASE \E s \in Configurations : configure_streams(s)
    <2>1. PICK r \in Resolution : configurePipeline(r)
      BY <1>2, AsksResolution
    <2>2. CASE SameConfig(r)
      BY <2>1, <2>2 DEF configurePipeline, pipelineVars, threadVars, HalTypes, ThreadStep,
       Sites, StartSteps, CaptureSteps, NoContexts
    <2>3. CASE ~SameConfig(r)
      <3>1. /\ thread' = "open" /\ mContexts' = NoContexts /\ pipeline' = FALSE
            /\ UNCHANGED <<device, streams_configured, last_config, requestVars, afVars>>
        BY <2>1, <2>3 DEF configurePipeline
      <3>2. QED BY Zenon, <3>1 DEF HalTypes, ThreadStep, Sites, StartSteps, CaptureSteps, NoContexts
    <2>4. QED BY <2>2, <2>3
  <1>3. CASE NewRequest
    <2>1. PICK t \in Settings, f \in Format : requestStart(t, f)
      BY <1>3 DEF NewRequest
    <2> DEFINE n == (frame + 1) % FrameCount
    <2>2. n \in Frame
      BY NextFrame DEF HalTypes, ThreadStep, Sites, StartSteps, CaptureSteps, NoContexts
    <2> HIDE DEF n
    <2>3. frame' = n /\ (mContexts' = remove(mContexts, n) \/ mContexts' = add(mContexts, n))
      BY <2>1 DEF requestStart, n
    <2>4. DOMAIN remove(mContexts, n) \subseteq Frame /\ DOMAIN add(mContexts, n) \subseteq Frame
      BY <2>2 DEF remove, add, HalTypes
    <2>5. DOMAIN mContexts' \subseteq Frame
      BY <2>3, <2>4
    <2>6. QED BY Zenon, <2>1, <2>2, <2>3, <2>5 DEF requestStart, HalTypes, ThreadStep, Sites,
       StartSteps, CaptureSteps, NoContexts
  <1>4. CASE (openDevice \/ configureFormat) /\ UNCHANGED halVars
    BY <1>4 DEF openDevice, configureFormat, Return, goto, HalTypes, ThreadStep, Sites,
       StartSteps, CaptureSteps, NoContexts
  <1>5. CASE (configureMap \/ configureIsp) /\ UNCHANGED halVars
    BY <1>5 DEF configureMap, configureIsp, Return, goto, HalTypes, ThreadStep, Sites,
       StartSteps, CaptureSteps, NoContexts
  <1>6. CASE (startQbuf \/ startStreamon) /\ UNCHANGED halVars
    BY <1>6 DEF startQbuf, startStreamon, CanQbuf, Qbuf, Return, goto, HalTypes, ThreadStep,
       Sites, StartSteps, CaptureSteps, NoContexts
  <1>7. CASE startStore /\ UNCHANGED halVars
    BY <1>7 DEF startStore, Return, HalTypes, ThreadStep, Sites, StartSteps, CaptureSteps,
       NoContexts
  <1>8. CASE (capturePoll \/ captureDqbuf) /\ UNCHANGED halVars
    BY <1>8 DEF capturePoll, captureDqbuf, PollError, Return, goto, HalTypes, ThreadStep, Sites,
       StartSteps, CaptureSteps, NoContexts
  <1>9. CASE (captureIndex \/ captureProcess \/ captureRequeue) /\ UNCHANGED halVars
    BY <1>9 DEF captureIndex, captureProcess, captureRequeue, CanQbuf, Qbuf, Return, goto,
       HalTypes, ThreadStep, Sites, StartSteps, CaptureSteps, NoContexts
  <1>10. CASE configureDone
    BY Zenon, <1>10 DEF configureDone, PipelineClosed, PipelineTypeOK, HalTypes, ThreadStep, Sites,
       StartSteps, CaptureSteps, NoContexts
  <1>11. CASE requestAf \/ requestAfCapture \/ requestAfCaptured
    <2>1. AfCaptures \in Nat
      BY HalAssumption
    <2>2. QED BY <1>11, <2>1 DEF requestAf, requestAfCapture, requestAfCaptured, HalTypes,
       ThreadStep, Sites, StartSteps, CaptureSteps, NoContexts
  <1>12. CASE requestBuffer \/ requestRestart \/ requestRestarted
    BY <1>12 DEF requestBuffer, requestRestart, requestRestarted, remove, return, HalTypes,
       ThreadStep, Sites, StartSteps, CaptureSteps, NoContexts
  <1>13. CASE requestLock \/ requestCaptured \/ requestFlushed
    BY Zenon, <1>13 DEF requestLock, requestCaptured, requestFlushed, isError, remove, return, Return,
       HalTypes, ThreadStep, Sites, StartSteps, CaptureSteps, NoContexts
  <1>14. CASE requestRemove \/ requestShutter \/ requestError \/ requestResult
    BY <1>14 DEF requestRemove, requestShutter, requestError, requestNotify, requestResult,
       remove, return, HalTypes, ThreadStep, Sites, StartSteps, CaptureSteps, NoContexts
  <1>15. CASE flushStart
    BY <1>15 DEF flushStart, HalTypes, ThreadStep, Sites, StartSteps, CaptureSteps, NoContexts
  <1>16. CASE flushStop
    BY ZenonT(120), <1>16 DEF flushStop, StopStep, stopStreamoff, stopMunmap, stopStore, StreamOff, HalTypes,
       ThreadStep, Sites, StartSteps, CaptureSteps, NoContexts
  <1>17. CASE flushMark \/ flushDrain
    BY <1>17 DEF flushMark, flushDrain, markAllAsError, HalTypes, ThreadStep, Sites, StartSteps,
       CaptureSteps, NoContexts
  <1>18. CASE Driver
    BY <1>18 DEF Driver, driverFills, HalTypes, ThreadStep, Sites, StartSteps, CaptureSteps,
       NoContexts
  <1>19. CASE UNCHANGED vars
    BY <1>19 DEF vars, HalTypes, ThreadStep, Sites, StartSteps, CaptureSteps, NoContexts
  <1>20. QED
    BY <1>1, <1>2, <1>3, <1>4, <1>5, <1>6, <1>7, <1>8, <1>9, <1>10, <1>11, <1>12, <1>13, <1>14,
       <1>15, <1>16, <1>17, <1>18, <1>19, ZenonT(120)
       DEF Next, DeviceThread, PipelineStep, Request, Flush

\* What the steps of the pipeline do to the queue.
LEMMA QueueSteps ==
    ASSUME queue \in Queue
    PROVE  /\ \A i \in Buffer : driverFills(i) => queue' \in Queue
           /\ \A i \in Buffer : Qbuf(i) => queue' \in Queue
           /\ StreamOff => queue' \in Queue
  <1>1. ASSUME NEW i \in Buffer, driverFills(i) PROVE queue' \in Queue
    BY Zenon, <1>1 DEF driverFills, Queue
  <1>2. ASSUME NEW i \in Buffer, Qbuf(i) PROVE queue' \in Queue
    BY <1>2 DEF Qbuf, Queue
  <1>3. ASSUME StreamOff PROVE queue' \in Queue
    BY Zenon, <1>3 DEF StreamOff, Queue
  <1>4. QED BY <1>1, <1>2, <1>3

\* Types: the queue.
LEMMA QueueTypeKept ==
    ASSUME IInv, [Next]_vars
    PROVE  (queue \in Queue)'
  <1>1. CASE openCamera \/ initialize \/ closeDevice
    BY Zenon, <1>1, QueueOperations DEF openCamera, initialize, closeDevice, PipelineClosed,
       PipelineTypeOK
  <1>2. CASE \E s \in Configurations : configure_streams(s)
    BY Zenon, <1>2, ConfigurationAssumption, QueueOperations DEF configure_streams, configurePipeline,
       SameConfig, PipelineClosed, drainAll, PipelineTypeOK
  <1>3. CASE NewRequest
    BY Zenon, <1>3, QueueOperations DEF NewRequest, requestStart, isError, add, remove, Frame,
       PipelineTypeOK
  <1>4. CASE (openDevice \/ configureFormat) /\ UNCHANGED halVars
    BY Zenon, <1>4, QueueOperations DEF openDevice, configureFormat, Return, goto, PipelineTypeOK
  <1>5. CASE (configureMap \/ configureIsp) /\ UNCHANGED halVars
    BY Zenon, <1>5, QueueOperations DEF configureMap, configureIsp, Return, goto, PipelineTypeOK
  <1>6. CASE (startQbuf \/ startStreamon) /\ UNCHANGED halVars
    <2>1. CASE startQbuf
      <3>1. queue' = queue \/ (buf \in Buffer /\ Qbuf(buf))
        BY <2>1 DEF startQbuf, Buffer, PipelineTypeOK
      <3>2. QED BY <3>1, QueueSteps DEF PipelineTypeOK
    <2>2. CASE startStreamon
      BY Zenon, <2>2 DEF startStreamon, Queue, PipelineTypeOK
    <2>3. QED BY <1>6, <2>1, <2>2
  <1>7. CASE startStore /\ UNCHANGED halVars
    BY Zenon, <1>7, QueueOperations DEF startStore, Return, PipelineTypeOK
  <1>8. CASE (capturePoll \/ captureDqbuf) /\ UNCHANGED halVars
    <2>1. CASE capturePoll
      BY <2>1 DEF capturePoll, PipelineTypeOK
    <2>2. CASE captureDqbuf
      BY <2>2 DEF captureDqbuf, Queue, PipelineTypeOK
    <2>3. QED BY <1>8, <2>1, <2>2
  <1>9. CASE (captureIndex \/ captureProcess \/ captureRequeue) /\ UNCHANGED halVars
    <2>1. queue' = queue \/ (buf \in Buffer /\ Qbuf(buf))
      BY <1>9 DEF captureIndex, captureProcess, captureRequeue, Sites, PipelineTypeOK
    <2>2. QED BY <2>1, QueueSteps DEF PipelineTypeOK
  <1>10. CASE configureDone
    BY Zenon, <1>10, QueueOperations DEF configureDone, PipelineClosed, PipelineTypeOK
  <1>11. CASE requestAf \/ requestAfCapture \/ requestAfCaptured
    BY Zenon, <1>11, QueueOperations DEF requestAf, requestAfCapture, requestAfCaptured, PipelineTypeOK
  <1>12. CASE requestBuffer \/ requestRestart \/ requestRestarted
    BY Zenon, <1>12, QueueOperations DEF requestBuffer, requestRestart, requestRestarted, remove,
       return, PipelineTypeOK
  <1>13. CASE requestLock \/ requestCaptured \/ requestFlushed
    BY Zenon, <1>13, QueueOperations DEF requestLock, requestCaptured, requestFlushed, isError, remove,
       return, Return, PipelineTypeOK
  <1>14. CASE requestRemove \/ requestShutter \/ requestError \/ requestResult
    BY Zenon, <1>14, QueueOperations DEF requestRemove, requestShutter, requestError, requestNotify,
       requestResult, remove, return, PipelineTypeOK
  <1>15. CASE flushStart
    BY Zenon, <1>15, QueueOperations DEF flushStart, PipelineTypeOK
  <1>16. CASE flushStop
    BY Zenon, <1>16, QueueOperations DEF flushStop, StopStep, stopStreamoff, stopMunmap, stopStore,
       StreamOff, PipelineTypeOK
  <1>17. CASE flushMark \/ flushDrain
    BY Zenon, <1>17, QueueOperations DEF flushMark, flushDrain, markAllAsError, PipelineTypeOK
  <1>18. CASE Driver
    BY <1>18, QueueSteps DEF Driver, PipelineTypeOK
  <1>19. CASE UNCHANGED vars
    BY ZenonT(120), <1>19, QueueOperations DEF vars, PipelineTypeOK
  <1>20. QED
    BY <1>1, <1>2, <1>3, <1>4, <1>5, <1>6, <1>7, <1>8, <1>9, <1>10, <1>11, <1>12, <1>13, <1>14, ZenonT(120),
       <1>15, <1>16, <1>17, <1>18, <1>19
       DEF Next, DeviceThread, PipelineStep, Request, Flush

\* Types: buffer indices stay in the queue.
LEMMA PipelineTypesKept ==
    ASSUME IInv, [Next]_vars
    PROVE  PipelineTypeOK'
  <1>q. queue' \in Queue
    BY QueueTypeKept
  <1>1. CASE openCamera \/ initialize \/ closeDevice
    BY ZenonT(120), <1>1, <1>q DEF openCamera, initialize, closeDevice, PipelineClosed, PipelineTypeOK, Buffer
  <1>2. CASE \E s \in Configurations : configure_streams(s)
    <2>1. PICK r \in Resolution : configurePipeline(r)
      BY <1>2, AsksResolution
    <2>2. QED BY Zenon, <1>q, <2>1 DEF configurePipeline, PipelineClosed, PipelineTypeOK, Buffer
  <1>3. CASE NewRequest
    BY <1>3, <1>q DEF NewRequest, requestStart, isError, add, remove, Frame, PipelineTypeOK,
       Buffer
  <1>4. CASE (openDevice \/ configureFormat) /\ UNCHANGED halVars
    BY <1>4, <1>q DEF openDevice, configureFormat, Return, goto, Sites, Configuring,
       PipelineTypeOK, Buffer
  <1>5. CASE (configureMap \/ configureIsp) /\ UNCHANGED halVars
    <2>1. CASE configureMap
      <3>1. buf \in Buffer /\ buf + 1 \in 0 .. BufferCount
        BY <2>1 DEF configureMap, PipelineTypeOK, Buffer
      <3>2. /\ mapped' = mapped \cup {buf} \/ mapped' = mapped \ 0 .. buf - 1
            /\ mBufferCount' \in {mBufferCount, 0} /\ buf' \in {buf, buf + 1}
        BY <2>1 DEF configureMap, PipelineTypeOK, Buffer
      <3>3. mapped' \subseteq Buffer
        BY Zenon, <3>1, <3>2 DEF PipelineTypeOK, Buffer
      <3>4. QED BY <1>q, <2>1, <3>1, <3>2, <3>3 DEF configureMap, Return, PipelineTypeOK, Buffer
    <2>2. CASE configureIsp
      BY <1>q, <2>2 DEF configureIsp, Return, goto, PipelineTypeOK, Buffer
    <2>3. QED BY <1>5, <2>1, <2>2
  <1>6. CASE (startQbuf \/ startStreamon) /\ UNCHANGED halVars
    BY <1>6, <1>q DEF startQbuf, startStreamon, CanQbuf, Qbuf, Return, goto, PipelineTypeOK,
       Buffer
  <1>7. CASE startStore /\ UNCHANGED halVars
    BY Zenon, <1>7, <1>q DEF startStore, Return, PipelineTypeOK, Buffer
  <1>8. CASE (capturePoll \/ captureDqbuf) /\ UNCHANGED halVars
    <2>1. buf' = buf \/ buf' \in queue.done
      BY <1>8 DEF capturePoll, captureDqbuf, PipelineTypeOK, Buffer
    <2>2. queue.done \subseteq Buffer
      BY DEF Queue, PipelineTypeOK, Buffer
    <2>3. QED BY <1>8, <1>q, <2>1, <2>2 DEF capturePoll, captureDqbuf, Return, goto,
       PipelineTypeOK, Buffer
  <1>9. CASE (captureIndex \/ captureProcess \/ captureRequeue) /\ UNCHANGED halVars
    BY <1>9, <1>q DEF captureIndex, captureProcess, captureRequeue, CanQbuf, Qbuf, Return, goto,
       PipelineTypeOK, Buffer
  <1>10. CASE configureDone
    BY Zenon, <1>10, <1>q DEF configureDone, PipelineClosed, PipelineTypeOK, Buffer
  <1>11. CASE requestAf \/ requestAfCapture \/ requestAfCaptured
    BY ZenonT(120), <1>11, <1>q DEF requestAf, requestAfCapture, requestAfCaptured, PipelineTypeOK, Buffer
  <1>12. CASE requestBuffer \/ requestRestart \/ requestRestarted
    BY <1>12, <1>q DEF requestBuffer, requestRestart, requestRestarted, remove, return,
       PipelineTypeOK, Buffer
  <1>13. CASE requestLock \/ requestCaptured \/ requestFlushed
    BY <1>13, <1>q DEF requestLock, requestCaptured, requestFlushed, isError, remove, return,
       Return, PipelineTypeOK, Buffer
  <1>14. CASE requestRemove \/ requestShutter \/ requestError \/ requestResult
    BY <1>14, <1>q DEF requestRemove, requestShutter, requestError, requestNotify,
       requestResult, remove, return, PipelineTypeOK, Buffer
  <1>15. CASE flushStart
    BY <1>15, <1>q DEF flushStart, PipelineTypeOK, Buffer
  <1>16. CASE flushStop
    BY Zenon, <1>16, <1>q DEF flushStop, StopStep, stopStreamoff, stopMunmap, stopStore, StreamOff,
       PipelineTypeOK, Buffer
  <1>17. CASE flushMark \/ flushDrain
    BY Zenon, <1>17, <1>q DEF flushMark, flushDrain, markAllAsError, PipelineTypeOK, Buffer
  <1>18. CASE Driver
    BY <1>18, <1>q DEF Driver, driverFills, PipelineTypeOK, Buffer
  <1>19. CASE UNCHANGED vars
    BY <1>19, <1>q, ZenonT(120) DEF vars, PipelineTypeOK, Buffer
  <1>20. QED
    BY <1>1, <1>2, <1>3, <1>4, <1>5, <1>6, <1>7, <1>8, <1>9, <1>10, <1>11, <1>12, <1>13, <1>14, ZenonT(120),
       <1>15, <1>16, <1>17, <1>18, <1>19
       DEF Next, DeviceThread, PipelineStep, Request, Flush

\* The tracker holds the request being processed at most.
LEMMA TrackedKept ==
    ASSUME IInv, [Next]_vars
    PROVE  Tracked'
  <1>1. CASE openCamera \/ initialize \/ closeDevice
    BY <1>1, ZenonT(120) DEF openCamera, initialize, closeDevice, PipelineClosed, Tracked, InRequest,
       NoContexts, Sites, Configuring, StartSteps, CaptureSteps
  <1>2. CASE \E s \in Configurations : configure_streams(s)
    BY <1>2, ConfigurationAssumption DEF configure_streams, configurePipeline, SameConfig,
       PipelineClosed, drainAll, Tracked, InRequest, NoContexts, Sites, Configuring, StartSteps, CaptureSteps
  <1>3. CASE NewRequest
    <2>1. PICK t \in Settings, f \in Format : requestStart(t, f)
      BY <1>3 DEF NewRequest
    <2>2. DOMAIN mContexts = {} /\ asked = None /\ asked' = None
      BY Zenon, <2>1 DEF requestStart, Tracked, InRequest, NoContexts, Sites, Configuring, StartSteps,
       CaptureSteps
    <2>3. thread' = "af" /\ mContexts' = add(mContexts, frame')
      BY <2>1, <2>2 DEF requestStart, isError, Tracked, InRequest, NoContexts, Sites,
       Configuring, StartSteps, CaptureSteps
    <2>4. DOMAIN mContexts' = {frame'}
      BY <2>2, <2>3 DEF add
    <2>5. QED BY <2>1, <2>2, <2>3, <2>4 DEF requestStart, Tracked, InRequest, NoContexts, Sites,
       Configuring, StartSteps, CaptureSteps
  <1>4. CASE (openDevice \/ configureFormat) /\ UNCHANGED halVars
    BY <1>4 DEF openDevice, configureFormat, Return, goto, Tracked, InRequest, NoContexts,
       Sites, Configuring, StartSteps, CaptureSteps
  <1>5. CASE (configureMap \/ configureIsp) /\ UNCHANGED halVars
    BY <1>5 DEF configureMap, configureIsp, Return, goto, Tracked, InRequest, NoContexts, Sites,
       Configuring, StartSteps, CaptureSteps
  <1>6. CASE (startQbuf \/ startStreamon) /\ UNCHANGED halVars
    BY <1>6 DEF startQbuf, startStreamon, CanQbuf, Qbuf, Return, goto, Tracked, InRequest,
       NoContexts, Sites, Configuring, StartSteps, CaptureSteps
  <1>7. CASE startStore /\ UNCHANGED halVars
    BY <1>7 DEF startStore, Return, Tracked, InRequest, NoContexts, Sites, Configuring,
       StartSteps, CaptureSteps
  <1>8. CASE (capturePoll \/ captureDqbuf) /\ UNCHANGED halVars
    BY <1>8 DEF capturePoll, captureDqbuf, PollError, Return, goto, Tracked, InRequest,
       NoContexts, Sites, Configuring, StartSteps, CaptureSteps
  <1>9. CASE (captureIndex \/ captureProcess \/ captureRequeue) /\ UNCHANGED halVars
    BY <1>9 DEF captureIndex, captureProcess, captureRequeue, CanQbuf, Qbuf, Return, goto,
       Tracked, InRequest, NoContexts, Sites, Configuring, StartSteps, CaptureSteps
  <1>10. CASE configureDone
    BY <1>10 DEF configureDone, PipelineClosed, Tracked, InRequest, NoContexts, Sites,
       Configuring, StartSteps, CaptureSteps
  <1>11. CASE requestAf \/ requestAfCapture \/ requestAfCaptured
    BY <1>11 DEF requestAf, requestAfCapture, requestAfCaptured, Tracked, InRequest, NoContexts,
       Sites, Configuring, StartSteps, CaptureSteps
  <1>12. CASE requestBuffer \/ requestRestart \/ requestRestarted
    BY <1>12, ZenonT(120) DEF requestBuffer, requestRestart, requestRestarted, remove, return, Tracked,
       InRequest, NoContexts, Sites, Configuring, StartSteps, CaptureSteps
  <1>13. CASE requestLock \/ requestCaptured \/ requestFlushed
    BY <1>13 DEF requestLock, requestCaptured, requestFlushed, isError, remove, return, Return,
       Tracked, InRequest, NoContexts, Sites, Configuring, StartSteps, CaptureSteps
  <1>14. CASE requestRemove \/ requestShutter \/ requestError \/ requestResult
    BY Zenon, <1>14 DEF requestRemove, requestShutter, requestError, requestNotify, requestResult,
       remove, return, Tracked, InRequest, NoContexts, Sites, Configuring, StartSteps, CaptureSteps
  <1>15. CASE flushStart
    BY <1>15 DEF flushStart, Tracked, InRequest, NoContexts, Sites, Configuring, StartSteps,
       CaptureSteps
  <1>16. CASE flushStop
    BY Zenon, <1>16 DEF flushStop, StopStep, stopStreamoff, stopMunmap, stopStore, StreamOff, Tracked,
       InRequest, NoContexts, Sites, Configuring, StartSteps, CaptureSteps
  <1>17. CASE flushMark \/ flushDrain
    BY <1>17 DEF flushMark, flushDrain, markAllAsError, Tracked, InRequest, NoContexts, Sites,
       Configuring, StartSteps, CaptureSteps
  <1>18. CASE Driver
    BY <1>18 DEF Driver, driverFills, Tracked, InRequest, NoContexts, Sites, Configuring,
       StartSteps, CaptureSteps
  <1>19. CASE UNCHANGED vars
    BY <1>19, ZenonT(120) DEF vars, Tracked, InRequest, NoContexts, Sites, Configuring, StartSteps,
       CaptureSteps
  <1>20. QED
    BY <1>1, <1>2, <1>3, <1>4, <1>5, <1>6, <1>7, <1>8, <1>9, <1>10, <1>11, <1>12, <1>13, <1>14, ZenonT(120),
       <1>15, <1>16, <1>17, <1>18, <1>19
       DEF Next, DeviceThread, PipelineStep, Request, Flush

\* The callbacks made so far.
LEMMA CalledBackKept ==
    ASSUME IInv, [Next]_vars
    PROVE  CalledBack'
  <1>1. CASE openCamera \/ initialize \/ closeDevice
    BY <1>1 DEF openCamera, initialize, closeDevice, PipelineClosed, CalledBack, InRequest,
       Sites, Configuring, StartSteps, CaptureSteps
  <1>2. CASE \E s \in Configurations : configure_streams(s)
    BY <1>2, ConfigurationAssumption DEF configure_streams, configurePipeline, SameConfig,
       PipelineClosed, drainAll, CalledBack, InRequest, Sites, Configuring, StartSteps, CaptureSteps
  <1>3. CASE NewRequest
    BY Zenon, <1>3 DEF NewRequest, requestStart, isError, add, remove, Frame, CalledBack, InRequest,
       Sites, Configuring, StartSteps, CaptureSteps
  <1>4. CASE (openDevice \/ configureFormat) /\ UNCHANGED halVars
    BY <1>4 DEF openDevice, configureFormat, Return, goto, CalledBack, InRequest, Sites,
       Configuring, StartSteps, CaptureSteps
  <1>5. CASE (configureMap \/ configureIsp) /\ UNCHANGED halVars
    BY <1>5 DEF configureMap, configureIsp, Return, goto, CalledBack, InRequest, Sites,
       Configuring, StartSteps, CaptureSteps
  <1>6. CASE (startQbuf \/ startStreamon) /\ UNCHANGED halVars
    BY <1>6 DEF startQbuf, startStreamon, CanQbuf, Qbuf, Return, goto, CalledBack, InRequest,
       Sites, Configuring, StartSteps, CaptureSteps
  <1>7. CASE startStore /\ UNCHANGED halVars
    BY <1>7 DEF startStore, Return, CalledBack, InRequest, Sites, Configuring, StartSteps,
       CaptureSteps
  <1>8. CASE (capturePoll \/ captureDqbuf) /\ UNCHANGED halVars
    BY <1>8 DEF capturePoll, captureDqbuf, PollError, Return, goto, CalledBack, InRequest,
       Sites, Configuring, StartSteps, CaptureSteps
  <1>9. CASE (captureIndex \/ captureProcess \/ captureRequeue) /\ UNCHANGED halVars
    BY <1>9 DEF captureIndex, captureProcess, captureRequeue, CanQbuf, Qbuf, Return, goto,
       CalledBack, InRequest, Sites, Configuring, StartSteps, CaptureSteps
  <1>10. CASE configureDone
    BY <1>10 DEF configureDone, PipelineClosed, CalledBack, InRequest, Sites, Configuring,
       StartSteps, CaptureSteps
  <1>11. CASE requestAf \/ requestAfCapture \/ requestAfCaptured
    BY <1>11 DEF requestAf, requestAfCapture, requestAfCaptured, CalledBack, InRequest, Sites,
       Configuring, StartSteps, CaptureSteps
  <1>12. CASE requestBuffer \/ requestRestart \/ requestRestarted
    BY <1>12 DEF requestBuffer, requestRestart, requestRestarted, remove, return, CalledBack,
       InRequest, Sites, Configuring, StartSteps, CaptureSteps
  <1>13. CASE requestLock \/ requestCaptured \/ requestFlushed
    BY <1>13 DEF requestLock, requestCaptured, requestFlushed, isError, remove, return, Return,
       CalledBack, InRequest, Sites, Configuring, StartSteps, CaptureSteps
  <1>14. CASE requestRemove \/ requestShutter \/ requestError \/ requestResult
    <2>1. CASE requestRemove
      BY <2>1 DEF requestRemove, CalledBack, InRequest, Sites, Configuring, StartSteps,
       CaptureSteps
    <2>2. CASE requestShutter
      <3>1. calls = <<>> /\ calls' = IF frameCaptured THEN Append(calls, "SHUTTER") ELSE calls
        BY <2>2 DEF requestShutter, requestNotify, CalledBack, InRequest, Sites, Configuring,
       StartSteps, CaptureSteps
      <3>2. calls' = IF frameCaptured THEN <<"SHUTTER">> ELSE <<>>
        BY <3>1
      <3>3. QED BY <2>2, <3>2 DEF requestShutter, requestNotify, CalledBack, InRequest, Sites,
       Configuring, StartSteps, CaptureSteps
    <2>3. CASE requestError
      <3>1. /\ calls = IF frameCaptured THEN <<"SHUTTER">> ELSE <<>>
            /\ calls' = IF ~frameFlushed /\ ~frameCaptured THEN Append(calls, "ERROR_DEVICE")
                       ELSE calls
        BY <2>3 DEF requestError, requestNotify, CalledBack, InRequest, Sites, Configuring,
       StartSteps, CaptureSteps
      <3>2. calls' = IF frameCaptured THEN <<"SHUTTER">>
                     ELSE IF frameFlushed THEN <<>> ELSE <<"ERROR_DEVICE">>
        BY <3>1
      <3>3. QED BY Zenon, <2>3, <3>2 DEF requestError, requestNotify, CalledBack, InRequest, Sites,
       Configuring, StartSteps, CaptureSteps
    <2>4. CASE requestResult
      BY <2>4 DEF requestResult, return, CalledBack, InRequest, Sites, Configuring, StartSteps,
       CaptureSteps
    <2>5. QED BY <1>14, <2>1, <2>2, <2>3, <2>4
  <1>15. CASE flushStart
    BY <1>15 DEF flushStart, CalledBack, InRequest, Sites, Configuring, StartSteps, CaptureSteps
  <1>16. CASE flushStop
    BY Zenon, <1>16 DEF flushStop, StopStep, stopStreamoff, stopMunmap, stopStore, StreamOff,
       CalledBack, InRequest, Sites, Configuring, StartSteps, CaptureSteps
  <1>17. CASE flushMark \/ flushDrain
    BY <1>17 DEF flushMark, flushDrain, markAllAsError, CalledBack, InRequest, Sites,
       Configuring, StartSteps, CaptureSteps
  <1>18. CASE Driver
    BY <1>18 DEF Driver, driverFills, CalledBack, InRequest, Sites, Configuring, StartSteps,
       CaptureSteps
  <1>19. CASE UNCHANGED vars
    BY <1>19 DEF vars, CalledBack, InRequest, Sites, Configuring, StartSteps, CaptureSteps
  <1>20. QED
    BY <1>1, <1>2, <1>3, <1>4, <1>5, <1>6, <1>7, <1>8, <1>9, <1>10, <1>11, <1>12, <1>13, <1>14,
       <1>15, <1>16, <1>17, <1>18, <1>19, ZenonT(120)
       DEF Next, DeviceThread, PipelineStep, Request, Flush

\* A step of a request or of flush() that leaves the pipeline alone.
LEMMA UntouchedKept ==
    ASSUME Kept, asked = None, thread' \notin {"open", "format", "map"},
           flusher' = "stores" => flusher = "stores",
           UNCHANGED <<members, queue, asked, pipeline, streams_configured, last_config, wanted>>
    PROVE  Kept'
  BY DEF Kept, Configuring

\* The steps of configure() that set the format and map the buffers.
LEMMA FormatKept ==
    ASSUME Kept, configureFormat, Configuring, ~pipeline, ~pipeline'
    PROVE  Kept'
  <1>1. /\ thread' \in {"map", "started"} /\ mState' = "OPENED" /\ mapped' = {} /\ mapped = {}
        /\ asked' # None /\ flusher' = flusher
    BY DEF configureFormat, Kept, Configuring, goto, Return
  <1>2. thread' = "map" => buf' = 0 /\ mBufferCount' = BufferCount
    BY DEF configureFormat, goto, Return
  <1>3. thread' = "started" => ret' = "ERROR"
    BY DEF configureFormat, goto, Return
  <1>4. mConfig' = asked'
    BY DEF configureFormat
  <1>5. 0 .. 0 - 1 = {} /\ 0 <= BufferCount
    OBVIOUS
  <1>6. thread' = "map" => mapped' = 0 .. buf' - 1 /\ buf' <= mBufferCount'
    BY <1>1, <1>2, <1>5
  <1>7. QED BY <1>1, <1>3, <1>4, <1>6 DEF Kept, Configuring

\* configureMap maps the next buffer, or undoes the mappings.
LEMMA MapKept ==
    ASSUME Kept, PipelineTypeOK, configureMap, Configuring, ~pipeline, ~pipeline',
           flusher = "idle"
    PROVE  Kept'
  <1>1. mapped = 0 .. buf - 1 /\ buf \in Nat /\ mBufferCount = BufferCount /\ buf < mBufferCount
    BY DEF configureMap, Kept, PipelineTypeOK
  <1>2. mapped \cup {buf} = 0 .. (buf + 1) - 1 /\ mapped \ 0 .. buf - 1 = {}
    BY <1>1
  <1>3. /\ mState' = mState /\ mState # "CLOSED" /\ asked' # None /\ mConfig' = asked'
        /\ flusher' = "idle"
    BY DEF configureMap, Kept, Configuring
  <1>4. CASE thread' = "map"
    <2>1. mapped' = mapped \cup {buf} /\ buf' = buf + 1 /\ mBufferCount' = mBufferCount
      BY <1>4 DEF configureMap, Return
    <2>2. buf + 1 \in Nat /\ buf + 1 <= mBufferCount /\ mBufferCount \in Nat
      BY <1>1
    <2>3. 0 .. (buf + 1) - 1 \subseteq 0 .. mBufferCount - 1
      BY <2>2
    <2>4. QED BY <1>2, <1>3, <1>4, <2>1, <2>2, <2>3 DEF Kept, Configuring
  <1>5. CASE thread' # "map"
    <2>1. thread' = "started" /\ ret' = "ERROR" /\ mapped' = {}
      BY <1>1, <1>2, <1>5 DEF configureMap, Return
    <2>2. QED BY <1>3, <2>1 DEF Kept, Configuring
  <1>6. QED BY <1>4, <1>5

\* Control: every step keeps the threads where they may be.
LEMMA SitesKept ==
    ASSUME IInv, [Next]_vars
    PROVE  Sites'
  <1>1. CASE openCamera \/ initialize \/ closeDevice
    BY Zenon, <1>1 DEF openCamera, initialize, closeDevice, PipelineClosed, Sites, Configuring,
       StartSteps, CaptureSteps
  <1>2. CASE \E s \in Configurations : configure_streams(s)
    BY Zenon, <1>2, ConfigurationAssumption DEF configure_streams, configurePipeline, SameConfig,
       PipelineClosed, drainAll, Sites, Configuring, StartSteps, CaptureSteps
  <1>3. CASE NewRequest
    <2>1. PICK t \in Settings, f \in Format : requestStart(t, f)
      BY <1>3 DEF NewRequest
    <2>2. /\ thread = "idle" /\ thread' \in {"idle", "af"} /\ device = "initialized"
          /\ overlapped' = (overlapped \/ flusher # "idle")
          /\ UNCHANGED <<asked, buf, flusher, device, pipeline>>
      BY <2>1 DEF requestStart
    <2>3. QED BY Zenon, <2>2 DEF Sites, Configuring, StartSteps, CaptureSteps
  <1>4. CASE (openDevice \/ configureFormat) /\ UNCHANGED halVars
    BY <1>4, ZenonT(120) DEF openDevice, configureFormat, Return, goto, Sites, Configuring, StartSteps,
       CaptureSteps
  <1>5. CASE (configureMap \/ configureIsp) /\ UNCHANGED halVars
    BY <1>5 DEF configureMap, configureIsp, Return, goto, Sites, Configuring, StartSteps,
       CaptureSteps
  <1>6. CASE (startQbuf \/ startStreamon) /\ UNCHANGED halVars
    BY <1>6 DEF startQbuf, startStreamon, CanQbuf, Qbuf, Return, goto, Sites, Configuring,
       StartSteps, CaptureSteps
  <1>7. CASE startStore /\ UNCHANGED halVars
    BY <1>7 DEF startStore, Return, Sites, Configuring, StartSteps, CaptureSteps
  <1>8. CASE (capturePoll \/ captureDqbuf) /\ UNCHANGED halVars
    BY <1>8 DEF capturePoll, captureDqbuf, PollError, Return, goto, PipelineTypeOK, Queue,
       Sites, Configuring, StartSteps, CaptureSteps
  <1>9. CASE (captureIndex \/ captureProcess \/ captureRequeue) /\ UNCHANGED halVars
    BY <1>9 DEF captureIndex, captureProcess, captureRequeue, CanQbuf, Qbuf, Return, goto,
       Sites, Configuring, StartSteps, CaptureSteps
  <1>10. CASE configureDone
    BY <1>10, ZenonT(120) DEF configureDone, PipelineClosed, Sites, Configuring, StartSteps, CaptureSteps
  <1>11. CASE requestAf \/ requestAfCapture \/ requestAfCaptured
    BY <1>11, ZenonT(120) DEF requestAf, requestAfCapture, requestAfCaptured, Sites, Configuring, StartSteps,
       CaptureSteps
  <1>12. CASE requestBuffer \/ requestRestart \/ requestRestarted
    BY <1>12, ZenonT(120) DEF requestBuffer, requestRestart, requestRestarted, remove, return, InRequest,
       Sites, Configuring, StartSteps, CaptureSteps
  <1>13. CASE requestLock \/ requestCaptured \/ requestFlushed
    BY <1>13, ZenonT(120) DEF requestLock, requestCaptured, requestFlushed, isError, remove, return, Return,
       InRequest, Sites, Configuring, StartSteps, CaptureSteps
  <1>14. CASE requestRemove \/ requestShutter \/ requestError \/ requestResult
    BY <1>14 DEF requestRemove, requestShutter, requestError, requestNotify, requestResult,
       remove, return, Sites, Configuring, StartSteps, CaptureSteps
  <1>15. CASE flushStart
    BY Zenon, <1>15 DEF flushStart, InRequest, Sites, Configuring, StartSteps, CaptureSteps
  <1>16. CASE flushStop
    BY Zenon, <1>16 DEF flushStop, StopStep, stopStreamoff, stopMunmap, stopStore, StreamOff, Sites,
       Configuring, StartSteps, CaptureSteps
  <1>17. CASE flushMark \/ flushDrain
    BY <1>17 DEF flushMark, flushDrain, markAllAsError, Sites, Configuring, StartSteps,
       CaptureSteps
  <1>18. CASE Driver
    BY <1>18, ZenonT(120) DEF Driver, driverFills, Sites, Configuring, StartSteps, CaptureSteps
  <1>19. CASE UNCHANGED vars
    BY <1>19 DEF vars, Sites, Configuring, StartSteps, CaptureSteps
  <1>20. QED
    BY Zenon, <1>1, <1>2, <1>3, <1>4, <1>5, <1>6, <1>7, <1>8, <1>9, <1>10, <1>11, <1>12, <1>13, <1>14,
       <1>15, <1>16, <1>17, <1>18, <1>19
       DEF Next, DeviceThread, PipelineStep, Request, Flush

\* Buffers, resolution and state of the pipeline.
LEMMA KeptKept ==
    ASSUME IInv, [Next]_vars
    PROVE  Kept'
  <1>1. CASE openCamera \/ initialize \/ closeDevice
    <2>1. CASE openCamera
      BY <2>1, ZenonT(120) DEF openCamera, Kept, ClosedQueue, PipelineTypeOK, Sites, Configuring, StartSteps,
       CaptureSteps
    <2>2. CASE initialize
      BY <2>2 DEF initialize, Kept, ClosedQueue, PipelineTypeOK, Sites, Configuring, StartSteps,
       CaptureSteps
    <2>3. CASE closeDevice
      BY Zenon, <2>3 DEF closeDevice, PipelineClosed, Kept, ClosedQueue, PipelineTypeOK, Sites,
       Configuring, StartSteps, CaptureSteps
    <2>4. QED BY <1>1, <2>1, <2>2, <2>3, ZenonT(120)
  <1>2. CASE \E s \in Configurations : configure_streams(s)
    <2>1. PICK r \in Resolution : configurePipeline(r)
      BY <1>2, AsksResolution
    <2>2. CASE SameConfig(r)
      BY Zenon, <2>1, <2>2 DEF configurePipeline, SameConfig, Kept, ClosedQueue, PipelineTypeOK, Sites,
       Configuring, StartSteps, CaptureSteps
    <2>3. CASE ~SameConfig(r) /\ pipeline
      BY Zenon, <2>1, <2>3 DEF configurePipeline, PipelineClosed, Kept, ClosedQueue, PipelineTypeOK,
       Sites, Configuring, StartSteps, CaptureSteps
    <2>4. CASE ~SameConfig(r) /\ ~pipeline
      BY Zenon, <2>1, <2>4 DEF configurePipeline, Kept, ClosedQueue, PipelineTypeOK, Sites,
       Configuring, StartSteps, CaptureSteps
    <2>5. QED BY <2>2, <2>3, <2>4
  <1>3. CASE NewRequest
    <2>1. /\ asked = None /\ thread' \notin {"open", "format", "map"}
          /\ flusher' = "stores" => flusher = "stores"
          /\ UNCHANGED <<members, queue, asked, pipeline, streams_configured, last_config, wanted>>
      BY Zenon, <1>3 DEF NewRequest, requestStart, isError, add, remove, Frame, Sites, Configuring,
       StartSteps, CaptureSteps
    <2>2. QED BY <2>1, UntouchedKept
  <1>4. CASE (openDevice \/ configureFormat) /\ UNCHANGED halVars
    <2>1. CASE openDevice
      BY <1>4, <2>1, ZenonT(120) DEF openDevice, Return, goto, Kept, ClosedQueue, PipelineTypeOK, Sites,
       Configuring, StartSteps, CaptureSteps
    <2>2. CASE configureFormat
      BY <1>4, <2>2, FormatKept DEF configureFormat, Kept, ClosedQueue, PipelineTypeOK, Sites,
       Configuring, StartSteps, CaptureSteps
    <2>3. QED BY <1>4, <2>1, <2>2, ZenonT(120)
  <1>5. CASE (configureMap \/ configureIsp) /\ UNCHANGED halVars
    <2>1. CASE configureMap
      BY Zenon, <1>5, <2>1, MapKept DEF configureMap, Kept, ClosedQueue, PipelineTypeOK, Sites,
       Configuring, StartSteps, CaptureSteps
    <2>2. CASE configureIsp
      BY <1>5, <2>2 DEF configureIsp, Return, goto, Kept, ClosedQueue, PipelineTypeOK, Sites,
       Configuring, StartSteps, CaptureSteps
    <2>3. QED BY <1>5, <2>1, <2>2
  <1>6. CASE (startQbuf \/ startStreamon) /\ UNCHANGED halVars
    BY <1>6, ZenonT(120) DEF startQbuf, startStreamon, CanQbuf, Qbuf, Return, goto, Kept, ClosedQueue,
       PipelineTypeOK, Sites, Configuring, StartSteps, CaptureSteps
  <1>7. CASE startStore /\ UNCHANGED halVars
    BY <1>7 DEF startStore, Return, Kept, ClosedQueue, PipelineTypeOK, Sites, Configuring,
       StartSteps, CaptureSteps
  <1>8. CASE (capturePoll \/ captureDqbuf) /\ UNCHANGED halVars
    BY <1>8 DEF capturePoll, captureDqbuf, PollError, Return, goto, Kept, ClosedQueue,
       PipelineTypeOK, Sites, Configuring, StartSteps, CaptureSteps
  <1>9. CASE (captureIndex \/ captureProcess \/ captureRequeue) /\ UNCHANGED halVars
    BY <1>9 DEF captureIndex, captureProcess, captureRequeue, CanQbuf, Qbuf, Return, goto, Kept,
       ClosedQueue, PipelineTypeOK, Sites, Configuring, StartSteps, CaptureSteps
  <1>10. CASE configureDone
    BY Zenon, <1>10 DEF configureDone, PipelineClosed, Kept, ClosedQueue, PipelineTypeOK, Sites,
       Configuring, StartSteps, CaptureSteps
  <1>11. CASE requestAf \/ requestAfCapture \/ requestAfCaptured
    <2>1. /\ asked = None /\ thread' \notin {"open", "format", "map"}
          /\ flusher' = "stores" => flusher = "stores"
          /\ UNCHANGED <<members, queue, asked, pipeline, streams_configured, last_config, wanted>>
      BY <1>11 DEF requestAf, requestAfCapture, requestAfCaptured, Sites, Configuring,
       StartSteps, CaptureSteps
    <2>2. QED BY <2>1, UntouchedKept, ZenonT(120)
  <1>12. CASE requestBuffer \/ requestRestart \/ requestRestarted
    <2>1. /\ asked = None /\ thread' \notin {"open", "format", "map"}
          /\ flusher' = "stores" => flusher = "stores"
          /\ UNCHANGED <<members, queue, asked, pipeline, streams_configured, last_config, wanted>>
      BY <1>12 DEF requestBuffer, requestRestart, requestRestarted, remove, return, InRequest,
       Sites, Configuring, StartSteps, CaptureSteps
    <2>2. QED BY <2>1, UntouchedKept, ZenonT(120)
  <1>13. CASE requestLock \/ requestCaptured \/ requestFlushed
    <2>1. /\ asked = None /\ thread' \notin {"open", "format", "map"}
          /\ flusher' = "stores" => flusher = "stores"
          /\ UNCHANGED <<members, queue, asked, pipeline, streams_configured, last_config, wanted>>
      BY <1>13 DEF requestLock, requestCaptured, requestFlushed, isError, remove, return,
       Return, Sites, Configuring, StartSteps, CaptureSteps
    <2>2. QED BY <2>1, UntouchedKept, ZenonT(120)
  <1>14. CASE requestRemove \/ requestShutter \/ requestError \/ requestResult
    <2>1. /\ asked = None /\ thread' \notin {"open", "format", "map"}
          /\ flusher' = "stores" => flusher = "stores"
          /\ UNCHANGED <<members, queue, asked, pipeline, streams_configured, last_config, wanted>>
      BY <1>14, ZenonT(120) DEF requestRemove, requestShutter, requestError, requestNotify, requestResult,
       remove, return, Sites, Configuring, StartSteps, CaptureSteps
    <2>2. QED BY <2>1, UntouchedKept, ZenonT(120)
  <1>15. CASE flushStart
    BY <1>15 DEF flushStart, Kept, ClosedQueue, PipelineTypeOK, Sites, Configuring, StartSteps,
       CaptureSteps
  <1>16. CASE flushStop
    BY Zenon, <1>16 DEF flushStop, StopStep, stopStreamoff, stopMunmap, stopStore, StreamOff, Kept,
       ClosedQueue, PipelineTypeOK, Sites, Configuring, StartSteps, CaptureSteps
  <1>17. CASE flushMark \/ flushDrain
    <2>1. /\ asked = None /\ thread' \notin {"open", "format", "map"}
          /\ flusher' = "stores" => flusher = "stores"
          /\ UNCHANGED <<members, queue, asked, pipeline, streams_configured, last_config, wanted>>
      BY <1>17 DEF flushMark, flushDrain, markAllAsError, Sites, Configuring, StartSteps,
       CaptureSteps
    <2>2. QED BY <2>1, UntouchedKept, ZenonT(120)
  <1>18. CASE Driver
    BY <1>18 DEF Driver, driverFills, Kept, ClosedQueue, PipelineTypeOK, Sites, Configuring,
       StartSteps, CaptureSteps
  <1>19. CASE UNCHANGED vars
    BY Zenon, <1>19 DEF vars, Kept, ClosedQueue, PipelineTypeOK, Sites, Configuring, StartSteps,
       CaptureSteps
  <1>20. QED
    BY Zenon, <1>1, <1>2, <1>3, <1>4, <1>5, <1>6, <1>7, <1>8, <1>9, <1>10, <1>11, <1>12, <1>13, <1>14,
       <1>15, <1>16, <1>17, <1>18, <1>19
       DEF Next, DeviceThread, PipelineStep, Request, Flush

\* The steps of the device thread that start or stop the stream.
Special == {"format", "map", "qbuf", "streamon", "stores"}

\* Steps that change neither the flags nor who is starting or stopping.
LEMMA UntouchedOrdered ==
    ASSUME Ordered, overlapped => overlapped', queue'.on = queue.on,
           thread' = thread \/ (thread \notin Special /\ thread' \notin Special),
           flusher' = flusher \/ (flusher \notin {"munmap", "stores"} /\ flusher' \notin {"munmap", "stores"}),
           UNCHANGED <<mState, mStreaming, mBufferCount, mapped, threadStores, flushStores>>
    PROVE  Ordered'
  BY DEF Ordered, AtRest, Special

\* A step to a pipeline at rest.
LEMMA RestOrdered ==
    ASSUME AtRest', thread' \notin {"map", "stores"}, flusher' \notin {"munmap", "stores"},
           thread' \in {"format", "qbuf", "streamon"} => mState' = "OPENED"
    PROVE  Ordered'
  BY Zenon DEF Ordered, AtRest

\* A pipeline that is closed is at rest.
LEMMA ClosedOrdered ==
    ASSUME mState' = "CLOSED", mStreaming' = FALSE, mBufferCount' = 0, mapped' = {},
           queue' = ClosedQueue, thread' \in {"idle", "open"}, flusher' = "idle"
    PROVE  Ordered'
  <1>1. 0 .. 0 - 1 = {}
    OBVIOUS
  <1>2. QED BY Zenon, <1>1 DEF Ordered, AtRest, ClosedQueue

\* Flags: without an overlap they agree except inside a start or a stop.
LEMMA OrderedKept ==
    ASSUME IInv, [Next]_vars
    PROVE  Ordered'
  <1>c. /\ mapped \ 0 .. mBufferCount - 1 = {}
        /\ thread = "idle" /\ ~pipeline => /\ mState = "CLOSED" /\ ~mStreaming /\ mBufferCount = 0
                                           /\ mapped = {} /\ queue = ClosedQueue
    BY DEF Kept, Sites, Configuring, StartSteps, PipelineTypeOK
  <1>1. CASE openCamera \/ initialize \/ closeDevice
    <2>1. CASE openCamera \/ initialize
      <3>1. /\ overlapped => overlapped'
            /\ queue'.on = queue.on
            /\ thread' = thread \/ (thread \notin Special /\ thread' \notin Special)
            /\ flusher' = flusher \/ (flusher \notin {"munmap", "stores"} /\ flusher' \notin {"munmap", "stores"})
            /\ UNCHANGED <<mState, mStreaming, mBufferCount, mapped, threadStores, flushStores>>
        BY <2>1 DEF openCamera, initialize, Special
      <3>2. QED BY <3>1, UntouchedOrdered
    <2>2. CASE closeDevice
      <3>1. mState' = "CLOSED" /\ mStreaming' = FALSE /\ mBufferCount' = 0 /\ queue' = ClosedQueue
        BY <2>2, <1>c DEF closeDevice, PipelineClosed
      <3>2. mapped' = {}
        BY <2>2, <1>c DEF closeDevice, PipelineClosed
      <3>3. QED BY Zenon, <2>2, <3>1, <3>2, ClosedOrdered DEF closeDevice
    <2>3. QED BY <1>1, <2>1, <2>2, ZenonT(120)
  <1>2. CASE \E s \in Configurations : configure_streams(s)
    <2>1. PICK r \in Resolution : configurePipeline(r)
      BY <1>2, AsksResolution
    <2>2. CASE SameConfig(r)
      <3>1. UNCHANGED <<pipelineVars, overlapped>>
        BY <2>1, <2>2 DEF configurePipeline
      <3>2. QED BY <3>1, UntouchedOrdered
    <2>3. CASE ~SameConfig(r)
      <3>1. mState' = "CLOSED" /\ mStreaming' = FALSE /\ mBufferCount' = 0 /\ queue' = ClosedQueue
        BY <2>1, <2>3, <1>c DEF configurePipeline, PipelineClosed
      <3>2. mapped' = {}
        BY <2>1, <2>3, <1>c, ZenonT(120) DEF configurePipeline, PipelineClosed
      <3>3. QED BY Zenon, <2>1, <2>3, <3>1, <3>2, ClosedOrdered DEF configurePipeline
    <2>4. QED BY <2>2, <2>3
  <1>3. CASE NewRequest
    <2>1. /\ overlapped => overlapped'
          /\ queue'.on = queue.on
          /\ thread' = thread \/ (thread \notin Special /\ thread' \notin Special)
          /\ flusher' = flusher \/ (flusher \notin {"munmap", "stores"} /\ flusher' \notin {"munmap", "stores"})
          /\ UNCHANGED <<mState, mStreaming, mBufferCount, mapped, threadStores, flushStores>>
      BY Zenon, <1>3 DEF NewRequest, requestStart, isError, add, remove, Frame, Special
    <2>2. QED BY <2>1, UntouchedOrdered
  <1>4. CASE (openDevice \/ configureFormat) /\ UNCHANGED halVars
    <2>1. flusher = "idle" /\ flusher' = "idle" /\ ~overlapped
      BY <1>4 DEF openDevice, configureFormat, Sites, Configuring
    <2>2. CASE openDevice
      <3>1. AtRest /\ mState = "CLOSED" /\ mState' \in {"CLOSED", "OPENED"}
        BY <2>1, <2>2 DEF openDevice, Ordered, Kept
      <3>2. AtRest'
        BY <2>2, <3>1 DEF openDevice, AtRest
      <3>3. QED BY <2>1, <2>2, <3>2, RestOrdered DEF openDevice, Return, goto
    <2>3. CASE configureFormat
      <3>1. AtRest /\ mState = "OPENED" /\ ~mStreaming /\ ~queue.on
        BY <2>1, <2>3 DEF configureFormat, Ordered
      <3>2. CASE thread' = "started"
        <4>1. UNCHANGED <<queue, mBufferCount, mState, mStreaming, mapped>>
          BY <2>3, <3>2 DEF configureFormat, Return, goto
        <4>2. QED BY <2>1, <3>1, <3>2, <4>1, RestOrdered DEF AtRest
      <3>3. CASE thread' = "map"
        <4>1. UNCHANGED <<mState, mStreaming>> /\ queue'.on = queue.on
          BY <2>3, <3>3 DEF configureFormat, Return, goto, PipelineTypeOK, Queue
        <4>2. QED BY <2>1, <3>1, <3>3, <4>1 DEF Ordered
      <3>4. QED BY <2>3, <3>2, <3>3 DEF configureFormat, Return, goto
    <2>4. QED BY <1>4, <2>2, <2>3
  <1>5. CASE (configureMap \/ configureIsp) /\ UNCHANGED halVars
    <2>1. /\ flusher = "idle" /\ flusher' = "idle" /\ ~overlapped
          /\ mState = "OPENED" /\ mStreaming = FALSE /\ queue.on = FALSE
          /\ UNCHANGED <<mState, mStreaming, queue>>
      BY <1>5, ZenonT(120) DEF configureMap, configureIsp, Sites, Configuring, Ordered, PipelineTypeOK, Queue
    <2>2. mapped = 0 .. buf - 1 /\ buf \in Nat /\ mBufferCount \in Nat /\ buf <= mBufferCount
      BY <1>5 DEF configureMap, configureIsp, Kept, PipelineTypeOK
    <2>3. CASE thread' = "map"
      BY <2>1, <2>3 DEF Ordered
    <2>4. CASE configureMap /\ thread' # "map"
      <3>1. thread' = "started" /\ mBufferCount' = 0 /\ mapped' = {}
        BY <2>2, <2>4 DEF configureMap, Return
      <3>2. 0 .. 0 - 1 = {}
        OBVIOUS
      <3>3. QED BY Zenon, <2>1, <3>1, <3>2, RestOrdered DEF AtRest
    <2>5. CASE configureIsp
      <3>1. buf = mBufferCount
        BY <2>2, <2>5 DEF configureIsp
      <3>2. thread' \in {"qbuf", "started"} /\ mapped' = 0 .. mBufferCount' - 1
        BY <2>2, <2>5, <3>1 DEF configureIsp, Return, goto
      <3>3. QED BY Zenon, <2>1, <3>2, RestOrdered DEF AtRest
    <2>6. QED BY <1>5, <2>3, <2>4, <2>5, ZenonT(120)
  <1>6. CASE (startQbuf \/ startStreamon) /\ UNCHANGED halVars
    <2>0. SUFFICES ASSUME ~overlapped PROVE Ordered'
      BY <1>6 DEF Ordered
    <2>1. /\ flusher = "idle" /\ flusher' = "idle" /\ AtRest
          /\ mState = "OPENED" /\ UNCHANGED members
      BY <1>6, <2>0 DEF startQbuf, startStreamon, Sites, Ordered
    <2>2. CASE queue'.on = queue.on /\ thread' \in {"qbuf", "streamon", "started"}
      BY <2>1, <2>2, RestOrdered, ZenonT(120) DEF AtRest
    <2>3. CASE queue'.on = TRUE /\ thread' = "stores" /\ threadStores' = {"mStreaming", "mState"}
      BY <2>1, <2>3 DEF Ordered, AtRest
    <2>4. QED
      BY Zenon, <1>6, <2>2, <2>3
         DEF startQbuf, startStreamon, Qbuf, Return, goto, PipelineTypeOK, Queue
  <1>7. CASE startStore /\ UNCHANGED halVars
    <2>0. SUFFICES ASSUME ~overlapped PROVE Ordered'
      BY <1>7, ZenonT(120) DEF Ordered
    <2>1. /\ flusher = "idle" /\ flusher' = "idle" /\ UNCHANGED <<mapped, mBufferCount, queue>>
          /\ queue.on = TRUE /\ mapped = 0 .. mBufferCount - 1
      BY <1>7, <2>0 DEF startStore, Sites, Ordered, PipelineTypeOK, Queue
    <2>2. PICK s \in threadStores :
            /\ mStreaming' = IF s = "mStreaming" THEN TRUE ELSE mStreaming
            /\ mState' = IF s = "mState" THEN "STREAMING" ELSE mState
            /\ threadStores' = threadStores \ {s}
            /\ IF threadStores = {s} THEN thread' = "started" ELSE thread' = thread
      BY Zenon, <1>7 DEF startStore, Return
    <2>3. /\ thread = "stores"
          /\ "mStreaming" \notin threadStores => mStreaming = TRUE
          /\ "mState" \notin threadStores => mState = "STREAMING"
      BY <1>7, <2>0 DEF startStore, Ordered, PipelineTypeOK
    <2>4. CASE threadStores = {s}
      <3>1. thread' = "started" /\ mStreaming' = TRUE /\ mState' = "STREAMING"
        BY <2>2, <2>3, <2>4, ZenonT(120) DEF PipelineTypeOK
      <3>2. QED BY Zenon, <2>1, <3>1, RestOrdered DEF AtRest
    <2>5. CASE threadStores # {s}
      BY <2>1, <2>2, <2>3, <2>5, ZenonT(120) DEF Ordered, AtRest
    <2>6. QED BY <2>4, <2>5, ZenonT(120)
  <1>8. CASE (capturePoll \/ captureDqbuf) /\ UNCHANGED halVars
    <2>1. /\ overlapped => overlapped'
          /\ queue'.on = queue.on
          /\ thread' = thread \/ (thread \notin Special /\ thread' \notin Special)
          /\ flusher' = flusher \/ (flusher \notin {"munmap", "stores"} /\ flusher' \notin {"munmap", "stores"})
          /\ UNCHANGED <<mState, mStreaming, mBufferCount, mapped, threadStores, flushStores>>
      BY <1>8, ZenonT(120) DEF capturePoll, captureDqbuf, PollError, Return, goto, Special, PipelineTypeOK,
       Queue
    <2>2. QED BY <2>1, UntouchedOrdered
  <1>9. CASE (captureIndex \/ captureProcess \/ captureRequeue) /\ UNCHANGED halVars
    <2>1. /\ overlapped => overlapped'
          /\ queue'.on = queue.on
          /\ thread' = thread \/ (thread \notin Special /\ thread' \notin Special)
          /\ flusher' = flusher \/ (flusher \notin {"munmap", "stores"} /\ flusher' \notin {"munmap", "stores"})
          /\ UNCHANGED <<mState, mStreaming, mBufferCount, mapped, threadStores, flushStores>>
      BY <1>9 DEF captureIndex, captureProcess, captureRequeue, CanQbuf, Qbuf, Return, goto,
       Special, PipelineTypeOK, Queue
    <2>2. QED BY <2>1, UntouchedOrdered
  <1>10. CASE configureDone
    <2>1. flusher = "idle" /\ flusher' = "idle" /\ ~overlapped /\ thread' = "idle"
      BY <1>10 DEF configureDone, Sites, Configuring
    <2>2. CASE ret = "OK"
      <3>1. AtRest /\ UNCHANGED <<members, queue>>
        BY <1>10, <2>1, <2>2 DEF configureDone, Ordered
      <3>2. QED BY <2>1, <3>1, RestOrdered, ZenonT(120) DEF AtRest
    <2>3. CASE ret # "OK"
      BY Zenon, <1>10, <1>c, <2>1, <2>3, ClosedOrdered DEF configureDone, PipelineClosed
    <2>4. QED BY <2>2, <2>3, ZenonT(120)
  <1>11. CASE requestAf \/ requestAfCapture \/ requestAfCaptured
    <2>1. /\ overlapped => overlapped'
          /\ queue'.on = queue.on
          /\ thread' = thread \/ (thread \notin Special /\ thread' \notin Special)
          /\ flusher' = flusher \/ (flusher \notin {"munmap", "stores"} /\ flusher' \notin {"munmap", "stores"})
          /\ UNCHANGED <<mState, mStreaming, mBufferCount, mapped, threadStores, flushStores>>
      BY <1>11 DEF requestAf, requestAfCapture, requestAfCaptured, Special
    <2>2. QED BY <2>1, UntouchedOrdered, ZenonT(120)
  <1>12. CASE requestBuffer \/ requestRestart \/ requestRestarted
    <2>1. CASE requestBuffer \/ requestRestarted
      <3>1. /\ overlapped => overlapped'
            /\ queue'.on = queue.on
            /\ thread' = thread \/ (thread \notin Special /\ thread' \notin Special)
            /\ flusher' = flusher \/ (flusher \notin {"munmap", "stores"} /\ flusher' \notin {"munmap", "stores"})
            /\ UNCHANGED <<mState, mStreaming, mBufferCount, mapped, threadStores, flushStores>>
        BY <2>1 DEF requestBuffer, requestRestarted, return, Special
      <3>2. QED BY <3>1, UntouchedOrdered, ZenonT(120)
    <2>2. CASE requestRestart
      <3>1. UNCHANGED <<members, queue, threadStores, flushVars, overlapped>>
        BY <2>2, ZenonT(120) DEF requestRestart
      <3>2. CASE overlapped \/ thread' # "qbuf"
        <4>1. CASE overlapped
          BY <3>1, <4>1, ZenonT(120) DEF Ordered
        <4>2. CASE thread' # "qbuf"
          <5>1. thread \notin Special /\ thread' \notin Special
            BY <2>2, <4>2, ZenonT(120) DEF requestRestart, Special
          <5>2. queue'.on = queue.on /\ flusher' = flusher /\ overlapped' = overlapped
                /\ UNCHANGED <<mState, mStreaming, mBufferCount, mapped, threadStores, flushStores>>
            BY <3>1, ZenonT(120) DEF members, flushVars
          <5>3. QED BY <5>1, <5>2, UntouchedOrdered, ZenonT(120)
        <4>3. QED BY <3>2, <4>1, <4>2, ZenonT(120)
      <3>3. CASE ~overlapped /\ thread' = "qbuf"
        <4>1. mState = "OPENED" /\ flusher = "idle" /\ AtRest
          BY <2>2, <3>3, ZenonT(120) DEF requestRestart, Sites, Ordered
        <4>2. QED BY <3>1, <3>3, <4>1, RestOrdered, ZenonT(120) DEF AtRest
      <3>4. QED BY <3>2, <3>3
    <2>3. QED BY <1>12, <2>1, <2>2, ZenonT(120)
  <1>13. CASE requestLock \/ requestCaptured \/ requestFlushed
    <2>1. /\ overlapped => overlapped'
          /\ queue'.on = queue.on
          /\ thread' = thread \/ (thread \notin Special /\ thread' \notin Special)
          /\ flusher' = flusher \/ (flusher \notin {"munmap", "stores"} /\ flusher' \notin {"munmap", "stores"})
          /\ UNCHANGED <<mState, mStreaming, mBufferCount, mapped, threadStores, flushStores>>
      BY <1>13 DEF requestLock, requestCaptured, requestFlushed, isError, remove, return,
       Return, Special
    <2>2. QED BY <2>1, UntouchedOrdered, ZenonT(120)
  <1>14. CASE requestRemove \/ requestShutter \/ requestError \/ requestResult
    <2>1. /\ overlapped => overlapped'
          /\ queue'.on = queue.on
          /\ thread' = thread \/ (thread \notin Special /\ thread' \notin Special)
          /\ flusher' = flusher \/ (flusher \notin {"munmap", "stores"} /\ flusher' \notin {"munmap", "stores"})
          /\ UNCHANGED <<mState, mStreaming, mBufferCount, mapped, threadStores, flushStores>>
      BY <1>14 DEF requestRemove, requestShutter, requestError, requestNotify, requestResult,
       remove, return, Special
    <2>2. QED BY ZenonT(120), <2>1, UntouchedOrdered
  <1>15. CASE flushStart
    <2>1. /\ overlapped => overlapped'
          /\ queue'.on = queue.on
          /\ thread' = thread \/ (thread \notin Special /\ thread' \notin Special)
          /\ flusher' = flusher \/ (flusher \notin {"munmap", "stores"} /\ flusher' \notin {"munmap", "stores"})
          /\ UNCHANGED <<mState, mStreaming, mBufferCount, mapped, threadStores, flushStores>>
      BY Zenon, <1>15 DEF flushStart, Special
    <2>2. QED BY Zenon, <2>1, UntouchedOrdered
  <1>16. CASE flushStop
    <2>0. SUFFICES ASSUME ~overlapped PROVE Ordered'
      BY <1>16 DEF flushStop, Ordered
    <2>1. thread = "idle" /\ thread' = "idle"
      BY Zenon, <1>16, <2>0 DEF flushStop, StopStep, stopStreamoff, stopMunmap, stopStore, Sites
    <2>2. CASE stopStreamoff
      <3>1. flusher' = "munmap" /\ queue'.on = FALSE
        BY <2>2, ZenonT(120) DEF stopStreamoff, StreamOff, PipelineTypeOK, Queue
      <3>2. QED BY <2>1, <3>1 DEF Ordered
    <2>3. CASE stopMunmap
      <3>1. ~queue.on /\ queue' = queue
        BY <2>0, <2>3 DEF stopMunmap, Ordered
      <3>2. \/ flusher' = "munmap"
            \/ flusher' = "stores" /\ flushStores' = {"mBufferCount", "mStreaming", "mState"}
        BY <2>3 DEF stopMunmap
      <3>3. QED BY <2>1, <3>1, <3>2, ZenonT(120) DEF Ordered
    <2>4. CASE stopStore
      <3>1. /\ queue.on = FALSE /\ mapped = {} /\ UNCHANGED <<queue, mapped>> /\ flusher = "stores"
            /\ "mBufferCount" \notin flushStores => mBufferCount = 0
            /\ "mStreaming" \notin flushStores => mStreaming = FALSE
            /\ "mState" \notin flushStores => mState = "OPENED"
        BY <2>0, <2>4 DEF stopStore, Ordered, Kept, PipelineTypeOK, Queue
      <3>2. PICK s \in flushStores :
              /\ mBufferCount' = IF s = "mBufferCount" THEN 0 ELSE mBufferCount
              /\ mStreaming' = IF s = "mStreaming" THEN FALSE ELSE mStreaming
              /\ mState' = IF s = "mState" THEN "OPENED" ELSE mState
              /\ flushStores' = flushStores \ {s}
              /\ flusher' = IF flushStores = {s} THEN "mark" ELSE flusher
        BY Zenon, <2>4 DEF stopStore
      <3>3. CASE flushStores = {s}
        <4>1. flusher' = "mark" /\ mBufferCount' = 0 /\ mStreaming' = FALSE /\ mState' = "OPENED"
          BY <3>1, <3>2, <3>3
        <4>2. 0 .. 0 - 1 = {}
          BY SMTT(120)
        <4>3. QED BY Zenon, <2>1, <3>1, <4>1, <4>2, RestOrdered DEF AtRest
      <3>4. CASE flushStores # {s}
        BY <2>1, <3>1, <3>2, <3>4, ZenonT(120) DEF Ordered
      <3>5. QED BY <3>3, <3>4, ZenonT(120)
    <2>5. QED BY <1>16, <2>2, <2>3, <2>4, ZenonT(120) DEF flushStop, StopStep
  <1>17. CASE flushMark \/ flushDrain
    <2>1. /\ overlapped => overlapped'
          /\ queue'.on = queue.on
          /\ thread' = thread \/ (thread \notin Special /\ thread' \notin Special)
          /\ flusher' = flusher \/ (flusher \notin {"munmap", "stores"} /\ flusher' \notin {"munmap", "stores"})
          /\ UNCHANGED <<mState, mStreaming, mBufferCount, mapped, threadStores, flushStores>>
      BY <1>17 DEF flushMark, flushDrain, markAllAsError, Special
    <2>2. QED BY <2>1, UntouchedOrdered, ZenonT(120)
  <1>18. CASE Driver
    <2>1. /\ overlapped => overlapped'
          /\ queue'.on = queue.on
          /\ thread' = thread \/ (thread \notin Special /\ thread' \notin Special)
          /\ flusher' = flusher \/ (flusher \notin {"munmap", "stores"} /\ flusher' \notin {"munmap", "stores"})
          /\ UNCHANGED <<mState, mStreaming, mBufferCount, mapped, threadStores, flushStores>>
      BY Zenon, <1>18 DEF Driver, driverFills, Special, PipelineTypeOK, Queue
    <2>2. QED BY Zenon, <2>1, UntouchedOrdered
  <1>19. CASE UNCHANGED vars
    <2>1. /\ overlapped => overlapped'
          /\ queue'.on = queue.on
          /\ thread' = thread \/ (thread \notin Special /\ thread' \notin Special)
          /\ flusher' = flusher \/ (flusher \notin {"munmap", "stores"} /\ flusher' \notin {"munmap", "stores"})
          /\ UNCHANGED <<mState, mStreaming, mBufferCount, mapped, threadStores, flushStores>>
      BY <1>19 DEF vars, Special
    <2>2. QED BY ZenonT(120), <2>1, UntouchedOrdered
  <1>20. QED
    BY Zenon, <1>1, <1>2, <1>3, <1>4, <1>5, <1>6, <1>7, <1>8, <1>9, <1>10, <1>11, <1>12, <1>13, <1>14,
       <1>15, <1>16, <1>17, <1>18, <1>19
       DEF Next, DeviceThread, PipelineStep, Request, Flush

\* The invariant holds when the device is opened for the first time.
LEMMA InitIInv ==
    ASSUME Init
    PROVE  IInv
  <1> USE DEF Init, PipelineInit
  <1>0. /\ 0 \in 0 .. BufferCount /\ 0 \in Frame /\ 0 \in 0 .. AfCaptures
        /\ 0 .. 0 - 1 = {} /\ DOMAIN NoContexts = {}
    BY HalAssumption DEF Frame, NoContexts
  <1>1. PipelineTypeOK
    BY Zenon, <1>0, QueueOperations DEF PipelineTypeOK
  <1>2. HalTypes
    BY Zenon, <1>0 DEF HalTypes
  <1>3. Sites /\ Kept /\ Tracked /\ CalledBack
    BY Zenon DEF Sites, Kept, Tracked, CalledBack, Configuring, StartSteps, CaptureSteps, InRequest,
           NoContexts
  <1>4. Ordered
    BY Zenon, <1>0 DEF Ordered, AtRest, ClosedQueue
  <1>5. QED BY <1>1, <1>2, <1>3, <1>4, ZenonT(120)

\* Every step of the device thread, of the pipeline and of flush() keeps the
\* invariant.
LEMMA NextIInv ==
    ASSUME IInv, [Next]_vars
    PROVE  IInv'
  BY PipelineTypesKept, HalTypesKept, SitesKept, KeptKept, OrderedKept, TrackedKept,
     CalledBackKept DEF IInv

\* IInv is an invariant of the device, with flush() in another thread and any
\* system call failing.
THEOREM DeviceInvariant == Spec => []IInv
  <1>1. Init => IInv
    BY InitIInv
  <1>2. IInv /\ [Next]_vars => IInv'
    BY NextIInv
  <1>3. QED BY <1>1, <1>2, PTL DEF Spec

\* Whatever fails and whatever was tried in between, flags, buffers, resolution
\* and queue of the pipeline agree with each other and with the last
\* configuration that configure_streams accepted.
THEOREM PipelineIsConsistent == Spec => []PipelineConsistent
  <1>1. IInv => PipelineConsistent
    <2> SUFFICES ASSUME IInv PROVE PipelineConsistent
      OBVIOUS
    <2>1. TypeOK
      BY DEF TypeOK, HalTypes
    <2>2. Quiet => ~Configuring
      BY ZenonT(120) DEF Quiet, Sites, StartSteps
    <2>3. FlagsAgree
      BY <2>2 DEF FlagsAgree, Quiet, Ordered, AtRest, Kept, PipelineTypeOK, HalTypes
    <2>4. NoMappingLeaked /\ PipelineMatchesStream
      BY DEF NoMappingLeaked, PipelineMatchesStream, Kept
    <2>5. QED BY <2>1, <2>3, <2>4 DEF PipelineConsistent
  <1>2. QED BY <1>1, DeviceInvariant, PTL

\* Every exit of process_capture_request takes its entry out of the tracker,
\* and configure_streams completes no frame a second time.
THEOREM RequestsAreTracked == Spec => []RequestsTracked
  <1>1. IInv => RequestsTracked
    BY DEF RequestsTracked, TrackerExact, NotCompletedTwice, Tracked
  <1>2. QED BY <1>1, DeviceInvariant, PTL

-----------------------------------------------------------------------------
(* The contract with the framework. *)

\* A step that neither begins nor ends a request and makes no callback.
LEMMA ContractStutters ==
    ASSUME InRequest' = InRequest, calls' = calls
    PROVE  UNCHANGED Contract!contractVars
  BY DEF Contract!contractVars

\* A step of the device thread inside process_capture_request is in a request.
LEMMA RequestSteps ==
    ASSUME IInv, Request
    PROVE  InRequest /\ asked' = None
  BY Zenon DEF Sites, Configuring, StartSteps, InRequest, Request, requestAf, requestAfCapture,
         requestAfCaptured, requestBuffer, requestRestart, requestRestarted, requestLock,
         requestCaptured, requestFlushed, requestRemove, requestShutter, requestError,
         requestNotify, requestResult

\* A refused request has made no callback: its call returns an error.
LEMMA Refuses ==
    ASSUME IInv, Request, thread \notin {"error", "result"}, calls' = calls
    PROVE  Contract!Next \/ UNCHANGED Contract!contractVars
  <1>1. InRequest /\ calls = <<>> /\ asked' = None
    BY RequestSteps DEF CalledBack
  <1>2. CASE thread' = "idle"
    <2>1. ~InRequest'
      BY <1>2 DEF InRequest
    <2>2. Contract!Refuse
      BY <1>1, <2>1 DEF Contract!Refuse
    <2>3. QED BY <2>2 DEF Contract!Next
  <1>3. CASE thread' # "idle"
    <2>1. InRequest'
      BY <1>1, <1>3 DEF InRequest
    <2>2. QED BY <1>1, <2>1 DEF Contract!contractVars
  <1>4. QED BY <1>2, <1>3

\* SHUTTER, ERROR_DEVICE and the result come in the order of the contract.
LEMMA CallsBack ==
    ASSUME IInv, requestShutter \/ requestError \/ requestResult
    PROVE  Contract!Next \/ UNCHANGED Contract!contractVars
  <1>1. InRequest /\ asked' = None
    BY RequestSteps DEF Request
  <1>2. CASE requestShutter
    <2>1. /\ thread = "shutter" /\ calls = <<>> /\ InRequest'
          /\ calls' = IF frameCaptured THEN Append(calls, "SHUTTER") ELSE calls
      BY <1>1, <1>2 DEF requestShutter, requestNotify, CalledBack, InRequest
    <2>2. CASE frameCaptured
      <3>1. calls' = <<"SHUTTER">>
        BY <2>1, <2>2
      <3>2. Contract!Notify("SHUTTER")
        BY <1>1, <2>1, <3>1 DEF Contract!Notify
      <3>3. QED BY <3>2 DEF Contract!Next
    <2>3. CASE ~frameCaptured
      BY <1>1, <2>1, <2>3 DEF Contract!contractVars
    <2>4. QED BY <2>2, <2>3
  <1>3. CASE requestError
    <2>1. /\ thread = "error" /\ calls = (IF frameCaptured THEN <<"SHUTTER">> ELSE <<>>) /\ InRequest'
          /\ calls' = IF ~frameFlushed /\ ~frameCaptured THEN Append(calls, "ERROR_DEVICE")
                      ELSE calls
      BY <1>1, <1>3 DEF requestError, requestNotify, CalledBack, InRequest
    <2>2. CASE ~frameFlushed /\ ~frameCaptured
      <3>1. calls = <<>> /\ calls' = <<"ERROR_DEVICE">>
        BY <2>1, <2>2
      <3>2. Contract!Notify("ERROR_DEVICE")
        BY <1>1, <2>1, <3>1 DEF Contract!Notify
      <3>3. QED BY <3>2 DEF Contract!Next
    <2>3. CASE ~(~frameFlushed /\ ~frameCaptured)
      BY <1>1, <2>1, <2>3 DEF Contract!contractVars
    <2>4. QED BY <2>2, <2>3
  <1>4. CASE requestResult
    <2> DEFINE status == IF frameCaptured /\ ~frameFlushed THEN "OK" ELSE "ERROR"
    <2>1. thread = "result" /\ ~InRequest' /\ calls' = Append(calls, status)
      BY <1>4 DEF requestResult, return, InRequest
    <2>2. status = "OK" => calls = <<"SHUTTER">>
      BY <1>1, <2>1 DEF CalledBack
    <2>3. status \in {"OK", "ERROR"}
      OBVIOUS
    <2> HIDE DEF status
    <2>4. Contract!Complete(status)
      BY <1>1, <2>1, <2>2 DEF Contract!Complete
    <2>5. QED BY <2>3, <2>4, ZenonT(120) DEF Contract!Next
  <1>5. QED BY <1>2, <1>3, <1>4

\* A new request is accepted: the tracker is empty, so the request is not
\* marked.
LEMMA Accepts ==
    ASSUME IInv, NewRequest
    PROVE  Contract!Accept
  <1>1. PICK t \in Settings, f \in Format : requestStart(t, f)
    BY DEF NewRequest
  <1>2. ~InRequest /\ DOMAIN mContexts = {} /\ asked = None
    BY Zenon, <1>1 DEF requestStart, InRequest, Tracked, Sites, Configuring, StartSteps
  <1>3. thread' = "af" /\ asked' = None /\ calls' = <<>>
    BY <1>1, <1>2 DEF requestStart, isError
  <1>4. InRequest'
    BY <1>3, ZenonT(120) DEF InRequest
  <1>5. QED BY <1>2, <1>3, <1>4 DEF Contract!Accept

\* Whatever flush() does beside it, every step of the device is a step of the
\* contract or makes no difference to it.
LEMMA StepImplements ==
    ASSUME IInv, [Next]_vars
    PROVE  [Contract!Next]_(Contract!contractVars)
  <1>1. CASE openCamera \/ initialize \/ closeDevice
    <2>1. UNCHANGED <<thread, asked, calls>>
      BY <1>1 DEF openCamera, initialize, closeDevice
    <2>2. QED BY <2>1, ContractStutters, ZenonT(120) DEF InRequest
  <1>2. CASE \E s \in Configurations : configure_streams(s)
    <2>1. PICK r \in Resolution : configurePipeline(r)
      BY <1>2, AsksResolution, ZenonT(120)
    <2>2. thread = "idle" /\ calls' = calls /\ (thread' = "idle" \/ asked' = r)
      BY <2>1 DEF configurePipeline
    <2>3. QED BY <2>2, ContractStutters DEF InRequest
  <1>3. CASE NewRequest
    BY <1>3, Accepts DEF Contract!Next
  <1>4. CASE PipelineStep /\ UNCHANGED halVars
    <2>1. calls' = calls /\ asked' = asked /\ thread # "idle" /\ thread' # "idle"
      BY Zenon, <1>4 DEF PipelineStep, openDevice, configureFormat, configureMap, configureIsp, startQbuf,
         startStreamon, startStore, capturePoll, captureDqbuf, captureIndex, captureProcess,
         captureRequeue, Return, goto
    <2>2. QED BY <2>1, ContractStutters DEF InRequest
  <1>5. CASE configureDone
    <2>1. asked # None /\ thread' = "idle" /\ calls' = calls
      BY <1>5 DEF configureDone
    <2>2. QED BY <2>1, ContractStutters, ZenonT(120) DEF InRequest
  <1>6. CASE Request
    <2>1. CASE requestShutter \/ requestError \/ requestResult
      BY <2>1, CallsBack
    <2>2. CASE ~(requestShutter \/ requestError \/ requestResult)
      <3>1. calls' = calls /\ thread \notin {"error", "result"}
        BY Zenon, <1>6, <2>2 DEF Request, requestAf, requestAfCapture, requestAfCaptured, requestBuffer,
           requestRestart, requestRestarted, requestLock, requestCaptured, requestFlushed,
           requestRemove
      <3>2. QED BY <1>6, <3>1, Refuses
    <2>3. QED BY <2>1, <2>2
  <1>7. CASE flushStart \/ Flush \/ Driver
    <2>1. UNCHANGED <<thread, asked, calls>>
      BY ZenonT(120), <1>7 DEF flushStart, Flush, flushStop, StopStep, stopStreamoff, stopMunmap, stopStore,
         flushMark, flushDrain, Driver, driverFills
    <2>2. QED BY <2>1, ContractStutters DEF InRequest
  <1>8. CASE UNCHANGED vars
    BY <1>8, ContractStutters DEF vars, InRequest
  <1>9. QED
    BY <1>1, <1>2, <1>3, <1>4, <1>5, <1>6, <1>7, <1>8 DEF Next, DeviceThread

\* process_capture_request keeps the contract of the framework, with flush() in
\* another thread at any of its steps and any system call failing: one
\* completion after the shutter or an error notification, or a refusal without
\* a callback.
THEOREM DeviceImplementsContract == Spec => ImplementsContract
  <1>1. Init => Contract!Init
    BY DEF Init, Contract!Init, InRequest
  <1>2. IInv /\ [Next]_vars => [Contract!Next]_(Contract!contractVars)
    BY StepImplements, ZenonT(120)
  <1>3. QED BY <1>1, <1>2, DeviceInvariant, PTL DEF Spec, ImplementsContract, Contract!Spec

-----------------------------------------------------------------------------
(* No buffer is lost. *)

\* The buffer that captureFrame() has dequeued and not yet queued again.
InHand == IF thread \in {"index", "process", "requeue"} THEN {buf} ELSE {}

\* Until a flush(), and without a fault, a started pipeline goes on streaming,
\* and every mapped buffer is with the driver, in the hand of captureFrame() or
\* still to be queued by startStreaming().
Returned ==
    /\ flushes \in Nat
    /\ flushes = 0 =>
         /\ flusher = "idle"
         /\ thread \in StartSteps => Configuring
         /\ pipeline => mState = "STREAMING" /\ queue.allocated
         /\ thread \in {"open", "format", "map"} => queue.queued \cup queue.done = {}
         /\ thread \in {"map", "qbuf", "streamon", "stores", "started"} => queue.allocated
         /\ thread = "started" => mState = "STREAMING" /\ ret = "OK"
         /\ thread = "qbuf" => queue.queued \cup queue.done = 0 .. buf - 1
         /\ thread \notin {"open", "format", "map", "qbuf"} =>
              mapped \subseteq queue.queued \cup queue.done \cup InHand
         /\ InHand \cap (queue.queued \cup queue.done) = {}
         /\ queue.queued \cap queue.done = {}

RInv == IInv /\ Returned

\* Steps where the device thread is elsewhere than in the pipeline's own steps
\* that move a buffer.
Moving == {"open", "format", "map", "index", "process", "requeue"} \cup StartSteps

\* A step that moves no buffer.
LEMMA UntouchedReturned ==
    ASSUME Returned, flushes = 0, thread \notin Moving, thread' \notin Moving,
           pipeline' => pipeline, UNCHANGED <<mState, mapped, queue, flusher, flushes>>
    PROVE  Returned'
  BY ZenonT(120) DEF Returned, InHand, Moving, StartSteps, Configuring

\* A pipeline that has been closed has no buffer to lose.
LEMMA ClosedReturned ==
    ASSUME flushes' = 0, flusher' = "idle", thread' \in {"idle", "open"}, ~pipeline',
           mapped' = {}, queue' = ClosedQueue
    PROVE  Returned'
  BY DEF Returned, InHand, StartSteps, ClosedQueue

\* What the operations on the queue do to the buffers in it.
LEMMA QueueMoves ==
    ASSUME queue \in Queue
    PROVE  /\ queue' = [queue EXCEPT !.allocated = TRUE] =>
                queue'.allocated /\ queue'.queued = queue.queued /\ queue'.done = queue.done
           /\ queue' = [queue EXCEPT !.on = TRUE] =>
                /\ queue'.allocated = queue.allocated
                /\ queue'.queued = queue.queued /\ queue'.done = queue.done
           /\ \A i \in Buffer :
                /\ Qbuf(i) => /\ queue'.allocated = queue.allocated
                              /\ queue'.queued = queue.queued \cup {i}
                              /\ queue'.done = queue.done
                /\ queue' = [queue EXCEPT !.done = @ \ {i}] =>
                     /\ queue'.allocated = queue.allocated
                     /\ queue'.queued = queue.queued /\ queue'.done = queue.done \ {i}
                /\ driverFills(i) => /\ queue'.allocated = queue.allocated
                                     /\ queue'.queued = queue.queued \ {i}
                                     /\ queue'.done = queue.done \cup {i}
  BY Zenon DEF Queue, Qbuf, driverFills

\* configure() and startStreaming() hand every buffer they map to the driver.
LEMMA StartReturned ==
    ASSUME RInv, ~Faults, flushes = 0, UNCHANGED halVars,
           \/ openDevice \/ configureFormat \/ configureMap \/ configureIsp
           \/ startQbuf \/ startStreamon \/ startStore
    PROVE  Returned'
  <1> USE DEF RInv
  <1>1. /\ Configuring /\ Configuring' /\ ~pipeline' /\ flusher' = "idle" /\ flushes' = 0
        /\ ~overlapped /\ queue \in Queue /\ queue.queued \cap queue.done = {}
    BY ZenonT(120) DEF Returned, Sites, Configuring, StartSteps, PipelineTypeOK, openDevice, configureFormat,
       configureMap, configureIsp, startQbuf, startStreamon, startStore
  <1>2. CASE openDevice
    <2>1. thread' = "format" /\ queue' = queue /\ queue.queued \cup queue.done = {}
      BY <1>2, ZenonT(120) DEF openDevice, goto, Returned
    <2>2. QED BY <1>1, <2>1, ZenonT(120) DEF Returned, InHand
  <1>3. CASE configureFormat
    <2>1. thread' = "map" /\ queue' = [queue EXCEPT !.allocated = TRUE]
      BY <1>3 DEF configureFormat, goto
    <2>2. queue.queued \cup queue.done = {}
      BY <1>3, ZenonT(120) DEF configureFormat, Returned
    <2>3. QED BY <1>1, <2>1, <2>2, QueueMoves DEF Returned, InHand, StartSteps
  <1>4. CASE configureMap
    <2>1. thread' = "map" /\ queue' = queue /\ queue.queued \cup queue.done = {} /\ queue.allocated
      BY <1>4, ZenonT(120) DEF configureMap, Returned
    <2>2. QED BY <1>1, <2>1, ZenonT(120) DEF Returned, InHand
  <1>5. CASE configureIsp
    <2>1. /\ thread' = "qbuf" /\ queue' = queue /\ buf' = 0
          /\ queue.queued \cup queue.done = {} /\ queue.allocated
      BY <1>5, ZenonT(120) DEF configureIsp, goto, Returned
    <2>2. 0 .. 0 - 1 = {}
      OBVIOUS
    <2>3. QED BY <1>1, <2>1, <2>2, ZenonT(120) DEF Returned, InHand
  <1>6. CASE startQbuf
    <2>0. buf \in Nat /\ mBufferCount \in Nat /\ mapped \subseteq 0 .. mBufferCount - 1
      BY DEF PipelineTypeOK, Kept
    <2>1. /\ thread = "qbuf" /\ queue.allocated /\ queue.queued \cup queue.done = 0 .. buf - 1
          /\ mapped' = mapped
      BY <1>6, ZenonT(120) DEF startQbuf, Returned
    <2>2. CASE buf >= mBufferCount
      <3>0. ~(buf < mBufferCount)
        BY <2>0, <2>2
      <3>1. thread' = "streamon" /\ queue' = queue
        BY <1>6, <3>0, Zenon DEF startQbuf, goto
      <3>2. mapped \subseteq queue.queued \cup queue.done
        BY <2>0, <2>1, <2>2, SMTT(120)
      <3>3. QED BY <1>1, <2>1, <3>1, <3>2, ZenonT(120) DEF Returned, InHand
    <2>3. CASE buf < mBufferCount
      <3>1. CanQbuf(buf) /\ buf \in Buffer
        BY <2>0, <2>1, <2>3 DEF CanQbuf, PipelineTypeOK, Buffer
      <3>0. ~(buf >= mBufferCount)
        BY <2>0, <2>3
      <3>2. thread' = "qbuf" /\ Qbuf(buf) /\ buf' = buf + 1
        BY <1>6, <2>1, <3>0, <3>1, Zenon DEF startQbuf
      <3>3. /\ queue'.queued = queue.queued \cup {buf} /\ queue'.done = queue.done
            /\ queue'.allocated = queue.allocated
        BY <1>1, <3>1, <3>2, QueueMoves, ZenonT(120)
      <3>4. queue'.queued \cup queue'.done = 0 .. buf' - 1
        <4>1. 0 .. (buf + 1) - 1 = 0 .. buf - 1 \cup {buf}
          BY <2>0, SMTT(120)
        <4>2. QED BY <2>1, <3>2, <3>3, <4>1
      <3>5. queue'.queued \cap queue'.done = {}
        BY <1>1, <3>1, <3>3 DEF CanQbuf
      <3>6. QED BY <1>1, <2>1, <3>2, <3>3, <3>4, <3>5, ZenonT(120) DEF Returned, InHand
    <2>4. QED BY <2>0, <2>2, <2>3, SMTT(120)
  <1>7. CASE startStreamon
    <2>1. queue.allocated /\ mapped \subseteq queue.queued \cup queue.done
      BY <1>7 DEF startStreamon, Returned, InHand
    <2>2. thread' = "stores" /\ queue' = [queue EXCEPT !.on = TRUE] /\ mapped' = mapped
      BY <1>7, <2>1, ZenonT(120) DEF startStreamon, goto
    <2>3. QED BY <1>1, <2>1, <2>2, QueueMoves DEF Returned, InHand
  <1>8. CASE startStore
    <2>1. /\ thread = "stores" /\ queue.allocated /\ mapped \subseteq queue.queued \cup queue.done
          /\ UNCHANGED <<mapped, queue>>
      BY <1>8, ZenonT(120) DEF startStore, Returned, InHand
    <2>2. PICK s \in threadStores :
            /\ mState' = IF s = "mState" THEN "STREAMING" ELSE mState
            /\ IF threadStores = {s} THEN Return("started", "OK") ELSE UNCHANGED <<thread, ret>>
      BY <1>8, ZenonT(120) DEF startStore
    <2>3. threadStores = {s} => mState' = "STREAMING"
      <3>1. "mState" \notin threadStores => mState = "STREAMING"
        BY <1>1, <2>1, ZenonT(120) DEF Ordered
      <3>2. QED BY <2>2, <3>1, ZenonT(120)
    <2>4. \/ thread' = "stores"
          \/ thread' = "started" /\ ret' = "OK" /\ mState' = "STREAMING"
      BY <2>1, <2>2, <2>3, ZenonT(120) DEF Return
    <2>5. QED BY <1>1, <2>1, <2>4, ZenonT(120) DEF Returned, InHand
  <1>9. QED BY <1>2, <1>3, <1>4, <1>5, <1>6, <1>7, <1>8

\* captureFrame() and captureForAf() give the buffer back that they took.
LEMMA CaptureReturned ==
    ASSUME RInv, ~Faults, flushes = 0, UNCHANGED halVars,
           \/ capturePoll \/ captureDqbuf \/ captureIndex \/ captureProcess \/ captureRequeue
    PROVE  Returned'
  <1> USE DEF RInv
  <1>1. /\ flusher' = "idle" /\ flushes' = 0 /\ queue \in Queue
        /\ queue.queued \cap queue.done = {} /\ UNCHANGED <<pipeline, mState, mapped>>
        /\ pipeline /\ mState = "STREAMING" /\ queue.allocated
    BY ZenonT(120) DEF Returned, PipelineTypeOK, capturePoll, captureDqbuf, captureIndex, captureProcess,
       captureRequeue, Sites, Configuring, StartSteps, CaptureSteps
  <1>2. CASE capturePoll
    <2>1. thread \notin Moving /\ thread' \notin Moving /\ queue' = queue /\ flusher' = flusher
      BY <1>2, ZenonT(120) DEF capturePoll, goto, Return, Moving, StartSteps
    <2>2. QED BY <1>1, <2>1, UntouchedReturned, ZenonT(120)
  <1>3. CASE captureDqbuf
    <2>1. mapped \subseteq queue.queued \cup queue.done
      BY <1>3, ZenonT(120) DEF captureDqbuf, Returned, InHand
    <2>2. CASE thread' = "captured" /\ queue' = queue
      BY <1>1, <2>1, <2>2, ZenonT(120) DEF Returned, InHand, StartSteps
    <2>3. CASE \E i \in queue.done : /\ queue' = [queue EXCEPT !.done = @ \ {i}]
                                     /\ thread' = "index" /\ buf' = i
      <3>1. PICK i \in queue.done : /\ queue' = [queue EXCEPT !.done = @ \ {i}]
                                    /\ thread' = "index" /\ buf' = i
        BY <2>3, ZenonT(120)
      <3>2. i \in Buffer
        BY <1>1 DEF Queue
      <3>3. /\ queue'.queued = queue.queued /\ queue'.done = queue.done \ {i}
            /\ queue'.allocated = queue.allocated
        BY Zenon, <1>1, <3>1, <3>2, QueueMoves
      <3>4. InHand' = {i}
        BY <3>1, ZenonT(120) DEF InHand
      <3>5. /\ mapped' \subseteq queue'.queued \cup queue'.done \cup InHand'
            /\ InHand' \cap (queue'.queued \cup queue'.done) = {}
            /\ queue'.queued \cap queue'.done = {}
        BY <1>1, <2>1, <3>3, <3>4, ZenonT(120)
      <3>6. QED BY <1>1, <3>1, <3>3, <3>5 DEF Returned, StartSteps
    <2>4. QED BY <1>3, <2>2, <2>3 DEF captureDqbuf, goto, Return
  <1>4. CASE captureIndex \/ captureProcess
    <2>1. /\ InHand = {buf} /\ UNCHANGED <<queue, buf>>
          /\ mapped \subseteq queue.queued \cup queue.done \cup {buf}
          /\ {buf} \cap (queue.queued \cup queue.done) = {}
      BY <1>4, ZenonT(120) DEF captureIndex, captureProcess, Returned, InHand
    <2>2. CASE thread' \in {"process", "requeue"}
      BY <1>1, <2>1, <2>2, ZenonT(120) DEF Returned, InHand, StartSteps
    <2>3. CASE thread' = "captured" /\ buf >= mBufferCount
      <3>1. buf \notin mapped
        BY <2>3, SMTT(120) DEF Kept, PipelineTypeOK
      <3>2. QED BY <1>1, <2>1, <2>3, <3>1, ZenonT(120) DEF Returned, InHand, StartSteps
    <2>4. QED BY <1>4, <2>2, <2>3, ZenonT(120) DEF captureIndex, captureProcess, goto, Return
  <1>5. CASE captureRequeue
    <2>1. /\ buf \in Buffer /\ thread = "requeue"
          /\ mapped \subseteq queue.queued \cup queue.done \cup {buf}
          /\ {buf} \cap (queue.queued \cup queue.done) = {}
      BY <1>5, ZenonT(120) DEF captureRequeue, Returned, InHand, Sites
    <2>2. CanQbuf(buf)
      BY <1>1, <2>1, ZenonT(120) DEF CanQbuf
    <2>3. Qbuf(buf) /\ thread' = "captured"
      BY <1>5, <2>2 DEF captureRequeue, goto
    <2>4. /\ queue'.queued = queue.queued \cup {buf} /\ queue'.done = queue.done
          /\ queue'.allocated = queue.allocated
      BY Zenon, <1>1, <2>1, <2>3, QueueMoves
    <2>5. QED BY <1>1, <2>1, <2>3, <2>4, ZenonT(120) DEF Returned, InHand, StartSteps
  <1>6. QED BY <1>2, <1>3, <1>4, <1>5, ZenonT(120)

\* Every step keeps the buffers where they can be found.
LEMMA ReturnedKept ==
    ASSUME RInv, ~Faults, [Next]_vars
    PROVE  Returned'
  <1> USE DEF RInv
  <1>0. /\ flushes' \in Nat
        /\ flushes' = 0 => flushes = 0 /\ ~flushStart
    <2>1. flushes' = flushes \/ (flushStart /\ flushes' = flushes + 1)
      BY ZenonT(120) DEF Next, vars, openCamera, initialize, closeDevice, configure_streams, configurePipeline,
         NewRequest, requestStart, DeviceThread, configureDone, Request, requestAf,
         requestAfCapture, requestAfCaptured, requestBuffer, requestRestart, requestRestarted,
         requestLock, requestCaptured, requestFlushed, requestRemove, requestShutter,
         requestError, requestNotify, requestResult, flushStart, Flush, flushStop, flushMark,
         flushDrain, Driver
    <2>2. flushes \in Nat /\ (flushStart => flushes' = flushes + 1)
      BY ZenonT(120) DEF Returned, flushStart
    <2>3. QED BY <2>1, <2>2, SMTT(120)
  <1>1. CASE flushes' # 0
    BY <1>0, <1>1, ZenonT(120) DEF Returned
  <1>2. CASE flushes' = 0
    <2>0. flushes = 0 /\ flusher = "idle" /\ queue \in Queue /\ UNCHANGED flushes
      BY <1>0, <1>2, ZenonT(120) DEF Returned, PipelineTypeOK
    <2>1. CASE openCamera \/ initialize
      <3>1. thread = "idle" /\ UNCHANGED <<pipelineVars, flushes>> /\ (pipeline' => pipeline)
        <4>1. device # "initialized" => thread = "idle"
          BY DEF Sites
        <4>2. /\ device \in {"closed", "open"} /\ UNCHANGED <<pipelineVars, flushes>>
              /\ pipeline' => pipeline
          BY <2>1, SMTT(120) DEF openCamera, initialize
        <4>3. QED BY <4>1, <4>2
      <3>2. QED BY <2>0, <3>1, UntouchedReturned, ZenonT(120) DEF Moving, StartSteps
    <2>2. CASE closeDevice \/ \E s \in Configurations : configure_streams(s)
      <3>1. /\ mapped \ 0 .. mBufferCount - 1 = {}
            /\ thread = "idle" /\ ~pipeline => mapped = {} /\ queue = ClosedQueue
        BY Zenon DEF Kept, Sites, Configuring, StartSteps
      <3>2. CASE closeDevice
        <4>1. mapped' = {} /\ queue' = ClosedQueue
          BY <3>1, <3>2 DEF closeDevice, PipelineClosed
        <4>2. QED BY <2>0, <3>2, <4>1, ClosedReturned, ZenonT(120) DEF closeDevice
      <3>3. CASE \E s \in Configurations : configure_streams(s)
        <4>1. PICK r \in Resolution : configurePipeline(r)
          BY <3>3, AsksResolution, ZenonT(120)
        <4>2. CASE SameConfig(r)
          <5>1. thread = "idle" /\ UNCHANGED <<pipelineVars, pipeline, flushes>>
            BY <4>1, <4>2, ZenonT(120) DEF configurePipeline
          <5>2. QED BY <2>0, <5>1, UntouchedReturned, ZenonT(120) DEF Moving, StartSteps
        <4>3. CASE ~SameConfig(r)
          <5>1. mapped' = {} /\ queue' = ClosedQueue
            BY <3>1, <4>1, <4>3, ZenonT(120) DEF configurePipeline, PipelineClosed
          <5>2. QED BY <2>0, <4>1, <4>3, <5>1, ClosedReturned, ZenonT(120) DEF configurePipeline
        <4>4. QED BY <4>2, <4>3
      <3>4. QED BY <2>2, <3>2, <3>3
    <2>3. CASE NewRequest
      <3>1. /\ thread = "idle" /\ thread' \in {"idle", "af"}
            /\ UNCHANGED <<mState, mapped, queue, flusher, flushes, pipeline>>
        BY <2>3, ZenonT(120) DEF NewRequest, requestStart
      <3>2. QED BY <2>0, <3>1, UntouchedReturned, ZenonT(120) DEF Moving, StartSteps
    <2>4. CASE PipelineStep /\ UNCHANGED halVars
      BY <2>0, <2>4, StartReturned, CaptureReturned, ZenonT(120) DEF PipelineStep
    <2>5. CASE configureDone
      <3>1. /\ thread = "started" /\ thread' = "idle" /\ flusher' = "idle" /\ ret = "OK"
            /\ mState = "STREAMING" /\ queue.allocated
            /\ mapped \subseteq queue.queued \cup queue.done
            /\ queue.queued \cap queue.done = {}
        BY <2>0, <2>5, ZenonT(120) DEF configureDone, Returned, InHand
      <3>2. UNCHANGED <<members, queue>>
        BY <2>5, <3>1, ZenonT(120) DEF configureDone
      <3>3. QED BY <2>0, <3>1, <3>2, ZenonT(120) DEF Returned, InHand, StartSteps
    <2>6. CASE Request
      <3>1. thread # "started" /\ ~(thread = "restart" /\ pipeline /\ mState = "OPENED")
        BY <2>0, <2>6, RequestSteps, ZenonT(120) DEF Returned, Configuring, StartSteps, InRequest
      <3>2. /\ thread \notin Moving /\ thread' \notin Moving
            /\ UNCHANGED <<mState, mapped, queue, flusher, flushes, pipeline>>
        BY ZenonT(120), <2>6, <3>1 DEF Moving, StartSteps, Request, requestAf, requestAfCapture,
           requestAfCaptured, requestBuffer, requestRestart, requestRestarted, requestLock,
           requestCaptured, requestFlushed, requestRemove, requestShutter, requestError,
           requestNotify, requestResult, return, Return
      <3>3. QED BY <2>0, <3>2, UntouchedReturned, ZenonT(120)
    <2>7. CASE Flush
      BY <2>0, <2>7, ZenonT(120) DEF Flush, flushStop, StopStep, stopStreamoff, stopMunmap, stopStore,
         flushMark, flushDrain
    <2>8. CASE Driver
      <3>1. PICK i \in Buffer : driverFills(i)
        BY <2>8 DEF Driver
      <3>2. /\ queue'.queued = queue.queued \ {i} /\ queue'.done = queue.done \cup {i}
            /\ queue'.allocated = queue.allocated /\ i \in queue.queued
        BY ZenonT(120), <2>0, <3>1, QueueMoves DEF driverFills
      <3>3. /\ queue'.queued \cup queue'.done = queue.queued \cup queue.done
            /\ queue.queued \cap queue.done = {} => queue'.queued \cap queue'.done = {}
        BY <3>2, ZenonT(120)
      <3>4. UNCHANGED <<thread, asked, buf, ret, mState, mapped, flusher, flushes, pipeline>>
        BY <2>8, <3>1, ZenonT(120) DEF Driver, driverFills
      <3>5. InHand' = InHand /\ Configuring' = Configuring
        BY <3>4, ZenonT(120) DEF InHand, Configuring
      <3>6. QED BY Zenon, <2>0, <3>2, <3>3, <3>4, <3>5 DEF Returned
    <2>9. CASE UNCHANGED vars
      BY <2>9, ZenonT(120) DEF vars, Returned, InHand, Configuring
    <2>10. QED
      BY <1>0, <1>2, <2>1, <2>2, <2>3, <2>4, <2>5, <2>6, <2>7, <2>8, <2>9, ZenonT(120) DEF Next, DeviceThread
  <1>3. QED BY <1>1, <1>2

\* Until a flush(), and if no system call fails, every mapped buffer is back
\* with the driver between calls, for every number of buffers and of captures.
THEOREM BuffersAreReturned ==
    ASSUME ~Faults
    PROVE  Spec => []BuffersReturned
  <1>1. Init => RInv
    <2> SUFFICES ASSUME Init PROVE RInv
      OBVIOUS
    <2>1. /\ flushes = 0 /\ flusher = "idle" /\ thread = "idle" /\ ~pipeline /\ mapped = {}
          /\ queue = ClosedQueue
      BY ZenonT(120) DEF Init, PipelineInit
    <2>2. Returned
      BY <2>1 DEF Returned, InHand, ClosedQueue, StartSteps
    <2>3. QED BY <2>2, InitIInv DEF RInv
  <1>2. RInv /\ [Next]_vars => RInv'
    BY NextIInv, ReturnedKept, ZenonT(120) DEF RInv
  <1>3. RInv => BuffersReturned
    BY DEF RInv, Returned, InHand, BuffersReturned, Quiet
  <1>4. QED BY <1>1, <1>2, <1>3, PTL DEF Spec
=============================================================================
