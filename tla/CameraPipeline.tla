---------------------------- MODULE CameraPipeline --------------------------
(***************************************************************************)
(* The class CameraPipeline (camera/CameraPipeline.cpp) on top of a V4L2   *)
(* capture queue.  The class has no lock.  One thread of the framework     *)
(* makes the calls of the device (thread); flush() runs stopStreaming() in *)
(* another one.  Every method is split into its system calls and its       *)
(* stores to shared members.                                               *)
(*                                                                         *)
(* The V4L2 queue is external: it is modelled from the calls the class     *)
(* makes (REQBUFS, QBUF, DQBUF, STREAMON, STREAMOFF, poll).                *)
(***************************************************************************)
EXTENDS Integers

CONSTANTS BufferCount,  \* buffers the driver grants (2 are asked for)
          Resolution,   \* sizes of streams
          None,         \* no value
          Faults,       \* whether system calls may fail for reasons of their own
          SlowDriver    \* whether the six polls of captureFrame() may time out

ASSUME BufferCountAssumption == BufferCount \in 2 .. 4
ASSUME ResolutionAssumption == None \notin Resolution
ASSUME EnvironmentAssumption == Faults \in BOOLEAN /\ SlowDriver \in BOOLEAN

Buffer == 0 .. BufferCount - 1

VARIABLES
    mState, mStreaming, mBufferCount,
    mapped,      \* buffers whose mBuffers[i].start is not null
    mConfig,     \* the resolution of the last configure()
    queue,       \* the V4L2 queue
    thread,      \* step of the framework's device thread
    asked,       \* the resolution its call of configure_streams asks for
    buf,         \* its buffer index
    ret,         \* result of its last call of the pipeline
    threadStores,\* stores of startStreaming() still to happen
    flusher,     \* step of the thread in flush()
    flushStores  \* stores of stopStreaming() still to happen

members == <<mState, mStreaming, mBufferCount, mapped, mConfig>>
threadVars == <<thread, asked, buf, ret, threadStores>>
flushVars == <<flusher, flushStores>>
pipelineVars == <<members, queue, threadVars, flushVars>>

(***************************************************************************)
(* The V4L2 queue: whether REQBUFS has allocated the buffers, and which of *)
(* them the driver may fill (queued) or has filled (done).  The others     *)
(* belong to the program.                                                  *)
(***************************************************************************)
Queue == [allocated : BOOLEAN, on : BOOLEAN, queued : SUBSET Buffer, done : SUBSET Buffer]

ClosedQueue == [allocated |-> FALSE, on |-> FALSE, queued |-> {}, done |-> {}]
CanQbuf(i) == queue.allocated /\ i \notin queue.queued \cup queue.done
Qbuf(i) == queue' = [queue EXCEPT !.queued = @ \cup {i}]
StreamOff == queue' = [queue EXCEPT !.on = FALSE, !.queued = {}, !.done = {}]
PollError == ~queue.on \/ queue.queued \cup queue.done = {}

driverFills(i) ==
    /\ queue.on /\ i \in queue.queued
    /\ queue' = [queue EXCEPT !.queued = @ \ {i}, !.done = @ \cup {i}]
    /\ UNCHANGED <<members, threadVars, flushVars>>

ThreadStep == {"open", "format", "map", "qbuf", "streamon", "stores", "started",
               "poll", "dqbuf", "index", "process", "requeue", "captured"}

PipelineTypeOK ==
    /\ mState \in {"CLOSED", "OPENED", "STREAMING"}
    /\ mStreaming \in BOOLEAN
    /\ mBufferCount \in {0, BufferCount}
    /\ mapped \subseteq Buffer
    /\ mConfig \in Resolution \cup {None}
    /\ queue \in Queue
    /\ asked \in Resolution \cup {None}
    /\ buf \in 0 .. BufferCount
    /\ ret \in {"OK", "EAGAIN", "ERROR"}
    /\ threadStores \subseteq {"mStreaming", "mState"}
    /\ flusher \in {"idle", "streamoff", "munmap", "stores", "mark", "drain"}
    /\ flushStores \subseteq {"mBufferCount", "mStreaming", "mState"}

PipelineInit ==
    /\ mState = "CLOSED" /\ mStreaming = FALSE /\ mBufferCount = 0
    /\ mapped = {} /\ mConfig = None
    /\ queue = ClosedQueue
    /\ asked = None /\ buf = 0 /\ ret = "OK" /\ threadStores = {}
    /\ flusher = "idle" /\ flushStores = {}

\* close() and delete; no other call of the pipeline is running.  A buffer
\* beyond mBufferCount stays mapped for ever.
PipelineClosed ==
    /\ mState' = "CLOSED" /\ mStreaming' = FALSE /\ mBufferCount' = 0
    /\ mapped' = mapped \ 0 .. mBufferCount - 1 /\ mConfig' = None
    /\ queue' = ClosedQueue

goto(pc) == thread' = pc
Return(pc, r) == thread' = pc /\ ret' = r
-----------------------------------------------------------------------------
(* open() and configure(), called one after the other *)

openDevice ==
    /\ thread = "open"
    /\ \/ mState' = "OPENED" /\ goto("format") /\ UNCHANGED ret
       \/ Faults /\ Return("started", "ERROR") /\ UNCHANGED mState
    /\ UNCHANGED <<mStreaming, mBufferCount, mapped, mConfig, queue, asked, buf, threadStores, flushVars>>

\* S_FMT and REQBUFS, which may grant too few buffers.
configureFormat ==
    /\ thread = "format"
    /\ mConfig' = asked
    /\ \/ /\ queue' = [queue EXCEPT !.allocated = TRUE]
          /\ mBufferCount' = BufferCount
          /\ goto("map") /\ buf' = 0
          /\ UNCHANGED ret
       \/ /\ Faults
          /\ Return("started", "ERROR")
          /\ UNCHANGED <<queue, mBufferCount, buf>>
    /\ UNCHANGED <<mState, mStreaming, mapped, asked, threadStores, flushVars>>

configureMap_noRollback ==
    /\ thread = "map" /\ buf < mBufferCount
    /\ \/ mapped' = mapped \cup {buf} /\ buf' = buf + 1 /\ UNCHANGED <<mBufferCount, thread, ret>>
       \/ /\ Faults
          /\ mBufferCount' = 0
          /\ Return("started", "ERROR")
          /\ UNCHANGED <<buf, mapped>>
    /\ UNCHANGED <<mState, mStreaming, mConfig, queue, asked, threadStores, flushVars>>

\* QUERYBUF and mmap of one buffer; a failure unmaps the ones before it.
configureMap ==
    /\ thread = "map" /\ buf < mBufferCount
    /\ \/ mapped' = mapped \cup {buf} /\ buf' = buf + 1 /\ UNCHANGED <<mBufferCount, thread, ret>>
       \/ /\ Faults
          /\ mapped' = mapped \ 0 .. buf - 1 /\ mBufferCount' = 0
          /\ Return("started", "ERROR")
          /\ UNCHANGED buf
    /\ UNCHANGED <<mState, mStreaming, mConfig, queue, asked, threadStores, flushVars>>

\* The demosaicing and colour conversion stages, then startStreaming().
configureIsp ==
    /\ thread = "map" /\ buf >= mBufferCount
    /\ \/ goto("qbuf") /\ buf' = 0 /\ UNCHANGED ret
       \/ Faults /\ Return("started", "ERROR") /\ UNCHANGED buf
    /\ UNCHANGED <<members, queue, asked, threadStores, flushVars>>
-----------------------------------------------------------------------------
(* startStreaming(): one QBUF per buffer, STREAMON, then the stores, which *)
(* no lock or barrier orders.                                              *)

startQbuf_none ==
    /\ thread = "qbuf"
    /\ goto("streamon")
    /\ UNCHANGED <<members, queue, asked, buf, ret, threadStores, flushVars>>

startQbuf ==
    /\ thread = "qbuf"
    /\ \/ buf >= mBufferCount /\ goto("streamon") /\ UNCHANGED <<queue, buf, ret>>
       \/ /\ buf < mBufferCount /\ CanQbuf(buf)
          /\ Qbuf(buf) /\ buf' = buf + 1
          /\ UNCHANGED <<thread, ret>>
       \/ /\ buf < mBufferCount /\ (Faults \/ ~CanQbuf(buf))
          /\ Return("started", "ERROR")
          /\ UNCHANGED <<queue, buf>>
    /\ UNCHANGED <<members, asked, threadStores, flushVars>>

startStreamon ==
    /\ thread = "streamon"
    /\ \/ /\ queue.allocated
          /\ queue' = [queue EXCEPT !.on = TRUE]
          /\ goto("stores") /\ threadStores' = {"mStreaming", "mState"}
          /\ UNCHANGED ret
       \/ /\ Faults \/ ~queue.allocated
          /\ Return("started", "ERROR")
          /\ UNCHANGED <<queue, threadStores>>
    /\ UNCHANGED <<members, asked, buf, flushVars>>

startStore ==
    /\ thread = "stores"
    /\ \E s \in threadStores :
         /\ mStreaming' = IF s = "mStreaming" THEN TRUE ELSE mStreaming
         /\ mState' = IF s = "mState" THEN "STREAMING" ELSE mState
         /\ threadStores' = threadStores \ {s}
         /\ IF threadStores = {s} THEN Return("started", "OK") ELSE UNCHANGED <<thread, ret>>
    /\ UNCHANGED <<mBufferCount, mapped, mConfig, queue, asked, buf, flushVars>>
-----------------------------------------------------------------------------
(* captureFrame() and captureForAf(): poll, DQBUF, use of the mapped       *)
(* buffer, QBUF.  The first test of mState is made by the callers' steps.  *)

capturePoll_retry ==
    /\ thread = "poll"
    /\ \/ queue.done # {} /\ goto("dqbuf") /\ UNCHANGED ret
       \/ PollError /\ UNCHANGED <<thread, ret>>
       \/ SlowDriver /\ queue.done = {} /\ Return("captured", "EAGAIN")
    /\ UNCHANGED <<members, queue, asked, buf, threadStores, flushVars>>

capturePoll ==
    /\ thread = "poll"
    /\ \/ queue.done # {} /\ goto("dqbuf") /\ UNCHANGED ret
       \/ /\ PollError \/ (SlowDriver /\ queue.done = {})
          /\ Return("captured", "EAGAIN")
       \/ Faults /\ Return("captured", "ERROR")
    /\ UNCHANGED <<members, queue, asked, buf, threadStores, flushVars>>

captureDqbuf ==
    /\ thread = "dqbuf"
    /\ \/ \E i \in queue.done :
            /\ queue.on
            /\ queue' = [queue EXCEPT !.done = @ \ {i}]
            /\ goto("index") /\ buf' = i
            /\ UNCHANGED ret
       \/ /\ queue.on /\ (Faults \/ queue.done = {})
          /\ Return("captured", "EAGAIN")
          /\ UNCHANGED <<queue, buf>>
       \/ (Faults \/ ~queue.on) /\ Return("captured", "ERROR") /\ UNCHANGED <<queue, buf>>
    /\ UNCHANGED <<members, asked, threadStores, flushVars>>

\* The index test and the read of mBuffers[index].start.  A null pointer ends
\* the processing with an error, but the buffer is queued again.
captureIndex ==
    /\ thread = "index"
    /\ \/ buf >= mBufferCount /\ Return("captured", "ERROR")
       \/ buf < mBufferCount /\ buf \in mapped /\ Return("process", "OK")
       \/ buf < mBufferCount /\ buf \notin mapped /\ Return("requeue", "ERROR")
    /\ UNCHANGED <<members, queue, asked, buf, threadStores, flushVars>>

\* processBayerToYuv has read the whole mapped buffer.
captureProcess ==
    /\ thread = "process"
    /\ goto("requeue")
    /\ UNCHANGED <<members, queue, asked, buf, ret, threadStores, flushVars>>

captureRequeue_forgotten ==
    /\ thread = "requeue"
    /\ goto("captured")
    /\ UNCHANGED <<members, queue, asked, buf, ret, threadStores, flushVars>>

captureRequeue ==
    /\ thread = "requeue"
    /\ \/ CanQbuf(buf) /\ Qbuf(buf) /\ goto("captured") /\ UNCHANGED ret
       \/ (Faults \/ ~CanQbuf(buf)) /\ Return("captured", "ERROR") /\ UNCHANGED queue
    /\ UNCHANGED <<members, asked, buf, threadStores, flushVars>>

PipelineStep ==
    \/ openDevice \/ configureFormat \/ configureMap \/ configureIsp
    \/ startQbuf \/ startStreamon \/ startStore
    \/ capturePoll \/ captureDqbuf \/ captureIndex \/ captureProcess \/ captureRequeue
-----------------------------------------------------------------------------
(* stopStreaming() in the thread of flush() *)

stopStreamoff ==
    /\ flusher = "streamoff"
    /\ StreamOff
    /\ flusher' = "munmap"
    /\ UNCHANGED <<members, threadVars, flushStores>>

\* The loop over i < mBufferCount, one munmap and its stores at a time.
stopMunmap ==
    /\ flusher = "munmap"
    /\ IF mapped \cap 0 .. mBufferCount - 1 = {}
         THEN /\ flusher' = "stores"
              /\ flushStores' = {"mBufferCount", "mStreaming", "mState"}
              /\ UNCHANGED mapped
         ELSE /\ mapped' = mapped \ {CHOOSE i \in mapped : \A j \in mapped : i <= j}
              /\ UNCHANGED flushVars
    /\ UNCHANGED <<mState, mStreaming, mBufferCount, mConfig, queue, threadVars>>

stopStore ==
    /\ flusher = "stores"
    /\ \E s \in flushStores :
         /\ mBufferCount' = IF s = "mBufferCount" THEN 0 ELSE mBufferCount
         /\ mStreaming' = IF s = "mStreaming" THEN FALSE ELSE mStreaming
         /\ mState' = IF s = "mState" THEN "OPENED" ELSE mState
         /\ flushStores' = flushStores \ {s}
         /\ flusher' = IF flushStores = {s} THEN "mark" ELSE flusher
    /\ UNCHANGED <<mapped, mConfig, queue, threadVars>>

StopStep == stopStreamoff \/ stopMunmap \/ stopStore
=============================================================================
