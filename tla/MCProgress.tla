----------------------------- MODULE MCProgress -----------------------------
(***************************************************************************)
(* What must happen in the end, in the components whose threads wait for   *)
(* one another, one component to a behaviour: the sensor multiplexer, the  *)
(* compressed output stream with its worker, the recovery of a PCM stream, *)
(* the timeout poker and the condition variable.                           *)
(***************************************************************************)
EXTENDS Integers, Sequences, TLC

CONSTANTS mCapacity, queueCount, MaxReads, NoHandle, Indeterminate,
          MaxFaults, Poker, Client, Node, Missing, Timeout, MaxFd, Lag,
          Waiter, Signaller, Width, MaxPulses

VARIABLES
    part,      \* the component that a behaviour is about
    queues, writer, region, batch, pollPc, maxReads, empties, data,
    nextReadIndex, waiting_for_data,
    compress, started, paused, use_async, mode, exit, player, worker,
    request, bound, missed, tally,
    flags, fd, maps, opening, prepared, running, kernel, pcm_call, result,
    faults, fell,
    box, fds, handles, caller,
    word, attr, mutex, thread_pc, old, since, fooled, waking, pulses

LiveEvents == {[meta |-> FALSE, handle |-> 1]}
TwoHalHandles == (<<0, 1>> :> 1) @@ (<<1, 1>> :> 2) @@ (<<1, 2>> :> 3)

Sensors == INSTANCE Multihal WITH Event <- LiveEvents, full_to_global <-
    TwoHalHandles
Stream == INSTANCE CompressOutput
Handle == INSTANCE Pcm WITH call <- pcm_call
Pokers == INSTANCE TimeoutPoker
Cond == INSTANCE PthreadCond WITH pc <- thread_pc

\* The counter of a condition variable sits above two bits of flags, in a word
\* of whole steps (2^32 in the code); the bound on faults is a number.
ASSUME WordAssumption ==
    Cond!Word \in Nat \ {0} /\ Cond!Word % Cond!COND_COUNTER_STEP = 0
ASSUME FaultsAssumption == MaxFaults \in Nat

sensorsVars == <<queues, writer, region, batch, pollPc, maxReads, empties,
    data, nextReadIndex, waiting_for_data>>
compressVars == <<compress, started, paused, use_async, mode, exit, player,
    worker, request, bound, missed, tally>>
pcmVars == <<flags, fd, maps, opening, prepared, running, kernel, pcm_call,
    result, faults, fell>>
pokerVars == <<box, fds, handles, caller>>
condVars == <<word, attr, mutex, thread_pc, old, since, fooled, waking,
    pulses>>
vars == <<part, sensorsVars, compressVars, pcmVars, pokerVars, condVars>>

Init ==
    /\ part \in {"sensors", "compress", "pcm", "poker", "cond"}
    /\ Sensors!Init
    /\ Stream!Init
    /\ Handle!Init
    /\ Pokers!Init
    /\ Cond!Init
    /\ part # "pcm" => flags = CHOOSE f \in Handle!Flags : TRUE
    /\ part = "cond" => attr \in {0, 3}
    /\ part # "cond" => attr = 0

sensorsNext == Sensors!Next /\ UNCHANGED <<compressVars, pcmVars, pokerVars,
    condVars>>
compressNext == Stream!Next /\ UNCHANGED <<sensorsVars, pcmVars, pokerVars,
    condVars>>
pcmNext == Handle!Next /\ UNCHANGED <<sensorsVars, compressVars, pokerVars,
    condVars>>
pokerNext == Pokers!Next /\ UNCHANGED <<sensorsVars, compressVars, pcmVars,
    condVars>>
condNext == Cond!Next /\ UNCHANGED <<sensorsVars, compressVars, pcmVars,
    pokerVars>>

Next ==
    /\ \/ part = "sensors" /\ sensorsNext
       \/ part = "compress" /\ compressNext
       \/ part = "pcm" /\ pcmNext
       \/ part = "poker" /\ pokerNext
       \/ part = "cond" /\ condNext
    /\ UNCHANGED part

\* The fairness of each component, as its own module states and justifies it.
Fairness ==
    /\ WF_vars(part = "sensors" /\ Sensors!Poller /\ UNCHANGED <<part, compressVars, pcmVars, pokerVars, condVars>>)
    /\ \A w \in Sensors!Sub : SF_vars(part = "sensors" /\ Sensors!writerClaim(w) /\ UNCHANGED <<part, compressVars, pcmVars, pokerVars, condVars>>)
    /\ \A w \in Sensors!Sub : SF_vars(part = "sensors" /\ Sensors!writerMark(w) /\ UNCHANGED <<part, compressVars, pcmVars, pokerVars, condVars>>)
    /\ WF_vars(part = "compress" /\ Stream!PlayerInCall /\ UNCHANGED <<part, sensorsVars, pcmVars, pokerVars, condVars>>)
    /\ WF_vars(part = "compress" /\ Stream!WorkerNext /\ UNCHANGED <<part, sensorsVars, pcmVars, pokerVars, condVars>>)
    /\ WF_vars(part = "pcm" /\ Handle!InCall /\ UNCHANGED <<part, sensorsVars, compressVars, pokerVars, condVars>>)
    /\ WF_vars(part = "pcm" /\ Handle!Begin /\ UNCHANGED <<part, sensorsVars, compressVars, pokerVars, condVars>>)
    /\ \A p \in Poker : WF_vars(part = "poker" /\ Pokers!handleMessage(p) /\ UNCHANGED <<part, sensorsVars, compressVars, pcmVars, condVars>>)
    /\ \A h \in 1..MaxFd : WF_vars(part = "poker" /\ Pokers!pipeCloseCb(h) /\ UNCHANGED <<part, sensorsVars, compressVars, pcmVars, condVars>>)
    /\ WF_vars(part = "poker" /\ Pokers!Tick /\ UNCHANGED <<part, sensorsVars, compressVars, pcmVars, condVars>>)
    /\ \A s \in Signaller : WF_vars(part = "cond" /\ Cond!pulse_wake(s) /\ UNCHANGED <<part, sensorsVars, compressVars, pcmVars, pokerVars>>)
    /\ \A t \in Waiter : WF_vars(part = "cond" /\ Cond!waiterNext(t) /\ UNCHANGED <<part, sensorsVars, compressVars, pcmVars, pokerVars>>)

Spec == Init /\ [][Next]_vars /\ Fairness
-----------------------------------------------------------------------------
\* Multihal: the oldest event of every queue is read, and a sub-HAL blocked on
\* a full queue gets space.
SensorsGoOn == Sensors!OldestIsRead /\ Sensors!BlockedWriterProceeds

\* CompressOutput implements AsyncContract: the worker answers what the player
\* was promised, in order, and nothing else.
ImplementsAsync == Stream!ImplementsAsync

\* CompressOutput: a request is picked up by the worker, and a close that joins
\* it returns, unless the signal was sent before the worker waited.
CompressGoesOn == Stream!RequestPickedUp /\ Stream!CloseReturns

\* CompressOutput, Pcm: flags and device nodes agree.  A paused stream keeps its
\* node however standby and flush come; the flags of a PCM handle tell the
\* state of its stream between calls; and a closed handle holds no mapping.
NodesAreTrue ==
    /\ part = "compress" => Stream!TypeOK /\ Stream!PausedKeepsNode
    /\ part = "pcm" => Handle!TypeOK /\ Handle!NothingLeaks /\ Handle!FlagsFollowStream

\* Pcm: a stream in use recovers from every overrun and suspend.
TransferRecovers == Handle!TransferRecovers

\* TimeoutPoker: every message finds its event, and every open descriptor has
\* exactly one owner that will close it.
PokerOwns ==
    part = "poker" => Pokers!TypeOK /\ Pokers!MessagesFindEvents /\ Pokers!OneOwner

\* TimeoutPoker: a caller behind the barrier returns, and no request outlives
\* its time or its handle.
PokerEnds == Pokers!CallerReturns /\ Pokers!RequestsEnd

\* PthreadCond: counting pulses leaves the flags of the word alone, and a waiter
\* sleeps through a pulse only when the counter went all the way round.
PulsesCount ==
    part = "cond" => Cond!TypeOK /\ Cond!FlagsStay /\ Cond!FooledOnlyByOverflow

\* PthreadCond: a broadcast wakes all that wait.
BroadcastReachesAll == Cond!BroadcastReachesAll
=============================================================================
