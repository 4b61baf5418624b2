------------------------- MODULE MCProgress_proofs --------------------------
(***************************************************************************)
(* Proofs about the parts of MCProgress that do not depend on its bounds:  *)
(* the condition variable counts pulses without touching its flags, the    *)
(* device nodes agree with the flags of the streams that use them, and the *)
(* compressed output stream implements AsyncContract.                      *)
(*                                                                         *)
(* A step of one part leaves the variables of the others alone, so each    *)
(* part has an invariant of its own, kept by the part's steps.             *)
(***************************************************************************)
EXTENDS MCProgress, TLAPS

-----------------------------------------------------------------------------
(* The condition variable *)

Steps == Cond!Word \div Cond!COND_COUNTER_STEP

CondTypes ==
    /\ word \in 0 .. Cond!Word - 1
    /\ attr \in 0 .. 3
    /\ mutex \in Waiter \cup {"free"}
    /\ thread_pc \in [Waiter -> {"run", "loaded", "unlocked", "sleep", "woken"}]
    /\ old \in [Waiter -> 0 .. Cond!Word - 1]
    /\ since \in [Waiter -> Nat]
    /\ fooled \in [Waiter -> BOOLEAN]

\* For as long as the counter has not gone all the way round, the word is the
\* one a waiter has read, moved on by the pulses since then, modulo its size.
WordIsMoved(t) ==
    thread_pc[t] \in {"loaded", "unlocked"} /\ since[t] < Steps =>
        \/ word = old[t] + 4 * since[t]
        \/ word = old[t] + 4 * since[t] - Cond!Word

CondInv ==
    /\ CondTypes
    /\ word % 4 = attr
    /\ \A t \in Waiter : WordIsMoved(t)
    /\ \A t \in Waiter : fooled[t] => thread_pc[t] = "sleep" /\ since[t] >= Steps

\* fetch_add: the counter moves on by one step, and wraps to its first value;
\* the two flags below it are left alone.
LEMMA FetchAdd ==
    ASSUME NEW w \in 0 .. Cond!Word - 1
    PROVE  /\ Cond!fetch_add(w) = IF w + 4 < Cond!Word THEN w + 4 ELSE w + 4 - Cond!Word
           /\ Cond!fetch_add(w) \in 0 .. Cond!Word - 1
           /\ Cond!fetch_add(w) % 4 = w % 4
<1> DEFINE W == Cond!Word
<1>1. W \in Nat /\ W # 0 /\ W % 4 = 0 /\ 4 <= W
  BY WordAssumption, SMT DEF Cond!COND_COUNTER_STEP
<1>2. Cond!fetch_add(w) = (w + 4) % W
  BY DEF Cond!fetch_add, Cond!COND_COUNTER_STEP
<1>3. w \in Nat /\ w < W
  BY <1>1
<1> HIDE DEF W
<1>4. (w + 4) % W = IF w + 4 < W THEN w + 4 ELSE w + 4 - W
  BY <1>1, <1>3, SMT
<1>5. (w + 4) % W \in 0 .. W - 1 /\ ((w + 4) % W) % 4 = w % 4
  BY <1>1, <1>3, <1>4, SMT
<1> QED
  BY <1>2, <1>4, <1>5 DEF W

\* The number of steps in a word, in plain numbers.
LEMMA StepsInWord == Steps \in Nat /\ Cond!Word = 4 * Steps /\ Steps > 0
BY WordAssumption, SMT DEF Steps, Cond!COND_COUNTER_STEP

\* A pulse moves the word and counts for every waiter at once.
LEMMA PulseKeepsWord ==
    ASSUME CondInv, NEW s, NEW n, Cond!pulse_add(s, n)
    PROVE  CondInv'
<1>1. /\ word' = IF word + 4 < Cond!Word THEN word + 4 ELSE word + 4 - Cond!Word
      /\ word' \in 0 .. Cond!Word - 1
      /\ word' % 4 = word % 4
  BY FetchAdd DEF CondInv, CondTypes, Cond!pulse_add
<1>2. since' = [t \in Waiter |-> since[t] + 1] /\ UNCHANGED <<attr, mutex, thread_pc, old, fooled>>
  BY DEF Cond!pulse_add
<1>3. CondTypes'
  BY <1>1, <1>2 DEF CondInv, CondTypes
<1>4. ASSUME NEW t \in Waiter PROVE WordIsMoved(t)'
  <2>1. /\ word \in 0 .. Cond!Word - 1 /\ old[t] \in 0 .. Cond!Word - 1 /\ since[t] \in Nat
        /\ since'[t] = since[t] + 1
    BY <1>2, <1>4 DEF CondInv, CondTypes
  <2>2. WordIsMoved(t)
    BY <1>4 DEF CondInv
  <2>3. SUFFICES ASSUME thread_pc[t] \in {"loaded", "unlocked"}, since[t] + 1 < Steps
                 PROVE  \/ word' = old[t] + 4 * (since[t] + 1)
                        \/ word' = old[t] + 4 * (since[t] + 1) - Cond!Word
    BY <1>2, <2>1 DEF WordIsMoved
  <2>4. word = old[t] + 4 * since[t] \/ word = old[t] + 4 * since[t] - Cond!Word
    BY <2>1, <2>2, <2>3, StepsInWord DEF WordIsMoved
  <2> QED
    BY <1>1, <2>1, <2>3, <2>4, StepsInWord, SMTT(120)
<1>5. ASSUME NEW t \in Waiter, fooled'[t] PROVE thread_pc'[t] = "sleep" /\ since'[t] >= Steps
  BY <1>2, <1>5, StepsInWord, SMTT(120) DEF CondInv, CondTypes
<1> QED
  BY <1>1, <1>2, <1>3, <1>4, <1>5, SMTT(120) DEF CondInv

\* The kernel's test: a waiter that was pulsed finds the word it has read only
\* after the counter has gone all the way round.
LEMMA SleepIsNotFooled ==
    ASSUME CondInv, NEW t \in Waiter, Cond!futex_wait(t)
    PROVE  CondInv'
<1>1. /\ thread_pc' = [thread_pc EXCEPT ![t] = IF word = old[t] THEN "sleep" ELSE "woken"]
      /\ fooled' = [fooled EXCEPT ![t] = word = old[t] /\ since[t] > 0]
      /\ thread_pc[t] = "unlocked"
      /\ UNCHANGED <<word, attr, mutex, old, since>>
  BY DEF Cond!futex_wait, Cond!sleeps
<1>2. CondTypes'
  BY <1>1 DEF CondInv, CondTypes
<1>3. ASSUME NEW u \in Waiter PROVE WordIsMoved(u)'
  BY <1>1, <1>3 DEF CondInv, CondTypes, WordIsMoved
<1>4. ASSUME NEW u \in Waiter, fooled'[u] PROVE thread_pc'[u] = "sleep" /\ since'[u] >= Steps
  <2>1. CASE u # t
    BY <1>1, <1>4, <2>1, SMTT(120) DEF CondInv, CondTypes
  <2>2. CASE u = t
    <3>1. word = old[t] /\ since[t] > 0
      BY <1>1, <1>4, <2>2 DEF CondInv, CondTypes
    <3>2. WordIsMoved(t) /\ since[t] \in Nat /\ word \in 0 .. Cond!Word - 1
      BY DEF CondInv, CondTypes
    <3>3. since[t] >= Steps
      BY <1>1, <3>1, <3>2, StepsInWord, SMTT(120) DEF WordIsMoved
    <3> QED
      BY <1>1, <2>2, <3>1, <3>3, SMTT(120) DEF CondInv, CondTypes
  <2> QED
    BY <2>1, <2>2
<1> QED
  BY <1>1, <1>2, <1>3, <1>4, SMTT(120) DEF CondInv

\* A waiter that takes the mutex, reads the word, gives the mutex up or runs
\* into its timeout.
LEMMA WaiterKeepsWord ==
    ASSUME CondInv, NEW t \in Waiter,
           Cond!pthread_mutex_lock(t) \/ Cond!cond_load(t) \/ Cond!cond_unlock(t) \/ Cond!timeout(t)
    PROVE  CondInv'
<1>1. CASE Cond!pthread_mutex_lock(t)
  BY <1>1 DEF CondInv, CondTypes, WordIsMoved, Cond!pthread_mutex_lock
<1>2. CASE Cond!cond_load(t)
  BY <1>2, StepsInWord DEF CondInv, CondTypes, WordIsMoved, Cond!cond_load
<1>3. CASE Cond!cond_unlock(t)
  BY <1>3 DEF CondInv, CondTypes, WordIsMoved, Cond!cond_unlock
<1>4. CASE Cond!timeout(t)
  BY <1>4 DEF CondInv, CondTypes, WordIsMoved, Cond!timeout
<1> QED
  BY <1>1, <1>2, <1>3, <1>4, SMTT(120)

\* pulse_wake, whoever it wakes.
LEMMA WakeKeepsWord ==
    ASSUME CondInv, NEW s, Cond!pulse_wake(s)
    PROVE  CondInv'
<1>1. PICK w \in SUBSET Waiter :
        /\ \A t \in w : thread_pc[t] = "sleep"
        /\ thread_pc' = [t \in Waiter |-> IF t \in w THEN "woken" ELSE thread_pc[t]]
        /\ fooled' = [t \in Waiter |-> fooled[t] /\ t \notin w]
  BY DEF Cond!pulse_wake
<1>2. UNCHANGED <<word, attr, mutex, old, since>>
  BY DEF Cond!pulse_wake
<1> QED
  BY Zenon, <1>1, <1>2 DEF CondInv, CondTypes, WordIsMoved

\* Every step of the condition variable keeps its invariant.
LEMMA CondKept == CondInv /\ Cond!Next => CondInv'
<1> SUFFICES ASSUME CondInv, Cond!Next PROVE CondInv'
  OBVIOUS
<1>1. ASSUME NEW t \in Waiter, Cond!waiterNext(t) \/ Cond!timeout(t) PROVE CondInv'
  BY <1>1, WaiterKeepsWord, SleepIsNotFooled, Zenon DEF Cond!waiterNext
<1>2. ASSUME NEW s \in Signaller, NEW n, Cond!pulse_add(s, n) PROVE CondInv'
  BY <1>2, PulseKeepsWord, Zenon
<1>3. ASSUME NEW s \in Signaller, Cond!pulse_wake(s) PROVE CondInv'
  BY <1>3, WakeKeepsWord, Zenon
<1> QED
  BY <1>1, <1>2, <1>3, Zenon DEF Cond!Next

\* pthread_cond_init makes the word of its flags.
LEMMA CondStarts == Cond!Init => CondInv
<1> SUFFICES ASSUME Cond!Init PROVE CondInv
  OBVIOUS
<1>1. attr \in 0 .. 3 /\ word = attr /\ Cond!Word >= 4
  BY StepsInWord DEF Cond!Init, Cond!COND_FLAGS
<1>2. CondTypes /\ word % 4 = attr
  BY <1>1, StepsInWord DEF CondTypes, Cond!Init
<1> QED
  BY <1>2 DEF CondInv, WordIsMoved, Cond!Init

\* What the invariant says of the word: the flags stay, and a waiter is fooled
\* only by an overflow.
LEMMA CondIsCounted == CondInv => Cond!TypeOK /\ Cond!FlagsStay /\ Cond!FooledOnlyByOverflow
BY DEF CondInv, CondTypes, Steps, Cond!TypeOK, Cond!FlagsStay, Cond!FooledOnlyByOverflow, Cond!COND_FLAGS

\* __pthread_cond_pulse, pthread_cond_wait: for any number of waiters and of
\* signallers and any size of the word, counting pulses leaves the flags of the
\* word alone, and a waiter sleeps through a pulse only when the counter went
\* all the way round.
THEOREM PulsesAreCounted == Spec => []PulsesCount
<1>1. Init => CondInv
  BY CondStarts DEF Init
<1>2. CondInv /\ [Next]_vars => CondInv'
  <2> SUFFICES ASSUME CondInv, [Next]_vars PROVE CondInv'
    OBVIOUS
  <2>1. CASE Cond!Next
    BY <2>1, CondKept, SMTT(120)
  <2>2. CASE UNCHANGED condVars
    BY <2>2 DEF CondInv, CondTypes, WordIsMoved, condVars
  <2> QED
    BY <2>1, <2>2, Zenon DEF Next, vars, sensorsNext, compressNext, pcmNext, pokerNext, condNext
<1>3. CondInv => PulsesCount
  BY CondIsCounted DEF PulsesCount
<1> QED
  BY <1>1, <1>2, <1>3, PTL DEF Spec

-----------------------------------------------------------------------------
(* The compressed output stream *)

\* Only a worker that works has a request, a stream without a callback has no
\* worker, and a stream that plays or pauses has its node.
StreamInv ==
    /\ Stream!TypeOK
    /\ Stream!PausedKeepsNode
    /\ request \in {"none", "poll", "early drain", "full drain"}
    /\ worker # "working" => request = "none"
    /\ use_async \/ player = "callback set" \/ worker = "none"

\* The controller: standby, pause, resume and flush.
LEMMA ControlKeepsNode ==
    ASSUME StreamInv,
           \/ Stream!out_compress_standby \/ Stream!out_compress_pause
           \/ Stream!out_compress_resume \/ Stream!out_compress_flush
    PROVE  StreamInv'
<1>1. CASE Stream!out_compress_standby
  BY ZenonT(120), <1>1 DEF StreamInv, Stream!TypeOK, Stream!PausedKeepsNode, Stream!out_compress_standby,
    Stream!do_standby_compress_l, Stream!asyncVars, Stream!nodeVars
<1>2. CASE Stream!out_compress_pause
  BY Zenon, <1>2 DEF StreamInv, Stream!TypeOK, Stream!PausedKeepsNode, Stream!out_compress_pause, Stream!asyncVars
<1>3. CASE Stream!out_compress_resume
  BY Zenon, <1>3 DEF StreamInv, Stream!TypeOK, Stream!PausedKeepsNode, Stream!out_compress_resume, Stream!asyncVars
<1>4. CASE Stream!out_compress_flush
  BY Zenon, <1>4 DEF StreamInv, Stream!TypeOK, Stream!PausedKeepsNode, Stream!out_compress_flush, Stream!asyncVars
<1> QED
  BY <1>1, <1>2, <1>3, <1>4, SMTT(120)

\* The player, up to a write that starts the stream.
LEMMA PlayerKeepsNode ==
    ASSUME StreamInv,
           \/ Stream!do_init_out_compress \/ Stream!writeOpen \/ Stream!writeData
           \/ Stream!writeStart \/ Stream!setCallbackCreate \/ Stream!setCallbackAssign
           \/ Stream!out_compress_close
    PROVE  StreamInv'
<1>1. CASE Stream!do_init_out_compress
  BY Zenon, <1>1 DEF StreamInv, Stream!TypeOK, Stream!PausedKeepsNode, Stream!do_init_out_compress, Stream!asyncVars
<1>2. CASE Stream!writeOpen
  BY Zenon, <1>2 DEF StreamInv, Stream!TypeOK, Stream!PausedKeepsNode, Stream!writeOpen, Stream!asyncVars
<1>3. CASE Stream!writeData
  BY ZenonT(120), <1>3 DEF StreamInv, Stream!TypeOK, Stream!PausedKeepsNode, Stream!writeData, Stream!asyncVars, Stream!nodeVars
<1>4. CASE Stream!writeStart
  BY Zenon, <1>4 DEF StreamInv, Stream!TypeOK, Stream!PausedKeepsNode, Stream!writeStart,
    Stream!do_standby_compress_l, Stream!asyncVars, Stream!nodeVars
<1>5. CASE Stream!setCallbackCreate
  BY Zenon, <1>5 DEF StreamInv, Stream!TypeOK, Stream!PausedKeepsNode, Stream!setCallbackCreate, Stream!nodeVars
<1>6. CASE Stream!setCallbackAssign
  BY Zenon, <1>6 DEF StreamInv, Stream!TypeOK, Stream!PausedKeepsNode, Stream!setCallbackAssign, Stream!nodeVars
<1>7. CASE Stream!out_compress_close
  BY Zenon, <1>7 DEF StreamInv, Stream!TypeOK, Stream!PausedKeepsNode, Stream!out_compress_close, Stream!asyncVars
<1> QED
  BY <1>1, <1>2, <1>3, <1>4, <1>5, <1>6, <1>7, SMTT(120)

\* History counters are parities.
LEMMA FlipIsParity ==
    ASSUME tally \in [asked : 0..1, answered : 0..1], NEW side \in {"asked", "answered"}, Stream!Flip(side)
    PROVE  tally' \in [asked : 0..1, answered : 0..1]
BY DEF Stream!Flip

\* signal_async_thread never hands the worker a request: it only wakes it.
LEMMA SignalKeepsWorker ==
    ASSUME StreamInv, NEW m \in {"poll", "early drain", "full drain"}, Stream!signal_async_thread(m)
    PROVE  /\ tally' \in [asked : 0..1, answered : 0..1]
           /\ mode' \in {"none", "poll", "early drain", "full drain"}
           /\ worker' \in {"none", "new", "top", "entering", "waiting", "woken", "working", "exited"}
           /\ missed' \in BOOLEAN
           /\ worker' = "working" <=> worker = "working"
           /\ worker' = "none" <=> worker = "none"
<1>1. CASE mode # "none"
  BY Zenon, <1>1 DEF StreamInv, Stream!TypeOK, Stream!signal_async_thread
<1>2. CASE mode = "none"
  BY Zenon, <1>2, FlipIsParity DEF StreamInv, Stream!TypeOK, Stream!signal_async_thread, Stream!Signal
<1> QED
  BY Zenon, <1>1, <1>2

\* A stream that is gone has reset its counters.
LEMMA GoneIsTyped == Stream!Gone => tally' \in [asked : 0..1, answered : 0..1]
BY DEF Stream!Gone

\* The player's requests to the worker, and the end of a close.
LEMMA RequestKeepsNode ==
    ASSUME StreamInv,
           \/ Stream!writeSignal \/ Stream!do_close_out_common \/ Stream!closeJoin
           \/ \E type \in {"early drain", "full drain"} : Stream!out_compress_drain(type)
    PROVE  StreamInv'
<1>1. CASE Stream!writeSignal
  <2>1. Stream!signal_async_thread("poll")
    BY Zenon, <1>1 DEF Stream!writeSignal
  <2> QED
    BY Zenon, <1>1, <2>1, SignalKeepsWorker DEF StreamInv, Stream!TypeOK, Stream!PausedKeepsNode,
      Stream!writeSignal, Stream!nodeVars
<1>2. CASE Stream!do_close_out_common
  BY Zenon, <1>2 DEF StreamInv, Stream!TypeOK, Stream!PausedKeepsNode, Stream!do_close_out_common,
    Stream!Signal, Stream!nodeVars
<1>3. CASE Stream!closeJoin
  <2>1. Stream!Gone /\ UNCHANGED <<compress, started, paused>>
    BY Zenon, <1>3 DEF Stream!closeJoin, Stream!nodeVars
  <2> QED
    BY Zenon, <2>1, GoneIsTyped DEF StreamInv, Stream!TypeOK, Stream!PausedKeepsNode, Stream!Gone
<1>4. ASSUME NEW type \in {"early drain", "full drain"}, Stream!out_compress_drain(type) PROVE StreamInv'
  <2>1. CASE use_async
    <3>1. Stream!signal_async_thread(type)
      BY Zenon, <1>4, <2>1 DEF Stream!out_compress_drain
    <3> QED
      BY Zenon, <1>4, <2>1, <3>1, SignalKeepsWorker DEF StreamInv, Stream!TypeOK, Stream!PausedKeepsNode,
        Stream!out_compress_drain
  <2>2. CASE ~use_async
    BY Zenon, <1>4, <2>2 DEF StreamInv, Stream!TypeOK, Stream!PausedKeepsNode, Stream!out_compress_drain
  <2> QED
    BY Zenon, <2>1, <2>2
<1> QED
  BY Zenon, <1>1, <1>2, <1>3, <1>4

\* The worker.
LEMMA WorkerKeepsNode ==
    ASSUME StreamInv, Stream!WorkerNext \/ Stream!workerSpuriousWakeup
    PROVE  StreamInv'
<1>1. CASE Stream!workerStart
  BY Zenon, <1>1 DEF StreamInv, Stream!TypeOK, Stream!PausedKeepsNode, Stream!workerStart, Stream!nodeVars
<1>2. CASE Stream!workerTop
  BY Zenon, <1>2 DEF StreamInv, Stream!TypeOK, Stream!PausedKeepsNode, Stream!workerTop, Stream!nodeVars
<1>3. CASE Stream!workerWait
  BY Zenon, <1>3 DEF StreamInv, Stream!TypeOK, Stream!PausedKeepsNode, Stream!workerWait, Stream!nodeVars
<1>4. CASE Stream!workerSpuriousWakeup
  BY Zenon, <1>4 DEF StreamInv, Stream!TypeOK, Stream!PausedKeepsNode, Stream!workerSpuriousWakeup, Stream!nodeVars
<1>5. CASE Stream!workerPick
  BY Zenon, <1>5 DEF StreamInv, Stream!TypeOK, Stream!PausedKeepsNode, Stream!workerPick, Stream!nodeVars
<1>6. CASE Stream!workerAnswer
  <2>1. tally' \in [asked : 0..1, answered : 0..1]
    BY Zenon, <1>6, FlipIsParity DEF StreamInv, Stream!TypeOK, Stream!workerAnswer
  <2> QED
    BY Zenon, <1>6, <2>1 DEF StreamInv, Stream!TypeOK, Stream!PausedKeepsNode, Stream!workerAnswer
<1>7. CASE Stream!workerCrash
  BY Zenon, <1>7, GoneIsTyped DEF StreamInv, Stream!TypeOK, Stream!PausedKeepsNode, Stream!workerCrash, Stream!Gone
<1> QED
  BY <1>1, <1>2, <1>3, <1>4, <1>5, <1>6, <1>7, SMTT(120) DEF Stream!WorkerNext

\* Every step of the stream keeps its invariant.
LEMMA StreamKept == StreamInv /\ Stream!Next => StreamInv'
BY ControlKeepsNode, PlayerKeepsNode, RequestKeepsNode, WorkerKeepsNode, Zenon
DEF Stream!Next, Stream!PlayerInCall

\* Steps of the other parts leave the stream alone.
LEMMA StreamUntouched ==
    ASSUME StreamInv, UNCHANGED compressVars
    PROVE  StreamInv'
<1>1. Stream!TypeOK'
  BY Zenon DEF StreamInv, Stream!TypeOK, compressVars
<1> QED
  BY Zenon, <1>1 DEF StreamInv, Stream!PausedKeepsNode, compressVars

\* A stream starts closed.
LEMMA StreamStarts == Stream!Init => StreamInv
<1>1. Stream!Init => tally \in [asked : 0..1, answered : 0..1]
  BY DEF Stream!Init
<1> QED
  BY Zenon, <1>1 DEF StreamInv, Stream!TypeOK, Stream!PausedKeepsNode, Stream!Init

\* Two sequences with the same elements are the same.
LEMMA SameElements ==
    ASSUME NEW S, NEW a \in Seq(S), NEW b \in Seq(S), Len(a) = Len(b),
           \A i \in 1 .. Len(a) : a[i] = b[i]
    PROVE  a = b
<1>1. a = [i \in 1 .. Len(a) |-> a[i]] /\ b = [i \in 1 .. Len(a) |-> b[i]]
  OBVIOUS
<1> QED
  BY <1>1, Zenon

\* Queues of one request and of two.
LEMMA ShortQueues ==
    ASSUME NEW S, NEW m \in S, NEW r \in S
    PROVE  /\ Append(<<>> \o <<>>, m) = <<>> \o <<m>>
           /\ Append(<<r>> \o <<>>, m) = <<r>> \o <<m>>
           /\ <<r>> \o <<m>> # <<>> /\ Tail(<<r>> \o <<m>>) = <<>> \o <<m>>
           /\ <<r>> \o <<>> # <<>> /\ Tail(<<r>> \o <<>>) = <<>> \o <<>>
           /\ <<>> \o <<m>> = <<m>> \o <<>>
<1> DEFINE two == <<r>> \o <<m>>
           one == <<m>>
           more == Append(<<r>>, m)
<1>1. <<r>> \o <<>> = <<r>> /\ <<>> \o <<m>> = one
  OBVIOUS
<1>2. one \in Seq(S) /\ Len(one) = 1 /\ one[1] = m
  OBVIOUS
<1>3. two \in Seq(S) /\ Len(two) = 2 /\ two[1] = r /\ two[2] = m
  OBVIOUS
<1>4. more \in Seq(S) /\ Len(more) = 2 /\ more[1] = r /\ more[2] = m
  OBVIOUS
<1>5. /\ \A i \in 1 .. 1 : i = 1
      /\ \A i \in 1 .. 2 : i = 1 \/ i = 2
  OBVIOUS
<1> HIDE DEF two, one, more
<1>6. more = two
  <2>1. \A i \in 1 .. Len(more) : more[i] = two[i]
    BY <1>3, <1>4, <1>5, Zenon
  <2> QED
    BY <1>3, <1>4, <2>1, SameElements, SMTT(120)
<1>7. Tail(two) = one
  <2>1. Tail(two) \in Seq(S) /\ Len(Tail(two)) = 1 /\ Tail(two)[1] = m
    BY <1>3, SMTT(120)
  <2>2. \A i \in 1 .. Len(Tail(two)) : Tail(two)[i] = one[i]
    BY <1>2, <1>5, <2>1, Zenon
  <2> QED
    BY <1>2, <2>1, <2>2, SameElements, ZenonT(120)
<1> QED
  BY <1>1, <1>6, <1>7 DEF two, one, more

\* A request that is refused as busy changes nothing; one that is accepted is
\* owed behind the one that the worker has.
LEMMA AcceptImplements ==
    ASSUME StreamInv, NEW m \in {"poll", "early drain", "full drain"},
           Stream!signal_async_thread(m), UNCHANGED request
    PROVE  Stream!Contract!Accept(m) \/ UNCHANGED Stream!Contract!vars
<1>1. CASE mode # "none"
  <2>1. UNCHANGED <<mode, request, tally>>
    BY Zenon, <1>1 DEF Stream!signal_async_thread
  <2> QED
    BY Zenon, <2>1 DEF Stream!Contract!vars, Stream!Owed
<1>2. CASE mode = "none"
  <2>1. mode' = m /\ tally' = [tally EXCEPT !["asked"] = 1 - @]
    BY Zenon, <1>2 DEF Stream!signal_async_thread, Stream!Flip
  <2>2. Stream!Owed' = Append(Stream!Owed, m)
    <3> DEFINE S == {"none", "poll", "early drain", "full drain"}
    <3>1. m \in S /\ request \in S /\ m # "none"
      BY Zenon DEF StreamInv
    <3> HIDE DEF S
    <3>2. /\ Append(<<>> \o <<>>, m) = <<>> \o <<m>>
          /\ Append(<<request>> \o <<>>, m) = <<request>> \o <<m>>
      BY Zenon, <3>1, ShortQueues
    <3>3. CASE request = "none"
      BY Zenon, <1>2, <2>1, <3>1, <3>2, <3>3 DEF Stream!Owed
    <3>4. CASE request # "none"
      BY Zenon, <1>2, <2>1, <3>1, <3>2, <3>4 DEF Stream!Owed
    <3> QED
      BY Zenon, <3>3, <3>4
  <2>3. (tally.asked)' = 1 - tally.asked /\ UNCHANGED tally.answered
    BY Zenon, <2>1 DEF StreamInv, Stream!TypeOK
  <2> QED
    BY Zenon, <2>2, <2>3 DEF Stream!Contract!Accept
<1> QED
  BY Zenon, <1>1, <1>2

\* The worker moves a request from mode to itself, which leaves what is owed
\* as it was.
LEMMA PickImplements ==
    ASSUME StreamInv, Stream!workerPick
    PROVE  UNCHANGED Stream!Contract!vars
<1>1. request = "none" /\ UNCHANGED tally
  BY Zenon DEF StreamInv, Stream!workerPick
<1>2. CASE UNCHANGED <<mode, request>>
  BY <1>1, <1>2 DEF Stream!Contract!vars, Stream!Owed
<1>3. CASE request' = mode /\ mode' = "none"
  <2>1. mode \in {"none", "poll", "early drain", "full drain"}
    BY Zenon DEF StreamInv, Stream!TypeOK
  <2>2. <<>> \o <<mode>> = <<mode>> \o <<>>
    BY Zenon, <2>1, ShortQueues
  <2>3. Stream!Owed' = Stream!Owed
    BY <1>1, <1>3, <2>2, SMTT(120) DEF Stream!Owed
  <2> QED
    BY <1>1, <2>3 DEF Stream!Contract!vars
<1> QED
  BY <1>2, <1>3 DEF Stream!workerPick

\* A callback answers the oldest request that is owed.
LEMMA AnswerImplements ==
    ASSUME StreamInv, Stream!workerAnswer
    PROVE  Stream!Contract!Answer \/ UNCHANGED Stream!Contract!vars
<1>1. request' = "none" /\ UNCHANGED mode
  BY Zenon DEF Stream!workerAnswer
<1>2. CASE request = "none"
  BY <1>1, <1>2 DEF Stream!workerAnswer, Stream!Contract!vars, Stream!Owed
<1>3. CASE request # "none"
  <2> DEFINE S == {"none", "poll", "early drain", "full drain"}
  <2>1. mode \in S /\ request \in S
    BY Zenon DEF StreamInv, Stream!TypeOK
  <2> HIDE DEF S
  <2>2. /\ <<request>> \o <<mode>> # <<>> /\ Tail(<<request>> \o <<mode>>) = <<>> \o <<mode>>
        /\ <<request>> \o <<>> # <<>> /\ Tail(<<request>> \o <<>>) = <<>> \o <<>>
    BY <2>1, ShortQueues
  <2>3. Stream!Owed # <<>> /\ Stream!Owed' = Tail(Stream!Owed)
    <3>1. CASE mode = "none"
      BY <1>1, <1>3, <2>2, <3>1, SMTT(120) DEF Stream!Owed
    <3>2. CASE mode # "none"
      BY <1>1, <1>3, <2>2, <3>2, SMTT(120) DEF Stream!Owed
    <3> QED
      BY <3>1, <3>2
  <2>4. (tally.answered)' = 1 - tally.answered /\ UNCHANGED tally.asked
    BY Zenon, <1>3 DEF StreamInv, Stream!TypeOK, Stream!workerAnswer, Stream!Flip
  <2> QED
    BY <2>3, <2>4 DEF Stream!Contract!Answer
<1> QED
  BY <1>2, <1>3

\* A close that has joined the worker, and a crash, end the contract.
LEMMA GoneImplements == Stream!Gone => Stream!Contract!Close
<1> SUFFICES ASSUME Stream!Gone PROVE Stream!Contract!Close
  OBVIOUS
<1>1. mode' = "none" /\ request' = "none" /\ tally' = [asked |-> 0, answered |-> 0]
  BY DEF Stream!Gone
<1>2. Stream!Owed' = <<>>
  BY <1>1 DEF Stream!Owed
<1> QED
  BY <1>1, <1>2 DEF Stream!Contract!Close

\* Every step of the stream is a step of the contract, or none.
LEMMA StreamStepImplements ==
    ASSUME StreamInv, Stream!Next
    PROVE  Stream!Contract!Next \/ UNCHANGED Stream!Contract!vars
<1> DEFINE Quiet == UNCHANGED <<mode, request, tally>>
<1>1. Quiet => UNCHANGED Stream!Contract!vars
  BY DEF Stream!Contract!vars, Stream!Owed
<1>2. CASE Stream!out_compress_standby \/ Stream!out_compress_pause \/ Stream!out_compress_resume
           \/ Stream!out_compress_flush
  BY <1>1, <1>2, Zenon DEF Stream!out_compress_standby, Stream!out_compress_pause,
    Stream!out_compress_resume, Stream!out_compress_flush, Stream!asyncVars
<1>3. CASE \/ Stream!do_init_out_compress \/ Stream!writeOpen \/ Stream!writeData \/ Stream!writeStart
           \/ Stream!setCallbackCreate \/ Stream!setCallbackAssign \/ Stream!out_compress_close
           \/ Stream!do_close_out_common
  BY <1>1, <1>3, Zenon DEF Stream!do_init_out_compress, Stream!writeOpen, Stream!writeData,
    Stream!writeStart, Stream!setCallbackCreate, Stream!setCallbackAssign,
    Stream!out_compress_close, Stream!do_close_out_common, Stream!asyncVars
<1>4. CASE Stream!workerStart \/ Stream!workerTop \/ Stream!workerWait \/ Stream!workerSpuriousWakeup
  BY <1>1, <1>4, Zenon DEF Stream!workerStart, Stream!workerTop, Stream!workerWait,
    Stream!workerSpuriousWakeup
<1>5. CASE Stream!writeSignal
  <2>1. Stream!signal_async_thread("poll") /\ UNCHANGED request
    BY <1>5 DEF Stream!writeSignal
  <2> QED
    BY Zenon, <2>1, AcceptImplements DEF Stream!Contract!Next, Stream!Contract!Request
<1>6. ASSUME NEW type \in {"early drain", "full drain"}, Stream!out_compress_drain(type)
      PROVE  Stream!Contract!Next \/ UNCHANGED Stream!Contract!vars
  <2>1. CASE use_async
    <3>1. Stream!signal_async_thread(type) /\ UNCHANGED request
      BY Zenon, <1>6, <2>1 DEF Stream!out_compress_drain
    <3> QED
      BY Zenon, <3>1, AcceptImplements DEF Stream!Contract!Next, Stream!Contract!Request
  <2>2. CASE ~use_async
    BY Zenon, <1>1, <1>6, <2>2 DEF Stream!out_compress_drain
  <2> QED
    BY Zenon, <2>1, <2>2
<1>7. CASE Stream!closeJoin \/ Stream!workerCrash
  BY <1>7, GoneImplements DEF Stream!closeJoin, Stream!workerCrash, Stream!Contract!Next
<1>8. CASE Stream!workerPick \/ Stream!workerAnswer
  BY <1>8, PickImplements, AnswerImplements DEF Stream!Contract!Next
<1> QED
  BY <1>2, <1>3, <1>4, <1>5, <1>6, <1>7, <1>8, ZenonT(120)
  DEF Stream!Next, Stream!PlayerInCall, Stream!WorkerNext

\* The invariant of the stream holds of the whole.
LEMMA StreamIsKept == Spec => []StreamInv
<1>1. Init => StreamInv
  BY StreamStarts DEF Init
<1>2. StreamInv /\ [Next]_vars => StreamInv'
  BY StreamKept, StreamUntouched, Zenon
  DEF Next, vars, sensorsNext, compressNext, pcmNext, pokerNext, condNext
<1> QED
  BY <1>1, <1>2, PTL DEF Spec

\* out_compress_async_fn, signal_async_thread: the compressed stream implements
\* AsyncContract.  However the player, the controller and the worker
\* interleave, each request that was accepted is answered by one callback, in
\* order, or ended by the close, and nothing else is.
THEOREM StreamImplementsAsync == Spec => ImplementsAsync
<1>1. Init => Stream!Contract!Init
  <2> SUFFICES ASSUME Init PROVE Stream!Contract!Init
    OBVIOUS
  <2>1. mode = "none" /\ request = "none" /\ tally = [asked |-> 0, answered |-> 0]
    BY DEF Init, Stream!Init
  <2>2. Stream!Owed = <<>>
    BY <2>1 DEF Stream!Owed
  <2> QED
    BY <2>1, <2>2 DEF Stream!Contract!Init
<1>2. StreamInv /\ [Next]_vars => [Stream!Contract!Next]_Stream!Contract!vars
  <2> SUFFICES ASSUME StreamInv, [Next]_vars
               PROVE  Stream!Contract!Next \/ UNCHANGED Stream!Contract!vars
    OBVIOUS
  <2>1. CASE UNCHANGED compressVars
    BY <2>1 DEF compressVars, Stream!Contract!vars, Stream!Owed
  <2>2. CASE Stream!Next
    BY <2>2, StreamStepImplements
  <2> QED
    BY <2>1, <2>2, Zenon DEF Next, vars, sensorsNext, compressNext, pcmNext, pokerNext, condNext
<1> QED
  BY <1>1, <1>2, StreamIsKept, PTL DEF Spec, ImplementsAsync, Stream!ImplementsAsync, Stream!Contract!Spec

-----------------------------------------------------------------------------
(* The PCM handle *)

HandleInv ==
    /\ Handle!TypeOK
    /\ fd \in {"none", "bad"} => maps = Handle!NoMaps
    /\ flags.mmap = FALSE => maps.buffer = "none"
    /\ opening # "no" => fd = "open"
    /\ opening = "mmap" => flags.mmap
    /\ ~Handle!pcm_is_ready => prepared = FALSE /\ running = FALSE /\ pcm_call = "none"
    /\ running => prepared /\ kernel \in {"prepared", "running", "xrun", "suspended"}
    /\ prepared /\ ~running => kernel = "prepared" \/ fell
    /\ pcm_call \in {"initial", "started"} => prepared /\ ~running

\* pcm_open, its steps, and pcm_close.
LEMMA OpenKeepsFlags ==
    ASSUME HandleInv,
           \/ \E f \in Handle!Flags : Handle!pcm_open(f)
           \/ Handle!pcm_open_step \/ Handle!pcm_open_fails \/ Handle!pcm_close
    PROVE  HandleInv'
<1>1. ASSUME NEW f \in Handle!Flags, Handle!pcm_open(f) PROVE HandleInv'
  <2>1. Handle!TypeOK'
    BY ZenonT(120), <1>1 DEF HandleInv, Handle!TypeOK, Handle!Step, Handle!pcm_open
  <2>2. maps = Handle!NoMaps /\ maps.buffer = "none" /\ UNCHANGED maps
    BY <1>1 DEF HandleInv, Handle!NoMaps, Handle!pcm_open
  <2> QED
    BY <1>1, <2>1, <2>2 DEF HandleInv, Handle!pcm_is_ready, Handle!pcm_open
<1>2. CASE Handle!pcm_open_step
  <2>1. opening' = Handle!NextStep(opening) /\ opening \in Handle!Step /\ opening # "no"
    BY <1>2 DEF HandleInv, Handle!TypeOK, Handle!pcm_open_step
  <2>2. opening' \in Handle!Step /\ (opening' = "mmap" => flags.mmap)
    BY Zenon, <2>1 DEF Handle!NextStep, Handle!Step
  <2>3. /\ maps' \in [buffer : {"none", "mapped", "gone"}, status : BOOLEAN]
        /\ flags.mmap = FALSE => maps'.buffer = "none"
    BY <1>2, SMTT(120) DEF HandleInv, Handle!TypeOK, Handle!pcm_open_step
  <2>4. UNCHANGED <<flags, fd, prepared, running, kernel, pcm_call, result, faults, fell>>
    BY <1>2, SMTT(120) DEF Handle!pcm_open_step, Handle!stream
  <2>5. Handle!TypeOK'
    BY <2>2, <2>3, <2>4, SMTT(120) DEF HandleInv, Handle!TypeOK
  <2>6. fd = "open" /\ prepared = FALSE /\ running = FALSE /\ pcm_call = "none"
    BY <2>1 DEF HandleInv, Handle!pcm_is_ready
  <2> QED
    BY <2>2, <2>3, <2>4, <2>5, <2>6 DEF HandleInv, Handle!pcm_is_ready
<1>3. CASE Handle!pcm_open_fails
  BY Zenon, <1>3 DEF HandleInv, Handle!TypeOK, Handle!pcm_is_ready,
    Handle!pcm_open_fails, Handle!Flags, Handle!Step, Handle!NoMaps
<1>4. CASE Handle!pcm_close
  <2>1. maps' = Handle!NoMaps
    <3>1. CASE fd = "bad"
      BY <1>4, <3>1 DEF HandleInv, Handle!pcm_close
    <3>2. CASE fd # "bad"
      <4>1. flags.mmap = FALSE => maps.buffer = "none"
        BY DEF HandleInv
      <4>2. flags.mmap \in BOOLEAN
        BY DEF HandleInv, Handle!TypeOK, Handle!Flags
      <4>3. maps' = [buffer |-> IF flags.mmap THEN "none" ELSE maps.buffer, status |-> FALSE]
        BY <1>4, <3>2 DEF Handle!pcm_close
      <4> QED
        BY Zenon, <4>1, <4>2, <4>3 DEF Handle!NoMaps
    <3> QED
      BY <3>1, <3>2, SMTT(120)
  <2>2. maps' \in [buffer : {"none", "mapped", "gone"}, status : BOOLEAN] /\ maps'.buffer = "none"
    BY <2>1 DEF Handle!NoMaps
  <2>3. 0 \in 0 .. MaxFaults
    BY FaultsAssumption
  <2>4. Handle!TypeOK'
    BY Zenon, <1>4, <2>2, <2>3 DEF HandleInv, Handle!TypeOK, Handle!pcm_close
  <2> QED
    BY <1>4, <2>1, <2>2, <2>4, SMTT(120) DEF HandleInv, Handle!pcm_is_ready, Handle!pcm_close
<1> QED
  BY <1>1, <1>2, <1>3, <1>4, SMTT(120)

\* Writing.
LEMMA WriteKeepsFlags ==
    ASSUME HandleInv,
           \/ Handle!pcm_writei \/ Handle!pcm_writei_prepare \/ Handle!pcm_writei_initial
           \/ Handle!pcm_writei_running
    PROVE  HandleInv'
<1>1. CASE Handle!pcm_writei
  BY <1>1 DEF HandleInv, Handle!TypeOK, Handle!pcm_is_ready,
    Handle!pcm_writei, Handle!handle
<1>2. CASE Handle!pcm_writei_prepare
  BY Zenon, <1>2 DEF HandleInv, Handle!TypeOK, Handle!pcm_is_ready,
    Handle!pcm_writei_prepare, Handle!handle, Handle!pcm_prepare, Handle!PREPARE
<1>3. CASE Handle!pcm_writei_initial
  BY Zenon, <1>3 DEF HandleInv, Handle!TypeOK, Handle!pcm_is_ready,
    Handle!pcm_writei_initial, Handle!handle, Handle!Transfers, Handle!Return
<1>4. CASE Handle!pcm_writei_running
  BY Zenon, <1>4 DEF HandleInv, Handle!TypeOK, Handle!pcm_is_ready,
    Handle!pcm_writei_running, Handle!handle, Handle!Transfers, Handle!Return
<1> QED
  BY <1>1, <1>2, <1>3, <1>4, SMTT(120)

\* Reading, stopping, and the faults of the kernel's stream.
LEMMA ReadKeepsFlags ==
    ASSUME HandleInv,
           \/ Handle!pcm_readi \/ Handle!pcm_start_prepare \/ Handle!pcm_start
           \/ Handle!pcm_readi_running \/ Handle!pcm_stop \/ Handle!Fault
    PROVE  HandleInv'
<1>1. CASE Handle!pcm_readi
  BY <1>1 DEF HandleInv, Handle!TypeOK, Handle!pcm_is_ready,
    Handle!pcm_readi, Handle!handle
<1>2. CASE Handle!pcm_start_prepare
  BY ZenonT(120), <1>2 DEF HandleInv, Handle!TypeOK, Handle!pcm_is_ready,
    Handle!pcm_start_prepare, Handle!handle, Handle!pcm_prepare, Handle!PREPARE
<1>3. CASE Handle!pcm_start
  BY ZenonT(120), <1>3 DEF HandleInv, Handle!TypeOK, Handle!pcm_is_ready,
    Handle!pcm_start, Handle!handle, Handle!Transfers, Handle!Return
<1>4. CASE Handle!pcm_readi_running
  BY Zenon, <1>4 DEF HandleInv, Handle!TypeOK, Handle!pcm_is_ready,
    Handle!pcm_readi_running, Handle!handle, Handle!Transfers, Handle!Return
<1>5. CASE Handle!pcm_stop
  BY Zenon, <1>5 DEF HandleInv, Handle!TypeOK, Handle!pcm_is_ready,
    Handle!pcm_stop, Handle!handle
<1>6. CASE Handle!Fault
  BY <1>6, FaultsAssumption DEF HandleInv, Handle!TypeOK, Handle!pcm_is_ready,
    Handle!Fault, Handle!handle
<1> QED
  BY <1>1, <1>2, <1>3, <1>4, <1>5, <1>6, SMTT(120)

\* Every step of the handle keeps its invariant.
LEMMA HandleKept == HandleInv /\ Handle!Next => HandleInv'
BY OpenKeepsFlags, WriteKeepsFlags, ReadKeepsFlags, ZenonT(120) DEF Handle!Next, Handle!Begin, Handle!InCall

\* Steps of the other parts leave the handle alone.
LEMMA HandleUntouched ==
    ASSUME HandleInv, UNCHANGED pcmVars
    PROVE  HandleInv'
<1>1. Handle!TypeOK'
  BY DEF HandleInv, Handle!TypeOK, pcmVars
<1> QED
  BY <1>1, SMTT(120) DEF HandleInv, Handle!pcm_is_ready, pcmVars

\* The parts of MCProgress begin with their nodes closed.
LEMMA HandleStarts == Handle!Init => HandleInv
<1> SUFFICES ASSUME Handle!Init PROVE HandleInv
  OBVIOUS
<1>1. maps = Handle!NoMaps /\ maps.buffer = "none"
      /\ maps \in [buffer : {"none", "mapped", "gone"}, status : BOOLEAN]
  BY DEF Handle!Init, Handle!NoMaps
<1>2. 0 \in 0 .. MaxFaults
  BY FaultsAssumption
<1>3. Handle!TypeOK
  BY Zenon, <1>1, <1>2 DEF Handle!TypeOK, Handle!Step, Handle!Init
<1> QED
  BY <1>1, <1>3, SMTT(120) DEF HandleInv, Handle!Init

\* audio_hw.c, pcm.c: a compressed stream that is paused or started has its
\* node, whatever standby, failing starts and flushes come in between; a closed
\* PCM handle holds no mapping, whichever step of pcm_open failed; and between
\* calls its flags tell the state of the kernel's stream, for any number of
\* overruns and suspends.
THEOREM NodesStayTrue == Spec => []NodesAreTrue
<1>1. Init => HandleInv
  BY HandleStarts DEF Init
<1>2. HandleInv /\ [Next]_vars => HandleInv'
  BY HandleKept, HandleUntouched, Zenon
  DEF Next, vars, sensorsNext, compressNext, pcmNext, pokerNext, condNext
<1>3. HandleInv => Handle!TypeOK /\ Handle!NothingLeaks /\ Handle!FlagsFollowStream
  BY DEF HandleInv, Handle!NothingLeaks, Handle!FlagsFollowStream
<1>4. HandleInv /\ StreamInv => NodesAreTrue
  BY Zenon, <1>3 DEF StreamInv, NodesAreTrue
<1> QED
  BY <1>1, <1>2, <1>4, StreamIsKept, PTL DEF Spec

=============================================================================
