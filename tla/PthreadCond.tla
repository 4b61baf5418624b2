---------------------------- MODULE PthreadCond ----------------------------
(***************************************************************************)
(* The condition variables of libmocha/bionic/pthread_cond.cpp, on top of  *)
(* a futex.  The word holds two flags and, above them, a counter that      *)
(* every signal and broadcast moves on; a waiter sleeps only while the     *)
(* word is still what it read before it gave up the mutex.                 *)
(*                                                                         *)
(* The word has Width bits (32 in the code), so that the counter's         *)
(* overflow is reached.                                                    *)
(***************************************************************************)
EXTENDS Integers, FiniteSets

CONSTANTS Waiter, Signaller, Width, MaxPulses

Word == 2 ^ Width

COND_COUNTER_STEP == 4

COND_FLAGS == 4   \* word % COND_FLAGS are the flags

VARIABLES word,    \* cond->state
          attr,    \* the flags it was initialised with
          mutex,   \* its holder, or "free"
          pc,      \* per waiter: "run", "loaded", "unlocked", "sleep", "woken"
          old,     \* per waiter: old_state
          since,   \* per waiter: pulses since old_state was read
          fooled,  \* per waiter: went to sleep although it was pulsed
          waking,  \* per signaller, between its two steps: how many it is to
                   \* wake, and who has been waiting since the first
          pulses   \* pulses so far (bound)

vars == <<word, attr, mutex, pc, old, since, fooled, waking, pulses>>

-----------------------------------------------------------------------------
(* Mutants *)

fetch_add_small(w) == (w + 2) % Word

pulse_wake_one(s) ==
  /\ waking[s].n # "none"
  /\ \E t \in Waiter :
       /\ pc' = IF pc[t] = "sleep" THEN [pc EXCEPT ![t] = "woken"] ELSE pc
       /\ fooled' = [fooled EXCEPT ![t] = FALSE]
  /\ waking' = [waking EXCEPT ![s] = [n |-> "none", waiting |-> {}]]
  /\ UNCHANGED <<word, attr, mutex, old, since, pulses>>
-----------------------------------------------------------------------------
fetch_add(w) == (w + COND_COUNTER_STEP) % Word

pthread_mutex_lock(t) ==
  /\ mutex = "free"
  /\ \/ pc[t] = "woken" /\ pc' = [pc EXCEPT ![t] = "run"]
     \/ pc[t] = "run" /\ pc' = pc
  /\ mutex' = t
  /\ UNCHANGED <<word, attr, old, since, fooled, waking, pulses>>

(* __pthread_cond_timedwait_relative: read the word, then give up the      *)
(* mutex, then wait.                                                       *)
cond_load(t) ==
  /\ pc[t] = "run" /\ mutex = t
  /\ old' = [old EXCEPT ![t] = word]
  /\ since' = [since EXCEPT ![t] = 0]
  /\ pc' = [pc EXCEPT ![t] = "loaded"]
  /\ waking' = [s \in Signaller |-> [waking[s] EXCEPT !.waiting = @ \ {t}]]
  /\ UNCHANGED <<word, attr, mutex, fooled, pulses>>

cond_unlock(t) ==
  /\ pc[t] = "loaded"
  /\ mutex' = "free"
  /\ pc' = [pc EXCEPT ![t] = "unlocked"]
  /\ UNCHANGED <<word, attr, old, since, fooled, waking, pulses>>

(* The kernel's test, under its own lock.                                  *)
sleeps(t) == word = old[t]

futex_wait(t) ==
  /\ pc[t] = "unlocked"
  /\ pc' = [pc EXCEPT ![t] = IF sleeps(t) THEN "sleep" ELSE "woken"]
  /\ fooled' = [fooled EXCEPT ![t] = sleeps(t) /\ since[t] > 0]
  /\ UNCHANGED <<word, attr, mutex, old, since, waking, pulses>>

(* A timed wait may end by itself; the mutex is taken again all the same.  *)
timeout(t) ==
  /\ pc[t] = "sleep"
  /\ pc' = [pc EXCEPT ![t] = "woken"]
  /\ fooled' = [fooled EXCEPT ![t] = FALSE]
  /\ UNCHANGED <<word, attr, mutex, old, since, waking, pulses>>

waits(t) == pc[t] \in {"loaded", "unlocked", "sleep"}

Idle == [n |-> "none", waiting |-> {}]

(* __pthread_cond_pulse: move the counter on, then wake.                   *)
pulse_add(s, n) ==
  /\ waking[s].n = "none" /\ pulses < MaxPulses
  /\ word' = fetch_add(word)
  /\ since' = [t \in Waiter |-> since[t] + 1]
  /\ waking' = [waking EXCEPT ![s] = [n |-> n, waiting |-> {t \in Waiter : waits(t)}]]
  /\ pulses' = pulses + 1
  /\ UNCHANGED <<attr, mutex, pc, old, fooled>>

pulse_wake(s) ==
  /\ waking[s].n # "none"
  /\ LET asleep == {t \in Waiter : pc[t] = "sleep"}
     IN \E w \in SUBSET asleep :
          /\ IF waking[s].n = "all" THEN w = asleep
             ELSE Cardinality(w) = IF asleep = {} THEN 0 ELSE 1
          /\ pc' = [t \in Waiter |-> IF t \in w THEN "woken" ELSE pc[t]]
          /\ fooled' = [t \in Waiter |-> fooled[t] /\ t \notin w]
  /\ waking' = [waking EXCEPT ![s] = Idle]
  /\ UNCHANGED <<word, attr, mutex, old, since, pulses>>

(* pthread_cond_init, with the flags of its attributes.                    *)
Init ==
  /\ attr \in 0..COND_FLAGS - 1
  /\ word = attr
  /\ mutex = "free"
  /\ pc = [t \in Waiter |-> "run"]
  /\ old = [t \in Waiter |-> 0]
  /\ since = [t \in Waiter |-> 0]
  /\ fooled = [t \in Waiter |-> FALSE]
  /\ waking = [s \in Signaller |-> Idle]
  /\ pulses = 0

waiterNext(t) ==
  pthread_mutex_lock(t) \/ cond_load(t) \/ cond_unlock(t) \/ futex_wait(t)

Next ==
  \/ \E t \in Waiter : waiterNext(t) \/ timeout(t)
  \/ \E s \in Signaller : (\E n \in {"one", "all"} : pulse_add(s, n)) \/ pulse_wake(s)

Fairness ==
  /\ \A s \in Signaller : WF_vars(pulse_wake(s))
  /\ \A t \in Waiter : WF_vars(waiterNext(t))

Spec == Init /\ [][Next]_vars /\ Fairness

-----------------------------------------------------------------------------
TypeOK ==
  /\ word \in 0..Word - 1
  /\ mutex \in Waiter \cup {"free"}
  /\ \A t \in Waiter : pc[t] \in {"run", "loaded", "unlocked", "sleep", "woken"}

(* "The increase of value should leave flags alone, even if the value can  *)
(* overflows": the clock and the shared flag are those of pthread_cond_init*)
(* for good.                                                               *)
FlagsStay == word % COND_FLAGS = attr

(* A waiter sleeps through a pulse that came after it read the word only   *)
(* when the counter went all the way round in between.                     *)
FooledOnlyByOverflow ==
  \A t \in Waiter : fooled[t] => since[t] >= Word \div COND_COUNTER_STEP

(* A broadcast reaches everyone who waits: a thread that has read the word *)
(* before the broadcast gets out of its wait, unless it was fooled.        *)
BroadcastReachesAll ==
  \A t \in Waiter, s \in Signaller :
    (waking[s].n = "all" /\ t \in waking[s].waiting /\ waits(t)) ~> (~waits(t) \/ fooled[t])
=============================================================================
