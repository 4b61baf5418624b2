----------------------------- MODULE SensorMux ------------------------------
(***************************************************************************)
(* What the sensor multi-HAL promises, without rings, regions, mutexes or  *)
(* condition variables: every sub-HAL has a bounded FIFO; the events of one*)
(* poll() of the sub-HAL join the FIFO together and in order; the          *)
(* framework's poll() returns the heads of the FIFOs, each named by the    *)
(* sensor (sub-HAL and local handle) that produced it, and drops ordinary  *)
(* events of unregistered sensors.  Nothing is lost, duplicated, torn or   *)
(* reordered within a sub-HAL.                                             *)
(***************************************************************************)
EXTENDS Integers, Sequences

CONSTANTS Capacity, Sub, Event, Registered, NoSensor

VARIABLES fifo,     \* events waiting to be read, per sub-HAL
          filling,  \* events of the sub-HAL's poll() in progress
          out       \* result of the framework's poll() in progress or last done

muxVars == <<fifo, filling, out>>

Init ==
    /\ fifo = [w \in Sub |-> <<>>]
    /\ filling = [w \in Sub |-> <<>>]
    /\ out = <<>>

Store(w, e) ==
    /\ Len(fifo[w]) + Len(filling[w]) < Capacity
    /\ filling' = [filling EXCEPT ![w] = Append(@, e)]
    /\ UNCHANGED <<fifo, out>>

Fail(w) ==
    /\ filling' = [filling EXCEPT ![w] = <<>>]
    /\ UNCHANGED <<fifo, out>>

Commit(w) ==
    /\ filling[w] # <<>>
    /\ fifo' = [fifo EXCEPT ![w] = @ \o filling[w]]
    /\ filling' = [filling EXCEPT ![w] = <<>>]
    /\ UNCHANGED out

Named(w, e) ==
    [meta |-> e.meta,
     sensor |-> IF <<w, e.handle>> \in Registered THEN <<w, e.handle>> ELSE NoSensor]

Take(w) ==
    LET d == Named(w, Head(fifo[w]))
    IN  /\ fifo[w] # <<>>
        /\ fifo' = [fifo EXCEPT ![w] = Tail(@)]
        /\ out' = IF ~d.meta /\ d.sensor = NoSensor THEN out ELSE Append(out, d)
        /\ UNCHANGED filling

NewPoll == out' = <<>> /\ UNCHANGED <<fifo, filling>>

Next ==
    \/ \E w \in Sub : (\E e \in Event : Store(w, e)) \/ Fail(w) \/ Commit(w) \/ Take(w)
    \/ NewPoll

Spec == Init /\ [][Next]_muxVars
=============================================================================
