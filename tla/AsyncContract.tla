--------------------------- MODULE AsyncContract ----------------------------
(***************************************************************************)
(* What an asynchronous output stream promises its player: every request   *)
(* that was accepted (not refused as busy) is answered by one callback of  *)
(* its own kind, in the order of acceptance, unless the stream is closed   *)
(* first; and nothing else is ever answered.                               *)
(***************************************************************************)
EXTENDS Integers, Sequences

VARIABLES owed,            \* requests accepted and not answered
          asked, answered  \* parities of the requests accepted, of the callbacks

vars == <<owed, asked, answered>>

Request == {"poll", "early drain", "full drain"}

Init == owed = <<>> /\ asked = 0 /\ answered = 0

Accept(r) == owed' = Append(owed, r) /\ asked' = 1 - asked /\ UNCHANGED answered
Answer == owed # <<>> /\ owed' = Tail(owed) /\ answered' = 1 - answered /\ UNCHANGED asked
Close == owed' = <<>> /\ asked' = 0 /\ answered' = 0

Next == Answer \/ Close \/ \E r \in Request : Accept(r)

Spec == Init /\ [][Next]_vars
=============================================================================
