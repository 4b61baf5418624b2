--------------------------- MODULE CameraContract ---------------------------
(***************************************************************************)
(* What the camera HAL promises the framework about one capture request    *)
(* after another: a request that is accepted gets at most one shutter or   *)
(* error notification, then exactly one result with its buffer; the buffer *)
(* is good only after a shutter; a request that is refused gets no         *)
(* callback at all.  flush() may run at any time and changes none of this. *)
(***************************************************************************)
EXTENDS Sequences

VARIABLES busy,  \* whether a request is being processed
          calls  \* the callbacks made for the request, in order

contractVars == <<busy, calls>>

Init == busy = FALSE /\ calls = <<>>

Accept == ~busy /\ busy' = TRUE /\ calls' = <<>>

Notify(message) ==
    /\ busy /\ calls = <<>>
    /\ calls' = <<message>>
    /\ UNCHANGED busy

\* The result is the last callback, and the call returns 0.
Complete(status) ==
    /\ busy
    /\ status = "OK" => calls = <<"SHUTTER">>
    /\ calls' = Append(calls, status)
    /\ busy' = FALSE

\* The call returns an error: the framework takes the buffer back.
Refuse == (busy => calls = <<>>) /\ busy' = FALSE /\ calls' = <<>>

Next ==
    \/ Accept \/ Refuse
    \/ \E m \in {"SHUTTER", "ERROR_DEVICE"} : Notify(m)
    \/ \E s \in {"OK", "ERROR"} : Complete(s)

Spec == Init /\ [][Next]_contractVars
=============================================================================
