----------------------------- MODULE PowerHints -----------------------------
(***************************************************************************)
(* Power hints (hardware/nvidia/power: nvpowerhal.cpp, power.cpp): a hint  *)
(* is refused while it comes too soon after the last one of its kind;      *)
(* otherwise it asks the timeout poker for PM QoS requests of limited      *)
(* time.  The VSYNC hint holds a request of its own, until it is taken     *)
(* back.  The HAL is called by one thread at a time; the pokers' threads   *)
(* run beside it.                                                          *)
(*                                                                         *)
(* The unit of time is half a second.  hint_time is kept as the time since *)
(* it, up to the hint's interval: a longer time, or never, is no different.*)
(***************************************************************************)
EXTENDS Integers, Sequences, FiniteSets, FiniteSetsExt, SequencesExt, TLC

CONSTANTS Hints,     \* the hints the framework sends
          Missing,   \* PM QoS nodes this kernel does not have
          InitBoost, \* time of the boost at initialisation
          MaxFd, Lag \* bounds of the timeout poker

Node == {"cpu", "cores", "gpu", "emc"}

Poker == 1..2

VARIABLES pInfo,   \* "none", "opened" or "initialised"
          cur,     \* mTimeoutPoker: the poker in use, 0 before the first
          age,     \* time since hint_time
          junk,    \* hint_time was never written (memory from malloc)
          vsync,   \* fds.vsync_min_cpu
          lost,    \* VSYNC descriptors overwritten by common_power_open
          box, fds, handles, caller

vars == <<pInfo, cur, age, junk, vsync, lost, box, fds, handles, caller>>

P == INSTANCE TimeoutPoker WITH Client <- {}, Timeout <- 1..InitBoost

hint_interval ==
  [vsync |-> 0, interaction |-> 1, launch |-> 3, decode |-> 1, encode |-> 1, low_power |-> 0]

Ages == {a \in [Hints -> 0..3] : \A h \in Hints : a[h] <= hint_interval[h]}

(* The requests of a hint, in the order they are pushed: node and time.    *)
Requests ==
  [vsync       |-> <<>>,
   interaction |-> <<>>,
   launch      |-> <<<<"cpu", 3>>, <<"cores", 3>>, <<"gpu", 3>>, <<"emc", 3>>>>,
   encode      |-> <<<<"cores", 2>>, <<"cpu", 2>>>>,
   decode      |-> <<<<"cores", 2>>, <<"cpu", 2>>>>,
   low_power   |-> <<>>]

-----------------------------------------------------------------------------
(* Mutants *)

requestPmQosTimed_short(b, h, r) == P!pushEvent(b, P!TimedEvent(r[1], r[2] - 1, h))
-----------------------------------------------------------------------------
requestPmQosTimed(b, h, r) == P!pushEvent(b, P!TimedEvent(r[1], r[2], h))

(* The hint goes through unless the last one is younger than its interval. *)
check_hint(h) == age[h] >= hint_interval[h]

(* common_power_open: a new poker, whose thread is running when its        *)
(* barrier opens; the intervals; and descriptors that are all forgotten.   *)
common_power_open ==
  /\ cur < 2
  /\ cur' = cur + 1
  /\ vsync' = -1
  /\ lost' = lost + (IF vsync = -1 THEN 0 ELSE 1)

shield_power_open ==
  /\ pInfo = "none"
  /\ common_power_open
  /\ pInfo' = "opened"
  /\ UNCHANGED <<age, junk, box, fds, handles, caller>>

(* malloc leaves hint_time as it is; memory from the open call stays.      *)
(* common_power_init opens again, and boosts the CPU for the boot.         *)
shield_power_init ==
  /\ common_power_open
  /\ pInfo' = "initialised"
  /\ \/ pInfo # "none" /\ UNCHANGED <<age, junk>>
     \/ /\ pInfo = "none"
        /\ age' \in Ages
        /\ junk' = [h \in Hints |-> TRUE]
  /\ box' = [box EXCEPT ![cur'] = requestPmQosTimed(@, "init", <<"cpu", InitBoost>>)]
  /\ UNCHANGED <<fds, handles, caller>>

(* requestPmQos opens the node on the caller's thread.                     *)
set_vsync_min_cpu_freq(enabled) ==
  \/ LET fd == Min(P!FreeFds)
     IN /\ enabled /\ vsync = -1 /\ "cpu" \notin Missing
        /\ vsync' = fd
        /\ fds' = (fd :> [node |-> "cpu", by |-> "vsync"]) @@ fds
  \/ /\ ~enabled /\ vsync # -1
     /\ vsync' = -1
     /\ fds' = P!Drop(fds, vsync)
  \/ /\ IF enabled THEN vsync # -1 \/ "cpu" \in Missing ELSE vsync = -1
     /\ UNCHANGED <<vsync, fds>>

common_power_hint(h) ==
  /\ pInfo # "none"
  /\ check_hint(h)
  /\ \/ h = "vsync" /\ \E enabled \in BOOLEAN : set_vsync_min_cpu_freq(enabled)
     \/ h # "vsync" /\ UNCHANGED <<vsync, fds>>
  /\ box' = [box EXCEPT ![cur] =
       FoldLeft(LAMBDA b, r : requestPmQosTimed(b, h, r), @, Requests[h])]
  /\ age' = [age EXCEPT ![h] = 0]
  /\ junk' = [junk EXCEPT ![h] = FALSE]
  /\ UNCHANGED <<pInfo, cur, lost, handles, caller>>

threadLoop(p) ==
  /\ P!handleMessage(p)
  /\ UNCHANGED <<pInfo, cur, age, junk, vsync, lost>>

Tick ==
  /\ P!Tick
  /\ age' = [h \in Hints |-> Min({age[h] + 1, hint_interval[h]})]
  /\ UNCHANGED <<pInfo, cur, junk, vsync, lost>>

Init ==
  /\ pInfo = "none"
  /\ cur = 0
  /\ age = [h \in Hints |-> hint_interval[h]]
  /\ junk = [h \in Hints |-> FALSE]
  /\ vsync = -1
  /\ lost = 0
  /\ P!Init

Next ==
  \/ shield_power_open
  \/ shield_power_init
  \/ \E h \in Hints : common_power_hint(h)
  \/ \E p \in Poker : threadLoop(p)
  \/ Tick

Spec == Init /\ [][Next]_vars

-----------------------------------------------------------------------------
TypeOK ==
  /\ P!TypeOK
  /\ pInfo \in {"none", "opened", "initialised"}
  /\ cur \in 0..2
  /\ age \in Ages
  /\ vsync \in {-1} \cup DOMAIN fds
  /\ lost \in 0..1

(* A hint is refused only while the boost of an earlier one of its kind is *)
(* still in force, or about to be: no node of the hint is left without a   *)
(* request.  (Not while hint_time is what malloc found.)                   *)
RefusedHintsAreCovered ==
  \A h \in Hints : ~check_hint(h) /\ ~junk[h] =>
    \A i \in DOMAIN Requests[h] :
      LET n == Requests[h][i][1]
      IN \/ n \in Missing
         \/ \E fd \in DOMAIN fds : fds[fd] = [node |-> n, by |-> h]
         \/ \E p \in Poker : \E k \in DOMAIN box[p].events :
              /\ box[p].events[k].kind = "timed"
              /\ box[p].events[k].node = n
              /\ box[p].events[k].by = h

(* The CPU floor of the VSYNC hint is held once while the hint is on and   *)
(* given back when it goes off, however often it is repeated; the          *)
(* descriptors that a second common_power_open overwrites stay open for    *)
(* good.                                                                   *)
VsyncFloorOnce ==
  /\ Cardinality({fd \in DOMAIN fds : fds[fd].by = "vsync"})
       = lost + (IF vsync = -1 THEN 0 ELSE 1)
  /\ vsync # -1 => fds[vsync].by = "vsync"
=============================================================================
