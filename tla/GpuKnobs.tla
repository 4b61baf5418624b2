------------------------------ MODULE GpuKnobs ------------------------------
(***************************************************************************)
(* Power policy by power supply (hardware/nvidia/power/power.cpp,          *)
(* set_power_level_floor and below): with a supply on the list the GPU's   *)
(* power saving knobs are turned on, with any other they are turned off.   *)
(* While the HAL is booting each change is made by a thread of its own,    *)
(* which waits for the GPU first; later by the caller itself.              *)
(***************************************************************************)
EXTENDS Integers, Sequences, SequencesExt

CONSTANT MaxThreads   \* knob threads at a time

Knob == {"elpg", "slcg", "blcg", "elcg"}

VARIABLES platform,  \* only "darcy" has this policy
          booting,
          knob,      \* the nodes
          rail,      \* railgate_enable
          threads,   \* knob threads: [on, waits, left, inline]
          floor,     \* frequency limits last written
          want,      \* what the last call asked for
          raced,     \* a call came while a thread was still busy
          skipped    \* a thread found that the GPU was not ready

vars == <<platform, booting, knob, rail, threads, floor, want, raced, skipped>>

OnOrder == <<"elcg", "blcg", "slcg", "elpg">>

-----------------------------------------------------------------------------
OffOrder == <<"elpg", "slcg", "blcg", "elcg">>

already_set(on) == knob["elpg"] = on

Busy == \E i \in DOMAIN threads : threads[i].inline

set_gpu_knobs(on) ==
  IF already_set(on) THEN threads' = threads
  ELSE threads' = Append(threads,
         [on     |-> on,
          waits  |-> IF on THEN "ready" ELSE "sysfs",
          left   |-> IF on THEN OnOrder ELSE OffOrder,
          inline |-> ~booting])

(* A whitelisted supply: knobs on first, then the floors; any other: the   *)
(* floors of the display's state first, then the knobs off.                *)
set_power_level_floor(on, listed) ==
  /\ ~Busy
  /\ Len(threads) < MaxThreads
  /\ IF platform # "darcy" THEN UNCHANGED <<threads, floor, want, raced>>
     ELSE /\ set_gpu_knobs(listed)
          /\ floor' = IF listed THEN "whitelist" ELSE IF on THEN "on" ELSE "idle"
          /\ want' = [set |-> TRUE, on |-> listed]
          /\ raced' = (raced \/ threads # <<>>)
  /\ UNCHANGED <<platform, booting, knob, rail, skipped>>

(* set_gpu_power_knobs_off waits for the GPU's nodes, and takes its rail   *)
(* out of gating, before it waits for the GPU.                             *)
gpuSysfs(i) ==
  /\ threads[i].waits = "sysfs"
  /\ rail' = FALSE
  /\ threads' = [threads EXCEPT ![i].waits = "ready"]
  /\ UNCHANGED <<platform, booting, knob, floor, want, raced, skipped>>

gpuReady(i) ==
  /\ threads[i].waits = "ready"
  /\ threads' = [threads EXCEPT ![i].waits = "no"]
  /\ UNCHANGED <<platform, booting, knob, rail, floor, want, raced, skipped>>

(* Both waits give up after a while.                                       *)
gpuNotReady(i) ==
  /\ threads[i].waits # "no"
  /\ threads' = RemoveAt(threads, i)
  /\ skipped' = TRUE
  /\ UNCHANGED <<platform, booting, knob, rail, floor, want, raced>>

(* One write after the other; the last one ends the boot.                  *)
writeKnob(i) ==
  LET t == threads[i]
  IN /\ t.waits = "no" /\ t.left # <<>>
     /\ knob' = [knob EXCEPT ![Head(t.left)] = t.on]
     /\ threads' = [threads EXCEPT ![i].left = Tail(@)]
     /\ UNCHANGED <<platform, booting, rail, floor, want, raced, skipped>>

threadEnds(i) ==
  /\ threads[i].waits = "no" /\ threads[i].left = <<>>
  /\ booting' = FALSE
  /\ threads' = RemoveAt(threads, i)
  /\ UNCHANGED <<platform, knob, rail, floor, want, raced, skipped>>

shield_power_init ==
  /\ ~Busy /\ ~booting
  /\ booting' = TRUE
  /\ UNCHANGED <<platform, knob, rail, threads, floor, want, raced, skipped>>

Init ==
  /\ platform \in {"darcy", "other"}
  /\ booting = FALSE
  /\ knob \in {[k \in Knob |-> TRUE], [k \in Knob |-> FALSE]}
  /\ rail = TRUE
  /\ threads = <<>>
  /\ floor = "default"
  /\ want = [set |-> FALSE, on |-> FALSE]
  /\ raced = FALSE
  /\ skipped = FALSE

Next ==
  \/ shield_power_init
  \/ \E on, listed \in BOOLEAN : set_power_level_floor(on, listed)
  \/ \E i \in DOMAIN threads :
       gpuSysfs(i) \/ gpuReady(i) \/ gpuNotReady(i) \/ writeKnob(i) \/ threadEnds(i)

Spec == Init /\ [][Next]_vars

-----------------------------------------------------------------------------
TypeOK ==
  /\ Len(threads) <= MaxThreads
  /\ \A i \in DOMAIN threads : Len(threads[i].left) <= Len(OnOrder)
  /\ knob \in [Knob -> BOOLEAN]
  /\ platform # "darcy" => threads = <<>> /\ floor = "default"

(* With no thread at work, the knobs all stand as the last call wanted     *)
(* them, unless that call came while a thread was still waiting or         *)
(* writing: set_gpu_knobs looks at ELPG only, which that thread is about   *)
(* to change, and two threads may write at the same time.  Nor if a thread *)
(* gave up waiting for the GPU.                                            *)
KnobsFollowPolicy ==
  threads = <<>> /\ want.set /\ ~raced /\ ~skipped =>
    \A k \in Knob : knob[k] = want.on

=============================================================================
