------------------------------ MODULE Vibrator ------------------------------
(***************************************************************************)
(* The vibrator HAL (hidl/vibrator/Vibrator.cpp): two nodes written        *)
(* through ofstreams that are never cleared once a write has failed.       *)
(***************************************************************************)
EXTENDS Integers

CONSTANT Amplitudes   \* amplitudes clients ask for, of 0..255

MAX_INTENSITY == 127
MIN_INTENSITY == 1

VARIABLES motor,      \* the enable node: "off" or "on"
          intensity,  \* the pwmvalue node
          bad,        \* streams in a bad state
          answer      \* of the last call: [op, status, arg]

vars == <<motor, intensity, bad, answer>>

-----------------------------------------------------------------------------
(* lround((amplitude - 1) / 254.0 * 126 + 1)                               *)
setAmplitude_scale(a) ==
  (2 * (a - 1) * (MAX_INTENSITY - MIN_INTENSITY) + 254) \div 508 + MIN_INTENSITY

Answer(op, status, arg) == [op |-> op, status |-> status, arg |-> arg]

status(failed) == IF failed THEN "UNKNOWN_ERROR" ELSE "OK"

(* A write to mEnable: it fails when the stream is bad, or becomes so.     *)
write(op, value, report) ==
  \E failed \in BOOLEAN :
    /\ "enable" \in bad => failed
    /\ motor' = IF failed THEN motor ELSE value
    /\ bad' = IF failed THEN bad \cup {"enable"} ELSE bad
    /\ answer' = Answer(op, report[failed], 0)
    /\ UNCHANGED intensity

on == write("on", "on", [failed \in BOOLEAN |-> status(failed)])

off == write("off", "off", [failed \in BOOLEAN |-> status(failed)])

(* A click turns the motor on, and says OK whatever on() said.             *)
perform == write("perform", "on", [failed \in BOOLEAN |-> "OK"])

setAmplitude(a) ==
  \/ /\ a = 0
     /\ answer' = Answer("amplitude", "BAD_VALUE", a)
     /\ UNCHANGED <<motor, intensity, bad>>
  \/ /\ a # 0
     /\ \E failed \in BOOLEAN :
          /\ "amplitude" \in bad => failed
          /\ intensity' = IF failed THEN intensity ELSE setAmplitude_scale(a)
          /\ bad' = IF failed THEN bad \cup {"amplitude"} ELSE bad
          /\ answer' = Answer("amplitude", status(failed), a)
     /\ UNCHANGED motor

(* The motor stops by itself when its time is over.                        *)
timedOutput ==
  /\ motor = "on"
  /\ motor' = "off"
  /\ answer' = Answer("none", "OK", 0)
  /\ UNCHANGED <<intensity, bad>>

Init ==
  /\ motor = "off"
  /\ intensity = 0
  /\ bad = {}
  /\ answer = Answer("none", "OK", 0)

Next == on \/ off \/ perform \/ (\E a \in Amplitudes : setAmplitude(a)) \/ timedOutput

Spec == Init /\ [][Next]_vars

-----------------------------------------------------------------------------
TypeOK == motor \in {"on", "off"} /\ bad \subseteq {"enable", "amplitude"}

(* The status tells what the motor does: off() that says OK has stopped    *)
(* it, on() that says OK has started it.                                   *)
StatusIsTrue ==
  /\ answer.op = "off" /\ answer.status = "OK" => motor = "off"
  /\ answer.op = "on" /\ answer.status = "OK" => motor = "on"

(* Amplitudes 1 to 255 cover the intensities from MIN_INTENSITY to         *)
(* MAX_INTENSITY, both ends exactly, and two amplitudes in a row are at    *)
(* most one intensity apart.                                               *)
AmplitudeScales ==
  answer.op = "amplitude" /\ answer.status = "OK" =>
    /\ intensity \in MIN_INTENSITY..MAX_INTENSITY
    /\ answer.arg = 1 => intensity = MIN_INTENSITY
    /\ answer.arg = 255 => intensity = MAX_INTENSITY
    /\ answer.arg > 1 => intensity - setAmplitude_scale(answer.arg - 1) \in {0, 1}
=============================================================================
