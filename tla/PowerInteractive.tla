-------------------------- MODULE PowerInteractive --------------------------
(***************************************************************************)
(* The display goes on and off (hardware/nvidia/power: nvpowerhal.cpp,     *)
(* power.cpp, tegra_sata_hal.cpp): shield_power_set_interactive turns the  *)
(* input devices the HAL knows of on and off, sets the governor, and lets  *)
(* the hard disk of the devices that have one spin down.                   *)
(*                                                                         *)
(* Which input devices it knows depends on how the HAL was started: opened,*)
(* it counts them and takes all; initialised, it takes the ones of its     *)
(* table whose name it found.  Writes to the disk's nodes may fail.        *)
(***************************************************************************)
EXTENDS Integers, Sequences, FiniteSets, FiniteSetsExt

CONSTANTS Names,   \* names of the input devices, in the order they appear
          Table    \* names in input_devs

VARIABLES pInfo,      \* "none", "opened" or "initialised"
          count,      \* input devices there are now
          input_cnt,  \* input devices counted by common_power_open
          dev_id,     \* input_devs: name -> input number, -1 when not found
          enabled,    \* per input device
          governor,   \* interactive governor: "default", "on" or "off"
          display,    \* the last call: on or off
          moved,      \* the HAL changed its set of devices while they were off
          hdd         \* the disk: power/control, autosuspend_delay_ms, host's control

vars == <<pInfo, count, input_cnt, dev_id, enabled, governor, display, moved, hdd>>

Devices == 1..Len(Names)

-----------------------------------------------------------------------------
(* Looks for the names that have no number yet.                            *)
find_input_device_ids(ids) ==
  [n \in Table |-> LET is == {i \in 1..count : Names[i] = n}
                   IN IF ids[n] # -1 \/ is = {} THEN ids[n] ELSE Min(is)]

(* get_input_count, when there is no table.                                *)
shield_power_open ==
  /\ pInfo = "none"
  /\ pInfo' = "opened"
  /\ input_cnt' = count
  /\ moved' = (moved \/ \E d \in Devices : ~enabled[d])
  /\ UNCHANGED <<count, dev_id, enabled, governor, display, hdd>>

shield_power_init ==
  /\ pInfo' = "initialised"
  /\ dev_id' = find_input_device_ids(dev_id)
  /\ moved' = (moved \/ \E d \in Devices : ~enabled[d])
  /\ UNCHANGED <<count, input_cnt, enabled, governor, display, hdd>>

Known ==
  CASE pInfo = "none"   -> {}
    [] pInfo = "opened" -> 1..input_cnt
    [] OTHER            -> {dev_id[n] : n \in Table} \ {-1}

setInputs(on) == [d \in Devices |-> IF d \in Known THEN on ELSE enabled[d]]

(* Each step may fail, and ends the call; what was written stays.          *)
hdd_set_standby_timer(h) ==
  {h, [h EXCEPT !.power = "auto"], [h EXCEPT !.power = "auto", !.delay = "60s"],
   [power |-> "auto", delay |-> "60s", host |-> "auto"]}

hdd_disable_standby_timer(h) ==
  {h, [h EXCEPT !.power = "on"], [h EXCEPT !.power = "on", !.host = "on"]}

shield_power_set_interactive(on) ==
  /\ enabled' = setInputs(on)
  /\ governor' = IF on THEN "on" ELSE "off"
  /\ display' = on
  /\ moved' = (moved /\ \E d \in Devices : ~enabled'[d])
  /\ hdd' \in IF on THEN hdd_disable_standby_timer(hdd) ELSE hdd_set_standby_timer(hdd)
  /\ UNCHANGED <<pInfo, count, input_cnt, dev_id>>

(* An input driver registers its device.                                   *)
probe ==
  /\ count < Len(Names)
  /\ count' = count + 1
  /\ UNCHANGED <<pInfo, input_cnt, dev_id, enabled, governor, display, moved, hdd>>

Init ==
  /\ pInfo = "none"
  /\ count \in 0..Len(Names)
  /\ input_cnt = 0
  /\ dev_id = [n \in Table |-> -1]
  /\ enabled = [d \in Devices |-> TRUE]
  /\ governor = "default"
  /\ display = TRUE
  /\ moved = FALSE
  /\ hdd = [power |-> "on", delay |-> "default", host |-> "on"]

Next ==
  \/ shield_power_open
  \/ shield_power_init
  \/ \E on \in BOOLEAN : shield_power_set_interactive(on)
  \/ probe

Spec == Init /\ [][Next]_vars

-----------------------------------------------------------------------------
TypeOK ==
  /\ pInfo \in {"none", "opened", "initialised"}
  /\ input_cnt <= count /\ count <= Len(Names)
  /\ \A n \in Table : dev_id[n] = -1 \/ (dev_id[n] \in 1..count /\ Names[dev_id[n]] = n)
  /\ enabled \in [Devices -> BOOLEAN]

(* When the display is on no input device is left disabled: what one call  *)
(* of set_interactive turned off another turns on, unless the HAL was      *)
(* opened or initialised in between, and knows other devices now.          *)
InputsComeBack == display /\ ~moved => \A d \in Devices : enabled[d]

(* The disk may spin down by itself only once it has the long delay: the   *)
(* host's control is not "auto" with the delay the driver started with,    *)
(* whichever step of hdd_set_standby_timer fails.                          *)
StandbyNeedsDelay == hdd.host = "auto" => hdd.delay = "60s"

(* The HAL writes only to devices it was told of: once initialised, a      *)
(* device that is not in the table keeps its state.                        *)
OnlyTableDevices ==
  [][pInfo = "initialised" =>
       \A d \in Devices : Names[d] \notin Table => enabled'[d] = enabled[d]]_vars
=============================================================================
