------------------------------- MODULE Lights -------------------------------
(***************************************************************************)
(* The light HAL (hidl/light/Light.cpp).  One LED serves notifications,    *)
(* attention and battery, in this order of priority, and either shows a    *)
(* colour or blinks with the LED controller's engines; the LCD and the     *)
(* button backlights are separate.  The setters hold mLock.                *)
(*                                                                         *)
(* A node is written through an ofstream: once a write fails its state is  *)
(* bad and every later write is dropped, since nobody clears it.           *)
(***************************************************************************)
EXTENDS Integers, FiniteSets, FiniteSetsExt, TLC

CONSTANTS Colors,     \* colours clients ask for, <<r, g, b>>
          Nearest,    \* nearest_color: colour -> colour of the table
          MaxLcd,     \* max_brightness of the panel
          MaxBad      \* streams that may go bad

Speaker == {"notifications", "attention", "battery"}

LedStream == {"red", "green", "blue", "run", "engine"}

VARIABLES state,   \* per type: colour and whether flashing is TIMED
          led,     \* the nodes: red, green, blue, run
          engine,  \* led_select_engine, the last one written (0: none)
          lcd,     \* brightness written, and the colour it was asked as
          bad      \* streams in a bad state

vars == <<state, led, engine, lcd, bad>>

Black == <<0, 0, 0>>

Off == [red |-> 0, green |-> 0, blue |-> 0, run |-> 0]

Dark == [color |-> Black, timed |-> FALSE]

-----------------------------------------------------------------------------
(* Mutants *)

setSpeakerLightLocked_keepsEngine(s) ==
  IF s.timed THEN [Off EXCEPT !.run = 1]
  ELSE [led EXCEPT !.red = s.color[1], !.green = s.color[2], !.blue = s.color[3]]

-----------------------------------------------------------------------------
rgbToBrightness(c) == (77 * c[1] + 150 * c[2] + 29 * c[3]) \div 256

isLit(s) == s.color # Black

(* All off; then a blinking light runs the engine, any other is shown.     *)
setSpeakerLightLocked(s) ==
  IF s.timed THEN [Off EXCEPT !.run = 1]
  ELSE [red |-> s.color[1], green |-> s.color[2], blue |-> s.color[3], run |-> 0]

(* The engines of the components that are on, one after the other: the     *)
(* last one stays selected.  The table has colours with no component.      *)
selectEngine(s) ==
  LET c == Nearest[s.color]
      on == {k \in 1..3 : c[k] > 0}
  IN IF ~s.timed \/ on = {} THEN engine ELSE Max(on)

Top(st) ==
  CASE isLit(st["notifications"]) -> st["notifications"]
    [] isLit(st["attention"])     -> st["attention"]
    [] isLit(st["battery"])       -> st["battery"]
    [] OTHER                      -> Dark

(* What the LED is to be, for a state of the three lights.                 *)
setSpeakerBatteryLightLocked(st) ==
  IF isLit(Top(st)) THEN setSpeakerLightLocked(Top(st)) ELSE Off

(* Some streams go bad during a call.                                      *)
goBad(streams) ==
  \E b \in SUBSET streams : Cardinality(bad \cup b) <= MaxBad /\ bad' = bad \cup b

(* setAttentionLight, setBatteryLight, setNotificationLight, called by     *)
(* setLight.  A stream that goes bad may do so at the write that turns its *)
(* node off or at the one after it.                                        *)
setLight(type, s) ==
  LET new == [state EXCEPT ![type] = s]
  IN /\ state' = new
     /\ goBad(LedStream)
     /\ \E late \in BOOLEAN :
          led' = [n \in DOMAIN led |->
                    IF n \notin bad' THEN setSpeakerBatteryLightLocked(new)[n]
                    ELSE IF n \notin bad /\ late THEN Off[n] ELSE led[n]]
     /\ engine' = IF isLit(Top(new)) /\ "engine" \notin bad'
                  THEN selectEngine(Top(new)) ELSE engine
     /\ UNCHANGED lcd

(* setLcdBacklight; setButtonsBacklight does the same to its own node.     *)
setLcdBacklight(c) ==
  /\ goBad({"lcd"})
  /\ lcd' = IF "lcd" \in bad' THEN lcd
            ELSE [value |-> (rgbToBrightness(c) * MaxLcd) \div 255, color |-> c]
  /\ UNCHANGED <<state, led, engine>>

Init ==
  /\ state = [t \in Speaker |-> Dark]
  /\ led = Off
  /\ engine = 0
  /\ lcd = [value |-> 0, color |-> Black]
  /\ bad = {}

Next ==
  \/ \E t \in Speaker, c \in Colors \cup {Black}, timed \in BOOLEAN :
       setLight(t, [color |-> c, timed |-> timed])
  \/ \E c \in Colors \cup {Black} : setLcdBacklight(c)

Spec == Init /\ [][Next]_vars

-----------------------------------------------------------------------------
TypeOK ==
  /\ state \in [Speaker -> [color : Colors \cup {Black}, timed : BOOLEAN]]
  /\ engine \in 0..3
  /\ bad \subseteq LedStream \cup {"lcd"}

(* As long as all nodes can be written, the LED shows the lit state of the *)
(* highest priority, whatever order the lights were set and put out in: a  *)
(* steady colour never runs with the engine of the blinking light before   *)
(* it, and nothing is shown when no light is lit.                          *)
LedShowsTop ==
  bad = {} =>
    LET lit == {t \in Speaker : state[t].color # Black}
        top == CHOOSE t \in lit : \A u \in lit :
                 t = "notifications" \/ u = "battery" \/ (t = "attention" /\ u # "notifications")
    IN IF lit = {} THEN led = Off
       ELSE /\ (led.run = 1) = state[top].timed
            /\ <<led.red, led.green, led.blue>> =
                 IF state[top].timed THEN Black ELSE state[top].color

(* The backlight covers the panel's range: never above max_brightness,     *)
(* exactly there for white, and brighter for a colour none of whose        *)
(* components is darker.                                                   *)
BacklightInRange ==
  /\ lcd.value \in 0..MaxLcd
  /\ lcd.color = <<255, 255, 255>> => lcd.value = MaxLcd
  /\ \A c \in Colors : (\A k \in 1..3 : c[k] <= lcd.color[k]) =>
       (rgbToBrightness(c) * MaxLcd) \div 255 <= lcd.value
=============================================================================
