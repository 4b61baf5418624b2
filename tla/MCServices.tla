----------------------------- MODULE MCServices -----------------------------
(***************************************************************************)
(* The services beside the camera and the audio, one to a behaviour: power *)
(* hints, the interactive state, the knobs of the GPU, the thermal         *)
(* sensors, the lights, the vibrator, the handles of the sensor            *)
(* multiplexer, and its ring on the one sub-HAL that is shipped, long      *)
(* enough to wrap with records on both sides.                              *)
(***************************************************************************)
EXTENDS Integers, Sequences, TLC

CONSTANTS HintKinds, MissingNodes, InitBoost, MaxFd, Lag, InputTable,
          MaxThreads, MaxSize, MaxLcd, MaxBad, Amplitudes, Thread, NULL,
          lsm6db0, other, mCapacity, queueCount, MaxReads, NoHandle,
          Indeterminate

VARIABLES
    part,      \* the component that a behaviour is about
    pInfo, cur, age, junk, vsync, lost, box, fds, handles, caller,
    screenInfo, count, input_cnt, dev_id, inputs, governor, display, moved,
    hdd,
    platform, booting, knob, rail, threads, floor, want, raced, skipped,
    doc, file, zones, fans, data, lastRead,
    state, led, engine, lcd, badStreams,
    motor, intensity, badFiles, answer,
    sub_hw_modules, global_sensors_list, mutable_sensor_list, global_to_full,
    full_to_global, sub_hw_devices, pc, got, lastCall,
    queues, writer, region, batch, pollPc, maxReads, empties, events,
    nextReadIndex, waiting_for_data

InputNames == <<"keys", "touch", "raydium_ts">>
Node(k, l, t, c) == [kind |-> k, label |-> l, thr |-> t, cores |-> c]
T(l, t, c) == Node("thermal", l, t, c)
Fan == Node("cooling", "none", "none", 0)
Cpus(n) == Node("cpus", "none", "none", n)
Bad == Node("bad", "none", "none", 0)
\* A whole file, files cut short at the second, the last and the first node,
\* and one whose thresholds another zone has.
ThermalDocs == {<<T("cpu", "none", 2), T("skin", "cpu", 0), Fan, Fan, Cpus(2)>>,
                <<T("cpu", "none", 0), Bad, Cpus(2)>>, <<Fan, Bad>>, <<Bad>>,
                <<T("skin", "cpu", 0), T("gpu", "none", 0)>>}
ThermalZones == <<[label |-> "skin", trips |-> {"passive"}],
                  [label |-> "cpu", trips |-> {"passive", "critical"}],
                  [label |-> "gpu", trips |-> {"passive", "critical"}]>>
White == <<255, 255, 255>>
Dim == <<10, 20, 30>>
SomeColors == {White, Dim}
NearestColor == (<<255, 0, 0>> :> <<255, 0, 0>>) @@ (White :> White) @@ (Dim :> <<0, 0, 0>>)
TwoLibraries == <<other, lsm6db0>>
\* Both libraries number their sensors from 1.
Sensors == (lsm6db0 :> <<1, 2>>) @@ (other :> <<1>>)
RingEvents == [meta : BOOLEAN, handle : {1}] \cup {[meta |-> FALSE, handle |-> 2]}
OneHalHandles == (<<0, 1>> :> 1) @@ (<<0, 2>> :> 2)

Hints == INSTANCE PowerHints WITH Hints <- HintKinds, Missing <- MissingNodes
Screen == INSTANCE PowerInteractive WITH pInfo <- screenInfo, enabled <-
    inputs, Names <- InputNames, Table <- InputTable
Gpu == INSTANCE GpuKnobs
Heat == INSTANCE Thermal WITH Docs <- ThermalDocs, Zones <- ThermalZones,
    last <- lastRead
Leds == INSTANCE Lights WITH Colors <- SomeColors, Nearest <- NearestColor,
    bad <- badStreams
Motor == INSTANCE Vibrator WITH bad <- badFiles
Lists == INSTANCE SensorHandles WITH Library <- TwoLibraries, SensorList <-
    Sensors
Ring == INSTANCE Multihal WITH Event <- RingEvents, full_to_global <-
    OneHalHandles, data <- events

hintsVars == <<pInfo, cur, age, junk, vsync, lost, box, fds, handles,
    caller>>
interactiveVars == <<screenInfo, count, input_cnt, dev_id, inputs, governor,
    display, moved, hdd>>
gpuVars == <<platform, booting, knob, rail, threads, floor, want, raced,
    skipped>>
thermalVars == <<doc, file, zones, fans, data, lastRead>>
lightsVars == <<state, led, engine, lcd, badStreams>>
vibratorVars == <<motor, intensity, badFiles, answer>>
handlesVars == <<sub_hw_modules, global_sensors_list, mutable_sensor_list,
    global_to_full, full_to_global, sub_hw_devices, pc, got, lastCall>>
ringVars == <<queues, writer, region, batch, pollPc, maxReads, empties,
    events, nextReadIndex, waiting_for_data>>
vars == <<part, hintsVars, interactiveVars, gpuVars, thermalVars, lightsVars,
    vibratorVars, handlesVars, ringVars>>

Init ==
    /\ part \in {"hints", "interactive", "gpu", "thermal", "lights",
                "vibrator", "handles", "ring"}
    /\ Hints!Init
    /\ Screen!Init
    /\ Gpu!Init
    /\ Heat!Init
    /\ Leds!Init
    /\ Motor!Init
    /\ Lists!Init
    /\ Ring!Init
    /\ part # "interactive" => count = 0
    /\ part # "gpu" => platform = "other" /\ \A k \in DOMAIN knob : knob[k]
    /\ part # "thermal" => doc = <<Bad>> /\ ~file

hintsNext == Hints!Next /\ UNCHANGED <<interactiveVars, gpuVars, thermalVars,
    lightsVars, vibratorVars, handlesVars, ringVars>>
interactiveNext == Screen!Next /\ UNCHANGED <<hintsVars, gpuVars,
    thermalVars, lightsVars, vibratorVars, handlesVars, ringVars>>
gpuNext == Gpu!Next /\ UNCHANGED <<hintsVars, interactiveVars, thermalVars,
    lightsVars, vibratorVars, handlesVars, ringVars>>
thermalNext == Heat!Next /\ UNCHANGED <<hintsVars, interactiveVars, gpuVars,
    lightsVars, vibratorVars, handlesVars, ringVars>>
lightsNext == Leds!Next /\ UNCHANGED <<hintsVars, interactiveVars, gpuVars,
    thermalVars, vibratorVars, handlesVars, ringVars>>
vibratorNext == Motor!Next /\ UNCHANGED <<hintsVars, interactiveVars,
    gpuVars, thermalVars, lightsVars, handlesVars, ringVars>>
handlesNext == Lists!Next /\ UNCHANGED <<hintsVars, interactiveVars, gpuVars,
    thermalVars, lightsVars, vibratorVars, ringVars>>
ringNext == Ring!Next /\ UNCHANGED <<hintsVars, interactiveVars, gpuVars,
    thermalVars, lightsVars, vibratorVars, handlesVars>>

Next ==
    /\ \/ part = "hints" /\ hintsNext
       \/ part = "interactive" /\ interactiveNext
       \/ part = "gpu" /\ gpuNext
       \/ part = "thermal" /\ thermalNext
       \/ part = "lights" /\ lightsNext
       \/ part = "vibrator" /\ vibratorNext
       \/ part = "handles" /\ handlesNext
       \/ part = "ring" /\ ringNext
    /\ UNCHANGED part

Spec == Init /\ [][Next]_vars
-----------------------------------------------------------------------------
\* PowerHints, PowerInteractive, GpuKnobs: a hint is refused only while the boost
\* of an earlier one is in force, and the VSYNC floor is held once; input
\* devices that were switched off come back and no others are touched; the
\* disk spins down only with its long delay; and the GPU's knobs stand as the
\* last call wanted them.
PowerPolicyHolds ==
    /\ [](part = "hints" => /\ Hints!TypeOK
                            /\ Hints!RefusedHintsAreCovered
                            /\ Hints!VsyncFloorOnce)
    /\ [](part = "interactive" => /\ Screen!TypeOK
                                  /\ Screen!InputsComeBack
                                  /\ Screen!StandbyNeedsDelay)
    /\ [](part = "gpu" => Gpu!TypeOK /\ Gpu!KnobsFollowPolicy)
    /\ Screen!OnlyTableDevices

\* Thermal: answers fit the caller's list and are about the whole configuration,
\* as many fans are read as were counted, and after any failure a later call
\* finds every zone.
ThermalAnswers ==
    /\ [](part = "thermal" => /\ Heat!TypeOK
                              /\ Heat!ListsFit
                              /\ Heat!WholeFile
                              /\ Heat!FansAsCounted)
    /\ Heat!RescanFindsAll

\* Lights, Vibrator: the LED shows the lit light of the highest priority and
\* never two modes at once, the backlight and the amplitude cover their ranges,
\* and the vibrator's status tells what the motor does.
NodesShowState ==
    /\ part = "lights" => Leds!TypeOK /\ Leds!LedShowsTop /\ Leds!BacklightInRange
    /\ part = "vibrator" => Motor!TypeOK /\ Motor!StatusIsTrue /\ Motor!AmplitudeScales

\* SensorHandles, Multihal: threads that race for the sensor list get one
\* complete list with inverse handle maps, and calls reach the sub-HAL that owns
\* the sensor if all opened; a region lent in a ring of four slots that wraps is
\* never empty and never meets a readable record.
SensorsConsistent ==
    /\ part = "handles" => /\ Lists!TypeOK
                           /\ Lists!HandlesAreInverse
                           /\ Lists!ListIsComplete
                           /\ Lists!CallReachesOwnerIfAllOpen
    /\ part = "ring" => /\ Ring!TypeOK
                        /\ Ring!WriterRegionFree
                        /\ Ring!RegionNotEmpty
=============================================================================
