---------------------------- MODULE SensorHandles ---------------------------
(***************************************************************************)
(* The control path of the sensor multi-HAL (sensors/multihal.cpp): the    *)
(* lazily built list of all sub-HALs' sensors with global handles, and the *)
(* calls that are routed to a sub-HAL's device by global handle.  Threads  *)
(* of the framework ask for the list and open the device in any order.     *)
(*                                                                         *)
(* init_sensors_mutex is held by the thread whose pc is "assign".          *)
(***************************************************************************)
EXTENDS Integers, SequencesExt

CONSTANTS Thread,      \* threads of the framework
          Library,     \* sequence of distinct sub-HAL libraries of lazy_init_modules
          SensorList,  \* distinct local handles of each library's sensors, in order
          NULL

VARIABLES
    sub_hw_modules,       \* NULL, then the libraries that could be loaded
    global_sensors_list,  \* NULL, then the global handles in list order
    mutable_sensor_list,  \* the list under construction
    global_to_full,       \* FullHandle of each global handle; the next one is Len + 1
    full_to_global,
    sub_hw_devices,       \* NULL, then the devices of the open context
    pc, got,              \* of each thread: step, and the list it was given
    lastCall              \* device and local handle the last call was routed to

vars == <<sub_hw_modules, global_sensors_list, mutable_sensor_list, global_to_full,
          full_to_global, sub_hw_devices, pc, got, lastCall>>

Modules == IF sub_hw_modules = NULL THEN <<>> ELSE sub_hw_modules

\* Every sensor of the loaded modules as a FullHandle <<module index, local
\* handle>>, in the order of the two loops of lazy_init_sensors_list.
AllSensors ==
    FlattenSeq([i \in DOMAIN Modules |->
                  [k \in DOMAIN SensorList[Modules[i]] |-> <<i, SensorList[Modules[i]][k]>>]])

TypeOK ==
    /\ sub_hw_modules = NULL \/ \A i \in DOMAIN sub_hw_modules :
         \E j \in DOMAIN Library : sub_hw_modules[i] = Library[j]
    /\ pc \in [Thread -> {"idle", "assign"}]
    /\ \A i \in DOMAIN mutable_sensor_list : mutable_sensor_list[i] \in DOMAIN global_to_full
    /\ sub_hw_devices # NULL => Len(sub_hw_devices) <= Len(sub_hw_modules)

Init ==
    /\ sub_hw_modules = NULL /\ global_sensors_list = NULL /\ sub_hw_devices = NULL
    /\ mutable_sensor_list = <<>>
    /\ global_to_full = <<>> /\ full_to_global = <<>>
    /\ pc = [t \in Thread |-> "idle"]
    /\ got = [t \in Thread |-> NULL]
    /\ lastCall = NULL
-----------------------------------------------------------------------------
\* Loads the libraries once, under init_modules_mutex; a library that cannot
\* be loaded is left out.
lazy_init_modules ==
    IF sub_hw_modules # NULL THEN UNCHANGED sub_hw_modules
    ELSE \E ok \in SUBSET DOMAIN Library :
           sub_hw_modules' = SelectSeq(Library, LAMBDA l : \E i \in ok : Library[i] = l)

\* assign_global_handle, and the handle stored in the copied sensor_t.
AssignGlobalHandle(full_handle) ==
    LET global_handle == Len(global_to_full) + 1
    IN  /\ full_to_global' = (full_handle :> global_handle) @@ full_to_global
        /\ global_to_full' = Append(global_to_full, full_handle)
        /\ mutable_sensor_list' = Append(mutable_sensor_list, global_handle)

getListStart_noLock(t) ==
    /\ pc[t] = "idle"
    /\ IF global_sensors_list # NULL
         THEN /\ got' = [got EXCEPT ![t] = global_sensors_list]
              /\ UNCHANGED <<sub_hw_modules, mutable_sensor_list, pc>>
         ELSE /\ lazy_init_modules
              /\ mutable_sensor_list' = <<>>
              /\ pc' = [pc EXCEPT ![t] = "assign"]
              /\ UNCHANGED got
    /\ UNCHANGED <<global_sensors_list, global_to_full, full_to_global, sub_hw_devices, lastCall>>

\* module__get_sensors_list up to the loops of lazy_init_sensors_list: the
\* early return when the list exists, else the modules and an empty list.
getListStart(t) ==
    /\ pc[t] = "idle"
    /\ \A u \in Thread : pc[u] # "assign"
    /\ IF global_sensors_list # NULL
         THEN /\ got' = [got EXCEPT ![t] = global_sensors_list]
              /\ UNCHANGED <<sub_hw_modules, mutable_sensor_list, pc>>
         ELSE /\ lazy_init_modules
              /\ mutable_sensor_list' = <<>>
              /\ pc' = [pc EXCEPT ![t] = "assign"]
              /\ UNCHANGED got
    /\ UNCHANGED <<global_sensors_list, global_to_full, full_to_global, sub_hw_devices, lastCall>>

\* One turn of the inner loop.
getListAssign(t) ==
    /\ pc[t] = "assign"
    /\ Len(mutable_sensor_list) < Len(AllSensors)
    /\ AssignGlobalHandle(AllSensors[Len(mutable_sensor_list) + 1])
    /\ UNCHANGED <<sub_hw_modules, global_sensors_list, sub_hw_devices, pc, got, lastCall>>

\* The list is published, the mutex released, the caller answered.
getListPublish(t) ==
    /\ pc[t] = "assign"
    /\ Len(mutable_sensor_list) = Len(AllSensors)
    /\ global_sensors_list' = mutable_sensor_list
    /\ got' = [got EXCEPT ![t] = mutable_sensor_list]
    /\ pc' = [pc EXCEPT ![t] = "idle"]
    /\ UNCHANGED <<sub_hw_modules, mutable_sensor_list, global_to_full, full_to_global,
                   sub_hw_devices, lastCall>>

\* open_sensors: a sub-HAL whose open() fails gets no entry in sub_hw_devices.
open_sensors(t) ==
    /\ pc[t] = "idle" /\ sub_hw_devices = NULL
    /\ lazy_init_modules
    /\ \E ok \in SUBSET {sub_hw_modules'[i] : i \in DOMAIN sub_hw_modules'} :
         sub_hw_devices' = SelectSeq(sub_hw_modules', LAMBDA m : m \in ok)
    /\ UNCHANGED <<global_sensors_list, mutable_sensor_list, global_to_full, full_to_global,
                   pc, got, lastCall>>

get_v0_device_by_handle(global_handle) ==
    IF /\ global_handle \in DOMAIN global_to_full
       /\ global_to_full[global_handle][1] \in DOMAIN sub_hw_devices
      THEN sub_hw_devices[global_to_full[global_handle][1]]
      ELSE NULL

\* activate, setDelay, and batch, which is a setDelay: the caller uses a handle
\* of the list it was given.
deviceCall(t, handle) ==
    /\ pc[t] = "idle" /\ sub_hw_devices # NULL
    /\ got[t] # NULL /\ \E i \in DOMAIN got[t] : got[t][i] = handle
    /\ lastCall' = [handle |-> handle,
                    device |-> get_v0_device_by_handle(handle),
                    local |-> global_to_full[handle][2]]
    /\ UNCHANGED <<sub_hw_modules, global_sensors_list, mutable_sensor_list, global_to_full,
                   full_to_global, sub_hw_devices, pc, got>>

\* device__close
device__close(t) ==
    /\ pc[t] = "idle" /\ sub_hw_devices # NULL
    /\ sub_hw_devices' = NULL
    /\ lastCall' = NULL
    /\ UNCHANGED <<sub_hw_modules, global_sensors_list, mutable_sensor_list, global_to_full,
                   full_to_global, pc, got>>

Next ==
    \E t \in Thread :
        \/ getListStart(t) \/ getListAssign(t) \/ getListPublish(t)
        \/ open_sensors(t) \/ device__close(t)
        \/ \E handle \in DOMAIN global_to_full : deviceCall(t, handle)

Spec == Init /\ [][Next]_vars
-----------------------------------------------------------------------------
(* Properties *)

\* However many threads ask for the list first, each sensor of each loaded
\* sub-HAL has exactly one global handle, and the two maps are inverse.
HandlesAreInverse ==
    /\ \A h \in DOMAIN global_to_full : full_to_global[global_to_full[h]] = h
    /\ \A f \in DOMAIN full_to_global : global_to_full[full_to_global[f]] = f
    /\ Len(global_to_full) <= Len(AllSensors)

\* A caller is never given a partial list: what it gets names every sensor of
\* every loaded sub-HAL, and later callers get the same list.
ListIsComplete ==
    \A t \in Thread : got[t] # NULL =>
        [i \in DOMAIN got[t] |-> global_to_full[got[t][i]]] = AllSensors

\* When all sub-HALs could be opened, a call reaches the device of the sub-HAL
\* that owns the sensor.
CallReachesOwnerIfAllOpen ==
    lastCall # NULL /\ sub_hw_devices = sub_hw_modules =>
        lastCall.device = sub_hw_modules[global_to_full[lastCall.handle][1]]
=============================================================================
