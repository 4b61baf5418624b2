------------------------- MODULE AudioConfig_proofs -------------------------
(***************************************************************************)
(* Proofs about the reference and use counts of the audio configuration    *)
(* manager, for every configuration and every number of clients.           *)
(***************************************************************************)
EXTENDS AudioConfig, FiniteSetTheorems, WellFoundedInduction, TLAPS

\* A non-empty set of naturals has a least element.
LEMMA LeastNatural ==
    ASSUME NEW T, T \subseteq Nat, T # {}
    PROVE  \E x \in T : \A y \in T : x <= y
  <1>1. \E x \in T : \A y \in T : ~(<<y, x>> \in OpToRel(<, Nat))
    BY NatLessThanWellFounded, WFMin
  <1>2. PICK x \in T : \A y \in T : ~(<<y, x>> \in OpToRel(<, Nat))
    BY <1>1
  <1>3. \A y \in T : ~(y < x)
    BY <1>2, ZenonT(120) DEF OpToRel
  <1>4. QED BY <1>3

\* The first and the last index of a list that satisfy a condition are indices.
LEMMA FirstAndLast ==
    ASSUME NEW n \in Nat, NEW T, T \subseteq 1 .. n, T # {}
    PROVE  Min(T) \in T /\ Max(T) \in T
  <1>1. T \subseteq Nat /\ \A x \in T : n - x \in Nat /\ x \in Nat
    OBVIOUS
  <1>2. \E x \in T : \A y \in T : x =< y
    BY <1>1, LeastNatural, Zenon
  <1>3. \E x \in T : \A y \in T : x >= y
    <2> DEFINE U == {n - x : x \in T}
    <2>1. U \subseteq Nat /\ U # {} /\ \A y \in T : n - y \in U
      BY <1>1, Zenon
    <2>2. PICK u \in U : \A y \in U : u <= y
      BY <2>1, LeastNatural, Zenon
    <2>3. PICK x \in T : u = n - x
      BY <2>2, Zenon
    <2> HIDE DEF U
    <2>4. ASSUME NEW y \in T PROVE x >= y
      <3>1. n - x <= n - y
        BY <2>1, <2>2, <2>3, ZenonT(120)
      <3>2. QED BY <1>1, <3>1
    <2>5. QED BY <2>4
  <1>4. QED BY <1>2, <1>3 DEF Min, Max

-----------------------------------------------------------------------------
(* What applying paths does to the use counts *)

\* The change of a device's use count when the paths ids are applied to it.
Change(d, ids) ==
    (IF "on" \in ids /\ Defines(d, "on") THEN 1 ELSE 0)
      - (IF "off" \in ids /\ Defines(d, "off") THEN 1 ELSE 0)

\* A configuration with some mixer setting and these use counts.
Counts(cfg, u) == \E m : cfg = [mixer |-> m, use_count |-> u]

\* The use counts u after the paths ids of the devices that a mask reaches,
\* or of the global device, have been applied.
DevicesChanged(u, devices, ids) ==
    [d \in Device |-> u[d] + (IF Reached(devices, d) THEN Change(d, ids) ELSE 0)]

FirstGlobal(d) == LET global == {e \in Device : Devices[e].type = {}}
                  IN  global # {} /\ d = Min(global)

GlobalChanged(u, ids) ==
    [d \in Device |-> u[d] + (IF FirstGlobal(d) THEN Change(d, ids) ELSE 0)]

\* One path: only "on" and "off" count, on their own device.
LEMMA DevicePathCounts ==
    ASSUME NEW cfg, NEW u \in [Device -> Int], Counts(cfg, u), NEW d \in Device, NEW id
    PROVE  Counts(apply_device_path_l(cfg, d, id),
                  [u EXCEPT ![d] = u[d] + (IF id = "on" THEN 1 ELSE IF id = "off" THEN -1 ELSE 0)])
  <1>1. cfg.use_count = u
    BY DEF Counts
  <1> DEFINE count == CASE id = "off" -> cfg.use_count[d] - 1
                        [] id = "on"  -> cfg.use_count[d] + 1
                        [] OTHER      -> cfg.use_count[d]
  <1>2. count = u[d] + (IF id = "on" THEN 1 ELSE IF id = "off" THEN -1 ELSE 0)
    BY <1>1
  <1>3. \E m : apply_device_path_l(cfg, d, id) =
                 [mixer |-> m, use_count |-> [cfg.use_count EXCEPT ![d] = count]]
    BY Zenon DEF apply_device_path_l
  <1>4. QED BY <1>1, <1>2, <1>3, Zenon DEF Counts

\* Two paths of one device, equal ids applied once.
LEMMA PathsByIdCount ==
    ASSUME NEW cfg, NEW u \in [Device -> Int], Counts(cfg, u), NEW d \in Device,
           NEW first_id, NEW second_id
    PROVE  Counts(apply_paths_by_id_l(cfg, d, first_id, second_id),
                  [u EXCEPT ![d] = u[d] + Change(d, {first_id, second_id})])
  <1> DEFINE Of(id) == IF id = "on" THEN 1 ELSE IF id = "off" THEN -1 ELSE 0
             first == IF Defines(d, first_id) THEN apply_device_path_l(cfg, d, first_id) ELSE cfg
             n1 == u[d] + (IF Defines(d, first_id) THEN Of(first_id) ELSE 0)
             v == [u EXCEPT ![d] = n1]
             n2 == n1 + (IF Defines(d, second_id) /\ second_id # first_id THEN Of(second_id) ELSE 0)
  <1>1. n1 \in Int /\ v \in [Device -> Int] /\ v[d] = n1
    OBVIOUS
  <1>2. Counts(first, v)
    <2>1. CASE Defines(d, first_id)
      BY <2>1, DevicePathCounts
    <2>2. CASE ~Defines(d, first_id)
      <3>1. v = u
        BY <2>2
      <3>2. QED BY <2>2, <3>1
    <2>3. QED BY <2>1, <2>2
  <1> HIDE DEF first
  <1>3. Counts(apply_paths_by_id_l(cfg, d, first_id, second_id), [v EXCEPT ![d] = n2])
    <2> HIDE DEF v, n1
    <2>1. CASE Defines(d, second_id) /\ second_id # first_id
      <3>1. apply_paths_by_id_l(cfg, d, first_id, second_id) = apply_device_path_l(first, d, second_id)
        BY <2>1 DEF apply_paths_by_id_l, first
      <3>2. Counts(apply_device_path_l(first, d, second_id), [v EXCEPT ![d] = v[d] + Of(second_id)])
        BY <1>1, <1>2, DevicePathCounts
      <3>3. v[d] + Of(second_id) = n2
        BY <1>1, <2>1
      <3>4. QED BY <3>1, <3>2, <3>3, ZenonT(120)
    <2>2. CASE ~(Defines(d, second_id) /\ second_id # first_id)
      <3>1. apply_paths_by_id_l(cfg, d, first_id, second_id) = first
        BY <2>2 DEF apply_paths_by_id_l, first
      <3>2. [v EXCEPT ![d] = n2] = v
        BY <1>1, <2>2
      <3>3. QED BY <1>2, <3>1, <3>2
    <2>3. QED BY <2>1, <2>2
  <1>4. n2 = u[d] + Change(d, {first_id, second_id})
    BY DEF Change
  <1>5. [v EXCEPT ![d] = n2] = [u EXCEPT ![d] = n2]
    OBVIOUS
  <1>6. QED BY <1>3, <1>4, <1>5

\* A mask: the devices reached, each by its own change.
LEMMA DevicesCount ==
    ASSUME NEW cfg, NEW u \in [Device -> Int], Counts(cfg, u), NEW devices,
           NEW first_id, NEW second_id
    PROVE  Counts(apply_paths_to_devices_l(cfg, devices, first_id, second_id),
                  DevicesChanged(u, devices, {first_id, second_id}))
  <1> DEFINE reached == {d \in Device : Reached(devices, d)}
             Applied(m, d) == apply_paths_by_id_l([cfg EXCEPT !.mixer = m], d, first_id, second_id)
             counted == [d \in Device |-> IF d \in reached THEN Applied(cfg.mixer, d).use_count[d]
                                          ELSE cfg.use_count[d]]
  <1>1. \E m : apply_paths_to_devices_l(cfg, devices, first_id, second_id) =
                 [mixer |-> m, use_count |-> counted]
    BY Zenon DEF apply_paths_to_devices_l
  <1>2. cfg.use_count = u /\ [cfg EXCEPT !.mixer = cfg.mixer] = cfg
    BY DEF Counts
  <1>3. ASSUME NEW d \in Device
        PROVE  Applied(cfg.mixer, d).use_count[d] = u[d] + Change(d, {first_id, second_id})
    <2>1. Counts(Applied(cfg.mixer, d), [u EXCEPT ![d] = u[d] + Change(d, {first_id, second_id})])
      BY <1>2, PathsByIdCount
    <2> HIDE DEF Applied
    <2>2. Applied(cfg.mixer, d).use_count = [u EXCEPT ![d] = u[d] + Change(d, {first_id, second_id})]
      BY <2>1 DEF Counts
    <2>3. QED BY <2>2
  <1>4. counted = [d \in Device |-> u[d] + (IF Reached(devices, d)
                                            THEN Change(d, {first_id, second_id}) ELSE 0)]
    <2> HIDE DEF Applied
    <2>1. \A d \in Device : (IF d \in reached THEN Applied(cfg.mixer, d).use_count[d] ELSE cfg.use_count[d])
            = u[d] + (IF Reached(devices, d) THEN Change(d, {first_id, second_id}) ELSE 0)
      <3> TAKE d \in Device
      <3>1. CASE Reached(devices, d)
        BY <1>3, <3>1, Zenon
      <3>2. CASE ~Reached(devices, d)
        <4>1. cfg.use_count[d] = u[d] + 0
          BY <1>2
        <4>2. QED BY <3>2, <4>1, Zenon
      <3>3. QED BY <3>1, <3>2, Zenon
    <2>2. QED BY <2>1
  <1>5. QED BY <1>1, <1>4, Zenon DEF Counts, DevicesChanged

\* The global device: the one found, by its own change.
LEMMA GlobalCounts ==
    ASSUME NEW cfg, NEW u \in [Device -> Int], Counts(cfg, u), NEW first_id, NEW second_id
    PROVE  /\ Counts(apply_paths_to_global_l(cfg, first_id, second_id),
                     GlobalChanged(u, {first_id, second_id}))
           /\ DevicesApart => \A d \in Device : FirstGlobal(d) <=> IsGlobal(d)
  <1> DEFINE global == {d \in Device : Devices[d].type = {}}
             v == GlobalChanged(u, {first_id, second_id})
  <1>1. CASE global = {}
    <2>1. v = u
      BY <1>1 DEF FirstGlobal, GlobalChanged
    <2>2. QED BY <1>1, <2>1 DEF apply_paths_to_global_l, FirstGlobal, IsGlobal
  <1>2. CASE global # {}
    <2> DEFINE g == Min(global)
    <2>1. g \in global
      BY <1>2, ConfigAssumption, FirstAndLast, ZenonT(120)
    <2>2. \A d \in Device : FirstGlobal(d) <=> d = g
      BY <1>2 DEF FirstGlobal
    <2> HIDE DEF g
    <2>3. v = [u EXCEPT ![g] = u[g] + Change(g, {first_id, second_id})]
      <3>1. \A d \in Device : u[d] + (IF FirstGlobal(d) THEN Change(d, {first_id, second_id}) ELSE 0)
                = IF d = g THEN u[g] + Change(g, {first_id, second_id}) ELSE u[d]
        BY <2>1, <2>2
      <3>2. QED BY <2>1, <3>1 DEF GlobalChanged
    <2>4. apply_paths_to_global_l(cfg, first_id, second_id) = apply_paths_by_id_l(cfg, g, first_id, second_id)
      BY <1>2 DEF apply_paths_to_global_l, g
    <2>5. DevicesApart => \A d \in Device : FirstGlobal(d) <=> IsGlobal(d)
      BY <2>1, <2>2 DEF DevicesApart, IsGlobal
    <2>6. g \in Device
      BY <2>1
    <2>7. Counts(apply_paths_by_id_l(cfg, g, first_id, second_id), v)
      <3>1. Counts(apply_paths_by_id_l(cfg, g, first_id, second_id),
                   [u EXCEPT ![g] = u[g] + Change(g, {first_id, second_id})])
        BY <2>6, PathsByIdCount, Zenon
      <3> HIDE DEF v
      <3>2. QED BY <2>3, <3>1, Zenon
    <2>8. QED BY <2>4, <2>5, <2>7, ZenonT(120)
  <1>3. QED BY <1>1, <1>2

-----------------------------------------------------------------------------
(* The inductive invariant *)

Direction(s, devices) == devices # {} => ("IN" \in devices <=> stream_is_input(s))

Holders(s) == {c \in Client : hw[c] = s}

\* A routing that waits for the lock asks for a mask of its stream's direction
\* and, if nobody overlapped, knows what it has to change.
RoutingsFresh ==
    /\ DOMAIN call = Client
    /\ \A c \in Client : call[c].running \in BOOLEAN
    /\ \A c \in Client : call[c].running =>
          /\ call[c].devices \in Routes
          /\ Direction(hw[c], call[c].devices)
          /\ races = 0 => /\ call[c].enabling = call[c].devices \ current_devices[hw[c]]
                          /\ call[c].disabling = current_devices[hw[c]] \ call[c].devices
    /\ races = 0 => \A c, o \in Client :
          c # o /\ call[c].running /\ call[o].running => hw[c] # hw[o]

IInv ==
    /\ StreamsExact
    /\ RoutingsFresh
    /\ \A s \in Stream : Direction(s, current_devices[s])

USE ConfigAssumption

\* Sets of streams and of clients are finite and can be counted.
LEMMA CountsFinite ==
    /\ \A S \in SUBSET Stream : IsFiniteSet(S) /\ Cardinality(S) \in Nat
    /\ \A C \in SUBSET Client : IsFiniteSet(C) /\ Cardinality(C) \in Nat
    /\ NoStream \notin Stream
  <1>1. IsFiniteSet(Stream)
    <2>1. 1 \in Int /\ Len(Streams) \in Int
      BY SMT
    <2>2. IsFiniteSet(1 .. Len(Streams))
      BY <2>1, FS_Interval, Zenon
    <2>3. QED BY <2>2, Zenon
  <1>2. NoStream \notin Stream
    BY DEF NoStream
  <1>3. QED BY <1>1, <1>2, FS_Subset, FS_CardinalityType

\* A change of masks reaches d where the old one names it and the new one does
\* not.
OnlyOldReached(old, new, d) ==
    Reached(old \ new, d) <=> /\ (Devices[d].type \ {"IN"}) \cap old # {}
                              /\ (Devices[d].type \ {"IN"}) \cap new = {}

\* The devices that a change of masks reaches: those of the old mask that the
\* new one does not name.
LEMMA ReachedByChange ==
    ASSUME DevicesApart, NEW old \in Routes \cup {{}}, NEW new \in Routes \cup {{}},
           NEW d \in Device
    PROVE  OnlyOldReached(old, new, d)
  <1> DEFINE bits == Devices[d].type \ {"IN"}
  <1>1. ASSUME Reached(old \ new, d)
        PROVE  bits \cap old # {} /\ bits \cap new = {}
    <2>1. PICK bit \in Devices[d].type \cap ((old \ new) \ {"IN"}) : TRUE
      BY <1>1 DEF Reached
    <2>2. bits \cap new # {} => bits \subseteq new
      BY DEF DevicesApart
    <2>3. QED BY <2>1, <2>2, ZenonT(120)
  <1>2. ASSUME bits \cap old # {}, bits \cap new = {}
        PROVE  Reached(old \ new, d)
    <2>1. PICK bit : bit \in bits /\ bit \in old
      BY <1>2
    <2>2. bit \in Devices[d].type \cap ((old \ new) \ {"IN"}) /\ bit # "IN"
      BY <1>2, <2>1, ZenonT(120)
    <2>3. (old \ new) \cap {"IN"} \subseteq Devices[d].type
      BY <1>2 DEF DevicesApart
    <2>4. ASSUME NEW e \in 1 .. (d - 1) PROVE bit \notin Devices[e].type
      <3>1. e \in Device /\ e # d
        OBVIOUS
      <3>2. QED BY <2>2, <3>1, ZenonT(120) DEF DevicesApart
    <2>5. QED BY <2>2, <2>3, <2>4, ZenonT(120) DEF Reached
  <1>3. QED BY <1>1, <1>2, ZenonT(120) DEF OnlyOldReached

\* A mask that names a device of a stream's route has the stream's direction.
LEMMA DeviceDirection ==
    ASSUME DevicesApart, NEW s \in Stream, NEW d \in Device, NEW m \in Routes \cup {{}},
           Direction(s, m), (Devices[d].type \ {"IN"}) \cap m # {}
    PROVE  "IN" \in Devices[d].type <=> stream_is_input(s)
  BY DEF DevicesApart, Direction

\* Users of a device after stream s alone joined or left.
LEMMA OneMoreOrLess ==
    ASSUME NEW U \in SUBSET Stream, NEW V \in SUBSET Stream, NEW s \in Stream,
           V \ {s} = U \ {s}
    PROVE  Cardinality(V) = Cardinality(U) + (IF s \in V /\ s \notin U THEN 1 ELSE 0)
                                           - (IF s \in U /\ s \notin V THEN 1 ELSE 0)
  <1>1. IsFiniteSet(U) /\ Cardinality(U) \in Nat
    BY CountsFinite
  <1>2. CASE s \in V /\ s \notin U
    <2>1. V = U \cup {s}
      BY <1>2
    <2>2. Cardinality(V) = Cardinality(U) + 1
      BY <1>1, <1>2, <2>1, FS_AddElement
    <2>3. QED BY <1>1, <1>2, <2>2, SMTT(120)
  <1>3. CASE s \in U /\ s \notin V
    <2>1. V = U \ {s}
      BY <1>3
    <2>2. Cardinality(V) = Cardinality(U) - 1
      BY <1>1, <1>3, <2>1, FS_RemoveElement
    <2>3. QED BY <1>1, <1>3, <2>2
  <1>4. CASE s \in V <=> s \in U
    <2>1. V = U
      BY <1>4
    <2>2. QED BY <1>1, <1>4, <2>1
  <1>5. QED BY <1>2, <1>3, <1>4, ZenonT(120)

\* Opening a hardware stream.
LEMMA OpenStep ==
    ASSUME IInv, NEW c \in Client, NEW s \in Stream, hw[c] = NoStream, open_stream_l(c, s)
    PROVE  IInv'
  <1>1. /\ ref_count' = [ref_count EXCEPT ![s] = @ + 1] /\ hw' = [hw EXCEPT ![c] = s]
        /\ UNCHANGED <<current_devices, call, races>> /\ ref_count[s] < Streams[s].max_ref_count
        /\ use_count' = (IF ref_count[s] = 0
                         THEN apply_paths_to_global_l(Configuration, "on", Streams[s].enable_path)
                         ELSE Configuration).use_count
    BY DEF open_stream_l, CanOpen, Configured
  <1>2. TypeOK /\ ReferencesExact /\ UseCountExact /\ RoutingsFresh
        /\ \A t \in Stream : Direction(t, current_devices[t])
    BY DEF IInv, StreamsExact
  <1>3. Counts(Configuration, use_count)
    BY ZenonT(120) DEF Counts, Configuration
  <1>4. ReferencesExact'
    <2> SUFFICES ASSUME NEW t \in Stream
                 PROVE  /\ ref_count'[t] = Cardinality(Holders(t)')
                        /\ ref_count'[t] <= Streams[t].max_ref_count
                        /\ ref_count'[t] = 0 => current_devices'[t] = {}
      BY DEF ReferencesExact, Holders
    <2>1. /\ ref_count[t] = Cardinality(Holders(t)) /\ ref_count[t] \in Nat
          /\ ref_count[t] <= Streams[t].max_ref_count
          /\ ref_count[t] = 0 => current_devices[t] = {}
      BY <1>2 DEF ReferencesExact, Holders, TypeOK
    <2>2. CASE t = s
      <3>1. Holders(t)' = Holders(t) \cup {c} /\ c \notin Holders(t)
        BY <1>1, <1>2, <2>2, CountsFinite, ZenonT(120) DEF Holders, TypeOK
      <3>2. IsFiniteSet(Holders(t))
        BY CountsFinite DEF Holders
      <3>3. Cardinality(Holders(t)') = ref_count[t] + 1
        BY <2>1, <3>1, <3>2, FS_AddElement
      <3>4. ref_count'[t] = ref_count[t] + 1
        BY <1>1, <1>2, <2>2 DEF TypeOK
      <3>5. QED BY <1>1, <2>1, <2>2, <3>3, <3>4, SMTT(120)
    <2>3. CASE t # s
      <3>1. Holders(t)' = Holders(t)
        BY <1>1, <1>2, <2>3, CountsFinite, ZenonT(120) DEF Holders, TypeOK
      <3>2. QED BY <1>1, <1>2, <2>1, <2>3, <3>1 DEF TypeOK
    <2>4. QED BY <2>2, <2>3
  <1>5. use_count' \in [Device -> Int]
          /\ (DevicesApart /\ races' = 0 => \A d \in Device :
                Defines(d, "on") /\ Defines(d, "off") => use_count'[d] = Cardinality(Users(d)'))
    <2>1. CASE ref_count[s] # 0
      <3>1. use_count' = use_count
        BY <1>1, <2>1, ZenonT(120) DEF Configuration
      <3>2. \A d \in Device : Users(d)' = Users(d)
        BY <1>1, <1>2, <2>1, SMTT(120) DEF Users, Connected, TypeOK
      <3>3. QED BY <1>1, <1>2, <3>1, <3>2, ZenonT(120) DEF UseCountExact, TypeOK
    <2>2. CASE ref_count[s] = 0
      <3> DEFINE v == GlobalChanged(use_count, {"on", Streams[s].enable_path})
      <3>1. use_count' = v
        <4>1. Counts(apply_paths_to_global_l(Configuration, "on", Streams[s].enable_path), v)
          <5>1. use_count \in [Device -> Int]
            BY <1>2, ZenonT(120) DEF TypeOK
          <5>2. QED BY <1>3, <5>1, GlobalCounts, ZenonT(120)
        <4> HIDE DEF v
        <4>2. QED BY <1>1, <2>2, <4>1, SMTT(120) DEF Counts
      <3>2. v \in [Device -> Int]
        BY <1>2 DEF TypeOK, Change, GlobalChanged
      <3>3. ASSUME DevicesApart, races' = 0, NEW d \in Device, Defines(d, "on"), Defines(d, "off")
            PROVE  v[d] = Cardinality(Users(d)')
        <4>1. FirstGlobal(d) <=> IsGlobal(d)
          BY <1>2, <1>3, <3>3, GlobalCounts DEF TypeOK
        <4>2. use_count[d] = Cardinality(Users(d)) /\ use_count[d] \in Int
          BY <1>1, <1>2, <3>3 DEF UseCountExact, TypeOK
        <4>3. CASE IsGlobal(d)
          <5>1. Change(d, {"on", Streams[s].enable_path}) = 1
            BY <3>3, SMTT(120) DEF Change, DevicesApart
          <5>2. Users(d)' \ {s} = Users(d) \ {s} /\ s \in Users(d)' /\ s \notin Users(d)
            BY <1>1, <1>2, <2>2, <4>3, SMTT(120) DEF Users, TypeOK
          <5>3. Users(d) \in SUBSET Stream /\ Users(d)' \in SUBSET Stream
            BY DEF Users
          <5>4. Cardinality(Users(d)') = Cardinality(Users(d)) + 1 - 0
            BY <5>2, <5>3, OneMoreOrLess, ZenonT(120)
          <5>5. QED BY <4>1, <4>2, <4>3, <5>1, <5>4, SMTT(120) DEF GlobalChanged
        <4>4. CASE ~IsGlobal(d)
          <5>1. Users(d)' = Users(d)
            BY <1>1, <4>4, ZenonT(120) DEF Users, Connected
          <5>2. QED BY <4>1, <4>2, <4>4, <5>1, SMTT(120) DEF GlobalChanged
        <4>5. QED BY <4>3, <4>4, ZenonT(120)
      <3>4. QED BY <3>1, <3>2, <3>3, Zenon
    <2>3. QED BY <2>1, <2>2, ZenonT(120)
  <1>6. TypeOK'
    BY <1>1, <1>2, <1>5, CountsFinite, SMTT(120) DEF TypeOK
  <1>7. RoutingsFresh'
    <2>1. ~call[c].running
      BY <1>2, ZenonT(120) DEF TypeOK
    <2>2. QED BY <1>1, <1>2, <2>1, ZenonT(120) DEF RoutingsFresh, TypeOK
  <1>8. QED BY <1>1, <1>2, <1>4, <1>5, <1>6, <1>7, ZenonT(120) DEF IInv, StreamsExact, UseCountExact

\* Releasing a hardware stream; the last holder disconnects it.
LEMMA ReleaseStep ==
    ASSUME IInv, NEW c \in Client, NEW s, s = hw[c], release_stream(c)
    PROVE  IInv'
  <1> DEFINE off == apply_paths_to_devices_l(Configuration, current_devices[s],
                                             "off", Streams[s].disable_path)
  <1>1. /\ s # NoStream /\ ~call[c].running
        /\ ref_count' = [ref_count EXCEPT ![s] = @ - 1] /\ hw' = [hw EXCEPT ![c] = NoStream]
        /\ current_devices' = [current_devices EXCEPT ![s] = IF ref_count[s] = 1 THEN {} ELSE @]
        /\ UNCHANGED <<call, races>>
        /\ use_count' = (IF ref_count[s] = 1
                         THEN apply_paths_to_global_l(off, Streams[s].disable_path, "off")
                         ELSE Configuration).use_count
    BY ZenonT(120) DEF release_stream, Configured
  <1>2. TypeOK /\ ReferencesExact /\ UseCountExact /\ RoutingsFresh
        /\ \A t \in Stream : Direction(t, current_devices[t])
    BY DEF IInv, StreamsExact
  <1>3. s \in Stream /\ ref_count[s] \in Nat /\ current_devices[s] \in Routes \cup {{}}
    BY <1>1, <1>2, ZenonT(120) DEF TypeOK
  <1>4. Counts(Configuration, use_count)
    BY ZenonT(120) DEF Counts, Configuration
  <1> HIDE DEF off
  <1>5. ref_count[s] = Cardinality(Holders(s)) /\ c \in Holders(s) /\ IsFiniteSet(Holders(s))
    BY <1>2, <1>3, CountsFinite DEF ReferencesExact, Holders
  <1>6. Holders(s)' = Holders(s) \ {c} /\ Cardinality(Holders(s) \ {c}) = ref_count[s] - 1
        /\ ref_count[s] - 1 \in Nat
    <2>1. Holders(s)' = Holders(s) \ {c}
      BY <1>1, <1>2, <1>3, CountsFinite, ZenonT(120) DEF Holders, TypeOK
    <2>2. Cardinality(Holders(s) \ {c}) = ref_count[s] - 1
      BY <1>5, FS_RemoveElement
    <2>3. Cardinality(Holders(s) \ {c}) \in Nat
      BY CountsFinite DEF Holders
    <2>4. QED BY <2>1, <2>2, <2>3
  <1>7. ReferencesExact'
    <2> SUFFICES ASSUME NEW t \in Stream
                 PROVE  /\ ref_count'[t] = Cardinality(Holders(t)')
                        /\ ref_count'[t] <= Streams[t].max_ref_count
                        /\ ref_count'[t] = 0 => current_devices'[t] = {}
      BY ZenonT(120) DEF ReferencesExact, Holders
    <2>1. /\ ref_count[t] = Cardinality(Holders(t)) /\ ref_count[t] \in Nat
          /\ ref_count[t] <= Streams[t].max_ref_count /\ Streams[t].max_ref_count \in Nat
          /\ ref_count[t] = 0 => current_devices[t] = {}
      BY <1>2 DEF ReferencesExact, Holders, TypeOK
    <2>2. CASE t = s
      <3>1. ref_count'[t] = ref_count[t] - 1 /\ (ref_count[t] = 1 => current_devices'[t] = {})
        BY <1>1, <1>2, <1>3, <2>2, ZenonT(120) DEF TypeOK
      <3>2. Cardinality(Holders(t)') = ref_count[t] - 1
        BY <1>6, <2>2, ZenonT(120)
      <3>3. QED BY <1>6, <2>1, <2>2, <3>1, <3>2, SMTT(120)
    <2>3. CASE t # s
      <3>1. Holders(t)' = Holders(t)
        BY <1>1, <1>2, <2>3, CountsFinite, ZenonT(120) DEF Holders, TypeOK
      <3>2. QED BY <1>1, <1>2, <2>1, <2>3, <3>1 DEF TypeOK
    <2>4. QED BY <2>2, <2>3
  <1>8. use_count' \in [Device -> Int]
          /\ (DevicesApart /\ races' = 0 => \A d \in Device :
                Defines(d, "on") /\ Defines(d, "off") => use_count'[d] = Cardinality(Users(d)'))
    <2>1. CASE ref_count[s] # 1
      <3>1. use_count' = use_count
        BY <1>1, <2>1, ZenonT(120) DEF Configuration
      <3>2. \A d \in Device : Users(d)' = Users(d)
        BY <1>1, <1>2, <1>3, <1>6, <2>1, SMTT(120) DEF Users, Connected, TypeOK
      <3>3. QED BY <1>1, <1>2, <3>1, <3>2, ZenonT(120) DEF UseCountExact, TypeOK
    <2>2. CASE ref_count[s] = 1
      <3> DEFINE ids == {"off", Streams[s].disable_path}
                 u == DevicesChanged(use_count, current_devices[s], ids)
                 v == GlobalChanged(u, ids)
      <3>1. u \in [Device -> Int] /\ v \in [Device -> Int]
        BY <1>2, SMTT(120) DEF TypeOK, Change, DevicesChanged, GlobalChanged
      <3>2. Counts(off, u)
        <4>1. use_count \in [Device -> Int]
          BY <1>2, ZenonT(120) DEF TypeOK
        <4>2. QED BY <1>4, <4>1, DevicesCount, Zenon DEF off
      <3>3. use_count' = v
        <4> HIDE DEF u
        <4>1. {Streams[s].disable_path, "off"} = ids
          OBVIOUS
        <4> HIDE DEF ids
        <4>2. Counts(apply_paths_to_global_l(off, Streams[s].disable_path, "off"), v)
          BY <3>1, <3>2, <4>1, GlobalCounts, ZenonT(120)
        <4> HIDE DEF v
        <4>3. QED BY <1>1, <2>2, <4>2, SMTT(120) DEF Counts
      <3>4. ASSUME DevicesApart, races' = 0, NEW d \in Device, Defines(d, "on"), Defines(d, "off")
            PROVE  v[d] = Cardinality(Users(d)')
        <4>1. FirstGlobal(d) <=> IsGlobal(d)
          BY <1>2, <1>4, <3>4, GlobalCounts DEF TypeOK
        <4>2. use_count[d] = Cardinality(Users(d)) /\ use_count[d] \in Int
          BY <1>1, <1>2, <3>4 DEF UseCountExact, TypeOK
        <4>3. Change(d, ids) = -1
          BY <1>3, <3>4, SMTT(120) DEF Change, DevicesApart
        <4>4. Reached(current_devices[s], d) <=> (Devices[d].type \ {"IN"}) \cap current_devices[s] # {}
          <5>1. {} \in Routes \cup {{}} /\ current_devices[s] \ {} = current_devices[s]
            OBVIOUS
          <5> HIDE DEF ids, u, v
          <5>2. Reached(current_devices[s] \ {}, d) <=>
                  /\ (Devices[d].type \ {"IN"}) \cap current_devices[s] # {}
                  /\ (Devices[d].type \ {"IN"}) \cap {} = {}
            <6>1. OnlyOldReached(current_devices[s], {}, d)
              BY <1>3, <3>4, <5>1, ReachedByChange, ZenonT(120)
            <6>2. QED BY <6>1, ZenonT(120) DEF OnlyOldReached
          <5>3. QED BY <5>1, <5>2, ZenonT(120)
        <4>5. Users(d) \in SUBSET Stream /\ Users(d)' \in SUBSET Stream
          BY ZenonT(120) DEF Users
        <4>6. Users(d)' \ {s} = Users(d) \ {s}
          BY <1>1, <1>2, <1>3, ZenonT(120) DEF Users, Connected, TypeOK
        <4>7. s \notin Users(d)'
          BY <1>1, <1>2, <1>3, <2>2, SMTT(120) DEF Users, Connected, TypeOK
        <4>8. Cardinality(Users(d)') = Cardinality(Users(d)) + 0 - (IF s \in Users(d) THEN 1 ELSE 0)
          BY <1>3, <4>5, <4>6, <4>7, OneMoreOrLess, SMTT(120)
        <4>9. s \in Users(d) <=> Reached(current_devices[s], d) \/ IsGlobal(d)
          <5>1. CASE IsGlobal(d)
            BY <1>3, <2>2, <5>1, SMTT(120) DEF Users
          <5>2. CASE ~IsGlobal(d)
            BY <1>2, <1>3, <3>4, <4>4, <5>2, DeviceDirection, ZenonT(120) DEF Users, Connected
          <5>3. QED BY <5>1, <5>2, ZenonT(120)
        <4>10. ~(Reached(current_devices[s], d) /\ IsGlobal(d))
          BY <4>4, ZenonT(120) DEF IsGlobal
        <4> HIDE DEF ids
        <4>11. v[d] = use_count[d] + (IF Reached(current_devices[s], d) THEN -1 ELSE 0)
                                  + (IF IsGlobal(d) THEN -1 ELSE 0)
          BY <4>1, <4>3, ZenonT(120) DEF DevicesChanged, GlobalChanged
        <4> HIDE DEF v
        <4>12. QED BY <4>2, <4>8, <4>9, <4>10, <4>11, SMTT(120)
      <3>5. QED BY <3>1, <3>3, <3>4, ZenonT(120)
    <2>3. QED BY <2>1, <2>2, ZenonT(120)
  <1>9. TypeOK'
    <2>1. ref_count' \in [Stream -> Nat]
      BY <1>1, <1>2, <1>6, ZenonT(120) DEF TypeOK
    <2>2. QED BY <1>1, <1>2, <1>8, <2>1, ZenonT(120) DEF TypeOK
  <1>10. RoutingsFresh'
    <2>1. ASSUME NEW o \in Client, call[o].running
          PROVE  hw'[o] = hw[o] /\ current_devices'[hw[o]] = current_devices[hw[o]]
      <3>1. o # c /\ hw'[o] = hw[o] /\ hw[o] \in Stream
        BY <1>1, <1>2, <2>1, ZenonT(120) DEF TypeOK
      <3>2. CASE hw[o] = s
        <4>1. o \in Holders(s) \ {c} /\ IsFiniteSet(Holders(s) \ {c})
          BY <3>1, <3>2, CountsFinite, ZenonT(120) DEF Holders
        <4>2. ref_count[s] - 1 # 0
          BY <1>6, <4>1, FS_EmptySet
        <4>3. QED BY <1>1, <1>2, <1>3, <3>1, <4>2, SMTT(120) DEF TypeOK
      <3>3. CASE hw[o] # s
        BY <1>1, <1>2, <3>1, <3>3 DEF TypeOK
      <3>4. QED BY <3>2, <3>3, ZenonT(120)
    <2>2. QED BY <1>1, <1>2, <2>1, SMTT(120) DEF RoutingsFresh
  <1>11. \A t \in Stream : Direction(t, current_devices'[t])
    BY <1>1, <1>2, ZenonT(120) DEF Direction, TypeOK
  <1>12. QED BY <1>1, <1>7, <1>8, <1>9, <1>10, <1>11, ZenonT(120) DEF IInv, StreamsExact, UseCountExact, Direction

\* Reading what a routing has to change, before the lock.
LEMMA ReadStep ==
    ASSUME IInv, NEW c \in Client, NEW devices \in Routes, applyRouteRead(c, devices)
    PROVE  IInv'
  <1>1. /\ hw[c] # NoStream /\ ~call[c].running /\ Direction(hw[c], devices)
        /\ call' = [call EXCEPT ![c] = [devices   |-> devices,
                                        enabling  |-> devices \ current_devices[hw[c]],
                                        disabling |-> current_devices[hw[c]] \ devices,
                                        running   |-> TRUE]]
        /\ races' = races + (IF \E o \in Client \ {c} : hw[o] = hw[c] /\ call[o].running THEN 1 ELSE 0)
        /\ races' <= MaxRaces
        /\ UNCHANGED <<use_count, ref_count, current_devices, hw>>
    BY DEF applyRouteRead, Direction
  <1>2. TypeOK /\ ReferencesExact /\ UseCountExact /\ RoutingsFresh
        /\ \A t \in Stream : Direction(t, current_devices[t])
    BY ZenonT(120) DEF IInv, StreamsExact
  <1>3. races \in Nat /\ races' \in Nat /\ (races' = 0 => races = 0)
        /\ (races' = 0 => \A o \in Client \ {c} : ~(hw[o] = hw[c] /\ call[o].running))
    BY <1>1, <1>2, SMTT(120) DEF TypeOK
  <1>4. DOMAIN call' = Client /\ \A o \in Client \ {c} : call'[o] = call[o]
    BY <1>1, <1>2, ZenonT(120) DEF RoutingsFresh
  <1>5. call'[c] = [devices   |-> devices,
                    enabling  |-> devices \ current_devices[hw[c]],
                    disabling |-> current_devices[hw[c]] \ devices,
                    running   |-> TRUE]
    BY <1>1, <1>2, ZenonT(120) DEF RoutingsFresh
  <1>6. TypeOK'
    BY <1>1, <1>2, <1>3, <1>4, <1>5, SMTT(120) DEF TypeOK
  <1>7. RoutingsFresh'
    <2>1. /\ call'[c].running = TRUE /\ call'[c].devices = devices
          /\ call'[c].enabling = devices \ current_devices[hw[c]]
          /\ call'[c].disabling = current_devices[hw[c]] \ devices
      BY <1>5, SMTT(120)
    <2>2. \A o \in Client : call'[o].running \in BOOLEAN
      BY <1>2, <1>4, <2>1, ZenonT(120) DEF RoutingsFresh
    <2>3. ASSUME NEW o \in Client, call'[o].running
          PROVE  /\ call'[o].devices \in Routes
                 /\ Direction(hw[o], call'[o].devices)
                 /\ races' = 0 => /\ call'[o].enabling = call'[o].devices \ current_devices[hw[o]]
                                  /\ call'[o].disabling = current_devices[hw[o]] \ call'[o].devices
      <3>1. CASE o = c
        BY <1>1, <2>1, <3>1, ZenonT(120)
      <3>2. CASE o # c
        <4>1. call'[o] = call[o] /\ call[o].running
          BY <1>4, <2>3, <3>2, ZenonT(120)
        <4>2. /\ call[o].devices \in Routes
              /\ Direction(hw[o], call[o].devices)
              /\ races = 0 => /\ call[o].enabling = call[o].devices \ current_devices[hw[o]]
                              /\ call[o].disabling = current_devices[hw[o]] \ call[o].devices
          BY <1>2, <4>1, ZenonT(120) DEF RoutingsFresh
        <4>3. QED BY <1>3, <4>1, <4>2, ZenonT(120)
      <3>3. QED BY <3>1, <3>2
    <2>4. ASSUME races' = 0, NEW o \in Client, NEW p \in Client, o # p,
                 call'[o].running, call'[p].running
          PROVE  hw[o] # hw[p]
      BY <1>2, <1>3, <1>4, <2>4, ZenonT(120) DEF RoutingsFresh
    <2>5. hw' = hw /\ current_devices' = current_devices
      BY <1>1, ZenonT(120)
    <2>6. QED BY <1>4, <2>2, <2>3, <2>4, <2>5, ZenonT(120) DEF RoutingsFresh, Direction
  <1>8. ReferencesExact'
    BY <1>1, <1>2, ZenonT(120) DEF ReferencesExact
  <1>9. UseCountExact'
    <2>1. use_count' = use_count /\ ref_count' = ref_count /\ current_devices' = current_devices
      BY <1>1, ZenonT(120)
    <2>2. \A d \in Device : Users(d)' = Users(d)
      BY <2>1, ZenonT(120) DEF Users, Connected
    <2>3. QED BY <1>2, <1>3, <2>1, <2>2, ZenonT(120) DEF UseCountExact
  <1>10. QED BY <1>1, <1>2, <1>6, <1>7, <1>8, <1>9, ZenonT(120) DEF IInv, StreamsExact, Direction

\* Routing under the lock: the devices of the old mask only go, those of the
\* new mask only come.
LEMMA LockedStep ==
    ASSUME IInv, NEW c \in Client, NEW s, s = hw[c], applyRouteLocked(c)
    PROVE  IInv'
  <1> DEFINE off == apply_paths_to_devices_l(Configuration, call[c].disabling,
                                             Streams[s].disable_path, "off")
             devices == call[c].devices
  <1>1. /\ call[c].running /\ call' = [call EXCEPT ![c] = NoCall]
        /\ current_devices' = [current_devices EXCEPT ![s] = devices]
        /\ UNCHANGED <<ref_count, hw, races>>
        /\ use_count' = apply_paths_to_devices_l(off, call[c].enabling,
                                                 "on", Streams[s].enable_path).use_count
    BY DEF applyRouteLocked, Configured
  <1>2. TypeOK /\ ReferencesExact /\ UseCountExact /\ RoutingsFresh
        /\ \A t \in Stream : Direction(t, current_devices[t])
    BY ZenonT(120) DEF IInv, StreamsExact
  <1>3. s \in Stream /\ ref_count[s] \in Nat /\ current_devices[s] \in Routes \cup {{}}
        /\ devices \in Routes /\ Direction(s, devices) /\ Direction(s, current_devices[s])
    BY <1>1, <1>2, ZenonT(120) DEF TypeOK, RoutingsFresh
  <1>4. Counts(Configuration, use_count) /\ use_count \in [Device -> Int]
    BY <1>2 DEF Counts, Configuration, TypeOK
  <1> HIDE DEF off
  <1>5. ref_count[s] # 0
    <2>1. c \in {o \in Client : hw[o] = s} /\ IsFiniteSet({o \in Client : hw[o] = s})
      BY CountsFinite
    <2>2. Cardinality({o \in Client : hw[o] = s}) # 0
      BY <2>1, FS_EmptySet, ZenonT(120)
    <2>3. QED BY <1>2, <1>3, <2>2 DEF ReferencesExact
  <1>6. DOMAIN call' = Client /\ call'[c] = NoCall /\ \A o \in Client \ {c} : call'[o] = call[o]
    BY <1>1, <1>2, ZenonT(120) DEF RoutingsFresh
  <1> DEFINE dis == {Streams[s].disable_path, "off"}
             en == {"on", Streams[s].enable_path}
             u == DevicesChanged(use_count, call[c].disabling, dis)
             v == DevicesChanged(u, call[c].enabling, en)
  <1>7. u \in [Device -> Int] /\ v \in [Device -> Int]
    BY <1>4, SMTT(120) DEF Change, DevicesChanged
  <1>8. use_count' = v
    <2>1. Counts(off, u)
      BY <1>4, DevicesCount, Zenon DEF off
    <2> HIDE DEF u
    <2>2. Counts(apply_paths_to_devices_l(off, call[c].enabling, "on", Streams[s].enable_path), v)
      BY <1>7, <2>1, DevicesCount, ZenonT(120)
    <2> HIDE DEF v
    <2>3. QED BY <1>1, <2>2 DEF Counts
  <1>9. ASSUME DevicesApart, races' = 0, NEW d \in Device, Defines(d, "on"), Defines(d, "off")
        PROVE  v[d] = Cardinality(Users(d)')
    <2> DEFINE bits == Devices[d].type \ {"IN"}
               was == bits \cap current_devices[s] # {}
               is == bits \cap devices # {}
    <2>1. /\ call[c].enabling = devices \ current_devices[s]
          /\ call[c].disabling = current_devices[s] \ devices
      BY <1>1, <1>2, <1>9, ZenonT(120) DEF RoutingsFresh
    <2>a. devices \in Routes \cup {{}} /\ current_devices[s] \in Routes \cup {{}}
          /\ s \in Stream /\ DevicesApart
      BY <1>3, <1>9
    <2>2. Reached(call[c].disabling, d) <=> was /\ ~is
      <3>1. Reached(current_devices[s] \ devices, d) <=> bits \cap current_devices[s] # {}
                                                        /\ bits \cap devices = {}
        <4>1. OnlyOldReached(current_devices[s], devices, d)
          BY <2>a, ReachedByChange, ZenonT(120)
        <4>2. QED BY <4>1, ZenonT(120) DEF OnlyOldReached
      <3>2. QED BY <2>1, <3>1, ZenonT(120)
    <2>3. Reached(call[c].enabling, d) <=> is /\ ~was
      <3>1. Reached(devices \ current_devices[s], d) <=> bits \cap devices # {}
                                                        /\ bits \cap current_devices[s] = {}
        <4>1. OnlyOldReached(devices, current_devices[s], d)
          BY <2>a, ReachedByChange, ZenonT(120)
        <4>2. QED BY <4>1, ZenonT(120) DEF OnlyOldReached
      <3>2. QED BY <2>1, <3>1, ZenonT(120)
    <2>4. Change(d, dis) = -1 /\ Change(d, en) = 1
      BY <1>3, <1>9 DEF Change, DevicesApart
    <2>5. use_count[d] = Cardinality(Users(d)) /\ use_count[d] \in Int
      BY <1>1, <1>2, <1>4, <1>9 DEF UseCountExact
    <2>6. v[d] = use_count[d] + (IF was /\ ~is THEN -1 ELSE 0) + (IF is /\ ~was THEN 1 ELSE 0)
      <3> HIDE DEF dis, en, was, is
      <3>1. QED BY <2>2, <2>3, <2>4, <2>5 DEF DevicesChanged
    <2>7. CASE IsGlobal(d)
      <3>1. ~was /\ ~is
        BY <2>7 DEF IsGlobal
      <3>2. Users(d)' = Users(d)
        BY <1>1, <2>7 DEF Users
      <3>3. QED BY <2>5, <2>6, <3>1, <3>2
    <2>8. CASE ~IsGlobal(d)
      <3>1. Users(d) \in SUBSET Stream /\ Users(d)' \in SUBSET Stream
        BY ZenonT(120) DEF Users
      <3>2. Users(d)' \ {s} = Users(d) \ {s}
        BY <1>1, <1>2, <1>3, ZenonT(120) DEF Users, Connected, TypeOK
      <3>3. s \in Users(d) <=> was
        BY <1>3, <1>9, <2>8, DeviceDirection, ZenonT(120) DEF Users, Connected
      <3>4. current_devices'[s] = devices
        BY <1>1, <1>2, <1>3, ZenonT(120) DEF TypeOK
      <3>5. s \in Users(d)' <=> is
        BY <1>3, <1>9, <2>8, <3>4, DeviceDirection, ZenonT(120) DEF Users, Connected
      <3> HIDE DEF was, is
      <3>6. Cardinality(Users(d)') = Cardinality(Users(d)) + (IF is /\ ~was THEN 1 ELSE 0)
                                                          - (IF was /\ ~is THEN 1 ELSE 0)
        BY <1>3, <3>1, <3>2, <3>3, <3>5, OneMoreOrLess, SMTT(120)
      <3>7. QED BY <2>5, <2>6, <3>6, SMTT(120)
    <2>9. QED BY <2>7, <2>8, ZenonT(120)
  <1>10. UseCountExact'
    <2> HIDE DEF v
    <2>1. QED BY <1>8, <1>9, ZenonT(120) DEF UseCountExact
  <1>11. TypeOK'
    <2>1. use_count' \in [Device -> Int]
      BY <1>7, <1>8, ZenonT(120)
    <2>2. current_devices' \in [Stream -> Routes \cup {{}}]
      BY <1>1, <1>2, <1>3, ZenonT(120) DEF TypeOK
    <2>3. \A o \in Client : call'[o].running => hw[o] # NoStream
      <3>1. ~NoCall.running
        BY ZenonT(120) DEF NoCall
      <3>2. QED BY <1>2, <1>6, <3>1, ZenonT(120) DEF TypeOK
    <2>4. QED BY <1>1, <1>2, <2>1, <2>2, <2>3, ZenonT(120) DEF TypeOK
  <1>12. ReferencesExact'
    BY <1>1, <1>2, <1>5, ZenonT(120) DEF ReferencesExact, TypeOK
  <1>13. RoutingsFresh'
    <2>1. ~call'[c].running /\ call'[c].running \in BOOLEAN
      BY <1>6, SMTT(120) DEF NoCall
    <2>2. ASSUME races = 0, NEW o \in Client \ {c}, call[o].running
          PROVE  current_devices'[hw[o]] = current_devices[hw[o]]
      <3>1. hw[o] # s /\ hw[o] \in Stream
        BY <1>1, <1>2, <2>2, ZenonT(120) DEF RoutingsFresh, TypeOK
      <3>2. QED BY <1>1, <1>2, <3>1, ZenonT(120) DEF TypeOK
    <2>3. \A o \in Client : call'[o].running => o \in Client \ {c} /\ call'[o] = call[o]
      BY <1>6, <2>1, ZenonT(120)
    <2>4. \A o \in Client : call'[o].running \in BOOLEAN
      BY <1>2, <1>6, <2>1, ZenonT(120) DEF RoutingsFresh
    <2>5. ASSUME NEW o \in Client, call'[o].running
          PROVE  /\ call'[o].devices \in Routes
                 /\ Direction(hw[o], call'[o].devices)
                 /\ races = 0 =>
                      /\ call'[o].enabling = call'[o].devices \ current_devices'[hw[o]]
                      /\ call'[o].disabling = current_devices'[hw[o]] \ call'[o].devices
      BY <1>2, <2>2, <2>3, <2>5, ZenonT(120) DEF RoutingsFresh
    <2>6. races = 0 => \A o, q \in Client :
            o # q /\ call'[o].running /\ call'[q].running => hw[o] # hw[q]
      BY <1>2, <2>3, ZenonT(120) DEF RoutingsFresh
    <2>7. hw' = hw /\ races' = races
      BY <1>1, ZenonT(120)
    <2>8. QED BY <1>6, <2>4, <2>5, <2>6, <2>7, ZenonT(120) DEF RoutingsFresh, Direction
  <1>14. \A t \in Stream : Direction(t, current_devices'[t])
    BY <1>1, <1>2, <1>3, ZenonT(120) DEF TypeOK
  <1>15. QED BY <1>10, <1>11, <1>12, <1>13, <1>14, ZenonT(120) DEF IInv, StreamsExact, Direction

\* Volume and use cases only touch the mixer.
LEMMA CountsUntouched ==
    ASSUME IInv, UNCHANGED <<use_count, ref_count, current_devices, hw, call, races>>
    PROVE  IInv'
  <1>1. \A d \in Device : Users(d)' = Users(d)
    BY ZenonT(120) DEF Users, Connected
  <1>2. TypeOK' /\ ReferencesExact'
    BY DEF IInv, StreamsExact, TypeOK, ReferencesExact
  <1>a. RoutingsFresh'
    BY Zenon DEF IInv, RoutingsFresh, Direction
  <1>3. UseCountExact'
    BY <1>1 DEF IInv, StreamsExact, UseCountExact
  <1>4. QED BY <1>2, <1>a, <1>3, ZenonT(120) DEF IInv, StreamsExact, Direction

\* The parsed configuration starts in the invariant.
LEMMA InitIInv == Init => IInv
  <1> SUFFICES ASSUME Init PROVE IInv
    BY ZenonT(120)
  <1>1. TypeOK
    BY DEF Init, TypeOK, NoCall
  <1>2. ReferencesExact
    <2>1. ASSUME NEW s \in Stream PROVE {c \in Client : hw[c] = s} = {}
      BY CountsFinite, ZenonT(120) DEF Init
    <2>2. ASSUME NEW s \in Stream PROVE Cardinality({c \in Client : hw[c] = s}) = 0
      BY <2>1, FS_EmptySet, ZenonT(120)
    <2>3. QED BY <2>2 DEF Init, ReferencesExact
  <1>3. UseCountExact
    <2>1. ASSUME NEW d \in Device PROVE Users(d) = {}
      BY DEF Init, Users, Connected
    <2>2. QED BY <2>1, FS_EmptySet DEF Init, UseCountExact
  <1>4. RoutingsFresh
    BY ZenonT(120) DEF Init, RoutingsFresh, NoCall
  <1>5. QED BY <1>1, <1>2, <1>3, <1>4 DEF Init, IInv, StreamsExact, Direction

\* Every call of every client keeps the invariant.
LEMMA NextIInv == IInv /\ [Next]_vars => IInv'
  <1> SUFFICES ASSUME IInv, [Next]_vars PROVE IInv'
    OBVIOUS
  <1>1. CASE UNCHANGED vars
    BY <1>1, CountsUntouched, ZenonT(120) DEF vars
  <1>2. ASSUME NEW c \in Client, NEW type, get_stream(c, type) PROVE IInv'
    <2> DEFINE free == {s \in Stream : Streams[s].type = type /\ CanOpen(s)}
    <2>1. free \subseteq 1 .. Len(Streams) /\ free # {} /\ hw[c] = NoStream /\ open_stream_l(c, Max(free))
      BY <1>2, ZenonT(120) DEF get_stream
    <2>2. Max(free) \in Stream
      BY <2>1, FirstAndLast, ZenonT(120)
    <2>3. QED BY <2>1, <2>2, OpenStep, ZenonT(120)
  <1>3. ASSUME NEW c \in Client, NEW name, get_named_stream(c, name) PROVE IInv'
    <2> DEFINE named == {s \in Stream : Streams[s].name = name /\ name # NoName}
    <2>1. named \subseteq 1 .. Len(Streams) /\ named # {} /\ hw[c] = NoStream /\ open_stream_l(c, Min(named))
      BY <1>3 DEF get_named_stream
    <2>2. Min(named) \in Stream
      BY <2>1, FirstAndLast
    <2>3. QED BY <2>1, <2>2, OpenStep
  <1>4. ASSUME NEW c \in Client, release_stream(c) PROVE IInv'
    BY <1>4, ReleaseStep
  <1>5. ASSUME NEW c \in Client, NEW devices \in Routes, applyRouteRead(c, devices) PROVE IInv'
    BY <1>5, ReadStep
  <1>6. ASSUME NEW c \in Client, applyRouteLocked(c) PROVE IInv'
    BY <1>6, LockedStep
  <1>7. ASSUME NEW c \in Client, NEW l, NEW r, set_hw_volume(c, l, r) PROVE IInv'
    BY <1>7, CountsUntouched, ZenonT(120) DEF set_hw_volume
  <1>8. ASSUME NEW c \in Client, NEW case, apply_use_case(c, case) PROVE IInv'
    BY <1>8, CountsUntouched DEF apply_use_case
  <1>9. QED BY <1>1, <1>2, <1>3, <1>4, <1>5, <1>6, <1>7, <1>8 DEF Next

\* For every configuration and any number of clients: a hardware stream has
\* one reference per client that holds it and never more than its maximum, the
\* last release leaves it unrouted, and as long as no two routings of one
\* stream have overlapped a device's use count is the number of streams
\* connected to it, provided the configuration keeps its devices apart.
THEOREM StreamsAreExact == Spec => []StreamsExact
  <1>1. IInv => StreamsExact
    BY DEF IInv
  <1>2. QED BY <1>1, InitIInv, NextIInv, PTL DEF Spec
=============================================================================
