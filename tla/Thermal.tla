------------------------------- MODULE Thermal -------------------------------
(***************************************************************************)
(* The thermal HAL (hardware/nvidia/thermal: thermal.c, parse_thermal.c).  *)
(* Every call first reads the XML configuration, once; the temperatures    *)
(* then come from the thermal zones whose type is the label of a           *)
(* configured device, the thresholds from their trip points, and the fan   *)
(* speeds from files that may not be there.  Drivers register zones and    *)
(* fans while the HAL is in use, and any read may fail.                    *)
(*                                                                         *)
(* A file is a sequence of elements: thermal devices, cooling devices,     *)
(* cpu_usages, or "bad", something at which the parser gives up.           *)
(***************************************************************************)
EXTENDS Integers, Sequences, FiniteSets, FiniteSetsExt, SequencesExt, Folds

CONSTANTS Docs,      \* configurations
          Zones,     \* thermal zones, in directory order: [label, trips]
          MaxSize    \* largest list a caller has

VARIABLES doc, file,      \* the configuration; whether the file can be opened
          zones, fans,    \* how many zones are there; the fans that are there
          data,           \* platform_data, cooling_data, num_cpus_total
          last            \* the last call and its answer

vars == <<doc, file, zones, fans, data, last>>

NONE == 0

NoData == [devs |-> <<>>, cool |-> 0, cpus |-> NONE, used |-> FALSE]

Cores(d) == IF d.cores > 0 THEN d.cores ELSE 1

Broken == \E i \in DOMAIN doc : doc[i].kind = "bad"

Of(kind) == SelectSeq(doc, LAMBDA e : e.kind = kind)

SumCores(devs) == MapThenFoldSet(+, 0, LAMBDA i : Cores(devs[i]), LAMBDA S : Min(S), DOMAIN devs)

-----------------------------------------------------------------------------
(* Mutants *)

forget_paths_kept(devs) == devs

-----------------------------------------------------------------------------
(* One element of the file.                                                *)
processNode(d, e) ==
  CASE e.kind = "thermal" -> [d EXCEPT !.used = TRUE, !.devs = Append(@,
           [label |-> e.label, thr |-> e.thr, cores |-> e.cores, temp |-> NONE, trip |-> <<>>])]
    [] e.kind = "cooling" -> [d EXCEPT !.used = TRUE, !.cool = @ + 1]
    [] OTHER              -> [d EXCEPT !.used = TRUE, !.cpus = e.cores]

(* streamFile: what comes before the first bad element stays in data.      *)
streamFile ==
  LET bad  == {i \in DOMAIN doc : doc[i].kind = "bad"}
      good == IF bad = {} THEN doc ELSE SubSeq(doc, 1, Min(bad) - 1)
  IN FoldLeft(processNode, NoData, good)

(* Only while nothing was read yet.  So a file that was read in part is    *)
(* taken as read by the next call.                                         *)
parsed == IF data.used \/ ~file THEN data ELSE streamFile

parse_thermal_config_xml == IF data.used THEN TRUE ELSE file /\ ~Broken

(* The trip points a zone adds to the ones a device has already.           *)
update_threshold_paths(trip, z) ==
  [t \in DOMAIN trip \cup Zones[z].trips |-> IF t \in DOMAIN trip THEN trip[t] ELSE z]

get_threshold_paths(d, z) ==
  IF (IF d.thr # "none" THEN d.thr ELSE d.label) = Zones[z].label
  THEN [d EXCEPT !.trip = update_threshold_paths(@, z)] ELSE d

get_temperature_path(d, z) ==
  IF d.temp = NONE /\ d.label = Zones[z].label THEN [d EXCEPT !.temp = z] ELSE d

Complete(d) == d.temp # NONE /\ {"passive", "critical"} \subseteq DOMAIN d.trip

(* Looks at the first device only: it is complete, or all zones are read.  *)
get_paths(devs) ==
  IF devs # <<>> /\ Complete(devs[1]) THEN devs
  ELSE [i \in DOMAIN devs |->
         FoldLeft(LAMBDA d, z : IF Complete(d) THEN d
                                ELSE get_threshold_paths(get_temperature_path(d, z), z),
                  devs[i], [z \in 1..zones |-> z])]

(* Number of entries a device adds to the list; -1 when it cannot be read, *)
(* or the list has no room (size is the room left).                        *)
read_cluster_temperature(d, size, fault) ==
  IF size < Cores(d) \/ fault \/ ~Complete(d) THEN -1 ELSE Cores(d)

forget_paths(devs) == [i \in DOMAIN devs |-> [devs[i] EXCEPT !.temp = NONE]]

(* Devices one after the other, up to the first that fails.                *)
readAll(devs, size, faults) ==
  FoldLeft(LAMBDA a, i :
             LET n == read_cluster_temperature(devs[i], size - a.n, i \in faults)
             IN IF ~a.ok THEN a
                ELSE IF n < 0 THEN [a EXCEPT !.ok = FALSE] ELSE [a EXCEPT !.n = @ + n],
           [ok |-> TRUE, n |-> 0], [i \in DOMAIN devs |-> i])

Answer(op, ok, n, size, calm) == [op |-> op, ok |-> ok, n |-> n, size |-> size, calm |-> calm]

Refused(op) ==
  /\ ~parse_thermal_config_xml
  /\ data' = parsed
  /\ last' = Answer(op, FALSE, 0, 0, FALSE)

(* list = NULL: how many entries there will be.                            *)
count_temperatures ==
  /\ \/ Refused("count")
     \/ /\ parse_thermal_config_xml
        /\ data' = parsed
        /\ last' = Answer("count", TRUE, SumCores(parsed.devs), 0, TRUE)
  /\ UNCHANGED <<doc, file, zones, fans>>

get_temperatures(size, faults) ==
  /\ \/ Refused("temps")
     \/ /\ parse_thermal_config_xml
        /\ LET devs == get_paths(parsed.devs)
               r    == readAll(devs, size, faults)
           IN /\ data' = [parsed EXCEPT !.devs = IF r.ok THEN devs ELSE forget_paths(devs)]
              /\ last' = Answer("temps", r.ok, r.n, size, faults = {})
  /\ UNCHANGED <<doc, file, zones, fans>>

(* list = NULL counts the fans there are; otherwise the first size of the  *)
(* configured ones are read, in order, each of which must be there.        *)
get_cooling_devices(d) == Cardinality((1..d.cool) \cap fans)

count_cooling_devices ==
  /\ \/ Refused("fans")
     \/ /\ parse_thermal_config_xml
        /\ data' = parsed
        /\ last' = Answer("fans", TRUE, get_cooling_devices(parsed), 0, TRUE)
  /\ UNCHANGED <<doc, file, zones, fans>>

list_cooling_devices ==
  /\ last.op = "fans" /\ last.n > 0
  /\ last' = Answer("speeds", 1..last.n \subseteq fans, last.n, last.n, TRUE)
  /\ UNCHANGED <<doc, file, zones, fans, data>>

(* list = NULL reads num_cpus_total, without a test.                       *)
get_cpu_usages ==
  /\ \/ Refused("usages")
     \/ /\ parse_thermal_config_xml
        /\ data' = parsed
        /\ last' = IF parsed.cpus = NONE THEN Answer("crash", FALSE, 0, 0, TRUE)
                   ELSE Answer("usages", TRUE, parsed.cpus, 0, TRUE)
  /\ UNCHANGED <<doc, file, zones, fans>>

(* The system around the HAL.                                              *)
register_zone ==
  /\ zones < Len(Zones)
  /\ zones' = zones + 1
  /\ UNCHANGED <<doc, file, fans, data, last>>

register_fan(f) ==
  /\ f \notin fans
  /\ fans' = fans \cup {f}
  /\ last' = [last EXCEPT !.op = "none"]
  /\ UNCHANGED <<doc, file, zones, data>>

file_appears ==
  /\ ~file
  /\ file' = TRUE
  /\ UNCHANGED <<doc, zones, fans, data, last>>

Init ==
  /\ doc \in Docs
  /\ file \in BOOLEAN
  /\ zones = 0
  /\ fans = {}
  /\ data = NoData
  /\ last = Answer("none", TRUE, 0, 0, TRUE)

Next ==
  \/ count_temperatures
  \/ \E size \in 1..MaxSize, faults \in SUBSET (1..Len(Of("thermal"))) :
       get_temperatures(size, faults)
  \/ count_cooling_devices
  \/ list_cooling_devices
  \/ get_cpu_usages
  \/ register_zone
  \/ \E f \in 1..Len(Of("cooling")) : register_fan(f)
  \/ file_appears

Spec == Init /\ [][Next]_vars

-----------------------------------------------------------------------------
TypeOK ==
  /\ zones \in 0..Len(Zones)
  /\ fans \subseteq 1..Len(Of("cooling"))
  /\ data.cool \in 0..Len(Of("cooling"))
  /\ \A i \in DOMAIN data.devs : data.devs[i].temp \in 0..zones

(* No call writes past the list it was given, in success or in failure:    *)
(* read_temp_file and read_cluster_temperature test the room that is left. *)
ListsFit == last.op = "temps" => last.n <= last.size

(* A call with room for all, in which no read fails, after all zones are   *)
(* registered, gives all temperatures, whatever failed before: get_paths   *)
(* looks at the first device only, and a failure must therefore leave that *)
(* device without its path (get_temperatures, the label out).              *)
RescanFindsAll ==
  [][last'.op = "temps" /\ last'.calm /\ ~Broken /\ zones = Len(Zones)
       /\ (file \/ data.used) /\ last'.size >= SumCores(Of("thermal")) => last'.ok]_vars

(* Unless the file has an error, an answer is about the whole of it, and   *)
(* the list is as long as the count that was given for it.  With an error  *)
(* the first call fails, and the next ones use what was read of it.        *)
WholeFile ==
  ~Broken =>
    /\ last.op = "count" /\ last.ok => last.n = SumCores(Of("thermal"))
    /\ last.op = "temps" /\ last.ok => last.n = SumCores(Of("thermal"))
    /\ last.op # "crash" \/ Of("cpus") = <<>>

(* As many fan speeds are read as were counted, when the fans that are     *)
(* there are the first ones of the file.                                   *)
FansAsCounted ==
  last.op = "speeds" /\ (\E k \in 0..data.cool : fans = 1..k) => last.ok
=============================================================================
