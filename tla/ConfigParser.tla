---------------------------- MODULE ConfigParser ----------------------------
(***************************************************************************)
(* The parser of the audio configuration file (configmgr/audio_config.c).  *)
(* expat calls parse_section_start and parse_section_end for the elements  *)
(* of a well-formed file, which is chosen element by element.  A           *)
(* <codec_probe> may stop the file half way and restart the parser with    *)
(* another one.  Names are members of small sets; attributes that no       *)
(* decision reads are left out.                                            *)
(***************************************************************************)
EXTENDS Integers, Sequences, Functions

CONSTANTS File,        \* names of configuration files
          FirstFile,   \* the one named after the device
          PathName, StreamName,
          Device,      \* device names; "global" may be declared again
          MaxItems,    \* elements of the files that leave something behind
          MaxFiles     \* files that are opened

VARIABLES
    phase,      \* "parse", "redirect", "accepted", "refused"
    cur_xml_file, files,
    stack,      \* open elements, innermost last: [elem, valid]
    path,       \* state->current.path: NULL, "init", or an index of paths
    scase,      \* state->current.scase: 0 or an index of cases
    mixer,      \* the mixer is open
    names,      \* state->path_name_array
    supported,  \* supported_input_devices and supported_output_devices
    paths,      \* paths[i]: the name of the i-th path and its number of ctls
    streams,    \* streams[i]: name, enable_path, disable_path
    cases,      \* cases[i]: number of ctls of the i-th case; ghosts: how many the
                \* file has in it, and whether no path was declared before it
    init_ctls,  \* number of ctls of init_path
    probe,      \* state->init_probe: whether file is set, the cases, new_xml_file
    badfree     \* history: parse_ctl_start freed a member of an array

vars == <<phase, cur_xml_file, files, stack, path, scase, mixer, names, supported, paths,
          streams, cases, init_ctls, probe, badfree>>
content == <<mixer, names, supported, paths, streams, cases, init_ctls, badfree>>

Elements == {"audiohal", "mixer", "init", "codec_probe", "codec_case", "device", "path",
             "stream", "enable", "disable", "stream_ctl", "usecase", "case", "ctl"}
\* Every element that adds to the state asks for room.
SumCtls(seq) == Len(seq) + FoldFunction(+, 0, seq)
Room == SumCtls(paths) + SumCtls([k \in DOMAIN cases |-> cases[k].seen])
        + Len(streams) + init_ctls + Len(probe.cases) < MaxItems
NULL == 0
INIT == -1
Predefined == <<"off", "on">>

\* elem_table: what an element may hold.
valid_subelem(elem) ==
    CASE elem = "audiohal"    -> {"mixer", "codec_probe"}
      [] elem = "mixer"       -> {"init"}
      [] elem = "codec_probe" -> {"codec_case"}
      [] elem = "device"      -> {"path"}
      [] elem = "stream"      -> {"stream_ctl", "enable", "disable", "usecase"}
      [] elem = "usecase"     -> {"case"}
      [] elem \in {"init", "path", "case"} -> {"ctl"}
      [] OTHER                -> {}

Top == stack[Len(stack)]
Below == SubSeq(stack, 1, Len(stack) - 1)
Push(elem) == Append(stack, [elem |-> elem, valid |-> valid_subelem(elem)])

TypeOK ==
    /\ phase \in {"parse", "redirect", "accepted", "refused"}
    /\ \A k \in DOMAIN stack : stack[k].elem \in Elements \cup {"document"}
    /\ Len(stack) <= 7
    /\ path \in -1..Len(paths) /\ scase \in 0..Len(cases)
    /\ cur_xml_file \in File

\* parse_set_error: what the handlers before the error did stays; no handler
\* runs any more, and do_parse gives up.
Refuse == phase' = "refused" /\ UNCHANGED <<cur_xml_file, files, stack, path, scase, content, probe>>

Accept(elem) == phase' = "parse" /\ stack' = Push(elem) /\ UNCHANGED <<cur_xml_file, files>>

\* parse_section_start: an element that may not stand here.
NotAllowed == /\ phase = "parse"
              /\ Elements \ Top.valid # {}
              /\ Refuse

Starts(elem) == phase = "parse" /\ elem \in Top.valid
-----------------------------------------------------------------------------
(* Handlers of the start of an element *)

audiohal_start == Starts("audiohal") /\ Accept("audiohal") /\ UNCHANGED <<path, scase, content, probe>>

\* Devices and streams are allowed from here on, and no other <mixer>.
parse_mixer_start ==
    /\ Starts("mixer")
    /\ \/ /\ mixer' = TRUE
          /\ stack' = Append(Below \o <<[Top EXCEPT !.valid = {"device", "stream"}]>>,
                             [elem |-> "mixer", valid |-> valid_subelem("mixer")])
          /\ UNCHANGED <<phase, cur_xml_file, files, path, scase, names, supported, paths,
                         streams, cases, init_ctls, badfree, probe>>
       \/ Refuse                           \* mixer_open fails

\* <init> makes init_path the current path; nothing takes that back at </init>.
parse_init_start ==
    /\ Starts("init") /\ Accept("init")
    /\ path' = INIT
    /\ UNCHANGED <<scase, content, probe>>

parse_device_start(d) ==
    /\ Starts("device") /\ Room
    /\ IF d # "global" /\ d \in supported THEN Refuse
       ELSE /\ Accept("device")
            /\ supported' = IF d = "global" THEN supported ELSE supported \cup {d}
            /\ UNCHANGED <<path, scase, mixer, names, paths, streams, cases, init_ctls,
                           badfree, probe>>

\* add_path_name keeps one entry for a name, whatever device has the path.
add_path_name(n) == IF n \in Range(names) THEN names ELSE Append(names, n)

parse_path_start(n) ==
    /\ Starts("path") /\ Room
    /\ Accept("path")
    /\ names' = add_path_name(n)
    /\ paths' = Append(paths, 0)
    /\ path' = Len(paths')
    /\ UNCHANGED <<scase, mixer, supported, streams, cases, init_ctls, badfree, probe>>

\* find_named_stream: a named stream is declared once.
parse_stream_start(n) ==
    /\ Starts("stream") /\ Room
    /\ IF n # "anonymous" /\ \E k \in DOMAIN streams : streams[k].name = n THEN Refuse
       ELSE /\ Accept("stream")
            /\ streams' = Append(streams, [name |-> n, enable |-> -1, disable |-> -1])
            /\ UNCHANGED <<path, scase, mixer, names, supported, paths, cases, init_ctls,
                           badfree, probe>>

find_path_name(n) == IF n \in Range(names) THEN CHOOSE i \in DOMAIN names : names[i] = n ELSE -1

parse_enable_disable_start(elem, n) ==
    /\ Starts(elem)
    /\ IF find_path_name(n) = -1 THEN Refuse
       ELSE /\ Accept(elem)
            /\ streams' = [streams EXCEPT ![Len(streams)] =
                               IF elem = "enable" THEN [@ EXCEPT !.enable = find_path_name(n)]
                               ELSE [@ EXCEPT !.disable = find_path_name(n)]]
            /\ UNCHANGED <<path, scase, mixer, names, supported, paths, cases, init_ctls,
                           badfree, probe>>

\* A volume control must exist already: it is looked up now.
parse_stream_ctl_start ==
    /\ Starts("stream_ctl")
    /\ \/ Accept("stream_ctl") /\ UNCHANGED <<path, scase, content, probe>>
       \/ Refuse

parse_usecase_start == Starts("usecase") /\ Accept("usecase") /\ UNCHANGED <<path, scase, content, probe>>

parse_case_start ==
    /\ Starts("case") /\ Room
    /\ Accept("case")
    /\ cases' = Append(cases, [ctls |-> 0, seen |-> 0, early |-> paths = <<>>]) /\ scase' = Len(cases')
    /\ UNCHANGED <<path, mixer, names, supported, paths, streams, init_ctls, badfree, probe>>

Bump(seq, k) == [seq EXCEPT ![k] = @ + 1]

\* The control goes to the current path if there is one, and to the current
\* case if there is none.
parse_ctl_start ==
    /\ Starts("ctl") /\ Room
    /\ init_ctls' = IF path = INIT THEN init_ctls + 1 ELSE init_ctls
    /\ paths' = IF path > 0 THEN Bump(paths, path) ELSE paths
    /\ cases' = IF scase = NULL THEN cases
                ELSE [cases EXCEPT ![scase].seen = @ + 1, ![scase].ctls = IF path = NULL THEN @ + 1 ELSE @]
    /\ \/ Accept("ctl") /\ UNCHANGED badfree
       \/ \* a bad index: free(c) frees a member of the array
          phase' = "refused" /\ badfree' = TRUE /\ UNCHANGED <<cur_xml_file, files, stack>>
       \/ \* a control that exists and a value that does not fit it
          phase' = "refused" /\ UNCHANGED <<cur_xml_file, files, stack, badfree>>
    /\ UNCHANGED <<path, scase, mixer, names, supported, streams, probe>>

parse_codec_probe_start ==
    /\ Starts("codec_probe")
    /\ IF probe.file THEN Refuse
       ELSE /\ Accept("codec_probe") /\ probe' = [probe EXCEPT !.file = TRUE]
            /\ UNCHANGED <<path, scase, content>>

parse_codec_case_start(codec, f) ==
    /\ Starts("codec_case") /\ Room
    /\ Accept("codec_case")
    /\ probe' = [probe EXCEPT !.cases = Append(@, [codec |-> codec, file |-> f])]
    /\ UNCHANGED <<path, scase, content>>
-----------------------------------------------------------------------------
(* Ends of elements *)

Codec == "present"      \* what the probe file holds; it does not change

\* probe_config_file: the first case of the codec, of any file that was read.
probe_config_file(cs) ==
    LET mine == SelectSeq(cs, LAMBDA c : c.codec = Codec)
    IN  IF mine = <<>> THEN NULL ELSE Head(mine).file

End(elem) == phase = "parse" /\ Len(stack) > 1 /\ Top.elem = elem /\ stack' = Below

parse_codec_probe_end ==
    /\ End("codec_probe")
    /\ LET f == probe_config_file(probe.cases)
       IN  \/ f = NULL /\ phase' = "parse" /\ UNCHANGED probe
           \/ f = cur_xml_file /\ phase' = "refused" /\ UNCHANGED probe
           \/ /\ f \notin {NULL, cur_xml_file}
              /\ phase' = "redirect" /\ probe' = [probe EXCEPT !.new_xml_file = f]
    /\ UNCHANGED <<cur_xml_file, files, path, scase, content>>

parse_path_end_kept ==
    /\ End("path")
    /\ UNCHANGED <<phase, cur_xml_file, files, path, scase, content, probe>>

parse_path_end ==
    /\ End("path") /\ path' = NULL
    /\ UNCHANGED <<phase, cur_xml_file, files, scase, content, probe>>

parse_case_end ==
    /\ End("case") /\ scase' = NULL
    /\ UNCHANGED <<phase, cur_xml_file, files, path, content, probe>>

\* Of the others, some give memory back and none changes the state.
parse_section_end ==
    /\ \E elem \in Elements \ {"audiohal", "codec_probe", "path", "case"} : End(elem)
    /\ UNCHANGED <<phase, cur_xml_file, files, path, scase, content, probe>>
-----------------------------------------------------------------------------
(* parse_config_file *)

Bottom == <<[elem |-> "document", valid |-> {"audiohal"}]>>

\* The parser starts over with the new file.  The cases that were read stay.
redirect ==
    /\ phase = "redirect" /\ files < MaxFiles
    /\ \/ /\ phase' = "parse" /\ stack' = Bottom
          /\ cur_xml_file' = probe.new_xml_file /\ files' = files + 1
          /\ probe' = [probe EXCEPT !.file = FALSE, !.new_xml_file = NULL]
          /\ UNCHANGED <<path, scase, content>>
       \/ Refuse                           \* the file cannot be opened

\* The end of the document: init_path is applied, and init_audio_config hands
\* the configuration out.
finish ==
    /\ End("audiohal")
    /\ phase' = "accepted"
    /\ UNCHANGED <<cur_xml_file, files, path, scase, content, probe>>

Done == phase \in {"accepted", "refused"} /\ UNCHANGED vars
-----------------------------------------------------------------------------
Init ==
    /\ phase = "parse" /\ cur_xml_file = FirstFile /\ files = 1
    /\ stack = Bottom /\ path = NULL /\ scase = NULL
    /\ mixer = FALSE /\ names = Predefined /\ supported = {}
    /\ paths = <<>> /\ streams = <<>> /\ cases = <<>> /\ init_ctls = 0
    /\ probe = [file |-> FALSE, cases |-> <<>>, new_xml_file |-> NULL]
    /\ badfree = FALSE

StartNext ==
    \/ NotAllowed
    \/ audiohal_start \/ parse_mixer_start \/ parse_init_start
    \/ \E d \in Device : parse_device_start(d)
    \/ \E n \in PathName : parse_path_start(n)
    \/ \E n \in StreamName : parse_stream_start(n)
    \/ \E elem \in {"enable", "disable"}, n \in PathName \cup {"off"} : parse_enable_disable_start(elem, n)
    \/ parse_stream_ctl_start \/ parse_usecase_start \/ parse_case_start \/ parse_ctl_start
    \/ parse_codec_probe_start
    \/ \E codec \in {Codec, "absent"}, f \in File : parse_codec_case_start(codec, f)

EndNext == parse_codec_probe_end \/ parse_path_end \/ parse_case_end \/ parse_section_end

Next == StartNext \/ EndNext \/ redirect \/ finish \/ Done
-----------------------------------------------------------------------------
(* Properties *)

\* "The <mixer> section must always appear first": nothing that looks controls
\* up is read before the mixer is open, in a file that was redirected to too,
\* and only one mixer is opened.
MixerComesFirst ==
    /\ (paths # <<>> \/ streams # <<>> \/ supported # {}) => mixer
    /\ (mixer /\ Len(stack) > 1 /\ stack[2].elem = "audiohal") => "mixer" \notin stack[2].valid

\* "Paths must be defined before they can be referred to": the enable and
\* disable paths of a stream are paths of that number in the list of names.
PathsAreDefined ==
    \A k \in DOMAIN streams : {streams[k].enable, streams[k].disable} \subseteq {-1} \cup DOMAIN names

\* A file is redirected once at most: the parser cannot go round in circles
\* between two files, as the cases that led from the first still come first.
RedirectsEnd == files <= 2 /\ (files = 2 => phase # "redirect")

\* A control inside a <case> belongs to that case, in every file that declares
\* a path before its first case: <init> leaves its own path current.
CtlsBelongToTheirCase == \A k \in DOMAIN cases : cases[k].ctls = cases[k].seen \/ cases[k].early
=============================================================================
