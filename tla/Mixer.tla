------------------------------- MODULE Mixer --------------------------------
(***************************************************************************)
(* The mixer of tinyalsa (tinyalsa/src/mixer.c): the table of controls     *)
(* that a process reads from the driver when it opens a card, and extends  *)
(* later; the reading and writing of values; percentages.  Two processes   *)
(* (the audio HAL, a command-line tool) use the same card.  The driver     *)
(* gives a control a numid and appends it; it is not supposed to remove    *)
(* one.                                                                    *)
(***************************************************************************)
EXTENDS Integers, Sequences, Functions

CONSTANTS Tool,         \* the other process
          MaxCtls,      \* controls of the card
          MinV, MaxV,   \* range of a control
          Percent,      \* percentages asked for
          Path          \* the controls (numids stand for names) of a routing path

VARIABLES
    elems,     \* the driver's controls: a sequence of numids
    value,     \* value[n][c]: channel c of the control with numid n
    mixer,     \* mixer[p]: the controls that p knows; <<>> if it has no mixer
    phase,     \* phase[p]: "closed", "opening", "open"
    fds,       \* fds[p]: descriptors of the card that p holds
    op,        \* op[p]: the mixer_ctl_set_value that p is in; ghost stale: the control
               \* was written since p read it
    pctl,      \* pctl[i]: id of the i-th control of Path, once it was found
    apply,     \* apply_ctls_l: the values still to be set
    removed,   \* history: the driver removed a control
    leaked,    \* history: leaked[p]: the card's information could not be read
    done       \* ghost: the last apply_ctls_l: the controls known then, the places of Path set

vars == <<elems, value, mixer, phase, fds, op, pctl, apply, removed, leaked, done>>
driver == <<elems, removed>>
table == <<mixer, phase, fds, leaked>>
config == <<pctl, apply, done>>

HAL == "hal"
Process == {HAL, Tool}
Numid == 1..MaxCtls
Channel == {0, 1}
Value == MinV..MaxV
NoOp == [n |-> 0]
UINT_MAX == -1
Idle == <<>>

TypeOK ==
    /\ Range(elems) \subseteq Numid /\ Len(elems) <= MaxCtls
    /\ \A n \in Numid : value[n] \in [Channel -> Value]
    /\ \A p \in Process : Range(mixer[p]) \subseteq Numid
    /\ phase \in [Process -> {"closed", "opening", "open"}]
    /\ fds \in [Process -> 0..2]
    /\ pctl \in [1..Len(Path) -> -1..(MaxCtls - 1)]
-----------------------------------------------------------------------------
(* The driver (external) *)

driver_add ==
    /\ Len(elems) < MaxCtls /\ ~removed
    /\ elems' = Append(elems, Len(elems) + 1)
    /\ UNCHANGED <<removed, value, table, config, op>>

driver_remove ==
    /\ elems # <<>> /\ ~removed
    /\ elems' = Tail(elems) /\ removed' = TRUE
    /\ UNCHANGED <<value, table, config, op>>
-----------------------------------------------------------------------------
(* The table of controls *)

\* add_controls: the controls behind the ones that are known, up to the first
\* whose information cannot be read; nothing if the driver has fewer by now.
\* ok is the number of controls whose information can be read.
add_controls(known, ok) ==
    IF Len(known) >= Len(elems) \/ ok < Len(known) THEN known
    ELSE known \o SubSeq(elems, Len(known) + 1, ok)

\* mixer_open, up to SNDRV_CTL_IOCTL_CARD_INFO.  If that fails, mixer->fd is
\* not assigned yet: mixer_close closes descriptor 0, and the card's is left.
mixer_open(p) ==
    /\ phase[p] = "closed"
    /\ \/ phase' = [phase EXCEPT ![p] = "opening"] /\ UNCHANGED leaked
       \/ ~leaked[p] /\ leaked' = [leaked EXCEPT ![p] = TRUE] /\ UNCHANGED phase
    /\ fds' = [fds EXCEPT ![p] = @ + 1]
    /\ UNCHANGED <<driver, value, config, mixer, op>>

Close(p) ==
    /\ mixer' = [mixer EXCEPT ![p] = <<>>]
    /\ phase' = [phase EXCEPT ![p] = "closed"]
    /\ fds' = [fds EXCEPT ![p] = @ - 1]

\* parse_ctl_start looks a control up while the configuration is parsed, and
\* leaves one that is not there to ctl_open.
parse_ctls(known) == [i \in 1..Len(Path) |-> IF Path[i] \in Range(known) THEN Path[i] - 1 ELSE UINT_MAX]

\* The rest of mixer_open: one control that cannot be read fails it.
mixer_open_controls(p) ==
    /\ phase[p] = "opening"
    /\ \E ok \in 0..Len(elems) :
         IF ok = Len(elems)
         THEN /\ mixer' = [mixer EXCEPT ![p] = add_controls(<<>>, ok)]
              /\ phase' = [phase EXCEPT ![p] = "open"] /\ UNCHANGED fds
              /\ pctl' = IF p = HAL THEN parse_ctls(mixer'[p]) ELSE pctl
         ELSE Close(p) /\ UNCHANGED pctl
    /\ UNCHANGED <<driver, value, apply, done, op, leaked>>

\* Nothing in the HAL calls it: the call in ctl_open is commented out.
mixer_add_new_ctls(p) ==
    /\ p = Tool /\ phase[p] = "open" /\ op[p] = NoOp
    /\ \E ok \in 0..Len(elems) : mixer' = [mixer EXCEPT ![p] = add_controls(mixer[p], ok)]
    /\ UNCHANGED <<driver, value, config, phase, fds, leaked, op>>

mixer_close(p) ==
    /\ phase[p] = "open" /\ op[p] = NoOp
    /\ p = HAL => apply = Idle
    /\ Close(p)
    /\ UNCHANGED <<driver, value, config, leaked, op>>

\* 0-based, as the callers see them; an index with no control has numid 0.
mixer_get_ctl(p, id) == IF id \in 0..(Len(mixer[p]) - 1) THEN mixer[p][id + 1] ELSE 0
mixer_ctl_get_id(n) == n - 1
-----------------------------------------------------------------------------
(* Values *)

Read(p, n, c, v, current) ==
    /\ op' = [op EXCEPT ![p] = [n |-> n, c |-> c, ev |-> [current EXCEPT ![c] = v], stale |-> FALSE]]
    /\ UNCHANGED <<driver, value, table>>

\* mixer_ctl_set_value without its SNDRV_CTL_IOCTL_ELEM_READ.
mixer_ctl_set_value_unread(p, n, c, v) ==
    /\ n \in Range(mixer[p]) /\ op[p] = NoOp
    /\ v \in MinV..MaxV
    /\ n \in Range(elems) /\ Read(p, n, c, v, [x \in Channel |-> v])

\* mixer_ctl_set_value reads the whole control, changes one channel, and
\* writes the whole control.  It fails if the control is gone, or v is out of
\* the control's range.
mixer_ctl_set_value(p, n, c, v) ==
    /\ n \in Range(mixer[p]) /\ op[p] = NoOp
    /\ v \in MinV..MaxV
    /\ n \in Range(elems) /\ Read(p, n, c, v, value[n])

\* Every other process that is between its read and its write of n.
Overtake(ops, p, n) ==
    [q \in Process |-> IF q # p /\ ops[q].n = n THEN [ops[q] EXCEPT !.stale = TRUE] ELSE ops[q]]

mixer_ctl_set_value_write(p) ==
    /\ op[p] # NoOp
    /\ LET o == op[p]
       IN  IF o.n \notin Range(elems) THEN op' = [op EXCEPT ![p] = NoOp] /\ UNCHANGED value
           ELSE /\ value' = [value EXCEPT ![o.n] = o.ev]
                /\ op' = Overtake([op EXCEPT ![p] = NoOp], p, o.n)
    /\ UNCHANGED <<driver, table, config>>

\* mixer_ctl_set_array writes all the channels at once and reads nothing.
mixer_ctl_set_array(p, n, v) ==
    /\ n \in Range(mixer[p]) \cap Range(elems) /\ op[p] = NoOp
    /\ value' = [value EXCEPT ![n] = [c \in Channel |-> v]]
    /\ op' = Overtake(op, p, n)
    /\ UNCHANGED <<driver, table, config>>

EINVAL == 22

percent_to_int(percent) ==
    IF percent > 100 \/ percent < 0 THEN -EINVAL
    ELSE MinV + ((MaxV - MinV) * percent) \div 100

\* What percent_to_int returns goes to mixer_ctl_set_value, an error too.
mixer_ctl_set_percent(p, n, c, percent) == mixer_ctl_set_value(p, n, c, percent_to_int(percent))

\* The division comes first: all of the range or nothing.
int_to_percent(v) == IF MaxV = MinV THEN 0 ELSE ((v - MinV) \div (MaxV - MinV)) * 100
-----------------------------------------------------------------------------
(* How the configuration manager uses it (configmgr/audio_config.c) *)

AllValues == [k \in 1..(2 * Len(Path)) |-> [i |-> (k + 1) \div 2, c |-> (k + 1) % 2]]

apply_ctls_l ==
    /\ phase[HAL] = "open" /\ apply = Idle
    /\ apply' = AllValues /\ done' = [known |-> Range(mixer[HAL]), set |-> {}]
    /\ UNCHANGED <<driver, value, table, pctl, op>>

\* ctl_open: a control that is known stays known; one that was not found at
\* boot is looked up in the same table again.
ctl_open(i) == IF pctl[i] = UINT_MAX /\ Path[i] \in Range(mixer[HAL]) THEN mixer_ctl_get_id(Path[i]) ELSE pctl[i]

\* A control that cannot be opened ends the path.
unopened(i) == Idle

\* One value of the path.  A value that cannot be set leaves the other values
\* of its control.
apply_ctl ==
    /\ apply # Idle /\ op[HAL] = NoOp
    /\ LET i  == Head(apply).i
           id == ctl_open(i)
           n  == mixer_get_ctl(HAL, id)
       IN  /\ pctl' = [pctl EXCEPT ![i] = id]
           /\ IF id = UINT_MAX
              THEN apply' = unopened(i) /\ UNCHANGED <<driver, value, table, op, done>>
              ELSE IF n \in Range(elems)
              THEN /\ apply' = Tail(apply) /\ done' = [done EXCEPT !.set = @ \cup {i}]
                   /\ mixer_ctl_set_value(HAL, n, Head(apply).c, MaxV)
              ELSE /\ apply' = SelectSeq(apply, LAMBDA a : a.i # i)
                   /\ UNCHANGED <<driver, value, table, op, done>>
-----------------------------------------------------------------------------
Init ==
    /\ elems = <<1>> /\ removed = FALSE
    /\ value = [n \in Numid |-> [c \in Channel |-> MinV]]
    /\ mixer = [p \in Process |-> <<>>] /\ phase = [p \in Process |-> "closed"]
    /\ fds = [p \in Process |-> 0] /\ leaked = [p \in Process |-> FALSE]
    /\ op = [p \in Process |-> NoOp]
    /\ pctl = [i \in 1..Len(Path) |-> UINT_MAX] /\ apply = Idle
    /\ done = [known |-> {}, set |-> {}]

Next ==
    \/ driver_add \/ driver_remove
    \/ apply_ctls_l \/ apply_ctl
    \/ \E p \in Process :
         \/ mixer_open(p) \/ mixer_open_controls(p)
         \/ mixer_add_new_ctls(p) \/ mixer_close(p)
         \/ mixer_ctl_set_value_write(p)
    \/ \E n \in Numid :
         \/ \E v \in Value : mixer_ctl_set_array(Tool, n, v)
         \/ \E c \in Channel, percent \in Percent :
              mixer_ctl_set_percent(Tool, n, c, percent) /\ UNCHANGED config
-----------------------------------------------------------------------------
(* Properties *)

\* mixer_ctl_get_id: "return a 0-base value that can be passed to
\* mixer_get_ctl()".  The index leads back to the same control, in a table
\* that was extended any number of times, in part or in whole, as long as the
\* driver removes nothing.
IdFindsControl ==
    ~removed => \A p \in Process : \A n \in Range(mixer[p]) :
                    mixer_get_ctl(p, mixer_ctl_get_id(n)) = n

\* Setting one channel leaves the other channel of the control as it was,
\* unless another process wrote the control between the read and the write.
OtherChannelStays ==
    [][\A p \in Process :
         (op[p] # NoOp /\ op'[p] = NoOp /\ ~op[p].stale) =>
             \A c \in Channel \ {op[p].c} : value'[op[p].n][c] = value[op[p].n][c]]_vars

\* A process with no mixer holds no descriptor of the card, but for the one
\* that mixer_open leaves when the card's information cannot be read.
NoDescriptorLeft ==
    \A p \in Process : phase[p] = "closed" => fds[p] = IF leaked[p] THEN 1 ELSE 0

\* A percentage between 0 and 100 is a value of the control, and one that is
\* not is refused when -EINVAL is no value of the control.
PercentInRange ==
    phase[Tool] = "open" => \A percent \in Percent :
        percent_to_int(percent) \in MinV..MaxV <=> percent \in 0..100

\* A path sets its controls up to the first that was not there when the
\* mixer was opened: the controls that were "added" since are not looked for
\* (ctl_open's update of the table is commented out), and the rest of the path
\* goes with them.
PathIsSetToFirstUnknown ==
    (apply = Idle /\ ~removed) =>
        done.set = {j \in 1..Len(Path) : \A k \in 1..j : Path[k] \in done.known}
=============================================================================
