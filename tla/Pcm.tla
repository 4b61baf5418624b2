-------------------------------- MODULE Pcm ---------------------------------
(***************************************************************************)
(* A PCM handle of tinyalsa (tinyalsa/src/pcm.c): how it is opened and     *)
(* closed, what of the kernel it holds, and how its prepared and running   *)
(* flags follow the state of the kernel's stream through reads, writes,    *)
(* overruns and suspends.  One thread uses the handle; the kernel moves    *)
(* between any two of its calls.                                           *)
(***************************************************************************)
EXTENDS Integers

CONSTANT MaxFaults   \* bound on overruns and suspends of a handle

VARIABLES
    flags,      \* [in, mmap, norestart, monotonic]: how the handle was opened
    fd,         \* "none", "open", or "bad" for the static bad_pcm
    maps,       \* [buffer, status]: the mappings that the handle holds
    opening,    \* the next step of pcm_open, or "no"
    prepared, running,
    kernel,     \* state of the kernel's stream
    call,       \* where the thread is: "none", "write", "initial", "read", "started"
    result,     \* of the last read or write, "none" while one is under way
    faults,
    fell        \* history: the stream left the prepared state between prepare and use

handle == <<flags, fd, maps, opening>>
stream == <<prepared, running, kernel, call, result, faults, fell>>
vars == <<handle, stream>>

Flags == [in : BOOLEAN, mmap : BOOLEAN, norestart : BOOLEAN, monotonic : BOOLEAN]
Step == {"no", "info", "hw params", "mmap", "sw params", "status", "tstamp"}

TypeOK ==
    /\ flags \in Flags
    /\ fd \in {"none", "open", "failed", "bad"}
    /\ maps \in [buffer : {"none", "mapped", "gone"}, status : BOOLEAN]
    /\ opening \in Step
    /\ {prepared, running, fell} \subseteq BOOLEAN
    /\ kernel \in {"closed", "setup", "prepared", "running", "xrun", "suspended"}
    /\ call \in {"none", "write", "initial", "read", "started"}
    /\ result \in {"none", "ok", "error"} /\ faults \in 0..MaxFaults

NoMaps == [buffer |-> "none", status |-> FALSE]
pcm_is_ready == fd = "open" /\ opening = "no"
-----------------------------------------------------------------------------
(* Opening and closing *)

\* calloc fails: the static handle; open fails: a handle with fd < 0.
pcm_open(f) ==
    /\ fd = "none"
    /\ flags' = f
    /\ \/ fd' = "bad" /\ UNCHANGED <<opening, kernel>>
       \/ fd' = "failed" /\ UNCHANGED <<opening, kernel>>
       \/ fd' = "open" /\ opening' = "info" /\ kernel' = "setup"
    /\ UNCHANGED <<maps, prepared, running, call, result, faults, fell>>

NextStep(s) ==
    CASE s = "info" -> "hw params"
      [] s = "hw params" -> IF flags.mmap THEN "mmap" ELSE "sw params"
      [] s = "mmap" -> "sw params"
      [] s = "sw params" -> "status"
      [] s = "status" -> IF flags.monotonic THEN "tstamp" ELSE "no"
      [] s = "tstamp" -> "no"

\* A step of pcm_open, pcm_set_config and pcm_hw_mmap_status that succeeds.
pcm_open_step ==
    /\ opening # "no"
    /\ opening' = NextStep(opening)
    /\ maps' = [buffer |-> IF opening = "mmap" THEN "mapped" ELSE maps.buffer,
                status |-> maps.status \/ opening = "status"]
    /\ UNCHANGED <<flags, fd, stream>>

\* One that fails closes the descriptor.  The label fail, after the status
\* page, also unmaps the buffer.
pcm_open_fails ==
    /\ opening # "no"
    /\ opening' = "no" /\ fd' = "failed" /\ kernel' = "closed"
    /\ maps' = [maps EXCEPT !.buffer = IF opening \in {"status", "tstamp"} /\ flags.mmap
                                       THEN "gone" ELSE @]
    /\ UNCHANGED <<flags, prepared, running, call, result, faults, fell>>

\* Unmaps what there may be, of a handle that failed to open too.
pcm_close ==
    /\ fd # "none" /\ opening = "no" /\ call = "none"
    /\ fd' = "none"
    /\ maps' = IF fd = "bad" THEN maps
               ELSE [buffer |-> IF flags.mmap THEN "none" ELSE maps.buffer, status |-> FALSE]
    /\ kernel' = "closed" /\ prepared' = FALSE /\ running' = FALSE
    /\ result' = "none" /\ faults' = 0 /\ fell' = FALSE
    /\ UNCHANGED <<flags, opening, call>>
-----------------------------------------------------------------------------
(* The kernel's stream, as the ioctls and their errors show it (external) *)

PREPARE == kernel' = "prepared"

\* Frames are taken by a prepared stream, which then runs once enough of them
\* are queued, and by a running one.
Transfers == kernel \in {"prepared", "running"}

Fault ==
    /\ pcm_is_ready /\ faults < MaxFaults
    /\ \/ kernel = "running" /\ kernel' \in {"xrun", "suspended"}
       \/ kernel = "prepared" /\ kernel' = "suspended"
    /\ faults' = faults + 1
    /\ fell' = (fell \/ (prepared /\ ~running /\ kernel = "prepared"))
    /\ UNCHANGED <<handle, prepared, running, call, result>>
-----------------------------------------------------------------------------
(* Transfers without mmap *)

Return(r) == call' = "none" /\ result' = r

pcm_writei ==
    /\ pcm_is_ready /\ ~flags.in /\ ~flags.mmap /\ call = "none"
    /\ call' = "write" /\ result' = "none"
    /\ UNCHANGED <<handle, prepared, running, kernel, faults, fell>>

pcm_readi ==
    /\ pcm_is_ready /\ flags.in /\ ~flags.mmap /\ call = "none"
    /\ call' = "read" /\ result' = "none"
    /\ UNCHANGED <<handle, prepared, running, kernel, faults, fell>>

\* The ioctl is skipped for a handle that is prepared already.
pcm_prepare ==
    IF prepared THEN UNCHANGED <<prepared, kernel>> ELSE prepared' = TRUE /\ PREPARE

\* Not running: prepare, and write the initial data.
pcm_writei_prepare ==
    /\ call = "write" /\ ~running
    /\ pcm_prepare
    /\ call' = "initial"
    /\ UNCHANGED <<handle, running, result, faults, fell>>

pcm_writei_initial ==
    /\ call = "initial"
    /\ IF Transfers
       THEN running' = TRUE /\ kernel' \in {kernel, "running"} /\ Return("ok")
       ELSE UNCHANGED <<running, kernel>> /\ Return("error")
    /\ UNCHANGED <<handle, prepared, faults, fell>>

pcm_writei_running_keepsPrepared ==
    /\ call = "write" /\ running
    /\ IF Transfers
       THEN UNCHANGED running /\ kernel' \in {kernel, "running"} /\ Return("ok")
       ELSE /\ running' = FALSE /\ UNCHANGED kernel
            /\ IF kernel = "xrun" /\ ~flags.norestart THEN UNCHANGED <<call, result>> ELSE Return("error")
    /\ UNCHANGED <<handle, prepared, faults, fell>>

pcm_writei_running_retries ==
    /\ call = "write" /\ running
    /\ IF Transfers
       THEN UNCHANGED <<prepared, running>> /\ kernel' \in {kernel, "running"} /\ Return("ok")
       ELSE IF kernel = "xrun" THEN UNCHANGED <<prepared, running, kernel, call, result>>
       ELSE prepared' = FALSE /\ running' = FALSE /\ UNCHANGED kernel /\ Return("error")
    /\ UNCHANGED <<handle, faults, fell>>

\* "we failed to make our window -- try to restart if we are allowed to do so"
pcm_writei_running ==
    /\ call = "write" /\ running
    /\ IF Transfers
       THEN UNCHANGED <<prepared, running>> /\ kernel' \in {kernel, "running"} /\ Return("ok")
       ELSE /\ prepared' = FALSE /\ running' = FALSE /\ UNCHANGED kernel
            /\ IF kernel = "xrun" /\ ~flags.norestart THEN UNCHANGED <<call, result>> ELSE Return("error")
    /\ UNCHANGED <<handle, faults, fell>>

\* pcm_start of a read that finds the stream not running: prepare, then start.
pcm_start_prepare ==
    /\ call = "read" /\ ~running
    /\ pcm_prepare
    /\ call' = "started"
    /\ UNCHANGED <<handle, running, result, faults, fell>>

pcm_start ==
    /\ call = "started"
    /\ IF kernel = "prepared"
       THEN kernel' = "running" /\ running' = TRUE /\ call' = "read" /\ UNCHANGED result
       ELSE UNCHANGED <<kernel, running>> /\ Return("error")
    /\ UNCHANGED <<handle, prepared, faults, fell>>

pcm_readi_running ==
    /\ call = "read" /\ running
    /\ IF Transfers
       THEN UNCHANGED <<prepared, running>> /\ Return("ok")
       ELSE /\ prepared' = FALSE /\ running' = FALSE
            /\ IF kernel = "xrun" THEN UNCHANGED <<call, result>> ELSE Return("error")
    /\ UNCHANGED <<handle, kernel, faults, fell>>

\* SNDRV_PCM_IOCTL_DROP, refused by a suspended stream.
pcm_stop ==
    /\ pcm_is_ready /\ call = "none" /\ kernel # "suspended"
    /\ kernel' = "setup" /\ prepared' = FALSE /\ running' = FALSE
    /\ UNCHANGED <<handle, call, result, faults, fell>>
-----------------------------------------------------------------------------
Init ==
    /\ flags \in Flags /\ fd = "none" /\ maps = NoMaps /\ opening = "no"
    /\ prepared = FALSE /\ running = FALSE /\ kernel = "closed"
    /\ call = "none" /\ result = "none" /\ faults = 0 /\ fell = FALSE

InCall ==
    \/ pcm_writei_prepare \/ pcm_writei_initial \/ pcm_writei_running
    \/ pcm_start_prepare \/ pcm_start \/ pcm_readi_running

Begin == pcm_writei \/ pcm_readi

Next ==
    \/ \E f \in Flags : pcm_open(f)
    \/ pcm_open_step \/ pcm_open_fails \/ pcm_close
    \/ Begin \/ InCall \/ pcm_stop \/ Fault

\* The user keeps reading or writing for as long as the handle is open.
Fairness == WF_vars(InCall) /\ WF_vars(Begin)
-----------------------------------------------------------------------------
(* Properties *)

\* Whatever step of pcm_open fails, a closed handle holds no mapping.
NothingLeaks == fd = "none" => maps = NoMaps

\* Between calls the flags tell the truth about the stream: it runs, or ran
\* into a fault that the next transfer will meet, or it is prepared; the one
\* lie is a stream that was suspended between its prepare and its first data.
FlagsFollowStream ==
    call = "none" =>
      /\ running => prepared /\ kernel \in {"prepared", "running", "xrun", "suspended"}
      /\ prepared /\ ~running => kernel = "prepared" \/ fell

\* A stream in use recovers from every overrun and suspend: once the faults
\* end, a transfer succeeds, unless the flags lie.
TransferRecovers ==
    (pcm_is_ready /\ ~flags.mmap /\ faults = MaxFaults /\ result # "ok")
        ~> (result = "ok" \/ fell \/ ~pcm_is_ready)
=============================================================================
