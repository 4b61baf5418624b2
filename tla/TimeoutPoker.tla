---------------------------- MODULE TimeoutPoker ----------------------------
(***************************************************************************)
(* The timeout poker of the NVIDIA power HAL                               *)
(* (hardware/nvidia/power/timeoutpoker.cpp): a thread that runs a looper,  *)
(* opens a PM QoS node when a client asks for it, and closes it again when *)
(* its time is over (requestPmQosTimed) or when the client closes the      *)
(* handle it was given (createPmQosHandle).                                *)
(*                                                                         *)
(* A message of the looper carries only a key; the event it stands for is  *)
(* kept in mQueuedEvents under that key.  Descriptors are numbered as the  *)
(* kernel numbers them, the lowest free one first, so that closing one     *)
(* twice would close the next request.  Delays are counted in ticks; Lag   *)
(* is how far the looper may run behind.                                   *)
(***************************************************************************)
EXTENDS Integers, Sequences, FiniteSets, FiniteSetsExt, TLC

CONSTANTS Poker,    \* the pokers of the process, each with a thread of its own
          Client,   \* threads that use the poker
          Node,     \* PM QoS nodes
          Missing,  \* the ones this kernel does not have
          Timeout,  \* the timeouts clients ask for, in ticks
          MaxFd,    \* most descriptors open at a time
          Lag       \* ticks a due message may stay in the looper

VARIABLES box,      \* per poker: the looper's queue, and mQueuedEvents
          fds,      \* open PM QoS descriptors: descriptor -> [node, by]
          handles,  \* pipes: handle -> [fd, heard, open]
          caller    \* client -> [at: "idle", "waits" or "has" (its answer), h]

pvars == <<box, fds, handles, caller>>

Idle == [at |-> "idle", h |-> -1]

NoHandler == [queue |-> <<>>, events |-> <<>>]

FreeFds == (1..MaxFd) \ DOMAIN fds

Drop(f, k) == [x \in DOMAIN f \ {k} |-> f[x]]

-----------------------------------------------------------------------------
(* Mutants *)

timeoutRequest_forgets(m, fd) == m

pipeCloseCb_notHungUp(h) ==
  /\ h \in DOMAIN handles
  /\ ~handles[h].heard /\ ~handles[h].open
  /\ fds' = Drop(fds, handles[h].fd)
  /\ handles' = Drop(handles, h)
  /\ UNCHANGED <<box, caller>>
-----------------------------------------------------------------------------
(* mKey++: a key no event of the handler has.                              *)
generateNewKey(b) == Min((1..Cardinality(DOMAIN b.events) + 1) \ DOMAIN b.events)

(* Under mEvLock: a key, the event under it, and a message behind all that *)
(* are due no later.                                                       *)
sendEventDelayed(b, delay, ev) ==
  LET key == generateNewKey(b)
      pos == Cardinality({i \in DOMAIN b.queue : b.queue[i].rem <= delay})
      msg == [key |-> key, rem |-> delay]
  IN [queue  |-> SubSeq(b.queue, 1, pos) \o <<msg>> \o SubSeq(b.queue, pos + 1, Len(b.queue)),
      events |-> (key :> ev) @@ b.events]

pushEvent(b, ev) == sendEventDelayed(b, 0, ev)

removeEventByKey(b, key) == [queue |-> Tail(b.queue), events |-> Drop(b.events, key)]

timeoutRequest(m, fd) == Drop(m, fd)

TimedEvent(n, t, by) == [kind |-> "timed", node |-> n, timeout |-> t, by |-> by]

HandleEvent(n, c) == [kind |-> "handle", node |-> n, timeout |-> 0, by |-> c]

TimeoutEvent(fd) == [kind |-> "timeout", fd |-> fd]

-----------------------------------------------------------------------------
(* PmQosOpenTimedEvent: open the node, and send the event that closes it.  *)
openPmQosTimed(p, b, e) ==
  \/ /\ e.node \in Missing
     /\ box' = [box EXCEPT ![p] = b]
     /\ UNCHANGED fds
  \/ LET fd == Min(FreeFds)
     IN /\ e.node \notin Missing
        /\ fds' = (fd :> [node |-> e.node, by |-> e.by]) @@ fds
        /\ box' = [box EXCEPT ![p] = sendEventDelayed(b, e.timeout, TimeoutEvent(fd))]

(* PmQosOpenHandleEvent: open the node and a pipe, listen for the client's *)
(* end to close, and open the barrier.  The node, or the pipe, may not     *)
(* open (-1).  addFd may fail too, but its result is not looked at: the    *)
(* client then holds a handle nobody listens to.                           *)
createHandleForPmQosRequest(e) ==
  \/ /\ caller' = [caller EXCEPT ![e.by] = [at |-> "has", h |-> -1]]
     /\ UNCHANGED <<fds, handles>>
  \/ LET fd == Min(FreeFds)
     IN /\ e.node \notin Missing
        /\ fds' = (fd :> [node |-> e.node, by |-> e.by]) @@ fds
        /\ \E heard \in BOOLEAN :
             handles' = (fd :> [fd |-> fd, heard |-> heard, open |-> TRUE]) @@ handles
        /\ caller' = [caller EXCEPT ![e.by] = [at |-> "has", h |-> fd]]

(* The looper's thread takes the first message that is due.                *)
handleMessage(p) ==
  /\ box[p].queue # <<>>
  /\ Head(box[p].queue).rem <= 0
  /\ LET key == Head(box[p].queue).key
         b   == removeEventByKey(box[p], key)
         e   == box[p].events[key]
     IN \/ /\ key \notin DOMAIN box[p].events
           /\ box' = [box EXCEPT ![p] = b]
           /\ UNCHANGED <<fds, handles, caller>>
        \/ /\ key \in DOMAIN box[p].events
           /\ \/ /\ e.kind = "timed"
                 /\ openPmQosTimed(p, b, e)
                 /\ UNCHANGED <<handles, caller>>
              \/ /\ e.kind = "handle"
                 /\ box' = [box EXCEPT ![p] = b]
                 /\ createHandleForPmQosRequest(e)
              \/ /\ e.kind = "timeout"
                 /\ box' = [box EXCEPT ![p] = b]
                 /\ fds' = timeoutRequest(fds, e.fd)
                 /\ UNCHANGED <<handles, caller>>

(* The client's end of a pipe was closed: the looper closes the rest.      *)
pipeCloseCb(h) ==
  /\ h \in DOMAIN handles
  /\ handles[h].heard /\ ~handles[h].open
  /\ fds' = Drop(fds, handles[h].fd)
  /\ handles' = Drop(handles, h)
  /\ UNCHANGED <<box, caller>>

(* Bounds: a client asks only while there is room for its descriptor.      *)
Room(p) == Len(box[p].queue) + Cardinality(DOMAIN handles) < MaxFd

requestPmQosTimed(p, c) ==
  /\ caller[c] = Idle /\ Room(p)
  /\ \E n \in Node, t \in Timeout :
       box' = [box EXCEPT ![p] = pushEvent(@, TimedEvent(n, t, c))]
  /\ UNCHANGED <<fds, handles, caller>>

createPmQosHandle(p, c) ==
  /\ caller[c] = Idle /\ Room(p)
  /\ \E n \in Node : box' = [box EXCEPT ![p] = pushEvent(@, HandleEvent(n, c))]
  /\ caller' = [caller EXCEPT ![c].at = "waits"]
  /\ UNCHANGED <<fds, handles>>

(* The client has got its answer; it closes the handle when it is done.    *)
closeHandle(c) ==
  /\ caller[c].at = "has"
  /\ caller' = [caller EXCEPT ![c] = Idle]
  /\ handles' = IF caller[c].h = -1 THEN handles
                ELSE [handles EXCEPT ![caller[c].h].open = FALSE]
  /\ UNCHANGED <<box, fds>>

(* Time passes, as long as no looper is too late already.                  *)
InTime == \A p \in Poker : \A i \in DOMAIN box[p].queue : box[p].queue[i].rem > -Lag

Later == [p \in Poker |->
           [box[p] EXCEPT !.queue = [i \in DOMAIN @ |-> [key |-> @[i].key, rem |-> @[i].rem - 1]]]]

Tick ==
  /\ InTime
  /\ box' = Later
  /\ UNCHANGED <<fds, handles, caller>>

Init ==
  /\ box = [p \in Poker |-> NoHandler]
  /\ fds = <<>>
  /\ handles = <<>>
  /\ caller = [c \in Client |-> Idle]

Next ==
  \/ \E p \in Poker : handleMessage(p)
  \/ \E h \in 1..MaxFd : pipeCloseCb(h)
  \/ \E p \in Poker, c \in Client : requestPmQosTimed(p, c) \/ createPmQosHandle(p, c)
  \/ \E c \in Client : closeHandle(c)
  \/ Tick

(* The loopers' threads run: every poll serves the due messages, and then  *)
(* each descriptor that was hung up.  And time goes on.                    *)
Fairness ==
  /\ \A p \in Poker : WF_pvars(handleMessage(p))
  /\ \A h \in 1..MaxFd : WF_pvars(pipeCloseCb(h))
  /\ WF_pvars(Tick)

Spec == Init /\ [][Next]_pvars /\ Fairness

-----------------------------------------------------------------------------
TypeOK ==
  /\ \A p \in Poker : \A i \in DOMAIN box[p].queue :
       box[p].queue[i].rem \in -Lag..Max(Timeout \cup {0})
  /\ DOMAIN fds \subseteq 1..MaxFd
  /\ DOMAIN handles \subseteq DOMAIN fds
  /\ \A c \in Client : caller[c].h \in {-1} \cup DOMAIN handles

(* Every message finds its event, and every event has its message: the     *)
(* keys handed out by generateNewKey tell the outstanding events apart     *)
(* (handleMessage, removeEventByKey).                                      *)
MessagesFindEvents ==
  \A p \in Poker :
    LET q == box[p].queue
    IN /\ {q[i].key : i \in DOMAIN q} = DOMAIN box[p].events
       /\ Cardinality(DOMAIN box[p].events) = Len(q)

Closers(fd) ==
  {c \in Poker \X (1..MaxFd + Cardinality(Client)) :
     LET events == box[c[1]].events
         key    == c[2]
     IN key \in DOMAIN events /\ events[key].kind = "timeout" /\ events[key].fd = fd}

(* A descriptor has exactly one owner that will close it: a handle, or one *)
(* queued TimeoutEvent.  So none is closed twice (the second close would   *)
(* end the request that got the number next), and none is forgotten.       *)
OneOwner ==
  \A fd \in 1..MaxFd :
    (IF fd \in DOMAIN handles THEN 1 ELSE 0) + Cardinality(Closers(fd))
      = IF fd \in DOMAIN fds THEN 1 ELSE 0

(* A caller of createPmQosHandle, which waits on a barrier of its own      *)
(* stack, gets its answer.                                                 *)
CallerReturns == \A c \in Client : caller[c].at = "waits" ~> caller[c].at # "waits"

(* A request does not outlive its time, or its handle: the descriptor is   *)
(* closed, unless its handle is one that addFd did not take                *)
(* (listenForHandleToCloseFd's result is not checked).                     *)
RequestsEnd ==
  \A fd \in 1..MaxFd :
    (fd \in DOMAIN fds /\ (fd \in DOMAIN handles => handles[fd].heard /\ ~handles[fd].open))
      ~> fd \notin DOMAIN fds
=============================================================================
