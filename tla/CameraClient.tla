---------------------------- MODULE CameraClient ----------------------------
(***************************************************************************)
(* The client's hold on the camera service and on one camera               *)
(* (libmocha/camera/CameraBase.cpp, Camera.cpp): the service looked up     *)
(* once and kept in gCameraService, the two death notices, and the calls   *)
(* application threads make through references to either.                  *)
(*                                                                         *)
(* getCameraService returns a reference to the global, which is read again *)
(* after gLock is given up.  The service process (external) may die and be *)
(* published anew, MaxGen times.                                           *)
(***************************************************************************)
EXTENDS Naturals, FiniteSets

CONSTANTS Thread, MaxGen

VARIABLES published,       \* the service's generation, 0 while it is down
          died,            \* generations that died
          gCameraService,  \* the generation cached, 0 for none
          gLock,           \* the thread that looks the service up, or none
          noticed,         \* generations whose death gDeathNotifier will be told of
          missed,          \* generations that had died when they were linked
          mCamera,         \* the service generation of the camera, 0 for none
          cameraLink,      \* no | linked | missed | told
          thread           \* per thread [op, at, ptr, swept, crashed]

vars == <<published, died, gCameraService, gLock, noticed, missed, mCamera, cameraLink, thread>>

cacheVars == <<gCameraService, gLock, noticed, missed>>

cameraVars == <<mCamera, cameraLink>>

None == "none"

(* connect and the listener calls go through the reference, getNumberOf-   *)
(* Cameras through a copy of it; most calls on a camera go through a copy  *)
(* of mCamera, getParameters and setPreviewCallbackFlags read it again.    *)
ServiceOps == {"connect", "getCameraInfo", "getNumberOfCameras"}

CameraOps == {"command", "getParameters"}

Idle == [op |-> None, at |-> None, ptr |-> 0, swept |-> FALSE, crashed |-> FALSE]

At(t, place) == thread[t].at = place

Goto(t, place) == thread' = [thread EXCEPT ![t].at = place]

Finish(t) == thread' = [thread EXCEPT ![t] = Idle]

Crash(t) == thread' = [thread EXCEPT ![t].at = "crashed", ![t].crashed = TRUE]

Holding(t, ptr, place) == thread' = [thread EXCEPT ![t].at = place, ![t].ptr = ptr]

-----------------------------------------------------------------------------
(* Mutants *)

linkToDeath_once(g) ==
  IF missed = {} /\ \A h \in 1..MaxGen : h < g => h \notin died
  THEN noticed' = noticed \cup {g} /\ UNCHANGED missed
  ELSE UNCHANGED <<noticed, missed>>

-----------------------------------------------------------------------------
(* The service process (external)                                          *)

serviceDies ==
  /\ published # 0
  /\ died' = died \cup {published} /\ published' = 0
  /\ UNCHANGED <<cacheVars, cameraVars, thread>>

serviceStarts ==
  /\ published = 0 /\ Cardinality(died) < MaxGen
  /\ published' = Cardinality(died) + 1
  /\ UNCHANGED <<died, cacheVars, cameraVars, thread>>

(* DeathNotifier::binderDied, when the notice arrives.                     *)
binderDied(g) ==
  /\ g \in noticed \cap died /\ gLock = None
  /\ noticed' = noticed \ {g}
  /\ gCameraService' = 0
  /\ thread' = [t \in Thread |-> [thread[t] EXCEPT !.swept = TRUE]]
  /\ UNCHANGED <<published, died, gLock, missed, cameraVars>>

(* CameraBase::binderDied tells the listener.                              *)
cameraDied ==
  /\ mCamera \in died /\ cameraLink = "linked"
  /\ cameraLink' = "told"
  /\ UNCHANGED <<published, died, cacheVars, mCamera, thread>>

-----------------------------------------------------------------------------
Begin(t, op) ==
  /\ thread[t] = Idle
  /\ op = "connect" => mCamera = 0 /\ \A u \in Thread : thread[u].op # "connect"
  /\ thread' = [thread EXCEPT ![t] =
       [Idle EXCEPT !.op = op,
                    !.at = CASE op \in ServiceOps -> "getCameraService"
                             [] op \in CameraOps -> "checkCamera"
                             [] OTHER -> "disconnect"]]
  /\ UNCHANGED <<published, died, cacheVars, cameraVars>>

(* The window in which the thread uses the global without the lock opens.  *)
Leave(t) == thread' = [thread EXCEPT ![t].at = "check", ![t].swept = FALSE]

(* getCameraService: the cached service, or wait for a published one.      *)
getCameraService(t) ==
  /\ At(t, "getCameraService") /\ gLock = None
  /\ \/ gCameraService # 0 /\ Leave(t) /\ UNCHANGED gLock
     \/ /\ gCameraService = 0 /\ published # 0
        /\ gLock' = t /\ Holding(t, published, "link")
  /\ UNCHANGED <<published, died, gCameraService, noticed, missed, cameraVars>>

(* A service that died since it was found cannot be linked to; the result  *)
(* of linkToDeath is not looked at.                                        *)
linkToDeath(g) ==
  IF g \in died
  THEN missed' = missed \cup {g} /\ UNCHANGED noticed
  ELSE noticed' = noticed \cup {g} /\ UNCHANGED missed

linkService(t) ==
  /\ At(t, "link")
  /\ linkToDeath(thread[t].ptr)
  /\ gCameraService' = thread[t].ptr
  /\ gLock' = None
  /\ Leave(t)
  /\ UNCHANGED <<published, died, cameraVars>>

(* The test for 0, or the first half of the copy.                          *)
checkService(t) ==
  /\ At(t, "check")
  /\ \/ gCameraService = 0 /\ Finish(t)
     \/ gCameraService # 0 /\ Holding(t, gCameraService, "use")
  /\ UNCHANGED <<published, died, cacheVars, cameraVars>>

(* The call: through the global as it is now, or, by getNumberOfCameras,   *)
(* through the pointer read, whose object the notice may have freed before *)
(* the copy counted itself in.                                             *)
useService(t) ==
  LET gone == gCameraService = 0
      target == IF thread[t].op = "getNumberOfCameras" THEN thread[t].ptr ELSE gCameraService
  IN /\ At(t, "use")
     /\ \/ gone /\ Crash(t) /\ UNCHANGED cameraVars
        \/ /\ gone /\ thread[t].op = "getNumberOfCameras"
           /\ Finish(t) /\ UNCHANGED cameraVars
        \/ /\ ~gone
           /\ IF thread[t].op = "connect" /\ target \notin died
              THEN /\ mCamera' = target /\ cameraLink' = "no"
                   /\ Goto(t, "linkCamera")
              ELSE Finish(t) /\ UNCHANGED cameraVars
     /\ UNCHANGED <<published, died, cacheVars>>

linkCamera(t) ==
  /\ At(t, "linkCamera")
  /\ cameraLink' = IF mCamera = 0 THEN "no" ELSE IF mCamera \in died THEN "missed" ELSE "linked"
  /\ Finish(t)
  /\ UNCHANGED <<published, died, cacheVars, mCamera>>

(* Every call on a camera first copies mCamera and tests the copy.         *)
checkCamera(t) ==
  /\ At(t, "checkCamera")
  /\ \/ mCamera = 0 /\ Finish(t)
     \/ /\ mCamera # 0
        /\ thread' = [thread EXCEPT ![t].at = "useCamera", ![t].ptr = mCamera, ![t].swept = FALSE]
  /\ UNCHANGED <<published, died, cacheVars, cameraVars>>

useCamera(t) ==
  /\ At(t, "useCamera")
  /\ IF (IF thread[t].op = "getParameters" THEN mCamera ELSE thread[t].ptr) = 0
     THEN Crash(t) ELSE Finish(t)
  /\ UNCHANGED <<published, died, cacheVars, cameraVars>>

(* The camera an application disconnects is one it has been given.         *)
disconnect(t) ==
  /\ At(t, "disconnect")
  /\ \A u \in Thread : thread[u].at # "linkCamera"
  /\ mCamera' = 0 /\ cameraLink' = "no"
  /\ thread' = [u \in Thread |-> IF u = t THEN Idle ELSE [thread[u] EXCEPT !.swept = TRUE]]
  /\ UNCHANGED <<published, died, cacheVars>>

Init ==
  /\ published = 1 /\ died = {}
  /\ gCameraService = 0 /\ gLock = None /\ noticed = {} /\ missed = {}
  /\ mCamera = 0 /\ cameraLink = "no"
  /\ thread = [t \in Thread |-> Idle]

Next ==
  \/ serviceDies \/ serviceStarts \/ cameraDied
  \/ \E g \in 1..MaxGen : binderDied(g)
  \/ \E t \in Thread :
       \/ \E op \in ServiceOps \cup CameraOps \cup {"disconnect"} : Begin(t, op)
       \/ getCameraService(t) \/ linkService(t) \/ checkService(t) \/ useService(t)
       \/ linkCamera(t) \/ checkCamera(t) \/ useCamera(t) \/ disconnect(t)

Spec == Init /\ [][Next]_vars

-----------------------------------------------------------------------------
TypeOK ==
  /\ published \in 0..MaxGen /\ died \subseteq 1..MaxGen
  /\ gCameraService \in 0..MaxGen
  /\ gLock \in Thread \cup {None}
  /\ noticed \subseteq 1..MaxGen /\ missed \subseteq 1..MaxGen
  /\ mCamera \in 0..MaxGen
  /\ cameraLink \in {"no", "linked", "missed", "told"}
  /\ \A t \in Thread : thread[t].ptr \in 0..MaxGen

(* A dead service is not kept: whenever gCameraService names one, its      *)
(* death notice is still to come, or the service had died before           *)
(* linkToDeath was called on it, the failure the code ignores.             *)
DeadServiceIsForgotten ==
  gCameraService \in died => gCameraService \in noticed \cup missed

(* The owner of a camera whose service died is told (binderDied): the      *)
(* notice is linked or delivered, unless connect is not done or the camera *)
(* died before it was linked.                                              *)
OwnerIsTold ==
  mCamera \in died =>
    \/ cameraLink \in {"linked", "told", "missed"}
    \/ \E t \in Thread : At(t, "linkCamera")

(* A call through a service or camera pointer that was tested meets 0 only *)
(* when another thread cleared it between the test and the call: a death   *)
(* notice for gCameraService, disconnect for mCamera.  A command on a copy *)
(* of mCamera never does.                                                  *)
NullNeedsARace ==
  \A t \in Thread : thread[t].crashed =>
    thread[t].swept /\ thread[t].op # "command"
=============================================================================
