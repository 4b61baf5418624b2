-------------------------- MODULE CameraRecording ---------------------------
(***************************************************************************)
(* Recording through a camera client (libmocha/camera/Camera.cpp): the     *)
(* application records with a listener of its own or hands a recording     *)
(* proxy to another process, and the service's timestamped frames find     *)
(* their receiver by the listeners registered when they come.              *)
(*                                                                         *)
(* The application starts and stops recordings one after the other         *)
(* (sessions 1..MaxSessions); the frames come on a binder thread, one      *)
(* callback at a time, in the order they were sent.  The service and the   *)
(* receivers are external.                                                 *)
(***************************************************************************)
EXTENDS Naturals, Sequences, SequencesExt

CONSTANTS Frame, MaxSessions

VARIABLES mCamera,                  \* connected
          mRecordingProxyListener,  \* registered
          mListener,                \* registered
          app,                      \* [at, starter, session]
          recording,                \* service: the session recorded, 0 for none
          owner,                    \* service: this process may record
          left,                     \* a failed start left the proxy's listener behind
          frame,                    \* per frame [at, session]
          queue,                    \* frames on their way to the client
          callback                  \* [at, f]

vars == <<mCamera, mRecordingProxyListener, mListener, app, recording, owner, left,
          frame, queue, callback>>

serviceVars == <<recording, owner>>

frameVars == <<frame, queue, callback>>

Starter == {"app", "proxy"}

NoFrame == [at |-> "idle", f |-> "none"]

Move(f, place) == frame' = [frame EXCEPT ![f].at = place]

-----------------------------------------------------------------------------
(* Mutants *)

forwards_listenerFirst == mRecordingProxyListener /\ ~mListener
-----------------------------------------------------------------------------
Begin(starter) ==
  /\ app.at = "idle" /\ app.session < MaxSessions
  /\ app' = [at |-> IF starter = "proxy" THEN "start" ELSE "ask",
             starter |-> starter, session |-> app.session + 1]
  /\ UNCHANGED <<mCamera, mRecordingProxyListener, mListener, serviceVars, left, frameVars>>

(* RecordingProxy::startRecording registers the listener first of all.     *)
setRecordingProxyListener ==
  /\ app.at = "start"
  /\ mRecordingProxyListener' = TRUE
  /\ app' = [app EXCEPT !.at = "reconnect"]
  /\ UNCHANGED <<mCamera, mListener, serviceVars, left, frameVars>>

(* reconnect, whose result RecordingProxy::startRecording drops.           *)
reconnect ==
  /\ app.at = "reconnect"
  /\ owner' \in IF mCamera THEN BOOLEAN ELSE {owner}
  /\ app' = [app EXCEPT !.at = "ask"]
  /\ UNCHANGED <<mCamera, mRecordingProxyListener, mListener, recording, left, frameVars>>

(* Camera::startRecording; the service lets its owner record.              *)
startRecording ==
  LET ok == mCamera /\ owner
  IN /\ app.at = "ask"
     /\ recording' = IF ok THEN app.session ELSE recording
     /\ app' = [app EXCEPT !.at = IF ok THEN "recording" ELSE "idle"]
     /\ left' = (left \/ (~ok /\ mRecordingProxyListener))
     /\ UNCHANGED <<mCamera, mRecordingProxyListener, mListener, owner, frameVars>>

(* stopRecording: the listener is cleared first, the service asked next.   *)
stopRecording_clear ==
  /\ app.at = "recording"
  /\ mRecordingProxyListener' = FALSE /\ left' = FALSE
  /\ app' = [app EXCEPT !.at = "stopping"]
  /\ UNCHANGED <<mCamera, mListener, serviceVars, frameVars>>

stopRecording_service ==
  /\ app.at = "stopping"
  /\ recording' = IF mCamera THEN 0 ELSE recording
  /\ app' = [app EXCEPT !.at = "idle"]
  /\ UNCHANGED <<mCamera, mRecordingProxyListener, mListener, owner, left, frameVars>>

setListener(on) ==
  /\ app.at = "idle" /\ mListener # on
  /\ mListener' = on
  /\ UNCHANGED <<mCamera, mRecordingProxyListener, app, serviceVars, left, frameVars>>

(* CameraBase::disconnect; the service ends the recording it holds and     *)
(* another process may own the camera.                                     *)
disconnect ==
  /\ app.at \in {"idle", "recording"} /\ mCamera
  /\ mCamera' = FALSE
  /\ recording' = 0 /\ owner' = FALSE
  /\ UNCHANGED <<mRecordingProxyListener, mListener, app, left, frameVars>>

-----------------------------------------------------------------------------
sendFrame(f) ==
  /\ recording # 0 /\ frame[f].at = "service"
  /\ frame' = [frame EXCEPT ![f] = [at |-> "sent", session |-> recording]]
  /\ queue' = Append(queue, f)
  /\ UNCHANGED <<mCamera, mRecordingProxyListener, mListener, app, serviceVars, left, callback>>

(* Camera::releaseRecordingFrame reaches the service while mCamera is set. *)
releaseRecordingFrame(f) == Move(f, IF mCamera THEN "service" ELSE "lost")

(* A proxy listener registered takes the frame, whatever mListener is.     *)
forwards == mRecordingProxyListener

(* dataCallbackTimestamp, part by part as it holds mLock.                  *)
dataCallbackTimestamp ==
  /\ \/ /\ callback.at = "idle" /\ queue # <<>>
        /\ callback' = [at |-> IF forwards THEN "forward" ELSE "listener", f |-> Head(queue)]
        /\ queue' = Tail(queue)
        /\ UNCHANGED frame
     \/ /\ callback.at = "forward"
        /\ Move(callback.f, "proxy") /\ callback' = NoFrame /\ UNCHANGED queue
     \/ /\ callback.at = "listener"
        /\ callback' = [callback EXCEPT !.at = IF mListener THEN "post" ELSE "drop"]
        /\ UNCHANGED <<frame, queue>>
     \/ /\ callback.at = "post"
        /\ Move(callback.f, "app") /\ callback' = NoFrame /\ UNCHANGED queue
     \/ /\ callback.at = "drop"
        /\ releaseRecordingFrame(callback.f) /\ callback' = NoFrame /\ UNCHANGED queue
  /\ UNCHANGED <<mCamera, mRecordingProxyListener, mListener, app, serviceVars, left>>

receiverReleases(f) ==
  /\ frame[f].at \in Starter
  /\ releaseRecordingFrame(f)
  /\ UNCHANGED <<mCamera, mRecordingProxyListener, mListener, app, serviceVars, left,
                 queue, callback>>

Init ==
  /\ mCamera = TRUE /\ mRecordingProxyListener = FALSE /\ mListener = FALSE
  /\ app = [at |-> "idle", starter |-> "app", session |-> 0]
  /\ recording = 0 /\ owner = TRUE /\ left = FALSE
  /\ frame = [f \in Frame |-> [at |-> "service", session |-> 0]]
  /\ queue = <<>> /\ callback = NoFrame

Next ==
  \/ \E s \in Starter : Begin(s)
  \/ setRecordingProxyListener \/ reconnect \/ startRecording \/ stopRecording_clear \/ stopRecording_service
  \/ \E on \in BOOLEAN : setListener(on)
  \/ disconnect
  \/ \E f \in Frame : sendFrame(f) \/ receiverReleases(f)
  \/ dataCallbackTimestamp

Spec == Init /\ [][Next]_vars

-----------------------------------------------------------------------------
TypeOK ==
  /\ mCamera \in BOOLEAN /\ mRecordingProxyListener \in BOOLEAN /\ mListener \in BOOLEAN
  /\ app.session \in 0..MaxSessions /\ app.starter \in Starter
  /\ recording \in 0..MaxSessions /\ owner \in BOOLEAN
  /\ frame \in [Frame -> [at : {"service", "sent", "lost"} \cup Starter, session : 0..MaxSessions]]

(* The frames of the recording that runs go to who started it: to the      *)
(* proxy if the proxy did, to the application otherwise.  Frames of an     *)
(* earlier recording still under way, and a proxy listener left behind by  *)
(* a start that failed, are the exceptions the code allows.                *)
FramesGoToStarter ==
  [][\A f \in Frame :
       /\ frame[f].at = "sent" /\ frame'[f].at \in Starter
       /\ app.at = "recording" /\ frame[f].session = app.session
       /\ ~left
       => frame'[f].at = app.starter]_vars

(* No frame is lost to the service: a frame sent is under way, held by a   *)
(* receiver or back, unless the camera was disconnected meanwhile ("Drop a *)
(* recording frame" releases it).                                          *)
NoFrameLost ==
  \A f \in Frame :
    /\ frame[f].at = "lost" => ~mCamera
    /\ frame[f].at = "sent" <=> (f \in ToSet(queue) \/ callback.f = f)
=============================================================================
