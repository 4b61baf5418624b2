---------------------------- MODULE CameraBinder ----------------------------
(***************************************************************************)
(* The binder interfaces of the camera client library                      *)
(* (libmocha/camera/I*.cpp, camera2, CaptureResult.cpp).  Of every   *)
(* call there are four lists of items: what the proxy (Bp) writes into the *)
(* request, what the stub (Bn) reads from it, what the stub writes into    *)
(* the reply and what the proxy reads from that.  Nothing but care keeps   *)
(* the lists alike.                                                        *)
(*                                                                         *)
(* An item is a type, the name of what it means, and a number that is kept *)
(* only where a side decides by it: the status (0 is OK), the flag of an   *)
(* optional part and the length of a list.  Reading past the end of a      *)
(* parcel yields 0, as Parcel::readInt32() does.                           *)
(***************************************************************************)
EXTENDS Naturals, Sequences, FiniteSets

CONSTANT MaxList   \* longest list sent

I(n) == [t |-> "i32", n |-> n]
L(n) == [t |-> "i64", n |-> n]
S(n) == [t |-> "string16", n |-> n]
Z(n) == [t |-> "string8", n |-> n]
B(n) == [t |-> "binder", n |-> n]
F(n) == [t |-> "fd", n |-> n]
D(n) == [t |-> "bytes", n |-> n]    \* a parcelable with a format of its own

Switch(a, b) == [t |-> "switch", n |-> "flag", a |-> a, b |-> b]
Opt(s)       == Switch(<<>>, s)                        \* flag, then s if set
Present(s)   == [t |-> "present", n |-> "flag", s |-> s]  \* flag set, s
Rep(s)       == [t |-> "rep", n |-> "length", s |-> s]
Avail(s)     == [t |-> "avail", n |-> "", s |-> s]     \* s, if the parcel goes on
IfOk(s)      == [t |-> "ifOk", n |-> "", s |-> s]      \* s, if the status was OK

NoException == I("exception")
Status == I("status")

Call(req, rep) == [req |-> req, rep |-> rep, check |-> "nothing"]
Checked(check, req, rep) == [req |-> req, rep |-> rep, check |-> check]

-----------------------------------------------------------------------------
(* Mutants *)

CaptureResultExtras_readFromParcel_swapped ==
  <<I("requestId"), I("burstId"), I("precaptureTriggerId"), I("afTriggerId"),
    L("frameNumber"), I("partialResultCount")>>

-----------------------------------------------------------------------------
(* Parcelables *)

CaptureRequest_writeToParcel ==
  <<D("metadata"), Rep(<<S("className"), S("name"), B("surface")>>), I("isReprocess")>>

CaptureRequest_readFromParcel ==
  <<D("metadata"), Rep(<<S("className"), S("name"), B("surface")>>), I("isReprocess")>>

OutputConfiguration_writeToParcel == <<I("rotation"), S("name"), B("gbp")>>

OutputConfiguration_read == <<I("rotation"), S("name"), B("gbp")>>

CaptureResultExtras_writeToParcel ==
  <<I("requestId"), I("burstId"), I("afTriggerId"), I("precaptureTriggerId"),
    L("frameNumber"), I("partialResultCount")>>

CaptureResultExtras_readFromParcel ==
  <<I("requestId"), I("burstId"), I("afTriggerId"), I("precaptureTriggerId"),
    L("frameNumber"), I("partialResultCount")>>

(* What submitRequest, submitRequestList, cancelRequest and flush answer.  *)
BnFrameNumber == <<NoException, Status, Present(<<L("lastFrameNumber")>>)>>

BpFrameNumber == <<NoException, Status, Opt(<<L("lastFrameNumber")>>)>>

Plain == <<Status>>

Guarded == <<NoException, Status>>

-----------------------------------------------------------------------------
(* ICamera *)

BpCamera_stream ==
  [disconnect               |-> Call(<<>>, <<NoException>>),
   setPreviewTarget         |-> Call(<<B("producer")>>, Plain),
   setPreviewCallbackFlag   |-> Call(<<I("flag")>>, <<>>),
   setPreviewCallbackTarget |-> Call(<<B("producer")>>, Plain),
   startPreview             |-> Call(<<>>, Plain),
   startRecording           |-> Call(<<>>, Plain),
   stopPreview              |-> Call(<<>>, <<>>),
   stopRecording            |-> Call(<<>>, <<>>),
   releaseRecordingFrame    |-> Call(<<B("mem")>>, <<>>),
   storeMetaDataInBuffers   |-> Call(<<I("enabled")>>, Plain)]

BnCamera_stream ==
  [disconnect               |-> Call(<<>>, <<NoException>>),
   setPreviewTarget         |-> Call(<<B("producer")>>, Plain),
   setPreviewCallbackFlag   |-> Call(<<I("flag")>>, <<>>),
   setPreviewCallbackTarget |-> Call(<<B("producer")>>, Plain),
   startPreview             |-> Call(<<>>, Plain),
   startRecording           |-> Call(<<>>, Plain),
   stopPreview              |-> Call(<<>>, <<>>),
   stopRecording            |-> Call(<<>>, <<>>),
   releaseRecordingFrame    |-> Call(<<B("mem")>>, <<>>),
   storeMetaDataInBuffers   |-> Call(<<I("enabled")>>, Plain)]

BpCamera_control ==
  [previewEnabled   |-> Call(<<>>, <<I("enabled")>>),
   recordingEnabled |-> Call(<<>>, <<I("enabled")>>),
   autoFocus        |-> Call(<<>>, Plain),
   cancelAutoFocus  |-> Call(<<>>, Plain),
   takePicture      |-> Call(<<I("msgType")>>, Plain),
   setParameters    |-> Call(<<Z("params")>>, Plain),
   getParameters    |-> Call(<<>>, <<Z("params")>>),
   sendCommand      |-> Call(<<I("cmd"), I("arg1"), I("arg2")>>, Plain),
   connect          |-> Call(<<B("cameraClient")>>, Plain),
   lock             |-> Call(<<>>, Plain),
   unlock           |-> Call(<<>>, Plain)]

BnCamera_control ==
  [previewEnabled   |-> Call(<<>>, <<I("enabled")>>),
   recordingEnabled |-> Call(<<>>, <<I("enabled")>>),
   autoFocus        |-> Call(<<>>, Plain),
   cancelAutoFocus  |-> Call(<<>>, Plain),
   takePicture      |-> Call(<<I("msgType")>>, Plain),
   setParameters    |-> Call(<<Z("params")>>, Plain),
   getParameters    |-> Call(<<>>, <<Z("params")>>),
   sendCommand      |-> Call(<<I("cmd"), I("arg1"), I("arg2")>>, Plain),
   connect          |-> Call(<<B("cameraClient")>>, Plain),
   lock             |-> Call(<<>>, Plain),
   unlock           |-> Call(<<>>, Plain)]

-----------------------------------------------------------------------------
(* ICameraService *)

ClientArgs(client) ==
  <<B(client), I("cameraId"), S("clientPackageName"), I("clientUid")>>

LegacyArgs ==
  <<B("client"), I("cameraId"), I("halVersion"), S("clientPackageName"), I("clientUid")>>

Device == <<NoException, Status, Opt(<<B("device")>>)>>

BpCameraService_connect ==
  [getNumberOfCameras           |-> Call(<<I("type")>>, <<NoException, I("count")>>),
   getCameraInfo                |-> Call(<<I("cameraId")>>,
                                      <<NoException, Status, Opt(<<I("facing"), I("orientation")>>)>>),
   getCameraCharacteristics     |-> Call(<<I("cameraId")>>,
                                      <<NoException, Status, Opt(<<D("metadata")>>)>>),
   getCameraVendorTagDescriptor |-> Call(<<>>, <<NoException, Status, Opt(<<D("vendorTags")>>)>>),
   connect                      |-> Checked("transact", ClientArgs("client"), Device),
   connectLegacy                |-> Checked("transact", LegacyArgs, Device)]

BnCameraService_connect ==
  [getNumberOfCameras           |-> Call(<<I("type")>>, <<NoException, I("count")>>),
   getCameraInfo                |-> Call(<<I("cameraId")>>,
                                      <<NoException, Status, Present(<<I("facing"), I("orientation")>>)>>),
   getCameraCharacteristics     |-> Call(<<I("cameraId")>>,
                                      <<NoException, Status, Present(<<D("metadata")>>)>>),
   getCameraVendorTagDescriptor |-> Call(<<>>, <<NoException, Status, Opt(<<D("vendorTags")>>)>>),
   connect                      |-> Call(ClientArgs("client"), Device),
   connectLegacy                |-> Call(LegacyArgs, Device)]

(* getLegacyParameters and supportsCameraApi look for the exception in the *)
(* reply and for everything else in the request they have just written.    *)
BpCameraService_listen ==
  [setTorchMode        |-> Call(<<S("cameraId"), I("enabled"), B("client")>>, Guarded),
   connectDevice       |-> Checked("transact", ClientArgs("callbacks"), Device),
   addListener         |-> Call(<<B("listener")>>, Guarded),
   removeListener      |-> Call(<<B("listener")>>, Guarded),
   getLegacyParameters |-> Checked("request", <<I("cameraId")>>, <<NoException>>),
   supportsCameraApi   |-> Checked("request", <<I("cameraId"), I("apiVersion")>>, <<NoException>>),
   notifySystemEvent   |-> Call(<<I("eventId"), Rep(<<I("arg")>>)>>, <<>>)]

BnCameraService_listen ==
  [setTorchMode        |-> Call(<<S("cameraId"), I("enabled"), B("client")>>, Guarded),
   connectDevice       |-> Call(ClientArgs("callbacks"), Device),
   addListener         |-> Call(<<B("listener")>>, Guarded),
   removeListener      |-> Call(<<B("listener")>>, Guarded),
   getLegacyParameters |-> Call(<<I("cameraId")>>,
                                <<NoException, Status, Present(<<S("parameters")>>)>>),
   supportsCameraApi   |-> Call(<<I("cameraId"), I("apiVersion")>>, Guarded),
   notifySystemEvent   |-> Call(<<I("eventId"), Rep(<<I("arg")>>)>>, <<>>)]

-----------------------------------------------------------------------------
(* ICameraDeviceUser *)

BpCameraDeviceUser_request ==
  [disconnect        |-> Call(<<>>, <<NoException>>),
   submitRequest     |-> Checked("frameNumber",
                           <<Opt(CaptureRequest_writeToParcel), I("repeating")>>, BpFrameNumber),
   submitRequestList |-> Checked("frameNumber",
                           <<Rep(<<Opt(CaptureRequest_writeToParcel)>>), I("repeating")>>,
                           BpFrameNumber),
   cancelRequest     |-> Checked("frameNumber", <<I("requestId")>>, BpFrameNumber),
   beginConfigure    |-> Call(<<>>, Guarded),
   endConfigure      |-> Call(<<I("isConstrainedHighSpeed")>>, Guarded)]

BpCameraDeviceUser_stream ==
  [deleteStream           |-> Call(<<I("streamId")>>, Guarded),
   createStream           |-> Call(<<Opt(OutputConfiguration_writeToParcel)>>, Guarded),
   createInputStream      |-> Call(<<I("width"), I("height"), I("format")>>, Guarded),
   getInputBufferProducer |-> Checked("producer", <<>>,
                                <<NoException, Status, IfOk(<<Opt(<<S("name"), B("producer")>>)>>)>>),
   createDefaultRequest   |-> Call(<<I("templateId")>>, <<NoException, Status, Opt(<<D("metadata")>>)>>),
   getCameraInfo          |-> Call(<<>>, <<NoException, Status, Opt(<<D("metadata")>>)>>),
   waitUntilIdle          |-> Call(<<>>, Guarded),
   flush                  |-> Checked("frameNumber", <<>>, BpFrameNumber),
   prepare                |-> Call(<<I("streamId")>>, Guarded),
   prepare2               |-> Call(<<I("maxCount"), I("streamId")>>, Guarded),
   tearDown               |-> Call(<<I("streamId")>>, Guarded)]

BnCameraDeviceUser_request ==
  [disconnect        |-> Call(<<>>, <<NoException>>),
   submitRequest     |-> Call(<<Opt(CaptureRequest_readFromParcel), I("repeating")>>, BnFrameNumber),
   submitRequestList |-> Call(<<Rep(<<Opt(CaptureRequest_readFromParcel)>>), I("repeating")>>,
                              BnFrameNumber),
   cancelRequest     |-> Call(<<I("requestId")>>, BnFrameNumber),
   beginConfigure    |-> Call(<<>>, Guarded),
   endConfigure      |-> Call(<<I("isConstrainedHighSpeed")>>, Guarded)]

BnCameraDeviceUser_stream ==
  [deleteStream           |-> Call(<<I("streamId")>>, Guarded),
   createStream           |-> Call(<<Opt(OutputConfiguration_read)>>, Guarded),
   createInputStream      |-> Call(<<I("width"), I("height"), I("format")>>, Guarded),
   getInputBufferProducer |-> Call(<<>>,
                                <<NoException, Status, Present(<<S("name"), B("producer")>>)>>),
   createDefaultRequest   |-> Call(<<I("templateId")>>, <<NoException, Status, Present(<<D("metadata")>>)>>),
   getCameraInfo          |-> Call(<<>>, <<NoException, Status, Present(<<D("metadata")>>)>>),
   waitUntilIdle          |-> Call(<<>>, Guarded),
   flush                  |-> Call(<<>>, BnFrameNumber),
   prepare                |-> Call(<<I("streamId")>>, Guarded),
   prepare2               |-> Call(<<I("maxCount"), I("streamId")>>, Guarded),
   tearDown               |-> Call(<<I("streamId")>>, Guarded)]

-----------------------------------------------------------------------------
(* The calls in the other direction, all of them one-way *)

Frame == <<L("timestamp"), I("msgType"), B("imageData")>>

BpCameraClient ==
  [notifyCallback        |-> Call(<<I("msgType"), Switch(<<I("ext2")>>, <<F("ext2")>>)>>, <<>>),
   dataCallback          |-> Call(<<I("msgType"), B("imageData"), Avail(<<Rep(<<D("face")>>)>>)>>, <<>>),
   dataCallbackTimestamp |-> Call(Frame, <<>>)]

BnCameraClient ==
  [notifyCallback        |-> Call(<<I("msgType"), Switch(<<I("ext2")>>, <<F("ext2")>>)>>, <<>>),
   dataCallback          |-> Call(<<I("msgType"), B("imageData"), Avail(<<Rep(<<D("face")>>)>>)>>, <<>>),
   dataCallbackTimestamp |-> Call(Frame, <<>>)]

(* The proxy appends "no exception" after it has sent the parcel, so the   *)
(* stub's readExceptionCode reads past the end.                            *)
BpCameraDeviceCallbacks ==
  [onDeviceError    |-> Call(<<I("errorCode"), Present(CaptureResultExtras_writeToParcel)>>, <<>>),
   onDeviceIdle     |-> Call(<<>>, <<>>),
   onCaptureStarted |-> Call(<<Present(CaptureResultExtras_writeToParcel), L("timestamp")>>, <<>>),
   onResultReceived |-> Call(<<Present(<<D("metadata")>>),
                               Present(CaptureResultExtras_writeToParcel)>>, <<>>),
   onPrepared       |-> Call(<<I("streamId")>>, <<>>)]

BnCameraDeviceCallbacks ==
  [onDeviceError    |-> Call(<<I("errorCode"), Opt(CaptureResultExtras_readFromParcel), NoException>>, <<>>),
   onDeviceIdle     |-> Call(<<NoException>>, <<>>),
   onCaptureStarted |-> Call(<<Opt(CaptureResultExtras_readFromParcel), L("timestamp"), NoException>>, <<>>),
   onResultReceived |-> Call(<<Opt(<<D("metadata")>>), Opt(CaptureResultExtras_readFromParcel),
                               NoException>>, <<>>),
   onPrepared       |-> Call(<<I("streamId"), NoException>>, <<>>)]

BpCameraRecordingProxy ==
  [startRecording        |-> Call(<<B("listener")>>, Plain),
   stopRecording         |-> Call(<<>>, <<>>),
   releaseRecordingFrame |-> Call(<<B("mem")>>, <<>>)]

BnCameraRecordingProxy ==
  [startRecording        |-> Call(<<B("listener")>>, Plain),
   stopRecording         |-> Call(<<>>, <<>>),
   releaseRecordingFrame |-> Call(<<B("mem")>>, <<>>)]

BpCameraRecordingProxyListener == [dataCallbackTimestamp |-> Call(Frame, <<>>)]

BnCameraRecordingProxyListener == [dataCallbackTimestamp |-> Call(Frame, <<>>)]

BpCameraServiceListener ==
  [onStatusChanged      |-> Call(<<I("deviceStatus"), I("cameraId")>>, <<>>),
   onTorchStatusChanged |-> Call(<<I("torchStatus"), S("cameraId")>>, <<>>)]

BnCameraServiceListener ==
  [onStatusChanged      |-> Call(<<I("deviceStatus"), I("cameraId")>>, <<>>),
   onTorchStatusChanged |-> Call(<<I("torchStatus"), S("cameraId")>>, <<>>)]

BpCameraServiceProxy ==
  [pingForUserUpdate |-> Call(<<>>, <<>>),
   notifyCameraState |-> Call(<<S("cameraId"), I("newCameraState")>>, <<>>)]

BnCameraServiceProxy ==
  [pingForUserUpdate |-> Call(<<>>, <<>>),
   notifyCameraState |-> Call(<<S("cameraId"), I("newCameraState")>>, <<>>)]

Bp == <<BpCamera_stream, BpCamera_control, BpCameraService_connect, BpCameraService_listen,
        BpCameraDeviceUser_request, BpCameraDeviceUser_stream, BpCameraClient,
        BpCameraDeviceCallbacks, BpCameraRecordingProxy, BpCameraRecordingProxyListener,
        BpCameraServiceListener, BpCameraServiceProxy>>

Bn == <<BnCamera_stream, BnCamera_control, BnCameraService_connect, BnCameraService_listen,
        BnCameraDeviceUser_request, BnCameraDeviceUser_stream, BnCameraClient,
        BnCameraDeviceCallbacks, BnCameraRecordingProxy, BnCameraRecordingProxyListener,
        BnCameraServiceListener, BnCameraServiceProxy>>

-----------------------------------------------------------------------------
(* Parcels (external: android::Parcel) *)

Item(e, v) == [t |-> e.t, n |-> e.n, v |-> v]

Flag == [t |-> "i32", n |-> "flag"]
Length == [t |-> "i32", n |-> "length"]

Times(k, s) == [i \in 1..(k * Len(s)) |-> s[((i - 1) % Len(s)) + 1]]

(* Everything a writer may put into a parcel.                              *)
RECURSIVE Written(_)
Written(s) ==
  IF s = <<>> THEN {<<>>}
  ELSE LET e == Head(s)
           After(words) == {x \o y : x \in words, y \in Written(Tail(s))}
           With(head, v, words) == {<<Item(head, v)>> \o x : x \in words}
       IN CASE e.t = "switch"  -> After(With(Flag, 0, Written(e.a)) \cup With(Flag, 1, Written(e.b)))
            [] e.t = "present" -> After(With(Flag, 1, Written(e.s)))
            [] e.t = "rep"     -> After(UNION {With(Length, k, Written(Times(k, e.s))) : k \in 0..MaxList})
            [] e.t = "avail"   -> After({<<>>} \cup Written(e.s))
            [] OTHER           -> After({<<Item(e, v)>> : v \in IF e.n = "status" THEN {0, 1} ELSE {0}})

(* One item read: its number, and whether it was another item or none.     *)
Take(e, r) ==
  IF r.rest = <<>> THEN [r EXCEPT !.past = @ + 1, !.v = 0]
  ELSE LET i == Head(r.rest)
       IN [rest |-> Tail(r.rest),
           wrong |-> r.wrong \/ i.t # e.t \/ i.n # e.n,
           past |-> r.past, v |-> i.v,
           set |-> IF i.v # 0 THEN r.set \cup {e.n} ELSE r.set]

RECURSIVE Read(_, _)
Read(s, r) ==
  IF s = <<>> THEN r
  ELSE LET e == Head(s)
       IN CASE e.t = "switch" ->
                 LET f == Take(Flag, r) IN Read((IF f.v = 0 THEN e.a ELSE e.b) \o Tail(s), f)
            [] e.t = "rep" ->
                 LET l == Take(Length, r) IN Read(Times(l.v, e.s) \o Tail(s), l)
            [] e.t = "avail" -> Read(IF r.rest = <<>> THEN Tail(s) ELSE e.s \o Tail(s), r)
            [] e.t = "ifOk" -> Read(IF "status" \in r.set THEN Tail(s) ELSE e.s \o Tail(s), r)
            [] OTHER -> Read(Tail(s), Take(e, r))

Start(parcel) == [rest |-> parcel, wrong |-> FALSE, past |-> 0, v |-> 0, set |-> {}]

-----------------------------------------------------------------------------
(* What the proxy returns: 0 is OK.                                        *)
returned(c, delivered, read) ==
  CASE c.check = "transact" /\ ~delivered                -> 1
    [] "status" \in read.set                             -> 1
    [] c.check \in {"frameNumber", "producer"} /\ "flag" \notin read.set -> 1
    [] OTHER                                             -> 0

VARIABLES at,      \* "idle", "sent", "served", "returned"
          call,    \* the interface and the method
          parcel,  \* the request, then the reply
          read,    \* how its reader fared
          served,  \* "no", or the status the service answered
          result   \* what the caller got

vars == <<at, call, parcel, read, served, result>>

BpCall == Bp[call[1]][call[2]]
BnCall == Bn[call[1]][call[2]]

Send(i, m) ==
  /\ at = "idle"
  /\ call' = <<i, m>>
  /\ \E w \in Written(Bp[i][m].req) : parcel' = w
  /\ at' = "sent"
  /\ UNCHANGED <<read, served, result>>

onTransact ==
  /\ at = "sent"
  /\ read' = Read(BnCall.req, Start(parcel))
  /\ \E w \in Written(BnCall.rep) :
       /\ parcel' = w
       /\ served' = IF \E i \in DOMAIN w : w[i].n = "status" /\ w[i].v = 1 THEN "error" ELSE "ok"
  /\ at' = "served"
  /\ UNCHANGED <<call, result>>

(* The service is dead: the transaction fails and the reply is empty.      *)
transactFails ==
  /\ at = "sent"
  /\ parcel' = <<>>
  /\ read' = Start(<<>>)
  /\ served' = "no"
  /\ at' = "served"
  /\ UNCHANGED <<call, result>>

Return ==
  /\ at = "served"
  /\ read' = Read(BpCall.rep, Start(parcel))
  /\ result' = returned(BpCall, served # "no", read')
  /\ at' = "returned"
  /\ UNCHANGED <<call, parcel, served>>

Done ==
  /\ at = "returned"
  /\ at' = "idle" /\ parcel' = <<>> /\ read' = Start(<<>>) /\ served' = "no" /\ result' = 0
  /\ UNCHANGED call

Init ==
  /\ at = "idle" /\ call = <<1, "disconnect">> /\ parcel = <<>>
  /\ read = Start(<<>>) /\ served = "no" /\ result = 0

Next ==
  \/ \E i \in DOMAIN Bp : \E m \in DOMAIN Bp[i] : Send(i, m)
  \/ onTransact \/ transactFails \/ Return \/ Done

Spec == Init /\ [][Next]_vars

-----------------------------------------------------------------------------
TypeOK == at \in {"idle", "sent", "served", "returned"} /\ result \in {0, 1}

(* A stub reads from the request what the proxy wrote into it, item for    *)
(* item, and leaves nothing; only the callbacks of ICameraDeviceCallbacks  *)
(* look for one item more.                                                 *)
RequestsReadAsWritten ==
  at = "served" /\ served # "no" =>
    /\ ~read.wrong /\ read.rest = <<>>
    /\ read.past = IF call[2] \in DOMAIN BnCameraDeviceCallbacks THEN 1 ELSE 0

(* A proxy reads from the reply what the stub wrote, all of it unless the  *)
(* status says not to go on.  getLegacyParameters and supportsCameraApi    *)
(* are left out: they read the wrong parcel.                               *)
RepliesReadAsWritten ==
  at = "returned" /\ served # "no" /\ BpCall.check # "request" =>
    /\ ~read.wrong /\ read.past = 0
    /\ read.rest = <<>> \/ result # 0

(* A call that never reached the service is not taken for a success, by    *)
(* the calls that check: those that connect, submit, cancel or flush, and  *)
(* getInputBufferProducer.  Any other call returns OK to its caller.       *)
DeadServiceNoticed ==
  at = "returned" /\ served = "no" /\ BpCall.check \notin {"nothing", "request"} => result # 0
=============================================================================
