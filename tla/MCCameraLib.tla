---------------------------- MODULE MCCameraLib -----------------------------
(***************************************************************************)
(* The camera client library, one part of it to a behaviour: the binder    *)
(* interfaces, metadata objects, the client's hold on the service,         *)
(* recording, parameters, and vendor tags.                                 *)
(***************************************************************************)
EXTENDS Integers, Sequences, TLC

CONSTANTS MaxList, Object, Tag, Data, MaxBuffers, MaxEntries, MaxOom,
          MaxCalls, Align, Thread, MaxGen, VideoFrame, MaxSessions, MaxKeys,
          Boundary, NumTypes

VARIABLES
    part,      \* the component that a behaviour is about
    at, method, callParcel, read, served, result,
    mBuffer, mLocked, heap, raw, lostBuffers, oom, calls, metaParcel,
    published, died, gCameraService, gLock, noticed, missed, mCamera,
    cameraLink, thread,
    connected, mRecordingProxyListener, mListener, app, recording, owner,
    left, frame, queue, callback,
    kind, mMap,
    tags, desc, tagParcel, copy, sGlobalVendorTagDescriptor, ops, setter

Symmetry == Permutations(Object) \cup Permutations(Thread) \cup Permutations(VideoFrame)
Keys == {<<5>>, <<6>>, <<5, 2>>}
Values == {<<>>, <<7>>, <<7, 1, 5>>,
           <<100, 4, 101, 3, 102, 4, 103>>, <<100, 4, 101, 3>>,
           <<100, 4, 101, 4, 102>>, <<4, 101, 3, 100, 4>>}
\* All short texts, one that names a key twice, and two with stray characters.
Texts == UNION {[1..n -> {1, 2, 5}] : n \in 0..3} \cup
         {<<5, 2, 7, 1, 6, 2, 7, 1, 5, 2, 8>>, <<6, 2, 7, 1, 1, 5, 2, 7>>,
          <<5, 2, 7, 2, 7, 1, 6>>}
Entry == [tag : {1, 3, 4}, name : {0, 1, 2}, section : {1, 2}, type : {0}]
TagLists == {<<>>, <<[tag |-> 3, name |-> 1, section |-> 2, type |-> 7]>>} \cup
            {<<a, b>> : a \in Entry, b \in Entry}

Binder == INSTANCE CameraBinder WITH parcel <- callParcel, call <- method
Meta == INSTANCE CameraMetadata WITH parcel <- metaParcel, lost <-
    lostBuffers
Client == INSTANCE CameraClient
Recording == INSTANCE CameraRecording WITH mCamera <- connected,
    Frame <- VideoFrame
Params == INSTANCE CameraParams WITH Key <- Keys, Value <- Values, Text <-
    Texts
Tags == INSTANCE VendorTags WITH parcel <- tagParcel, Lists <- TagLists

binderVars == <<at, method, callParcel, read, served, result>>
metadataVars == <<mBuffer, mLocked, heap, raw, lostBuffers, oom, calls,
    metaParcel>>
clientVars == <<published, died, gCameraService, gLock, noticed, missed,
    mCamera, cameraLink, thread>>
recordingVars == <<connected, mRecordingProxyListener, mListener, app,
    recording, owner, left, frame, queue, callback>>
paramsVars == <<kind, mMap>>
tagsVars == <<tags, desc, tagParcel, copy, sGlobalVendorTagDescriptor, ops,
    setter>>
vars == <<part, binderVars, metadataVars, clientVars, recordingVars,
    paramsVars, tagsVars>>

Init ==
    /\ part \in {"binder", "metadata", "client", "recording", "params",
                "tags"}
    /\ Binder!Init
    /\ Meta!Init
    /\ Client!Init
    /\ Recording!Init
    /\ Params!Init
    /\ Tags!Init
    /\ part # "params" => kind = "sorted"

binderNext == Binder!Next /\ UNCHANGED <<metadataVars, clientVars,
    recordingVars, paramsVars, tagsVars>>
metadataNext == Meta!Next /\ UNCHANGED <<binderVars, clientVars,
    recordingVars, paramsVars, tagsVars>>
clientNext == Client!Next /\ UNCHANGED <<binderVars, metadataVars,
    recordingVars, paramsVars, tagsVars>>
recordingNext == Recording!Next /\ UNCHANGED <<binderVars, metadataVars,
    clientVars, paramsVars, tagsVars>>
paramsNext == Params!Next /\ UNCHANGED <<binderVars, metadataVars,
    clientVars, recordingVars, tagsVars>>
tagsNext == Tags!Next /\ UNCHANGED <<binderVars, metadataVars, clientVars,
    recordingVars, paramsVars>>

Next ==
    /\ \/ part = "binder" /\ binderNext
       \/ part = "metadata" /\ metadataNext
       \/ part = "client" /\ clientNext
       \/ part = "recording" /\ recordingNext
       \/ part = "params" /\ paramsNext
       \/ part = "tags" /\ tagsNext
    /\ UNCHANGED part

Spec == Init /\ [][Next]_vars
-----------------------------------------------------------------------------
\* CameraBinder: stubs and proxies read what the other side wrote, item for
\* item, and a call that never reached the service is no success for the calls
\* that check.
ParcelsAgree ==
    part = "binder" => /\ Binder!TypeOK
                       /\ Binder!RequestsReadAsWritten
                       /\ Binder!RepliesReadAsWritten
                       /\ Binder!DeadServiceNoticed

\* CameraMetadata: every buffer has one owner, a buffer lent out by getAndLock
\* stays, the room made for an entry suffices, and a parcel is read back as it
\* was written.
MetadataOwned ==
    /\ [](part = "metadata" => Meta!TypeOK /\ Meta!BuffersHaveOneOwner)
    /\ Meta!LockedBufferStays
    /\ Meta!RoomSuffices
    /\ Meta!ParcelRoundTrips

\* CameraClient: a service that died does not stay in the cache, the owner of a
\* camera is told of its death, and a pointer that was tested is null only after
\* a race with a death notice or a disconnect.
ServiceWatched ==
    part = "client" => /\ Client!TypeOK
                       /\ Client!DeadServiceIsForgotten
                       /\ Client!OwnerIsTold
                       /\ Client!NullNeedsARace

\* CameraRecording: frames go to who started the recording, and none is lost to
\* the service.
RecordingDelivers ==
    /\ [](part = "recording" => Recording!TypeOK /\ Recording!NoFrameLost)
    /\ Recording!FramesGoToStarter

\* CameraParams, VendorTags: parameters and tag descriptors arrive in another
\* process as they were sent; the later of two settings wins; sizes are read
\* and tags found as meant; and the library calls a descriptor that lives.
DescriptionsTravel ==
    /\ [](part = "params" => /\ Params!TypeOK
                             /\ Params!FlattenRoundTrips
                             /\ Params!SizesAreRead)
    /\ [](part = "tags" => /\ Tags!TypeOK
                           /\ Tags!CopyIsDescriptor
                           /\ Tags!LookupFindsTag
                           /\ Tags!OpsAreLive)
    /\ Params!LaterSetWins
=============================================================================
