--------------------------- MODULE CameraMetadata ---------------------------
(***************************************************************************)
(* CameraMetadata (libmocha/camera/CameraMetadata.cpp): an object that     *)
(* owns one metadata buffer of the C library, grows it when an entry does  *)
(* not fit, may be locked while its buffer is lent out, and hands buffers  *)
(* over to other objects, to C callers and through parcels.                *)
(*                                                                         *)
(* The C library (system/media/camera) is external.  A buffer holds        *)
(* entries, a tag with so many words of data, within two capacities; the   *)
(* data stands for the value of the entry.  Allocation may fail, MaxOom    *)
(* times.  An object is not appended to itself, nor an empty one to        *)
(* another: the code does not survive either.                              *)
(***************************************************************************)
EXTENDS Integers, Sequences, SequencesExt, FiniteSets, FiniteSetsExt

CONSTANTS Object, Tag, Data, MaxBuffers, MaxEntries, MaxOom, MaxCalls, Align

NULL == 0

Buffer == 1..MaxBuffers

VARIABLES mBuffer,   \* per object: its buffer or NULL
          mLocked,   \* per object
          heap,      \* per buffer: [live, entries, entryCap, dataCap]
          raw,       \* buffers a C caller owns (release)
          lost,      \* buffers nobody can reach any more
          oom,       \* failed allocations
          calls,     \* calls made, at most MaxCalls
          parcel     \* [size, offset, blob, has, of]: of are the entries sent

vars == <<mBuffer, mLocked, heap, raw, lost, oom, calls, parcel>>

Free == [live |-> FALSE, entries |-> <<>>, entryCap |-> 0, dataCap |-> 0]

NoParcel == [size |-> 0, offset |-> 0, blob |-> <<>>, has |-> FALSE, of |-> <<>>]

-----------------------------------------------------------------------------
(* The C library (external)                                                *)

DataCount(entries) == FoldLeft(LAMBDA n, e : n + e.data, 0, entries)

(* allocate_camera_metadata: a new buffer, or none.                        *)
Fresh(h) == Min({b \in Buffer : ~h[b].live} \cup {MaxBuffers + 1})

Allocated(h, entries, entryCap, dataCap) ==
  [h EXCEPT ![Fresh(h)] =
     [live |-> TRUE, entries |-> entries, entryCap |-> entryCap, dataCap |-> dataCap]]

Released(h, b) == IF b = NULL THEN h ELSE [h EXCEPT ![b] = Free]

Entries(b) == IF b = NULL THEN <<>> ELSE heap[b].entries

Find(entries, t) == SelectInSeq(entries, LAMBDA e : e.tag = t)

(* add_camera_metadata_entry and update_camera_metadata_entry: the entries *)
(* they are to make.                                                       *)
Put(entries, t, d) ==
  LET i == Find(entries, t)
  IN IF i = 0 THEN Append(entries, [tag |-> t, data |-> d])
     ELSE [entries EXCEPT ![i].data = d]

(* Every call that adds fails when the capacities do not suffice.          *)
Filled(buf, new) ==
  IF Len(new) <= buf.entryCap /\ DataCount(new) <= buf.dataCap
  THEN [buf EXCEPT !.entries = new] ELSE buf

-----------------------------------------------------------------------------
(* Mutants *)

swap_unchecked(o, p) ==
  /\ o # p /\ ~mLocked[o]
  /\ mBuffer' = [mBuffer EXCEPT ![o] = mBuffer[p], ![p] = mBuffer[o]]
  /\ UNCHANGED <<mLocked, heap, raw, lost, oom, parcel>>

-----------------------------------------------------------------------------
(* resizeIfNeeded: the capacities a buffer is to have.                     *)
grown(buf, extraEntries, extraData) ==
  LET n == Len(buf.entries) + extraEntries
      d == DataCount(buf.entries) + extraData
  IN [entryCap |-> IF n > buf.entryCap THEN n * 2 ELSE buf.entryCap,
      dataCap  |-> IF d > buf.dataCap THEN d * 2 ELSE buf.dataCap]

(* resizeIfNeeded(extra), then the call that makes the entries new.        *)
(* When memory runs out the object forgets its buffer.                     *)
resizeIfNeeded(o, extraEntries, extraData, new) ==
  LET b == mBuffer[o]
      buf == IF b = NULL THEN Free ELSE heap[b]
      caps == IF b = NULL THEN [entryCap |-> extraEntries * 2, dataCap |-> extraData * 2]
              ELSE grown(buf, extraEntries, extraData)
      stays == b # NULL /\ caps.entryCap <= buf.entryCap /\ caps.dataCap <= buf.dataCap
      copy == [live |-> TRUE, entries |-> buf.entries,
               entryCap |-> caps.entryCap, dataCap |-> caps.dataCap]
      Done(to, h) == /\ mBuffer' = [mBuffer EXCEPT ![o] = to]
                     /\ heap' = h
                     /\ UNCHANGED <<lost, oom>>
  IN /\ \/ /\ stays
           /\ Done(b, [heap EXCEPT ![b] = Filled(buf, new)])
        \/ /\ ~stays /\ Fresh(heap) \in Buffer
           /\ Done(Fresh(heap), Released([heap EXCEPT ![Fresh(heap)] = Filled(copy, new)], b))
        \/ /\ ~stays /\ oom < MaxOom
           /\ oom' = oom + 1
           /\ mBuffer' = [mBuffer EXCEPT ![o] = NULL]
           /\ lost' = lost \cup ({b} \ {NULL})
           /\ UNCHANGED heap
     /\ UNCHANGED <<mLocked, raw, parcel>>

(* update and updateImpl: a known tag, its type checked.                   *)
update(o, t, d) ==
  /\ ~mLocked[o]
  /\ Find(Entries(mBuffer[o]), t) = 0 => Len(Entries(mBuffer[o])) < MaxEntries
  /\ resizeIfNeeded(o, 1, d, Put(Entries(mBuffer[o]), t, d))

append(o, p) ==
  /\ ~mLocked[o] /\ o # p /\ mBuffer[p] # NULL
  /\ Len(Entries(mBuffer[o])) + Len(Entries(mBuffer[p])) <= MaxEntries
  /\ resizeIfNeeded(o, Len(Entries(mBuffer[p])), DataCount(Entries(mBuffer[p])),
                    Entries(mBuffer[o]) \o Entries(mBuffer[p]))

erase(o, t) ==
  LET i == Find(Entries(mBuffer[o]), t)
  IN /\ ~mLocked[o] /\ i # 0
     /\ heap' = [heap EXCEPT ![mBuffer[o]].entries = RemoveAt(@, i)]
     /\ UNCHANGED <<mBuffer, mLocked, raw, lost, oom, parcel>>

sort(o) ==
  /\ ~mLocked[o] /\ mBuffer[o] # NULL
  /\ heap' = [heap EXCEPT ![mBuffer[o]].entries = SortSeq(@, LAMBDA x, y : x.tag < y.tag)]
  /\ UNCHANGED <<mBuffer, mLocked, raw, lost, oom, parcel>>

clear(o) ==
  /\ ~mLocked[o]
  /\ heap' = Released(heap, mBuffer[o])
  /\ mBuffer' = [mBuffer EXCEPT ![o] = NULL]
  /\ UNCHANGED <<mLocked, raw, lost, oom, parcel>>

(* The destructor does not heed the lock; a new object takes the place.    *)
destroy(o) ==
  /\ mLocked[o]
  /\ mLocked' = [mLocked EXCEPT ![o] = FALSE]
  /\ heap' = Released(heap, mBuffer[o])
  /\ mBuffer' = [mBuffer EXCEPT ![o] = NULL]
  /\ UNCHANGED <<raw, lost, oom, parcel>>

(* operator=: clone first, then drop the old buffer.                       *)
assign(o, p) ==
  LET src == Entries(mBuffer[p])
      Give(to, h) == /\ heap' = Released(h, mBuffer[o])
                     /\ mBuffer' = [mBuffer EXCEPT ![o] = to]
  IN /\ ~mLocked[o] /\ mBuffer[o] # mBuffer[p]
     /\ \/ mBuffer[p] = NULL /\ Give(NULL, heap) /\ UNCHANGED oom
        \/ /\ mBuffer[p] # NULL /\ Fresh(heap) \in Buffer
           /\ Give(Fresh(heap), Allocated(heap, src, Len(src), DataCount(src)))
           /\ UNCHANGED oom
        \/ mBuffer[p] # NULL /\ oom < MaxOom /\ oom' = oom + 1 /\ Give(NULL, heap)
     /\ UNCHANGED <<mLocked, raw, lost, parcel>>

getAndLock(o) ==
  /\ ~mLocked[o]
  /\ mLocked' = [mLocked EXCEPT ![o] = TRUE]
  /\ UNCHANGED <<mBuffer, heap, raw, lost, oom, parcel>>

unlock(o) ==
  /\ mLocked[o]
  /\ mLocked' = [mLocked EXCEPT ![o] = FALSE]
  /\ UNCHANGED <<mBuffer, heap, raw, lost, oom, parcel>>

release(o) ==
  /\ ~mLocked[o] /\ mBuffer[o] # NULL
  /\ raw' = raw \cup {mBuffer[o]}
  /\ mBuffer' = [mBuffer EXCEPT ![o] = NULL]
  /\ UNCHANGED <<mLocked, heap, lost, oom, parcel>>

(* acquire(buffer): the caller's buffer becomes the object's.              *)
acquireRaw(o, b) ==
  /\ ~mLocked[o] /\ b \in raw
  /\ raw' = raw \ {b}
  /\ heap' = Released(heap, mBuffer[o])
  /\ mBuffer' = [mBuffer EXCEPT ![o] = b]
  /\ UNCHANGED <<mLocked, lost, oom, parcel>>

(* acquire(other): of a locked object release() gives NULL, and the        *)
(* acquirer ends up empty all the same.                                    *)
acquire(o, p) ==
  /\ ~mLocked[o] /\ o # p
  /\ heap' = Released(heap, mBuffer[o])
  /\ mBuffer' = [mBuffer EXCEPT ![o] = IF mLocked[p] THEN NULL ELSE mBuffer[p],
                                ![p] = IF mLocked[p] THEN @ ELSE NULL]
  /\ UNCHANGED <<mLocked, raw, lost, oom, parcel>>

swap(o, p) ==
  /\ o # p /\ ~mLocked[o] /\ ~mLocked[p]
  /\ mBuffer' = [mBuffer EXCEPT ![o] = mBuffer[p], ![p] = mBuffer[o]]
  /\ UNCHANGED <<mLocked, heap, raw, lost, oom, parcel>>

-----------------------------------------------------------------------------
(* Words a compact copy takes: a header, the entries and their data.       *)
CompactSize(entries) == 1 + Len(entries) + DataCount(entries)

(* The blob leaves room to move the copy to an aligned address.            *)
padding(size) == size + Align

(* The blob lies at some address; the copy starts at the next aligned one. *)
(* A blob that cannot be written is not reported.                          *)
writeToParcel(o, address, blobFails) ==
  LET e == Entries(mBuffer[o])
      offset == (Align - address) % Align
  IN /\ parcel' =
          IF mBuffer[o] = NULL THEN NoParcel
          ELSE [size |-> padding(CompactSize(e)),
                offset |-> IF blobFails THEN 0 ELSE offset,
                has |-> ~blobFails,
                blob |-> IF blobFails THEN <<>> ELSE e,
                of |-> e]
     /\ UNCHANGED <<mBuffer, mLocked, heap, raw, lost, oom>>

(* The copy in the blob is good when it lies wholly inside it.             *)
validBlob ==
  /\ parcel.has
  /\ parcel.size > Align /\ parcel.offset < Align
  /\ parcel.size - Align = CompactSize(parcel.blob)
  /\ parcel.offset + CompactSize(parcel.blob) <= parcel.size

readFromParcel(o) ==
  /\ ~mLocked[o]
  /\ \/ /\ parcel.size = 0
        /\ heap' = Released(heap, mBuffer[o])
        /\ mBuffer' = [mBuffer EXCEPT ![o] = NULL]
        /\ UNCHANGED oom
     \/ /\ parcel.size # 0 /\ validBlob /\ Fresh(heap) \in Buffer
        /\ heap' = Released(Allocated(heap, parcel.blob, Len(parcel.blob), DataCount(parcel.blob)),
                            mBuffer[o])
        /\ mBuffer' = [mBuffer EXCEPT ![o] = Fresh(heap)]
        /\ UNCHANGED oom
     \/ parcel.size # 0 /\ validBlob /\ oom < MaxOom /\ oom' = oom + 1 /\ UNCHANGED <<heap, mBuffer>>
     \/ parcel.size # 0 /\ ~validBlob /\ UNCHANGED <<heap, mBuffer, oom>>
  /\ parcel' = NoParcel
  /\ UNCHANGED <<mLocked, raw, lost>>

Init ==
  /\ mBuffer = [o \in Object |-> NULL]
  /\ mLocked = [o \in Object |-> FALSE]
  /\ heap = [b \in Buffer |-> Free]
  /\ raw = {} /\ lost = {} /\ oom = 0 /\ calls = 0
  /\ parcel = NoParcel

Next ==
  /\ calls < MaxCalls /\ calls' = calls + 1
  /\ \E o \in Object :
       \/ \E t \in Tag, d \in Data : update(o, t, d)
       \/ \E t \in Tag : erase(o, t)
       \/ sort(o) \/ clear(o) \/ destroy(o) \/ getAndLock(o) \/ unlock(o) \/ release(o)
       \/ \E b \in raw : acquireRaw(o, b)
       \/ \E p \in Object : append(o, p) \/ assign(o, p) \/ acquire(o, p) \/ swap(o, p)
       \/ \E a \in 0..Align - 1, fails \in BOOLEAN : writeToParcel(o, a, fails)
       \/ readFromParcel(o)

Spec == Init /\ [][Next]_vars

-----------------------------------------------------------------------------
TypeOK ==
  /\ mBuffer \in [Object -> Buffer \cup {NULL}]
  /\ mLocked \in [Object -> BOOLEAN]
  /\ raw \subseteq Buffer /\ lost \subseteq Buffer
  /\ oom \in 0..MaxOom

(* A buffer has one owner: an object or the caller it was released to.  No *)
(* object keeps a buffer that was freed, and none is forgotten but where   *)
(* resizeIfNeeded ran out of memory.                                       *)
BuffersHaveOneOwner ==
  LET holders(b) == Cardinality({o \in Object : mBuffer[o] = b}) + (IF b \in raw THEN 1 ELSE 0)
  IN \A b \in Buffer :
       /\ heap[b].live /\ b \notin lost => holders(b) = 1
       /\ b \in lost => holders(b) = 0
       /\ ~heap[b].live => holders(b) = 0

(* While an object is locked its buffer is lent out: no call on it or on   *)
(* another object moves, frees or changes it.                              *)
LockedBufferStays ==
  [][\A o \in Object : mLocked[o] /\ mLocked'[o] =>
       /\ mBuffer'[o] = mBuffer[o]
       /\ mBuffer[o] # NULL => heap'[mBuffer[o]] = heap[mBuffer[o]]]_vars

(* The room made by resizeIfNeeded suffices: after an update the tag is    *)
(* found with the new data, whatever was in the buffer, unless memory ran  *)
(* out; and an append adds every entry of the other object.                *)
RoomSuffices ==
  [][\A o \in Object :
       /\ \A t \in Tag, d \in Data : update(o, t, d) =>
            \/ mBuffer'[o] = NULL
            \/ \E i \in DOMAIN heap'[mBuffer'[o]].entries :
                 /\ i = Find(heap'[mBuffer'[o]].entries, t)
                 /\ heap'[mBuffer'[o]].entries[i].data = d
       /\ \A p \in Object : append(o, p) =>
            \/ mBuffer'[o] = NULL
            \/ heap'[mBuffer'[o]].entries = Entries(mBuffer[o]) \o Entries(mBuffer[p])]_vars

(* What is read from a parcel is what was written into it, wherever the    *)
(* blob came to lie; it is refused only when the blob is missing or        *)
(* memory runs out, and then the object keeps what it has.                 *)
ParcelRoundTrips ==
  [][\A o \in Object : readFromParcel(o) =>
       \/ parcel.size # 0 /\ (~parcel.has \/ oom' > oom) /\ mBuffer' = mBuffer
       \/ parcel.size = 0 /\ mBuffer'[o] = NULL
       \/ parcel.size # 0 /\ mBuffer'[o] # NULL /\ heap'[mBuffer'[o]].entries = parcel.of]_vars
=============================================================================
