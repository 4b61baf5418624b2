----------------------------- MODULE VendorTags -----------------------------
(***************************************************************************)
(* Vendor tag descriptors (libmocha/camera/VendorTagDescriptor.cpp): built *)
(* from the HAL's tag list, sent to clients in a parcel, read back, and    *)
(* installed as the process's global descriptor, through whose operations  *)
(* the metadata library looks tags up.                                     *)
(*                                                                         *)
(* The HAL (external) answers with a list of tags, each with a name, a     *)
(* section and a type; tags from Boundary on are vendor tags.  Names are   *)
(* numbers, 0 the empty one.                                               *)
(***************************************************************************)
EXTENDS Integers, Sequences, SequencesExt, FiniteSets, Functions

CONSTANTS Lists, Boundary, NumTypes

BAD_VALUE == -22

VARIABLES tags,    \* what the HAL lists
          desc,    \* the descriptor created from it
          parcel,  \* what writeToParcel wrote
          copy,    \* what createFromParcel made of it
          sGlobalVendorTagDescriptor,  \* none | desc | copy
          ops,     \* whose operations the metadata library calls
          setter   \* idle | set | clear: inside which call, half done

vars == <<tags, desc, parcel, copy, sGlobalVendorTagDescriptor, ops, setter>>

None == [ok |-> FALSE, count |-> 0, name |-> <<>>, section |-> <<>>, type |-> <<>>,
         sections |-> <<>>, reverse |-> <<>>]

-----------------------------------------------------------------------------
(* A KeyedVector: add replaces the value of a key it has.                  *)
Added(f, k, v) == [x \in DOMAIN f \cup {k} |-> IF x = k THEN v ELSE f[x]]

AddAll(keys, values) ==
  FoldLeft(LAMBDA f, i : Added(f, keys[i], values[i]), <<>>, [i \in DOMAIN keys |-> i])

-----------------------------------------------------------------------------
Sections(list) == SetToSortSeq({list[i].section : i \in DOMAIN list}, <)

indexOf(seq, x) == SelectInSeq(seq, LAMBDA y : y = x) - 1

(* The tags by section and name; of two with the same, the later counts.   *)
reverseMapping(tagOf, name, section) ==
  AddAll([i \in DOMAIN tagOf |-> <<section[tagOf[i]], name[tagOf[i]]>>], tagOf)

validTag(e) == e.tag >= Boundary /\ e.type < NumTypes

createDescriptorFromOps(list) ==
  LET tagOf == [i \in DOMAIN list |-> list[i].tag]
      name == AddAll(tagOf, [i \in DOMAIN list |-> list[i].name])
      sectionOf == AddAll(tagOf, [i \in DOMAIN list |-> list[i].section])
      section == [t \in DOMAIN sectionOf |-> indexOf(Sections(list), sectionOf[t])]
  IN IF \E i \in DOMAIN list : ~validTag(list[i]) THEN None
     ELSE [ok |-> TRUE, count |-> Len(list), name |-> name, section |-> section,
           type |-> AddAll(tagOf, [i \in DOMAIN list |-> list[i].type]),
           sections |-> Sections(list),
           reverse |-> reverseMapping(tagOf, name, section)]

(* The parcel: mTagCount, but only as many tags as the map has.            *)
writeToParcel_tags(d) == SetToSortSeq(DOMAIN d.name, <)

Written(d) ==
  [count |-> d.count,
   tags |-> [i \in DOMAIN writeToParcel_tags(d) |->
               LET t == writeToParcel_tags(d)[i]
               IN [tag |-> t, type |-> d.type[t], name |-> d.name[t], section |-> d.section[t]]],
   sections |-> d.sections]

(* createFromParcel: a count that does not match what was written makes    *)
(* the reader take the section count, which is no vendor tag, for a tag;   *)
(* an empty name counts as a short parcel.                                 *)
createFromParcel(p) ==
  LET tagOf == [i \in DOMAIN p.tags |-> p.tags[i].tag]
      name == AddAll(tagOf, [i \in DOMAIN p.tags |-> p.tags[i].name])
      section == AddAll(tagOf, [i \in DOMAIN p.tags |-> p.tags[i].section])
  IN IF \/ p.count # Len(p.tags)
        \/ \E i \in DOMAIN p.tags :
             \/ p.tags[i].tag < Boundary \/ p.tags[i].type >= NumTypes \/ p.tags[i].name = 0
             \/ p.tags[i].section >= Len(p.sections)
        \/ \E i \in DOMAIN p.sections : p.sections[i] = 0
     THEN None
     ELSE [ok |-> TRUE, count |-> p.count, name |-> name, section |-> section,
           type |-> AddAll(tagOf, [i \in DOMAIN p.tags |-> p.tags[i].type]),
           sections |-> SetToSortSeq(ToSet(p.sections), <),
           reverse |-> reverseMapping(tagOf, name, section)]

-----------------------------------------------------------------------------
create ==
  /\ ~desc.ok /\ \E list \in Lists : tags' = list /\ desc' = createDescriptorFromOps(list)
  /\ UNCHANGED <<parcel, copy, sGlobalVendorTagDescriptor, ops, setter>>

writeToParcel ==
  /\ desc.ok /\ parcel.count = 0
  /\ parcel' = Written(desc)
  /\ UNCHANGED <<tags, desc, copy, sGlobalVendorTagDescriptor, ops, setter>>

receive ==
  /\ desc.ok /\ parcel = Written(desc) /\ ~copy.ok
  /\ copy' = createFromParcel(parcel)
  /\ UNCHANGED <<tags, desc, parcel, sGlobalVendorTagDescriptor, ops, setter>>

(* setAsGlobalVendorTagDescriptor holds sLock, but the metadata library    *)
(* reads its operations without it: the old descriptor goes first.         *)
setAsGlobalVendorTagDescriptor(who) ==
  /\ \/ /\ setter = "idle" /\ sGlobalVendorTagDescriptor' = who /\ setter' = "set"
        /\ UNCHANGED ops
     \/ /\ setter = "set" /\ who = sGlobalVendorTagDescriptor
        /\ ops' = who /\ setter' = "idle"
        /\ UNCHANGED sGlobalVendorTagDescriptor
  /\ UNCHANGED <<tags, desc, parcel, copy>>

clearStep ==
  \/ /\ setter = "idle" /\ ops' = "none" /\ setter' = "clear"
     /\ UNCHANGED sGlobalVendorTagDescriptor
  \/ /\ setter = "clear" /\ sGlobalVendorTagDescriptor' = "none" /\ setter' = "idle"
     /\ UNCHANGED ops

clearGlobalVendorTagDescriptor ==
  /\ clearStep
  /\ UNCHANGED <<tags, desc, parcel, copy>>

Init ==
  /\ tags = <<>> /\ desc = None /\ copy = None
  /\ parcel = [count |-> 0, tags |-> <<>>, sections |-> <<>>]
  /\ sGlobalVendorTagDescriptor = "none" /\ ops = "none" /\ setter = "idle"

Next ==
  \/ create \/ writeToParcel \/ receive
  \/ desc.ok /\ setAsGlobalVendorTagDescriptor("desc")
  \/ copy.ok /\ setAsGlobalVendorTagDescriptor("copy")
  \/ setAsGlobalVendorTagDescriptor("none")
  \/ clearGlobalVendorTagDescriptor

Spec == Init /\ [][Next]_vars

-----------------------------------------------------------------------------
lookupTag(d, name, section) ==
  IF <<section, name>> \in DOMAIN d.reverse THEN d.reverse[<<section, name>>] ELSE BAD_VALUE

TypeOK ==
  /\ tags \in Lists \cup {<<>>}
  /\ desc.ok \in BOOLEAN /\ copy.ok \in BOOLEAN
  /\ {sGlobalVendorTagDescriptor, ops} \subseteq {"none", "desc", "copy"}
  /\ setter \in {"idle", "set", "clear"}

SameName(t, u) ==
  t # u /\ desc.name[t] = desc.name[u] /\ desc.section[t] = desc.section[u]

TagsTwice(list) == \E i, j \in DOMAIN list : i # j /\ list[i].tag = list[j].tag

(* A client's copy knows what the service's descriptor knows: the parcel   *)
(* is read back to the same descriptor.  It cannot be read when the HAL    *)
(* lists a tag twice, for the count sent is then too high, or leaves a     *)
(* name empty; and where two tags share name and section the service finds *)
(* the one listed last and the client the one with the higher number.      *)
CopyIsDescriptor ==
  desc.ok /\ parcel = Written(desc) =>
    \/ createFromParcel(parcel) = desc
    \/ TagsTwice(tags) \/ \E t, u \in DOMAIN desc.name : SameName(t, u)
    \/ \E i \in DOMAIN tags : 0 \in {tags[i].name, tags[i].section}

(* lookupTag inverts getTagName and getSectionName: a tag is found by its  *)
(* own name and section, unless the HAL gave another tag both.             *)
LookupFindsTag ==
  desc.ok =>
    \A t \in DOMAIN desc.name :
      \/ lookupTag(desc, desc.name[t], desc.section[t]) = t
      \/ \E u \in DOMAIN desc.name : SameName(t, u)

(* The operations the metadata library calls are those of the descriptor   *)
(* in force, which lives, but for the middle of setAsGlobal; clearGlobal   *)
(* takes the operations back first.                                        *)
OpsAreLive ==
  ops # "none" => ops = sGlobalVendorTagDescriptor \/ setter = "set"
=============================================================================
