---------------------------- MODULE CameraParams ----------------------------
(***************************************************************************)
(* Camera parameters (libmocha/camera/CameraParameters.cpp,                *)
(* CameraParameters2.cpp and .h): a map of keys and values that travels as *)
(* one text "key=value;key=value", kept sorted by key (CameraParameters)   *)
(* or in the order the keys were set (CameraParameters2).                  *)
(*                                                                         *)
(* Texts are sequences of tokens: the four characters the code looks for,  *)
(* and words, numbers from Word on; a word from Number on is a decimal     *)
(* number of that value.                                                   *)
(***************************************************************************)
EXTENDS Naturals, Sequences, SequencesExt

CONSTANTS Key, Value, Text, MaxKeys

SEMICOLON == 1
EQUALS == 2
COMMA == 3
X == 4
Number == 100

VARIABLES kind,  \* sorted (CameraParameters) | ordered (CameraParameters2)
          mMap   \* sequence of [k, v]

vars == <<kind, mMap>>

-----------------------------------------------------------------------------
(* The containers: KeyedVector (external) and OrderedKeyedVector.          *)

Before(a, b) ==
  \/ \E i \in DOMAIN a : /\ i \in DOMAIN b /\ a[i] < b[i]
                         /\ SubSeq(a, 1, i - 1) = SubSeq(b, 1, i - 1)
  \/ Len(a) < Len(b) /\ a = SubSeq(b, 1, Len(a))

indexOfKey(m, k) == SelectInSeq(m, LAMBDA p : p.k = k)

removeItem(m, k) == IF indexOfKey(m, k) = 0 THEN m ELSE RemoveAt(m, indexOfKey(m, k))

KeyedVector_add(m, k, v) ==
  SortSeq(Append(SelectSeq(m, LAMBDA p : p.k # k), [k |-> k, v |-> v]),
          LAMBDA p, q : Before(p.k, q.k))

(* Mutants *)

replaceValueFor_inPlace(c, m, k, v) ==
  IF indexOfKey(m, k) # 0 THEN [m EXCEPT ![indexOfKey(m, k)].v = v]
  ELSE IF c = "sorted" THEN KeyedVector_add(m, k, v) ELSE Append(m, [k |-> k, v |-> v])

-----------------------------------------------------------------------------
add(c, m, k, v) ==
  IF c = "sorted" THEN KeyedVector_add(m, k, v) ELSE Append(m, [k |-> k, v |-> v])

replaceValueFor(c, m, k, v) ==
  IF c = "sorted" THEN KeyedVector_add(m, k, v) ELSE add(c, removeItem(m, k), k, v)

flatten(m) ==
  FlattenSeq([i \in DOMAIN m |-> m[i].k \o <<EQUALS>> \o m[i].v
                                 \o (IF i < Len(m) THEN <<SEMICOLON>> ELSE <<>>)])

(* unflatten from what is left of the text, into map m.                    *)
RECURSIVE unflattenRest(_, _, _)
unflattenRest(c, m, t) ==
  LET b == SelectInSeq(t, LAMBDA x : x = EQUALS)
      k == SubSeq(t, 1, b - 1)
      a == SubSeq(t, b + 1, Len(t))
      e == SelectInSeq(a, LAMBDA x : x = SEMICOLON)
  IN IF b = 0 THEN m
     ELSE IF e = 0 THEN add(c, m, k, a)
     ELSE unflattenRest(c, add(c, m, k, SubSeq(a, 1, e - 1)), SubSeq(a, e + 1, Len(a)))

(* strtol: the value of the number at the start of t, and what follows.    *)
strtol(t) == IF t # <<>> /\ Head(t) >= Number THEN [n |-> Head(t), end |-> Tail(t)]
             ELSE [n |-> 0, end |-> t]

parse_pair(t, delim) ==
  LET w == strtol(t)
      found == w.end # <<>> /\ Head(w.end) = delim
      h == strtol(Tail(w.end))
  IN IF found THEN [ok |-> TRUE, pair |-> <<w.n, h.n>>, end |-> h.end]
     ELSE [ok |-> FALSE, pair |-> <<>>, end |-> t]

(* A pair of a list ends at a comma or with the text.                      *)
endsPair(rest) == rest = <<>> \/ Head(rest) = COMMA

RECURSIVE parseSizesList(_)
parseSizesList(t) ==
  LET p == parse_pair(t, X)
  IN IF ~p.ok \/ ~endsPair(p.end) THEN <<>>
     ELSE <<p.pair>> \o (IF p.end = <<>> THEN <<>> ELSE parseSizesList(Tail(p.end)))

-----------------------------------------------------------------------------
get(k) == LET i == indexOfKey(mMap, k)
          IN IF i = 0 \/ (kind = "sorted" /\ mMap[i].v = <<>>) THEN <<>> ELSE mMap[i].v

badText(k, v) == \E s \in {k, v} : \E i \in DOMAIN s : s[i] \in {EQUALS, SEMICOLON}

set(k, v) ==
  /\ ~badText(k, v)
  /\ Len(removeItem(mMap, k)) < MaxKeys
  /\ mMap' = replaceValueFor(kind, mMap, k, v)
  /\ UNCHANGED kind

(* setPreviewSize, setVideoSize and setPictureSize; clients set the range  *)
(* of frame rates, a pair around a comma, with set itself.                 *)
setPair(k, w, h, delim) == set(k, <<w, delim, h>>)

remove(k) ==
  /\ mMap' = removeItem(mMap, k)
  /\ UNCHANGED kind

unflatten(t) ==
  /\ mMap' = unflattenRest(kind, <<>>, t)
  /\ UNCHANGED kind

Init == kind \in {"sorted", "ordered"} /\ mMap = <<>>

Next ==
  \/ \E k \in Key, v \in Value : set(k, v)
  \/ \E k \in Key, delim \in {X, COMMA} : setPair(k, Number, Number + 1, delim)
  \/ \E k \in Key : remove(k)
  \/ \E t \in Text : unflatten(t)

Spec == Init /\ [][Next]_vars

-----------------------------------------------------------------------------
TypeOK ==
  /\ kind \in {"sorted", "ordered"}
  /\ \A i \in DOMAIN mMap : DOMAIN mMap[i] = {"k", "v"}
  /\ kind = "sorted" => \A i, j \in DOMAIN mMap : i < j => Before(mMap[i].k, mMap[j].k)

(* What the client flattens the service unflattens to the same map, in the *)
(* same order, whatever texts and calls the map came from.                 *)
FlattenRoundTrips == unflattenRest(kind, <<>>, flatten(mMap)) = mMap

(* "If two keys have meaning that conflict, then the later-set key wins"   *)
(* (CameraParameters2.h): after set the key has the new value and, in the  *)
(* ordered map, comes after every other key.  A text that names the key    *)
(* twice defeats this: unflatten keeps both pairs and set drops one.       *)
LaterSetWins ==
  [][\A k \in Key, v \in Value :
       set(k, v) /\ Len(SelectSeq(mMap, LAMBDA p : p.k = k)) <= 1 =>
         /\ get(k)' = v
         /\ kind = "ordered" => indexOfKey(mMap', k) = Len(mMap')]_vars

(* A list of sizes as it is meant: the pieces between commas, each two     *)
(* numbers around an x, up to the first piece that is not (parseSizesList);*)
(* a missing number counts as 0.                                           *)
SizesAreRead ==
  LET Commas(t) == {i \in DOMAIN t : t[i] = COMMA}
      Piece(t, i, j) == SubSeq(t, i + 1, j - 1)
      Good(p) == \/ p = <<X>>
                 \/ Len(p) = 2 /\ ((p[1] >= Number /\ p[2] = X) \/ (p[1] = X /\ p[2] >= Number))
                 \/ Len(p) = 3 /\ p[1] >= Number /\ p[2] = X /\ p[3] >= Number
      Cuts(t) == {0, Len(t) + 1} \cup Commas(t)
      Pieces(t) == {<<i, j>> \in Cuts(t) \X Cuts(t) :
                      i < j /\ ~\E c \in Cuts(t) : i < c /\ c < j}
      Whole(t) == {ij \in Pieces(t) : \A kl \in Pieces(t) :
                     kl[1] <= ij[1] => Good(Piece(t, kl[1], kl[2]))}
  IN \A i \in DOMAIN mMap :
       LET t == mMap[i].v
           sizes == parseSizesList(t)
           starts == SetToSortSeq({ij[1] : ij \in Whole(t)}, <)
       IN /\ Len(sizes) = Len(starts)
          /\ \A n \in DOMAIN sizes : \A ij \in Whole(t) : ij[1] = starts[n] =>
               LET p == Piece(t, ij[1], ij[2])
               IN sizes[n] = <<IF p[1] = X THEN 0 ELSE p[1],
                               IF p[Len(p)] = X THEN 0 ELSE p[Len(p)]>>
=============================================================================
