---------------------------- MODULE Param_proofs ----------------------------
(***************************************************************************)
(* The parameters, for any files, users, values and table sizes, with      *)
(* crashes at any step and saves that fail, as long as calls that do not   *)
(* lock do not overlap others: the types, that the probing loop of         *)
(* dictionary_set always finds an empty slot, that the dictionary, the     *)
(* file it is dumped to and the table loaded from it implement a map that  *)
(* is saved and read back, and that user_num is the number of users.       *)
(*                                                                         *)
(* The loop ends because d->n is the number of occupied slots and stays    *)
(* below d->size.  That has to survive every way in which a table comes    *)
(* about: new entries, removed ones, a grown table, and a table loaded     *)
(* from a file that was dumped, copied or cut short by a crash.  That the  *)
(* map survives a save needs that no key is stored twice, what the lines   *)
(* of the dump are, and what a table loaded from such lines contains.      *)
(* user_num, in that map, is the number of users less what the request     *)
(* under way has still to count, which its remaining calls tell.           *)
(***************************************************************************)
EXTENDS Param, FiniteSetTheorems, NaturalsInduction, WellFoundedInduction, TLAPS

-----------------------------------------------------------------------------
(* Numbers, and recursive functions.                                       *)

LEMMA LeastNumber ==
    ASSUME NEW T \in SUBSET Nat, T # {}
    PROVE  \E x \in T : \A y \in T : x <= y
<1>1. IsWellFoundedOn(OpToRel(<, Nat), Nat)
  BY NatLessThanWellFounded, Zenon
<1>2. PICK x \in T : \A y \in T : ~(<<y, x>> \in OpToRel(<, Nat))
  BY <1>1, WFMin, Zenon
<1>3. \A y \in T : ~(y < x)
  BY <1>2 DEF OpToRel
<1> QED BY <1>3

(* A set of numbers to which 0 belongs and with each number the next one,  *)
(* up to len, holds all numbers up to len.                                   *)
LEMMA Counting ==
    ASSUME NEW len \in Nat, NEW P, 0 \in P,
           \A i \in 1 .. len : i - 1 \in P => i \in P
    PROVE  0 .. len \subseteq P
<1> DEFINE T == {i \in 0 .. len : i \notin P}
<1> SUFFICES ASSUME T # {} PROVE FALSE
  OBVIOUS
<1>1. PICK x \in T : \A y \in T : x <= y
  <2>1. T \in SUBSET Nat OBVIOUS
  <2> HIDE DEF T
  <2> QED BY <2>1, LeastNumber
<1>2. x \in 1 .. len /\ x - 1 \in 0 .. len /\ ~(x <= x - 1)
  OBVIOUS
<1>3. x - 1 \in P
  BY <1>1, <1>2
<1> QED BY <1>2, <1>3

(* A recursive function on 0 .. len exists.                                *)
Recursive(f, len, x0, step) == f[0] = x0 /\ \A i \in 1 .. len : f[i] = step[<<f[i - 1], i>>]

LEMMA Recursion ==
    ASSUME NEW X, NEW len \in Nat, NEW x0 \in X, NEW step \in [X \X (1 .. len) -> X]
    PROVE  \E f \in [0 .. len -> X] : Recursive(f, len, x0, step)
<1> DEFINE Good(f, m) == f[0] = x0 /\ \A i \in 1 .. m : f[i] = step[<<f[i - 1], i>>]
           P == {m \in 0 .. len : \E f \in [0 .. m -> X] : Good(f, m)}
<1>1. 0 \in P
  <2> DEFINE g == [i \in 0 .. 0 |-> x0]
  <2>1. g \in [0 .. 0 -> X] /\ Good(g, 0) OBVIOUS
  <2> HIDE DEF g, Good
  <2>2. \E f \in [0 .. 0 -> X] : Good(f, 0) BY <2>1
  <2> QED BY <2>2
<1>2. ASSUME NEW m \in 1 .. len, m - 1 \in P
      PROVE  m \in P
  <2>1. PICK f \in [0 .. m - 1 -> X] : Good(f, m - 1)
    BY <1>2
  <2> DEFINE g == [i \in 0 .. m |-> IF i = m THEN step[<<f[m - 1], m>>] ELSE f[i]]
  <2>2. m - 1 \in 0 .. m - 1 /\ 0 \in 0 .. m - 1
    OBVIOUS
  <2>3. f[m - 1] \in X
    BY <2>2
  <2>4. step[<<f[m - 1], m>>] \in X
    BY <2>3
  <2>5. g \in [0 .. m -> X]
    BY <2>4
  <2>6. g[0] = x0
    BY <2>1
  <2>7. \A i \in 1 .. m : g[i] = step[<<g[i - 1], i>>]
    <3> TAKE i \in 1 .. m
    <3>1. g[i - 1] = f[i - 1]
      OBVIOUS
    <3>2. i # m => i \in 1 .. m - 1 /\ g[i] = f[i]
      OBVIOUS
    <3>3. i = m => g[i] = step[<<f[m - 1], m>>]
      OBVIOUS
    <3> HIDE DEF g
    <3> QED BY <2>1, <3>1, <3>2, <3>3
  <2>8. Good(g, m)
    BY <2>6, <2>7
  <2> HIDE DEF g, Good
  <2>9. \E h \in [0 .. m -> X] : Good(h, m)
    BY <2>5, <2>8
  <2> QED BY <2>9
<1>3. len \in P
  <2> HIDE DEF P
  <2>1. 0 .. len \subseteq P
    BY <1>1, <1>2, Counting
  <2> QED BY <2>1
<1> QED BY <1>3 DEF Recursive

(* Such a function has its values in X.                                    *)
LEMMA RecursionType ==
    ASSUME NEW X, NEW len \in Nat, NEW f, f[0] \in X,
           \A i \in 1 .. len : f[i - 1] \in X => f[i] \in X
    PROVE  \A i \in 0 .. len : f[i] \in X
<1> DEFINE P == {i \in 0 .. len : f[i] \in X}
<1>1. 0 \in P
  OBVIOUS
<1>2. \A i \in 1 .. len : i - 1 \in P => i \in P
  OBVIOUS
<1> HIDE DEF P
<1>3. 0 .. len \subseteq P
  BY <1>1, <1>2, Counting
<1> QED BY <1>3 DEF P


-----------------------------------------------------------------------------
(* Sequences of whatever elements.                                         *)
IsList(s) == s \in Seq(ToSet(s))

LEMMA ListIntro ==
    ASSUME NEW S, NEW s \in Seq(S)
    PROVE  IsList(s) /\ ToSet(s) \subseteq S
BY DEF IsList, ToSet

LEMMA ListElim ==
    ASSUME NEW s, IsList(s)
    PROVE  /\ Len(s) \in Nat /\ DOMAIN s = 1 .. Len(s)
           /\ \A i \in 1 .. Len(s) : s[i] \in ToSet(s)
BY DEF IsList, ToSet

LEMMA ListOf ==
    ASSUME NEW len \in Nat, NEW s, s = [i \in 1 .. len |-> s[i]]
    PROVE  IsList(s) /\ Len(s) = len
BY DEF IsList, ToSet

-----------------------------------------------------------------------------
(* The slots of a table.                                                   *)

LEMMA EntryNotEmpty == ASSUME NEW k, NEW v PROVE Entry(k, v) # Empty
<1>1. DOMAIN Entry(k, v) = {"key", "val"}
  BY DEF Entry
<1>2. DOMAIN Empty = {}
  BY DEF Empty
<1> QED BY <1>1, <1>2

(* How many slots are occupied.                                            *)
Filled(s) == Cardinality(Occupied(s))

LEMMA SlotCount ==
    ASSUME NEW s, IsList(s)
    PROVE  /\ IsFiniteSet(Occupied(s)) /\ Filled(s) \in Nat /\ Filled(s) <= Len(s)
           /\ Filled(s) < Len(s) => Free(s) # {}
<1>1. IsFiniteSet(1 .. Len(s)) /\ Cardinality(1 .. Len(s)) = Len(s)
  <2>1. 1 \in Int /\ Len(s) \in Int /\ (1 > Len(s) => Len(s) = 0) /\ Len(s) - 1 + 1 = Len(s)
    BY ListElim
  <2> QED BY <2>1, FS_Interval
<1>2. Occupied(s) \in SUBSET (1 .. Len(s))
  BY DEF Occupied
<1>3. IsFiniteSet(Occupied(s)) /\ Filled(s) \in Nat /\ Filled(s) <= Len(s)
  BY <1>1, <1>2, FS_Subset, FS_CardinalityType DEF Filled
<1>4. Filled(s) < Len(s) => Free(s) # {}
  <2>1. Len(s) \in Nat
    BY ListElim
  <2>2. Free(s) = {} => Occupied(s) = 1 .. Len(s)
    BY <1>2 DEF Free
  <2> QED BY <1>1, <2>1, <2>2 DEF Filled
<1> QED BY <1>3, <1>4

LEMMA StoreNew ==
    ASSUME NEW s, IsList(s), NEW i \in Free(s), NEW k, NEW v
    PROVE  /\ IsList(Store(s, i, k, v)) /\ Len(Store(s, i, k, v)) = Len(s)
           /\ Filled(Store(s, i, k, v)) = Filled(s) + 1
<1> DEFINE t == Store(s, i, k, v)
<1>1. /\ Len(s) \in Nat /\ DOMAIN s = 1 .. Len(s) /\ i \in 1 .. Len(s) /\ i \notin Occupied(s)
  BY ListElim DEF Free
<1>2. t = [j \in 1 .. Len(s) |-> IF j = i THEN Entry(k, v) ELSE s[j]]
  BY <1>1 DEF Store
<1> HIDE DEF t
<1>3. IsList(t) /\ Len(t) = Len(s)
  BY <1>1, <1>2, ListOf
<1>4. Occupied(t) = Occupied(s) \cup {i}
  BY <1>1, <1>2, <1>3, EntryNotEmpty DEF Occupied
<1>5. Filled(t) = Filled(s) + 1
  BY <1>1, <1>4, SlotCount, FS_AddElement DEF Filled
<1> QED BY <1>3, <1>5 DEF t

LEMMA StoreOld ==
    ASSUME NEW s, IsList(s), NEW i \in Occupied(s), NEW k, NEW v
    PROVE  /\ IsList(Store(s, i, k, v)) /\ Len(Store(s, i, k, v)) = Len(s)
           /\ Filled(Store(s, i, k, v)) = Filled(s)
<1> DEFINE t == Store(s, i, k, v)
<1>1. /\ Len(s) \in Nat /\ DOMAIN s = 1 .. Len(s) /\ i \in 1 .. Len(s)
  BY ListElim DEF Occupied
<1>2. t = [j \in 1 .. Len(s) |-> IF j = i THEN Entry(k, v) ELSE s[j]]
  BY <1>1 DEF Store
<1> HIDE DEF t
<1>3. IsList(t) /\ Len(t) = Len(s)
  BY <1>1, <1>2, ListOf
<1>4. Occupied(t) = Occupied(s)
  BY <1>1, <1>2, <1>3, EntryNotEmpty DEF Occupied
<1> QED BY <1>3, <1>4 DEF t, Filled

LEMMA ClearOld ==
    ASSUME NEW s, IsList(s), NEW i \in Occupied(s)
    PROVE  /\ IsList(Clear(s, i)) /\ Len(Clear(s, i)) = Len(s)
           /\ Filled(Clear(s, i)) = Filled(s) - 1
<1> DEFINE t == Clear(s, i)
<1>1. /\ Len(s) \in Nat /\ DOMAIN s = 1 .. Len(s) /\ i \in 1 .. Len(s)
  BY ListElim DEF Occupied
<1>2. t = [j \in 1 .. Len(s) |-> IF j = i THEN Empty ELSE s[j]]
  BY <1>1 DEF Clear
<1> HIDE DEF t
<1>3. IsList(t) /\ Len(t) = Len(s)
  BY <1>1, <1>2, ListOf
<1>4. Occupied(t) = Occupied(s) \ {i}
  BY <1>1, <1>2, <1>3 DEF Occupied
<1>5. Filled(t) = Filled(s) - 1
  BY <1>4, SlotCount, FS_RemoveElement DEF Filled
<1> QED BY <1>3, <1>5 DEF t

(* A table that is not empty has room for one more entry after Room.       *)
LEMMA RoomLeft ==
    ASSUME NEW s, IsList(s), Len(s) > 0
    PROVE  /\ IsList(Room(s, Filled(s))) /\ Filled(Room(s, Filled(s))) = Filled(s)
           /\ Filled(s) < Len(Room(s, Filled(s))) /\ Len(Room(s, Filled(s))) > 0
<1>1. Len(s) \in Nat /\ Filled(s) \in Nat /\ Filled(s) <= Len(s)
  BY ListElim, SlotCount
<1>2. CASE Filled(s) # Len(s)
  BY <1>1, <1>2 DEF Room
<1>3. CASE Filled(s) = Len(s)
  <2> DEFINE empties == [i \in 1 .. Len(s) |-> Empty]
             t == s \o empties
  <2>1. empties \in Seq({Empty}) /\ Len(empties) = Len(s) /\ s \in Seq(ToSet(s))
    BY <1>1 DEF IsList
  <2>2. t \in Seq(ToSet(s) \cup {Empty}) /\ Len(t) = Len(s) + Len(s)
    BY <2>1, <1>1
  <2>3. \A i \in 1 .. Len(t) : t[i] = IF i <= Len(s) THEN s[i] ELSE Empty
    BY <2>1, <2>2, <1>1
  <2>4. Room(s, Filled(s)) = t
    BY <1>3 DEF Room, dictionary_grow
  <2> HIDE DEF t
  <2>5. IsList(t)
    BY <2>2, ListIntro
  <2>6. Occupied(t) = Occupied(s)
    BY <1>1, <2>2, <2>3 DEF Occupied
  <2> QED BY <1>1, <1>3, <2>2, <2>4, <2>5, <2>6 DEF Filled
<1> QED BY <1>2, <1>3

LEMMA FirstOf ==
    ASSUME NEW T \in SUBSET Nat, T # {}
    PROVE  First(T) \in T
<1>1. \E x \in T : \A y \in T : x <= y
  BY LeastNumber
<1> QED BY <1>1 DEF First

LEMMA ProbeFree ==
    ASSUME NEW s, IsList(s), Free(s) # {}, NEW m
    PROVE  Probe(s, m) \in Free(s)
<1> DEFINE after == {i \in Free(s) : i > m}
<1>1. Free(s) \in SUBSET Nat /\ after \in SUBSET Nat
  BY ListElim DEF Free
<1>2. First(Free(s)) \in Free(s)
  BY <1>1, FirstOf
<1>3. after # {} => First(after) \in after
  <2> HIDE DEF after
  <2> QED BY <1>1, FirstOf
<1> QED BY <1>2, <1>3 DEF Probe

LEMMA FirstAt ==
    ASSUME NEW s, IsList(s), NEW k, At(s, k) # {}
    PROVE  First(At(s, k)) \in Occupied(s)
<1>1. At(s, k) \in SUBSET Nat /\ At(s, k) \subseteq Occupied(s)
  BY ListElim DEF At, Occupied
<1> QED BY <1>1, FirstOf
-----------------------------------------------------------------------------
(* What a table contains.                                                  *)

(* No key is stored twice, and keys are a section and a field.             *)
Unique(s) == \A i, j \in Occupied(s) : s[i].key = s[j].key => i = j
Keyed(s) == \A i \in Occupied(s) : IsKey(s[i].key)

LEMMA ContentsAre ==
    ASSUME NEW s, IsList(s), Unique(s)
    PROVE  /\ Contents(s) = [k \in Keys(s) |-> Contents(s)[k]]
           /\ \A i \in Occupied(s) : s[i].key \in Keys(s) /\ Contents(s)[s[i].key] = s[i].val
           /\ \A k : At(s, k) = {} <=> k \notin Keys(s)
<1>1. Contents(s) = [k \in Keys(s) |-> dictionary_get(s, k)]
  BY DEF Contents
<1>2. ASSUME NEW i \in Occupied(s)
      PROVE  s[i].key \in Keys(s) /\ dictionary_get(s, s[i].key) = s[i].val
  <2>1. At(s, s[i].key) = {i}
    BY DEF At, Unique
  <2>2. i \in Nat
    BY ListElim DEF Occupied
  <2>3. First(At(s, s[i].key)) = i
    BY <2>1, <2>2, FirstOf
  <2> QED BY <2>3 DEF dictionary_get, Keys
<1>3. \A k : At(s, k) = {} <=> k \notin Keys(s)
  BY DEF At, Keys
<1> QED BY <1>1, <1>2, <1>3

(* A table whose entries are given by a map contains that map.             *)
LEMMA ContentsGiven ==
    ASSUME NEW s, IsList(s), Unique(s), NEW m,
           m = [k \in Keys(s) |-> m[k]],
           \A i \in Occupied(s) : m[s[i].key] = s[i].val
    PROVE  Contents(s) = m
<1>1. \A k \in Keys(s) : Contents(s)[k] = m[k]
  <2> TAKE k \in Keys(s)
  <2>1. PICK i \in Occupied(s) : s[i].key = k
    BY DEF Keys
  <2> QED BY <2>1, ContentsAre
<1> PICK c : c = Contents(s)
  OBVIOUS
<1>2. c = [k \in Keys(s) |-> c[k]]
  BY ContentsAre
<1> QED BY <1>1, <1>2

(* Tables with the same entries.                                           *)
LEMMA SameContents ==
    ASSUME NEW s, NEW t, Occupied(t) = Occupied(s), \A i \in Occupied(s) : t[i] = s[i]
    PROVE  /\ Keys(t) = Keys(s) /\ \A k : At(t, k) = At(s, k)
           /\ Unique(s) => Unique(t)
           /\ Keyed(s) => Keyed(t)
<1>1. Keys(t) = Keys(s)
  BY DEF Keys
<1>2. \A k : At(t, k) = At(s, k)
  BY DEF At
<1> QED BY <1>1, <1>2 DEF Unique, Keyed

LEMMA RoomContents ==
    ASSUME NEW s, IsList(s), Len(s) > 0, Unique(s), Keyed(s)
    PROVE  /\ Unique(Room(s, Filled(s))) /\ Keyed(Room(s, Filled(s)))
           /\ Contents(Room(s, Filled(s))) = Contents(s)
           /\ \A k : At(Room(s, Filled(s)), k) = At(s, k)
<1> PICK t : t = Room(s, Filled(s))
  OBVIOUS
<1>1. Len(s) \in Nat /\ DOMAIN s = 1 .. Len(s)
  BY ListElim
<1>2. Occupied(t) = Occupied(s) /\ \A i \in Occupied(s) : t[i] = s[i]
  <2>1. CASE t = s
    BY <2>1
  <2>2. CASE t = s \o [i \in 1 .. Len(s) |-> Empty]
    <3> DEFINE empties == [i \in 1 .. Len(s) |-> Empty]
    <3>1. empties \in Seq({Empty}) /\ Len(empties) = Len(s) /\ s \in Seq(ToSet(s))
      BY <1>1 DEF IsList
    <3>2. t \in Seq(ToSet(s) \cup {Empty}) /\ Len(t) = Len(s) + Len(s)
      BY <2>2, <3>1, <1>1
    <3>3. \A i \in 1 .. Len(t) : t[i] = IF i <= Len(s) THEN s[i] ELSE Empty
      BY <2>2, <3>1, <3>2, <1>1
    <3>4. Occupied(t) = Occupied(s)
      BY <1>1, <3>2, <3>3 DEF Occupied
    <3>5. \A i \in Occupied(s) : i \in 1 .. Len(t) /\ i <= Len(s)
      BY <1>1, <3>2 DEF Occupied
    <3> QED BY <3>3, <3>4, <3>5
  <2> QED BY <2>1, <2>2 DEF Room, dictionary_grow
<1>3. IsList(t)
  BY RoomLeft
<1>4. Keys(t) = Keys(s) /\ Unique(t) /\ Keyed(t) /\ \A k : At(t, k) = At(s, k)
  BY <1>2, SameContents
<1> PICK m : m = Contents(s)
  OBVIOUS
<1>5. m = [k \in Keys(t) |-> m[k]] /\ \A i \in Occupied(t) : m[t[i].key] = t[i].val
  BY <1>2, <1>4, ContentsAre
<1>6. Contents(t) = m
  BY <1>3, <1>4, <1>5, ContentsGiven
<1> QED BY <1>4, <1>6

(* The map m with value v for key k.                                       *)
With(m, k, v) == [x \in DOMAIN m \cup {k} |-> IF x = k THEN v ELSE m[x]]

LEMMA StoreContents ==
    ASSUME NEW s, IsList(s), Unique(s), Keyed(s), NEW k, IsKey(k), NEW v, NEW i,
           (i \in Occupied(s) /\ s[i].key = k) \/ (i \in Free(s) /\ At(s, k) = {})
    PROVE  /\ Unique(Store(s, i, k, v)) /\ Keyed(Store(s, i, k, v))
           /\ Contents(Store(s, i, k, v)) = With(Contents(s), k, v)
<1> PICK t : t = Store(s, i, k, v)
  OBVIOUS
<1>1. Len(s) \in Nat /\ DOMAIN s = 1 .. Len(s) /\ i \in 1 .. Len(s)
  BY ListElim DEF Occupied, Free
<1>2. t = [j \in 1 .. Len(s) |-> IF j = i THEN Entry(k, v) ELSE s[j]]
  BY <1>1 DEF Store
<1>3. IsList(t) /\ Len(t) = Len(s)
  BY <1>1, <1>2, ListOf
<1>4. Occupied(t) = Occupied(s) \cup {i}
  BY <1>1, <1>2, <1>3, EntryNotEmpty DEF Occupied
<1>5. t[i] = Entry(k, v) /\ \A j \in Occupied(s) \ {i} : t[j] = s[j]
  BY <1>1, <1>2 DEF Occupied
<1>6. t[i].key = k /\ t[i].val = v
  BY <1>5 DEF Entry
<1>7. \A j \in Occupied(s) : s[j].key = k => j = i
  BY DEF Unique, At
<1>8. Unique(t)
  BY <1>4, <1>5, <1>6, <1>7 DEF Unique
<1>9. Keyed(t)
  BY <1>4, <1>5, <1>6 DEF Keyed
<1>10. Keys(t) = Keys(s) \cup {k}
  <2>1. \A x \in Keys(t) : x \in Keys(s) \cup {k}
    BY <1>4, <1>5, <1>6 DEF Keys
  <2>2. \A x \in Keys(s) : x \in Keys(t)
    <3> TAKE x \in Keys(s)
    <3>1. PICK j \in Occupied(s) : s[j].key = x
      BY DEF Keys
    <3>2. j # i => t[j].key = x /\ j \in Occupied(t)
      BY <1>4, <1>5, <3>1
    <3>3. j = i => x = k
      BY <3>1, <1>7 DEF Free
    <3>4. k \in Keys(t)
      BY <1>4, <1>6 DEF Keys
    <3> QED BY <3>2, <3>3, <3>4 DEF Keys
  <2>3. k \in Keys(t)
    BY <1>4, <1>6 DEF Keys
  <2> QED BY <2>1, <2>2, <2>3
<1> PICK m : m = Contents(s)
  OBVIOUS
<1> PICK w : w = With(m, k, v)
  OBVIOUS
<1>11. DOMAIN m = Keys(s)
  BY DEF Contents
<1>12. w = [x \in Keys(t) |-> IF x = k THEN v ELSE m[x]]
  BY <1>10, <1>11 DEF With
<1>13. \A j \in Occupied(t) : w[t[j].key] = t[j].val
  <2> TAKE j \in Occupied(t)
  <2>1. CASE j = i
    <3>1. k \in Keys(t)
      BY <1>10
    <3> QED BY <2>1, <1>6, <1>12, <3>1
  <2>2. CASE j # i
    <3>1. j \in Occupied(s) /\ t[j] = s[j] /\ s[j].key # k
      BY <2>2, <1>4, <1>5, <1>7
    <3>2. m[s[j].key] = s[j].val
      BY <3>1, ContentsAre
    <3>3. t[j].key \in Keys(t)
      BY DEF Keys
    <3> QED BY <3>1, <3>2, <3>3, <1>12
  <2> QED BY <2>1, <2>2
<1>14. w = [x \in Keys(t) |-> w[x]]
  BY <1>12
<1>15. Contents(t) = w
  BY <1>3, <1>8, <1>13, <1>14, ContentsGiven
<1> QED BY <1>8, <1>9, <1>15

LEMMA ClearContents ==
    ASSUME NEW s, IsList(s), Unique(s), Keyed(s), NEW i \in Occupied(s), NEW k, s[i].key = k
    PROVE  /\ Unique(Clear(s, i)) /\ Keyed(Clear(s, i)) /\ k \in DOMAIN Contents(s)
           /\ Contents(Clear(s, i)) = [x \in DOMAIN Contents(s) \ {k} |-> Contents(s)[x]]
<1> PICK t : t = Clear(s, i)
  OBVIOUS
<1>1. Len(s) \in Nat /\ DOMAIN s = 1 .. Len(s) /\ i \in 1 .. Len(s)
  BY ListElim DEF Occupied
<1>2. t = [j \in 1 .. Len(s) |-> IF j = i THEN Empty ELSE s[j]]
  BY <1>1 DEF Clear
<1>3. IsList(t) /\ Len(t) = Len(s)
  BY <1>1, <1>2, ListOf
<1>4. Occupied(t) = Occupied(s) \ {i}
  BY <1>1, <1>2, <1>3 DEF Occupied
<1>5. \A j \in Occupied(t) : t[j] = s[j]
  BY <1>1, <1>2, <1>4 DEF Occupied
<1>6. Unique(t) /\ Keyed(t)
  BY <1>4, <1>5 DEF Unique, Keyed
<1>7. Keys(t) = Keys(s) \ {k}
  BY <1>4, <1>5 DEF Keys, Unique
<1> PICK m : m = Contents(s)
  OBVIOUS
<1>8. DOMAIN m = Keys(s)
  BY DEF Contents
<1>0. PICK w : w = [x \in DOMAIN m \ {k} |-> m[x]]
  OBVIOUS
<1>9. w = [x \in Keys(t) |-> m[x]]
  BY <1>0, <1>7, <1>8
<1>10. \A j \in Occupied(t) : w[t[j].key] = t[j].val
  <2>1. \A x \in Keys(t) : w[x] = m[x]
    BY <1>9
  <2> TAKE j \in Occupied(t)
  <2>2. j \in Occupied(s) /\ t[j] = s[j]
    BY <1>4, <1>5
  <2>3. m[t[j].key] = t[j].val
    BY <2>2, ContentsAre
  <2>4. t[j].key \in Keys(t)
    BY DEF Keys
  <2>5. w[t[j].key] = m[t[j].key]
    BY <2>1, <2>4
  <2> QED BY <2>3, <2>5
<1>11. Contents(t) = w
  <2>1. w = [x \in Keys(t) |-> w[x]]
    BY <1>9
  <2> QED BY <1>3, <1>6, <1>10, <2>1, ContentsGiven
<1>12. k \in DOMAIN m
  BY <1>8, ContentsAre
<1> QED BY <1>0, <1>6, <1>11, <1>12


-----------------------------------------------------------------------------
(* Tables: d->n is the number of occupied slots.                           *)
TablesOf(U) ==
    {d \in [slots : Seq(U), n : Nat] : Len(d.slots) > 0 /\ d.n = Filled(d.slots)}

LEMMA NewTable ==
    ASSUME NEW U, Empty \in U
    PROVE  dictionary_new \in TablesOf(U)
<1> DEFINE s == [i \in 1 .. DICTMINSZ |-> Empty]
<1>1. DICTMINSZ \in Nat /\ DICTMINSZ > 0
  BY DictionaryAssumption
<1>2. s \in Seq(U) /\ Len(s) = DICTMINSZ
  BY <1>1
<1>3. Occupied(s) = {}
  BY <1>1, <1>2 DEF Occupied
<1>4. Filled(s) = 0
  BY <1>3, FS_EmptySet DEF Filled
<1>5. dictionary_new = [slots |-> s, n |-> 0]
  BY DEF dictionary_new
<1> HIDE DEF s
<1> QED BY <1>1, <1>2, <1>4, <1>5 DEF TablesOf

LEMMA SetTable ==
    ASSUME NEW U, Empty \in U, NEW k, NEW v, Entry(k, v) \in U, NEW d \in TablesOf(U)
    PROVE  dictionary_set(d, k, v) \in TablesOf(U)
<1> PICK s : s = d.slots
  OBVIOUS
<1>1. /\ s \in Seq(U) /\ Len(s) > 0 /\ d.n = Filled(s) /\ d = [slots |-> s, n |-> d.n]
      /\ d.n \in Nat /\ IsList(s) /\ Len(s) \in Nat
  BY ListIntro DEF TablesOf
<1>2. CASE At(s, k) # {}
  <2> DEFINE t == Store(s, First(At(s, k)), k, v)
  <2>1. First(At(s, k)) \in Occupied(s)
    BY <1>1, <1>2, FirstAt
  <2>2. t \in Seq(U)
    <3>1. First(At(s, k)) \in 1 .. Len(s)
      BY <2>1 DEF Occupied
    <3> QED BY <1>1, <3>1 DEF Store
  <2>3. Len(t) = Len(s) /\ Filled(t) = Filled(s)
    BY <1>1, <2>1, StoreOld
  <2>4. dictionary_set(d, k, v) = [slots |-> t, n |-> d.n]
    BY <1>1, <1>2 DEF dictionary_set
  <2> HIDE DEF t
  <2> QED BY <1>1, <2>2, <2>3, <2>4 DEF TablesOf
<1>3. CASE At(s, k) = {}
  <2> DEFINE room == Room(s, d.n)
             i == Probe(room, d.n)
             t == Store(room, i, k, v)
  <2>1. /\ IsList(room) /\ Filled(room) = d.n /\ d.n < Len(room) /\ Len(room) > 0
    BY <1>1, RoomLeft
  <2>2. room \in Seq(U)
    <3>1. [j \in 1 .. Len(s) |-> Empty] \in Seq(U)
      BY <1>1
    <3>2. dictionary_grow(s) \in Seq(U)
      BY <1>1, <3>1 DEF dictionary_grow
    <3> QED BY <1>1, <3>2 DEF Room
  <2>3. dictionary_set(d, k, v) = [slots |-> t, n |-> d.n + 1]
    BY <1>1, <1>3 DEF dictionary_set
  <2> HIDE DEF room
  <2>4. i \in Free(room)
    BY <2>1, SlotCount, ProbeFree
  <2> HIDE DEF i
  <2>5. t \in Seq(U)
    <3>1. i \in 1 .. Len(room)
      BY <2>4 DEF Free
    <3> QED BY <2>2, <3>1 DEF Store
  <2>6. Len(t) = Len(room) /\ Filled(t) = d.n + 1
    BY <2>1, <2>4, StoreNew
  <2> HIDE DEF t
  <2> QED BY <1>1, <2>1, <2>3, <2>5, <2>6 DEF TablesOf
<1> QED BY <1>2, <1>3

LEMMA OnlyOne == ASSUME NEW x PROVE Only({x}) = x
BY DEF Only

(* Loading a file sets its lines one after the other, and whatever they    *)
(* are, makes such a table.                                                *)
IsLoading(load, lines, U) ==
    /\ load[0] = dictionary_new
    /\ \A i \in 1 .. Len(lines) :
         load[i] = dictionary_set(load[i - 1], lines[i].key, Reread(lines[i].val))
    /\ \A i \in 0 .. Len(lines) : load[i] \in TablesOf(U)
    /\ iniparser_load(lines) = load[Len(lines)]

LEMMA LoadSteps ==
    ASSUME NEW lines, IsList(lines)
    PROVE  \E load, U : IsLoading(load, lines, U)
<1> DEFINE line(i) == Entry(lines[i].key, Reread(lines[i].val))
           U == {Empty} \cup {line(i) : i \in 1 .. Len(lines)}
           X == TablesOf(U)
           put(d, i) == dictionary_set(d, lines[i].key, Reread(lines[i].val))
           IsLoad(f) == f = [i \in 0 .. Len(lines) |->
                               IF i = 0 THEN dictionary_new
                               ELSE Only({put(d, i) : d \in {f[i - 1]}})]
           load == CHOOSE f : IsLoad(f)
           len == Len(lines)
           step == [z \in X \X (1 .. len) |-> put(z[1], z[2])]
<1>1. iniparser_load(lines) = load[len]
  BY DEF iniparser_load
<1>2. len \in Nat
  BY ListElim
<1>3. dictionary_new \in X
  BY NewTable
<1>4. \A d \in X, i \in 1 .. len : put(d, i) \in X
  <2> TAKE d \in X, i \in 1 .. len
  <2>1. Empty \in U /\ Entry(lines[i].key, Reread(lines[i].val)) \in U
    OBVIOUS
  <2> HIDE DEF U
  <2> QED BY <2>1, SetTable
<1> HIDE DEF X
<1>5. step \in [X \X (1 .. len) -> X]
  BY <1>4
<1> HIDE DEF step
<1>6. PICK f \in [0 .. len -> X] : Recursive(f, len, dictionary_new, step)
  BY <1>2, <1>3, <1>5, Recursion
<1>7. \A i \in 1 .. len : i - 1 \in 0 .. len /\ i \in 0 .. len /\ i # 0
  BY <1>2
<1>8. \A i \in 1 .. len : f[i] = put(f[i - 1], i)
  BY <1>6, <1>7 DEF step, Recursive
<1>9. \A g, i : Only({put(d, i) : d \in {g[i - 1]}}) = put(g[i - 1], i)
  <2> TAKE g, i
  <2>1. {put(d, i) : d \in {g[i - 1]}} = {put(g[i - 1], i)}
    OBVIOUS
  <2> QED BY <2>1, OnlyOne
<1>10. \A i \in 0 .. len : i # 0 => i \in 1 .. len
  BY <1>2
<1>11. \A i \in 0 .. len : f[i] = IF i = 0 THEN dictionary_new
                                 ELSE Only({put(d, i) : d \in {f[i - 1]}})
  BY <1>6, <1>8, <1>9, <1>10 DEF Recursive
<1>12. f = [i \in 0 .. len |-> f[i]]
  BY <1>6
<1>13. IsLoad(f)
  BY <1>11, <1>12
<1>14. IsLoad(load)
  <2> HIDE DEF IsLoad
  <2> QED BY <1>13
<1> HIDE DEF load
<1>15. load[0] = dictionary_new
  BY <1>2, <1>14
<1>16. \A i \in 1 .. len : load[i] = put(load[i - 1], i)
  BY <1>7, <1>9, <1>14
<1>17. \A i \in 0 .. len : load[i] \in X
  <2>1. load[0] \in X
    BY <1>3, <1>15
  <2>2. \A i \in 1 .. len : load[i - 1] \in X => load[i] \in X
    BY <1>4, <1>16
  <2> HIDE DEF len
  <2> QED BY <1>2, <2>1, <2>2, RecursionType, Zenon
<1>18. \A i \in 0 .. len : load[i] \in TablesOf(U)
  BY <1>17 DEF X
<1> HIDE DEF U
<1>19. IsLoading(load, lines, U)
  BY <1>1, <1>15, <1>16, <1>18 DEF IsLoading
<1> QED BY <1>19

LEMMA LoadTable ==
    ASSUME NEW lines, IsList(lines)
    PROVE  \E U : iniparser_load(lines) \in TablesOf(U)
<1>1. Len(lines) \in 0 .. Len(lines)
  BY ListElim
<1> QED BY <1>1, LoadSteps DEF IsLoading

(* The elements of s with an index in I are collected one after the other, *)
(* into a sequence.                                                        *)
IsThose(those, s, I, S) ==
    /\ those[0] = << >>
    /\ \A i \in 1 .. Len(s) :
         those[i] = IF i \in I THEN Append(those[i - 1], s[i]) ELSE those[i - 1]
    /\ \A i \in 0 .. Len(s) : those[i] \in Seq(S)
    /\ Those(s, I) = those[Len(s)]

LEMMA ThoseSteps ==
    ASSUME NEW S, NEW s \in Seq(S), NEW I
    PROVE  \E those : IsThose(those, s, I, S)
<1> DEFINE len == Len(s)
           add(q, i) == IF i \in I THEN Append(q, s[i]) ELSE q
           Collects(f) == f = [i \in 0 .. len |-> IF i = 0 THEN << >> ELSE add(f[i - 1], i)]
           those == CHOOSE f : Collects(f)
           X == Seq(S)
           step == [z \in X \X (1 .. len) |-> add(z[1], z[2])]
<1>1. Those(s, I) = those[len]
  BY DEF Those
<1>2. len \in Nat /\ \A i \in 1 .. len : s[i] \in S
  OBVIOUS
<1>3. << >> \in X
  OBVIOUS
<1>4. \A q \in X, i \in 1 .. len : add(q, i) \in X
  <2> TAKE q \in X, i \in 1 .. len
  <2>1. CASE i \in I
    BY <2>1
  <2>2. CASE i \notin I
    BY <2>2
  <2> QED BY <2>1, <2>2
<1> HIDE DEF X, len, add
<1>5. step \in [X \X (1 .. len) -> X]
  BY <1>4
<1> HIDE DEF step
<1>6. PICK f \in [0 .. len -> X] : Recursive(f, len, << >>, step)
  BY <1>2, <1>3, <1>5, Recursion
<1>7. \A i \in 1 .. len : i - 1 \in 0 .. len /\ i \in 0 .. len /\ i # 0
  BY <1>2
<1>8. \A i \in 1 .. len : f[i] = add(f[i - 1], i)
  BY <1>6, <1>7 DEF step, Recursive
<1>9. \A i \in 0 .. len : i # 0 => i \in 1 .. len
  BY <1>2
<1>10. \A i \in 0 .. len : f[i] = IF i = 0 THEN << >> ELSE add(f[i - 1], i)
  BY <1>6, <1>8, <1>9 DEF Recursive
<1>11. Collects(f)
  BY <1>6, <1>10
<1>12. Collects(those)
  <2> HIDE DEF Collects
  <2> QED BY <1>11
<1> HIDE DEF those
<1>13. those[0] = << >>
  BY <1>2, <1>12
<1>14. \A i \in 1 .. len : those[i] = add(those[i - 1], i)
  BY <1>7, <1>12
<1>15. \A i \in 0 .. len : those[i] \in X
  <2>1. those[0] \in X
    BY <1>3, <1>13
  <2>2. \A i \in 1 .. len : those[i - 1] \in X => those[i] \in X
    BY <1>4, <1>14
  <2> QED BY <1>2, <2>1, <2>2, RecursionType, Zenon
<1>16. \A i \in 0 .. len : those[i] \in Seq(S)
  BY <1>15 DEF X
<1>17. IsThose(those, s, I, S)
  BY <1>1, <1>13, <1>14, <1>16 DEF IsThose, len, add
<1> QED BY <1>17

LEMMA ThoseList ==
    ASSUME NEW S, NEW s \in Seq(S), NEW I
    PROVE  Those(s, I) \in Seq(S)
<1>1. Len(s) \in 0 .. Len(s)
  OBVIOUS
<1> QED BY <1>1, ThoseSteps DEF IsThose

(* What is dumped of a table is a sequence of lines: its sections with     *)
(* their keys, one section after the other, or its keys made flat.         *)
Heads(s) == {i \in Occupied(s) : s[i].key.field = NoField}
KeysOf(s, h) == {i \in Occupied(s) \ Heads(s) : s[i].key.sec = s[h].key.sec}
IsDumping(text, s) ==
    /\ text[0] = << >>
    /\ \A i \in 1 .. Len(s) :
         text[i] = IF i \in Heads(s) THEN text[i - 1] \o <<s[i]>> \o Those(s, KeysOf(s, i))
                   ELSE text[i - 1]
    /\ \A i \in 0 .. Len(s) : text[i] \in Seq(ToSet(s))
    /\ Heads(s) # {} => iniparser_dump_ini(s) = text[Len(s)]
Flattened(q) == [i \in 1 .. Len(q) |-> Entry(Flat(q[i].key), q[i].val)]

LEMMA DumpSteps ==
    ASSUME NEW s, IsList(s)
    PROVE  /\ \E text : IsDumping(text, s)
           /\ Heads(s) = {} => iniparser_dump_ini(s) = Flattened(Those(s, Occupied(s)))
<1> DEFINE S == ToSet(s)
           len == Len(s)
           heads == {i \in Occupied(s) : s[i].key.field = NoField}
           keys(h) == {i \in Occupied(s) \ heads : s[i].key.sec = s[h].key.sec}
           add(q, i) == IF i \in heads THEN q \o <<s[i]>> \o Those(s, keys(i)) ELSE q
           Dumps(f) == f = [i \in 0 .. len |-> IF i = 0 THEN << >>
                               ELSE IF i \in heads THEN f[i - 1] \o <<s[i]>> \o Those(s, keys(i))
                               ELSE f[i - 1]]
           text == CHOOSE f : Dumps(f)
           used == Those(s, Occupied(s))
           flat == [i \in 1 .. Len(used) |-> Entry(Flat(used[i].key), used[i].val)]
           X == Seq(S)
           step == [z \in X \X (1 .. len) |-> add(z[1], z[2])]
<1>1. iniparser_dump_ini(s) = IF heads = {} THEN flat ELSE text[len]
  BY DEF iniparser_dump_ini
<1>2. s \in Seq(S) /\ len \in Nat /\ \A i \in 1 .. len : s[i] \in S
  BY ListElim DEF IsList
<1>3. heads = Heads(s) /\ flat = Flattened(used) /\ \A i : keys(i) = KeysOf(s, i)
  BY DEF Heads, KeysOf, Flattened
<1> HIDE DEF flat
<1>4. << >> \in X
  OBVIOUS
<1>5. \A q \in X, i \in 1 .. len : add(q, i) \in X
  <2> TAKE q \in X, i \in 1 .. len
  <2>1. PICK those : those = Those(s, keys(i))
    OBVIOUS
  <2>2. those \in Seq(S) /\ <<s[i]>> \in Seq(S)
    BY <1>2, <2>1, ThoseList
  <2>3. add(q, i) = IF i \in heads THEN q \o <<s[i]>> \o those ELSE q
    BY <2>1
  <2> HIDE DEF add, heads
  <2>4. q \o <<s[i]>> \o those \in Seq(S)
    BY <2>2
  <2> QED BY <2>3, <2>4
<1>6. \A f : Dumps(f) <=> f = [i \in 0 .. len |-> IF i = 0 THEN << >> ELSE add(f[i - 1], i)]
  OBVIOUS
<1> HIDE DEF X, len, add, heads, keys, Dumps
<1>7. step \in [X \X (1 .. len) -> X]
  BY <1>5
<1> HIDE DEF step
<1>8. PICK f \in [0 .. len -> X] : Recursive(f, len, << >>, step)
  BY <1>2, <1>4, <1>7, Recursion
<1>9. \A i \in 1 .. len : i - 1 \in 0 .. len /\ i \in 0 .. len /\ i # 0
  BY <1>2
<1>10. \A i \in 1 .. len : f[i] = add(f[i - 1], i)
  BY <1>8, <1>9 DEF step, Recursive
<1>11. \A i \in 0 .. len : i # 0 => i \in 1 .. len
  BY <1>2
<1>12. \A i \in 0 .. len : f[i] = IF i = 0 THEN << >> ELSE add(f[i - 1], i)
  BY <1>8, <1>10, <1>11 DEF Recursive
<1>13. f = [i \in 0 .. len |-> IF i = 0 THEN << >> ELSE add(f[i - 1], i)]
  BY <1>8, <1>12
<1>14. Dumps(text)
  <2>1. Dumps(f)
    BY <1>6, <1>13
  <2> QED BY <2>1
<1> HIDE DEF text
<1>15. text = [i \in 0 .. len |-> IF i = 0 THEN << >> ELSE add(text[i - 1], i)]
  BY <1>6, <1>14
<1>16. text[0] = << >>
  BY <1>2, <1>15
<1>17. \A i \in 1 .. len : text[i] = add(text[i - 1], i)
  BY <1>9, <1>15
<1>18. \A i \in 0 .. len : text[i] \in X
  <2>1. text[0] \in X
    BY <1>4, <1>16
  <2>2. \A i \in 1 .. len : text[i - 1] \in X => text[i] \in X
    BY <1>5, <1>17
  <2> QED BY <1>2, <2>1, <2>2, RecursionType, Zenon
<1>19. \A i \in 0 .. len : text[i] \in Seq(S)
  BY <1>18 DEF X
<1>20. \A i \in 1 .. len :
         text[i] = IF i \in Heads(s) THEN text[i - 1] \o <<s[i]>> \o Those(s, KeysOf(s, i))
                   ELSE text[i - 1]
  BY <1>3, <1>17 DEF add
<1>21. IsDumping(text, s)
  BY <1>1, <1>3, <1>16, <1>19, <1>20 DEF IsDumping, len
<1> QED BY <1>1, <1>3, <1>21

LEMMA DumpList ==
    ASSUME NEW s, IsList(s)
    PROVE  IsList(iniparser_dump_ini(s))
<1>1. CASE Heads(s) = {}
  <2> PICK used : used = Those(s, Occupied(s))
    OBVIOUS
  <2>1. Len(used) \in Nat
    BY ThoseList DEF IsList
  <2>2. iniparser_dump_ini(s) = Flattened(used)
    BY <1>1, DumpSteps
  <2> QED BY <2>1, <2>2, ListOf DEF Flattened
<1>2. CASE Heads(s) # {}
  <2>1. Len(s) \in 0 .. Len(s)
    BY ListElim
  <2>2. iniparser_dump_ini(s) \in Seq(ToSet(s))
    BY <1>2, <2>1, DumpSteps DEF IsDumping
  <2> QED BY <2>2, ListIntro
<1> QED BY <1>1, <1>2


-----------------------------------------------------------------------------
(* What a loaded table contains: the keys of the lines, each once.         *)

LEMMA NewContents == Unique(dictionary_new.slots) /\ Keyed(dictionary_new.slots)
                     /\ Keys(dictionary_new.slots) = {}
<1> DEFINE s == [i \in 1 .. DICTMINSZ |-> Empty]
<1>1. DICTMINSZ \in Nat
  BY DictionaryAssumption
<1>2. Occupied(s) = {}
  BY <1>1 DEF Occupied
<1>3. dictionary_new.slots = s
  BY DEF dictionary_new
<1> HIDE DEF s
<1> QED BY <1>2, <1>3 DEF Unique, Keyed, Keys

LEMMA SetContents ==
    ASSUME NEW U, NEW d \in TablesOf(U), Unique(d.slots), Keyed(d.slots),
           NEW k, IsKey(k), NEW v
    PROVE  /\ Unique(dictionary_set(d, k, v).slots) /\ Keyed(dictionary_set(d, k, v).slots)
           /\ Contents(dictionary_set(d, k, v).slots) = With(Contents(d.slots), k, v)
<1> PICK s : s = d.slots
  OBVIOUS
<1>1. Len(s) > 0 /\ d.n = Filled(s) /\ d = [slots |-> s, n |-> d.n] /\ IsList(s)
  BY ListIntro DEF TablesOf
<1>2. CASE At(s, k) # {}
  <2> PICK i : i = First(At(s, k))
    OBVIOUS
  <2>1. i \in Occupied(s) /\ s[i].key = k
    <3>1. At(s, k) \in SUBSET Nat
      BY <1>1, ListElim DEF At, Occupied
    <3>2. i \in At(s, k)
      BY <1>2, <3>1, FirstOf
    <3> QED BY <3>2 DEF At
  <2>2. dictionary_set(d, k, v).slots = Store(s, i, k, v)
    BY <1>1, <1>2 DEF dictionary_set
  <2> QED BY <1>1, <2>1, <2>2, StoreContents
<1>3. CASE At(s, k) = {}
  <2> PICK room : room = Room(s, d.n)
    OBVIOUS
  <2> PICK i : i = Probe(room, d.n)
    OBVIOUS
  <2>1. IsList(room) /\ Filled(room) = d.n /\ d.n < Len(room)
    BY <1>1, RoomLeft
  <2>2. /\ Unique(room) /\ Keyed(room) /\ Contents(room) = Contents(s)
        /\ At(room, k) = {}
    BY <1>1, <1>3, RoomContents
  <2>3. i \in Free(room)
    BY <2>1, SlotCount, ProbeFree
  <2>4. dictionary_set(d, k, v).slots = Store(room, i, k, v)
    BY <1>1, <1>3 DEF dictionary_set
  <2> QED BY <2>1, <2>2, <2>3, <2>4, StoreContents
<1> QED BY <1>2, <1>3

(* Lines that assign a key the same value whenever they assign it.         *)
Functional(lines) ==
    \A i, j \in 1 .. Len(lines) : lines[i].key = lines[j].key => lines[i].val = lines[j].val

(* The table d holds the first len of the lines.                           *)
Loaded(d, lines, len) ==
    /\ Unique(d.slots) /\ Keyed(d.slots)
    /\ DOMAIN Contents(d.slots) = {lines[i].key : i \in 1 .. len}
    /\ Functional(lines) =>
         \A i \in 1 .. len : Contents(d.slots)[lines[i].key] = Reread(lines[i].val)

LEMMA LoadedNext ==
    ASSUME NEW lines, IsText(lines), NEW len \in 1 .. Len(lines),
           NEW U, NEW d \in TablesOf(U), Loaded(d, lines, len - 1)
    PROVE  Loaded(dictionary_set(d, lines[len].key, Reread(lines[len].val)), lines, len)
<1> PICK k : k = lines[len].key
  OBVIOUS
<1> PICK v : v = Reread(lines[len].val)
  OBVIOUS
<1> PICK e : e = dictionary_set(d, k, v)
  OBVIOUS
<1> PICK m : m = Contents(d.slots)
  OBVIOUS
<1> PICK w : w = Contents(e.slots)
  OBVIOUS
<1>1. IsKey(k)
  BY DEF IsText
<1>2. Unique(e.slots) /\ Keyed(e.slots) /\ w = With(m, k, v)
  BY <1>1, SetContents DEF Loaded
<1>3. Len(lines) \in Nat
  BY ListElim DEF IsText, IsList
<1>4. DOMAIN w = DOMAIN m \cup {k} /\ \A x \in DOMAIN w : w[x] = IF x = k THEN v ELSE m[x]
  BY <1>2 DEF With
<1>5. 1 .. len = (1 .. len - 1) \cup {len}
  BY <1>3
<1>6. DOMAIN m = {lines[i].key : i \in 1 .. len - 1}
  BY DEF Loaded
<1>7. DOMAIN w = {lines[i].key : i \in 1 .. len}
  BY <1>4, <1>5, <1>6
<1>8. ASSUME Functional(lines), NEW i \in 1 .. len
      PROVE  w[lines[i].key] = Reread(lines[i].val)
  <2>1. lines[i].key \in DOMAIN w
    BY <1>7
  <2>2. CASE lines[i].key = k
    <3>1. i \in 1 .. Len(lines)
      BY <1>3
    <3>2. lines[i].val = lines[len].val
      BY <1>8, <2>2, <3>1 DEF Functional
    <3> QED BY <1>4, <2>1, <2>2, <3>2
  <2>3. CASE lines[i].key # k
    <3>1. i \in 1 .. len - 1
      BY <1>5, <2>3
    <3>2. m[lines[i].key] = Reread(lines[i].val)
      BY <1>8, <3>1 DEF Loaded
    <3> QED BY <1>4, <2>1, <2>3, <3>2
  <2> QED BY <2>2, <2>3
<1> QED BY <1>2, <1>7, <1>8 DEF Loaded

LEMMA LoadContents ==
    ASSUME NEW lines, IsText(lines)
    PROVE  /\ IsList(iniparser_load(lines).slots) /\ Len(iniparser_load(lines).slots) > 0
           /\ Loaded(iniparser_load(lines), lines, Len(lines))
<1>1. IsList(lines) /\ Len(lines) \in Nat
  BY ListElim DEF IsText, IsList
<1>2. PICK load, U : IsLoading(load, lines, U)
  BY <1>1, LoadSteps
<1> DEFINE P == {i \in 0 .. Len(lines) : Loaded(load[i], lines, i)}
<1>3. 0 \in P
  <2>1. load[0] = dictionary_new /\ DOMAIN Contents(dictionary_new.slots) = {}
    BY <1>2, NewContents DEF IsLoading, Contents
  <2>2. {lines[i].key : i \in 1 .. 0} = {} /\ 1 .. 0 = {}
    OBVIOUS
  <2> QED BY <1>1, <2>1, <2>2, NewContents DEF Loaded
<1>4. \A i \in 1 .. Len(lines) : i - 1 \in P => i \in P
  <2> SUFFICES ASSUME NEW i \in 1 .. Len(lines), i - 1 \in P PROVE i \in P
    OBVIOUS
  <2>1. i - 1 \in 0 .. Len(lines) /\ i \in 0 .. Len(lines) /\ Loaded(load[i - 1], lines, i - 1)
    BY <1>1
  <2>2. /\ load[i - 1] \in TablesOf(U)
        /\ load[i] = dictionary_set(load[i - 1], lines[i].key, Reread(lines[i].val))
    BY <1>2, <2>1 DEF IsLoading
  <2>3. Loaded(load[i], lines, i)
    BY <2>1, <2>2, LoadedNext
  <2> QED BY <2>1, <2>3
<1> HIDE DEF P
<1>5. 0 .. Len(lines) \subseteq P /\ Len(lines) \in 0 .. Len(lines)
  <2> PICK len : len = Len(lines)
    OBVIOUS
  <2>1. len \in Nat /\ 0 \in P /\ \A i \in 1 .. len : i - 1 \in P => i \in P
    BY <1>1, <1>3, <1>4
  <2>2. 0 .. len \subseteq P
    BY <2>1, Counting
  <2> QED BY <2>1, <2>2
<1>6. Loaded(load[Len(lines)], lines, Len(lines)) /\ load[Len(lines)] \in TablesOf(U)
  BY <1>2, <1>5 DEF P, IsLoading
<1>7. iniparser_load(lines) = load[Len(lines)]
  BY <1>2 DEF IsLoading
<1> QED BY <1>6, <1>7, ListIntro DEF TablesOf

-----------------------------------------------------------------------------
(* What is dumped of a table: the entries whose section has an entry, or,  *)
(* if no section has one, all entries, made flat.                          *)

LEMMA ElementsAppended ==
    ASSUME NEW S, NEW q \in Seq(S), NEW e
    PROVE  ToSet(Append(q, e)) = ToSet(q) \cup {e}
<1>1. Len(q) \in Nat /\ DOMAIN q = 1 .. Len(q)
  OBVIOUS
<1> PICK T : T = S \cup {e}
  OBVIOUS
<1>2. q \in Seq(T) /\ e \in T
  OBVIOUS
<1> PICK p : p = Append(q, e)
  OBVIOUS
<1>3. DOMAIN p = 1 .. Len(q) + 1 /\ p[Len(q) + 1] = e /\ \A i \in 1 .. Len(q) : p[i] = q[i]
  BY <1>1, <1>2
<1>4. DOMAIN p = DOMAIN q \cup {Len(q) + 1}
  BY <1>1, <1>3
<1> QED BY <1>1, <1>3, <1>4 DEF ToSet

LEMMA ElementsJoined ==
    ASSUME NEW S, NEW q \in Seq(S), NEW r \in Seq(S)
    PROVE  ToSet(q \o r) = ToSet(q) \cup ToSet(r)
<1>1. /\ Len(q) \in Nat /\ DOMAIN q = 1 .. Len(q)
      /\ Len(r) \in Nat /\ DOMAIN r = 1 .. Len(r)
  OBVIOUS
<1> PICK p : p = q \o r
  OBVIOUS
<1>2. /\ DOMAIN p = 1 .. Len(q) + Len(r)
      /\ \A i \in 1 .. Len(q) : p[i] = q[i]
      /\ \A i \in 1 .. Len(r) : p[Len(q) + i] = r[i]
  BY <1>1
<1>3. \A x \in ToSet(p) : x \in ToSet(q) \cup ToSet(r)
  <2> TAKE x \in ToSet(p)
  <2>1. PICK i \in 1 .. Len(q) + Len(r) : x = p[i]
    BY <1>2 DEF ToSet
  <2>2. CASE i <= Len(q)
    <3>1. i \in 1 .. Len(q)
      BY <1>1, <2>2
    <3> QED BY <1>1, <1>2, <2>1, <3>1 DEF ToSet
  <2>3. CASE ~(i <= Len(q))
    <3>1. i - Len(q) \in 1 .. Len(r) /\ Len(q) + (i - Len(q)) = i
      BY <1>1, <2>3
    <3>2. p[i] = r[i - Len(q)]
      BY <1>2, <3>1
    <3> QED BY <1>1, <2>1, <3>1, <3>2 DEF ToSet
  <2> QED BY <2>2, <2>3
<1>4. \A x \in ToSet(q) : x \in ToSet(p)
  <2> TAKE x \in ToSet(q)
  <2>1. PICK i \in 1 .. Len(q) : x = q[i]
    BY <1>1 DEF ToSet
  <2>2. i \in DOMAIN p /\ p[i] = x
    BY <1>1, <1>2, <2>1
  <2> QED BY <2>2 DEF ToSet
<1>5. \A x \in ToSet(r) : x \in ToSet(p)
  <2> TAKE x \in ToSet(r)
  <2>1. PICK i \in 1 .. Len(r) : x = r[i]
    BY <1>1 DEF ToSet
  <2>2. Len(q) + i \in DOMAIN p /\ p[Len(q) + i] = x
    BY <1>1, <1>2, <2>1
  <2> QED BY <2>2 DEF ToSet
<1> QED BY <1>3, <1>4, <1>5

LEMMA NoElements == ToSet(<< >>) = {}
BY DEF ToSet

LEMMA Appended ==
    ASSUME NEW S, NEW p \in Seq(S), NEW e \in S
    PROVE  p \o <<e>> = Append(p, e)
<1> PICK q : q = <<e>>
  OBVIOUS
<1>1. q \in Seq(S)
  OBVIOUS
<1>2. Len(q) = 1 /\ q[1] = e
  OBVIOUS
<1>3. p \o q \in Seq(S) /\ Len(p \o q) = Len(p) + Len(q)
  BY <1>1
<1>4. Append(p, e) \in Seq(S) /\ Len(Append(p, e)) = Len(p) + 1 /\ Len(p) \in Nat
  OBVIOUS
<1>5. \A i \in 1 .. Len(p) + 1 : (p \o q)[i] = Append(p, e)[i]
  <2> TAKE i \in 1 .. Len(p) + 1
  <2>1. CASE i \in 1 .. Len(p)
    BY <1>1, <2>1
  <2>2. CASE i = Len(p) + 1
    <3>1. (p \o q)[i] = q[1]
      BY <1>1, <1>2, <1>4, <2>2
    <3> QED BY <1>2, <1>4, <2>2, <3>1
  <2> QED BY <1>4, <2>1, <2>2
<1>6. p \o q = Append(p, e)
  BY <1>2, <1>3, <1>4, <1>5
<1> QED BY <1>6

LEMMA ElementsBetween ==
    ASSUME NEW S, NEW q \in Seq(S), NEW e \in S, NEW r \in Seq(S)
    PROVE  ToSet(q \o <<e>> \o r) = (ToSet(q) \cup {e}) \cup ToSet(r)
<1>1. q \o <<e>> = Append(q, e)
  BY Appended
<1>2. PICK p : p = Append(q, e)
  OBVIOUS
<1>3. p \in Seq(S)
  BY <1>2
<1>4. ToSet(p) = ToSet(q) \cup {e}
  BY <1>2, ElementsAppended
<1>5. ToSet(p \o r) = ToSet(p) \cup ToSet(r)
  BY <1>3, ElementsJoined, Zenon
<1>6. q \o <<e>> \o r = p \o r
  BY <1>1, <1>2, Zenon
<1> QED BY <1>4, <1>5, <1>6, Zenon

LEMMA ThoseElements ==
    ASSUME NEW s, IsList(s), NEW I
    PROVE  ToSet(Those(s, I)) = {s[i] : i \in (1 .. Len(s)) \cap I}
<1>1. s \in Seq(ToSet(s)) /\ Len(s) \in Nat
  BY ListElim DEF IsList
<1> PICK len : len = Len(s)
  OBVIOUS
<1>2. PICK those : IsThose(those, s, I, ToSet(s))
  BY <1>1, ThoseSteps
<1> DEFINE upto(i) == {s[j] : j \in (1 .. i) \cap I}
           P == {i \in 0 .. len : ToSet(those[i]) = upto(i)}
<1>3. 0 \in P
  <2>1. upto(0) = {}
    OBVIOUS
  <2>2. ToSet(those[0]) = {}
    BY <1>2, NoElements DEF IsThose
  <2>3. 0 \in 0 .. len /\ ToSet(those[0]) = upto(0)
    <3> HIDE DEF upto
    <3> QED BY <1>1, <2>1, <2>2
  <2> QED BY <2>3
<1>4. ASSUME NEW i \in 1 .. len, i - 1 \in P
      PROVE  i \in P
  <2>1. /\ i \in 0 .. len /\ i - 1 \in 0 .. len /\ 1 .. i = (1 .. i - 1) \cup {i}
        /\ ToSet(those[i - 1]) = upto(i - 1)
    BY <1>1, <1>4
  <2>2. /\ those[i - 1] \in Seq(ToSet(s))
        /\ those[i] = IF i \in I THEN Append(those[i - 1], s[i]) ELSE those[i - 1]
    BY <1>2, <2>1 DEF IsThose
  <2>3. CASE i \in I
    <3>1. ToSet(those[i]) = ToSet(those[i - 1]) \cup {s[i]}
      BY <2>2, <2>3, ElementsAppended
    <3>2. upto(i) = upto(i - 1) \cup {s[i]}
      BY <2>1, <2>3
    <3> HIDE DEF upto
    <3> QED BY <2>1, <3>1, <3>2
  <2>4. CASE i \notin I
    <3>1. upto(i) = upto(i - 1)
      BY <2>1, <2>4
    <3> HIDE DEF upto
    <3> QED BY <2>1, <2>2, <2>4, <3>1
  <2> QED BY <2>3, <2>4
<1>5. len \in P
  <2> HIDE DEF P
  <2>1. 0 .. len \subseteq P
    BY <1>1, <1>3, <1>4, Counting
  <2> QED BY <1>1, <2>1
<1> QED BY <1>2, <1>5 DEF IsThose

(* The entries a table is dumped to, section by section.                   *)
Dumped(s, i) ==
    {s[j] : j \in {x \in Occupied(s) : \E h \in Heads(s) : h <= i /\ (x = h \/ x \in KeysOf(s, h))}}

LEMMA DumpElements ==
    ASSUME NEW s, IsList(s), Heads(s) # {}
    PROVE  ToSet(iniparser_dump_ini(s)) =
             {s[j] : j \in {x \in Occupied(s) : \E h \in Heads(s) : s[x].key.sec = s[h].key.sec}}
<1>1. s \in Seq(ToSet(s)) /\ Len(s) \in Nat /\ Heads(s) \subseteq Occupied(s)
      /\ Occupied(s) \subseteq 1 .. Len(s) /\ \A h : KeysOf(s, h) \subseteq Occupied(s)
  BY ListElim DEF IsList, Heads, Occupied, KeysOf
<1> PICK len : len = Len(s)
  OBVIOUS
<1>2. PICK text : IsDumping(text, s)
  BY DumpSteps
<1> DEFINE P == {i \in 0 .. len : ToSet(text[i]) = Dumped(s, i)}
<1>3. 0 \in P
  <2>1. Dumped(s, 0) = {}
    BY <1>1 DEF Dumped
  <2>2. ToSet(text[0]) = {}
    BY <1>2, NoElements DEF IsDumping
  <2>3. 0 \in 0 .. len
    BY <1>1
  <2> QED BY <2>1, <2>2, <2>3
<1>4. ASSUME NEW i \in 1 .. len, i - 1 \in P
      PROVE  i \in P
  <2>1. /\ i \in 0 .. len /\ i - 1 \in 0 .. len
        /\ ToSet(text[i - 1]) = Dumped(s, i - 1)
    BY <1>1, <1>4
  <2>2. /\ text[i - 1] \in Seq(ToSet(s))
        /\ text[i] = IF i \in Heads(s) THEN text[i - 1] \o <<s[i]>> \o Those(s, KeysOf(s, i))
                     ELSE text[i - 1]
    BY <1>2, <2>1 DEF IsDumping
  <2>3. \A h \in Heads(s) : h <= i <=> h <= i - 1 \/ h = i
    BY <1>1
  <2>4. CASE i \in Heads(s)
    <3> PICK those : those = Those(s, KeysOf(s, i))
      OBVIOUS
    <3>1. those \in Seq(ToSet(s)) /\ ToSet(those) = {s[j] : j \in KeysOf(s, i)}
      <4>1. (1 .. Len(s)) \cap KeysOf(s, i) = KeysOf(s, i)
        BY <1>1
      <4> QED BY <1>1, <4>1, ThoseList, ThoseElements
    <3>2. PICK q : q = text[i - 1]
      OBVIOUS
    <3>3. PICK e : e = s[i]
      OBVIOUS
    <3>4. text[i] = q \o <<e>> \o those /\ q \in Seq(ToSet(s)) /\ e \in ToSet(s)
      BY <1>1, <2>2, <2>4, <3>2, <3>3, ListElim
    <3>5. ToSet(text[i]) = (ToSet(q) \cup {e}) \cup ToSet(those)
      <4>0. PICK S : S = ToSet(s)
        OBVIOUS
      <4>1. those \in Seq(S) /\ q \in Seq(S) /\ e \in S
        BY <3>1, <3>4, <4>0
      <4>2. \A r \in Seq(S) : ToSet(q \o <<e>> \o r) = (ToSet(q) \cup {e}) \cup ToSet(r)
        <5>1. q \in Seq(S)
          BY <4>1
        <5>2. e \in S
          BY <4>1
        <5> QED BY <5>1, <5>2, ElementsBetween
      <4>3. text[i] = q \o <<e>> \o those
        BY <3>4
      <4> QED BY <4>1, <4>2, <4>3, Zenon
    <3>6. Dumped(s, i) = (Dumped(s, i - 1) \cup {s[i]}) \cup {s[j] : j \in KeysOf(s, i)}
      BY <1>1, <2>3, <2>4 DEF Dumped
    <3> QED BY <2>1, <3>1, <3>2, <3>3, <3>5, <3>6
  <2>5. CASE i \notin Heads(s)
    <3>1. Dumped(s, i) = Dumped(s, i - 1)
      BY <2>3, <2>5 DEF Dumped
    <3> QED BY <2>1, <2>2, <2>5, <3>1
  <2> QED BY <2>4, <2>5
<1>5. len \in P
  <2> HIDE DEF P
  <2>1. 0 .. len \subseteq P
    BY <1>1, <1>3, <1>4, Counting
  <2> QED BY <1>1, <2>1
<1>6. ToSet(iniparser_dump_ini(s)) = Dumped(s, len)
  BY <1>2, <1>5 DEF IsDumping
<1>7. \A h \in Heads(s) : h <= len
  BY <1>1
<1>8. ASSUME NEW x \in Occupied(s)
      PROVE  (\E h \in Heads(s) : h <= len /\ (x = h \/ x \in KeysOf(s, h)))
               <=> \E h \in Heads(s) : s[x].key.sec = s[h].key.sec
  BY <1>7 DEF KeysOf
<1> QED BY <1>6, <1>8 DEF Dumped

LEMMA FlatElements ==
    ASSUME NEW s, IsList(s), Heads(s) = {}
    PROVE  ToSet(iniparser_dump_ini(s)) =
             {Entry(Flat(s[j].key), s[j].val) : j \in Occupied(s)}
<1> PICK used : used = Those(s, Occupied(s))
  OBVIOUS
<1>1. used \in Seq(ToSet(s)) /\ DOMAIN used = 1 .. Len(used)
  <2>1. s \in Seq(ToSet(s))
    BY DEF IsList
  <2>2. used \in Seq(ToSet(s))
    BY <2>1, ThoseList
  <2> QED BY <2>2
<1>2. ToSet(used) = {s[j] : j \in Occupied(s)}
  <2>1. (1 .. Len(s)) \cap Occupied(s) = Occupied(s)
    BY DEF Occupied
  <2> QED BY <2>1, ThoseElements
<1>3. {used[i] : i \in 1 .. Len(used)} = {s[j] : j \in Occupied(s)}
  BY <1>1, <1>2 DEF ToSet
<1>4. ToSet(Flattened(used)) = {Entry(Flat(used[i].key), used[i].val) : i \in 1 .. Len(used)}
  BY DEF ToSet, Flattened
<1>5. iniparser_dump_ini(s) = Flattened(used)
  BY DumpSteps
<1>6. ASSUME NEW i \in 1 .. Len(used)
      PROVE  \E j \in Occupied(s) : used[i] = s[j]
  BY <1>3
<1>7. ASSUME NEW j \in Occupied(s)
      PROVE  \E i \in 1 .. Len(used) : used[i] = s[j]
  <2>1. s[j] \in {used[i] : i \in 1 .. Len(used)}
    BY <1>3
  <2> QED BY <2>1
<1> QED BY <1>4, <1>5, <1>6, <1>7

-----------------------------------------------------------------------------
(* What is read back of a table that is saved.                             *)

LEMMA ElementsAre ==
    ASSUME NEW lines, IsList(lines)
    PROVE  /\ \A i \in 1 .. Len(lines) : lines[i] \in ToSet(lines)
           /\ \A e \in ToSet(lines) : \E i \in 1 .. Len(lines) : e = lines[i]
BY ListElim DEF ToSet

(* A map that is given by its pairs: each key and value.                   *)
LEMMA LoadElements ==
    ASSUME NEW lines, IsList(lines), \A e \in ToSet(lines) : IsKey(e.key),
           \A e, f \in ToSet(lines) : e.key = f.key => e.val = f.val
    PROVE  /\ IsText(lines)
           /\ DOMAIN Contents(iniparser_load(lines).slots) = {e.key : e \in ToSet(lines)}
           /\ \A e \in ToSet(lines) :
                Contents(iniparser_load(lines).slots)[e.key] = Reread(e.val)
<1>1. IsText(lines)
  BY ElementsAre DEF IsText, IsList
<1>2. Functional(lines)
  BY ElementsAre DEF Functional
<1> PICK m : m = Contents(iniparser_load(lines).slots)
  OBVIOUS
<1>3. /\ DOMAIN m = {lines[i].key : i \in 1 .. Len(lines)}
      /\ \A i \in 1 .. Len(lines) : m[lines[i].key] = Reread(lines[i].val)
  BY <1>1, <1>2, LoadContents DEF Loaded
<1>4. {lines[i].key : i \in 1 .. Len(lines)} = {e.key : e \in ToSet(lines)}
  BY ElementsAre
<1>5. \A e \in ToSet(lines) : m[e.key] = Reread(e.val)
  BY <1>3, ElementsAre
<1> QED BY <1>1, <1>3, <1>4, <1>5

(* A saved table is a text, and reading it back makes the saved map.       *)
LEMMA SavedContents ==
    ASSUME NEW s, IsList(s), Unique(s), Keyed(s)
    PROVE  /\ IsText(iniparser_dump_ini(s))
           /\ Contents(iniparser_load(iniparser_dump_ini(s)).slots) = Storage!Saved(Contents(s))
<1> PICK lines : lines = iniparser_dump_ini(s)
  OBVIOUS
<1> PICK m : m = Contents(s)
  OBVIOUS
<1> PICK c : c = Contents(iniparser_load(lines).slots)
  OBVIOUS
<1>1. IsList(lines)
  BY DumpList
<1>2. /\ DOMAIN m = Keys(s)
      /\ \A j \in Occupied(s) : s[j].key \in Keys(s) /\ m[s[j].key] = s[j].val
  BY ContentsAre DEF Contents
<1>3. \A j, l \in Occupied(s) : s[j].key = s[l].key => s[j].val = s[l].val
  BY DEF Unique
<1>4. c = [k \in DOMAIN c |-> c[k]]
  BY DEF Contents
<1>5. Storage!Sections(m) = {s[h].key.sec : h \in Heads(s)}
  <2>1. {h \in DOMAIN m : h.field = NoField} = {s[h].key : h \in Heads(s)}
    BY <1>2 DEF Keys, Heads
  <2>2. Storage!Sections(m) = {k.sec : k \in {s[h].key : h \in Heads(s)}}
    BY <2>1 DEF Storage!Sections
  <2> QED BY <2>2
<1>6. CASE Heads(s) # {}
  <2> PICK J : J = {x \in Occupied(s) : \E h \in Heads(s) : s[x].key.sec = s[h].key.sec}
    OBVIOUS
  <2>1. ToSet(lines) = {s[j] : j \in J} /\ J \subseteq Occupied(s)
    BY <1>6, DumpElements
  <2>2. \A e \in ToSet(lines) : IsKey(e.key)
    BY <2>1 DEF Keyed
  <2>3. \A e, f \in ToSet(lines) : e.key = f.key => e.val = f.val
    BY <2>1, <1>3
  <2>4. /\ IsText(lines) /\ DOMAIN c = {e.key : e \in ToSet(lines)}
        /\ \A e \in ToSet(lines) : c[e.key] = Reread(e.val)
    BY <1>1, <2>2, <2>3, LoadElements
  <2>5. DOMAIN c = {s[j].key : j \in J} /\ \A j \in J : c[s[j].key] = Reread(m[s[j].key])
    BY <1>2, <2>1, <2>4
  <2>6. {x \in DOMAIN m : x.sec \in Storage!Sections(m)} = {s[j].key : j \in J}
    BY <1>2, <1>5 DEF Keys
  <2>7. Storage!Sections(m) # {}
    BY <1>5, <1>6
  <2>8. Storage!Saved(m) = [k \in {s[j].key : j \in J} |-> Reread(m[k])]
    BY <2>6, <2>7 DEF Storage!Saved
  <2>9. \A k \in DOMAIN c : c[k] = Reread(m[k])
    BY <2>5
  <2>10. c = Storage!Saved(m)
    BY <1>4, <2>5, <2>8, <2>9
  <2> QED BY <2>4, <2>10
<1>7. CASE Heads(s) = {}
  <2> DEFINE plain(j) == Entry(Flat(s[j].key), s[j].val)
             back(f) == [sec |-> f.sec.flat, field |-> f.field]
  <2>1. ToSet(lines) = {plain(j) : j \in Occupied(s)}
    BY <1>7, FlatElements
  <2>2. \A j \in Occupied(s) : plain(j).key = Flat(s[j].key) /\ plain(j).val = s[j].val
    BY DEF Entry
  <2>3. \A j \in Occupied(s) : back(Flat(s[j].key)) = s[j].key
    BY DEF Flat, Keyed, IsKey
  <2>4. \A j \in Occupied(s) : IsKey(Flat(s[j].key))
    BY DEF Flat, IsKey
  <2>5. \A e \in ToSet(lines) : IsKey(e.key)
    BY <2>1, <2>2, <2>4
  <2> HIDE DEF back
  <2>6. \A e, f \in ToSet(lines) : e.key = f.key => e.val = f.val
    <3> TAKE e, f \in ToSet(lines)
    <3>1. PICK i \in Occupied(s) : e = plain(i)
      BY <2>1
    <3>2. PICK j \in Occupied(s) : f = plain(j)
      BY <2>1
    <3>3. e.key = f.key => s[i].key = s[j].key
      BY <2>2, <2>3, <3>1, <3>2
    <3> QED BY <1>3, <2>2, <3>1, <3>2, <3>3
  <2>7. /\ IsText(lines) /\ DOMAIN c = {e.key : e \in ToSet(lines)}
        /\ \A e \in ToSet(lines) : c[e.key] = Reread(e.val)
    BY <1>1, <2>5, <2>6, LoadElements
  <2> HIDE DEF plain
  <2>8. DOMAIN c = {Flat(s[j].key) : j \in Occupied(s)}
    BY <2>1, <2>2, <2>7
  <2>9. \A j \in Occupied(s) : c[Flat(s[j].key)] = Reread(s[j].val)
    BY <2>1, <2>2, <2>7
  <2>10. DOMAIN c = {Flat(k) : k \in DOMAIN m}
    BY <1>2, <2>8 DEF Keys
  <2>11. Storage!Sections(m) = {}
    BY <1>5, <1>7
  <2>12. Storage!Saved(m) = [f \in {Flat(k) : k \in DOMAIN m} |-> Reread(m[back(f)])]
    BY <2>11 DEF Storage!Saved, Storage!Flat, Flat, back
  <2>13. \A f \in DOMAIN c : c[f] = Reread(m[back(f)])
    <3> TAKE f \in DOMAIN c
    <3>1. PICK j \in Occupied(s) : f = Flat(s[j].key)
      BY <2>8
    <3> QED BY <1>2, <2>3, <2>9, <3>1
  <2>14. c = Storage!Saved(m)
    BY <1>4, <2>10, <2>12, <2>13
  <2> QED BY <2>7, <2>14
<1> QED BY <1>6, <1>7
-----------------------------------------------------------------------------
(* The invariant.                                                          *)

(* A call, and the calls a thread has still to make.                       *)
WellMade(c) ==
    /\ IsKey(c.key)
    /\ c.fn = "cp" => c.val \in {Factory, Import}
    /\ c.fn = "get_user_num" => c.val \in Int
Calling(s) == IsList(s) /\ \A i \in 1 .. Len(s) : WellMade(s[i])

Shape ==
    /\ IsList(slots)
    /\ g_ini_d_ = "ok" => Len(slots) > 0 /\ power # "off"
    /\ g_ini_d_ # "ok" => slots = << >> /\ n = 0
    /\ g_ini_d_ = "freed" => power = "off" /\ \A x \in Threads : todo[x] = << >>

Readable(text) == text = Unreadable \/ IsList(text)

(* No two threads are inside; a thread that is has calls to make.  Clients *)
(* work while the power is on, main at boot and at the end.                *)
OneInside == \A x, y \in Threads : pc[x] # "idle" /\ pc[y] # "idle" => x = y
Orders ==
    /\ DOMAIN todo = Threads
    /\ \A x \in Threads : Calling(todo[x]) /\ (pc[x] # "idle" => todo[x] # << >>)
Powered ==
    /\ power # "on" => \A c \in Clients : todo[c] = << >>
    /\ power = "on" => todo[Main] = << >>

(* What d->n is in the course of a call.                                   *)
Probing(x) == call(x).fn \in Setters /\ n = Filled(slots) /\ n < Len(slots)
CountDue(x) ==
    IF call(x).fn = "iniparser_unset" THEN Filled(slots) = n - 1 ELSE Filled(slots) = n + 1
Counted(x) ==
    /\ pc[x] = "probe" => g_ini_d_ = "ok" /\ Probing(x)
    /\ pc[x] = "count" => g_ini_d_ = "ok" /\ CountDue(x)
    /\ pc[x] = "write" => g_ini_d_ = "ok" /\ count[x] = Filled(slots)
    /\ pc[x] = "fill" => call(x).fn \in {"rk_param_save", "cp"}
Settled == (\A x \in Threads : pc[x] \notin {"count", "write"}) => n = Filled(slots)

ParamInv ==
    /\ TypeOK /\ Shape /\ Readable(file)
    /\ OneInside /\ Orders /\ Powered
    /\ \A x \in Threads : Counted(x)
    /\ Settled


-----------------------------------------------------------------------------
(* The invariant of the refinement: no key is stored twice, the key that   *)
(* is about to be stored is not there, and, unless the file is being       *)
(* written, kept is what a boot finds in it.                               *)
Writing == \E x \in Threads : pc[x] = "fill"
Distinct ==
    /\ Unique(slots) /\ Keyed(slots)
    /\ \A x \in Threads : pc[x] = "probe" => At(slots, call(x).key) = {}
OnDisk ==
    /\ file # Unreadable => IsText(file)
    /\ ~Writing => kept = Map(file)
StoreInv ==
    /\ Distinct /\ OnDisk
LEMMA EmptyTable == IsList(<< >>) /\ Len(<< >>) = 0 /\ Filled(<< >>) = 0
<1>1. << >> \in Seq({}) /\ Len(<< >>) = 0
  OBVIOUS
<1>2. IsList(<< >>)
  BY <1>1, ListIntro
<1>3. Occupied(<< >>) = {}
  BY <1>1 DEF Occupied
<1> QED BY <1>1, <1>2, <1>3, FS_EmptySet DEF Filled

(* What a crash leaves of a text is empty, unreadable, or a shorter list.  *)
LEMMA FragmentsReadable ==
    ASSUME NEW lines, IsList(lines), NEW text \in Fragments(lines)
    PROVE  Readable(text)
<1> DEFINE part(k) == SubSeq(lines, 1, k)
           cut(k) == [part(k) EXCEPT ![k] = Entry(lines[k].key, Torn)]
<1>1. /\ Len(lines) \in Nat /\ lines \in Seq(ToSet(lines))
  BY ListElim DEF IsList
<1>2. \A k \in 0 .. Len(lines) : part(k) \in Seq(ToSet(lines)) /\ Len(part(k)) = k
  BY <1>1
<1>3. text = Unreadable \/ (\E k \in 0 .. Len(lines) : text = part(k))
      \/ (\E k \in 1 .. Len(lines) : text = cut(k))
  BY DEF Fragments
<1>4. ASSUME NEW k \in 0 .. Len(lines), text = part(k)
      PROVE  IsList(text)
  <2> HIDE DEF part
  <2> QED BY <1>2, <1>4, ListIntro
<1>5. ASSUME NEW k \in 1 .. Len(lines), text = cut(k)
      PROVE  IsList(text)
  <2>1. part(k) \in Seq(ToSet(lines)) /\ Len(part(k)) = k /\ k \in Nat
    BY <1>1, <1>2
  <2> HIDE DEF part
  <2>2. cut(k) = [i \in 1 .. k |-> IF i = k THEN Entry(lines[k].key, Torn) ELSE part(k)[i]]
    <3> PICK p : p = part(k)
      OBVIOUS
    <3> PICK e : e = Entry(lines[k].key, Torn)
      OBVIOUS
    <3>1. DOMAIN p = 1 .. k
      BY <2>1
    <3>2. cut(k) = [p EXCEPT ![k] = e]
      OBVIOUS
    <3> QED BY <3>1, <3>2
  <2> HIDE DEF cut
  <2>3. cut(k) = [i \in 1 .. k |-> cut(k)[i]]
    BY <2>2
  <2> QED BY <1>5, <2>1, <2>3, ListOf
<1> QED BY <1>3, <1>4, <1>5 DEF Readable

LEMMA CallingElim ==
    ASSUME NEW s, Calling(s), s # << >>
    PROVE  WellMade(Head(s)) /\ Calling(Tail(s))
<1>1. s \in Seq(ToSet(s)) /\ Len(s) \in Nat /\ Len(s) # 0
  BY ListElim DEF Calling, IsList
<1>2. Head(s) = s[1] /\ 1 \in 1 .. Len(s)
  BY <1>1
<1>3. Tail(s) \in Seq(ToSet(s)) /\ Len(Tail(s)) = Len(s) - 1
  BY <1>1
<1>4. \A i \in 1 .. Len(Tail(s)) : Tail(s)[i] = s[i + 1] /\ i + 1 \in 1 .. Len(s)
  BY <1>1, <1>3
<1>5. IsList(Tail(s))
  BY <1>3, ListIntro
<1> QED BY <1>2, <1>4, <1>5 DEF Calling

LEMMA NoCalls == Calling(<< >>)
<1>1. Len(<< >>) = 0
  OBVIOUS
<1> QED BY <1>1, EmptyTable DEF Calling

LEMMA OneCall ==
    ASSUME NEW c, WellMade(c)
    PROVE  Calling(<<c>>)
<1>1. <<c>> \in Seq({c}) /\ Len(<<c>>) = 1 /\ <<c>>[1] = c
  OBVIOUS
<1>2. IsList(<<c>>)
  BY <1>1, ListIntro
<1> QED BY <1>1, <1>2 DEF Calling

LEMMA MoreCalls ==
    ASSUME NEW s, Calling(s), NEW r, Calling(r)
    PROVE  Calling(s \o r)
<1>1. s \in Seq(ToSet(s) \cup ToSet(r)) /\ r \in Seq(ToSet(s) \cup ToSet(r))
  <2> DEFINE S == ToSet(s)
             R == ToSet(r)
  <2>1. s \in Seq(S) /\ r \in Seq(R)
    BY DEF Calling, IsList
  <2> HIDE DEF S, R
  <2>2. s \in Seq(S \cup R) /\ r \in Seq(S \cup R)
    BY <2>1
  <2> QED BY <2>2 DEF S, R
<1> PICK U : U = ToSet(s) \cup ToSet(r)
  OBVIOUS
<1>2. s \o r \in Seq(U) /\ Len(s \o r) = Len(s) + Len(r) /\ Len(s) \in Nat /\ Len(r) \in Nat
  BY <1>1
<1>3. IsList(s \o r)
  BY <1>2, ListIntro
<1>4. \A i \in 1 .. Len(s \o r) : WellMade((s \o r)[i])
  <2> TAKE i \in 1 .. Len(s \o r)
  <2>1. CASE i <= Len(s)
    <3>1. (s \o r)[i] = s[i] /\ i \in 1 .. Len(s)
      BY <1>1, <1>2, <2>1
    <3> QED BY <3>1 DEF Calling
  <2>2. CASE ~(i <= Len(s))
    <3>1. (s \o r)[i] = r[i - Len(s)] /\ i - Len(s) \in 1 .. Len(r)
      BY <1>1, <1>2, <2>2
    <3> QED BY <3>1 DEF Calling
  <2> QED BY <2>1, <2>2
<1> QED BY <1>3, <1>4 DEF Calling

-----------------------------------------------------------------------------
(* Threads: what a step of a call does to them.                            *)
Alone(t) == \A x \in Threads : x # t => pc[x] = "idle"

(* Without a race, only one thread is inside at a time.                    *)
LEMMA EntersAlone ==
    ASSUME "race" \notin Faults, NEW t \in Threads, NEW fns, Enters(t, fns)
    PROVE  Alone(t) /\ pc[t] = "idle" /\ todo[t] # << >> /\ call(t).fn \in fns
BY DEF Enters, MayEnter, Inside, Alone, Calls, call

LEMMA InsideAlone ==
    ASSUME OneInside, Orders, NEW t \in Threads, pc[t] # "idle"
    PROVE  Alone(t) /\ todo[t] # << >>
BY DEF OneInside, Orders, Alone

(* The threads and their calls after a step.                               *)
ThreadsWell ==
    /\ g_param_mutex \in Threads \cup {None}
    /\ power \in {"off", "on", "end"}
    /\ pc \in [Threads -> {"idle", "probe", "count", "write", "fill"}]
    /\ OneInside /\ Orders /\ Powered

LEMMA ReturnsWell ==
    ASSUME ThreadsWell, NEW t \in Threads, Alone(t), todo[t] # << >>,
           Return(t), power' = power
    PROVE  ThreadsWell' /\ \A x \in Threads : pc'[x] = "idle"
<1>1. /\ pc' = [pc EXCEPT ![t] = "idle"] /\ todo' = [todo EXCEPT ![t] = Tail(@)]
      /\ g_param_mutex' \in {None, g_param_mutex}
  BY DEF Return
<1>2. /\ pc \in [Threads -> {"idle", "probe", "count", "write", "fill"}]
      /\ DOMAIN todo = Threads
  BY DEF ThreadsWell, Orders
<1>3. pc' \in [Threads -> {"idle", "probe", "count", "write", "fill"}]
  BY <1>1, <1>2
<1>4. \A x \in Threads : pc'[x] = "idle"
  BY <1>1, <1>2 DEF Alone
<1>5. OneInside'
  BY <1>4 DEF OneInside
<1>6. Calling(Tail(todo[t]))
  BY CallingElim DEF ThreadsWell, Orders
<1>7. \A x \in Threads : todo'[x] = IF x = t THEN Tail(todo[t]) ELSE todo[x]
  BY <1>1, <1>2
<1>8. Orders'
  <2>1. \A x \in Threads : Calling(todo'[x])
    BY <1>6, <1>7 DEF ThreadsWell, Orders
  <2>2. DOMAIN todo' = Threads
    BY <1>1, <1>2
  <2> QED BY <1>4, <2>1, <2>2 DEF Orders
<1>9. Powered'
  BY <1>7 DEF ThreadsWell, Powered, Threads
<1> QED BY <1>1, <1>3, <1>4, <1>5, <1>8, <1>9 DEF ThreadsWell

LEMMA GoesOnWell ==
    ASSUME ThreadsWell, NEW t \in Threads, Alone(t), todo[t] # << >>,
           NEW l \in {"probe", "count", "write", "fill"},
           GoOn(t, l), power' = power
    PROVE  /\ ThreadsWell' /\ todo' = todo /\ pc'[t] = l
           /\ \A x \in Threads : x # t => pc'[x] = "idle"
<1>1. /\ pc' = [pc EXCEPT ![t] = l] /\ todo' = todo
      /\ g_param_mutex' \in {t, g_param_mutex}
  BY DEF GoOn
<1>2. /\ pc \in [Threads -> {"idle", "probe", "count", "write", "fill"}]
  BY DEF ThreadsWell
<1>3. pc' \in [Threads -> {"idle", "probe", "count", "write", "fill"}]
  BY <1>1, <1>2
<1>4. pc'[t] = l /\ \A x \in Threads : x # t => pc'[x] = "idle"
  BY <1>1, <1>2 DEF Alone
<1>5. OneInside'
  BY <1>4 DEF OneInside
<1>6. Orders'
  BY <1>1, <1>4 DEF ThreadsWell, Orders
<1>7. Powered'
  BY <1>1 DEF ThreadsWell, Powered
<1> QED BY <1>1, <1>3, <1>4, <1>5, <1>6, <1>7 DEF ThreadsWell

-----------------------------------------------------------------------------
(* The table: while nobody is inside, d->n counts its entries.             *)
TableWell ==
    /\ g_ini_d_ \in {"null", "ok", "freed"} /\ n \in Nat
    /\ Shape
    /\ \A x \in Threads : Counted(x)
    /\ Settled
RegsWell == reg \in [Threads -> Int] /\ count \in [Threads -> Int]

LEMMA InvParts == ParamInv <=> ThreadsWell /\ TableWell /\ RegsWell /\ Readable(file)
BY DEF ParamInv, ThreadsWell, TableWell, RegsWell, TypeOK

LEMMA TableIdle ==
    ASSUME TableWell, NEW t \in Threads, Alone(t), pc[t] = "idle"
    PROVE  /\ IsList(slots) /\ n = Filled(slots)
           /\ g_ini_d_ = "ok" => Len(slots) > 0
BY DEF TableWell, Shape, Settled, Alone

(* Nobody has a call to make once the dictionary is freed at the end.      *)
LEMMA NotFreed ==
    ASSUME TableWell, NEW t \in Threads, todo[t] # << >>
    PROVE  g_ini_d_ \in {"null", "ok"}
BY DEF TableWell, Shape

LEMMA SetFindKeeps ==
    ASSUME "race" \notin Faults, ParamInv, NEW t \in Threads, SetFind(t)
    PROVE  ParamInv'
<1>1. /\ Enters(t, Setters)
      /\ UNCHANGED <<g_ini_d_, n, file, reg, count, power>>
  BY DEF SetFind, Others, disk
<1>2. ThreadsWell /\ TableWell /\ RegsWell /\ Readable(file)
  BY InvParts
<1>3. /\ Alone(t) /\ pc[t] = "idle" /\ todo[t] # << >> /\ call(t).fn \in Setters
  BY <1>1, EntersAlone
<1>4. IsList(slots) /\ n = Filled(slots) /\ n \in Nat /\ g_ini_d_ \in {"null", "ok"}
      /\ (g_ini_d_ = "ok" => Len(slots) > 0)
  BY <1>2, <1>3, TableIdle, NotFreed DEF TableWell
<1>5. RegsWell' /\ Readable(file)'
  BY <1>1, <1>2 DEF RegsWell, Readable
<1> PICK k : k = call(t).key
  OBVIOUS
<1>6. CASE g_ini_d_ = "null" /\ Return(t) /\ UNCHANGED slots
  <2>1. ThreadsWell' /\ \A x \in Threads : pc'[x] = "idle"
    BY <1>1, <1>2, <1>3, <1>6, ReturnsWell
  <2>2. Shape'
    BY <1>1, <1>2, <1>6 DEF TableWell, Shape
  <2>3. TableWell'
    BY <1>1, <1>4, <1>6, <2>1, <2>2 DEF TableWell, Counted, Settled
  <2> QED BY <1>5, <2>1, <2>3, InvParts DEF ParamInv, ThreadsWell, TableWell, RegsWell, TypeOK
<1>7. CASE /\ g_ini_d_ = "ok" /\ At(slots, k) # {}
           /\ slots' = Store(slots, First(At(slots, k)), k, Given(t))
           /\ Return(t)
  <2>1. ThreadsWell' /\ \A x \in Threads : pc'[x] = "idle"
    BY <1>1, <1>2, <1>3, <1>7, ReturnsWell
  <2>2. First(At(slots, k)) \in Occupied(slots)
    BY <1>4, <1>7, FirstAt
  <2>3. IsList(slots') /\ Len(slots') = Len(slots) /\ Filled(slots') = Filled(slots)
    BY <1>4, <1>7, <2>2, StoreOld
  <2>4. Shape'
    BY <1>1, <1>2, <1>4, <1>7, <2>3 DEF TableWell, Shape
  <2>5. TableWell'
    BY <1>1, <1>4, <2>1, <2>3, <2>4 DEF TableWell, Counted, Settled
  <2> QED BY <1>5, <2>1, <2>5 DEF ParamInv, ThreadsWell, TableWell, RegsWell, TypeOK
<1>8. CASE g_ini_d_ = "ok" /\ slots' = Room(slots, n) /\ GoOn(t, "probe")
  <2>1. /\ ThreadsWell' /\ todo' = todo /\ pc'[t] = "probe"
        /\ \A x \in Threads : x # t => pc'[x] = "idle"
    BY <1>1, <1>2, <1>3, <1>8, GoesOnWell
  <2>2. /\ IsList(slots') /\ Filled(slots') = n /\ n < Len(slots') /\ Len(slots') > 0
    BY <1>4, <1>8, RoomLeft
  <2>3. Shape'
    BY <1>1, <1>2, <1>8, <2>2 DEF TableWell, Shape
  <2>4. Counted(t)'
    BY <1>1, <1>3, <1>8, <2>1, <2>2 DEF Counted, Probing, call
  <2>5. TableWell'
    BY <1>1, <1>4, <2>1, <2>2, <2>3, <2>4 DEF TableWell, Counted, Settled
  <2> QED BY <1>5, <2>1, <2>5 DEF ParamInv, ThreadsWell, TableWell, RegsWell, TypeOK
<1>9. \/ g_ini_d_ = "null" /\ Return(t) /\ UNCHANGED slots
      \/ /\ g_ini_d_ = "ok" /\ At(slots, k) # {}
         /\ slots' = Store(slots, First(At(slots, k)), k, Given(t))
         /\ Return(t)
      \/ g_ini_d_ = "ok" /\ slots' = Room(slots, n) /\ GoOn(t, "probe")
  BY DEF SetFind
<1> QED BY <1>6, <1>7, <1>8, <1>9

LEMMA SetProbeKeeps ==
    ASSUME ParamInv, NEW t \in Threads, SetProbe(t)
    PROVE  ParamInv'
<1>1. /\ pc[t] = "probe" /\ GoOn(t, "count")
      /\ UNCHANGED <<g_ini_d_, n, file, reg, count, power>>
  BY DEF SetProbe, Others, disk
<1>2. ThreadsWell /\ TableWell /\ RegsWell /\ Readable(file)
  BY InvParts
<1>3. Alone(t) /\ todo[t] # << >>
  BY <1>1, <1>2, InsideAlone DEF ThreadsWell
<1>4. /\ g_ini_d_ = "ok" /\ call(t).fn \in Setters /\ n = Filled(slots) /\ n < Len(slots)
      /\ n \in Nat /\ IsList(slots)
  BY <1>1, <1>2 DEF TableWell, Counted, Probing, Shape
<1>5. /\ ThreadsWell' /\ todo' = todo /\ pc'[t] = "count"
      /\ \A x \in Threads : x # t => pc'[x] = "idle"
  BY <1>1, <1>2, <1>3, GoesOnWell
<1>6. Probe(slots, n) \in Free(slots)
  BY <1>4, SlotCount, ProbeFree
<1>7. slots' = Store(slots, Probe(slots, n), call(t).key, Given(t))
  BY DEF SetProbe
<1>8. IsList(slots') /\ Len(slots') = Len(slots) /\ Filled(slots') = n + 1
  BY <1>4, <1>6, <1>7, StoreNew
<1>9. Shape'
  BY <1>1, <1>2, <1>4, <1>8 DEF TableWell, Shape
<1>10. call(t).fn # "iniparser_unset"
  BY <1>4 DEF Setters
<1>11. Counted(t)'
  <2>1. CountDue(t)'
    BY <1>1, <1>5, <1>8, <1>10 DEF CountDue, call
  <2> QED BY <1>1, <1>4, <1>5, <2>1 DEF Counted
<1>12. TableWell'
  BY <1>1, <1>4, <1>5, <1>9, <1>11 DEF TableWell, Counted, Settled
<1> QED BY <1>1, <1>2, <1>5, <1>12 DEF ParamInv, ThreadsWell, TableWell, RegsWell, TypeOK, Readable

LEMMA UnsetKeeps ==
    ASSUME "race" \notin Faults, ParamInv, NEW t \in Threads, Unset(t)
    PROVE  ParamInv'
<1>1. /\ Enters(t, {"iniparser_unset"})
      /\ UNCHANGED <<g_ini_d_, n, file, reg, count, power>>
  BY DEF Unset, Others, disk
<1>2. ThreadsWell /\ TableWell /\ RegsWell /\ Readable(file)
  BY InvParts
<1>3. /\ Alone(t) /\ pc[t] = "idle" /\ todo[t] # << >> /\ call(t).fn = "iniparser_unset"
  BY <1>1, EntersAlone
<1>4. IsList(slots) /\ n = Filled(slots) /\ n \in Nat /\ g_ini_d_ \in {"null", "ok"}
      /\ (g_ini_d_ = "ok" => Len(slots) > 0)
  BY <1>2, <1>3, TableIdle, NotFreed DEF TableWell
<1> PICK k : k = call(t).key
  OBVIOUS
<1>5. CASE Return(t) /\ UNCHANGED slots
  <2>1. ThreadsWell' /\ \A x \in Threads : pc'[x] = "idle"
    BY <1>1, <1>2, <1>3, <1>5, ReturnsWell
  <2>2. Shape'
    BY <1>1, <1>2, <1>4, <1>5 DEF TableWell, Shape
  <2>3. TableWell'
    BY <1>1, <1>4, <1>5, <2>1, <2>2 DEF TableWell, Counted, Settled
  <2> QED BY <1>1, <1>2, <2>1, <2>3
          DEF ParamInv, ThreadsWell, TableWell, RegsWell, TypeOK, Readable
<1>6. CASE /\ g_ini_d_ = "ok" /\ At(slots, k) # {}
           /\ slots' = Clear(slots, First(At(slots, k))) /\ GoOn(t, "count")
  <2>1. /\ ThreadsWell' /\ todo' = todo /\ pc'[t] = "count"
        /\ \A x \in Threads : x # t => pc'[x] = "idle"
    BY <1>1, <1>2, <1>3, <1>6, GoesOnWell
  <2>2. First(At(slots, k)) \in Occupied(slots)
    BY <1>4, <1>6, FirstAt
  <2>3. IsList(slots') /\ Len(slots') = Len(slots) /\ Filled(slots') = n - 1
    BY <1>4, <1>6, <2>2, ClearOld
  <2>4. Shape'
    BY <1>1, <1>2, <1>4, <1>6, <2>3 DEF TableWell, Shape
  <2>5. Counted(t)'
    <3>1. CountDue(t)'
      BY <1>1, <1>3, <2>1, <2>3 DEF CountDue, call
    <3> QED BY <1>1, <1>6, <2>1, <3>1 DEF Counted
  <2>6. TableWell'
    BY <1>1, <1>4, <2>1, <2>4, <2>5 DEF TableWell, Counted, Settled
  <2> QED BY <1>1, <1>2, <2>1, <2>6
          DEF ParamInv, ThreadsWell, TableWell, RegsWell, TypeOK, Readable
<1>7. \/ Return(t) /\ UNCHANGED slots
      \/ /\ g_ini_d_ = "ok" /\ At(slots, k) # {}
         /\ slots' = Clear(slots, First(At(slots, k))) /\ GoOn(t, "count")
  BY <1>4 DEF Unset
<1> QED BY <1>5, <1>6, <1>7

LEMMA CountReadKeeps ==
    ASSUME ParamInv, NEW t \in Threads, CountRead(t)
    PROVE  ParamInv'
<1>1. /\ pc[t] = "count" /\ GoOn(t, "write")
      /\ UNCHANGED <<g_ini_d_, slots, n, file, reg, power>>
  BY DEF CountRead, Others, disk, dict
<1>2. ThreadsWell /\ TableWell /\ RegsWell /\ Readable(file)
  BY InvParts
<1>3. Alone(t) /\ todo[t] # << >>
  BY <1>1, <1>2, InsideAlone DEF ThreadsWell
<1>4. g_ini_d_ = "ok" /\ CountDue(t) /\ n \in Nat /\ Shape
  BY <1>1, <1>2 DEF TableWell, Counted
<1>5. /\ ThreadsWell' /\ pc'[t] = "write"
      /\ \A x \in Threads : x # t => pc'[x] = "idle"
  BY <1>1, <1>2, <1>3, GoesOnWell
<1>6. Filled(slots) \in Nat
  BY <1>4, SlotCount DEF Shape
<1>7. Filled(slots) = IF call(t).fn = "iniparser_unset" THEN n - 1 ELSE n + 1
  BY <1>4 DEF CountDue
<1>8. count' = [count EXCEPT ![t] = Filled(slots)]
  BY <1>7 DEF CountRead
<1>9. count' \in [Threads -> Int] /\ count'[t] = Filled(slots)
  BY <1>2, <1>6, <1>8 DEF RegsWell
<1>10. Shape'
  BY <1>1, <1>4 DEF Shape
<1>11. Counted(t)'
  BY <1>1, <1>4, <1>5, <1>9 DEF Counted
<1>12. TableWell'
  BY <1>1, <1>4, <1>5, <1>10, <1>11 DEF TableWell, Counted, Settled
<1> QED BY <1>1, <1>2, <1>5, <1>9, <1>12
        DEF ParamInv, ThreadsWell, TableWell, RegsWell, TypeOK, Readable

LEMMA CountWriteKeeps ==
    ASSUME ParamInv, NEW t \in Threads, CountWrite(t)
    PROVE  ParamInv'
<1>1. /\ pc[t] = "write" /\ Return(t) /\ n' = count[t] /\ count' = [count EXCEPT ![t] = 0]
      /\ UNCHANGED <<g_ini_d_, slots, file, reg, power>>
  BY DEF CountWrite, Others, disk
<1>2. ThreadsWell /\ TableWell /\ RegsWell /\ Readable(file)
  BY InvParts
<1>3. Alone(t) /\ todo[t] # << >>
  BY <1>1, <1>2, InsideAlone DEF ThreadsWell
<1>4. g_ini_d_ = "ok" /\ count[t] = Filled(slots) /\ Shape
  BY <1>1, <1>2 DEF TableWell, Counted
<1>5. ThreadsWell' /\ \A x \in Threads : pc'[x] = "idle"
  BY <1>1, <1>2, <1>3, ReturnsWell
<1>6. n' \in Nat /\ n' = Filled(slots')
  <2>1. Filled(slots) \in Nat
    BY <1>4, SlotCount DEF Shape
  <2> QED BY <1>1, <1>4, <2>1
<1>7. count' \in [Threads -> Int]
  BY <1>1, <1>2 DEF RegsWell
<1>8. Shape'
  BY <1>1, <1>4 DEF Shape
<1>9. TableWell'
  BY <1>1, <1>4, <1>5, <1>6, <1>8 DEF TableWell, Counted, Settled
<1> QED BY <1>1, <1>2, <1>5, <1>7, <1>9
        DEF ParamInv, ThreadsWell, TableWell, RegsWell, TypeOK, Readable

LEMMA GetUserNumKeeps ==
    ASSUME "race" \notin Faults, ParamInv, NEW t \in Threads, GetUserNum(t)
    PROVE  ParamInv'
<1>1. /\ Enters(t, {"get_user_num"}) /\ Return(t)
      /\ UNCHANGED <<g_ini_d_, slots, n, file, count, power>>
  BY DEF GetUserNum, Others, disk, dict
<1>2. ThreadsWell /\ TableWell /\ RegsWell /\ Readable(file)
  BY InvParts
<1>3. /\ Alone(t) /\ pc[t] = "idle" /\ todo[t] # << >> /\ call(t).fn = "get_user_num"
  BY <1>1, EntersAlone
<1>4. n = Filled(slots)
  BY <1>2, <1>3, TableIdle
<1>5. ThreadsWell' /\ \A x \in Threads : pc'[x] = "idle"
  BY <1>1, <1>2, <1>3, ReturnsWell
<1>6. reg' \in [Threads -> Int]
  <2> DEFINE old == IF g_ini_d_ = "ok" /\ At(slots, user_num) # {}
                      THEN Number(dictionary_get(slots, user_num)) ELSE 1
  <2>1. \A v : Number(v) \in Int
    BY DEF Number
  <2>2. old \in Int
    BY <2>1
  <2>3. call(t).val \in Int
    <3>1. WellMade(Head(todo[t]))
      BY <1>2, <1>3, CallingElim DEF ThreadsWell, Orders
    <3> QED BY <1>3, <3>1 DEF WellMade, call
  <2>4. reg' = [reg EXCEPT ![t] = old + call(t).val]
    BY DEF GetUserNum
  <2> HIDE DEF old
  <2> QED BY <1>2, <2>2, <2>3, <2>4 DEF RegsWell
<1>7. Shape'
  BY <1>1, <1>2, <1>3, NotFreed DEF TableWell, Shape
<1>8. TableWell'
  BY <1>1, <1>2, <1>4, <1>5, <1>7 DEF TableWell, Counted, Settled
<1> QED BY <1>1, <1>2, <1>5, <1>6, <1>8
        DEF ParamInv, ThreadsWell, TableWell, RegsWell, TypeOK, Readable

LEMMA TextList ==
    ASSUME ParamInv, NEW t \in Threads, pc[t] = "fill"
    PROVE  IsList(Text(t))
<1>1. ThreadsWell /\ TableWell
  BY InvParts
<1>2. IsList(iniparser_dump_ini(slots))
  BY <1>1, DumpList DEF TableWell, Shape
<1>3. call(t).fn = "cp" => IsList(call(t).val)
  <2>1. WellMade(call(t))
    BY <1>1, CallingElim DEF ThreadsWell, Orders, call
  <2>2. IsList(Factory) /\ IsList(Import)
    BY ParamAssumption DEF IsText, IsList
  <2> QED BY <2>1, <2>2 DEF WellMade
<1> QED BY <1>2, <1>3, EmptyTable DEF Text

LEMMA WriteBeginKeeps ==
    ASSUME "race" \notin Faults, ParamInv, NEW t \in Threads, WriteBegin(t)
    PROVE  ParamInv'
<1>1. /\ Enters(t, {"rk_param_save", "cp"}) /\ GoOn(t, "fill")
      /\ file' = << >> /\ reg' = [reg EXCEPT ![t] = 0]
      /\ UNCHANGED <<g_ini_d_, slots, n, count, power>>
  BY DEF WriteBegin, Others, dict
<1>2. ThreadsWell /\ TableWell /\ RegsWell
  BY InvParts
<1>3. /\ Alone(t) /\ pc[t] = "idle" /\ todo[t] # << >>
      /\ call(t).fn \in {"rk_param_save", "cp"}
  BY <1>1, EntersAlone
<1>4. n = Filled(slots)
  BY <1>2, <1>3, TableIdle
<1>5. /\ ThreadsWell' /\ todo' = todo /\ pc'[t] = "fill"
      /\ \A x \in Threads : x # t => pc'[x] = "idle"
  BY <1>1, <1>2, <1>3, GoesOnWell
<1>6. Shape'
  BY <1>1, <1>2, <1>3, NotFreed DEF TableWell, Shape
<1>7. Counted(t)'
  BY <1>3, <1>5 DEF Counted, call
<1>8. TableWell'
  BY <1>1, <1>2, <1>4, <1>5, <1>6, <1>7 DEF TableWell, Counted, Settled
<1>9. RegsWell'
  BY <1>1, <1>2 DEF RegsWell
<1>10. Readable(file)'
  BY <1>1, EmptyTable DEF Readable
<1> QED BY <1>5, <1>8, <1>9, <1>10
        DEF ParamInv, ThreadsWell, TableWell, RegsWell, TypeOK

LEMMA SaveFailsKeeps ==
    ASSUME "race" \notin Faults, ParamInv, NEW t \in Threads, SaveFails(t)
    PROVE  ParamInv'
<1>1. /\ Enters(t, {"rk_param_save"}) /\ Return(t)
      /\ g_ini_d_' = "null" /\ slots' = << >> /\ n' = 0
      /\ UNCHANGED <<file, reg, count, power>>
  BY DEF SaveFails, Others, disk
<1>2. ThreadsWell /\ RegsWell /\ Readable(file)
  BY InvParts
<1>3. Alone(t) /\ todo[t] # << >>
  BY <1>1, EntersAlone
<1>4. ThreadsWell' /\ \A x \in Threads : pc'[x] = "idle"
  BY <1>1, <1>2, <1>3, ReturnsWell
<1>5. Shape' /\ n' = Filled(slots')
  BY <1>1, EmptyTable DEF Shape
<1>6. TableWell'
  BY <1>1, <1>4, <1>5 DEF TableWell, Counted, Settled
<1> QED BY <1>1, <1>2, <1>4, <1>6
        DEF ParamInv, ThreadsWell, TableWell, RegsWell, TypeOK, Readable

LEMMA WriteEndKeeps ==
    ASSUME ParamInv, NEW t \in Threads, WriteEnd(t)
    PROVE  ParamInv'
<1>1. /\ pc[t] = "fill" /\ Return(t) /\ file' = Text(t)
      /\ UNCHANGED <<g_ini_d_, slots, n, reg, count, power>>
  BY DEF WriteEnd, dict
<1>2. ThreadsWell /\ TableWell /\ RegsWell
  BY InvParts
<1>3. Alone(t) /\ todo[t] # << >>
  BY <1>1, <1>2, InsideAlone DEF ThreadsWell
<1>4. n = Filled(slots)
  BY <1>1, <1>2, <1>3 DEF TableWell, Settled, Alone
<1>5. ThreadsWell' /\ \A x \in Threads : pc'[x] = "idle"
  BY <1>1, <1>2, <1>3, ReturnsWell
<1>6. Shape'
  BY <1>1, <1>2, <1>3, NotFreed DEF TableWell, Shape
<1>7. TableWell'
  BY <1>1, <1>2, <1>4, <1>5, <1>6 DEF TableWell, Counted, Settled
<1>8. Readable(file)'
  BY <1>1, TextList DEF Readable
<1> QED BY <1>1, <1>2, <1>5, <1>7, <1>8
        DEF ParamInv, ThreadsWell, TableWell, RegsWell, TypeOK

-----------------------------------------------------------------------------
(* Requests, boot, shutdown and crash.                                     *)

(* Other calls to make for a thread that is not inside.                    *)
LEMMA OrderedWell ==
    ASSUME ParamInv, NEW t \in Threads, pc[t] = "idle",
           NEW calls, Calling(calls), todo' = [todo EXCEPT ![t] = calls],
           UNCHANGED <<slots, n, g_param_mutex, file, pc, reg, count>>,
           g_ini_d_' = g_ini_d_ \/ (g_ini_d_ # "ok" /\ g_ini_d_' = "null"), g_ini_d_' # "freed",
           power' \in {"off", "on", "end"}, power' = "off" => power = "off", Powered'
    PROVE  ParamInv'
<1>1. ThreadsWell /\ TableWell /\ RegsWell /\ Readable(file)
  BY InvParts
<1>2. \A x \in Threads : todo'[x] = IF x = t THEN calls ELSE todo[x]
  BY <1>1 DEF ThreadsWell, Orders
<1>3. Orders'
  <2>1. DOMAIN todo' = Threads
    BY <1>1 DEF ThreadsWell, Orders
  <2>2. \A x \in Threads : Calling(todo'[x]) /\ (pc'[x] # "idle" => todo'[x] # << >>)
    BY <1>1, <1>2 DEF ThreadsWell, Orders
  <2> QED BY <2>1, <2>2 DEF Orders
<1>4. OneInside'
  BY <1>1 DEF ThreadsWell, OneInside
<1>5. \A x \in Threads : Counted(x)'
  <2> TAKE x \in Threads
  <2>1. CASE x = t
    BY <2>1 DEF Counted
  <2>2. CASE x # t
    BY <1>1, <1>2, <2>2 DEF TableWell, Counted, Probing, CountDue, call
  <2> QED BY <2>1, <2>2
<1>6. Shape' /\ Settled'
  BY <1>1 DEF TableWell, Shape, Settled
<1> QED BY <1>1, <1>3, <1>4, <1>5, <1>6
        DEF ParamInv, ThreadsWell, TableWell, RegsWell, TypeOK, Readable

LEMMA BeginKeeps ==
    ASSUME ParamInv, NEW c \in Clients, NEW calls, Calling(calls), Begin(c, calls)
    PROVE  ParamInv'
<1>1. /\ power = "on" /\ todo[c] = << >> /\ todo' = [todo EXCEPT ![c] = calls]
      /\ UNCHANGED <<g_ini_d_, slots, n, g_param_mutex, file, pc, reg, count, power>>
  BY DEF Begin, Serves, dict, disk
<1>2. c \in Threads /\ c # Main
  BY ParamAssumption DEF Threads
<1>3. ThreadsWell
  BY InvParts
<1>4. pc[c] = "idle"
  BY <1>1, <1>2, <1>3 DEF ThreadsWell, Orders
<1>5. Powered'
  BY <1>1, <1>2, <1>3 DEF ThreadsWell, Powered, Orders, Threads
<1>6. power' \in {"off", "on", "end"}
  BY <1>1
<1>7. g_ini_d_' # "freed"
  BY <1>1 DEF ParamInv, Shape
<1> QED BY <1>1, <1>2, <1>4, <1>5, <1>6, <1>7, OrderedWell

LEMMA Joined ==
    ASSUME NEW a, NEW b, NEW c
    PROVE  <<a, b>> = <<a>> \o <<b>> /\ <<a, b, c>> = (<<a>> \o <<b>>) \o <<c>>
<1>1. <<a>> \o <<b>> = Append(<<a>>, b)
  <2> PICK S : a \in S /\ b \in S
    <3>1. a \in {a, b} /\ b \in {a, b}
      OBVIOUS
    <3> QED BY <3>1
  <2> QED BY Appended
<1>2. <<a, b>> = Append(<<a>>, b)
  OBVIOUS
<1>3. <<a, b>> \o <<c>> = Append(<<a, b>>, c)
  <2> PICK S : a \in S /\ b \in S /\ c \in S
    <3>1. a \in {a, b, c} /\ b \in {a, b, c} /\ c \in {a, b, c}
      OBVIOUS
    <3> QED BY <3>1
  <2> QED BY Appended
<1>4. <<a, b, c>> = Append(<<a, b>>, c)
  OBVIOUS
<1> QED BY <1>1, <1>2, <1>3, <1>4

LEMMA KeysMade ==
    /\ IsKey(user_num) /\ IsKey(setting)
    /\ \A u : IsKey(Section(u)) /\ \A f : IsKey(UserKey(u, f))
BY DEF IsKey, user_num, setting, Section, UserKey

LEMMA CallsMade ==
    ASSUME NEW fn, fn \notin {"cp", "get_user_num"}, NEW k, IsKey(k), NEW v
    PROVE  WellMade(Call(fn, k, v))
BY DEF WellMade, Call

LEMMA CountAndSaveWell ==
    ASSUME NEW num \in Int
    PROVE  Calling(CountAndSave(num))
<1> DEFINE a == Call("get_user_num", user_num, num)
           b == Call("set_user_num", user_num, 0)
           c == Call("rk_param_save", user_num, 0)
<1>1. WellMade(a)
  BY KeysMade DEF WellMade, Call
<1>2. WellMade(b) /\ WellMade(c)
  BY CallsMade, KeysMade
<1>3. CountAndSave(num) = <<a, b, c>>
  BY DEF CountAndSave
<1> HIDE DEF a, b, c
<1>4. <<a, b, c>> = (<<a>> \o <<b>>) \o <<c>>
  BY Joined
<1>5. Calling(<<a>>) /\ Calling(<<b>>) /\ Calling(<<c>>)
  BY <1>1, <1>2, OneCall
<1>6. Calling(<<a>> \o <<b>>)
  BY <1>5, MoreCalls
<1>7. Calling((<<a>> \o <<b>>) \o <<c>>)
  BY <1>5, <1>6, MoreCalls
<1> QED BY <1>3, <1>4, <1>7

LEMMA RequestKeeps ==
    ASSUME ParamInv, NEW c \in Clients, Request(c)
    PROVE  ParamInv'
<1>1. ASSUME NEW v \in Values, SetParam(c, v)
      PROVE  ParamInv'
  <2>1. WellMade(Call("rk_param_set", setting, v))
    BY CallsMade, KeysMade
  <2> PICK a : a = Call("rk_param_set", setting, v)
    OBVIOUS
  <2>2. Calling(<<a>>)
    BY <2>1, OneCall
  <2>3. Begin(c, <<a>>)
    BY <1>1 DEF SetParam
  <2> QED BY <2>2, <2>3, BeginKeeps
<1>2. ASSUME NEW u \in Users, NEW l \in Levels, NEW v \in Values, rk_system_add_user(c, u, l, v)
      PROVE  ParamInv'
  <2> PICK s1 : s1 = Call("iniparser_set", Section(u), NoValue)
    OBVIOUS
  <2> PICK s2 : s2 = Call("iniparser_set", UserKey(u, "user_level"), user_level_char(l))
    OBVIOUS
  <2> PICK s3 : s3 = Call("iniparser_set", UserKey(u, "user_name"), v)
    OBVIOUS
  <2> PICK s4 : s4 = Call("iniparser_set", UserKey(u, "password"), v)
    OBVIOUS
  <2>1. WellMade(s1) /\ WellMade(s2) /\ WellMade(s3) /\ WellMade(s4)
    BY CallsMade, KeysMade
  <2>2. Calling(<<s1>>) /\ Calling(<<s2>>) /\ Calling(<<s3>>) /\ Calling(<<s4>>)
    BY <2>1, OneCall
  <2>3. Calling(<<s1>> \o <<s2>>) /\ Calling(<<s3>> \o <<s4>>)
    BY <2>2, MoreCalls
  <2>4. Calling((<<s1>> \o <<s2>>) \o (<<s3>> \o <<s4>>))
    BY <2>3, MoreCalls
  <2>5. <<s1, s2, s3, s4>> = (<<s1>> \o <<s2>>) \o (<<s3>> \o <<s4>>)
    OBVIOUS
  <2>6. Calling(<<s1, s2, s3, s4>>)
    BY <2>4, <2>5
  <2>7. Calling(<<s1, s2, s3, s4>> \o CountAndSave(1))
    BY <2>6, CountAndSaveWell, MoreCalls
  <2>8. Begin(c, <<s1, s2, s3, s4>> \o CountAndSave(1))
    BY <1>2 DEF rk_system_add_user
  <2> QED BY <2>7, <2>8, BeginKeeps
<1>3. ASSUME NEW u \in Users, rk_system_del_user(c, u)
      PROVE  ParamInv'
  <2> PICK a : a = Call("iniparser_unset", Section(u), NoValue)
    OBVIOUS
  <2>1. Calling(<<a>>)
    BY CallsMade, KeysMade, OneCall
  <2>2. Calling(CountAndSave(-1))
    BY CountAndSaveWell
  <2>3. Calling(<<a>> \o CountAndSave(-1))
    BY <2>1, <2>2, MoreCalls
  <2>4. Begin(c, <<a>> \o CountAndSave(-1))
    BY <1>3 DEF rk_system_del_user
  <2> QED BY <2>3, <2>4, BeginKeeps
<1>4. ASSUME NEW lines \in {Factory, Import}, CopyAndReboot(c, lines)
      PROVE  ParamInv'
  <2> PICK a : a = Call("cp", user_num, lines)
    OBVIOUS
  <2> PICK b : b = Call("reboot -f", user_num, 0)
    OBVIOUS
  <2>1. WellMade(a)
    BY KeysMade DEF WellMade, Call
  <2>2. WellMade(b)
    BY CallsMade, KeysMade
  <2>3. Calling(<<a>>) /\ Calling(<<b>>)
    BY <2>1, <2>2, OneCall
  <2>4. Calling(<<a>> \o <<b>>)
    BY <2>3, MoreCalls
  <2>5. <<a, b>> = <<a>> \o <<b>>
    BY Joined
  <2>6. Begin(c, <<a, b>>)
    BY <1>4 DEF CopyAndReboot
  <2> QED BY <2>4, <2>5, <2>6, BeginKeeps
<1> QED BY <1>1, <1>2, <1>3, <1>4 DEF Request

LEMMA AllIdle ==
    ASSUME ThreadsWell, power # "on", todo[Main] = << >>
    PROVE  \A x \in Threads : pc[x] = "idle" /\ todo[x] = << >>
BY DEF ThreadsWell, Orders, Powered, Threads

LEMMA InitKeeps ==
    ASSUME ParamInv, rk_param_init
    PROVE  ParamInv'
<1>1. /\ power = "off" /\ todo[Main] = << >>
      /\ UNCHANGED <<g_param_mutex, file, pc, reg, count>>
  BY DEF rk_param_init, disk
<1>2. ThreadsWell /\ TableWell /\ RegsWell /\ Readable(file)
  BY InvParts
<1>3. \A x \in Threads : pc[x] = "idle" /\ todo[x] = << >>
  BY <1>1, <1>2, AllIdle
<1>4. Main \in Threads /\ Main \notin Clients
  BY ParamAssumption DEF Threads
<1>5. CASE /\ todo' = [todo EXCEPT ![Main] = <<Call("cp", user_num, Factory)>>]
           /\ g_ini_d_' = "null" /\ UNCHANGED <<slots, n, power>>
  <2> PICK a : a = Call("cp", user_num, Factory)
    OBVIOUS
  <2>1. WellMade(a)
    BY KeysMade DEF WellMade, Call
  <2>2. Calling(<<a>>)
    BY <2>1, OneCall
  <2>3. Powered'
    BY <1>1, <1>2, <1>3, <1>4, <1>5 DEF ThreadsWell, Orders, Powered, Threads
  <2>4. power' \in {"off", "on", "end"} /\ pc[Main] = "idle"
    BY <1>1, <1>3, <1>4, <1>5
  <2>5. todo' = [todo EXCEPT ![Main] = <<a>>]
    BY <1>5
  <2>6. g_ini_d_ # "ok" /\ g_ini_d_' = "null"
    BY <1>1, <1>2, <1>5 DEF TableWell, Shape
  <2> QED BY <1>1, <1>4, <1>5, <2>2, <2>3, <2>4, <2>5, <2>6, OrderedWell
<1>6. CASE /\ file # Unreadable
           /\ \E d \in {iniparser_load(file)} :
                g_ini_d_' = "ok" /\ slots' = d.slots /\ n' = d.n
           /\ power' = "on" /\ UNCHANGED todo
  <2>1. IsList(file)
    BY <1>2, <1>6 DEF Readable
  <2>2. PICK U : iniparser_load(file) \in TablesOf(U)
    BY <2>1, LoadTable
  <2> PICK d : d = iniparser_load(file)
    OBVIOUS
  <2>3. g_ini_d_' = "ok" /\ slots' = d.slots /\ n' = d.n
    BY <1>6
  <2>4. slots' \in Seq(U) /\ Len(slots') > 0 /\ n' \in Nat /\ n' = Filled(slots')
    BY <2>2, <2>3 DEF TablesOf
  <2>5. IsList(slots')
    BY <2>4, ListIntro
  <2>6. Shape' /\ Settled'
    BY <1>6, <2>3, <2>4, <2>5 DEF Shape, Settled
  <2>7. \A x \in Threads : Counted(x)'
    BY <1>1, <1>3 DEF Counted
  <2>8. TableWell'
    BY <2>3, <2>4, <2>6, <2>7 DEF TableWell
  <2>9. ThreadsWell'
    BY <1>1, <1>2, <1>3, <1>4, <1>6 DEF ThreadsWell, OneInside, Orders, Powered
  <2> QED BY <1>1, <1>2, <2>8, <2>9
          DEF ParamInv, ThreadsWell, TableWell, RegsWell, TypeOK, Readable
<1> QED BY <1>5, <1>6 DEF rk_param_init, dict

LEMMA DeinitKeeps ==
    ASSUME ParamInv, rk_param_deinit
    PROVE  ParamInv'
<1>1. /\ power = "on" /\ power' = "end" /\ \A c \in Clients : todo[c] = << >>
      /\ UNCHANGED <<g_ini_d_, slots, n, g_param_mutex, file, pc, reg, count>>
  BY DEF rk_param_deinit, dict, disk
<1> DEFINE save == <<Call("rk_param_save", user_num, 0)>>
           calls == IF g_ini_d_ = "null" THEN << >> ELSE save
<1>2. todo' = [todo EXCEPT ![Main] = calls]
  BY DEF rk_param_deinit
<1>3. Calling(calls)
  <2>1. Calling(save)
    BY CallsMade, KeysMade, OneCall
  <2> HIDE DEF save
  <2> QED BY <2>1, NoCalls
<1>4. Main \in Threads /\ Main \notin Clients
  BY ParamAssumption DEF Threads
<1>5. ThreadsWell
  BY InvParts
<1>6. pc[Main] = "idle"
  BY <1>1, <1>4, <1>5 DEF ThreadsWell, Orders, Powered
<1> HIDE DEF calls
<1>7. Powered'
  BY <1>1, <1>2, <1>4, <1>5 DEF ThreadsWell, Orders, Powered, Threads
<1>8. power' \in {"off", "on", "end"}
  BY <1>1
<1>9. g_ini_d_' # "freed"
  BY <1>1 DEF ParamInv, Shape
<1> QED BY <1>1, <1>2, <1>3, <1>4, <1>6, <1>7, <1>8, <1>9, OrderedWell

(* No dictionary, and nobody inside.                                       *)
LEMMA ClosedTable ==
    ASSUME g_ini_d_' \in {"null", "freed"}, slots' = << >>, n' = 0,
           g_ini_d_' = "freed" => power' = "off" /\ \A x \in Threads : todo'[x] = << >>,
           \A x \in Threads : pc'[x] = "idle"
    PROVE  TableWell'
<1>1. Shape' /\ n' = Filled(slots')
  BY EmptyTable DEF Shape
<1> QED BY <1>1 DEF TableWell, Counted, Settled

LEMMA DeinitFreeKeeps ==
    ASSUME ParamInv, DeinitFree
    PROVE  ParamInv'
<1>1. /\ power = "end" /\ power' = "off" /\ todo[Main] = << >>
      /\ g_ini_d_' \in {"null", "freed"} /\ slots' = << >> /\ n' = 0
      /\ UNCHANGED <<g_param_mutex, file, pc, todo, reg, count>>
  BY DEF DeinitFree, disk, threads
<1>2. ThreadsWell /\ RegsWell /\ Readable(file)
  BY InvParts
<1>3. \A x \in Threads : pc'[x] = "idle" /\ todo'[x] = << >>
  BY <1>1, <1>2, AllIdle
<1>4. TableWell'
  BY <1>1, <1>3, ClosedTable
<1>5. ThreadsWell'
  BY <1>1, <1>2 DEF ThreadsWell, OneInside, Orders, Powered
<1> QED BY <1>1, <1>2, <1>4, <1>5
        DEF ParamInv, ThreadsWell, TableWell, RegsWell, TypeOK, Readable

LEMMA VanishKeeps ==
    ASSUME ParamInv, Vanish
    PROVE  ParamInv'
<1>1. /\ g_ini_d_' = "null" /\ slots' = << >> /\ n' = 0
      /\ g_param_mutex' = None /\ power' = "off"
      /\ pc' = [t \in Threads |-> "idle"]
      /\ todo' = [t \in Threads |-> << >>]
      /\ reg' = [t \in Threads |-> 0] /\ count' = [t \in Threads |-> 0]
  BY DEF Vanish
<1>2. TableWell'
  BY <1>1, ClosedTable
<1>3. ThreadsWell'
  BY <1>1, NoCalls DEF ThreadsWell, OneInside, Orders, Powered, Threads
<1>4. RegsWell'
  BY <1>1 DEF RegsWell
<1>5. Readable(file)'
  <2>1. CASE UNCHANGED file
    BY <2>1 DEF ParamInv, Readable
  <2>2. CASE \E t \in Threads : pc[t] = "fill" /\ file' \in Fragments(Text(t))
    <3>1. PICK t \in Threads : pc[t] = "fill" /\ file' \in Fragments(Text(t))
      BY <2>2
    <3>2. IsList(Text(t))
      BY <3>1, TextList
    <3> PICK lines : lines = Text(t)
      OBVIOUS
    <3> PICK text : text = file'
      OBVIOUS
    <3>3. Readable(text)
      BY <3>1, <3>2, FragmentsReadable
    <3> QED BY <3>3 DEF Readable
  <2>3. UNCHANGED file \/ \E t \in Threads : pc[t] = "fill" /\ file' \in Fragments(Text(t))
    BY DEF Vanish, disk
  <2> QED BY <2>1, <2>2, <2>3
<1> QED BY <1>2, <1>3, <1>4, <1>5
        DEF ParamInv, ThreadsWell, TableWell, RegsWell, TypeOK, Readable

-----------------------------------------------------------------------------
LEMMA InitInv == Init => ParamInv
<1> SUFFICES ASSUME Init PROVE ParamInv
  OBVIOUS
<1>1. /\ g_ini_d_ = "null" /\ slots = << >> /\ n = 0 /\ g_param_mutex = None
      /\ file \in {Factory, Unreadable} /\ power = "off"
      /\ pc = [t \in Threads |-> "idle"] /\ todo = [t \in Threads |-> << >>]
      /\ reg = [t \in Threads |-> 0] /\ count = [t \in Threads |-> 0]
  BY DEF Init
<1>2. TableWell
  BY <1>1, EmptyTable DEF TableWell, Shape, Counted, Settled
<1>3. ThreadsWell
  BY <1>1, NoCalls DEF ThreadsWell, OneInside, Orders, Powered, Threads
<1>4. RegsWell /\ Readable(file)
  BY <1>1, ParamAssumption DEF RegsWell, Readable, IsText, IsList
<1> QED BY <1>2, <1>3, <1>4, InvParts

LEMMA StepInv ==
    ASSUME "race" \notin Faults
    PROVE  ParamInv /\ [Next]_vars => ParamInv'
<1> SUFFICES ASSUME ParamInv, [Next]_vars PROVE ParamInv'
  OBVIOUS
<1>1. ASSUME NEW t \in Threads, Step(t) \/ SaveFails(t)
      PROVE  ParamInv'
  BY <1>1, SetFindKeeps, SetProbeKeeps, UnsetKeeps, CountReadKeeps, CountWriteKeeps,
     GetUserNumKeeps, WriteBeginKeeps, WriteEndKeeps, SaveFailsKeeps DEF Step
<1>2. ASSUME NEW c \in Clients, Request(c) \/ RebootForced(c)
      PROVE  ParamInv'
  BY <1>2, RequestKeeps, VanishKeeps DEF RebootForced
<1>3. CASE rk_param_init \/ rk_param_deinit \/ DeinitFree \/ Crash
  BY <1>3, InitKeeps, DeinitKeeps, DeinitFreeKeeps, VanishKeeps DEF Crash
<1>4. CASE UNCHANGED vars
  <2>1. UNCHANGED <<g_ini_d_, slots, n, g_param_mutex, file, power, pc, todo, reg, count>>
    BY <1>4 DEF vars, dict, disk, threads
  <2> QED BY <2>1 DEF ParamInv, TypeOK, Shape, Readable, OneInside, Orders, Powered, Counted,
                      Probing, CountDue, Settled, call
<1> QED BY <1>1, <1>2, <1>3, <1>4 DEF Next

LEMMA Invariance ==
    ASSUME "race" \notin Faults
    PROVE  Spec => []ParamInv
BY InitInv, StepInv, PTL DEF Spec

(* The variables keep their types.                                         *)
THEOREM ParamTypes ==
    ASSUME "race" \notin Faults
    PROVE  Spec => []TypeOK
<1>1. ParamInv => TypeOK
  BY DEF ParamInv
<1> QED BY <1>1, Invariance, PTL

(* dictionary_set: "Because d->n < d->size this will necessarily           *)
(* terminate".  A thread that probes for an empty slot finds one, if no    *)
(* unlocked call overlaps another call: whatever was added, removed,       *)
(* dumped, copied, cut short and loaded before.                            *)
THEOREM ProbeEnds ==
    ASSUME "race" \notin Faults
    PROVE  Spec => []ProbeTerminates
<1>1. ParamInv => ProbeTerminates
  BY SlotCount DEF ParamInv, ProbeTerminates, Counted, Probing, Shape
<1> QED BY <1>1, Invariance, PTL

-----------------------------------------------------------------------------
(* The refinement: what the store is, and how steps of it look here.       *)
Memory == IF g_ini_d_ = "ok" THEN {Contents(slots)} ELSE {}

LEMMA StoreStutters ==
    ASSUME Memory' = Memory, kept' = kept, Writing' <=> Writing
    PROVE  [Storage!Next]_(Storage!vars)
<1>1. UNCHANGED Storage!vars
  <2>1. (\E t \in Threads : pc[t] = "fill")' = (\E t \in Threads : pc[t] = "fill")
    BY DEF Writing
  <2> QED BY <2>1 DEF Storage!vars, Memory
<1> QED BY <1>1

LEMMA StorePuts ==
    ASSUME NEW m, NEW k, NEW v, Memory = {m}, Memory' = {With(m, k, v)},
           kept' = kept, Writing' <=> Writing
    PROVE  Storage!Next
<1> PICK w : w = With(m, k, v)
  OBVIOUS
<1>1. k \in DOMAIN w /\ Storage!Differ(m, w, k)
  BY DEF With, Storage!Differ
<1>2. \E a \in Memory, b \in Memory' :
        Memory' = {b} /\ \E x \in DOMAIN b : Storage!Differ(a, b, x)
  BY <1>1
<1>3. (\E t \in Threads : pc[t] = "fill")' = (\E t \in Threads : pc[t] = "fill")
  BY DEF Writing
<1>4. Storage!Put
  BY <1>2, <1>3 DEF Storage!Put, Memory
<1> QED BY <1>4 DEF Storage!Next

LEMMA StoreRemoves ==
    ASSUME NEW m, NEW k \in DOMAIN m, Memory = {m},
           Memory' = {[x \in DOMAIN m \ {k} |-> m[x]]},
           kept' = kept, Writing' <=> Writing
    PROVE  Storage!Next
<1>1. \E a \in Memory : \E b \in DOMAIN a :
        Memory' = {[x \in DOMAIN a \ {b} |-> a[x]]}
  OBVIOUS
<1>2. (\E t \in Threads : pc[t] = "fill")' = (\E t \in Threads : pc[t] = "fill")
  BY DEF Writing
<1>3. Storage!Remove
  BY <1>1, <1>2 DEF Storage!Remove, Memory
<1> QED BY <1>3 DEF Storage!Next

LEMMA StoreBegins ==
    ASSUME Memory' = Memory, kept' = kept, ~Writing, Writing'
    PROVE  Storage!Next
<1>1. ~(\E t \in Threads : pc[t] = "fill") /\ (\E t \in Threads : pc[t] = "fill")'
  BY DEF Writing
<1>2. (\E t \in Threads : pc[t] = "fill")' = TRUE
  BY <1>1
<1>3. Storage!Begin
  BY <1>1, <1>2 DEF Storage!Begin, Memory
<1> QED BY <1>3 DEF Storage!Next

LEMMA StoreEnds ==
    ASSUME Memory' = Memory, Writing, ~Writing',
           \/ kept' = IF Memory = {} THEN {Storage!Nothing} ELSE {Storage!Saved(m) : m \in Memory}
           \/ kept' \in {FactoryMap, ImportMap}
    PROVE  Storage!Next
<1>1. (\E t \in Threads : pc[t] = "fill") /\ ~(\E t \in Threads : pc[t] = "fill")'
  BY DEF Writing
<1>2. (\E t \in Threads : pc[t] = "fill")' = FALSE
  BY <1>1
<1>3. Storage!End
  BY <1>1, <1>2 DEF Storage!End, Memory
<1> QED BY <1>3 DEF Storage!Next

LEMMA StoreOpens ==
    ASSUME Memory = {}, kept # {}, ~Writing, Memory' = kept, kept' = kept, ~Writing'
    PROVE  Storage!Next
<1>1. ~(\E t \in Threads : pc[t] = "fill") /\ ~(\E t \in Threads : pc[t] = "fill")'
  BY DEF Writing
<1>2. (\E t \in Threads : pc[t] = "fill")' = (\E t \in Threads : pc[t] = "fill")
  BY <1>1
<1>3. Storage!Open
  BY <1>1, <1>2 DEF Storage!Open, Memory
<1> QED BY <1>3 DEF Storage!Next

LEMMA StoreCloses ==
    ASSUME Memory' = {}, ~Writing => kept' = kept, ~Writing'
    PROVE  Storage!Next
<1>1. /\ ~(\E t \in Threads : pc[t] = "fill") => kept' = kept
      /\ ~(\E t \in Threads : pc[t] = "fill")'
  BY DEF Writing
<1>2. (\E t \in Threads : pc[t] = "fill")' = FALSE
  BY <1>1
<1>3. Storage!Close
  BY <1>1, <1>2 DEF Storage!Close, Memory
<1> QED BY <1>3 DEF Storage!Next

-----------------------------------------------------------------------------
(* Each step keeps the invariant and is a step of the store, or stutters.  *)

LEMMA NotWriting ==
    ASSUME NEW t \in Threads, Alone(t), pc[t] # "fill"
    PROVE  ~Writing
BY DEF Alone, Writing

LEMMA MapIs ==
    ASSUME NEW lines, lines # Unreadable
    PROVE  Map(lines) = {Contents(iniparser_load(lines).slots)}
BY DEF Map

LEMMA TextReadable == ASSUME NEW lines, IsText(lines) PROVE lines # Unreadable
<1>1. DOMAIN lines = 1 .. Len(lines) /\ Len(lines) \in Nat
  BY ListElim DEF IsText, IsList
<1>2. DOMAIN Unreadable = {0}
  BY DEF Unreadable
<1>3. 0 \notin 1 .. Len(lines)
  BY <1>1
<1> QED BY <1>1, <1>2, <1>3

LEMMA EmptyText == IsText(<< >>) /\ Map(<< >>) = {Storage!Nothing}
<1> PICK lines : lines = << >>
  OBVIOUS
<1>1. IsList(lines) /\ Len(lines) = 0 /\ ToSet(lines) = {}
  BY EmptyTable, NoElements
<1>2. IsText(lines)
  BY <1>1 DEF IsText, IsList
<1> PICK m : m = Contents(iniparser_load(lines).slots)
  OBVIOUS
<1>3. DOMAIN m = {} /\ m = [k \in DOMAIN m |-> m[k]]
  <2>1. DOMAIN m = {e.key : e \in ToSet(lines)}
    BY <1>1, LoadElements
  <2>2. m = [k \in DOMAIN m |-> m[k]]
    BY DEF Contents
  <2> QED BY <1>1, <2>1, <2>2
<1>4. m = Storage!Nothing
  BY <1>3 DEF Storage!Nothing
<1> QED BY <1>2, <1>4, TextReadable, MapIs

LEMMA NoSlots == Unique(<< >>) /\ Keyed(<< >>)
<1>1. Occupied(<< >>) = {}
  BY DEF Occupied
<1> QED BY <1>1 DEF Unique, Keyed

(* The file is left as it is, and so is what was in the store but for what *)
(* is said of slots.                                                       *)
LEMMA StoreKept ==
    ASSUME StoreInv, ~Writing, ~Writing', UNCHANGED <<file, kept, power, g_ini_d_>>,
           Unique(slots'), Keyed(slots'),
           \A x \in Threads : pc'[x] = "probe" => At(slots, call(x).key)' = {}
    PROVE  StoreInv'
<1>1. Distinct'
  BY DEF Distinct
<1>2. OnDisk'
  <2>1. kept = Map(file) /\ (file # Unreadable => IsText(file))
    BY DEF StoreInv, OnDisk
  <2>2. kept' = Map(file')
    BY <2>1
  <2> QED BY <2>1, <2>2 DEF OnDisk
<1> QED BY <1>1, <1>2 DEF StoreInv

(* Steps that do not touch the table or the file.                          *)
LEMMA OthersStore ==
    ASSUME StoreInv, ~Writing, ~Writing', UNCHANGED <<file, kept, power, g_ini_d_, slots>>,
           \A x \in Threads : pc'[x] # "probe"
    PROVE  StoreInv' /\ [Storage!Next]_(Storage!vars)
<1>1. StoreInv'
  BY StoreKept DEF StoreInv, Distinct
<1>2. Memory' = Memory
  BY DEF Memory
<1> QED BY <1>1, <1>2, StoreStutters

(* What SetFind, SetProbe and Unset make of the map.                       *)
SetFindEffect(t, k, v) ==
    \/ g_ini_d_ = "null" /\ Return(t) /\ UNCHANGED slots
    \/ /\ g_ini_d_ = "ok" /\ Return(t) /\ Unique(slots') /\ Keyed(slots')
       /\ k \in DOMAIN Contents(slots)
       /\ Contents(slots') = With(Contents(slots), k, v)
    \/ /\ g_ini_d_ = "ok" /\ GoOn(t, "probe") /\ Unique(slots') /\ Keyed(slots')
       /\ At(slots', k) = {} /\ k \notin DOMAIN Contents(slots)
       /\ Contents(slots') = Contents(slots)

LEMMA SetFindDoes ==
    ASSUME "race" \notin Faults, ParamInv, StoreInv, NEW t \in Threads, SetFind(t)
    PROVE  SetFindEffect(t, call(t).key, Given(t))
<1>1. Enters(t, Setters)
  BY DEF SetFind
<1>2. ThreadsWell /\ TableWell
  BY InvParts
<1>3. Alone(t) /\ pc[t] = "idle" /\ todo[t] # << >>
  BY <1>1, EntersAlone
<1>4. IsList(slots) /\ n = Filled(slots) /\ (g_ini_d_ = "ok" => Len(slots) > 0)
  BY <1>2, <1>3, TableIdle
<1>5. PICK k : k = call(t).key
  OBVIOUS
<1>6. PICK v : v = Given(t)
  OBVIOUS
<1>7. PICK s : s = slots
  OBVIOUS
<1>8. IsKey(k)
  BY <1>2, <1>3, <1>5, CallingElim DEF ThreadsWell, Orders, WellMade, call
<1>9. IsList(s) /\ Unique(s) /\ Keyed(s) /\ DOMAIN Contents(s) = Keys(s)
  BY <1>4, <1>7 DEF StoreInv, Distinct, Contents
<1>10. At(s, k) = {} <=> k \notin DOMAIN Contents(s)
  BY <1>9, ContentsAre
<1>11. CASE /\ g_ini_d_ = "ok" /\ At(s, k) # {}
            /\ slots' = Store(s, First(At(s, k)), k, v) /\ Return(t)
  <2>1. PICK i : i = First(At(s, k))
    OBVIOUS
  <2>2. i \in Occupied(s) /\ s[i].key = k
    <3>1. At(s, k) \in SUBSET Nat
      BY <1>9, ListElim DEF At, Occupied
    <3>2. i \in At(s, k)
      BY <1>11, <2>1, <3>1, FirstOf
    <3> QED BY <3>2 DEF At
  <2>3. /\ Unique(Store(s, i, k, v)) /\ Keyed(Store(s, i, k, v))
        /\ Contents(Store(s, i, k, v)) = With(Contents(s), k, v)
    BY <1>8, <1>9, <2>2, StoreContents
  <2>4. slots' = Store(s, i, k, v)
    BY <1>11, <2>1
  <2> QED BY <1>5, <1>6, <1>7, <1>10, <1>11, <2>3, <2>4 DEF SetFindEffect
<1>12. CASE /\ g_ini_d_ = "ok" /\ At(s, k) = {}
            /\ slots' = Room(s, Filled(s)) /\ GoOn(t, "probe")
  <2>1. /\ Unique(Room(s, Filled(s))) /\ Keyed(Room(s, Filled(s)))
        /\ Contents(Room(s, Filled(s))) = Contents(s)
        /\ At(Room(s, Filled(s)), k) = At(s, k)
    BY <1>4, <1>7, <1>9, <1>12, RoomContents
  <2> QED BY <1>5, <1>7, <1>10, <1>12, <2>1 DEF SetFindEffect
<1>13. \/ g_ini_d_ = "null" /\ Return(t) /\ UNCHANGED slots
       \/ /\ g_ini_d_ = "ok" /\ At(s, k) # {}
          /\ slots' = Store(s, First(At(s, k)), k, v) /\ Return(t)
       \/ /\ g_ini_d_ = "ok" /\ At(s, k) = {}
          /\ slots' = Room(s, Filled(s)) /\ GoOn(t, "probe")
  BY <1>4, <1>5, <1>6, <1>7 DEF SetFind
<1> QED BY <1>11, <1>12, <1>13 DEF SetFindEffect

SetProbeEffect(t, k, v) ==
    /\ g_ini_d_ = "ok" /\ Unique(slots') /\ Keyed(slots')
    /\ k \notin DOMAIN Contents(slots)
    /\ Contents(slots') = With(Contents(slots), k, v)

LEMMA SetProbeDoes ==
    ASSUME ParamInv, StoreInv, NEW t \in Threads, SetProbe(t)
    PROVE  SetProbeEffect(t, call(t).key, Given(t))
<1>1. pc[t] = "probe"
  BY DEF SetProbe
<1>2. ThreadsWell /\ TableWell
  BY InvParts
<1>3. todo[t] # << >>
  BY <1>1, <1>2, InsideAlone DEF ThreadsWell
<1>4. g_ini_d_ = "ok" /\ n = Filled(slots) /\ n < Len(slots) /\ IsList(slots)
  BY <1>1, <1>2 DEF TableWell, Counted, Probing, Shape
<1>5. PICK k : k = call(t).key
  OBVIOUS
<1>6. PICK v : v = Given(t)
  OBVIOUS
<1>7. PICK s : s = slots
  OBVIOUS
<1>8. PICK i : i = Probe(slots, n)
  OBVIOUS
<1>9. IsKey(k) /\ At(s, k) = {}
  <2>1. IsKey(k)
    BY <1>2, <1>3, <1>5, CallingElim DEF ThreadsWell, Orders, WellMade, call
  <2> QED BY <1>1, <1>5, <1>7, <2>1 DEF StoreInv, Distinct
<1>10. i \in Free(s)
  BY <1>4, <1>7, <1>8, SlotCount, ProbeFree
<1>11. slots' = Store(s, i, k, v)
  BY <1>5, <1>6, <1>7, <1>8 DEF SetProbe
<1>12. IsList(s) /\ Unique(s) /\ Keyed(s) /\ DOMAIN Contents(s) = Keys(s)
  BY <1>4, <1>7 DEF StoreInv, Distinct, Contents
<1>13. /\ Unique(Store(s, i, k, v)) /\ Keyed(Store(s, i, k, v))
       /\ Contents(Store(s, i, k, v)) = With(Contents(s), k, v)
  BY <1>9, <1>10, <1>12, StoreContents
<1>14. k \notin DOMAIN Contents(s)
  BY <1>9, <1>12, ContentsAre
<1> QED BY <1>4, <1>5, <1>6, <1>7, <1>11, <1>13, <1>14 DEF SetProbeEffect

UnsetEffect(t, k) ==
    \/ /\ Return(t) /\ UNCHANGED slots
       /\ g_ini_d_ = "ok" => k \notin DOMAIN Contents(slots)
    \/ /\ g_ini_d_ = "ok" /\ GoOn(t, "count") /\ Unique(slots') /\ Keyed(slots')
       /\ k \in DOMAIN Contents(slots)
       /\ Contents(slots') = [x \in DOMAIN Contents(slots) \ {k} |-> Contents(slots)[x]]

LEMMA UnsetDoes ==
    ASSUME "race" \notin Faults, ParamInv, StoreInv, NEW t \in Threads, Unset(t)
    PROVE  UnsetEffect(t, call(t).key)
<1>1. Enters(t, {"iniparser_unset"})
  BY DEF Unset
<1>2. ThreadsWell /\ TableWell
  BY InvParts
<1>3. Alone(t) /\ pc[t] = "idle" /\ todo[t] # << >>
  BY <1>1, EntersAlone
<1>4. IsList(slots) /\ g_ini_d_ \in {"null", "ok"}
  BY <1>2, <1>3, TableIdle, NotFreed DEF TableWell
<1>5. PICK k : k = call(t).key
  OBVIOUS
<1>6. PICK s : s = slots
  OBVIOUS
<1>7. IsList(s) /\ Unique(s) /\ Keyed(s) /\ DOMAIN Contents(s) = Keys(s)
  BY <1>4, <1>6 DEF StoreInv, Distinct, Contents
<1>8. At(s, k) = {} <=> k \notin DOMAIN Contents(s)
  BY <1>7, ContentsAre
<1>9. CASE Return(t) /\ UNCHANGED slots /\ (g_ini_d_ = "null" \/ At(s, k) = {})
  BY <1>5, <1>6, <1>8, <1>9 DEF UnsetEffect
<1>10. CASE /\ g_ini_d_ = "ok" /\ At(s, k) # {}
            /\ slots' = Clear(s, First(At(s, k))) /\ GoOn(t, "count")
  <2>1. PICK i : i = First(At(s, k))
    OBVIOUS
  <2>2. i \in Occupied(s) /\ s[i].key = k
    <3>1. At(s, k) \in SUBSET Nat
      BY <1>7, ListElim DEF At, Occupied
    <3>2. i \in At(s, k)
      BY <1>10, <2>1, <3>1, FirstOf
    <3> QED BY <3>2 DEF At
  <2>3. /\ Unique(Clear(s, i)) /\ Keyed(Clear(s, i))
        /\ Contents(Clear(s, i)) = [x \in DOMAIN Contents(s) \ {k} |-> Contents(s)[x]]
    BY <1>7, <2>2, ClearContents
  <2>4. slots' = Clear(s, i)
    BY <1>10, <2>1
  <2> QED BY <1>5, <1>6, <1>8, <1>10, <2>3, <2>4 DEF UnsetEffect
<1>11. \/ Return(t) /\ UNCHANGED slots /\ (g_ini_d_ = "null" \/ At(s, k) = {})
       \/ /\ g_ini_d_ = "ok" /\ At(s, k) # {}
          /\ slots' = Clear(s, First(At(s, k))) /\ GoOn(t, "count")
  BY <1>4, <1>5, <1>6 DEF Unset
<1> QED BY <1>9, <1>10, <1>11

LEMMA SetFindStores ==
    ASSUME "race" \notin Faults, ParamInv, StoreInv, NEW t \in Threads, SetFind(t)
    PROVE  StoreInv' /\ [Storage!Next]_(Storage!vars)
<1>1. Enters(t, Setters) /\ UNCHANGED <<g_ini_d_, n, file, kept, power>>
  BY DEF SetFind, Others, disk
<1>2. ThreadsWell
  BY InvParts
<1>3. Alone(t) /\ pc[t] = "idle" /\ todo[t] # << >>
  BY <1>1, EntersAlone
<1>4. ~Writing
  BY <1>3, NotWriting
<1>5. PICK k : k = call(t).key
  OBVIOUS
<1>6. PICK v : v = Given(t)
  OBVIOUS
<1>7. SetFindEffect(t, k, v)
  BY <1>5, <1>6, SetFindDoes
<1>8. CASE Return(t)
  <2>1. \A x \in Threads : pc'[x] = "idle"
    BY <1>1, <1>2, <1>3, <1>8, ReturnsWell
  <2>2. ~Writing'
    BY <2>1 DEF Writing
  <2>3. CASE UNCHANGED slots
    BY <1>1, <1>4, <2>1, <2>2, <2>3, OthersStore
  <2>4. CASE /\ g_ini_d_ = "ok" /\ Unique(slots') /\ Keyed(slots')
             /\ Contents(slots') = With(Contents(slots), k, v)
    <3>1. StoreInv'
      BY <1>1, <1>4, <2>1, <2>2, <2>4, StoreKept
    <3>2. PICK m : m = Contents(slots)
      OBVIOUS
    <3>3. Memory = {m} /\ Memory' = {With(m, k, v)}
      BY <1>1, <2>4, <3>2 DEF Memory
    <3>4. Storage!Next
      BY <1>1, <1>4, <2>2, <3>3, StorePuts
    <3> QED BY <3>1, <3>4
  <2>5. CASE GoOn(t, "probe")
    <3>1. pc'[t] = "probe"
      BY <1>1, <1>2, <1>3, <2>5, GoesOnWell
    <3> QED BY <2>1, <3>1
  <2> QED BY <1>7, <2>3, <2>4, <2>5 DEF SetFindEffect
<1>9. CASE /\ g_ini_d_ = "ok" /\ GoOn(t, "probe") /\ Unique(slots') /\ Keyed(slots')
           /\ At(slots', k) = {} /\ Contents(slots') = Contents(slots)
  <2>1. todo' = todo /\ pc'[t] = "probe" /\ \A x \in Threads : x # t => pc'[x] = "idle"
    BY <1>1, <1>2, <1>3, <1>9, GoesOnWell
  <2>2. ~Writing'
    BY <2>1 DEF Writing
  <2>3. call(t)' = call(t)
    BY <2>1 DEF call
  <2>4. \A x \in Threads : pc'[x] = "probe" => At(slots, call(x).key)' = {}
    BY <1>5, <1>9, <2>1, <2>3
  <2>5. StoreInv'
    BY <1>1, <1>4, <1>9, <2>2, <2>4, StoreKept
  <2>6. Memory' = Memory
    BY <1>1, <1>9 DEF Memory
  <2> QED BY <1>1, <1>4, <2>2, <2>5, <2>6, StoreStutters
<1> QED BY <1>7, <1>8, <1>9 DEF SetFindEffect

LEMMA SetProbeStores ==
    ASSUME ParamInv, StoreInv, NEW t \in Threads, SetProbe(t)
    PROVE  StoreInv' /\ [Storage!Next]_(Storage!vars)
<1>1. /\ pc[t] = "probe" /\ GoOn(t, "count")
      /\ UNCHANGED <<g_ini_d_, n, file, kept, power>>
  BY DEF SetProbe, Others, disk
<1>2. ThreadsWell
  BY InvParts
<1>3. Alone(t) /\ todo[t] # << >>
  BY <1>1, <1>2, InsideAlone DEF ThreadsWell
<1>4. \A x \in Threads : pc'[x] \in {"idle", "count"}
  BY <1>1, <1>2, <1>3, GoesOnWell
<1>5. ~Writing /\ ~Writing'
  BY <1>1, <1>3, <1>4, NotWriting DEF Writing
<1>6. PICK k : k = call(t).key
  OBVIOUS
<1>7. PICK v : v = Given(t)
  OBVIOUS
<1>8. SetProbeEffect(t, k, v)
  BY <1>6, <1>7, SetProbeDoes
<1>9. StoreInv'
  BY <1>1, <1>4, <1>5, <1>8, StoreKept DEF SetProbeEffect
<1>10. PICK m : m = Contents(slots)
  OBVIOUS
<1>11. Memory = {m} /\ Memory' = {With(m, k, v)}
  BY <1>1, <1>8, <1>10 DEF Memory, SetProbeEffect
<1>12. Storage!Next
  BY <1>1, <1>5, <1>11, StorePuts
<1> QED BY <1>9, <1>12

LEMMA UnsetStores ==
    ASSUME "race" \notin Faults, ParamInv, StoreInv, NEW t \in Threads, Unset(t)
    PROVE  StoreInv' /\ [Storage!Next]_(Storage!vars)
<1>1. Enters(t, {"iniparser_unset"}) /\ UNCHANGED <<g_ini_d_, n, file, kept, power>>
  BY DEF Unset, Others, disk
<1>2. ThreadsWell
  BY InvParts
<1>3. Alone(t) /\ pc[t] = "idle" /\ todo[t] # << >>
  BY <1>1, EntersAlone
<1>4. ~Writing
  BY <1>3, NotWriting
<1>5. PICK k : k = call(t).key
  OBVIOUS
<1>6. UnsetEffect(t, k)
  BY <1>5, UnsetDoes
<1>7. CASE Return(t) /\ UNCHANGED slots
  <2>1. \A x \in Threads : pc'[x] = "idle"
    BY <1>1, <1>2, <1>3, <1>7, ReturnsWell
  <2>2. ~Writing'
    BY <2>1 DEF Writing
  <2> QED BY <1>1, <1>4, <1>7, <2>1, <2>2, OthersStore
<1>8. CASE /\ g_ini_d_ = "ok" /\ GoOn(t, "count") /\ Unique(slots') /\ Keyed(slots')
           /\ k \in DOMAIN Contents(slots)
           /\ Contents(slots') = [x \in DOMAIN Contents(slots) \ {k} |-> Contents(slots)[x]]
  <2>1. \A x \in Threads : pc'[x] \in {"idle", "count"}
    BY <1>1, <1>2, <1>3, <1>8, GoesOnWell
  <2>2. ~Writing'
    BY <2>1 DEF Writing
  <2>3. StoreInv'
    BY <1>1, <1>4, <1>8, <2>1, <2>2, StoreKept
  <2>4. PICK m : m = Contents(slots)
    OBVIOUS
  <2>5. Memory = {m} /\ Memory' = {[x \in DOMAIN m \ {k} |-> m[x]]} /\ k \in DOMAIN m
    BY <1>1, <1>8, <2>4 DEF Memory
  <2>6. Storage!Next
    BY <1>1, <1>4, <2>2, <2>5, StoreRemoves
  <2> QED BY <2>3, <2>6
<1> QED BY <1>6, <1>7, <1>8 DEF UnsetEffect

LEMMA CountStores ==
    ASSUME ParamInv, StoreInv, NEW t \in Threads, CountRead(t) \/ CountWrite(t)
    PROVE  StoreInv' /\ [Storage!Next]_(Storage!vars)
<1>1. /\ pc[t] \in {"count", "write"} /\ (GoOn(t, "write") \/ Return(t))
      /\ UNCHANGED <<g_ini_d_, slots, file, kept, power>>
  BY DEF CountRead, CountWrite, Others, disk, dict
<1>2. ThreadsWell
  BY InvParts
<1>3. Alone(t) /\ todo[t] # << >>
  BY <1>1, <1>2, InsideAlone DEF ThreadsWell
<1>4. \A x \in Threads : pc'[x] \in {"idle", "write"}
  BY <1>1, <1>2, <1>3, GoesOnWell, ReturnsWell
<1>5. ~Writing /\ ~Writing'
  BY <1>1, <1>3, <1>4, NotWriting DEF Writing
<1> QED BY <1>1, <1>4, <1>5, OthersStore

LEMMA GetUserNumStores ==
    ASSUME "race" \notin Faults, ParamInv, StoreInv, NEW t \in Threads, GetUserNum(t)
    PROVE  StoreInv' /\ [Storage!Next]_(Storage!vars)
<1>1. /\ Enters(t, {"get_user_num"}) /\ Return(t)
      /\ UNCHANGED <<g_ini_d_, slots, file, kept, power>>
  BY DEF GetUserNum, Others, disk, dict
<1>2. ThreadsWell
  BY InvParts
<1>3. Alone(t) /\ todo[t] # << >> /\ pc[t] = "idle"
  BY <1>1, EntersAlone
<1>4. \A x \in Threads : pc'[x] = "idle"
  BY <1>1, <1>2, <1>3, ReturnsWell
<1>5. ~Writing /\ ~Writing'
  BY <1>3, <1>4, NotWriting DEF Writing
<1> QED BY <1>1, <1>4, <1>5, OthersStore

LEMMA TextOf ==
    ASSUME ParamInv, StoreInv, NEW t \in Threads, pc[t] = "fill"
    PROVE  /\ IsText(Text(t))
           /\ call(t).fn = "cp" => Map(Text(t)) \in {FactoryMap, ImportMap}
           /\ call(t).fn # "cp" =>
                Map(Text(t)) = IF Memory = {} THEN {Storage!Nothing}
                               ELSE {Storage!Saved(m) : m \in Memory}
<1>1. ThreadsWell /\ TableWell
  BY InvParts
<1>2. CASE call(t).fn = "cp"
  <2>1. todo[t] # << >>
    BY <1>1, InsideAlone DEF ThreadsWell
  <2>2. call(t).val \in {Factory, Import}
    BY <1>1, <1>2, <2>1, CallingElim DEF ThreadsWell, Orders, WellMade, call
  <2>3. Text(t) = call(t).val
    BY <1>2 DEF Text
  <2> QED BY <1>2, <2>2, <2>3, ParamAssumption DEF FactoryMap, ImportMap
<1>3. CASE call(t).fn # "cp" /\ g_ini_d_ = "null"
  <2>1. Text(t) = << >> /\ Memory = {}
    BY <1>3 DEF Text, Memory
  <2> QED BY <1>3, <2>1, EmptyText
<1>4. CASE call(t).fn # "cp" /\ g_ini_d_ = "ok"
  <2>1. PICK s : s = slots
    OBVIOUS
  <2>2. IsList(s) /\ Unique(s) /\ Keyed(s)
    BY <1>1, <2>1 DEF TableWell, Shape, StoreInv, Distinct
  <2>3. PICK lines : lines = iniparser_dump_ini(s)
    OBVIOUS
  <2>4. /\ IsText(lines)
        /\ Contents(iniparser_load(lines).slots) = Storage!Saved(Contents(s))
    BY <2>2, <2>3, SavedContents
  <2>5. Text(t) = lines /\ Memory = {Contents(s)}
    BY <1>4, <2>1, <2>3 DEF Text, Memory
  <2>6. Map(lines) = {Storage!Saved(m) : m \in Memory}
    BY <2>4, <2>5, TextReadable, MapIs
  <2>7. Memory # {}
    BY <2>5
  <2> QED BY <1>4, <2>4, <2>5, <2>6, <2>7
<1>5. g_ini_d_ \in {"null", "ok"}
  <2>1. todo[t] # << >>
    BY <1>1, InsideAlone DEF ThreadsWell
  <2> QED BY <1>1, <2>1, NotFreed
<1> QED BY <1>2, <1>3, <1>4, <1>5

LEMMA WriteBeginStores ==
    ASSUME "race" \notin Faults, ParamInv, StoreInv, NEW t \in Threads, WriteBegin(t)
    PROVE  StoreInv' /\ [Storage!Next]_(Storage!vars)
<1>1. /\ Enters(t, {"rk_param_save", "cp"}) /\ GoOn(t, "fill")
      /\ file' = << >> /\ UNCHANGED <<g_ini_d_, slots, kept, power>>
  BY DEF WriteBegin, Others, dict
<1>2. ThreadsWell
  BY InvParts
<1>3. Alone(t) /\ pc[t] = "idle" /\ todo[t] # << >>
  BY <1>1, EntersAlone
<1>4. pc'[t] = "fill" /\ \A x \in Threads : pc'[x] \in {"idle", "fill"}
  BY <1>1, <1>2, <1>3, GoesOnWell
<1>5. ~Writing /\ Writing'
  BY <1>3, <1>4, NotWriting DEF Writing
<1>6. Distinct'
  BY <1>1, <1>4 DEF StoreInv, Distinct
<1>7. OnDisk'
  BY <1>1, <1>5, EmptyText DEF OnDisk
<1>8. StoreInv'
  BY <1>1, <1>6, <1>7 DEF StoreInv
<1>9. Memory' = Memory
  BY <1>1 DEF Memory
<1>10. Storage!Next
  BY <1>1, <1>5, <1>9, StoreBegins
<1> QED BY <1>8, <1>10

LEMMA WriteEndStores ==
    ASSUME ParamInv, StoreInv, NEW t \in Threads, WriteEnd(t)
    PROVE  StoreInv' /\ [Storage!Next]_(Storage!vars)
<1>1. /\ pc[t] = "fill" /\ Return(t) /\ file' = Text(t) /\ kept' = Map(Text(t))
      /\ UNCHANGED <<g_ini_d_, slots, power>>
  BY DEF WriteEnd, dict
<1>2. ThreadsWell
  BY InvParts
<1>3. Alone(t) /\ todo[t] # << >>
  BY <1>1, <1>2, InsideAlone DEF ThreadsWell
<1>4. \A x \in Threads : pc'[x] = "idle"
  BY <1>1, <1>2, <1>3, ReturnsWell
<1>5. Writing /\ ~Writing'
  BY <1>1, <1>4 DEF Writing
<1>6. Distinct'
  BY <1>1, <1>4 DEF StoreInv, Distinct
<1>7. OnDisk'
  BY <1>1, TextOf DEF OnDisk
<1>8. StoreInv'
  BY <1>1, <1>6, <1>7 DEF StoreInv
<1>9. Memory' = Memory
  BY <1>1 DEF Memory
<1>10. \/ kept' = IF Memory = {} THEN {Storage!Nothing} ELSE {Storage!Saved(m) : m \in Memory}
       \/ kept' \in {FactoryMap, ImportMap}
  <2>1. CASE call(t).fn = "cp"
    <3>1. Map(Text(t)) \in {FactoryMap, ImportMap}
      BY <1>1, <2>1, TextOf
    <3> QED BY <1>1, <3>1
  <2>2. CASE call(t).fn # "cp"
    <3>1. Map(Text(t)) = IF Memory = {} THEN {Storage!Nothing}
                         ELSE {Storage!Saved(m) : m \in Memory}
      BY <1>1, <2>2, TextOf
    <3> QED BY <1>1, <3>1
  <2> QED BY <2>1, <2>2
<1>11. Storage!Next
  BY <1>5, <1>9, <1>10, StoreEnds
<1> QED BY <1>8, <1>11

(* The dictionary is gone; what is on disk is as the invariant says.       *)
LEMMA StoreGone ==
    ASSUME g_ini_d_' \in {"null", "freed"}, slots' = << >>, \A x \in Threads : pc'[x] = "idle",
           OnDisk', ~Writing => kept' = kept
    PROVE  StoreInv' /\ [Storage!Next]_(Storage!vars)
<1>1. Distinct'
  BY NoSlots DEF Distinct
<1>2. StoreInv'
  BY <1>1 DEF StoreInv
<1>3. Memory' = {} /\ ~Writing'
  BY DEF Memory, Writing
<1>4. Storage!Next
  BY <1>3, StoreCloses
<1> QED BY <1>2, <1>4

LEMMA OnDiskStays ==
    ASSUME StoreInv, ~Writing, UNCHANGED <<file, kept>>
    PROVE  OnDisk'
BY DEF StoreInv, OnDisk

LEMMA SaveFailsStores ==
    ASSUME "race" \notin Faults, ParamInv, StoreInv, NEW t \in Threads, SaveFails(t)
    PROVE  StoreInv' /\ [Storage!Next]_(Storage!vars)
<1>1. /\ Enters(t, {"rk_param_save"}) /\ Return(t)
      /\ g_ini_d_' = "null" /\ slots' = << >> /\ UNCHANGED <<file, kept, power>>
  BY DEF SaveFails, Others, disk
<1>2. ThreadsWell
  BY InvParts
<1>3. Alone(t) /\ todo[t] # << >> /\ pc[t] = "idle"
  BY <1>1, EntersAlone
<1>4. \A x \in Threads : pc'[x] = "idle"
  BY <1>1, <1>2, <1>3, ReturnsWell
<1>5. ~Writing
  BY <1>3, NotWriting
<1>6. OnDisk'
  BY <1>1, <1>5, OnDiskStays
<1> QED BY <1>1, <1>4, <1>6, StoreGone

LEMMA DeinitFreeStores ==
    ASSUME ParamInv, StoreInv, DeinitFree
    PROVE  StoreInv' /\ [Storage!Next]_(Storage!vars)
<1>1. /\ power = "end" /\ todo[Main] = << >>
      /\ g_ini_d_' \in {"null", "freed"} /\ slots' = << >> /\ UNCHANGED <<file, kept, pc>>
  BY DEF DeinitFree, disk, threads
<1>2. \A x \in Threads : pc[x] = "idle"
  BY <1>1, InvParts, AllIdle
<1>3. OnDisk'
  <2>1. ~Writing
    BY <1>2 DEF Writing
  <2> QED BY <1>1, <2>1, OnDiskStays
<1> QED BY <1>1, <1>2, <1>3, StoreGone

LEMMA FragmentsText ==
    ASSUME NEW lines, IsText(lines), NEW text \in Fragments(lines), text # Unreadable
    PROVE  IsText(text)
<1> DEFINE part(k) == SubSeq(lines, 1, k)
           cut(k) == [part(k) EXCEPT ![k] = Entry(lines[k].key, Torn)]
<1>1. Len(lines) \in Nat /\ lines \in Seq(ToSet(lines)) /\ IsList(lines)
  BY ListElim DEF IsText, IsList
<1>2. IsList(text)
  BY <1>1, FragmentsReadable DEF Readable
<1>3. \A k \in 0 .. Len(lines) :
        Len(part(k)) = k /\ \A i \in 1 .. k : part(k)[i] = lines[i] /\ i \in 1 .. Len(lines)
  BY <1>1
<1>4. (\E k \in 0 .. Len(lines) : text = part(k)) \/ (\E k \in 1 .. Len(lines) : text = cut(k))
  BY DEF Fragments
<1>5. ASSUME NEW k \in 0 .. Len(lines), text = part(k)
      PROVE  \A i \in 1 .. Len(text) : IsKey(text[i].key)
  <2> HIDE DEF part
  <2> QED BY <1>3, <1>5 DEF IsText
<1>6. ASSUME NEW k \in 1 .. Len(lines), text = cut(k)
      PROVE  \A i \in 1 .. Len(text) : IsKey(text[i].key)
  <2>1. PICK p : p = part(k)
    OBVIOUS
  <2>2. PICK e : e = Entry(lines[k].key, Torn)
    OBVIOUS
  <2>3. p \in Seq(ToSet(lines)) /\ Len(p) = k /\ k \in Nat
    BY <1>1, <2>1
  <2>4. \A i \in 1 .. k : p[i] = lines[i] /\ i \in 1 .. Len(lines)
    BY <1>1, <1>3, <2>1
  <2>5. text = [p EXCEPT ![k] = e]
    BY <1>6, <2>1, <2>2
  <2>6. DOMAIN p = 1 .. k
    BY <2>3
  <2>7. text = [i \in 1 .. k |-> IF i = k THEN e ELSE p[i]]
    BY <2>5, <2>6
  <2>8. Len(text) = k
    BY <2>3, <2>7
  <2>9. e.key = lines[k].key
    BY <2>2 DEF Entry
  <2> HIDE DEF part, cut
  <2>10. \A i \in 1 .. k : text[i].key = lines[i].key
    BY <2>4, <2>7, <2>9
  <2> QED BY <2>4, <2>8, <2>10 DEF IsText
<1> HIDE DEF part, cut
<1> QED BY <1>2, <1>4, <1>5, <1>6 DEF IsText, IsList

LEMMA VanishStores ==
    ASSUME ParamInv, StoreInv, Vanish
    PROVE  StoreInv' /\ [Storage!Next]_(Storage!vars)
<1>1. g_ini_d_' = "null" /\ slots' = << >> /\ \A x \in Threads : pc'[x] = "idle"
  BY DEF Vanish
<1>2. CASE UNCHANGED <<file, kept>> /\ ~Writing
  <2>1. OnDisk'
    BY <1>2, OnDiskStays
  <2> QED BY <1>1, <1>2, <2>1, StoreGone
<1>3. CASE /\ Writing /\ kept' = Map(file')
           /\ \E t \in Threads : pc[t] = "fill" /\ file' \in Fragments(Text(t))
  <2>1. PICK t \in Threads : pc[t] = "fill" /\ file' \in Fragments(Text(t))
    BY <1>3
  <2>2. PICK lines : lines = Text(t)
    OBVIOUS
  <2>3. PICK text : text = file'
    OBVIOUS
  <2>4. IsText(lines) /\ text \in Fragments(lines)
    BY <2>1, <2>2, <2>3, TextOf
  <2>5. text # Unreadable => IsText(text)
    BY <2>4, FragmentsText
  <2>6. OnDisk'
    BY <1>3, <2>3, <2>5 DEF OnDisk
  <2> QED BY <1>1, <1>3, <2>6, StoreGone
<1>4. (UNCHANGED <<file, kept>> /\ ~Writing)
      \/ /\ Writing /\ kept' = Map(file')
         /\ \E t \in Threads : pc[t] = "fill" /\ file' \in Fragments(Text(t))
  BY DEF Vanish, disk, Writing
<1> QED BY <1>2, <1>3, <1>4

(* Requests and the end of the system begin with calls to make.            *)
LEMMA OrdersStore ==
    ASSUME ParamInv, StoreInv, NEW t \in Threads, todo[t] = << >>,
           NEW calls, todo' = [todo EXCEPT ![t] = calls],
           Memory' = Memory, UNCHANGED <<slots, file, kept, pc>>
    PROVE  StoreInv' /\ [Storage!Next]_(Storage!vars)
<1>1. pc[t] = "idle" /\ DOMAIN todo = Threads
  BY InvParts DEF ThreadsWell, Orders
<1>2. \A x \in Threads : pc[x] # "idle" => call(x)' = call(x)
  BY <1>1 DEF call
<1>3. Distinct'
  BY <1>2 DEF StoreInv, Distinct
<1>4. Writing' <=> Writing
  BY DEF Writing
<1>5. OnDisk'
  BY <1>4 DEF StoreInv, OnDisk
<1>6. StoreInv'
  BY <1>3, <1>5 DEF StoreInv
<1> QED BY <1>4, <1>6, StoreStutters

LEMMA RequestStores ==
    ASSUME ParamInv, StoreInv, NEW c \in Clients, Request(c)
    PROVE  StoreInv' /\ [Storage!Next]_(Storage!vars)
<1>1. ASSUME NEW calls, Begin(c, calls)
      PROVE  StoreInv' /\ [Storage!Next]_(Storage!vars)
  <2>1. /\ todo[c] = << >> /\ todo' = [todo EXCEPT ![c] = calls]
        /\ UNCHANGED <<g_ini_d_, slots, file, kept, pc, power>>
    BY <1>1 DEF Begin, Serves, dict, disk
  <2>2. c \in Threads /\ Memory' = Memory
    BY <2>1 DEF Threads, Memory
  <2> QED BY <2>1, <2>2, OrdersStore
<1> HIDE DEF Begin
<1>2. \E calls : Begin(c, calls)
  BY DEF Request, SetParam, rk_system_add_user, rk_system_del_user, CopyAndReboot
<1> QED BY <1>1, <1>2

LEMMA DeinitStores ==
    ASSUME ParamInv, StoreInv, rk_param_deinit
    PROVE  StoreInv' /\ [Storage!Next]_(Storage!vars)
<1>1. /\ power = "on" /\ power' = "end" /\ Main \in Threads
      /\ UNCHANGED <<g_ini_d_, slots, file, kept, pc>>
  BY DEF rk_param_deinit, dict, disk, Threads
<1>2. todo[Main] = << >>
  BY <1>1, InvParts DEF ThreadsWell, Powered
<1>3. PICK calls : todo' = [todo EXCEPT ![Main] = calls]
  BY DEF rk_param_deinit
<1>4. Memory' = Memory
  BY <1>1 DEF Memory
<1> QED BY <1>1, <1>2, <1>3, <1>4, OrdersStore

LEMMA InitStores ==
    ASSUME ParamInv, StoreInv, rk_param_init
    PROVE  StoreInv' /\ [Storage!Next]_(Storage!vars)
<1>1. /\ power = "off" /\ todo[Main] = << >> /\ Main \in Threads
      /\ UNCHANGED <<file, kept, pc>>
  BY DEF rk_param_init, disk, Threads
<1>2. CASE /\ g_ini_d_' = "null" /\ UNCHANGED slots
           /\ \E calls : todo' = [todo EXCEPT ![Main] = calls]
  <2>1. Memory = {} /\ Memory' = {}
    BY <1>1, <1>2 DEF Memory, ParamInv, Shape
  <2> QED BY <1>1, <1>2, <2>1, OrdersStore
<1>3. CASE /\ file # Unreadable /\ power' = "on"
           /\ \E d \in {iniparser_load(file)} : g_ini_d_' = "ok" /\ slots' = d.slots
  <2>1. \A x \in Threads : pc[x] = "idle"
    BY <1>1, InvParts, AllIdle
  <2>2. ~Writing /\ ~Writing'
    BY <1>1, <2>1 DEF Writing
  <2>3. PICK lines : lines = file
    OBVIOUS
  <2>4. IsText(lines) /\ kept = Map(lines)
    BY <1>3, <2>2, <2>3 DEF StoreInv, OnDisk
  <2>5. g_ini_d_' = "ok" /\ slots' = iniparser_load(lines).slots
    BY <1>3, <2>3
  <2>6. Unique(slots') /\ Keyed(slots')
    BY <2>4, <2>5, LoadContents DEF Loaded
  <2>7. Distinct'
    BY <1>1, <2>1, <2>6 DEF Distinct
  <2>8. OnDisk'
    BY <1>1, <2>2, OnDiskStays
  <2>9. StoreInv'
    BY <1>3, <2>7, <2>8 DEF StoreInv
  <2>10. kept = {Contents(iniparser_load(lines).slots)}
    BY <1>3, <2>3, <2>4, MapIs
  <2>11. Memory = {} /\ kept # {} /\ Memory' = kept
    BY <1>1, <2>5, <2>10 DEF Memory, ParamInv, Shape
  <2>12. Storage!Next
    BY <1>1, <2>2, <2>11, StoreOpens
  <2> QED BY <2>9, <2>12
<1>4. \/ g_ini_d_' = "null" /\ UNCHANGED slots
         /\ \E calls : todo' = [todo EXCEPT ![Main] = calls]
      \/ /\ file # Unreadable /\ power' = "on"
         /\ \E d \in {iniparser_load(file)} : g_ini_d_' = "ok" /\ slots' = d.slots
  BY DEF rk_param_init, dict
<1> QED BY <1>2, <1>3, <1>4

LEMMA InitStoreInv == Init => StoreInv /\ Storage!Init
<1> SUFFICES ASSUME Init PROVE StoreInv /\ Storage!Init
  OBVIOUS
<1>1. /\ g_ini_d_ = "null" /\ slots = << >> /\ kept = Map(file)
      /\ file \in {Factory, Unreadable} /\ \A x \in Threads : pc[x] = "idle"
  BY DEF Init
<1>2. ~Writing /\ Memory = {}
  BY <1>1 DEF Writing, Memory
<1>3. StoreInv
  BY <1>1, NoSlots, ParamAssumption DEF StoreInv, Distinct, OnDisk
<1>4. kept \in {FactoryMap, ImportMap} \cup {{}}
  BY <1>1 DEF FactoryMap, Map
<1>5. (\E t \in Threads : pc[t] = "fill") = FALSE
  BY <1>2 DEF Writing
<1> QED BY <1>2, <1>3, <1>4, <1>5 DEF Storage!Init, Memory

LEMMA StepStores ==
    ASSUME "race" \notin Faults
    PROVE  ParamInv /\ StoreInv /\ [Next]_vars => StoreInv' /\ [Storage!Next]_(Storage!vars)
<1> SUFFICES ASSUME ParamInv, StoreInv, [Next]_vars
             PROVE  StoreInv' /\ [Storage!Next]_(Storage!vars)
  OBVIOUS
<1>1. ASSUME NEW t \in Threads, Step(t) \/ SaveFails(t)
      PROVE  StoreInv' /\ [Storage!Next]_(Storage!vars)
  BY <1>1, SetFindStores, SetProbeStores, UnsetStores, CountStores, GetUserNumStores,
     WriteBeginStores, WriteEndStores, SaveFailsStores DEF Step
<1>2. ASSUME NEW c \in Clients, Request(c) \/ RebootForced(c)
      PROVE  StoreInv' /\ [Storage!Next]_(Storage!vars)
  BY <1>2, RequestStores, VanishStores DEF RebootForced
<1>3. CASE rk_param_init \/ rk_param_deinit \/ DeinitFree \/ Crash
  BY <1>3, InitStores, DeinitStores, DeinitFreeStores, VanishStores DEF Crash
<1>4. CASE UNCHANGED vars
  <2>1. UNCHANGED <<g_ini_d_, slots, file, kept, power, pc, todo>>
    BY <1>4 DEF vars, dict, disk, threads
  <2>2. StoreInv'
    BY <2>1 DEF StoreInv, Distinct, OnDisk, Writing, call
  <2>3. Memory' = Memory /\ (Writing' <=> Writing)
    BY <2>1 DEF Memory, Writing
  <2> QED BY <2>1, <2>2, <2>3, StoreStutters
<1> QED BY <1>1, <1>2, <1>3, <1>4 DEF Next

(* What is in memory and what a boot finds on disk are those of the        *)
(* abstract store: a change is a change of one parameter, a save puts      *)
(* exactly what is in memory on disk, each parameter with its section, a   *)
(* boot loads exactly what the last save or copy put there, and a crash    *)
(* spoils the disk only in the middle of a write.  For any files, users,   *)
(* values and table sizes, as long as unlocked calls do not overlap others *)
(* (rk_param_init, rk_param_save, dictionary_set, iniparser_load and       *)
(* iniparser_dump_ini together).                                           *)
THEOREM ParamImplementsStore ==
    ASSUME "race" \notin Faults
    PROVE  Spec => ImplementsStore
<1>1. Init => ParamInv /\ StoreInv /\ Storage!Init
  BY InitInv, InitStoreInv
<1>2. ParamInv /\ StoreInv /\ [Next]_vars => (ParamInv /\ StoreInv)'
  BY StepInv, StepStores
<1>3. ParamInv /\ StoreInv /\ [Next]_vars => [Storage!Next]_(Storage!vars)
  BY StepStores
<1> QED BY <1>1, <1>2, <1>3, PTL DEF Spec, ImplementsStore, Storage!Spec

-----------------------------------------------------------------------------
(* The number of users.  In a map, user_num is the number of the users     *)
(* that have a section, less what a request has not counted yet.           *)
Present(m) == {u \in Users : Section(u) \in DOMAIN m}
Agree(m, due) ==
    /\ Section(System) \in DOMAIN m /\ user_num \in DOMAIN m
    /\ m[user_num] = Cardinality(Present(m)) - due

(* The calls left of a user request, which adds or deletes a user for a    *)
(* step of 1 or -1: the section first, its other keys, then the number.    *)
Opens(a, step) ==
    \E u \in Users :
      /\ a.key = Section(u)
      /\ a.fn = IF step = 1 THEN "iniparser_set" ELSE "iniparser_unset"
Details(a) ==
    /\ a.fn = "iniparser_set"
    /\ \E u \in Users, f \in {"user_level", "user_name", "password"} : a.key = UserKey(u, f)
UserPlan(s, step) ==
    /\ s # << >> /\ s[Len(s)].fn = "rk_param_save"
    /\ Len(s) >= 2 => s[Len(s) - 1].fn = "set_user_num" /\ s[Len(s) - 1].key = user_num
    /\ Len(s) >= 3 => s[Len(s) - 2].fn = "get_user_num" /\ s[Len(s) - 2].val = step
    /\ \A i \in 1 .. Len(s) - 3 : (i = 1 /\ Opens(s[1], step)) \/ Details(s[i])

(* The calls of other requests, and of main.                               *)
OtherCall(a) ==
    /\ a.fn \in {"rk_param_set", "cp", "reboot -f"}
    /\ a.fn = "rk_param_set" => a.key = setting
OtherPlan(s) == \A i \in 1 .. Len(s) : OtherCall(s[i])
MainPlan(s) == \A i \in 1 .. Len(s) : s[i].fn \in {"cp", "rk_param_save"}

(* How far a request has come: the section is due, the number is due, it   *)
(* is read, it is written.                                                 *)
Stage(s, step, m, at, num) ==
    /\ Len(s) <= 3 => at \in {"idle", "fill"}
    /\ Len(s) >= 4 /\ Opens(s[1], step) /\ at \in {"idle", "probe"} =>
         Agree(m, 0) /\ (s[1].key \in DOMAIN m <=> step = -1)
    /\ Len(s) >= 3 /\ ~(Len(s) >= 4 /\ Opens(s[1], step) /\ at \in {"idle", "probe"}) =>
         Agree(m, step)
    /\ Len(s) = 2 =>
         /\ Section(System) \in DOMAIN m /\ user_num \in DOMAIN m
         /\ num = Cardinality(Present(m))
    /\ Len(s) = 1 => Agree(m, 0)

Steps == {1, -1}
Planned ==
    /\ \A c \in Clients : OtherPlan(todo[c]) \/ \E step \in Steps : UserPlan(todo[c], step)
    /\ MainPlan(todo[Main])
UserInv ==
    /\ Planned
    /\ orderly =>
         /\ \A m \in kept : Agree(m, 0)
         /\ \A c, d \in UserRequests : c = d
         /\ g_ini_d_ = "ok" =>
              /\ UserRequests = {} => Agree(Contents(slots), 0)
              /\ \A c \in UserRequests : \E step \in Steps :
                   UserPlan(todo[c], step) /\ Stage(todo[c], step, Contents(slots), pc[c], reg[c])

-----------------------------------------------------------------------------
(* Maps and the number of their users.                                     *)

(* Two maps that agree on who is a user and on the number.                 *)
SameUsers(m, w) ==
    /\ Section(System) \in DOMAIN m => Section(System) \in DOMAIN w
    /\ \A u \in Users : Section(u) \in DOMAIN w <=> Section(u) \in DOMAIN m
    /\ user_num \in DOMAIN m => user_num \in DOMAIN w /\ w[user_num] = m[user_num]

LEMMA FieldsApart ==
    ASSUME UsersCounted
    PROVE  /\ user_num # setting
           /\ \A x : Section(x) # user_num /\ Section(x) # setting
           /\ \A x, u, f : f \in {"user_level", "user_name", "password"} =>
                UserKey(u, f) # user_num /\ UserKey(u, f) # Section(x)
           /\ \A x, u : Section(x) = Section(u) => x = u
<1>1. /\ user_num.field = "user_num" /\ setting.field = "setting"
      /\ \A x : Section(x).field = NoField /\ Section(x).sec = x
      /\ \A u, f : UserKey(u, f).field = f
  BY DEF user_num, setting, Section, UserKey
<1>2. NoField \notin {"user_num", "setting", "user_level", "user_name", "password"}
  BY DEF UsersCounted
<1>3. user_num # setting
  BY <1>1
<1>4. \A x : Section(x) # user_num /\ Section(x) # setting
  BY <1>1, <1>2
<1>5. ASSUME NEW x, NEW u, NEW f \in {"user_level", "user_name", "password"}
      PROVE  UserKey(u, f) # user_num /\ UserKey(u, f) # Section(x)
  <2>1. f # "user_num" /\ f # NoField
    BY <1>2
  <2>2. UserKey(u, f).field = f
    BY <1>1
  <2> QED BY <1>1, <2>1, <2>2
<1>6. \A x, u : Section(x) = Section(u) => x = u
  BY <1>1
<1> QED BY <1>3, <1>4, <1>5, <1>6

LEMMA PresentCount ==
    ASSUME UsersCounted, NEW m
    PROVE  /\ IsFiniteSet(Present(m)) /\ Cardinality(Present(m)) \in Nat
           /\ Cardinality(Present(m)) \in 0 .. Cardinality(Users)
<1>1. IsFiniteSet(Users) /\ Present(m) \in SUBSET Users
  BY DEF UsersCounted, Present
<1>2. /\ IsFiniteSet(Present(m)) /\ Cardinality(Present(m)) <= Cardinality(Users)
      /\ Cardinality(Present(m)) \in Nat /\ Cardinality(Users) \in Nat
  BY <1>1, FS_Subset, FS_CardinalityType
<1> QED BY <1>2

LEMMA CountsAgree ==
    ASSUME UsersCounted, NEW m
    PROVE  CountsUsers(m) <=> Agree(m, 0)
<1>1. Cardinality(Present(m)) - 0 = Cardinality(Present(m))
  BY PresentCount
<1> QED BY <1>1 DEF CountsUsers, Agree, Present

LEMMA SameAgree ==
    ASSUME NEW m, NEW w, SameUsers(m, w)
    PROVE  /\ Present(w) = Present(m)
           /\ \A due : Agree(m, due) => Agree(w, due)
<1>1. Present(w) = Present(m)
  BY DEF SameUsers, Present
<1> QED BY <1>1 DEF SameUsers, Agree

(* Setting a key that is neither a section nor the number.                 *)
LEMMA WithSame ==
    ASSUME NEW m, NEW k, NEW v, k # user_num, \A x : Section(x) # k
    PROVE  SameUsers(m, With(m, k, v))
<1> PICK w : w = With(m, k, v)
  OBVIOUS
<1>1. DOMAIN w = DOMAIN m \cup {k} /\ \A x \in DOMAIN m : x # k => w[x] = m[x]
  BY DEF With
<1> QED BY <1>1 DEF SameUsers

(* A new section.                                                          *)
LEMMA WithSection ==
    ASSUME UsersCounted, NEW m, NEW u \in Users, Section(u) \notin DOMAIN m, NEW v, Agree(m, 0)
    PROVE  Agree(With(m, Section(u), v), 1)
<1> PICK w : w = With(m, Section(u), v)
  OBVIOUS
<1> PICK k : k = Section(u)
  OBVIOUS
<1>1. DOMAIN w = DOMAIN m \cup {k} /\ \A x \in DOMAIN m : x # k => w[x] = m[x]
  BY DEF With
<1>2. Present(w) = Present(m) \cup {u} /\ u \notin Present(m)
  BY <1>1, FieldsApart DEF Present
<1>3. Cardinality(Present(w)) = Cardinality(Present(m)) + 1
  BY <1>2, PresentCount, FS_AddElement
<1>4. w[user_num] = m[user_num] /\ user_num \in DOMAIN w /\ Section(System) \in DOMAIN w
  BY <1>1, FieldsApart DEF Agree
<1>5. m[user_num] = Cardinality(Present(m)) - 0 /\ Cardinality(Present(m)) \in Nat
  BY PresentCount DEF Agree
<1>6. w[user_num] = Cardinality(Present(w)) - 1
  BY <1>3, <1>4, <1>5
<1> QED BY <1>4, <1>6 DEF Agree

(* A section removed.                                                      *)
LEMMA WithoutSection ==
    ASSUME UsersCounted, NEW m, NEW u \in Users, Section(u) \in DOMAIN m, Agree(m, 0)
    PROVE  Agree([x \in DOMAIN m \ {Section(u)} |-> m[x]], -1)
<1> PICK k : k = Section(u)
  OBVIOUS
<1>0. PICK w : w = [x \in DOMAIN m \ {k} |-> m[x]]
  OBVIOUS
<1>1. DOMAIN w = DOMAIN m \ {k} /\ \A x \in DOMAIN m : x # k => w[x] = m[x]
  BY <1>0
<1>2. Present(w) = Present(m) \ {u} /\ u \in Present(m)
  BY <1>1, FieldsApart DEF Present
<1>3. Cardinality(Present(w)) = Cardinality(Present(m)) - 1
  BY <1>2, PresentCount, FS_RemoveElement
<1>4. user_num \in DOMAIN m /\ Section(System) \in DOMAIN m
  BY DEF Agree
<1>5. user_num # k /\ Section(System) # k
  BY FieldsApart DEF UsersCounted
<1>6. w[user_num] = m[user_num] /\ user_num \in DOMAIN w /\ Section(System) \in DOMAIN w
  BY <1>1, <1>4, <1>5
<1>7. m[user_num] = Cardinality(Present(m)) - 0 /\ Cardinality(Present(m)) \in Nat
  BY PresentCount DEF Agree
<1>8. w[user_num] = Cardinality(Present(w)) - (-1)
  BY <1>3, <1>6, <1>7
<1> QED BY <1>0, <1>6, <1>8 DEF Agree

(* The number written.                                                     *)
LEMMA WithNumber ==
    ASSUME UsersCounted, NEW m, Section(System) \in DOMAIN m,
           NEW v, v = Cardinality(Present(m))
    PROVE  Agree(With(m, user_num, v), 0)
<1> PICK w : w = With(m, user_num, v)
  OBVIOUS
<1>1. DOMAIN w = DOMAIN m \cup {user_num} /\ w[user_num] = v
  BY DEF With
<1>2. Present(w) = Present(m)
  BY <1>1, FieldsApart DEF Present
<1>3. Cardinality(Present(w)) - 0 = v
  BY <1>2, PresentCount
<1> QED BY <1>1, <1>3 DEF Agree

(* Saved and read back: the system has a section, so no key goes flat.     *)
LEMMA SavedAgrees ==
    ASSUME UsersCounted, NEW m, Agree(m, 0)
    PROVE  Agree(Storage!Saved(m), 0)
<1> PICK w : w = Storage!Saved(m)
  OBVIOUS
<1>1. \A x : Section(x) \in DOMAIN m => x \in Storage!Sections(m)
  BY DEF Storage!Sections, Section
<1>2. /\ Section(System) \in DOMAIN m /\ user_num \in DOMAIN m
      /\ m[user_num] = Cardinality(Present(m)) - 0
  BY DEF Agree
<1>3. System \in Storage!Sections(m)
  BY <1>1, <1>2
<1>4. w = [k \in {x \in DOMAIN m : x.sec \in Storage!Sections(m)} |-> Reread(m[k])]
  BY <1>3 DEF Storage!Saved
<1>5. user_num.sec = System /\ \A x : Section(x).sec = x
  BY DEF user_num, Section
<1>6. user_num \in DOMAIN w /\ w[user_num] = Reread(m[user_num])
  BY <1>2, <1>3, <1>4, <1>5
<1>7. \A x : Section(x) \in DOMAIN w <=> Section(x) \in DOMAIN m
  BY <1>1, <1>4, <1>5
<1>8. Reread(m[user_num]) = m[user_num]
  <2>1. m[user_num] \in 0 .. Cardinality(Users)
    BY <1>2, PresentCount
  <2> QED BY <2>1 DEF UsersCounted
<1>9. Present(w) = Present(m)
  BY <1>7 DEF Present
<1> QED BY <1>2, <1>6, <1>7, <1>8, <1>9 DEF Agree

-----------------------------------------------------------------------------
(* The calls a user request has left.                                      *)

LEMMA TailIs ==
    ASSUME NEW s, IsList(s), s # << >>
    PROVE  /\ Len(s) \in Nat /\ Len(s) >= 1 /\ Head(s) = s[1]
           /\ IsList(Tail(s)) /\ Len(Tail(s)) = Len(s) - 1
           /\ \A i \in 1 .. Len(s) - 1 : Tail(s)[i] = s[i + 1]
<1>1. s \in Seq(ToSet(s)) /\ Len(s) \in Nat /\ Len(s) # 0
  BY ListElim DEF IsList
<1>2. Tail(s) \in Seq(ToSet(s)) /\ Len(Tail(s)) = Len(s) - 1 /\ Head(s) = s[1]
  BY <1>1
<1>3. \A i \in 1 .. Len(s) - 1 : Tail(s)[i] = s[i + 1]
  BY <1>1
<1>4. IsList(Tail(s))
  BY <1>2, ListIntro
<1> QED BY <1>1, <1>2, <1>3, <1>4

(* A detail is not the section of a user.                                  *)
LEMMA DetailsApart ==
    ASSUME UsersCounted, NEW a, Details(a)
    PROVE  /\ a.fn = "iniparser_set"
           /\ a.key # user_num /\ \A x : Section(x) # a.key
           /\ \A step : ~Opens(a, step)
<1>1. PICK u \in Users, f \in {"user_level", "user_name", "password"} : a.key = UserKey(u, f)
  BY DEF Details
<1>2. a.key # user_num /\ \A x : Section(x) # a.key
  BY <1>1, FieldsApart
<1> QED BY <1>2 DEF Details, Opens

(* The first call left tells how many are left.                            *)
LEMMA PlanHead ==
    ASSUME NEW s, IsList(s), NEW step \in Steps, UserPlan(s, step)
    PROVE  /\ s # << >> /\ Len(s) \in Nat /\ Len(s) >= 1 /\ Head(s) = s[1]
           /\ Len(s) = 1 => s[1].fn = "rk_param_save"
           /\ Len(s) = 2 => s[1].fn = "set_user_num" /\ s[1].key = user_num
           /\ Len(s) = 3 => s[1].fn = "get_user_num" /\ s[1].val = step
           /\ Len(s) >= 4 => Opens(s[1], step) \/ Details(s[1])
           /\ s[1].fn \in {"iniparser_set", "iniparser_unset"} <=> Len(s) >= 4
<1>1. s # << >>
  BY DEF UserPlan
<1>2. Len(s) \in Nat /\ Len(s) >= 1 /\ Head(s) = s[1]
  BY <1>1, TailIs
<1>3. Len(s) = 1 => s[1].fn = "rk_param_save"
  BY DEF UserPlan
<1>4. Len(s) = 2 => s[1].fn = "set_user_num" /\ s[1].key = user_num
  BY DEF UserPlan
<1>5. Len(s) = 3 => s[1].fn = "get_user_num" /\ s[1].val = step
  BY DEF UserPlan
<1>6. Len(s) >= 4 => Opens(s[1], step) \/ Details(s[1])
  <2>1. Len(s) >= 4 => 1 \in 1 .. Len(s) - 3
    BY <1>2
  <2> QED BY <2>1 DEF UserPlan
<1>7. Opens(s[1], step) \/ Details(s[1]) => s[1].fn \in {"iniparser_set", "iniparser_unset"}
  BY DEF Opens, Details
<1>8. s[1].fn \in {"iniparser_set", "iniparser_unset"} => Len(s) >= 4
  <2>1. PICK len : len = Len(s)
    OBVIOUS
  <2>2. len \in Nat /\ len >= 1
    BY <1>2, <2>1
  <2>3. len = 1 \/ len = 2 \/ len = 3 \/ len >= 4
    BY <2>2
  <2> QED BY <1>3, <1>4, <1>5, <2>1, <2>3
<1> QED BY <1>1, <1>2, <1>3, <1>4, <1>5, <1>6, <1>7, <1>8

LEMMA PlanTail ==
    ASSUME NEW s, IsList(s), NEW step \in Steps, UserPlan(s, step), Len(s) > 1
    PROVE  /\ UserPlan(Tail(s), step) /\ Len(Tail(s)) = Len(s) - 1 /\ Tail(s) # << >>
           /\ Len(Tail(s)) >= 4 => Details(Tail(s)[1])
<1>1. s # << >>
  BY DEF UserPlan
<1> PICK r : r = Tail(s)
  OBVIOUS
<1> PICK len : len = Len(s)
  OBVIOUS
<1>2. /\ len \in Nat /\ IsList(r) /\ Len(r) = len - 1
      /\ \A i \in 1 .. len - 1 : r[i] = s[i + 1]
  BY <1>1, TailIs
<1>3. r # << >>
  <2>1. Len(<< >>) = 0
    OBVIOUS
  <2> QED BY <1>2, <2>1
<1>4. r[Len(r)].fn = "rk_param_save"
  <2>1. len - 1 \in 1 .. len - 1 /\ (len - 1) + 1 = len
    BY <1>2
  <2> QED BY <1>2, <2>1 DEF UserPlan
<1>5. Len(r) >= 2 => r[Len(r) - 1].fn = "set_user_num" /\ r[Len(r) - 1].key = user_num
  <2> SUFFICES ASSUME Len(r) >= 2
               PROVE  r[Len(r) - 1].fn = "set_user_num" /\ r[Len(r) - 1].key = user_num
    OBVIOUS
  <2>1. len >= 2 /\ Len(r) - 1 \in 1 .. len - 1 /\ (Len(r) - 1) + 1 = len - 1
    BY <1>2
  <2>2. r[Len(r) - 1] = s[len - 1]
    BY <1>2, <2>1
  <2> QED BY <2>1, <2>2 DEF UserPlan
<1>6. Len(r) >= 3 => r[Len(r) - 2].fn = "get_user_num" /\ r[Len(r) - 2].val = step
  <2> SUFFICES ASSUME Len(r) >= 3
               PROVE  r[Len(r) - 2].fn = "get_user_num" /\ r[Len(r) - 2].val = step
    OBVIOUS
  <2>1. len >= 3 /\ Len(r) - 2 \in 1 .. len - 1 /\ (Len(r) - 2) + 1 = len - 2
    BY <1>2
  <2>2. r[Len(r) - 2] = s[len - 2]
    BY <1>2, <2>1
  <2> QED BY <2>1, <2>2 DEF UserPlan
<1>7. \A i \in 1 .. Len(r) - 3 : Details(r[i])
  <2> TAKE i \in 1 .. Len(r) - 3
  <2>1. i + 1 \in 1 .. len - 3 /\ i \in 1 .. len - 1 /\ i + 1 # 1
    BY <1>2
  <2>2. Details(s[i + 1])
    BY <2>1 DEF UserPlan
  <2> QED BY <1>2, <2>1, <2>2
<1>8. Len(r) >= 4 => Details(r[1])
  <2>1. Len(r) >= 4 => 1 \in 1 .. Len(r) - 3
    BY <1>2
  <2> QED BY <1>7, <2>1
<1>9. UserPlan(r, step)
  BY <1>3, <1>4, <1>5, <1>6, <1>7 DEF UserPlan
<1> QED BY <1>2, <1>3, <1>8, <1>9

LEMMA OtherTail ==
    ASSUME NEW s, IsList(s), s # << >>, OtherPlan(s)
    PROVE  OtherPlan(Tail(s)) /\ OtherCall(Head(s))
<1>1. /\ Len(s) \in Nat /\ Len(s) >= 1 /\ Head(s) = s[1] /\ Len(Tail(s)) = Len(s) - 1
      /\ \A i \in 1 .. Len(s) - 1 : Tail(s)[i] = s[i + 1]
  BY TailIs
<1>2. 1 \in 1 .. Len(s) /\ \A i \in 1 .. Len(s) - 1 : i + 1 \in 1 .. Len(s)
  BY <1>1
<1> QED BY <1>1, <1>2 DEF OtherPlan

(* A plan shows whether its request is one of a user.                      *)
LEMMA PlanKind ==
    ASSUME NEW s, IsList(s)
    PROVE  /\ OtherPlan(s) => ~(s # << >> /\ Last(s).fn = "rk_param_save")
           /\ \A step : UserPlan(s, step) => s # << >> /\ Last(s).fn = "rk_param_save"
<1>1. Last(s) = s[Len(s)]
  BY DEF Last
<1>2. s # << >> => Len(s) \in 1 .. Len(s)
  BY TailIs
<1> QED BY <1>1, <1>2 DEF OtherPlan, OtherCall, UserPlan

(* What has been reached does not change with the rest of the map.         *)
LEMMA StageSame ==
    ASSUME NEW s, NEW step, NEW m, NEW w, NEW at, NEW num,
           SameUsers(m, w), Stage(s, step, m, at, num)
    PROVE  Stage(s, step, w, at, num)
<1>1. Present(w) = Present(m) /\ \A due : Agree(m, due) => Agree(w, due)
  BY SameAgree
<1>2. Opens(s[1], step) => (s[1].key \in DOMAIN w <=> s[1].key \in DOMAIN m)
  BY DEF Opens, SameUsers
<1>3. Section(System) \in DOMAIN m /\ user_num \in DOMAIN m =>
        Section(System) \in DOMAIN w /\ user_num \in DOMAIN w
  BY DEF SameUsers
<1> QED BY <1>1, <1>2, <1>3 DEF Stage

(* The section stored or removed and its details due, or none of them.     *)
LEMMA StageAgree ==
    ASSUME NEW s, NEW step, NEW m, NEW at, NEW num, Stage(s, step, m, at, num), Len(s) >= 4,
           ~Opens(s[1], step) \/ at \notin {"idle", "probe"}
    PROVE  Agree(m, step)
<1>1. Len(s) >= 3
  BY DEF Stage
<1> QED BY <1>1 DEF Stage

-----------------------------------------------------------------------------
(* What a step makes of the requests: the step of a thread that serves no  *)
(* user request, and the step of the client that does.                     *)
OthersPlan(t, s) == IF t = Main THEN MainPlan(s) ELSE OtherPlan(s)
UserAt(t, step) ==
    /\ step \in Steps /\ UserPlan(todo[t], step)
    /\ orderly /\ g_ini_d_ = "ok" =>
         Stage(todo[t], step, Contents(slots), pc[t], reg[t])

LEMMA ThreadLists ==
    ASSUME ParamInv
    PROVE  /\ DOMAIN todo = Threads /\ \A x \in Threads : IsList(todo[x])
           /\ Main \in Threads /\ Main \notin Clients /\ \A c \in Clients : c \in Threads /\ c # Main
BY InvParts, ParamAssumption DEF ThreadsWell, Orders, Calling, Threads

LEMMA UserThread ==
    ASSUME ParamInv, UserInv, NEW t \in UserRequests
    PROVE  /\ t \in Clients /\ t \in Threads /\ IsList(todo[t])
           /\ orderly => UserRequests \subseteq {t}
           /\ \E step : UserAt(t, step)
<1>1. t \in Clients /\ t \in Threads /\ IsList(todo[t])
  BY ThreadLists DEF UserRequests
<1>2. orderly => UserRequests \subseteq {t}
  <2>1. orderly => \A c, d \in UserRequests : c = d
    BY DEF UserInv
  <2> QED BY <2>1
<1>3. CASE orderly /\ g_ini_d_ = "ok"
  <2>1. \E step : UserAt(t, step)
    BY <1>3 DEF UserInv, UserAt
  <2> QED BY <1>1, <1>2, <2>1
<1>4. CASE ~(orderly /\ g_ini_d_ = "ok")
  <2>1. ~OtherPlan(todo[t])
    BY <1>1, PlanKind DEF UserRequests
  <2>2. PICK step \in Steps : UserPlan(todo[t], step)
    BY <1>1, <2>1 DEF UserInv, Planned
  <2>3. UserAt(t, step)
    BY <1>4, <2>2 DEF UserAt
  <2> QED BY <1>1, <1>2, <2>3
<1> QED BY <1>3, <1>4

LEMMA OtherThread ==
    ASSUME ParamInv, UserInv, NEW t \in Threads, t \notin UserRequests
    PROVE  OthersPlan(t, todo[t])
<1>1. CASE t = Main
  BY <1>1 DEF UserInv, Planned, OthersPlan
<1>2. CASE t # Main
  <2>1. t \in Clients /\ IsList(todo[t])
    BY <1>2, ThreadLists DEF Threads
  <2>2. \A step : ~UserPlan(todo[t], step)
    BY <2>1, PlanKind DEF UserRequests
  <2> QED BY <1>2, <2>1, <2>2 DEF UserInv, Planned, OthersPlan
<1> QED BY <1>1, <1>2

(* No user request is running after the step.                              *)
LEMMA NoUserSteps ==
    ASSUME \A c \in Clients : todo'[c] = << >>, MainPlan(todo'[Main]),
           orderly' => \A m \in kept' : Agree(m, 0),
           orderly' /\ g_ini_d_' = "ok" => Agree(Contents(slots'), 0)
    PROVE  UserInv'
<1>1. UserRequests' = {}
  BY DEF UserRequests
<1>2. Planned'
  <2>1. OtherPlan(<< >>)
    <3>1. Len(<< >>) = 0
      OBVIOUS
    <3> QED BY <3>1 DEF OtherPlan
  <2> QED BY <2>1 DEF Planned
<1> QED BY <1>1, <1>2 DEF UserInv

LEMMA OtherSteps ==
    ASSUME ParamInv, UserInv, NEW t \in Threads, t \notin UserRequests,
           NEW s, IsList(s), OthersPlan(t, s),
           \A x \in Threads : todo'[x] = IF x = t THEN s ELSE todo[x],
           \A x \in Threads : x # t => pc'[x] = pc[x] /\ reg'[x] = reg[x],
           orderly' => orderly, orderly' => \A m \in kept' : Agree(m, 0),
           orderly' /\ g_ini_d_' = "ok" =>
             g_ini_d_ = "ok" /\ SameUsers(Contents(slots), Contents(slots'))
    PROVE  UserInv'
<1>1. \A x \in Threads : todo'[x] = IF x = t THEN s ELSE todo[x]
  OBVIOUS
<1>2. UserRequests' = UserRequests
  <2>1. ASSUME NEW c \in Clients
        PROVE  c \in UserRequests' <=> c \in UserRequests
    <3>1. CASE c = t
      <4>1. OtherPlan(s) /\ todo'[c] = s
        BY <1>1, <3>1, ThreadLists DEF OthersPlan
      <4>2. ~(todo'[c] # << >> /\ Last(todo'[c]).fn = "rk_param_save")
        BY <4>1, PlanKind
      <4> QED BY <3>1, <4>2 DEF UserRequests
    <3>2. CASE c # t
      <4>1. todo'[c] = todo[c]
        BY <1>1, <3>2, ThreadLists
      <4> QED BY <4>1 DEF UserRequests
    <3> QED BY <3>1, <3>2
  <2> QED BY <2>1 DEF UserRequests
<1>3. Planned'
  <2>1. \A c \in Clients : OtherPlan(todo'[c]) \/ \E step \in Steps : UserPlan(todo'[c], step)
    BY <1>1, ThreadLists DEF UserInv, Planned, OthersPlan
  <2>2. MainPlan(todo'[Main])
    BY <1>1, ThreadLists DEF UserInv, Planned, OthersPlan
  <2> QED BY <2>1, <2>2 DEF Planned
<1>4. ASSUME orderly', g_ini_d_' = "ok"
      PROVE  /\ UserRequests' = {} => Agree(Contents(slots'), 0)
             /\ \A c \in UserRequests' : \E step \in Steps :
                  /\ UserPlan(todo'[c], step)
                  /\ Stage(todo'[c], step, Contents(slots'), pc'[c], reg'[c])
  <2>1. PICK m : m = Contents(slots)
    OBVIOUS
  <2>2. PICK w : w = Contents(slots')
    OBVIOUS
  <2>3. orderly /\ g_ini_d_ = "ok" /\ SameUsers(m, w)
    BY <1>4, <2>1, <2>2
  <2>4. UserRequests' = {} => Agree(w, 0)
    BY <1>2, <2>1, <2>3, SameAgree DEF UserInv
  <2>5. ASSUME NEW c \in UserRequests
        PROVE  \E step \in Steps :
                 UserPlan(todo'[c], step) /\ Stage(todo'[c], step, w, pc'[c], reg'[c])
    <3>1. PICK step \in Steps : UserPlan(todo[c], step) /\ Stage(todo[c], step, m, pc[c], reg[c])
      BY <2>1, <2>3 DEF UserInv
    <3>2. todo'[c] = todo[c] /\ pc'[c] = pc[c] /\ reg'[c] = reg[c]
      BY <1>1, ThreadLists DEF UserRequests
    <3>3. Stage(todo[c], step, w, pc[c], reg[c])
      BY <2>3, <3>1, StageSame
    <3> QED BY <3>1, <3>2, <3>3
  <2> QED BY <1>2, <2>2, <2>4, <2>5
<1>5. orderly' => \A c, d \in UserRequests' : c = d
  BY <1>2 DEF UserInv
<1> QED BY <1>3, <1>4, <1>5 DEF UserInv

(* Where a request has come to: it has calls left, or it has ended.        *)
Reached(s, step, m, at, num) ==
    IF s = << >> THEN Agree(m, 0) ELSE Stage(s, step, m, at, num)

LEMMA UserSteps ==
    ASSUME ParamInv, UserInv, NEW t \in Clients,
           NEW step \in Steps, NEW s, s = << >> \/ UserPlan(s, step),
           \A x \in Threads : todo'[x] = IF x = t THEN s ELSE todo[x],
           orderly' => orderly /\ UserRequests \subseteq {t},
           orderly' => \A m \in kept' : Agree(m, 0),
           orderly' /\ g_ini_d_' = "ok" => Reached(s, step, Contents(slots'), pc'[t], reg'[t])
    PROVE  UserInv'
<1>1. \A x \in Threads : todo'[x] = IF x = t THEN s ELSE todo[x]
  OBVIOUS
<1>2. todo'[t] = s /\ \A c \in Clients : c # t => todo'[c] = todo[c]
  BY <1>1, ThreadLists
<1>3. Planned'
  <2>1. OtherPlan(<< >>)
    <3>1. Len(<< >>) = 0
      OBVIOUS
    <3> QED BY <3>1 DEF OtherPlan
  <2>2. \A c \in Clients : OtherPlan(todo'[c]) \/ \E e \in Steps : UserPlan(todo'[c], e)
    BY <1>2, <2>1 DEF UserInv, Planned
  <2>3. MainPlan(todo'[Main])
    BY <1>1, ThreadLists DEF UserInv, Planned
  <2> QED BY <2>2, <2>3 DEF Planned
<1>4. orderly' => UserRequests' \subseteq {t}
  BY <1>2 DEF UserRequests
<1>5. s = << >> => t \notin UserRequests'
  BY <1>2 DEF UserRequests
<1>6. UserPlan(s, step) => t \in UserRequests'
  <2>1. UserPlan(s, step) => s # << >> /\ Last(s).fn = "rk_param_save"
    BY DEF UserPlan, Last
  <2> QED BY <1>2, <2>1 DEF UserRequests
<1>7. ASSUME orderly', g_ini_d_' = "ok"
      PROVE  /\ UserRequests' = {} => Agree(Contents(slots'), 0)
             /\ \A c \in UserRequests' : \E e \in Steps :
                  /\ UserPlan(todo'[c], e)
                  /\ Stage(todo'[c], e, Contents(slots'), pc'[c], reg'[c])
  <2>1. Reached(s, step, Contents(slots'), pc'[t], reg'[t])
    BY <1>7
  <2>2. CASE s = << >>
    BY <1>4, <1>5, <1>7, <2>1, <2>2 DEF Reached
  <2>3. CASE s # << >>
    BY <1>2, <1>4, <1>6, <1>7, <2>1, <2>3 DEF Reached
  <2> QED BY <2>2, <2>3
<1> QED BY <1>3, <1>4, <1>7 DEF UserInv

(* The same for the calls of a thread.                                     *)
LEMMA Returned ==
    ASSUME ParamInv, NEW t \in Threads, todo[t] # << >>, Return(t)
    PROVE  /\ \A x \in Threads : todo'[x] = IF x = t THEN Tail(todo[t]) ELSE todo[x]
           /\ IsList(Tail(todo[t]))
           /\ pc'[t] = "idle" /\ \A x \in Threads : x # t => pc'[x] = pc[x]
<1>1. todo' = [todo EXCEPT ![t] = Tail(todo[t])] /\ pc' = [pc EXCEPT ![t] = "idle"]
  BY DEF Return
<1>2. IsList(Tail(todo[t]))
  BY ThreadLists, TailIs
<1>3. DOMAIN pc = Threads /\ DOMAIN todo = Threads
  BY ThreadLists DEF ParamInv, TypeOK
<1> QED BY <1>1, <1>2, <1>3

LEMMA WentOn ==
    ASSUME ParamInv, NEW t \in Threads, NEW l, GoOn(t, l)
    PROVE  /\ \A x \in Threads : todo'[x] = IF x = t THEN todo[t] ELSE todo[x]
           /\ IsList(todo[t])
           /\ pc'[t] = l /\ \A x \in Threads : x # t => pc'[x] = pc[x]
<1>1. todo' = todo /\ pc' = [pc EXCEPT ![t] = l]
  BY DEF GoOn
<1>2. DOMAIN todo = Threads /\ IsList(todo[t])
  BY ThreadLists
<1>3. DOMAIN pc = Threads
  BY DEF ParamInv, TypeOK
<1> QED BY <1>1, <1>2, <1>3

LEMMA OtherCalls ==
    ASSUME ParamInv, UserInv, NEW t \in Threads, t \notin UserRequests, todo[t] # << >>,
           Return(t) \/ \E l : GoOn(t, l),
           \A x \in Threads : x # t => reg'[x] = reg[x],
           orderly' => orderly, orderly' => \A m \in kept' : Agree(m, 0),
           orderly' /\ g_ini_d_' = "ok" =>
             g_ini_d_ = "ok" /\ SameUsers(Contents(slots), Contents(slots'))
    PROVE  UserInv'
<1>1. PICK s : s = todo[t]
  OBVIOUS
<1>2. IsList(s) /\ s # << >> /\ OthersPlan(t, s)
  BY <1>1, ThreadLists, OtherThread
<1>3. CASE Return(t)
  <2>1. PICK r : r = Tail(s)
    OBVIOUS
  <2>2. /\ \A x \in Threads : todo'[x] = IF x = t THEN r ELSE todo[x]
        /\ IsList(r)
        /\ \A x \in Threads : x # t => pc'[x] = pc[x]
    BY <1>1, <1>3, <2>1, Returned
  <2>3. OthersPlan(t, r)
    <3>1. /\ Len(s) \in Nat /\ Len(r) = Len(s) - 1
          /\ \A i \in 1 .. Len(s) - 1 : r[i] = s[i + 1]
      BY <1>2, <2>1, TailIs
    <3>2. \A i \in 1 .. Len(r) : r[i] = s[i + 1] /\ i + 1 \in 1 .. Len(s)
      BY <3>1
    <3>3. MainPlan(s) => MainPlan(r)
      BY <3>2 DEF MainPlan
    <3>4. OtherPlan(s) => OtherPlan(r)
      BY <1>2, <2>1, OtherTail
    <3> QED BY <1>2, <3>3, <3>4 DEF OthersPlan
  <2> QED BY <2>2, <2>3, OtherSteps
<1>4. CASE \E l : GoOn(t, l)
  <2>1. PICK l : GoOn(t, l)
    BY <1>4
  <2>2. /\ \A x \in Threads : todo'[x] = IF x = t THEN s ELSE todo[x]
        /\ \A x \in Threads : x # t => pc'[x] = pc[x]
    BY <1>1, <2>1, WentOn
  <2> QED BY <1>2, <2>2, OtherSteps
<1> QED BY <1>3, <1>4

LEMMA OtherHead ==
    ASSUME ParamInv, UserInv, NEW t \in Threads, t \notin UserRequests, todo[t] # << >>
    PROVE  /\ call(t).fn \in {"rk_param_set", "cp", "reboot -f", "rk_param_save"}
           /\ call(t).fn = "rk_param_set" => call(t).key = setting
           /\ call(t).fn = "rk_param_save" => t = Main
<1>1. PICK s : s = todo[t]
  OBVIOUS
<1>2. IsList(s) /\ s # << >> /\ OthersPlan(t, s) /\ call(t) = Head(s)
  BY <1>1, ThreadLists, OtherThread DEF call
<1>3. OtherPlan(s) => OtherCall(Head(s))
  BY <1>2, OtherTail
<1>4. MainPlan(s) => Head(s).fn \in {"cp", "rk_param_save"}
  <2>1. Head(s) = s[1] /\ 1 \in 1 .. Len(s)
    BY <1>2, TailIs
  <2> QED BY <2>1 DEF MainPlan
<1> QED BY <1>2, <1>3, <1>4 DEF OthersPlan, OtherCall

LEMMA UserReturns ==
    ASSUME ParamInv, UserInv, NEW t \in UserRequests, NEW step, UserAt(t, step), Return(t),
           orderly' => orderly, orderly' => \A m \in kept' : Agree(m, 0),
           orderly' /\ g_ini_d_' = "ok" =>
             Reached(Tail(todo[t]), step, Contents(slots'), "idle", reg'[t])
    PROVE  UserInv'
<1>1. PICK s : s = todo[t]
  OBVIOUS
<1>2. /\ t \in Clients /\ t \in Threads /\ IsList(s)
      /\ orderly => UserRequests \subseteq {t}
  BY <1>1, UserThread
<1>3. step \in Steps /\ UserPlan(s, step)
  BY <1>1 DEF UserAt
<1>4. s # << >> /\ Len(s) \in Nat /\ Len(s) >= 1
  BY <1>2, <1>3, PlanHead
<1>5. PICK r : r = Tail(s)
  OBVIOUS
<1>6. /\ \A x \in Threads : todo'[x] = IF x = t THEN r ELSE todo[x]
      /\ IsList(r) /\ pc'[t] = "idle"
  BY <1>1, <1>2, <1>4, <1>5, Returned
<1>7. r = << >> \/ UserPlan(r, step)
  <2>1. CASE Len(s) > 1
    BY <1>2, <1>3, <1>5, <2>1, PlanTail
  <2>2. CASE ~(Len(s) > 1)
    <3>1. Len(r) = 0
      <4>1. PICK len : len = Len(s)
        OBVIOUS
      <4>2. len \in Nat /\ len >= 1 /\ ~(len > 1)
        BY <1>4, <2>2, <4>1
      <4>3. len - 1 = 0
        BY <4>2
      <4> QED BY <1>2, <1>4, <1>5, <4>1, <4>3, TailIs
    <3>2. r = << >>
      BY <1>6, <3>1 DEF IsList
    <3> QED BY <3>2
  <2> QED BY <2>1, <2>2
<1>8. orderly' => orderly /\ UserRequests \subseteq {t}
  BY <1>2
<1>9. orderly' /\ g_ini_d_' = "ok" => Reached(r, step, Contents(slots'), pc'[t], reg'[t])
  BY <1>1, <1>5, <1>6
<1> QED BY <1>2, <1>3, <1>6, <1>7, <1>8, <1>9, UserSteps

LEMMA UserGoesOn ==
    ASSUME ParamInv, UserInv, NEW t \in UserRequests, NEW step, UserAt(t, step),
           NEW l, GoOn(t, l),
           orderly' => orderly, orderly' => \A m \in kept' : Agree(m, 0),
           orderly' /\ g_ini_d_' = "ok" =>
             Stage(todo[t], step, Contents(slots'), l, reg'[t])
    PROVE  UserInv'
<1>1. PICK s : s = todo[t]
  OBVIOUS
<1>2. /\ t \in Clients /\ t \in Threads
      /\ orderly => UserRequests \subseteq {t}
  BY UserThread
<1>3. step \in Steps /\ UserPlan(s, step) /\ s # << >>
  BY <1>1 DEF UserAt, UserPlan
<1>4. /\ \A x \in Threads : todo'[x] = IF x = t THEN s ELSE todo[x]
      /\ pc'[t] = l
  BY <1>1, <1>2, WentOn
<1>5. orderly' => orderly /\ UserRequests \subseteq {t}
  BY <1>2
<1>6. orderly' /\ g_ini_d_' = "ok" => Reached(s, step, Contents(slots'), pc'[t], reg'[t])
  BY <1>1, <1>3, <1>4 DEF Reached
<1> QED BY <1>2, <1>3, <1>4, <1>5, <1>6, UserSteps

-----------------------------------------------------------------------------
(* The stages of a request, call by call.                                  *)

LEMMA DetailReached ==
    ASSUME UsersCounted, NEW s, IsList(s), NEW step \in Steps, UserPlan(s, step), Len(s) >= 4,
           NEW w, Agree(w, step), NEW num
    PROVE  Reached(Tail(s), step, w, "idle", num)
<1>1. PICK r : r = Tail(s)
  OBVIOUS
<1>2. PICK len : len = Len(s)
  OBVIOUS
<1>3. len \in Nat /\ len >= 4 /\ len > 1
  BY <1>2, PlanHead
<1>4. Len(r) = len - 1 /\ r # << >> /\ (Len(r) >= 4 => Details(r[1]))
  BY <1>1, <1>2, <1>3, PlanTail
<1>5. Len(r) >= 3 /\ Len(r) # 2 /\ Len(r) # 1
  BY <1>3, <1>4
<1>6. ~(Len(r) >= 4 /\ Opens(r[1], step))
  BY <1>4, DetailsApart
<1>7. Stage(r, step, w, "idle", num)
  BY <1>5, <1>6 DEF Stage
<1> QED BY <1>1, <1>4, <1>7 DEF Reached

LEMMA DetailStays ==
    ASSUME NEW s, IsList(s), Len(s) >= 4, NEW step, NEW w, Agree(w, step), NEW num, NEW at,
           ~Opens(s[1], step) \/ at \notin {"idle", "probe"}
    PROVE  Stage(s, step, w, at, num)
<1>1. PICK len : len = Len(s)
  OBVIOUS
<1>2. len \in Nat /\ len >= 4
  BY <1>1, ListElim
<1>3. ~(len <= 3) /\ len >= 3 /\ len # 2 /\ len # 1
  BY <1>2
<1>4. ~(Len(s) <= 3) /\ Len(s) # 2 /\ Len(s) # 1
  BY <1>1, <1>3
<1> QED BY <1>4 DEF Stage

LEMMA NumberReached ==
    ASSUME NEW s, IsList(s), NEW step \in Steps, UserPlan(s, step),
           NEW w, NEW num
    PROVE  /\ Len(s) = 3 /\ Agree(w, step) /\ num = Cardinality(Present(w)) =>
                Reached(Tail(s), step, w, "idle", num)
           /\ Len(s) = 2 /\ Agree(w, 0) => Reached(Tail(s), step, w, "idle", num)
           /\ Len(s) = 1 /\ Agree(w, 0) => Reached(Tail(s), step, w, "idle", num)
<1>1. PICK r : r = Tail(s)
  OBVIOUS
<1>2. s # << >>
  BY DEF UserPlan
<1>3. Len(r) = Len(s) - 1 /\ IsList(r)
  BY <1>1, <1>2, TailIs
<1>4. ASSUME Len(s) = 3, Agree(w, step), num = Cardinality(Present(w))
      PROVE  Reached(r, step, w, "idle", num)
  <2>1. Len(r) = 2
    BY <1>3, <1>4
  <2>2. r # << >>
    BY <2>1
  <2>3. Stage(r, step, w, "idle", num)
    BY <1>4, <2>1 DEF Stage, Agree
  <2> QED BY <2>2, <2>3 DEF Reached
<1>5. ASSUME Len(s) = 2, Agree(w, 0)
      PROVE  Reached(r, step, w, "idle", num)
  <2>1. Len(r) = 1
    BY <1>3, <1>5
  <2>2. r # << >>
    BY <2>1
  <2>3. Stage(r, step, w, "idle", num)
    BY <1>5, <2>1 DEF Stage
  <2> QED BY <2>2, <2>3 DEF Reached
<1>6. ASSUME Len(s) = 1, Agree(w, 0)
      PROVE  Reached(r, step, w, "idle", num)
  <2>1. Len(r) = 0
    BY <1>3, <1>6
  <2>2. r = << >>
    BY <1>3, <2>1 DEF IsList
  <2> QED BY <1>6, <2>2 DEF Reached
<1> QED BY <1>1, <1>4, <1>5, <1>6

-----------------------------------------------------------------------------
(* Each step keeps the invariant of the number of users.                   *)

LEMMA KeptAgrees ==
    ASSUME UserInv, kept' = kept, orderly' => orderly
    PROVE  orderly' => \A m \in kept' : Agree(m, 0)
BY DEF UserInv

LEMMA SetFindUsers ==
    ASSUME "race" \notin Faults, UsersCounted, ParamInv, StoreInv, UserInv,
           NEW t \in Threads, SetFind(t)
    PROVE  UserInv'
<1>1. Enters(t, Setters) /\ UNCHANGED <<g_ini_d_, kept, reg, orderly>>
  BY DEF SetFind, Others, disk
<1>2. pc[t] = "idle" /\ todo[t] # << >> /\ call(t).fn \in Setters
  BY <1>1, EntersAlone
<1>3. orderly' => orderly /\ \A m \in kept' : Agree(m, 0)
  BY <1>1, KeptAgrees
<1>4. PICK k : k = call(t).key
  OBVIOUS
<1>5. PICK v : v = Given(t)
  OBVIOUS
<1>6. SetFindEffect(t, k, v)
  BY <1>4, <1>5, SetFindDoes
<1>7. PICK m : m = Contents(slots)
  OBVIOUS
<1>8. PICK w : w = Contents(slots')
  OBVIOUS
<1>9. g_ini_d_' = "ok" => w = m \/ w = With(m, k, v)
  BY <1>1, <1>6, <1>7, <1>8 DEF SetFindEffect
<1>10. CASE t \notin UserRequests
  <2>1. k = setting
    BY <1>2, <1>4, <1>10, OtherHead DEF Setters
  <2>2. SameUsers(m, With(m, k, v)) /\ SameUsers(m, m)
    BY <2>1, FieldsApart, WithSame DEF SameUsers
  <2>3. orderly' /\ g_ini_d_' = "ok" =>
          g_ini_d_ = "ok" /\ SameUsers(Contents(slots), Contents(slots'))
    BY <1>1, <1>7, <1>8, <1>9, <2>2
  <2>4. Return(t) \/ \E l : GoOn(t, l)
    BY <1>6 DEF SetFindEffect
  <2>5. \A x \in Threads : x # t => reg'[x] = reg[x]
    BY <1>1
  <2> QED BY <1>2, <1>3, <1>10, <2>3, <2>4, <2>5, OtherCalls
<1>11. CASE t \in UserRequests
  <2>1. PICK step : UserAt(t, step)
    BY <1>11, UserThread
  <2>2. PICK s : s = todo[t]
    OBVIOUS
  <2>3. IsList(s) /\ step \in Steps /\ UserPlan(s, step)
    BY <1>11, <2>1, <2>2, UserThread DEF UserAt
  <2>4. Head(s) = s[1] /\ s[1] = call(t)
    BY <2>2, <2>3, PlanHead DEF call
  <2>5. Len(s) = 2 \/ Len(s) >= 4
    <3>1. PICK len : len = Len(s)
      OBVIOUS
    <3>2. len \in Nat /\ len >= 1 /\ len # 1 /\ len # 3
      BY <1>2, <2>3, <2>4, <3>1, PlanHead DEF Setters
    <3>3. len = 2 \/ len >= 4
      BY <3>2
    <3> QED BY <3>1, <3>3
  <2>6. orderly /\ g_ini_d_ = "ok" => Stage(s, step, m, "idle", reg[t])
    BY <1>2, <1>7, <2>1, <2>2 DEF UserAt
  <2>7. CASE Len(s) = 2
    <3>1. k = user_num /\ v = reg[t]
      BY <1>4, <1>5, <2>3, <2>4, <2>7, PlanHead DEF Given
    <3>2. orderly /\ g_ini_d_ = "ok" =>
            Section(System) \in DOMAIN m /\ k \in DOMAIN m /\ v = Cardinality(Present(m))
      BY <2>6, <2>7, <3>1 DEF Stage
    <3>3. CASE Return(t) /\ (g_ini_d_ = "ok" => w = With(m, k, v))
      <4>1. orderly' /\ g_ini_d_' = "ok" => Agree(w, 0)
        BY <1>1, <3>1, <3>2, <3>3, WithNumber
      <4>2. orderly' /\ g_ini_d_' = "ok" =>
              Reached(Tail(todo[t]), step, Contents(slots'), "idle", reg'[t])
        BY <1>8, <2>2, <2>3, <2>7, <4>1, NumberReached
      <4> QED BY <1>3, <1>11, <2>1, <3>3, <4>2, UserReturns
    <3>4. CASE g_ini_d_ = "ok" /\ k \notin DOMAIN m /\ GoOn(t, "probe")
      <4>1. ~orderly'
        BY <1>1, <3>2, <3>4
      <4> QED BY <1>11, <2>1, <3>4, <4>1, UserGoesOn
    <3> QED BY <1>6, <1>7, <1>8, <3>3, <3>4 DEF SetFindEffect
  <2>8. CASE Len(s) >= 4
    <3>1. Opens(s[1], step) \/ Details(s[1])
      BY <2>3, <2>8, PlanHead
    <3>2. CASE Opens(s[1], step)
      <4>1. step # -1
        BY <1>2, <2>4, <3>2 DEF Opens, Setters
      <4>2. orderly /\ g_ini_d_ = "ok" => Agree(m, 0) /\ k \notin DOMAIN m
        BY <1>4, <2>4, <2>6, <2>8, <3>2, <4>1 DEF Stage
      <4>3. CASE Return(t) /\ (g_ini_d_ = "ok" => k \in DOMAIN m)
        <5>1. ~(orderly' /\ g_ini_d_' = "ok")
          BY <1>1, <4>2, <4>3
        <5> QED BY <1>3, <1>11, <2>1, <4>3, <5>1, UserReturns
      <4>4. CASE GoOn(t, "probe") /\ w = m
        <5>1. Len(s) >= 4 /\ ~(Len(s) <= 3) /\ Len(s) # 2 /\ Len(s) # 1
          BY <2>3, <2>8, ListElim
        <5>2. orderly' /\ g_ini_d_' = "ok" => Stage(s, step, w, "probe", reg'[t])
          BY <1>1, <1>4, <2>4, <3>2, <4>1, <4>2, <4>4, <5>1 DEF Stage
        <5>3. orderly' /\ g_ini_d_' = "ok" =>
                Stage(todo[t], step, Contents(slots'), "probe", reg'[t])
          BY <1>8, <2>2, <5>2
        <5> QED BY <1>3, <1>11, <2>1, <4>4, <5>3, UserGoesOn
      <4> QED BY <1>6, <1>7, <1>8, <4>3, <4>4 DEF SetFindEffect
    <3>3. CASE Details(s[1])
      <4>1. ~Opens(s[1], step) /\ k # user_num /\ \A x : Section(x) # k
        BY <1>4, <2>4, <3>3, DetailsApart
      <4>2. orderly /\ g_ini_d_ = "ok" => Agree(m, step)
        BY <2>6, <2>8, <4>1, StageAgree
      <4>3. SameUsers(m, With(m, k, v))
        BY <4>1, WithSame
      <4>4. orderly' /\ g_ini_d_' = "ok" => Agree(w, step)
        BY <1>1, <1>9, <4>2, <4>3, SameAgree
      <4>5. orderly' /\ g_ini_d_' = "ok" =>
              Reached(Tail(todo[t]), step, Contents(slots'), "idle", reg'[t])
        BY <1>8, <2>2, <2>3, <2>8, <4>4, DetailReached
      <4>6. orderly' /\ g_ini_d_' = "ok" =>
              Stage(todo[t], step, Contents(slots'), "probe", reg'[t])
        BY <1>8, <2>2, <2>3, <2>8, <4>1, <4>4, DetailStays
      <4>7. CASE Return(t)
        BY <1>3, <1>11, <2>1, <4>5, <4>7, UserReturns
      <4>8. CASE GoOn(t, "probe")
        BY <1>3, <1>11, <2>1, <4>6, <4>8, UserGoesOn
      <4> QED BY <1>6, <4>7, <4>8 DEF SetFindEffect
    <3> QED BY <3>1, <3>2, <3>3
  <2> QED BY <2>5, <2>7, <2>8
<1> QED BY <1>10, <1>11

LEMMA SetProbeUsers ==
    ASSUME UsersCounted, ParamInv, StoreInv, UserInv, NEW t \in Threads, SetProbe(t)
    PROVE  UserInv'
<1>1. /\ pc[t] = "probe" /\ GoOn(t, "count")
      /\ UNCHANGED <<g_ini_d_, kept, reg, orderly>>
  BY DEF SetProbe, Others, disk
<1>2. todo[t] # << >> /\ call(t).fn \in Setters
  BY <1>1 DEF ParamInv, Orders, Counted, Probing
<1>3. orderly' => orderly /\ \A m \in kept' : Agree(m, 0)
  BY <1>1, KeptAgrees
<1>4. PICK k : k = call(t).key
  OBVIOUS
<1>5. PICK v : v = Given(t)
  OBVIOUS
<1>6. PICK m : m = Contents(slots)
  OBVIOUS
<1>7. PICK w : w = Contents(slots')
  OBVIOUS
<1>8. w = With(m, k, v)
  BY <1>4, <1>5, <1>6, <1>7, SetProbeDoes DEF SetProbeEffect
<1>9. CASE t \notin UserRequests
  <2>1. k = setting
    BY <1>2, <1>4, <1>9, OtherHead DEF Setters
  <2>2. SameUsers(m, w)
    BY <1>8, <2>1, FieldsApart, WithSame
  <2>3. orderly' /\ g_ini_d_' = "ok" =>
          g_ini_d_ = "ok" /\ SameUsers(Contents(slots), Contents(slots'))
    BY <1>1, <1>6, <1>7, <2>2
  <2>4. Return(t) \/ \E l : GoOn(t, l)
    BY <1>1
  <2>5. \A x \in Threads : x # t => reg'[x] = reg[x]
    BY <1>1
  <2> QED BY <1>2, <1>3, <1>9, <2>3, <2>4, <2>5, OtherCalls
<1>10. CASE t \in UserRequests
  <2>1. PICK step : UserAt(t, step)
    BY <1>10, UserThread
  <2>2. PICK s : s = todo[t]
    OBVIOUS
  <2>3. IsList(s) /\ step \in Steps /\ UserPlan(s, step)
    BY <1>10, <2>1, <2>2, UserThread DEF UserAt
  <2>4. Head(s) = s[1] /\ s[1] = call(t)
    BY <2>2, <2>3, PlanHead DEF call
  <2>5. orderly /\ g_ini_d_ = "ok" => Stage(s, step, m, "probe", reg[t])
    BY <1>1, <1>6, <2>1, <2>2 DEF UserAt
  <2>6. orderly' /\ g_ini_d_' = "ok" => Len(s) >= 4 /\ Agree(w, step)
    <3> SUFFICES ASSUME orderly', g_ini_d_' = "ok"
                 PROVE  Len(s) >= 4 /\ Agree(w, step)
      OBVIOUS
    <3>1. Stage(s, step, m, "probe", reg[t])
      BY <1>1, <2>5
    <3>2. Len(s) >= 4
      <4>1. ~(Len(s) <= 3)
        BY <3>1 DEF Stage
      <4> QED BY <2>3, <4>1, ListElim
    <3>3. CASE Opens(s[1], step)
      <4>1. step # -1
        BY <1>2, <2>4, <3>3 DEF Opens, Setters
      <4>2. Agree(m, 0) /\ k \notin DOMAIN m /\ step = 1
        BY <1>4, <2>3, <2>4, <3>1, <3>2, <3>3, <4>1 DEF Stage, Steps
      <4>3. PICK u \in Users : k = Section(u)
        BY <1>4, <2>4, <3>3 DEF Opens
      <4>4. Agree(With(m, Section(u), v), 1)
        BY <4>2, <4>3, WithSection
      <4> QED BY <1>8, <3>2, <4>2, <4>3, <4>4
    <3>4. CASE Details(s[1])
      <4>1. ~Opens(s[1], step) /\ k # user_num /\ \A x : Section(x) # k
        BY <1>4, <2>4, <3>4, DetailsApart
      <4>2. Agree(m, step)
        BY <3>1, <3>2, <4>1, StageAgree
      <4>3. SameUsers(m, w)
        BY <1>8, <4>1, WithSame
      <4> QED BY <3>2, <4>2, <4>3, SameAgree
    <3> QED BY <2>3, <3>2, <3>3, <3>4, PlanHead
  <2>7. orderly' /\ g_ini_d_' = "ok" =>
          Stage(todo[t], step, Contents(slots'), "count", reg'[t])
    BY <1>7, <2>2, <2>3, <2>6, DetailStays
  <2> QED BY <1>1, <1>3, <1>10, <2>1, <2>7, UserGoesOn
<1> QED BY <1>9, <1>10

LEMMA UnsetUsers ==
    ASSUME "race" \notin Faults, UsersCounted, ParamInv, StoreInv, UserInv,
           NEW t \in Threads, Unset(t)
    PROVE  UserInv'
<1>1. Enters(t, {"iniparser_unset"}) /\ UNCHANGED <<g_ini_d_, kept, reg, orderly>>
  BY DEF Unset, Others, disk
<1>2. pc[t] = "idle" /\ todo[t] # << >> /\ call(t).fn = "iniparser_unset"
  BY <1>1, EntersAlone
<1>3. orderly' => orderly /\ \A m \in kept' : Agree(m, 0)
  BY <1>1, KeptAgrees
<1>4. t \in UserRequests
  BY <1>2, OtherHead
<1>5. PICK k : k = call(t).key
  OBVIOUS
<1>6. PICK m : m = Contents(slots)
  OBVIOUS
<1>7. PICK w : w = Contents(slots')
  OBVIOUS
<1>8. UnsetEffect(t, k)
  BY <1>5, UnsetDoes
<1>9. PICK step : UserAt(t, step)
  BY <1>4, UserThread
<1>10. PICK s : s = todo[t]
  OBVIOUS
<1>11. IsList(s) /\ step \in Steps /\ UserPlan(s, step)
  BY <1>4, <1>9, <1>10, UserThread DEF UserAt
<1>12. s[1] = call(t) /\ Len(s) >= 4
  BY <1>2, <1>10, <1>11, PlanHead DEF call
<1>13. Opens(s[1], step) /\ step = -1
  <2>1. Opens(s[1], step)
    BY <1>2, <1>11, <1>12, PlanHead DEF Details
  <2>2. step # 1
    BY <1>2, <1>12, <2>1 DEF Opens
  <2> QED BY <1>11, <2>1, <2>2 DEF Steps
<1>14. orderly /\ g_ini_d_ = "ok" => Agree(m, 0) /\ k \in DOMAIN m
  <2>1. orderly /\ g_ini_d_ = "ok" => Stage(s, step, m, "idle", reg[t])
    BY <1>2, <1>6, <1>9, <1>10 DEF UserAt
  <2> QED BY <1>5, <1>12, <1>13, <2>1 DEF Stage
<1>15. CASE Return(t) /\ (g_ini_d_ = "ok" => k \notin DOMAIN m)
  <2>1. ~(orderly' /\ g_ini_d_' = "ok")
    BY <1>1, <1>14, <1>15
  <2> QED BY <1>3, <1>4, <1>9, <1>15, <2>1, UserReturns
<1>16. CASE GoOn(t, "count") /\ w = [x \in DOMAIN m \ {k} |-> m[x]]
  <2>1. PICK u \in Users : k = Section(u)
    BY <1>5, <1>12, <1>13 DEF Opens
  <2>2. orderly' /\ g_ini_d_' = "ok" => Agree(w, step)
    BY <1>1, <1>13, <1>14, <1>16, <2>1, WithoutSection
  <2>3. orderly' /\ g_ini_d_' = "ok" =>
          Stage(todo[t], step, Contents(slots'), "count", reg'[t])
    BY <1>7, <1>10, <1>11, <1>12, <2>2, DetailStays
  <2> QED BY <1>3, <1>4, <1>9, <1>16, <2>3, UserGoesOn
<1> QED BY <1>6, <1>7, <1>8, <1>15, <1>16 DEF UnsetEffect

(* A change of d->n is none of the map.                                    *)
LEMMA SameMap == \A m : SameUsers(m, m)
BY DEF SameUsers

LEMMA CountUsers ==
    ASSUME UsersCounted, ParamInv, StoreInv, UserInv, NEW t \in Threads,
           CountRead(t) \/ CountWrite(t)
    PROVE  UserInv'
<1>1. /\ pc[t] \in {"count", "write"} /\ (GoOn(t, "write") \/ Return(t))
      /\ UNCHANGED <<g_ini_d_, slots, kept, reg, orderly>>
  BY DEF CountRead, CountWrite, Others, disk, dict
<1>2. todo[t] # << >>
  BY <1>1 DEF ParamInv, Orders
<1>3. orderly' => orderly /\ \A m \in kept' : Agree(m, 0)
  BY <1>1, KeptAgrees
<1>4. PICK m : m = Contents(slots)
  OBVIOUS
<1>5. Contents(slots') = m
  BY <1>1, <1>4
<1>6. CASE t \notin UserRequests
  <2>1. orderly' /\ g_ini_d_' = "ok" =>
          g_ini_d_ = "ok" /\ SameUsers(Contents(slots), Contents(slots'))
    BY <1>1, <1>4, <1>5, SameMap
  <2>2. Return(t) \/ \E l : GoOn(t, l)
    BY <1>1
  <2>3. \A x \in Threads : x # t => reg'[x] = reg[x]
    BY <1>1
  <2> QED BY <1>2, <1>3, <1>6, <2>1, <2>2, <2>3, OtherCalls
<1>7. CASE t \in UserRequests
  <2>1. PICK step : UserAt(t, step)
    BY <1>7, UserThread
  <2>2. PICK s : s = todo[t]
    OBVIOUS
  <2>3. IsList(s) /\ step \in Steps /\ UserPlan(s, step)
    BY <1>7, <2>1, <2>2, UserThread DEF UserAt
  <2>4. orderly /\ g_ini_d_ = "ok" => Len(s) >= 4 /\ Agree(m, step)
    <3> SUFFICES ASSUME orderly, g_ini_d_ = "ok"
                 PROVE  Len(s) >= 4 /\ Agree(m, step)
      OBVIOUS
    <3>1. PICK at : at = pc[t]
      OBVIOUS
    <3>2. Stage(s, step, m, at, reg[t]) /\ at \in {"count", "write"}
      BY <1>1, <1>4, <2>1, <2>2, <3>1 DEF UserAt
    <3>3. Len(s) >= 4
      <4>1. ~(Len(s) <= 3)
        BY <3>2 DEF Stage
      <4> QED BY <2>3, <4>1, ListElim
    <3> QED BY <3>2, <3>3, StageAgree
  <2>5. orderly' /\ g_ini_d_' = "ok" => Len(s) >= 4 /\ Agree(m, step)
    BY <1>1, <2>4
  <2>6. orderly' /\ g_ini_d_' = "ok" =>
          Stage(todo[t], step, Contents(slots'), "write", reg'[t])
    BY <1>5, <2>2, <2>3, <2>5, DetailStays
  <2>7. orderly' /\ g_ini_d_' = "ok" =>
          Reached(Tail(todo[t]), step, Contents(slots'), "idle", reg'[t])
    BY <1>5, <2>2, <2>3, <2>5, DetailReached
  <2>8. CASE GoOn(t, "write")
    BY <1>3, <1>7, <2>1, <2>6, <2>8, UserGoesOn
  <2>9. CASE Return(t)
    BY <1>3, <1>7, <2>1, <2>7, <2>9, UserReturns
  <2> QED BY <1>1, <2>8, <2>9
<1> QED BY <1>6, <1>7

LEMMA GetUserNumUsers ==
    ASSUME "race" \notin Faults, UsersCounted, ParamInv, StoreInv, UserInv,
           NEW t \in Threads, GetUserNum(t)
    PROVE  UserInv'
<1>1. /\ Enters(t, {"get_user_num"}) /\ Return(t)
      /\ UNCHANGED <<g_ini_d_, slots, kept, orderly>>
  BY DEF GetUserNum, Others, disk, dict
<1>2. /\ Alone(t) /\ pc[t] = "idle" /\ todo[t] # << >> /\ call(t).fn = "get_user_num"
  BY <1>1, EntersAlone
<1>3. orderly' => orderly /\ \A m \in kept' : Agree(m, 0)
  BY <1>1, KeptAgrees
<1>4. t \in UserRequests
  BY <1>2, OtherHead
<1>5. PICK m : m = Contents(slots)
  OBVIOUS
<1>6. PICK step : UserAt(t, step)
  BY <1>4, UserThread
<1>7. PICK s : s = todo[t]
  OBVIOUS
<1>8. IsList(s) /\ step \in Steps /\ UserPlan(s, step)
  BY <1>4, <1>6, <1>7, UserThread DEF UserAt
<1>9. s[1] = call(t) /\ Len(s) = 3 /\ s[1].val = step
  <2>1. s[1] = call(t)
    BY <1>7, <1>8, PlanHead DEF call
  <2>2. PICK len : len = Len(s)
    OBVIOUS
  <2>3. /\ len \in Nat /\ len >= 1 /\ len # 1 /\ len # 2 /\ ~(len >= 4)
        /\ (len = 3 => s[1].val = step)
    BY <1>2, <1>8, <2>1, <2>2, PlanHead
  <2>4. len = 3
    BY <2>3
  <2> QED BY <2>1, <2>2, <2>3, <2>4
<1>10. orderly /\ g_ini_d_ = "ok" => Agree(m, step)
  <2>1. orderly /\ g_ini_d_ = "ok" => Stage(s, step, m, "idle", reg[t])
    BY <1>2, <1>5, <1>6, <1>7 DEF UserAt
  <2>2. Len(s) >= 3 /\ ~(Len(s) >= 4)
    BY <1>9
  <2> QED BY <2>1, <2>2 DEF Stage
<1>11. ASSUME orderly, g_ini_d_ = "ok"
       PROVE  reg'[t] = Cardinality(Present(m))
  <2>1. user_num \in DOMAIN m /\ m[user_num] = Cardinality(Present(m)) - step
    BY <1>10, <1>11 DEF Agree
  <2>2. At(slots, user_num) # {} /\ dictionary_get(slots, user_num) = m[user_num]
    <3>1. user_num \in Keys(slots) /\ m[user_num] = dictionary_get(slots, user_num)
      BY <1>5, <2>1 DEF Contents
    <3> QED BY <3>1 DEF Keys, At
  <2>3. PICK total : total = Cardinality(Present(m))
    OBVIOUS
  <2>4. total \in Nat /\ step \in Int
    BY <1>8, <2>3, PresentCount DEF Steps
  <2>5. Number(m[user_num]) = total - step
    BY <2>1, <2>3, <2>4 DEF Number
  <2>6. reg' = [reg EXCEPT ![t] = (total - step) + step]
    BY <1>9, <1>11, <2>2, <2>5 DEF GetUserNum
  <2>7. DOMAIN reg = Threads
    BY DEF ParamInv, TypeOK
  <2>8. reg'[t] = (total - step) + step
    BY <2>6, <2>7
  <2> QED BY <2>3, <2>4, <2>8
<1>12. orderly' /\ g_ini_d_' = "ok" =>
         Reached(Tail(todo[t]), step, Contents(slots'), "idle", reg'[t])
  <2>1. orderly' /\ g_ini_d_' = "ok" => Agree(m, step) /\ reg'[t] = Cardinality(Present(m))
    BY <1>1, <1>10, <1>11
  <2>2. Contents(slots') = m
    BY <1>1, <1>5
  <2> QED BY <1>7, <1>8, <1>9, <2>1, <2>2, NumberReached
<1> QED BY <1>1, <1>3, <1>4, <1>6, <1>12, UserReturns

(* The last call of a user request: the number is written.                 *)
LEMMA LastStage ==
    ASSUME NEW s, Len(s) = 1, NEW step, NEW m, NEW at, NEW num
    PROVE  Stage(s, step, m, at, num) <=> at \in {"idle", "fill"} /\ Agree(m, 0)
BY DEF Stage

LEMMA SaveIsLast ==
    ASSUME NEW s, IsList(s), NEW step \in Steps, UserPlan(s, step),
           Head(s).fn \in {"rk_param_save", "cp"}
    PROVE  Len(s) = 1 /\ Head(s).fn = "rk_param_save"
<1>1. PICK len : len = Len(s)
  OBVIOUS
<1>2. len \in Nat /\ len >= 1 /\ len # 2 /\ len # 3 /\ ~(len >= 4)
  BY <1>1, PlanHead
<1>3. len = 1
  BY <1>2
<1> QED BY <1>1, <1>3, PlanHead

LEMMA WriteBeginUsers ==
    ASSUME "race" \notin Faults, UsersCounted, ParamInv, StoreInv, UserInv,
           NEW t \in Threads, WriteBegin(t)
    PROVE  UserInv'
<1>1. /\ Enters(t, {"rk_param_save", "cp"}) /\ GoOn(t, "fill")
      /\ reg' = [reg EXCEPT ![t] = 0]
      /\ UNCHANGED <<g_ini_d_, slots, kept, orderly>>
  BY DEF WriteBegin, Others, dict
<1>2. pc[t] = "idle" /\ todo[t] # << >> /\ call(t).fn \in {"rk_param_save", "cp"}
  BY <1>1, EntersAlone
<1>3. orderly' => orderly /\ \A m \in kept' : Agree(m, 0)
  BY <1>1, KeptAgrees
<1>4. PICK m : m = Contents(slots)
  OBVIOUS
<1>5. Contents(slots') = m
  BY <1>1, <1>4
<1>6. CASE t \notin UserRequests
  <2>1. orderly' /\ g_ini_d_' = "ok" =>
          g_ini_d_ = "ok" /\ SameUsers(Contents(slots), Contents(slots'))
    BY <1>1, <1>4, <1>5, SameMap
  <2>2. Return(t) \/ \E l : GoOn(t, l)
    BY <1>1
  <2>3. \A x \in Threads : x # t => reg'[x] = reg[x]
    BY <1>1 DEF ParamInv, TypeOK
  <2> QED BY <1>2, <1>3, <1>6, <2>1, <2>2, <2>3, OtherCalls
<1>7. CASE t \in UserRequests
  <2>1. PICK step : UserAt(t, step)
    BY <1>7, UserThread
  <2>2. PICK s : s = todo[t]
    OBVIOUS
  <2>3. IsList(s) /\ step \in Steps /\ UserPlan(s, step)
    BY <1>7, <2>1, <2>2, UserThread DEF UserAt
  <2>4. Len(s) = 1
    BY <1>2, <2>2, <2>3, SaveIsLast DEF call
  <2>5. orderly /\ g_ini_d_ = "ok" => Agree(m, 0)
    BY <1>4, <2>1, <2>2, <2>4, LastStage DEF UserAt
  <2>6. orderly' /\ g_ini_d_' = "ok" =>
          Stage(todo[t], step, Contents(slots'), "fill", reg'[t])
    BY <1>1, <1>5, <2>2, <2>4, <2>5, LastStage
  <2> QED BY <1>1, <1>3, <1>7, <2>1, <2>6, UserGoesOn
<1> QED BY <1>6, <1>7

(* What is written agrees: a file that was copied, or, once the number is  *)
(* written or if nobody changes it, the dictionary.                        *)
LEMMA WrittenAgrees ==
    ASSUME UsersCounted, ParamInv, StoreInv, UserInv, NEW t \in Threads, WriteEnd(t), orderly'
    PROVE  \A m \in kept' : Agree(m, 0)
<1>1. /\ pc[t] = "fill" /\ kept' = Map(Text(t)) /\ orderly
      /\ g_ini_d_ = "ok" \/ call(t).fn = "cp"
  BY DEF WriteEnd
<1>2. todo[t] # << >> /\ call(t).fn \in {"rk_param_save", "cp"}
  BY <1>1 DEF ParamInv, Orders, Counted
<1>3. CASE call(t).fn = "cp"
  <2>1. kept' \in {FactoryMap, ImportMap}
    BY <1>1, <1>3, TextOf
  <2>2. \A m \in kept' : CountsUsers(m)
    BY <2>1 DEF UsersCounted
  <2> QED BY <2>2, CountsAgree
<1>4. CASE call(t).fn = "rk_param_save"
  <2>1. PICK c : c = Contents(slots)
    OBVIOUS
  <2>2. Memory = {c}
    BY <1>1, <1>4, <2>1 DEF Memory
  <2>3. kept' = {Storage!Saved(m) : m \in Memory}
    <3>1. Map(Text(t)) = IF Memory = {} THEN {Storage!Nothing}
                         ELSE {Storage!Saved(m) : m \in Memory}
      BY <1>1, <1>4, TextOf
    <3> QED BY <1>1, <2>2, <3>1
  <2>4. Agree(c, 0)
    <3>1. CASE t \in UserRequests
      <4>1. PICK step : UserAt(t, step)
        BY <3>1, UserThread
      <4>2. PICK s : s = todo[t]
        OBVIOUS
      <4>3. IsList(s) /\ step \in Steps /\ UserPlan(s, step)
        BY <3>1, <4>1, <4>2, UserThread DEF UserAt
      <4>4. Len(s) = 1
        BY <1>2, <4>2, <4>3, SaveIsLast DEF call
      <4> QED BY <1>1, <1>4, <2>1, <4>1, <4>2, <4>4, LastStage DEF UserAt
    <3>2. CASE t \notin UserRequests
      <4>1. t = Main
        BY <1>2, <1>4, <3>2, OtherHead
      <4>2. \A x \in Clients : todo[x] = << >>
        BY <1>2, <4>1 DEF ParamInv, Powered
      <4>3. UserRequests = {}
        BY <4>2 DEF UserRequests
      <4> QED BY <1>1, <1>4, <2>1, <4>3 DEF UserInv
    <3> QED BY <3>1, <3>2
  <2>5. Agree(Storage!Saved(c), 0)
    BY <2>4, SavedAgrees
  <2> QED BY <2>2, <2>3, <2>5
<1> QED BY <1>2, <1>3, <1>4

LEMMA WriteEndUsers ==
    ASSUME UsersCounted, ParamInv, StoreInv, UserInv, NEW t \in Threads, WriteEnd(t)
    PROVE  UserInv'
<1>1. /\ pc[t] = "fill" /\ Return(t) /\ (orderly' => orderly)
      /\ UNCHANGED <<g_ini_d_, slots, reg>>
  BY DEF WriteEnd, dict
<1>2. todo[t] # << >> /\ call(t).fn \in {"rk_param_save", "cp"}
  BY <1>1 DEF ParamInv, Orders, Counted
<1>3. orderly' => \A m \in kept' : Agree(m, 0)
  BY WrittenAgrees
<1>4. PICK m : m = Contents(slots)
  OBVIOUS
<1>5. Contents(slots') = m
  BY <1>1, <1>4
<1>6. CASE t \notin UserRequests
  <2>1. orderly' /\ g_ini_d_' = "ok" =>
          g_ini_d_ = "ok" /\ SameUsers(Contents(slots), Contents(slots'))
    BY <1>1, <1>4, <1>5, SameMap
  <2>2. Return(t) \/ \E l : GoOn(t, l)
    BY <1>1
  <2>3. \A x \in Threads : x # t => reg'[x] = reg[x]
    BY <1>1
  <2> QED BY <1>1, <1>2, <1>3, <1>6, <2>1, <2>2, <2>3, OtherCalls
<1>7. CASE t \in UserRequests
  <2>1. PICK step : UserAt(t, step)
    BY <1>7, UserThread
  <2>2. PICK s : s = todo[t]
    OBVIOUS
  <2>3. IsList(s) /\ step \in Steps /\ UserPlan(s, step)
    BY <1>7, <2>1, <2>2, UserThread DEF UserAt
  <2>4. Len(s) = 1
    BY <1>2, <2>2, <2>3, SaveIsLast DEF call
  <2>5. orderly /\ g_ini_d_ = "ok" => Agree(m, 0)
    BY <1>4, <2>1, <2>2, <2>4, LastStage DEF UserAt
  <2>6. orderly' /\ g_ini_d_' = "ok" =>
          Reached(Tail(todo[t]), step, Contents(slots'), "idle", reg'[t])
    BY <1>1, <1>5, <2>2, <2>3, <2>4, <2>5, NumberReached
  <2> QED BY <1>1, <1>3, <1>7, <2>1, <2>6, UserReturns
<1> QED BY <1>6, <1>7

LEMMA SaveFailsUsers ==
    ASSUME "race" \notin Faults, ParamInv, StoreInv, UserInv, NEW t \in Threads, SaveFails(t)
    PROVE  UserInv'
<1>1. /\ Enters(t, {"rk_param_save"}) /\ Return(t) /\ g_ini_d_' = "null"
      /\ UNCHANGED <<kept, reg, orderly>>
  BY DEF SaveFails, Others, disk
<1>2. todo[t] # << >>
  BY <1>1, EntersAlone
<1>3. orderly' => orderly /\ \A m \in kept' : Agree(m, 0)
  BY <1>1, KeptAgrees
<1>4. g_ini_d_' # "ok"
  BY <1>1
<1>5. CASE t \notin UserRequests
  <2>1. \A x \in Threads : x # t => reg'[x] = reg[x]
    BY <1>1
  <2> QED BY <1>1, <1>2, <1>3, <1>4, <1>5, <2>1, OtherCalls
<1>6. CASE t \in UserRequests
  <2>1. PICK step : UserAt(t, step)
    BY <1>6, UserThread
  <2> QED BY <1>1, <1>3, <1>4, <1>6, <2>1, UserReturns
<1> QED BY <1>5, <1>6

-----------------------------------------------------------------------------
(* Requests begin.                                                         *)

LEMMA BeginsOther ==
    ASSUME ParamInv, UserInv, NEW c \in Clients, NEW s, IsList(s), OtherPlan(s),
           Begin(c, s), orderly' = orderly
    PROVE  UserInv'
<1>1. /\ todo[c] = << >> /\ todo' = [todo EXCEPT ![c] = s]
      /\ UNCHANGED <<g_ini_d_, slots, kept, pc, reg>>
  BY DEF Begin, Serves, dict, disk
<1>2. c \in Threads /\ c # Main /\ DOMAIN todo = Threads
  BY ThreadLists
<1>3. c \notin UserRequests /\ OthersPlan(c, s)
  BY <1>1, <1>2 DEF UserRequests, OthersPlan
<1>4. \A x \in Threads : todo'[x] = IF x = c THEN s ELSE todo[x]
  BY <1>1, <1>2
<1>5. orderly' => orderly /\ \A m \in kept' : Agree(m, 0)
  BY <1>1, KeptAgrees
<1>6. PICK m : m = Contents(slots)
  OBVIOUS
<1>7. orderly' /\ g_ini_d_' = "ok" =>
        g_ini_d_ = "ok" /\ SameUsers(Contents(slots), Contents(slots'))
  BY <1>1, <1>6, SameMap
<1>8. \A x \in Threads : x # c => pc'[x] = pc[x] /\ reg'[x] = reg[x]
  BY <1>1
<1> QED BY <1>2, <1>3, <1>4, <1>5, <1>7, <1>8, OtherSteps

LEMMA BeginsUser ==
    ASSUME UsersCounted, ParamInv, UserInv, NEW c \in Clients, NEW s,
           NEW step \in Steps, UserPlan(s, step), Len(s) \in Nat, Len(s) >= 4,
           NEW u \in Users, s[1].key = Section(u), Opens(s[1], step),
           Begin(c, s),
           orderly' => orderly /\ UserRequests = {} /\ (UserPresent(u) <=> step = -1)
    PROVE  UserInv'
<1>1. /\ todo[c] = << >> /\ todo' = [todo EXCEPT ![c] = s]
      /\ UNCHANGED <<g_ini_d_, slots, kept, pc, reg>>
  BY DEF Begin, Serves, dict, disk
<1>2. c \in Threads /\ c # Main /\ DOMAIN todo = Threads /\ pc[c] = "idle"
  BY <1>1, ThreadLists DEF ParamInv, Orders
<1>3. \A x \in Threads : todo'[x] = IF x = c THEN s ELSE todo[x]
  BY <1>1, <1>2
<1>4. orderly' => \A m \in kept' : Agree(m, 0)
  BY <1>1, KeptAgrees
<1>5. PICK m : m = Contents(slots)
  OBVIOUS
<1>6. UserPresent(u) <=> Section(u) \in DOMAIN m
  BY <1>5 DEF UserPresent, At, Contents, Keys
<1>7. s # << >>
  BY DEF UserPlan
<1>8. ~(Len(s) <= 3) /\ Len(s) # 2 /\ Len(s) # 1
  <2>1. PICK len : len = Len(s)
    OBVIOUS
  <2>2. len \in Nat /\ len >= 4
    BY <2>1
  <2>3. ~(len <= 3) /\ len # 2 /\ len # 1
    BY <2>2
  <2> QED BY <2>1, <2>3
<1>9. ASSUME orderly', g_ini_d_' = "ok"
      PROVE  Stage(s, step, m, "idle", reg[c])
  <2>1. Agree(m, 0)
    BY <1>1, <1>5, <1>9 DEF UserInv
  <2>2. s[1].key \in DOMAIN m <=> step = -1
    BY <1>6, <1>9
  <2> QED BY <1>8, <2>1, <2>2 DEF Stage
<1>10. orderly' /\ g_ini_d_' = "ok" => Reached(s, step, Contents(slots'), pc'[c], reg'[c])
  <2>1. Contents(slots') = m /\ pc'[c] = "idle" /\ reg'[c] = reg[c]
    BY <1>1, <1>2, <1>5
  <2> QED BY <1>7, <1>9, <2>1 DEF Reached
<1> QED BY <1>3, <1>4, <1>10, UserSteps

(* The calls counted and saved come after those of the sections.           *)
LEMMA PlanMade ==
    ASSUME NEW S, NEW p \in Seq(S), Len(p) >= 1, NEW step \in Steps, Opens(p[1], step),
           \A i \in 2 .. Len(p) : Details(p[i])
    PROVE  /\ UserPlan(p \o CountAndSave(step), step)
           /\ Len(p \o CountAndSave(step)) \in Nat /\ Len(p \o CountAndSave(step)) >= 4
           /\ (p \o CountAndSave(step))[1] = p[1]
<1>1. PICK a : a = Call("get_user_num", user_num, step)
  OBVIOUS
<1>2. PICK b : b = Call("set_user_num", user_num, 0)
  OBVIOUS
<1>3. PICK c : c = Call("rk_param_save", user_num, 0)
  OBVIOUS
<1>4. /\ a.fn = "get_user_num" /\ a.val = step /\ b.fn = "set_user_num" /\ b.key = user_num
      /\ c.fn = "rk_param_save"
  BY <1>1, <1>2, <1>3 DEF Call
<1>5. PICK q : q = <<a, b, c>>
  OBVIOUS
<1>6. q = CountAndSave(step)
  BY <1>1, <1>2, <1>3, <1>5 DEF CountAndSave
<1>7. PICK T : T = S \cup {a, b, c}
  OBVIOUS
<1>8. p \in Seq(T)
  BY <1>7
<1>9. q \in Seq(T) /\ Len(q) = 3 /\ q[1] = a /\ q[2] = b /\ q[3] = c
  <2>1. a \in T /\ b \in T /\ c \in T
    BY <1>7
  <2> QED BY <1>5, <2>1
<1>10. PICK len : len = Len(p)
  OBVIOUS
<1>11. len \in Nat /\ len >= 1
  BY <1>10
<1>12. PICK s : s = p \o q
  OBVIOUS
<1>13. /\ Len(s) = len + 3
       /\ \A i \in 1 .. len : s[i] = p[i]
       /\ \A i \in 1 .. 3 : s[len + i] = q[i]
  <2>0. p \in Seq(T) /\ q \in Seq(T)
    BY <1>8, <1>9
  <2>1. Len(s) = len + 3
    <3>1. Len(p \o q) = Len(p) + Len(q)
      BY <2>0
    <3> QED BY <1>9, <1>10, <1>12, <3>1
  <2>2. \A i \in 1 .. len + 3 : s[i] = IF i <= len THEN p[i] ELSE q[i - len]
    <3>1. \A i \in 1 .. Len(p) + Len(q) :
            (p \o q)[i] = IF i <= Len(p) THEN p[i] ELSE q[i - Len(p)]
      BY <2>0
    <3> QED BY <1>9, <1>10, <1>12, <3>1
  <2>3. \A i \in 1 .. len : i \in 1 .. len + 3 /\ i <= len
    BY <1>11
  <2>4. \A i \in 1 .. 3 : len + i \in 1 .. len + 3 /\ ~(len + i <= len) /\ (len + i) - len = i
    BY <1>11
  <2>5. \A i \in 1 .. len : s[i] = p[i]
    BY <2>2, <2>3
  <2>6. \A i \in 1 .. 3 : s[len + i] = q[i]
    BY <2>2, <2>4
  <2> QED BY <2>1, <2>5, <2>6
<1>14. s[len + 3] = c /\ s[len + 2] = b /\ s[len + 1] = a
  BY <1>9, <1>13
<1>15. \A i \in 1 .. len : (i = 1 /\ Opens(s[1], step)) \/ Details(s[i])
  <2> TAKE i \in 1 .. len
  <2>1. i = 1 \/ i \in 2 .. Len(p)
    BY <1>10, <1>11
  <2>2. s[i] = p[i]
    BY <1>13
  <2> QED BY <2>1, <2>2
<1>16. UserPlan(s, step)
  <2>1. s # << >>
    <3>1. Len(s) # 0
      BY <1>11, <1>13
    <3> QED BY <3>1
  <2>2. Len(s) = len + 3 /\ Len(s) - 1 = len + 2 /\ Len(s) - 2 = len + 1 /\ Len(s) - 3 = len
    BY <1>11, <1>13
  <2> QED BY <1>4, <1>14, <1>15, <2>1, <2>2 DEF UserPlan
<1>17. Len(s) \in Nat /\ Len(s) >= 4 /\ s[1] = p[1]
  BY <1>11, <1>13
<1> QED BY <1>6, <1>12, <1>16, <1>17

LEMMA RequestUsers ==
    ASSUME UsersCounted, ParamInv, UserInv, NEW c \in Clients, Request(c)
    PROVE  UserInv'
<1>1. ASSUME NEW v \in Values, SetParam(c, v)
      PROVE  UserInv'
  <2>1. PICK a : a = Call("rk_param_set", setting, v)
    OBVIOUS
  <2>2. OtherCall(a)
    BY <2>1 DEF OtherCall, Call
  <2>3. PICK s : s = <<a>>
    OBVIOUS
  <2>4. s \in Seq({a}) /\ Len(s) = 1 /\ s[1] = a
    BY <2>3
  <2>5. IsList(s) /\ OtherPlan(s)
    BY <2>2, <2>4, ListIntro DEF OtherPlan
  <2>6. Begin(c, s) /\ orderly' = orderly
    BY <1>1, <2>1, <2>3 DEF SetParam
  <2> QED BY <2>5, <2>6, BeginsOther
<1>2. ASSUME NEW u \in Users, NEW l \in Levels, NEW v \in Values, rk_system_add_user(c, u, l, v)
      PROVE  UserInv'
  <2>1. PICK s1 : s1 = Call("iniparser_set", Section(u), NoValue)
    OBVIOUS
  <2>2. PICK s2 : s2 = Call("iniparser_set", UserKey(u, "user_level"), user_level_char(l))
    OBVIOUS
  <2>3. PICK s3 : s3 = Call("iniparser_set", UserKey(u, "user_name"), v)
    OBVIOUS
  <2>4. PICK s4 : s4 = Call("iniparser_set", UserKey(u, "password"), v)
    OBVIOUS
  <2>5. Opens(s1, 1) /\ s1.key = Section(u)
    BY <2>1 DEF Opens, Call
  <2>6. Details(s2) /\ Details(s3) /\ Details(s4)
    BY <2>2, <2>3, <2>4 DEF Details, Call
  <2>7. PICK p : p = <<s1, s2, s3, s4>>
    OBVIOUS
  <2>8. PICK S : S = {s1, s2, s3, s4}
    OBVIOUS
  <2>9. p \in Seq(S) /\ Len(p) = 4 /\ p[1] = s1 /\ p[2] = s2 /\ p[3] = s3 /\ p[4] = s4
    <3>1. s1 \in S /\ s2 \in S /\ s3 \in S /\ s4 \in S
      BY <2>8
    <3> QED BY <2>7, <3>1
  <2>10. \A i \in 2 .. Len(p) : Details(p[i])
    <3>1. \A i \in 2 .. 4 : i = 2 \/ i = 3 \/ i = 4
      OBVIOUS
    <3> QED BY <2>6, <2>9, <3>1
  <2>11. Len(p) >= 1 /\ 1 \in Steps
    BY <2>9 DEF Steps
  <2>12. PICK s : s = p \o CountAndSave(1)
    OBVIOUS
  <2>13. UserPlan(s, 1) /\ Len(s) \in Nat /\ Len(s) >= 4 /\ s[1] = s1
    BY <2>5, <2>9, <2>10, <2>11, <2>12, PlanMade
  <2>14. /\ Begin(c, s)
         /\ orderly' => orderly /\ UserRequests = {} /\ ~UserPresent(u)
    BY <1>2, <2>1, <2>2, <2>3, <2>4, <2>7, <2>12 DEF rk_system_add_user
  <2> QED BY <2>5, <2>11, <2>13, <2>14, BeginsUser
<1>3. ASSUME NEW u \in Users, rk_system_del_user(c, u)
      PROVE  UserInv'
  <2>1. PICK a : a = Call("iniparser_unset", Section(u), NoValue)
    OBVIOUS
  <2>2. Opens(a, -1) /\ a.key = Section(u)
    BY <2>1 DEF Opens, Call
  <2>3. PICK p : p = <<a>>
    OBVIOUS
  <2>4. p \in Seq({a}) /\ Len(p) = 1 /\ p[1] = a
    BY <2>3
  <2>5. Len(p) >= 1 /\ -1 \in Steps /\ \A i \in 2 .. Len(p) : Details(p[i])
    BY <2>4 DEF Steps
  <2>6. PICK s : s = p \o CountAndSave(-1)
    OBVIOUS
  <2>7. UserPlan(s, -1) /\ Len(s) \in Nat /\ Len(s) >= 4 /\ s[1] = a
    BY <2>2, <2>4, <2>5, <2>6, PlanMade
  <2>8. Begin(c, s) /\ (orderly' => orderly /\ UserRequests = {} /\ UserPresent(u))
    BY <1>3, <2>1, <2>3, <2>6 DEF rk_system_del_user
  <2> QED BY <2>2, <2>5, <2>7, <2>8, BeginsUser
<1>4. ASSUME NEW lines \in {Factory, Import}, CopyAndReboot(c, lines)
      PROVE  UserInv'
  <2>1. PICK a : a = Call("cp", user_num, lines)
    OBVIOUS
  <2>2. PICK b : b = Call("reboot -f", user_num, 0)
    OBVIOUS
  <2>3. OtherCall(a) /\ OtherCall(b)
    BY <2>1, <2>2 DEF OtherCall, Call
  <2>4. PICK s : s = <<a, b>>
    OBVIOUS
  <2>5. s \in Seq({a, b}) /\ Len(s) = 2 /\ s[1] = a /\ s[2] = b
    BY <2>4
  <2>6. \A i \in 1 .. Len(s) : i = 1 \/ i = 2
    BY <2>5
  <2>7. IsList(s) /\ OtherPlan(s)
    BY <2>3, <2>5, <2>6, ListIntro DEF OtherPlan
  <2>8. Begin(c, s) /\ orderly' = orderly
    BY <1>4, <2>1, <2>2, <2>4 DEF CopyAndReboot
  <2> QED BY <2>7, <2>8, BeginsOther
<1> QED BY <1>1, <1>2, <1>3, <1>4 DEF Request

-----------------------------------------------------------------------------
(* Boot, shutdown and crash.                                               *)

LEMMA InitUsers ==
    ASSUME UsersCounted, ParamInv, StoreInv, UserInv, rk_param_init
    PROVE  UserInv'
<1>1. /\ power = "off" /\ todo[Main] = << >> /\ Main \in Threads
      /\ UNCHANGED <<file, kept, pc, reg, orderly>>
  BY ThreadLists DEF rk_param_init, disk
<1>2. \A x \in Threads : pc[x] = "idle" /\ todo[x] = << >>
  BY <1>1, InvParts, AllIdle
<1>3. orderly' => orderly /\ \A m \in kept' : Agree(m, 0)
  BY <1>1, KeptAgrees
<1>4. CASE /\ g_ini_d_' = "null"
           /\ todo' = [todo EXCEPT ![Main] = <<Call("cp", user_num, Factory)>>]
  <2>1. PICK a : a = Call("cp", user_num, Factory)
    OBVIOUS
  <2>2. PICK s : s = <<a>>
    OBVIOUS
  <2>3. s \in Seq({a}) /\ Len(s) = 1 /\ s[1] = a /\ a.fn = "cp"
    BY <2>1, <2>2 DEF Call
  <2>4. MainPlan(s)
    BY <2>3 DEF MainPlan
  <2>5. \A x \in Threads : todo'[x] = IF x = Main THEN s ELSE todo[x]
    BY <1>4, <2>1, <2>2, ThreadLists
  <2>6. /\ \A c \in Clients : todo'[c] = << >>
        /\ MainPlan(todo'[Main])
    BY <1>1, <1>2, <2>4, <2>5, ThreadLists
  <2>7. g_ini_d_' # "ok"
    BY <1>4
  <2> QED BY <1>3, <2>6, <2>7, NoUserSteps
<1>5. CASE /\ file # Unreadable /\ UNCHANGED todo
           /\ \E d \in {iniparser_load(file)} : g_ini_d_' = "ok" /\ slots' = d.slots
  <2>1. PICK lines : lines = file
    OBVIOUS
  <2>2. slots' = iniparser_load(lines).slots
    BY <1>5, <2>1
  <2>3. ~Writing
    BY <1>2 DEF Writing
  <2>4. kept = {Contents(iniparser_load(lines).slots)}
    BY <1>5, <2>1, <2>3, MapIs DEF StoreInv, OnDisk
  <2>5. Contents(slots') \in kept'
    BY <1>1, <2>2, <2>4
  <2>6. orderly' /\ g_ini_d_' = "ok" => Agree(Contents(slots'), 0)
    BY <1>3, <2>5
  <2>7. \A c \in Clients : todo'[c] = << >>
    BY <1>2, <1>5, ThreadLists
  <2>8. MainPlan(todo'[Main])
    BY <1>5 DEF UserInv, Planned
  <2> QED BY <1>3, <2>6, <2>7, <2>8, NoUserSteps
<1> QED BY <1>4, <1>5 DEF rk_param_init, dict

LEMMA NoMainCalls == MainPlan(<< >>)
<1>1. Len(<< >>) = 0
  OBVIOUS
<1> QED BY <1>1 DEF MainPlan

LEMMA DeinitUsers ==
    ASSUME ParamInv, UserInv, rk_param_deinit
    PROVE  UserInv'
<1>1. /\ \A c \in Clients : todo[c] = << >>
      /\ UNCHANGED <<g_ini_d_, slots, kept, orderly>>
  BY DEF rk_param_deinit, dict, disk
<1>2. PICK a : a = Call("rk_param_save", user_num, 0)
  OBVIOUS
<1>3. PICK save : save = <<a>>
  OBVIOUS
<1>4. PICK s : s = IF g_ini_d_ = "null" THEN << >> ELSE save
  OBVIOUS
<1>5. \A x \in Threads : todo'[x] = IF x = Main THEN s ELSE todo[x]
  <2>1. todo' = [todo EXCEPT ![Main] = s]
    BY <1>2, <1>3, <1>4 DEF rk_param_deinit
  <2> QED BY <2>1, ThreadLists
<1>6. MainPlan(s)
  <2>1. save \in Seq({a}) /\ Len(save) = 1 /\ save[1] = a /\ a.fn = "rk_param_save"
    BY <1>2, <1>3 DEF Call
  <2>2. MainPlan(save)
    BY <2>1 DEF MainPlan
  <2> QED BY <1>4, <2>2, NoMainCalls
<1>7. (\A c \in Clients : todo'[c] = << >>) /\ MainPlan(todo'[Main])
  BY <1>1, <1>5, <1>6, ThreadLists
<1>8. orderly' => orderly /\ \A m \in kept' : Agree(m, 0)
  BY <1>1, KeptAgrees
<1>9. orderly' /\ g_ini_d_' = "ok" => Agree(Contents(slots'), 0)
  <2>1. UserRequests = {}
    BY <1>1 DEF UserRequests
  <2> QED BY <1>1, <2>1 DEF UserInv
<1> QED BY <1>7, <1>8, <1>9, NoUserSteps

LEMMA DeinitFreeUsers ==
    ASSUME ParamInv, UserInv, DeinitFree
    PROVE  UserInv'
<1>1. /\ power = "end" /\ todo[Main] = << >> /\ g_ini_d_' \in {"null", "freed"}
      /\ UNCHANGED <<kept, todo, orderly>>
  BY DEF DeinitFree, disk, threads
<1>2. \A c \in Clients : todo'[c] = << >>
  BY <1>1 DEF ParamInv, Powered
<1>3. orderly' => orderly /\ \A m \in kept' : Agree(m, 0)
  BY <1>1, KeptAgrees
<1>4. MainPlan(todo'[Main]) /\ g_ini_d_' # "ok"
  BY <1>1, NoMainCalls
<1> QED BY <1>2, <1>3, <1>4, NoUserSteps

LEMMA VanishUsers ==
    ASSUME ParamInv, UserInv, Vanish
    PROVE  UserInv'
<1>1. /\ g_ini_d_' = "null" /\ todo' = [t \in Threads |-> << >>]
      /\ orderly' => orderly /\ {t \in Threads : pc[t] = "fill"} = {}
  BY DEF Vanish
<1>2. orderly' => kept' = kept
  BY <1>1 DEF Vanish, disk
<1>3. orderly' => \A m \in kept' : Agree(m, 0)
  BY <1>1, <1>2 DEF UserInv
<1>4. \A x \in Threads : todo'[x] = << >>
  BY <1>1
<1>5. (\A c \in Clients : todo'[c] = << >>) /\ MainPlan(todo'[Main]) /\ g_ini_d_' # "ok"
  BY <1>1, <1>4, ThreadLists, NoMainCalls
<1> QED BY <1>3, <1>5, NoUserSteps

LEMMA InitUserInv ==
    ASSUME UsersCounted
    PROVE  Init => UserInv
<1> SUFFICES ASSUME Init PROVE UserInv
  OBVIOUS
<1>1. /\ g_ini_d_ = "null" /\ kept = Map(file) /\ file \in {Factory, Unreadable}
      /\ todo = [t \in Threads |-> << >>]
  BY DEF Init
<1>2. \A m \in kept : Agree(m, 0)
  <2>1. kept = FactoryMap \/ kept = {}
    BY <1>1 DEF FactoryMap, Map
  <2>2. \A m \in kept : CountsUsers(m)
    BY <2>1 DEF UsersCounted
  <2> QED BY <2>2, CountsAgree
<1>3. \A x \in Threads : todo[x] = << >>
  BY <1>1
<1>4. UserRequests = {}
  BY <1>3 DEF UserRequests, Threads
<1>5. Planned
  <2>1. OtherPlan(<< >>)
    <3>1. Len(<< >>) = 0
      OBVIOUS
    <3> QED BY <3>1 DEF OtherPlan
  <2> QED BY <1>3, <2>1, NoMainCalls DEF Planned, Threads
<1> QED BY <1>1, <1>2, <1>4, <1>5 DEF UserInv

LEMMA StepUsers ==
    ASSUME "race" \notin Faults, UsersCounted
    PROVE  ParamInv /\ StoreInv /\ UserInv /\ [Next]_vars => UserInv'
<1> SUFFICES ASSUME ParamInv, StoreInv, UserInv, [Next]_vars
             PROVE  UserInv'
  OBVIOUS
<1>1. ASSUME NEW t \in Threads, Step(t) \/ SaveFails(t)
      PROVE  UserInv'
  BY <1>1, SetFindUsers, SetProbeUsers, UnsetUsers, CountUsers, GetUserNumUsers,
     WriteBeginUsers, WriteEndUsers, SaveFailsUsers DEF Step
<1>2. ASSUME NEW c \in Clients, Request(c) \/ RebootForced(c)
      PROVE  UserInv'
  BY <1>2, RequestUsers, VanishUsers DEF RebootForced
<1>3. CASE rk_param_init \/ rk_param_deinit \/ DeinitFree \/ Crash
  BY <1>3, InitUsers, DeinitUsers, DeinitFreeUsers, VanishUsers DEF Crash
<1>4. CASE UNCHANGED vars
  <2>1. UNCHANGED <<g_ini_d_, slots, kept, pc, todo, reg, orderly>>
    BY <1>4 DEF vars, dict, disk, threads
  <2> QED BY <2>1 DEF UserInv, Planned, UserRequests
<1> QED BY <1>1, <1>2, <1>3, <1>4 DEF Next

(* user_num is the number of users whenever no user request is running,    *)
(* for any files that agree with their number of users, if clients add     *)
(* only new users and delete only existing ones, one at a time, and no     *)
(* crash cut a write short: a request stopped in the middle by a crash, a  *)
(* save that fails, a shutdown, a reset to the factory settings and an     *)
(* import do not part the two (rk_system_add_user, rk_system_del_user,     *)
(* rk_system_get_user_num and rk_param_save together).                     *)
THEOREM UsersStayCounted ==
    ASSUME "race" \notin Faults, UsersCounted
    PROVE  Spec => []UserCount
<1>1. Init => ParamInv /\ StoreInv /\ UserInv
  BY InitInv, InitStoreInv, InitUserInv
<1>2. ParamInv /\ StoreInv /\ UserInv /\ [Next]_vars => (ParamInv /\ StoreInv /\ UserInv)'
  BY StepInv, StepStores, StepUsers
<1>3. ParamInv /\ StoreInv /\ UserInv => UserCount
  <2> SUFFICES ASSUME UserInv, orderly, Quiet
               PROVE  dictionary_get(slots, user_num) = Cardinality({u \in Users : UserPresent(u)})
    BY DEF UserCount
  <2>1. PICK m : m = Contents(slots)
    OBVIOUS
  <2>2. Agree(m, 0)
    BY <2>1 DEF Quiet, UserInv
  <2>3. m[user_num] = dictionary_get(slots, user_num)
    BY <2>1, <2>2 DEF Contents, Agree
  <2>4. Present(m) = {u \in Users : UserPresent(u)}
    BY <2>1 DEF Present, UserPresent, Contents, Keys, At
  <2>5. m[user_num] = Cardinality(Present(m))
    BY <2>2, PresentCount DEF Agree
  <2> QED BY <2>3, <2>4, <2>5
<1> QED BY <1>1, <1>2, <1>3, PTL DEF Spec
=============================================================================
