--------------------------- MODULE FileList_proofs ---------------------------
(***************************************************************************)
(* What the functions of FileList do to a list of any length: the lemmas   *)
(* that the proofs about the storage threads rest on.                      *)
(*                                                                         *)
(* The lists are long, and two of the functions are loops (recursive       *)
(* functions here), so that most of the lemmas are proved by induction, in *)
(* the form that the provers can follow: a set of numbers that has a       *)
(* member has a least one.                                                 *)
(***************************************************************************)
EXTENDS FileList, SequenceTheorems, FiniteSetTheorems, NaturalsInduction, WellFoundedInduction,
        TLAPS

-----------------------------------------------------------------------------
(* Numbers, and recursive functions.                                       *)

LEMMA LeastNumber ==
    ASSUME NEW T \in SUBSET Nat, T # {}
    PROVE  \E x \in T : \A y \in T : x <= y
<1>1. IsWellFoundedOn(OpToRel(<, Nat), Nat)
  BY NatLessThanWellFounded, Zenon
<1>2. PICK x \in T : \A y \in T : ~(<<y, x>> \in OpToRel(<, Nat))
  BY <1>1, WFMin, Zenon
<1>3. \A y \in T : ~(y < x)
  BY <1>2 DEF OpToRel
<1> QED BY <1>3

(* A set of numbers to which 0 belongs and with each number the next one,  *)
(* up to n, holds all numbers up to n.                                     *)
LEMMA Counting ==
    ASSUME NEW n \in Nat, NEW P, 0 \in P,
           \A i \in 1 .. n : i - 1 \in P => i \in P
    PROVE  0 .. n \subseteq P
<1> DEFINE T == {i \in 0 .. n : i \notin P}
<1> SUFFICES ASSUME T # {} PROVE FALSE
  OBVIOUS
<1>1. PICK x \in T : \A y \in T : x <= y
  <2>1. T \in SUBSET Nat OBVIOUS
  <2> HIDE DEF T
  <2> QED BY <2>1, LeastNumber
<1>2. x \in 1 .. n /\ x - 1 \in 0 .. n /\ ~(x <= x - 1)
  OBVIOUS
<1>3. x - 1 \in P
  BY <1>1, <1>2
<1> QED BY <1>2, <1>3

(* A recursive function on 0 .. n exists.                                  *)
Recursive(f, n, x0, step) == f[0] = x0 /\ \A i \in 1 .. n : f[i] = step[<<f[i - 1], i>>]

LEMMA Recursion ==
    ASSUME NEW X, NEW n \in Nat, NEW x0 \in X, NEW step \in [X \X (1 .. n) -> X]
    PROVE  \E f \in [0 .. n -> X] : Recursive(f, n, x0, step)
<1> DEFINE Good(f, m) == f[0] = x0 /\ \A i \in 1 .. m : f[i] = step[<<f[i - 1], i>>]
           P == {m \in 0 .. n : \E f \in [0 .. m -> X] : Good(f, m)}
<1>1. 0 \in P
  <2> DEFINE g == [i \in 0 .. 0 |-> x0]
  <2>1. g \in [0 .. 0 -> X] /\ Good(g, 0) OBVIOUS
  <2> HIDE DEF g, Good
  <2>2. \E f \in [0 .. 0 -> X] : Good(f, 0) BY <2>1
  <2> QED BY <2>2
<1>2. ASSUME NEW m \in 1 .. n, m - 1 \in P
      PROVE  m \in P
  <2>1. PICK f \in [0 .. m - 1 -> X] : Good(f, m - 1)
    BY <1>2
  <2> DEFINE g == [i \in 0 .. m |-> IF i = m THEN step[<<f[m - 1], m>>] ELSE f[i]]
  <2>2. m - 1 \in 0 .. m - 1 /\ 0 \in 0 .. m - 1
    OBVIOUS
  <2>3. f[m - 1] \in X
    BY <2>2
  <2>4. step[<<f[m - 1], m>>] \in X
    BY <2>3
  <2>5. g \in [0 .. m -> X]
    BY <2>4
  <2>6. g[0] = x0
    BY <2>1
  <2>7. \A i \in 1 .. m : g[i] = step[<<g[i - 1], i>>]
    <3> TAKE i \in 1 .. m
    <3>1. g[i - 1] = f[i - 1]
      OBVIOUS
    <3>2. i # m => i \in 1 .. m - 1 /\ g[i] = f[i]
      OBVIOUS
    <3>3. i = m => g[i] = step[<<f[m - 1], m>>]
      OBVIOUS
    <3> HIDE DEF g
    <3> QED BY <2>1, <3>1, <3>2, <3>3
  <2>8. Good(g, m)
    BY <2>6, <2>7
  <2> HIDE DEF g, Good
  <2>9. \E h \in [0 .. m -> X] : Good(h, m)
    BY <2>5, <2>8
  <2> QED BY <2>9
<1>3. n \in P
  <2> HIDE DEF P
  <2>1. 0 .. n \subseteq P
    BY <1>1, <1>2, Counting
  <2> QED BY <2>1
<1> QED BY <1>3 DEF Recursive

(* Such a function has its values in X.                                    *)
LEMMA RecursionType ==
    ASSUME NEW X, NEW n \in Nat, NEW f, f[0] \in X,
           \A i \in 1 .. n : f[i - 1] \in X => f[i] \in X
    PROVE  \A i \in 0 .. n : f[i] \in X
<1> DEFINE P == {i \in 0 .. n : f[i] \in X}
<1>1. 0 \in P
  OBVIOUS
<1>2. \A i \in 1 .. n : i - 1 \in P => i \in P
  OBVIOUS
<1> HIDE DEF P
<1>3. 0 .. n \subseteq P
  BY <1>1, <1>2, Counting
<1> QED BY <1>3 DEF P

-----------------------------------------------------------------------------
(* Sequences.                                                              *)

LEMMA SubSeqLen ==
    ASSUME NEW S, NEW s, NEW m \in Int, NEW n \in Int, \A i \in m .. n : s[i] \in S
    PROVE  Len(SubSeq(s, m, n)) = IF m <= n THEN n - m + 1 ELSE 0
BY SubSeqProperties

LEMMA SubSeqElement ==
    ASSUME NEW S, NEW s, NEW m \in Int, NEW n \in Int, \A i \in m .. n : s[i] \in S
    PROVE  \A i \in 1 .. n - m + 1 : SubSeq(s, m, n)[i] = s[m + i - 1]
BY SubSeqProperties

(* What is found at place i after e was put at place p.                    *)
Inserted(s, p, e, i) == IF i < p THEN s[i] ELSE IF i = p THEN e ELSE s[i - 1]

LEMMA InsertAtProperties ==
    ASSUME NEW S, NEW s \in Seq(S), NEW p \in 1 .. Len(s) + 1, NEW e \in S
    PROVE  /\ InsertAt(s, p, e) \in Seq(S)
           /\ Len(InsertAt(s, p, e)) = Len(s) + 1
           /\ \A i \in 1 .. Len(s) + 1 : InsertAt(s, p, e)[i] = Inserted(s, p, e, i)
<1> PICK n : n = Len(s)
  OBVIOUS
<1> DEFINE a == SubSeq(s, 1, p - 1)
           b == <<e>>
           c == SubSeq(s, p, n)
<1>0. n \in Int /\ p \in Int /\ p - 1 \in Int /\ 1 \in Int
  BY LenProperties
<1>1. n \in Nat /\ \A i \in 1 .. n : s[i] \in S
  BY LenProperties, ElementOfSeq
<1>2. a \in Seq(S) /\ Len(a) = p - 1 /\ \A i \in 1 .. p - 1 : a[i] = s[i]
  <2>1. \A i \in 1 .. p - 1 : s[i] \in S
    BY <1>0, <1>1
  <2>2. a \in Seq(S)
    BY <1>0, <2>1, SubSeqProperties
  <2>3. Len(a) = IF 1 <= p - 1 THEN p - 1 - 1 + 1 ELSE 0
    BY <1>0, <2>1, SubSeqLen, Zenon
  <2>4. \A i \in 1 .. p - 1 - 1 + 1 : a[i] = s[1 + i - 1]
    BY <1>0, <2>1, SubSeqElement
  <2> QED BY <1>0, <1>1, <2>2, <2>3, <2>4
<1>3. c \in Seq(S) /\ Len(c) = n - p + 1 /\ \A i \in 1 .. n - p + 1 : c[i] = s[p + i - 1]
  <2>1. \A i \in p .. n : s[i] \in S
    BY <1>1
  <2>2. c \in Seq(S)
    BY <1>0, <2>1, SubSeqProperties
  <2>3. Len(c) = IF p <= n THEN n - p + 1 ELSE 0
    BY <1>0, <2>1, SubSeqLen, Zenon
  <2>4. \A i \in 1 .. n - p + 1 : c[i] = s[p + i - 1]
    BY <1>0, <2>1, SubSeqElement
  <2> QED BY <1>0, <1>1, <2>2, <2>3, <2>4
<1>4. b \in Seq(S) /\ Len(b) = 1 /\ b[1] = e
  OBVIOUS
<1>5. InsertAt(s, p, e) = a \o b \o c
  BY DEF InsertAt
<1> HIDE DEF a, b, c
<1>6. /\ a \o b \in Seq(S)
      /\ Len(a \o b) = p - 1 + 1
      /\ \A i \in 1 .. p - 1 + 1 : (a \o b)[i] = IF i <= p - 1 THEN a[i] ELSE b[i - (p - 1)]
  <2>1. a \in Seq(S) /\ b \in Seq(S) /\ Len(a) = p - 1 /\ Len(b) = 1
    BY <1>2, <1>4
  <2>2. a \o b \in Seq(S)
    BY <2>1, ConcatProperties
  <2>3. Len(a \o b) = Len(a) + Len(b)
    BY <2>1, ConcatProperties, Zenon
  <2>4. \A i \in 1 .. Len(a) + Len(b) :
          (a \o b)[i] = IF i <= Len(a) THEN a[i] ELSE b[i - Len(a)]
    BY <2>1, ConcatProperties, Zenon
  <2> QED BY <2>1, <2>2, <2>3, <2>4, Zenon
<1> DEFINE d == a \o b
<1>7. d \in Seq(S) /\ Len(d) = p /\ \A i \in 1 .. p : d[i] = IF i < p THEN s[i] ELSE e
  <2>1. \A i \in 1 .. p : d[i] = IF i <= p - 1 THEN a[i] ELSE b[i - (p - 1)]
    BY <1>6
  <2> HIDE DEF d
  <2>2. \A i \in 1 .. p : i <= p - 1 <=> i < p
    OBVIOUS
  <2>3. \A i \in 1 .. p : ~(i < p) => i - (p - 1) = 1
    OBVIOUS
  <2>4. \A i \in 1 .. p : i < p => i \in 1 .. p - 1
    OBVIOUS
  <2>5. \A i \in 1 .. p : d[i] = IF i < p THEN s[i] ELSE e
    BY <1>2, <1>4, <2>1, <2>2, <2>3, <2>4
  <2>6. d \in Seq(S) /\ Len(d) = p
    BY <1>6 DEF d
  <2> QED BY <2>5, <2>6
<1> HIDE DEF d
<1>8. /\ d \o c \in Seq(S)
      /\ Len(d \o c) = p + (n - p + 1)
      /\ \A i \in 1 .. p + (n - p + 1) : (d \o c)[i] = IF i <= p THEN d[i] ELSE c[i - p]
  <2>1. d \in Seq(S) /\ c \in Seq(S) /\ Len(d) = p /\ Len(c) = n - p + 1
    BY <1>3, <1>7
  <2>2. d \o c \in Seq(S)
    BY <2>1, ConcatProperties
  <2>3. Len(d \o c) = Len(d) + Len(c)
    BY <2>1, ConcatProperties, Zenon
  <2>4. \A i \in 1 .. Len(d) + Len(c) :
          (d \o c)[i] = IF i <= Len(d) THEN d[i] ELSE c[i - Len(d)]
    BY <2>1, ConcatProperties, Zenon
  <2> QED BY <2>1, <2>2, <2>3, <2>4, Zenon
<1>9. InsertAt(s, p, e) = d \o c
  BY <1>5 DEF d
<1> DEFINE r == InsertAt(s, p, e)
<1>10. p + (n - p + 1) = n + 1
  BY <1>1
<1>11. /\ r \in Seq(S) /\ Len(r) = n + 1
       /\ \A i \in 1 .. n + 1 : r[i] = IF i <= p THEN d[i] ELSE c[i - p]
  BY <1>8, <1>9, <1>10, Zenon
<1> HIDE DEF r
<1>12. ASSUME NEW i \in 1 .. n + 1
       PROVE  r[i] = IF i < p THEN s[i] ELSE IF i = p THEN e ELSE s[i - 1]
  <2>1. CASE i <= p
    BY <1>7, <1>11, <2>1
  <2>2. CASE ~(i <= p)
    <3>1. i - p \in 1 .. n - p + 1 /\ p + (i - p) - 1 = i - 1
      BY <2>2, <1>1
    <3>2. c[i - p] = s[i - 1]
      BY <1>3, <3>1, Zenon
    <3> QED BY <1>11, <2>2, <3>2
  <2> QED BY <2>1, <2>2
<1> QED BY <1>11, <1>12 DEF r, Inserted

-----------------------------------------------------------------------------
(* rkipc_storage_file_list_add.                                            *)

EntryOf(N) == [name : N, time : Nat, space : Nat]

(* The place where an entry is put: behind all newer ones and before the   *)
(* first that is not newer.                                                *)
LEMMA PositionProperties ==
    ASSUME NEW N, NEW list \in Seq(EntryOf(N)), NEW n, n = Len(list), NEW e \in EntryOf(N)
    PROVE  /\ Position(list, e) \in 1 .. n + 1
           /\ \A i \in 1 .. n : i < Position(list, e) => e.time < list[i].time
           /\ Position(list, e) <= n => e.time >= list[Position(list, e)].time
<1> DEFINE older == {i \in 1 .. n : e.time >= list[i].time}
           p == Position(list, e)
<1>1. n \in Nat /\ \A i \in 1 .. n : list[i].time \in Nat
  <2>1. n \in Nat
    BY LenProperties
  <2>2. \A i \in 1 .. n : list[i] \in EntryOf(N)
    BY ElementOfSeq
  <2> QED BY <2>1, <2>2 DEF EntryOf
<1>2. e.time \in Nat
  BY DEF EntryOf
<1>3. p = IF older = {} THEN n + 1 ELSE Min(older)
  BY DEF Position
<1>4. CASE older = {}
  <2>1. \A i \in 1 .. n : ~(e.time >= list[i].time)
    BY <1>4
  <2> HIDE DEF older, p
  <2> QED BY <1>1, <1>2, <1>3, <1>4, <2>1 DEF p
<1>5. CASE older # {}
  <2>1. older \in SUBSET Nat
    BY <1>1
  <2>2. \E x \in older : \A y \in older : x <= y
    <3> HIDE DEF older
    <3> QED BY <1>5, <2>1, LeastNumber
  <2>3. p \in older /\ \A y \in older : p <= y
    <3> HIDE DEF older
    <3> QED BY <1>3, <1>5, <2>2 DEF Min
  <2> HIDE DEF p
  <2>4. p \in 1 .. n /\ e.time >= list[p].time
    BY <2>3
  <2>5. \A i \in 1 .. n : i < p => ~(e.time >= list[i].time)
    BY <1>1, <2>3, <2>4
  <2> QED BY <1>1, <1>2, <2>4, <2>5 DEF p
<1> QED BY <1>4, <1>5

(* G is F with e put at place p of its list.                               *)
Added(F, e, G, S, n, p) ==
    /\ n \in Nat /\ p \in 1 .. n + 1
    /\ G.list \in Seq(S) /\ Len(G.list) = n + 1
    /\ \A i \in 1 .. n + 1 : G.list[i] = Inserted(F.list, p, e, i)
    /\ \A i \in 1 .. n : i < p => e.time < F.list[i].time
    /\ p <= n => e.time >= F.list[p].time
    /\ G.last = (IF p > n THEN e ELSE F.last)
    /\ G.file_num = F.file_num + 1
    /\ G.total_space = F.total_space + e.space

(* The list after an addition, entry by entry.                             *)
LEMMA AddList ==
    ASSUME NEW N, NEW F, F.list \in Seq(EntryOf(N)), NEW e \in EntryOf(N)
    PROVE  Added(F, e, file_list_add(F, e), EntryOf(N), Len(F.list), Position(F.list, e))
<1> PICK n, p, G : n = Len(F.list) /\ p = Position(F.list, e) /\ G = file_list_add(F, e)
  OBVIOUS
<1>1. G.list = InsertAt(F.list, p, e)
  BY DEF file_list_add
<1>2. p \in 1 .. n + 1
  BY PositionProperties
<1>3. /\ G.list \in Seq(EntryOf(N)) /\ Len(G.list) = n + 1
      /\ \A i \in 1 .. n + 1 : G.list[i] = Inserted(F.list, p, e, i)
  <2>1. /\ InsertAt(F.list, p, e) \in Seq(EntryOf(N))
        /\ Len(InsertAt(F.list, p, e)) = n + 1
        /\ \A i \in 1 .. n + 1 : InsertAt(F.list, p, e)[i] = Inserted(F.list, p, e, i)
    <3> DEFINE s == F.list
    <3>1. s \in Seq(EntryOf(N)) /\ n = Len(s) /\ p \in 1 .. Len(s) + 1
      BY <1>2
    <3> HIDE DEF s
    <3>2. InsertAt(s, p, e) \in Seq(EntryOf(N))
      BY <3>1, InsertAtProperties
    <3>3. Len(InsertAt(s, p, e)) = n + 1
      BY <3>1, InsertAtProperties
    <3>4. \A i \in 1 .. Len(s) + 1 : InsertAt(s, p, e)[i] = Inserted(s, p, e, i)
      BY <3>1, InsertAtProperties
    <3> QED BY <3>1, <3>2, <3>3, <3>4 DEF s
  <2> QED BY <1>1, <2>1, Zenon
<1>4. /\ \A i \in 1 .. n : i < p => e.time < F.list[i].time
      /\ p <= n => e.time >= F.list[p].time
  BY PositionProperties
<1>5. /\ G.last = (IF p > n THEN e ELSE F.last)
      /\ G.file_num = F.file_num + 1
      /\ G.total_space = F.total_space + e.space
  BY DEF file_list_add
<1>6. Added(F, e, G, EntryOf(N), n, p)
  BY <1>2, <1>3, <1>4, <1>5, LenProperties DEF Added
<1> QED BY <1>6

(* An added entry keeps the list sorted.                                   *)
LEMMA AddSorted ==
    ASSUME NEW N, NEW F, F.list \in Seq(EntryOf(N)), NEW e \in EntryOf(N), Sorted(F)
    PROVE  Sorted(file_list_add(F, e))
<1> PICK n, p, G : n = Len(F.list) /\ p = Position(F.list, e) /\ G = file_list_add(F, e)
  OBVIOUS
<1>0. Added(F, e, G, EntryOf(N), n, p)
  BY AddList
<1>1. /\ n \in Nat /\ p \in 1 .. n + 1 /\ Len(G.list) = n + 1
      /\ \A i \in 1 .. n + 1 : G.list[i] = Inserted(F.list, p, e, i)
      /\ \A i \in 1 .. n : i < p => e.time < F.list[i].time
      /\ p <= n => e.time >= F.list[p].time
  BY <1>0 DEF Added
<1> USE DEF Inserted
<1>2. e.time \in Nat /\ \A i \in 1 .. n : F.list[i].time \in Nat
  <2>1. \A i \in 1 .. n : F.list[i] \in EntryOf(N)
    BY ElementOfSeq
  <2> QED BY <2>1 DEF EntryOf
<1>3. \A i, j \in 1 .. n : i < j => F.list[i].time >= F.list[j].time
  BY DEF Sorted
<1>4. \A i \in 1 .. n : i >= p => e.time >= F.list[i].time
  BY <1>1, <1>2, <1>3
<1> SUFFICES ASSUME NEW i \in 1 .. n + 1, NEW j \in 1 .. n + 1, i < j
             PROVE  G.list[i].time >= G.list[j].time
  BY <1>1 DEF Sorted
<1>5. CASE j < p
  BY <1>1, <1>3, <1>5
<1>6. CASE j = p
  <2>1. i < p /\ i # p /\ i \in 1 .. n /\ ~(j < p)
    BY <1>1, <1>6
  <2>2. G.list[i] = F.list[i] /\ G.list[j] = e
    BY <1>1, <1>6, <2>1
  <2>3. e.time < F.list[i].time
    BY <1>1, <2>1
  <2>4. PICK x \in Nat, y \in Nat : x = e.time /\ y = F.list[i].time
    BY <1>2, <2>1
  <2> QED BY <2>2, <2>3, <2>4
<1>7. CASE i = p
  <2>1. G.list[i] = e /\ G.list[j] = F.list[j - 1] /\ j - 1 \in 1 .. n /\ j - 1 >= p
    BY <1>1, <1>7
  <2> QED BY <1>4, <2>1
<1>8. CASE i < p /\ j > p
  <2>1. G.list[i] = F.list[i] /\ G.list[j] = F.list[j - 1] /\ i \in 1 .. n /\ j - 1 \in 1 .. n
    BY <1>1, <1>8
  <2>2. i < j - 1
    BY <1>1, <1>8
  <2> QED BY <1>3, <2>1, <2>2
<1>9. CASE i > p
  <2>1. G.list[i] = F.list[i - 1] /\ G.list[j] = F.list[j - 1] /\ i - 1 \in 1 .. n /\ j - 1 \in 1 .. n
    BY <1>1, <1>9
  <2>2. i - 1 < j - 1
    OBVIOUS
  <2> QED BY <1>3, <2>1, <2>2
<1> QED BY <1>1, <1>5, <1>6, <1>7, <1>8, <1>9

(* The list holds what it held before and the added entry.                 *)
HoldsAlso(F, e, G) == ToSet(G.list) = ToSet(F.list) \cup {e}

LEMMA AddContents ==
    ASSUME NEW N, NEW F, F.list \in Seq(EntryOf(N)), NEW e \in EntryOf(N)
    PROVE  HoldsAlso(F, e, file_list_add(F, e))
<1> PICK n, p, G : n = Len(F.list) /\ p = Position(F.list, e) /\ G = file_list_add(F, e)
  OBVIOUS
<1>0. Added(F, e, G, EntryOf(N), n, p)
  BY AddList
<1>1. /\ n \in Nat /\ p \in 1 .. n + 1 /\ Len(G.list) = n + 1
      /\ \A i \in 1 .. n + 1 : G.list[i] = Inserted(F.list, p, e, i)
      /\ G.list \in Seq(EntryOf(N))
  BY <1>0 DEF Added
<1> USE DEF Inserted
<1>2. DOMAIN G.list = 1 .. n + 1 /\ DOMAIN F.list = 1 .. n
  BY <1>1, LenProperties
<1>3. ASSUME NEW i \in 1 .. n + 1
      PROVE  G.list[i] \in ToSet(F.list) \cup {e}
  <2>1. i < p => i \in 1 .. n
    BY <1>1
  <2>2. i > p => i - 1 \in 1 .. n
    BY <1>1
  <2>3. i < p \/ i = p \/ i > p
    BY <1>1
  <2> QED BY <1>1, <1>2, <2>1, <2>2, <2>3 DEF ToSet
<1>4. ASSUME NEW i \in 1 .. n
      PROVE  F.list[i] \in ToSet(G.list)
  <2>1. CASE i < p
    <3>1. i \in 1 .. n + 1 /\ G.list[i] = F.list[i]
      BY <1>1, <2>1
    <3> QED BY <1>2, <3>1 DEF ToSet
  <2>2. CASE i >= p
    <3>1. i + 1 \in 1 .. n + 1 /\ ~(i + 1 < p) /\ i + 1 # p /\ i + 1 - 1 = i
      BY <1>1, <2>2
    <3>2. G.list[i + 1] = F.list[i]
      BY <1>1, <3>1
    <3> QED BY <1>2, <3>1, <3>2 DEF ToSet
  <2> QED BY <1>1, <2>1, <2>2
<1>5. e \in ToSet(G.list)
  BY <1>1, <1>2 DEF ToSet
<1>6. ToSet(G.list) = {G.list[i] : i \in 1 .. n + 1} /\ ToSet(F.list) = {F.list[i] : i \in 1 .. n}
  BY <1>2 DEF ToSet
<1>7. ToSet(G.list) \subseteq ToSet(F.list) \cup {e}
  BY <1>3, <1>6, Zenon
<1>8. ToSet(F.list) \subseteq ToSet(G.list)
  BY <1>4, <1>6, Zenon
<1>9. ToSet(G.list) = ToSet(F.list) \cup {e}
  BY <1>5, <1>7, <1>8, Zenon
<1> QED BY <1>9, Zenon DEF HoldsAlso

LEMMA NamesOfList ==
    ASSUME NEW N, NEW F, F.list \in Seq(EntryOf(N))
    PROVE  Names(F) = {e.name : e \in ToSet(F.list)}
BY LenProperties DEF Names, ToSet

(* A new name keeps the names unique.                                      *)
LEMMA AddUnique ==
    ASSUME NEW N, NEW F, F.list \in Seq(EntryOf(N)), NEW e \in EntryOf(N),
           UniqueNames(F), ~file_list_check(F, e.name)
    PROVE  UniqueNames(file_list_add(F, e))
<1> PICK n, p, G : n = Len(F.list) /\ p = Position(F.list, e) /\ G = file_list_add(F, e)
  OBVIOUS
<1>0. Added(F, e, G, EntryOf(N), n, p)
  BY AddList
<1>1. /\ n \in Nat /\ p \in 1 .. n + 1 /\ Len(G.list) = n + 1
      /\ \A i \in 1 .. n + 1 : G.list[i] = Inserted(F.list, p, e, i)
  BY <1>0 DEF Added
<1> USE DEF Inserted
<1>2. \A i, j \in 1 .. n : F.list[i].name = F.list[j].name => i = j
  BY DEF UniqueNames
<1>3. \A i \in 1 .. n : F.list[i].name # e.name
  BY DEF file_list_check, Names
<1>4. ASSUME NEW i \in 1 .. n + 1, i # p
      PROVE  \E k \in 1 .. n : G.list[i] = F.list[k] /\ i = IF k < p THEN k ELSE k + 1
  <2>1. CASE i < p
    BY <1>1, <2>1
  <2>2. CASE i > p
    <3>1. i - 1 \in 1 .. n /\ ~(i - 1 < p) /\ i - 1 + 1 = i /\ ~(i < p)
      BY <1>1, <2>2
    <3>2. G.list[i] = F.list[i - 1]
      BY <1>1, <1>4, <3>1
    <3> QED BY <3>1, <3>2
  <2> QED BY <1>1, <1>4, <2>1, <2>2
<1> SUFFICES ASSUME NEW i \in 1 .. n + 1, NEW j \in 1 .. n + 1, G.list[i].name = G.list[j].name
             PROVE  i = j
  BY <1>1 DEF UniqueNames
<1>5. CASE i = p \/ j = p
  <2>1. \A k \in 1 .. n + 1 : k # p => G.list[k].name # e.name
    <3> SUFFICES ASSUME NEW k \in 1 .. n + 1, k # p PROVE G.list[k].name # e.name
      OBVIOUS
    <3>1. PICK l \in 1 .. n : G.list[k] = F.list[l]
      BY <1>4
    <3> QED BY <1>3, <3>1
  <2>2. G.list[p] = e
    BY <1>1
  <2> QED BY <1>5, <2>1, <2>2
<1>6. CASE i # p /\ j # p
  <2>1. PICK k \in 1 .. n : G.list[i] = F.list[k] /\ i = IF k < p THEN k ELSE k + 1
    BY <1>4, <1>6
  <2>2. PICK l \in 1 .. n : G.list[j] = F.list[l] /\ j = IF l < p THEN l ELSE l + 1
    BY <1>4, <1>6
  <2>3. k = l
    BY <1>2, <2>1, <2>2
  <2> QED BY <2>1, <2>2, <2>3
<1> QED BY <1>5, <1>6
-----------------------------------------------------------------------------
(* The total space.                                                        *)

(* Space is the last of the partial sums.                                  *)
LEMMA SpaceRec ==
    ASSUME NEW list, NEW n \in Nat, n = Len(list), \A i \in 1 .. n : list[i].space \in Nat
    PROVE  \E sum \in [0 .. n -> Nat] :
              /\ sum[0] = 0 /\ \A i \in 1 .. n : sum[i] = sum[i - 1] + list[i].space
              /\ Space(list) = sum[n]
<1> DEFINE IsSum(f) == f = [i \in 0 .. Len(list) |-> IF i = 0 THEN 0 ELSE f[i - 1] + list[i].space]
           s == CHOOSE f : IsSum(f)
           step == [z \in Nat \X (1 .. n) |-> z[1] + list[z[2]].space]
<1>1. Space(list) = s[Len(list)]
  BY DEF Space
<1>2. step \in [Nat \X (1 .. n) -> Nat]
  OBVIOUS
<1> HIDE DEF step
<1>3. PICK f \in [0 .. n -> Nat] : Recursive(f, n, 0, step)
  <2>1. 0 \in Nat OBVIOUS
  <2> QED BY <1>2, <2>1, Recursion
<1>4. \A i \in 1 .. n : i - 1 \in 0 .. n /\ i \in 0 .. n /\ i # 0
  OBVIOUS
<1>5. \A i \in 1 .. n : f[i] = f[i - 1] + list[i].space
  BY <1>3, <1>4 DEF step, Recursive
<1>6. \A i \in 0 .. n : i # 0 => i \in 1 .. n
  OBVIOUS
<1>7. f = [i \in 0 .. n |-> IF i = 0 THEN 0 ELSE f[i - 1] + list[i].space]
  BY <1>3, <1>5, <1>6 DEF Recursive
<1>8. IsSum(f)
  BY <1>7
<1> HIDE DEF IsSum
<1>9. IsSum(s)
  BY <1>8
<1> HIDE DEF s
<1>10. s = [i \in 0 .. n |-> IF i = 0 THEN 0 ELSE s[i - 1] + list[i].space]
  BY <1>9 DEF IsSum
<1>11. s[0] = 0 /\ \A i \in 1 .. n : s[i] = s[i - 1] + list[i].space
  BY <1>4, <1>10
<1>12. \A i \in 0 .. n : s[i] \in Nat
  <2>1. s[0] \in Nat
    BY <1>11
  <2>2. ASSUME NEW i \in 1 .. n, s[i - 1] \in Nat
        PROVE  s[i] \in Nat
    <3>1. s[i] = s[i - 1] + list[i].space /\ list[i].space \in Nat
      BY <1>11
    <3> QED BY <2>2, <3>1
  <2> QED BY <2>1, <2>2, RecursionType, Zenon
<1>13. s \in [0 .. n -> Nat]
  BY <1>10, <1>12
<1> QED BY <1>1, <1>11, <1>13

(* An added entry adds its space, wherever it is put.                      *)
LEMMA SpaceInsert ==
    ASSUME NEW N, NEW F, F.list \in Seq(EntryOf(N)), NEW e \in EntryOf(N)
    PROVE  Space(file_list_add(F, e).list) = Space(F.list) + e.space
<1> PICK n, p, G : n = Len(F.list) /\ p = Position(F.list, e) /\ G = file_list_add(F, e)
  OBVIOUS
<1>0. Added(F, e, G, EntryOf(N), n, p)
  BY AddList
<1>1. /\ n \in Nat /\ p \in 1 .. n + 1 /\ Len(G.list) = n + 1
      /\ \A i \in 1 .. n + 1 : G.list[i] = Inserted(F.list, p, e, i)
      /\ G.list \in Seq(EntryOf(N))
  BY <1>0 DEF Added
<1>2. e.space \in Nat /\ \A i \in 1 .. n : F.list[i].space \in Nat
  <2>1. \A i \in 1 .. n : F.list[i] \in EntryOf(N)
    BY ElementOfSeq
  <2> QED BY <2>1 DEF EntryOf
<1>3. \A i \in 1 .. n + 1 : G.list[i].space \in Nat
  <2>1. \A i \in 1 .. n + 1 : G.list[i] \in EntryOf(N)
    BY <1>1, ElementOfSeq
  <2> QED BY <2>1 DEF EntryOf
<1> DEFINE a == F.list
           b == G.list
<1>4. PICK s \in [0 .. n -> Nat] :
         /\ s[0] = 0 /\ \A i \in 1 .. n : s[i] = s[i - 1] + a[i].space
         /\ Space(a) = s[n]
  <2>1. n = Len(a) /\ \A i \in 1 .. n : a[i].space \in Nat
    BY <1>1, <1>2
  <2> HIDE DEF a
  <2> QED BY <1>1, <2>1, SpaceRec
<1>5. PICK t \in [0 .. n + 1 -> Nat] :
         /\ t[0] = 0 /\ \A i \in 1 .. n + 1 : t[i] = t[i - 1] + b[i].space
         /\ Space(b) = t[n + 1]
  <2> PICK m : m = n + 1 OBVIOUS
  <2>1. m \in Nat /\ m = Len(b) /\ \A i \in 1 .. m : b[i].space \in Nat
    BY <1>1, <1>3
  <2> HIDE DEF b
  <2>2. \E t \in [0 .. m -> Nat] :
          /\ t[0] = 0 /\ \A i \in 1 .. m : t[i] = t[i - 1] + b[i].space
          /\ Space(b) = t[m]
    BY <2>1, SpaceRec
  <2> QED BY <2>2
<1> DEFINE P == {m \in 0 .. n + 1 : t[m] = IF m < p THEN s[m] ELSE s[m - 1] + e.space}
<1>6. 0 \in P
  BY <1>1, <1>4, <1>5
<1>7. ASSUME NEW m \in 1 .. n + 1, m - 1 \in P
      PROVE  m \in P
  <2>1. t[m] = t[m - 1] + b[m].space
    BY <1>5
  <2>2. t[m - 1] = IF m - 1 < p THEN s[m - 1] ELSE s[m - 1 - 1] + e.space
    BY <1>7
  <2>3. CASE m < p
    <3>1. m \in 1 .. n /\ m - 1 < p
      BY <1>1, <2>3
    <3>2. b[m] = a[m]
      BY <1>1, <2>3 DEF Inserted
    <3>3. s[m] = s[m - 1] + a[m].space
      BY <1>4, <3>1
    <3>4. t[m] = s[m]
      BY <2>1, <2>2, <3>1, <3>2, <3>3
    <3> QED BY <2>3, <3>4
  <2>4. CASE m = p
    <3>1. m - 1 < p /\ ~(m < p)
      BY <1>1, <2>4
    <3>2. b[m] = e
      BY <1>1, <2>4 DEF Inserted
    <3> QED BY <2>1, <2>2, <3>1, <3>2
  <2>5. CASE m > p
    <3>1. m - 1 \in 1 .. n /\ ~(m - 1 < p) /\ ~(m < p) /\ m # p
      BY <1>1, <2>5
    <3>2. b[m] = a[m - 1]
      BY <1>1, <3>1 DEF Inserted
    <3>3. s[m - 1] = s[m - 1 - 1] + a[m - 1].space
      BY <1>4, <3>1
    <3>4. s[m - 1 - 1] \in Nat /\ a[m - 1].space \in Nat
      <4>1. m - 1 - 1 \in 0 .. n
        BY <3>1
      <4> QED BY <1>2, <1>4, <3>1, <4>1
    <3>5. t[m] = s[m - 1] + e.space
      BY <1>2, <2>1, <2>2, <3>1, <3>2, <3>3, <3>4
    <3> QED BY <3>1, <3>5
  <2> QED BY <1>1, <2>3, <2>4, <2>5
<1>8. n + 1 \in P
  <2> PICK k : k = n + 1 OBVIOUS
  <2>1. k \in Nat /\ n + 1 \in 0 .. k /\ \A m \in 1 .. k : m - 1 \in P => m \in P
    BY <1>1, <1>7
  <2> HIDE DEF P
  <2>2. 0 .. k \subseteq P
    BY <1>6, <2>1, Counting
  <2> QED BY <2>1, <2>2
<1>9. t[n + 1] = s[n] + e.space
  BY <1>1, <1>8
<1> QED BY <1>4, <1>5, <1>9
(* file_list_last, file_num and total_space stay those of the list.        *)
LEMMA AddConsistent ==
    ASSUME NEW N, NEW F, F.list \in Seq(EntryOf(N)), NEW e \in EntryOf(N), Consistent(F)
    PROVE  Consistent(file_list_add(F, e))
<1> PICK n, p, G : n = Len(F.list) /\ p = Position(F.list, e) /\ G = file_list_add(F, e)
  OBVIOUS
<1>0. Added(F, e, G, EntryOf(N), n, p)
  BY AddList
<1>1. /\ n \in Nat /\ p \in 1 .. n + 1
      /\ G.list \in Seq(EntryOf(N)) /\ Len(G.list) = n + 1
      /\ \A i \in 1 .. n + 1 : G.list[i] = Inserted(F.list, p, e, i)
      /\ G.last = (IF p > n THEN e ELSE F.last)
      /\ G.file_num = F.file_num + 1
      /\ G.total_space = F.total_space + e.space
  BY <1>0 DEF Added
<1>2. G.list # << >> /\ Last(G.list) = G.list[n + 1]
  BY <1>1 DEF Last
<1>3. G.last = G.list[n + 1]
  <2>1. CASE p > n
    BY <1>1, <2>1 DEF Inserted
  <2>2. CASE p <= n
    <3>1. G.list[n + 1] = F.list[n]
      BY <1>1, <2>2 DEF Inserted
    <3>2. F.list # << >>
      BY <1>1, <2>2
    <3>3. F.last = F.list[n]
      BY <3>2 DEF Consistent, Last
    <3> QED BY <1>1, <2>2, <3>1, <3>3
  <2> QED BY <1>1, <2>1, <2>2
<1>4. Space(G.list) = Space(F.list) + e.space
  BY SpaceInsert
<1> QED BY <1>1, <1>2, <1>3, <1>4 DEF Consistent

LEMMA EmptyConsistent == Consistent(EmptyFolder)
<1> DEFINE l == EmptyFolder.list
<1>1. l = << >> /\ Len(l) = 0
  BY DEF EmptyFolder
<1> HIDE DEF l
<1>2. PICK z : z = 0
  OBVIOUS
<1>3. z \in Nat /\ z = Len(l) /\ \A i \in 1 .. z : l[i].space \in Nat
  BY <1>1, <1>2
<1>4. \E sum \in [0 .. z -> Nat] :
         /\ sum[0] = 0 /\ \A i \in 1 .. z : sum[i] = sum[i - 1] + l[i].space
         /\ Space(l) = sum[z]
  BY <1>3, SpaceRec
<1>5. Space(l) = 0
  BY <1>2, <1>4
<1> QED BY <1>1, <1>5 DEF l, Consistent, EmptyFolder

-----------------------------------------------------------------------------
(* rkipc_storage_file_list_del.                                            *)

(* What was at place Skip(q, k) is found at place k after the entry at     *)
(* place q was taken out.                                                  *)
Skip(q, k) == IF k < q THEN k ELSE k + 1

Without(s, q, k) == s[Skip(q, k)]

(* The numbers up to n without q, counted.                                 *)
LEMMA CountWithout ==
    ASSUME NEW n \in Nat, NEW q \in 1 .. n + 1
    PROVE  /\ IsFiniteSet((1 .. n) \ {q})
           /\ Cardinality((1 .. n) \ {q}) = IF q <= n THEN n - 1 ELSE n
<1>1. IsFiniteSet(1 .. n) /\ Cardinality(1 .. n) = n
  <2>1. 1 \in Int /\ n \in Int /\ n - 1 + 1 = n /\ (1 > n => n = 0)
    OBVIOUS
  <2>2. IsFiniteSet(1 .. n) /\ Cardinality(1 .. n) = IF 1 > n THEN 0 ELSE n - 1 + 1
    BY <2>1, FS_Interval
  <2> QED BY <2>1, <2>2
<1>2. CASE q <= n
  <2>1. q \in 1 .. n
    BY <1>2
  <2> QED BY <1>1, <1>2, <2>1, FS_RemoveElement
<1>3. CASE ~(q <= n)
  <2>1. (1 .. n) \ {q} = 1 .. n
    BY <1>3
  <2> QED BY <1>1, <1>3, <2>1
<1> QED BY <1>2, <1>3

(* With no name twice in the list, exactly the entry of that name goes.    *)
LEMMA SurvivorsList ==
    ASSUME NEW N, NEW list \in Seq(EntryOf(N)), NEW n, n = Len(list), NEW name,
           \A i, j \in 1 .. n : list[i].name = list[j].name => i = j,
           NEW q \in 1 .. n + 1, q <= n => list[q].name = name,
           q > n => \A i \in 1 .. n : list[i].name # name,
           NEW m, m = (IF q <= n THEN n - 1 ELSE n)
    PROVE  Survivors(list, name) = [k \in 1 .. m |-> Without(list, q, k)]
<1> DEFINE head == {i \in 1 .. n : \A j \in 1 .. i : list[j].name = name}
           IsGone(g) == g = [i \in 0 .. n |-> /\ i > 0
                                              /\ list[i].name = name
                                              /\ i \in head \/ ~g[i - 1]]
           gone == CHOOSE g : IsGone(g)
           kept == {i \in 1 .. n : ~gone[i]}
           Count(i) == Cardinality({j \in kept : j <= i})
<1>1. n \in Nat
  BY LenProperties
<1>2. Survivors(list, name) = [k \in 1 .. Cardinality(kept) |-> list[CHOOSE i \in kept : Count(i) = k]]
  BY DEF Survivors
<1>3. \A i \in 1 .. n : list[i].name = name <=> i = q
  BY <1>1
<1>4. IsGone(gone)
  <2> DEFINE g == [i \in 0 .. n |-> i = q]
  <2>1. \A i \in 0 .. n : i > 0 => i \in 1 .. n
    BY <1>1
  <2>2. \A i \in 1 .. n : i = q => i \in head \/ ~g[i - 1]
    <3> SUFFICES ASSUME NEW i \in 1 .. n, i = q, g[i - 1] PROVE FALSE
      OBVIOUS
    <3>1. i - 1 \in 0 .. n /\ i - 1 # q
      OBVIOUS
    <3> QED BY <3>1
  <2>3. g = [i \in 0 .. n |-> /\ i > 0
                              /\ list[i].name = name
                              /\ i \in head \/ ~g[i - 1]]
    <3> HIDE DEF head
    <3>1. ASSUME NEW i \in 0 .. n
          PROVE  (i = q) = (/\ i > 0
                            /\ list[i].name = name
                            /\ i \in head \/ ~g[i - 1])
      <4>1. i = q => i > 0
        OBVIOUS
      <4> HIDE DEF g
      <4> QED BY <1>3, <2>1, <2>2, <4>1
    <3> QED BY <3>1
  <2>4. IsGone(g)
    BY <2>3
  <2> HIDE DEF g, IsGone
  <2> QED BY <2>4
<1> HIDE DEF gone
<1>5. \A i \in 1 .. n : gone[i] <=> i = q
  <2> SUFFICES ASSUME NEW i \in 1 .. n PROVE gone[i] <=> i = q
    OBVIOUS
  <2>1. i \in 0 .. n /\ i > 0
    OBVIOUS
  <2>2. gone = [j \in 0 .. n |-> /\ j > 0
                                 /\ list[j].name = name
                                 /\ j \in head \/ ~gone[j - 1]]
    BY <1>4
  <2>3. gone[i] <=> list[i].name = name /\ (i \in head \/ ~gone[i - 1])
    <3> HIDE DEF head
    <3> QED BY <2>1, <2>2
  <2>4. i = q => i \in head \/ ~gone[i - 1]
    <3> SUFFICES ASSUME i = q, i \notin head PROVE ~gone[i - 1]
      OBVIOUS
    <3>1. i # 1
      BY <1>3
    <3>2. i - 1 \in 1 .. n /\ i - 1 \in 0 .. n /\ i - 1 # q
      BY <3>1
    <3>3. gone[i - 1] => list[i - 1].name = name
      <4> HIDE DEF head
      <4> QED BY <2>2, <3>2
    <3> QED BY <1>3, <3>2, <3>3
  <2> HIDE DEF head
  <2> QED BY <1>3, <2>3, <2>4
<1>6. kept = (1 .. n) \ {q}
  BY <1>5
<1> HIDE DEF kept
<1>7. Cardinality(kept) = m
  BY <1>1, <1>6, CountWithout
<1>8. ASSUME NEW i \in kept
      PROVE  Count(i) = IF i < q THEN i ELSE i - 1
  <2>1. i \in 1 .. n /\ i # q
    BY <1>6
  <2>2. CASE i < q
    <3>1. {j \in kept : j <= i} = (1 .. i) \ {i + 1}
      BY <1>6, <2>1, <2>2
    <3>2. i \in Nat /\ i + 1 \in 1 .. i + 1 /\ ~(i + 1 <= i)
      BY <2>1
    <3>3. Cardinality((1 .. i) \ {i + 1}) = i
      BY <3>2, CountWithout
    <3> QED BY <2>2, <3>1, <3>3
  <2>3. CASE ~(i < q)
    <3>1. {j \in kept : j <= i} = (1 .. i) \ {q}
      BY <1>6, <2>1, <2>3
    <3>2. i \in Nat /\ q \in 1 .. i + 1 /\ q <= i
      BY <2>1, <2>3
    <3>3. Cardinality((1 .. i) \ {q}) = i - 1
      BY <3>2, CountWithout
    <3> QED BY <2>3, <3>1, <3>3
  <2> QED BY <2>2, <2>3
<1> HIDE DEF Count
<1>9. ASSUME NEW k \in 1 .. m
      PROVE  list[CHOOSE i \in kept : Count(i) = k] = Without(list, q, k)
  <2> DEFINE x == IF k < q THEN k ELSE k + 1
  <2>1. x \in 1 .. n /\ x # q
    BY <1>1
  <2>2. x \in kept
    <3> HIDE DEF x
    <3> QED BY <1>6, <2>1
  <2>3. x < q <=> k < q
    BY <1>1
  <2>4. Count(x) = k
    <3>1. Count(x) = IF x < q THEN x ELSE x - 1
      BY <1>8, <2>2
    <3> QED BY <2>3, <3>1
  <2>5. \A i \in kept : Count(i) = k => i = x
    <3> SUFFICES ASSUME NEW i \in kept, Count(i) = k PROVE i = x
      OBVIOUS
    <3>1. k = IF i < q THEN i ELSE i - 1
      BY <1>8
    <3>2. i \in 1 .. n /\ i # q
      BY <1>6
    <3> QED BY <1>1, <3>1, <3>2
  <2>6. list[x] = Without(list, q, k)
    BY DEF Without, Skip
  <2> HIDE DEF x
  <2>7. (CHOOSE i \in kept : Count(i) = k) = x
    BY <2>2, <2>4, <2>5
  <2> QED BY <2>6, <2>7
<1> QED BY <1>2, <1>7, <1>9

(* G is F without the entry at place q, which has the name, or without the *)
(* place behind the last.                                                  *)
Deleted(F, G, name, S, n, q, m) ==
    /\ n \in Nat
    /\ m = (IF q <= n THEN n - 1 ELSE n)
    /\ q <= n => F.list[q].name = name
    /\ \A i \in 1 .. n : F.list[i].name = name => i = q
    /\ G.list \in Seq(S) /\ Len(G.list) = m
    /\ \A k \in 1 .. m : G.list[k] = Without(F.list, q, k)

(* The list after a deletion, entry by entry.                              *)
LEMMA DelList ==
    ASSUME NEW N, NEW F, F.list \in Seq(EntryOf(N)), UniqueNames(F), NEW n, n = Len(F.list), NEW name,
           NEW G, G = file_list_del(F, name)
    PROVE  \E q \in 1 .. n + 1, m \in Nat :
             Deleted(F, G, name, EntryOf(N), n, q, m)
<1> DEFINE list == F.list
<1>1. n \in Nat /\ list \in Seq(EntryOf(N)) /\ n = Len(list)
  BY LenProperties
<1>2. \A i, j \in 1 .. n : list[i].name = list[j].name => i = j
  BY DEF UniqueNames
<1>3. PICK q \in 1 .. n + 1 : /\ q <= n => list[q].name = name
                              /\ q > n => \A i \in 1 .. n : list[i].name # name
  <2>1. CASE \E i \in 1 .. n : list[i].name = name
    <3>1. PICK i \in 1 .. n : list[i].name = name
      BY <2>1
    <3>2. i \in 1 .. n + 1 /\ ~(i > n)
      BY <1>1
    <3> QED BY <3>1, <3>2
  <2>2. CASE \A i \in 1 .. n : list[i].name # name
    <3>1. n + 1 \in 1 .. n + 1 /\ ~(n + 1 <= n)
      BY <1>1
    <3> QED BY <2>2, <3>1
  <2> QED BY <2>1, <2>2
<1>4. \A i \in 1 .. n : list[i].name = name => i = q
  <2> SUFFICES ASSUME NEW i \in 1 .. n, list[i].name = name PROVE i = q
    OBVIOUS
  <2>1. q <= n /\ q \in 1 .. n
    BY <1>1, <1>3
  <2>2. list[q].name = list[i].name
    BY <1>3, <2>1
  <2> HIDE DEF list
  <2> QED BY <1>2, <2>1, <2>2
<1>5. PICK m : m = IF q <= n THEN n - 1 ELSE n
  OBVIOUS
<1>6. m \in Nat
  BY <1>1, <1>5
<1>7. Survivors(list, name) = [k \in 1 .. m |-> Without(list, q, k)]
  <2> HIDE DEF list
  <2> QED BY <1>1, <1>2, <1>3, <1>5, SurvivorsList
<1>8. G.list = [k \in 1 .. m |-> Without(list, q, k)]
  BY <1>7 DEF file_list_del
<1>9. \A k \in 1 .. m : Without(list, q, k) \in EntryOf(N)
  <2> SUFFICES ASSUME NEW k \in 1 .. m PROVE Without(list, q, k) \in EntryOf(N)
    OBVIOUS
  <2>1. k \in 1 .. n /\ (~(k < q) => k + 1 \in 1 .. n)
    BY <1>1, <1>5
  <2>2. \A i \in 1 .. n : list[i] \in EntryOf(N)
    BY <1>1, ElementOfSeq
  <2> HIDE DEF list
  <2> QED BY <2>1, <2>2 DEF Without, Skip
<1> HIDE DEF list
<1>10. G.list \in Seq(EntryOf(N)) /\ Len(G.list) = m /\ \A k \in 1 .. m : G.list[k] = Without(list, q, k)
  BY <1>6, <1>8, <1>9
<1>11. Deleted(F, G, name, EntryOf(N), n, q, m)
  BY <1>1, <1>3, <1>4, <1>5, <1>10, Zenon DEF list, Deleted
<1> QED BY <1>6, <1>11

(* The places in the list of the entries that stay.                        *)
LEMMA SkipPlace ==
    ASSUME NEW n \in Nat, NEW q \in 1 .. n + 1, NEW m, m = (IF q <= n THEN n - 1 ELSE n),
           NEW k \in 1 .. m
    PROVE  Skip(q, k) \in 1 .. n /\ Skip(q, k) # q
BY DEF Skip

(* A deletion keeps the list sorted, with each file once.                  *)
LEMMA DelSorted ==
    ASSUME NEW N, NEW F, F.list \in Seq(EntryOf(N)), UniqueNames(F), Sorted(F), NEW name
    PROVE  Sorted(file_list_del(F, name)) /\ UniqueNames(file_list_del(F, name))
<1> PICK n, G : n = Len(F.list) /\ G = file_list_del(F, name)
  OBVIOUS
<1>1. PICK q \in 1 .. n + 1, m \in Nat : Deleted(F, G, name, EntryOf(N), n, q, m)
  BY DelList
<1>2. /\ n \in Nat
      /\ m = (IF q <= n THEN n - 1 ELSE n)
      /\ Len(G.list) = m
      /\ \A k \in 1 .. m : G.list[k] = F.list[Skip(q, k)]
  BY <1>1 DEF Deleted, Without
<1>3. ASSUME NEW k \in 1 .. m, NEW l \in 1 .. m
      PROVE  /\ k < l => G.list[k].time >= G.list[l].time
             /\ G.list[k].name = G.list[l].name => k = l
  <2> PICK i, j : i = Skip(q, k) /\ j = Skip(q, l)
    OBVIOUS
  <2>1. i \in 1 .. n /\ G.list[k] = F.list[i]
    BY <1>2, SkipPlace
  <2>2. j \in 1 .. n /\ G.list[l] = F.list[j]
    BY <1>2, SkipPlace
  <2>3. (k < l => i < j) /\ (i = j => k = l)
    BY <1>2 DEF Skip
  <2>4. i < j => F.list[i].time >= F.list[j].time
    BY <2>1, <2>2 DEF Sorted
  <2>5. F.list[i].name = F.list[j].name => i = j
    BY <2>1, <2>2 DEF UniqueNames
  <2> QED BY <2>1, <2>2, <2>3, <2>4, <2>5
<1> QED BY <1>2, <1>3 DEF Sorted, UniqueNames

(* The list holds what it held before but for the file of that name.       *)
LEMMA DelContents ==
    ASSUME NEW N, NEW F, F.list \in Seq(EntryOf(N)), UniqueNames(F), NEW name
    PROVE  /\ file_list_del(F, name).list \in Seq(EntryOf(N))
           /\ ToSet(file_list_del(F, name).list) = {e \in ToSet(F.list) : e.name # name}
<1> PICK n, G : n = Len(F.list) /\ G = file_list_del(F, name)
  OBVIOUS
<1>0. PICK q \in 1 .. n + 1, m \in Nat : Deleted(F, G, name, EntryOf(N), n, q, m)
  BY DelList
<1>1. /\ n \in Nat
      /\ m = (IF q <= n THEN n - 1 ELSE n)
      /\ q <= n => F.list[q].name = name
      /\ \A i \in 1 .. n : F.list[i].name = name => i = q
      /\ G.list \in Seq(EntryOf(N)) /\ Len(G.list) = m
      /\ \A k \in 1 .. m : G.list[k] = F.list[Skip(q, k)]
  BY <1>0 DEF Deleted, Without
<1>2. DOMAIN G.list = 1 .. m /\ DOMAIN F.list = 1 .. n
  BY <1>1, LenProperties
<1>3. ToSet(G.list) = {G.list[k] : k \in 1 .. m} /\ ToSet(F.list) = {F.list[i] : i \in 1 .. n}
  BY <1>2 DEF ToSet
<1>4. ASSUME NEW k \in 1 .. m
      PROVE  G.list[k] \in ToSet(F.list) /\ G.list[k].name # name
  <2> PICK i : i = Skip(q, k)
    OBVIOUS
  <2>1. i \in 1 .. n /\ i # q
    <3>1. n \in Nat /\ m = (IF q <= n THEN n - 1 ELSE n)
      BY <1>1
    <3> QED BY <3>1, SkipPlace
  <2>2. G.list[k] = F.list[i]
    BY <1>1, <2>1
  <2>3. F.list[i].name # name
    BY <1>1, <2>1
  <2> QED BY <1>3, <2>1, <2>2, <2>3
<1>5. ASSUME NEW i \in 1 .. n, F.list[i].name # name
      PROVE  F.list[i] \in ToSet(G.list)
  <2>1. i # q
    BY <1>1, <1>5
  <2>2. CASE i < q
    <3>1. i \in 1 .. m
      BY <1>1, <2>2
    <3>2. G.list[i] = F.list[i]
      BY <1>1, <2>2, <3>1 DEF Skip
    <3> QED BY <1>3, <3>1, <3>2
  <2>3. CASE i > q
    <3>1. i - 1 \in 1 .. m /\ ~(i - 1 < q) /\ i - 1 + 1 = i
      BY <1>1, <2>3
    <3>2. G.list[i - 1] = F.list[i]
      <4>1. Skip(q, i - 1) = i
        BY <3>1 DEF Skip
      <4> QED BY <1>1, <3>1, <4>1
    <3> QED BY <1>3, <3>1, <3>2
  <2> QED BY <1>1, <2>1, <2>2, <2>3
<1>6. ToSet(G.list) \subseteq {e \in ToSet(F.list) : e.name # name}
  BY <1>3, <1>4, Zenon
<1>7. {e \in ToSet(F.list) : e.name # name} \subseteq ToSet(G.list)
  BY <1>3, <1>5, Zenon
<1> QED BY <1>1, <1>6, <1>7, Zenon

LEMMA DelConsistent ==
    ASSUME NEW N, NEW F, F.list \in Seq(EntryOf(N)), UniqueNames(F), NEW name
    PROVE  Consistent(file_list_del(F, name))
BY DEF Consistent, file_list_del

-----------------------------------------------------------------------------
(* What all of it comes to.                                                *)

(* A list of entries of files of N that is sorted, has no file twice, and  *)
(* agrees with file_list_last, file_num and total_space.                   *)
GoodList(F, N) ==
    /\ F.list \in Seq(EntryOf(N))
    /\ Sorted(F)
    /\ UniqueNames(F)
    /\ Consistent(F)

LEMMA EmptyGood == \A N : GoodList(EmptyFolder, N)
<1> SUFFICES ASSUME NEW N PROVE GoodList(EmptyFolder, N)
  OBVIOUS
<1>1. EmptyFolder.list = << >>
  BY DEF EmptyFolder
<1> QED BY <1>1, EmptyConsistent DEF GoodList, Sorted, UniqueNames

LEMMA AddGood ==
    ASSUME NEW N, NEW F, GoodList(F, N), NEW e \in EntryOf(N), ~file_list_check(F, e.name)
    PROVE  GoodList(file_list_add(F, e), N)
<1> USE DEF GoodList
<1>1. file_list_add(F, e).list \in Seq(EntryOf(N))
  BY AddList DEF Added
<1>2. Sorted(file_list_add(F, e))
  BY AddSorted
<1>3. UniqueNames(file_list_add(F, e))
  BY AddUnique
<1>4. Consistent(file_list_add(F, e))
  BY AddConsistent
<1> QED BY <1>1, <1>2, <1>3, <1>4

LEMMA DelGood ==
    ASSUME NEW N, NEW F, GoodList(F, N), NEW name
    PROVE  GoodList(file_list_del(F, name), N)
<1> USE DEF GoodList
<1>1. file_list_del(F, name).list \in Seq(EntryOf(N))
  BY DelContents
<1>2. Sorted(file_list_del(F, name)) /\ UniqueNames(file_list_del(F, name))
  BY DelSorted
<1>3. Consistent(file_list_del(F, name))
  BY DelConsistent
<1> QED BY <1>1, <1>2, <1>3

(* The list is as long as the set of its entries is large.                 *)
LEMMA ContentsSize ==
    ASSUME NEW N, NEW F, F.list \in Seq(EntryOf(N)), UniqueNames(F)
    PROVE  IsFiniteSet(ToSet(F.list)) /\ Cardinality(ToSet(F.list)) = Len(F.list)
<1> DEFINE list == F.list
           n == Len(list)
<1>1. n \in Nat /\ DOMAIN list = 1 .. n /\ list = [i \in 1 .. n |-> list[i]]
  BY LenProperties
<1>2. ToSet(list) = {list[i] : i \in 1 .. n}
  BY <1>1 DEF ToSet
<1>3. \A i, j \in 1 .. n : list[i] = list[j] => i = j
  BY DEF UniqueNames
<1> HIDE DEF list, n
<1>4. list \in Bijection(1 .. n, ToSet(list))
  <2>1. list \in [1 .. n -> ToSet(list)]
    BY <1>1, <1>2
  <2>2. list \in Injection(1 .. n, ToSet(list))
    BY <1>3, <2>1 DEF Injection, IsInjective
  <2>3. \A t \in ToSet(list) : \E i \in 1 .. n : list[i] = t
    BY <1>2
  <2>4. list \in Surjection(1 .. n, ToSet(list))
    BY <2>1, <2>3 DEF Surjection
  <2> QED BY <2>2, <2>4 DEF Bijection
<1>5. ExistsBijection(1 .. n, ToSet(list))
  BY <1>4 DEF ExistsBijection
<1>6. IsFiniteSet(ToSet(list)) /\ Cardinality(ToSet(list)) = n
  <2>1. IsFiniteSet(1 .. n) /\ Cardinality(1 .. n) = n
    <3>1. 1 \in Int /\ n \in Int /\ n - 1 + 1 = n /\ (1 > n => n = 0)
      BY <1>1
    <3>2. IsFiniteSet(1 .. n) /\ Cardinality(1 .. n) = IF 1 > n THEN 0 ELSE n - 1 + 1
      BY <3>1, FS_Interval
    <3> QED BY <3>1, <3>2
  <2> QED BY <1>5, <2>1, FS_Bijection
<1> QED BY <1>6 DEF list, n

(* file_list_last is the null pointer of an empty list, and otherwise one  *)
(* of the oldest entries.                                                  *)
LEMMA LastOldest ==
    ASSUME NEW N, NEW F, GoodList(F, N)
    PROVE  /\ F.list = << >> => F.last = NoFile
           /\ F.list # << >> => /\ F.last \in ToSet(F.list)
                                /\ \A e \in ToSet(F.list) : e.time >= F.last.time
<1> PICK n : n = Len(F.list)
  OBVIOUS
<1>1. n \in Nat /\ DOMAIN F.list = 1 .. n /\ F.list \in Seq(EntryOf(N))
  BY LenProperties DEF GoodList
<1>2. CASE F.list = << >>
  BY <1>2 DEF GoodList, Consistent
<1>3. CASE F.list # << >>
  <2>1. n \in 1 .. n
    BY <1>1, <1>3, EmptySeq
  <2>2. F.last = F.list[n]
    BY <1>3 DEF GoodList, Consistent, Last
  <2>3. \A i \in 1 .. n : F.list[i].time \in Nat
    <3>1. \A i \in 1 .. n : F.list[i] \in EntryOf(N)
      BY <1>1, ElementOfSeq
    <3> QED BY <3>1 DEF EntryOf
  <2>4. \A i \in 1 .. n : F.list[i].time >= F.list[n].time
    <3> SUFFICES ASSUME NEW i \in 1 .. n PROVE F.list[i].time >= F.list[n].time
      OBVIOUS
    <3>1. i < n => F.list[i].time >= F.list[n].time
      BY <2>1 DEF GoodList, Sorted
    <3> QED BY <2>1, <2>3, <3>1
  <2> QED BY <1>1, <1>3, <2>1, <2>2, <2>4 DEF ToSet
<1> QED BY <1>2, <1>3

(* Deleting a file that is not listed changes nothing.                     *)
LEMMA DelNothing ==
    ASSUME NEW N, NEW F, GoodList(F, N), NEW name, ~file_list_check(F, name)
    PROVE  /\ file_list_del(F, name).list = F.list
           /\ file_list_del(F, name).last = F.last
           /\ file_list_del(F, name).file_num = F.file_num
<1> PICK n, G : n = Len(F.list) /\ G = file_list_del(F, name)
  OBVIOUS
<1>1. F.list \in Seq(EntryOf(N)) /\ UniqueNames(F) /\ Consistent(F)
  BY DEF GoodList
<1>2. PICK q \in 1 .. n + 1, m \in Nat : Deleted(F, G, name, EntryOf(N), n, q, m)
  BY <1>1, DelList
<1>3. \A i \in 1 .. n : F.list[i].name # name
  BY DEF file_list_check, Names
<1>4. /\ m = n /\ G.list \in Seq(EntryOf(N)) /\ Len(G.list) = n
      /\ \A k \in 1 .. n : G.list[k] = F.list[k]
  BY <1>2, <1>3 DEF Deleted, Without, Skip
<1>5. G.list = F.list
  <2>1. G.list = [k \in 1 .. n |-> G.list[k]] /\ F.list = [k \in 1 .. n |-> F.list[k]]
    BY <1>1, <1>4, LenProperties
  <2> QED BY <1>4, <2>1
<1>6. Consistent(G)
  BY <1>1, DelConsistent
<1> QED BY <1>1, <1>5, <1>6 DEF Consistent

(* A deletion shortens the list by one file at most.                       *)
LEMMA DelOne ==
    ASSUME NEW N, NEW F, GoodList(F, N), NEW name
    PROVE  /\ F.file_num \in Nat
           /\ file_list_del(F, name).file_num \in Nat
           /\ file_list_del(F, name).file_num >= F.file_num - 1
<1> PICK n, G : n = Len(F.list) /\ G = file_list_del(F, name)
  OBVIOUS
<1>1. F.list \in Seq(EntryOf(N)) /\ UniqueNames(F) /\ Consistent(F)
  BY DEF GoodList
<1>2. PICK q \in 1 .. n + 1, m \in Nat : Deleted(F, G, name, EntryOf(N), n, q, m)
  BY <1>1, DelList
<1>3. n \in Nat /\ m = (IF q <= n THEN n - 1 ELSE n) /\ Len(G.list) = m
  BY <1>2 DEF Deleted
<1>4. Consistent(G)
  BY <1>1, DelConsistent
<1>5. F.file_num = n /\ G.file_num = m
  BY <1>1, <1>3, <1>4 DEF Consistent
<1> QED BY <1>3, <1>5

(* Deleting another file than the one file_list_last names leaves it.      *)
LEMMA DelOther ==
    ASSUME NEW N, NEW F, GoodList(F, N), NEW name, F.last # NoFile, F.last.name # name
    PROVE  file_list_del(F, name).last = F.last
<1> PICK n, G : n = Len(F.list) /\ G = file_list_del(F, name)
  OBVIOUS
<1>1. F.list \in Seq(EntryOf(N)) /\ UniqueNames(F) /\ Consistent(F)
  BY DEF GoodList
<1>2. PICK q \in 1 .. n + 1, m \in Nat : Deleted(F, G, name, EntryOf(N), n, q, m)
  BY <1>1, DelList
<1>3. n \in Nat \ {0} /\ F.last = F.list[n]
  <2>1. F.list # << >> /\ F.last = F.list[n]
    BY <1>1 DEF Consistent, Last
  <2> QED BY <1>1, <2>1, LenProperties, EmptySeq
<1>4. /\ m = (IF q <= n THEN n - 1 ELSE n)
      /\ q <= n => F.list[q].name = name
      /\ Len(G.list) = m
      /\ \A k \in 1 .. m : G.list[k] = Without(F.list, q, k)
  BY <1>2 DEF Deleted
<1>5. q # n
  BY <1>3, <1>4
<1>6. /\ m \in 1 .. m /\ m # 0
      /\ Skip(q, m) = n
  BY <1>3, <1>4, <1>5 DEF Skip
<1>7. G.list # << >> /\ G.list[m] = F.list[n]
  BY <1>4, <1>6, EmptySeq DEF Without
<1>8. Consistent(G)
  BY <1>1, DelConsistent
<1> QED BY <1>3, <1>4, <1>7, <1>8 DEF Consistent, Last

(* An addition lengthens the list by one file.                             *)
LEMMA AddOne ==
    ASSUME NEW N, NEW F, GoodList(F, N), NEW e \in EntryOf(N)
    PROVE  F.file_num \in Nat /\ file_list_add(F, e).file_num = F.file_num + 1
<1> PICK n, p, G : n = Len(F.list) /\ p = Position(F.list, e) /\ G = file_list_add(F, e)
  OBVIOUS
<1>1. F.list \in Seq(EntryOf(N)) /\ Consistent(F)
  BY DEF GoodList
<1>2. Added(F, e, G, EntryOf(N), n, p)
  BY <1>1, AddList
<1> QED BY <1>1, <1>2 DEF Added, Consistent

(* An entry not older than any other goes before the last one.             *)
LEMMA AddNewest ==
    ASSUME NEW N, NEW F, GoodList(F, N), NEW e \in EntryOf(N),
           \A x \in ToSet(F.list) : x.time <= e.time, F.last # NoFile
    PROVE  file_list_add(F, e).last = F.last
<1> PICK n, p, G : n = Len(F.list) /\ p = Position(F.list, e) /\ G = file_list_add(F, e)
  OBVIOUS
<1>1. F.list \in Seq(EntryOf(N)) /\ Consistent(F)
  BY DEF GoodList
<1>2. Added(F, e, G, EntryOf(N), n, p)
  BY <1>1, AddList
<1>3. /\ n \in Nat /\ p \in 1 .. n + 1
      /\ \A i \in 1 .. n : i < p => e.time < F.list[i].time
      /\ G.last = (IF p > n THEN e ELSE F.last)
  BY <1>2 DEF Added
<1>4. 1 \in 1 .. n
  <2>1. F.list # << >>
    BY <1>1 DEF Consistent
  <2> QED BY <1>1, <1>3, <2>1, EmptySeq
<1>5. F.list[1].time <= e.time /\ F.list[1].time \in Nat /\ e.time \in Nat
  <2>1. F.list[1] \in ToSet(F.list)
    BY <1>1, <1>4, LenProperties DEF ToSet
  <2>2. F.list[1] \in EntryOf(N)
    BY <1>1, <1>4, ElementOfSeq
  <2> QED BY <2>1, <2>2 DEF EntryOf
<1>6. ~(1 < p)
  BY <1>3, <1>4, <1>5
<1> QED BY <1>3, <1>4, <1>6
=============================================================================
