-------------------------- MODULE MCFileList_proofs --------------------------
(***************************************************************************)
(* Any sequence of additions and deletions keeps the list of a folder, its *)
(* file_list_last, file_num and total_space in step with the set of files: *)
(* for any names, times and sizes, and lists of any length.                *)
(***************************************************************************)
EXTENDS MCFileList, FileList_proofs

-----------------------------------------------------------------------------
(* Sums over sets.                                                         *)

(* The space of all entries of a set.                                      *)
SetSpace(S) == MapThenSumSet(LAMBDA e : e.space, S)

(* g gives for every subset of S the sum of its members.                   *)
Sums(g, S) ==
    /\ g \in [SUBSET S -> Nat]
    /\ g[{}] = 0
    /\ \A T \in SUBSET S : \A x \in S \ T : g[T \cup {x}] = g[T] + x.space

LEMMA SumsExtend ==
    ASSUME NEW S, \A x \in S : x.space \in Nat, NEW e, e \notin S, e.space \in Nat,
           NEW g, Sums(g, S)
    PROVE  \E h : Sums(h, S \cup {e}) /\ h[S \cup {e}] = g[S] + e.space
<1> DEFINE U == S \cup {e}
           h == [T \in SUBSET U |-> IF e \in T THEN g[T \ {e}] + e.space ELSE g[T]]
<1>1. \A T \in SUBSET S : g[T] \in Nat
  BY DEF Sums
<1>2. \A T \in SUBSET U : T \ {e} \in SUBSET S /\ (e \notin T => T \in SUBSET S)
  OBVIOUS
<1>3. h \in [SUBSET U -> Nat]
  <2> SUFFICES ASSUME NEW T \in SUBSET U
               PROVE  (IF e \in T THEN g[T \ {e}] + e.space ELSE g[T]) \in Nat
    OBVIOUS
  <2> QED BY <1>1, <1>2
<1>4. h[{}] = 0
  <2>1. {} \in SUBSET U /\ e \notin {}
    OBVIOUS
  <2> QED BY <2>1 DEF Sums
<1>5. ASSUME NEW T \in SUBSET U, NEW x \in U \ T
      PROVE  h[T \cup {x}] = h[T] + x.space
  <2>1. T \cup {x} \in SUBSET U
    OBVIOUS
  <2>2. CASE x = e
    <3>1. e \in T \cup {x} /\ e \notin T /\ (T \cup {x}) \ {e} = T
      BY <2>2
    <3> QED BY <2>1, <2>2, <3>1
  <2>3. CASE x # e /\ e \in T
    <3>1. e \in T \cup {x} /\ (T \cup {x}) \ {e} = (T \ {e}) \cup {x}
      BY <2>3
    <3>2. T \ {e} \in SUBSET S /\ x \in S \ (T \ {e})
      BY <2>3
    <3>3. g[(T \ {e}) \cup {x}] = g[T \ {e}] + x.space
      BY <3>2 DEF Sums
    <3>4. h[T \cup {x}] = g[(T \ {e}) \cup {x}] + e.space
      BY <2>1, <3>1
    <3>5. h[T] = g[T \ {e}] + e.space
      BY <2>3
    <3>6. (T \ {e}) \cup {x} \in SUBSET S
      BY <3>2
    <3> HIDE DEF h
    <3>7. g[T \ {e}] \in Nat /\ g[(T \ {e}) \cup {x}] \in Nat
      BY <1>1, <3>2, <3>6
    <3>8. PICK a, b, c : a = g[T \ {e}] /\ b = x.space /\ c = g[(T \ {e}) \cup {x}]
      OBVIOUS
    <3>9. x.space \in Nat
      BY <3>2
    <3> QED BY <3>3, <3>4, <3>5, <3>7, <3>8, <3>9
  <2>4. CASE x # e /\ e \notin T
    <3>1. e \notin T \cup {x} /\ T \in SUBSET S /\ x \in S \ T
      BY <2>4
    <3>2. g[T \cup {x}] = g[T] + x.space
      BY <3>1 DEF Sums
    <3> QED BY <2>1, <2>4, <3>1, <3>2
  <2> QED BY <2>2, <2>3, <2>4
<1>6. h[U] = g[S] + e.space
  <2>1. U \in SUBSET U /\ e \in U /\ U \ {e} = S
    OBVIOUS
  <2> QED BY <2>1
<1> HIDE DEF h
<1>7. Sums(h, U)
  BY <1>3, <1>4, <1>5 DEF Sums
<1> QED BY <1>6, <1>7

LEMMA SumsExist ==
    ASSUME NEW S, IsFiniteSet(S), \A x \in S : x.space \in Nat
    PROVE  \E g : Sums(g, S)
<1> PICK n : n = Cardinality(S)
  OBVIOUS
<1>0. n \in Nat
  BY FS_CardinalityType
<1> DEFINE P == {m \in 0 .. n : \A T \in SUBSET S : Cardinality(T) = m => \E g : Sums(g, T)}
<1>1. 0 \in P
  <2>1. ASSUME NEW T \in SUBSET S, Cardinality(T) = 0
        PROVE  \E g : Sums(g, T)
    <3>1. T = {}
      <4>1. IsFiniteSet(T)
        BY FS_Subset
      <4> QED BY <2>1, <4>1, FS_EmptySet
    <3> DEFINE g == [U \in SUBSET T |-> 0]
    <3>2. Sums(g, T)
      BY <3>1 DEF Sums
    <3> QED BY <3>2
  <2> QED BY <1>0, <2>1
<1>2. ASSUME NEW m \in 1 .. n, m - 1 \in P
      PROVE  m \in P
  <2>1. ASSUME NEW T \in SUBSET S, Cardinality(T) = m
        PROVE  \E g : Sums(g, T)
    <3>1. IsFiniteSet(T)
      BY FS_Subset
    <3>2. PICK x : x \in T
      <4>1. m # 0
        OBVIOUS
      <4> QED BY <2>1, <3>1, <4>1, FS_EmptySet
    <3>3. Cardinality(T \ {x}) = m - 1
      BY <2>1, <3>1, <3>2, FS_RemoveElement
    <3>4. PICK g : Sums(g, T \ {x})
      <4>1. T \ {x} \in SUBSET S
        OBVIOUS
      <4> QED BY <1>2, <3>3, <4>1
    <3>5. (T \ {x}) \cup {x} = T /\ x \notin T \ {x} /\ x.space \in Nat
          /\ \A y \in T \ {x} : y.space \in Nat
      BY <3>2
    <3>6. \E h : Sums(h, (T \ {x}) \cup {x})
      BY <3>4, <3>5, SumsExtend
    <3> QED BY <3>5, <3>6
  <2> QED BY <2>1
<1>3. n \in P
  <2> HIDE DEF P
  <2>1. 0 .. n \subseteq P
    BY <1>0, <1>1, <1>2, Counting
  <2> QED BY <1>0, <2>1
<1> QED BY <1>3

(* MapThenSumSet adds the members in some order, and finds the same sum.   *)
LEMMA SetSpaceIsSum ==
    ASSUME NEW S, IsFiniteSet(S), \A x \in S : x.space \in Nat, NEW g, Sums(g, S)
    PROVE  SetSpace(S) = g[S]
<1> DEFINE Member(T) == CHOOSE x \in T : TRUE
           Is(f) == f = [T \in SUBSET S |-> IF T = {} THEN 0
                                            ELSE LET x == CHOOSE x \in T : TRUE
                                                 IN  x.space + f[T \ {x}]]
           iter == CHOOSE f : Is(f)
<1>1. SetSpace(S) = iter[S]
  BY DEF SetSpace, MapThenSumSet, MapThenFoldSet
<1>2. Is(g)
  <2>1. ASSUME NEW T \in SUBSET S
        PROVE  g[T] = IF T = {} THEN 0 ELSE Member(T).space + g[T \ {Member(T)}]
    <3>1. CASE T = {}
      BY <3>1 DEF Sums
    <3>2. CASE T # {}
      <4> PICK x : x = Member(T)
        OBVIOUS
      <4>1. x \in T
        BY <3>2
      <4> HIDE DEF Member
      <4>2. T \ {x} \in SUBSET S /\ x \in S \ (T \ {x}) /\ (T \ {x}) \cup {x} = T
        BY <4>1
      <4>3. g[(T \ {x}) \cup {x}] = g[T \ {x}] + x.space
        BY <4>2 DEF Sums
      <4>4. g[T \ {x}] \in Nat /\ x.space \in Nat
        BY <4>2 DEF Sums
      <4> QED BY <3>2, <4>2, <4>3, <4>4
    <3> QED BY <3>1, <3>2
  <2>2. g = [T \in SUBSET S |-> g[T]]
    BY DEF Sums
  <2> HIDE DEF Member
  <2>3. g = [T \in SUBSET S |-> IF T = {} THEN 0 ELSE Member(T).space + g[T \ {Member(T)}]]
    BY <2>1, <2>2
  <2> QED BY <2>3, Zenon DEF Member
<1>3. Is(iter)
  <2> HIDE DEF Is
  <2> QED BY <1>2
<1> HIDE DEF iter
<1>4. \A T \in SUBSET S : iter[T] = IF T = {} THEN 0 ELSE Member(T).space + iter[T \ {Member(T)}]
  BY <1>3
<1>5. \A T \in SUBSET S : g[T] = IF T = {} THEN 0 ELSE Member(T).space + g[T \ {Member(T)}]
  BY <1>2
<1>6. \A T \in SUBSET S : T # {} => Member(T) \in T
  OBVIOUS
<1> HIDE DEF Member, Is
<1> PICK n : n = Cardinality(S)
  OBVIOUS
<1>7. n \in Nat
  BY FS_CardinalityType
<1> DEFINE P == {m \in 0 .. n : \A T \in SUBSET S : Cardinality(T) = m => iter[T] = g[T]}
<1>8. 0 \in P
  <2>1. ASSUME NEW T \in SUBSET S, Cardinality(T) = 0
        PROVE  iter[T] = g[T]
    <3>1. IsFiniteSet(T)
      BY FS_Subset
    <3>2. T = {}
      BY <2>1, <3>1, FS_EmptySet
    <3> QED BY <1>4, <1>5, <3>2
  <2> QED BY <1>7, <2>1
<1>9. ASSUME NEW m \in 1 .. n, m - 1 \in P
      PROVE  m \in P
  <2>1. ASSUME NEW T \in SUBSET S, Cardinality(T) = m
        PROVE  iter[T] = g[T]
    <3>1. IsFiniteSet(T)
      BY FS_Subset
    <3>2. T # {}
      <4>1. m # 0
        OBVIOUS
      <4> QED BY <2>1, <3>1, <4>1, FS_EmptySet
    <3> PICK x : x = Member(T)
      OBVIOUS
    <3>3. x \in T
      BY <1>6, <3>2
    <3>4. Cardinality(T \ {x}) = m - 1
      BY <2>1, <3>1, <3>3, FS_RemoveElement
    <3>5. iter[T \ {x}] = g[T \ {x}]
      <4>1. T \ {x} \in SUBSET S
        OBVIOUS
      <4> QED BY <1>9, <3>4, <4>1
    <3> QED BY <1>4, <1>5, <3>2, <3>5
  <2> QED BY <2>1
<1>10. n \in P
  <2> HIDE DEF P
  <2>1. 0 .. n \subseteq P
    BY <1>7, <1>8, <1>9, Counting
  <2> QED BY <1>7, <2>1
<1>11. iter[S] = g[S]
  BY <1>10
<1> QED BY <1>1, <1>11

(* A member adds its space to the sum.                                     *)
LEMMA SetSpaceAdd ==
    ASSUME NEW S, IsFiniteSet(S), \A x \in S : x.space \in Nat,
           NEW e, e \notin S, e.space \in Nat
    PROVE  SetSpace(S \cup {e}) = SetSpace(S) + e.space
<1>1. PICK g : Sums(g, S)
  BY SumsExist
<1>2. PICK h : Sums(h, S \cup {e}) /\ h[S \cup {e}] = g[S] + e.space
  BY <1>1, SumsExtend
<1>3. SetSpace(S) = g[S]
  BY <1>1, SetSpaceIsSum
<1>4. SetSpace(S \cup {e}) = h[S \cup {e}]
  <2> PICK U : U = S \cup {e}
    OBVIOUS
  <2>1. IsFiniteSet(U)
    BY FS_AddElement
  <2>2. \A x \in U : x.space \in Nat
    OBVIOUS
  <2> QED BY <1>2, <2>1, <2>2, SetSpaceIsSum
<1> QED BY <1>2, <1>3, <1>4

LEMMA SetSpaceEmpty == SetSpace({}) = 0
<1> PICK S : S = {}
  OBVIOUS
<1>1. IsFiniteSet(S) /\ \A x \in S : x.space \in Nat
  BY FS_EmptySet
<1>2. PICK g : Sums(g, S)
  BY <1>1, SumsExist
<1>3. SetSpace(S) = g[S]
  BY <1>1, <1>2, SetSpaceIsSum
<1> QED BY <1>2, <1>3 DEF Sums

(* The loop over a list without repetition computes the sum of its set.    *)
LEMMA SpaceOfSet ==
    ASSUME NEW N, NEW F, F.list \in Seq(EntryOf(N)), UniqueNames(F)
    PROVE  Space(F.list) = SetSpace(ToSet(F.list))
<1> PICK list, n : list = F.list /\ n = Len(list)
  OBVIOUS
<1>1. n \in Nat /\ list \in Seq(EntryOf(N)) /\ DOMAIN list = 1 .. n
  BY LenProperties
<1>2. \A i \in 1 .. n : list[i].space \in Nat
  <2>1. \A i \in 1 .. n : list[i] \in EntryOf(N)
    BY <1>1, ElementOfSeq
  <2> QED BY <2>1 DEF EntryOf
<1>3. \A i, j \in 1 .. n : list[i] = list[j] => i = j
  BY DEF UniqueNames
<1>4. PICK s \in [0 .. n -> Nat] :
         /\ s[0] = 0 /\ \A i \in 1 .. n : s[i] = s[i - 1] + list[i].space
         /\ Space(list) = s[n]
  BY <1>1, <1>2, SpaceRec
<1> DEFINE First(k) == {list[i] : i \in 1 .. k}
           P == {k \in 0 .. n : IsFiniteSet(First(k)) /\ s[k] = SetSpace(First(k))}
<1>5. 0 \in P
  <2>1. First(0) = {}
    OBVIOUS
  <2> HIDE DEF First
  <2>2. SetSpace(First(0)) = 0
    BY <2>1, SetSpaceEmpty, Zenon
  <2>3. IsFiniteSet(First(0))
    BY <2>1, FS_EmptySet, Zenon
  <2> QED BY <1>1, <1>4, <2>2, <2>3
<1>6. ASSUME NEW k \in 1 .. n, k - 1 \in P
      PROVE  k \in P
  <2>1. First(k) = First(k - 1) \cup {list[k]}
    <3>1. \A i \in 1 .. k : i \in 1 .. k - 1 \/ i = k
      OBVIOUS
    <3>2. k \in 1 .. k /\ \A i \in 1 .. k - 1 : i \in 1 .. k
      OBVIOUS
    <3> QED BY <3>1, <3>2
  <2>2. list[k] \notin First(k - 1)
    <3> SUFFICES ASSUME NEW i \in 1 .. k - 1, list[k] = list[i] PROVE FALSE
      OBVIOUS
    <3>1. i \in 1 .. n /\ i # k
      OBVIOUS
    <3> QED BY <1>3, <3>1
  <2>3. \A x \in First(k - 1) : x.space \in Nat
    <3>1. \A i \in 1 .. k - 1 : i \in 1 .. n
      OBVIOUS
    <3> QED BY <1>2, <3>1
  <2>4. list[k].space \in Nat /\ s[k] = s[k - 1] + list[k].space
    BY <1>2, <1>4
  <2> HIDE DEF First
  <2>5. IsFiniteSet(First(k - 1)) /\ s[k - 1] = SetSpace(First(k - 1))
    BY <1>6
  <2>6. SetSpace(First(k - 1) \cup {list[k]}) = SetSpace(First(k - 1)) + list[k].space
    BY <2>2, <2>3, <2>4, <2>5, SetSpaceAdd
  <2>7. IsFiniteSet(First(k - 1) \cup {list[k]})
    BY <2>5, FS_AddElement
  <2>8. SetSpace(First(k)) = SetSpace(First(k - 1)) + list[k].space
    BY <2>1, <2>6, Zenon
  <2>9. IsFiniteSet(First(k))
    BY <2>1, <2>7, Zenon
  <2> QED BY <2>4, <2>5, <2>8, <2>9
<1>7. n \in P
  <2> HIDE DEF P
  <2>1. 0 .. n \subseteq P
    BY <1>1, <1>5, <1>6, Counting
  <2> QED BY <1>1, <2>1
<1>8. First(n) = ToSet(list)
  BY <1>1 DEF ToSet
<1> HIDE DEF First
<1> QED BY <1>4, <1>7, <1>8

-----------------------------------------------------------------------------
(* The inductive invariant.                                                *)

ListInv == GoodList(folder, FileNames) /\ ToSet(folder.list) = contents

LEMMA EntriesTyped == Entries \subseteq EntryOf(FileNames)
<1>1. 0 .. MaxTime \subseteq Nat /\ Sizes \subseteq Nat
  BY MCFileListAssumption
<1> QED BY <1>1 DEF Entries, EntryOf

LEMMA InitInv == Init => ListInv
<1> SUFFICES ASSUME Init PROVE ListInv
  OBVIOUS
<1>1. EmptyFolder.list = << >>
  BY DEF EmptyFolder
<1>2. ToSet(folder.list) = {}
  BY <1>1 DEF Init, ToSet
<1> QED BY <1>2, EmptyGood DEF Init, ListInv

LEMMA NextInv == ListInv /\ [Next]_<<folder, contents>> => ListInv'
<1> SUFFICES ASSUME ListInv, [Next]_<<folder, contents>> PROVE ListInv'
  OBVIOUS
<1>1. ASSUME NEW e \in Entries, Add(e)
      PROVE  ListInv'
  <2>1. e \in EntryOf(FileNames) /\ GoodList(folder, FileNames)
    BY EntriesTyped DEF ListInv
  <2>2. GoodList(file_list_add(folder, e), FileNames)
    BY <1>1, <2>1, AddGood DEF Add
  <2>3. HoldsAlso(folder, e, file_list_add(folder, e))
    <3>1. folder.list \in Seq(EntryOf(FileNames))
      BY <2>1 DEF GoodList
    <3> QED BY <2>1, <3>1, AddContents
  <2> QED BY <1>1, <2>2, <2>3 DEF Add, ListInv, HoldsAlso
<1>2. ASSUME NEW n \in FileNames, Del(n)
      PROVE  ListInv'
  <2>1. GoodList(folder, FileNames)
    BY DEF ListInv
  <2>2. GoodList(file_list_del(folder, n), FileNames)
    BY <2>1, DelGood
  <2>3. ToSet(file_list_del(folder, n).list) = {e \in ToSet(folder.list) : e.name # n}
    BY <2>1, DelContents DEF GoodList
  <2> QED BY <1>2, <2>2, <2>3 DEF Del, ListInv
<1>3. CASE UNCHANGED <<folder, contents>>
  BY <1>3 DEF ListInv
<1> QED BY <1>1, <1>2, <1>3 DEF Next

LEMMA InvListIsContents == ListInv => ListIsContents
BY ContentsSize DEF ListInv, GoodList, ListIsContents

LEMMA InvLastIsOldest == ListInv => LastIsOldest
<1> SUFFICES ASSUME ListInv PROVE LastIsOldest
  OBVIOUS
<1>1. GoodList(folder, FileNames) /\ ToSet(folder.list) = contents
  BY DEF ListInv
<1>2. contents = {} <=> folder.list = << >>
  <2>1. Len(folder.list) = Cardinality(contents) /\ IsFiniteSet(contents)
        /\ folder.list \in Seq(EntryOf(FileNames))
    BY <1>1, ContentsSize DEF GoodList
  <2>2. Cardinality(contents) = 0 <=> contents = {}
    BY <2>1, FS_EmptySet
  <2>3. Len(folder.list) = 0 <=> folder.list = << >>
    BY <2>1, EmptySeq
  <2> QED BY <2>1, <2>2, <2>3
<1> QED BY <1>1, <1>2, LastOldest DEF LastIsOldest

LEMMA InvCountersMatch == ListInv => CountersMatch
<1> SUFFICES ASSUME ListInv PROVE CountersMatch
  OBVIOUS
<1>1. GoodList(folder, FileNames) /\ ToSet(folder.list) = contents
  BY DEF ListInv
<1>2. folder.list \in Seq(EntryOf(FileNames)) /\ UniqueNames(folder)
  BY <1>1 DEF GoodList
<1>3. Len(folder.list) = Cardinality(contents)
  BY <1>1, <1>2, ContentsSize
<1>4. Space(folder.list) = SetSpace(contents)
  <2>1. Space(folder.list) = SetSpace(ToSet(folder.list))
    BY ONLY <1>2, SpaceOfSet
  <2> QED BY <1>1, <2>1
<1>5. folder.file_num = Cardinality(contents) /\ folder.total_space = SetSpace(contents)
  BY <1>1, <1>3, <1>4 DEF GoodList, Consistent
<1> QED BY <1>5, Zenon DEF CountersMatch, SetSpace

-----------------------------------------------------------------------------
(* The list holds exactly the files added and not removed since, sorted by *)
(* time and each once, after any sequence of file_list_add and             *)
(* file_list_del.                                                          *)
THEOREM ListHoldsContents == Spec => []ListIsContents
BY InitInv, NextInv, InvListIsContents, PTL DEF Spec

(* file_list_last, from which rkipc_storage_file_scan_thread takes the     *)
(* file to delete, is one of the oldest, and null only if there is none.   *)
THEOREM LastPointerOldest == Spec => []LastIsOldest
BY InitInv, NextInv, InvLastIsOldest, PTL DEF Spec

(* file_num and total_space, which the deletion passes compare with their  *)
(* limits, are the number of the files and the sum of their sizes.         *)
THEOREM CountersAreTrue == Spec => []CountersMatch
BY InitInv, NextInv, InvCountersMatch, PTL DEF Spec
=============================================================================
