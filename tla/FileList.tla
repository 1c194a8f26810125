------------------------------ MODULE FileList ------------------------------
(***************************************************************************)
(* The file list of a recording folder (rkipc_str_folder in                *)
(* common/storage/storage.h) and the functions of storage.c that change    *)
(* it, each of which runs under the folder's mutex and is one step.        *)
(*                                                                         *)
(* The linked list is a sequence of entries, newest first; file_list_last  *)
(* is kept as the entry it points to, because the code maintains it on its *)
(* own.  total_size is kept in the same way as total_space and left out.   *)
(***************************************************************************)
EXTENDS Integers, Sequences, FiniteSets, SequencesExt

CONSTANT NoFile   \* the null pointer

EmptyFolder == [list |-> << >>, last |-> NoFile, file_num |-> 0, total_space |-> 0]

Names(F) == {F.list[i].name : i \in 1 .. Len(F.list)}

(* rkipc_storage_file_list_check *)
file_list_check(F, name) == name \in Names(F)

(* Mutant: the sentinel for the end of the list is one too small, and an   *)
(* entry older than all others goes before the last one.                   *)
PositionBeforeLast(list, e) ==
    LET older == {i \in 1 .. Len(list) : e.time >= list[i].time}
    IN IF older # {} THEN Min(older) ELSE IF list = << >> THEN 1 ELSE Len(list)

(* The first entry that is not newer than e, or the end of the list.       *)
Position(list, e) ==
    LET older == {i \in 1 .. Len(list) : e.time >= list[i].time}
    IN IF older = {} THEN Len(list) + 1 ELSE Min(older)

(* Mutant: file_list_last is not moved when an entry is appended.          *)
file_list_add_keeps_last(F, e) ==
    [list |-> InsertAt(F.list, Position(F.list, e), e),
     last |-> IF F.list = << >> THEN e ELSE F.last,
     file_num |-> F.file_num + 1,
     total_space |-> F.total_space + e.space]

(* rkipc_storage_file_list_add: file_list_last moves only when the entry   *)
(* is put at the end.                                                      *)
file_list_add(F, e) ==
    LET p == Position(F.list, e) IN
    [list |-> InsertAt(F.list, p, e),
     last |-> IF p > Len(F.list) THEN e ELSE F.last,
     file_num |-> F.file_num + 1,
     total_space |-> F.total_space + e.space]

(* Sum of the space of a list of entries.                                  *)
Space(list) ==
    LET sum[i \in 0 .. Len(list)] == IF i = 0 THEN 0 ELSE sum[i - 1] + list[i].space
    IN sum[Len(list)]

(* rkipc_storage_file_list_del.  All entries of that name at the head of   *)
(* the list go.  Behind the head, the entry after a removed one becomes    *)
(* the current entry without having been compared: of adjacent entries of  *)
(* that name every other one stays.                                        *)
Survivors(list, name) ==
    LET n == Len(list)
        head == {i \in 1 .. n : \A j \in 1 .. i : list[j].name = name}
        gone[i \in 0 .. n] ==
            /\ i > 0
            /\ list[i].name = name
            /\ i \in head \/ ~gone[i - 1]
        kept == {i \in 1 .. n : ~gone[i]}
    IN [k \in 1 .. Cardinality(kept) |->
          list[CHOOSE i \in kept : Cardinality({j \in kept : j <= i}) = k]]

(* Mutant: the totals are not recomputed when the head is removed.         *)
file_list_del_stale(F, name) ==
    LET rest == Survivors(F.list, name) IN
    [F EXCEPT !.list = rest, !.last = IF rest = << >> THEN NoFile ELSE Last(rest)]

file_list_del(F, name) ==
    LET rest == Survivors(F.list, name) IN
    [list |-> rest,
     last |-> IF rest = << >> THEN NoFile ELSE Last(rest),
     file_num |-> Len(rest),
     total_space |-> Space(rest)]

-----------------------------------------------------------------------------
(* What the rest of storage.c relies on.                                   *)

Sorted(F) == \A i, j \in 1 .. Len(F.list) : i < j => F.list[i].time >= F.list[j].time

UniqueNames(F) == \A i, j \in 1 .. Len(F.list) : F.list[i].name = F.list[j].name => i = j

(* file_list_last, file_num and total_space agree with the list.           *)
Consistent(F) ==
    /\ F.last = IF F.list = << >> THEN NoFile ELSE Last(F.list)
    /\ F.file_num = Len(F.list)
    /\ F.total_space = Space(F.list)
=============================================================================
