----------------------------- MODULE MCFileList -----------------------------
(***************************************************************************)
(* Any sequence of list operations the storage threads can perform on one  *)
(* folder, checked against the plain set of files that were added and not  *)
(* removed since.                                                          *)
(***************************************************************************)
EXTENDS FileList

CONSTANTS FileNames, MaxTime, Sizes

ASSUME MCFileListAssumption == MaxTime \in Nat /\ Sizes \subseteq Nat

Entries == [name : FileNames, time : 0 .. MaxTime, space : Sizes]

VARIABLES folder, contents

Init == folder = EmptyFolder /\ contents = {}

(* The scan adds the files it reads, the monitor files it does not find    *)
(* in the list.                                                            *)
Add(e) ==
    /\ ~file_list_check(folder, e.name)
    /\ folder' = file_list_add(folder, e)
    /\ contents' = contents \cup {e}

(* A deletion or an inotify event, also for a name that is not listed.     *)
Del(n) ==
    /\ folder' = file_list_del(folder, n)
    /\ contents' = {e \in contents : e.name # n}

Next == (\E e \in Entries : Add(e)) \/ (\E n \in FileNames : Del(n))

Spec == Init /\ [][Next]_<<folder, contents>>

(* The list holds exactly the files added and not removed, newest first,   *)
(* each once.                                                              *)
ListIsContents ==
    /\ ToSet(folder.list) = contents
    /\ Len(folder.list) = Cardinality(contents)
    /\ Sorted(folder)

(* file_num and total_space, which the deletion passes compare with the    *)
(* limits, are the number and the sum of the files.                        *)
CountersMatch ==
    /\ folder.file_num = Cardinality(contents)
    /\ folder.total_space = MapThenSumSet(LAMBDA e : e.space, contents)

(* file_list_last, the file deleted next, is one of the oldest.            *)
LastIsOldest ==
    IF contents = {} THEN folder.last = NoFile
    ELSE folder.last \in contents /\ \A e \in contents : e.time >= folder.last.time
=============================================================================
