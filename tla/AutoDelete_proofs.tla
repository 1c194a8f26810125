-------------------------- MODULE AutoDelete_proofs --------------------------
(***************************************************************************)
(* The monitor thread never uses the folders before they are allocated or  *)
(* after they are freed, the variables keep their types and every list of  *)
(* a folder stays consistent: for any number of folders and files, any     *)
(* limits and every fault of AutoDelete.                                   *)
(***************************************************************************)
EXTENDS AutoDelete, FileList_proofs

(* The two threads' variables are records with a pc.                       *)
ScanFields == {"pc", "i", "todo", "mode", "limit", "total", "file", "filename", "overwrote"}
MonFields == {"pc", "left", "stat"}

Records ==
    /\ scan = [x \in ScanFields |-> scan[x]]
    /\ mon = [x \in MonFields |-> mon[x]]

(* The scan thread before the monitor thread exists, and after.            *)
BeforeSpawn == {"alloc", "open", "read", "check", "mount", "size0", "spawn", "ended"}

(* A scan that found the stop at its start finds it again at its check,    *)
(* since only the scan thread itself revokes it: it goes past the check    *)
(* only with the folders allocated.                                        *)
AllocInv ==
    /\ scan.pc \in {"open", "read", "mount", "size0", "spawn"} => allocated
    /\ scan.pc = "check" /\ ~allocated => mount_status = "unmounted"

(* While the scan thread has not created the monitor there is none, and    *)
(* when it has ended the monitor has.                                      *)
SpawnInv ==
    /\ scan.pc \in BeforeSpawn => mon.pc \in {"absent", "ended"}
    /\ mon.pc \notin {"absent", "ended"} => allocated

IInv == Records /\ AllocInv /\ SpawnInv

LEMMA InitInv == Init => IInv
<1> SUFFICES ASSUME Init PROVE IInv
  OBVIOUS
<1>1. scan.pc = "alloc" /\ mon.pc = "absent" BY DEF Init
<1>2. scan = [x \in ScanFields |-> scan[x]] BY DEF Init, ScanFields
<1>3. mon = [x \in MonFields |-> mon[x]] BY DEF Init, MonFields
<1> QED BY <1>1, <1>2, <1>3 DEF IInv, Records, AllocInv, SpawnInv

(* A step that leaves the threads, the folders and mount_status alone.     *)
LEMMA StillInv ==
    ASSUME IInv, UNCHANGED <<scan, mon, allocated, mount_status>>
    PROVE  IInv'
BY DEF IInv, Records, AllocInv, SpawnInv

LEMMA EnvironmentInv == IInv /\ Environment => IInv'
BY StillInv DEF Environment, Create, Close, UserDelete, UserMoveFrom, UserMoveTo, Umount

(* The steps of the scan thread that change only its own record and what   *)
(* is not part of the invariant stay behind the spawn.                     *)
LEMMA LoopInv ==
    ASSUME IInv, UNCHANGED <<mon, allocated>>,
           scan.pc \notin BeforeSpawn,
           scan' = [x \in ScanFields |-> scan'[x]],
           scan'.pc \notin BeforeSpawn
    PROVE  IInv'
BY DEF IInv, Records, AllocInv, SpawnInv, BeforeSpawn

LEMMA NextFolderRecord ==
    ASSUME IInv
    PROVE  /\ NextFolder = [x \in ScanFields |-> NextFolder[x]]
           /\ NextFolder.pc \in {"measure", "size", "loop"}
BY DEF IInv, Records, NextFolder, ScanFields

LEMMA ScanLoopInv ==
    ASSUME IInv,
           \/ ScanSignal \/ ScanLoop \/ ScanWoken \/ ScanTimeout \/ ScanMeasure \/ ScanAgain
           \/ ScanPick \/ ScanPath \/ ScanName \/ ScanUnlist \/ ScanRemove \/ ScanSize
           \/ ScanSum
    PROVE  IInv'
<1> USE DEF ScanFrame, ScanLocal
<1>1. CASE ScanSignal \/ ScanLoop \/ ScanWoken \/ ScanTimeout \/ ScanSize \/ ScanSum
  BY <1>1, LoopInv DEF ScanSignal, ScanLoop, ScanWoken, ScanTimeout, Awake, ScanSize, ScanSum,
     BeforeSpawn, IInv, Records, ScanFields
<1>2. CASE \/ ScanMeasure \/ ScanAgain \/ ScanPick \/ ScanPath \/ ScanName
           \/ ScanUnlist \/ ScanRemove
  BY <1>2, LoopInv, NextFolderRecord DEF ScanMeasure, ScanAgain, ScanPick, ScanPath, ScanName,
     ScanUnlist, ScanRemove, BeforeSpawn, IInv, Records, ScanFields
<1> QED BY <1>1, <1>2

LEMMA ScanStartInv ==
    ASSUME IInv,
           \/ ScanAlloc \/ ScanOpen \/ (\E f \in Files : ScanEntry(f)) \/ ScanReadEnd
           \/ ScanCheck \/ ScanMount \/ ScanSize0 \/ ScanSpawn \/ ScanOut
    PROVE  IInv'
<1> USE DEF ScanFrame, IInv, Records, AllocInv, SpawnInv, BeforeSpawn, ScanFields, MonFields
<1>1. CASE ScanAlloc BY <1>1 DEF ScanAlloc
<1>2. CASE ScanOpen BY <1>2 DEF ScanOpen, NextRead
<1>3. CASE \E f \in Files : ScanEntry(f) BY <1>3 DEF ScanEntry
<1>4. CASE ScanReadEnd BY <1>4 DEF ScanReadEnd, NextRead
<1>5. CASE ScanCheck BY <1>5 DEF ScanCheck
<1>6. CASE ScanMount BY <1>6 DEF ScanMount
<1>7. CASE ScanSize0 BY <1>7 DEF ScanSize0
<1>8. CASE ScanSpawn BY <1>8 DEF ScanSpawn
<1>9. CASE ScanOut BY <1>9 DEF ScanOut
<1> QED BY <1>1, <1>2, <1>3, <1>4, <1>5, <1>6, <1>7, <1>8, <1>9

LEMMA MonitorInv == IInv /\ Monitor => IInv'
<1> SUFFICES ASSUME IInv, Monitor PROVE IInv'
  OBVIOUS
<1> USE DEF MonFrame, IInv, Records, AllocInv, SpawnInv, BeforeSpawn, MonFields
<1>1. CASE MonWatch BY <1>1 DEF MonWatch
<1>2. CASE MonRead BY <1>2 DEF MonRead
<1>3. CASE MonEnd BY <1>3 DEF MonEnd
<1>4. CASE MonUnmount BY <1>4 DEF MonUnmount, EventDone
<1>5. CASE MonDelete BY <1>5 DEF MonDelete, EventDone
<1>6. CASE MonLstat BY <1>6 DEF MonLstat, EventDone
<1>7. CASE MonAdd BY <1>7 DEF MonAdd
<1> QED BY <1>1, <1>2, <1>3, <1>4, <1>5, <1>6, <1>7 DEF Monitor

LEMMA StopInv == IInv /\ (StopSet \/ StopGive \/ StopJoin) => IInv'
BY StillInv DEF StopSet, StopGive, StopJoin, IInv, Records, AllocInv, SpawnInv

LEMMA NextInv == IInv /\ [Next]_vars => IInv'
<1> SUFFICES ASSUME IInv, [Next]_vars PROVE IInv'
  OBVIOUS
<1>1. CASE Environment BY <1>1, EnvironmentInv
<1>2. CASE Scan \/ ScanTimeout BY <1>2, ScanLoopInv, ScanStartInv DEF Scan
<1>3. CASE Monitor BY <1>3, MonitorInv
<1>4. CASE StopSet \/ StopGive \/ StopJoin BY <1>4, StopInv
<1>5. CASE UNCHANGED vars BY <1>5, StillInv DEF vars
<1> QED BY <1>1, <1>2, <1>3, <1>4, <1>5 DEF Next

(* The monitor thread works on dev_sta.folder only between its allocation  *)
(* and its release by the scan thread, which may be stopped at any step,   *)
(* fail at any step, or overwrite the stop.                                *)
THEOREM MonitorSafe == Spec => []MonitorInsideFolders
<1>1. IInv => MonitorInsideFolders BY DEF IInv, SpawnInv, MonitorInsideFolders
<1> QED BY <1>1, InitInv, NextInv, PTL DEF Spec

-----------------------------------------------------------------------------
(* The data: the types of the variables, and the lists.                    *)

ScanPcs == {"alloc", "open", "read", "check", "mount", "size0", "spawn", "signal", "loop", "wait",
            "measure", "again", "pick", "path", "name", "unlist", "remove", "size", "sum", "out",
            "ended", "crash"}

CardInv ==
    /\ disk \in [Files -> [state : FileState, time : Nat, space : Nat]]
    /\ clock \in Nat
    /\ inotify \in Seq(Event)
    /\ lost \subseteq Files

(* Every list is good, and holds files of its folder.                      *)
FoldersInv ==
    /\ folder = [i \in Folders |-> folder[i]]
    /\ \A i \in Folders : /\ GoodList(folder[i], Files)
                          /\ \A e \in ToSet(folder[i].list) : FolderOf[e.name] = i

ScanInv ==
    /\ scan.pc \in ScanPcs
    /\ scan.i \in Folders
    /\ scan.todo \in SUBSET Files
    /\ scan.pc \in {"name", "unlist", "remove"} => scan.file \in Files
    /\ scan.pc = "unlist" => scan.filename \in Files

(* The monitor never takes an event that is not there.                     *)
MonInv ==
    /\ mon.pc \in {"absent", "watch", "loop", "event", "add", "ended"}
    /\ mon.pc \in {"event", "add"} => mon.left \in 1 .. Len(inotify)
    /\ mon.pc \notin {"event", "add"} => mon.left = 0
    /\ mon.pc = "add" => mon.stat \in EntryOf(Files)

FlagsInv ==
    /\ allocated \in BOOLEAN
    /\ watched \in BOOLEAN
    /\ mount_status \in {"scanning", "mounted", "unmounted"}
    /\ signal \in -1 .. 1
    /\ stop \in {"idle", "give", "join", "done"}

DataInv == CardInv /\ FoldersInv /\ ScanInv /\ MonInv /\ FlagsInv

LEMMA Constants ==
    /\ FolderNum \in Nat \ {0} /\ 1 \in Folders /\ NoFile \notin Files
    /\ \A f \in Files : FolderOf[f] \in Folders /\ FileSize[f] \in Nat
BY AutoDeleteAssumption DEF Folders

LEMMA InitData == Init => DataInv
<1> SUFFICES ASSUME Init PROVE DataInv
  OBVIOUS
<1> USE DEF Init
<1>1. CardInv
  <2>1. disk \in [Files -> [state : FileState, time : Nat, space : Nat]]
    BY Constants DEF FileState
  <2> QED BY <2>1 DEF CardInv
<1>2. FoldersInv
  <2>1. EmptyFolder.list = << >>
    BY DEF EmptyFolder
  <2>2. ToSet(EmptyFolder.list) = {}
    BY <2>1 DEF ToSet
  <2>3. GoodList(EmptyFolder, Files)
    BY EmptyGood
  <2> QED BY <2>2, <2>3 DEF FoldersInv
<1>3. ScanInv
  BY Constants DEF ScanInv, ScanPcs
<1>4. MonInv
  BY DEF MonInv
<1>5. FlagsInv
  <2>1. allocated \in BOOLEAN /\ watched \in BOOLEAN
    OBVIOUS
  <2>2. signal \in -1 .. 1
    OBVIOUS
  <2>3. mount_status \in {"scanning", "mounted", "unmounted"} /\ stop \in {"idle", "give", "join", "done"}
    OBVIOUS
  <2> QED BY <2>1, <2>2, <2>3, Zenon DEF FlagsInv
<1> QED BY <1>1, <1>2, <1>3, <1>4, <1>5 DEF DataInv

-----------------------------------------------------------------------------
(* Events.                                                                 *)

LEMMA AppendEvent ==
    ASSUME inotify \in Seq(Event), NEW e \in Event
    PROVE  Append(inotify, e) \in Seq(Event) /\ Len(Append(inotify, e)) = Len(inotify) + 1
BY AppendProperties

LEMMA NotifyData ==
    ASSUME CardInv, MonInv, NEW f \in Files,
           NEW type \in {"close_write", "moved_to", "delete", "moved_from"}, Notify(type, f), mon' = mon
    PROVE  inotify' \in Seq(Event) /\ lost' \subseteq Files /\ MonInv'
<1>1. [type |-> type, file |-> f] \in Event
  BY DEF Event
<1>2. inotify' \in Seq(Event) /\ Len(inotify') \in {Len(inotify), Len(inotify) + 1}
  BY <1>1, AppendEvent DEF CardInv, Notify
<1>3. lost' \subseteq Files
  BY DEF CardInv, Notify
<1>4. MonInv'
  <2>1. Len(inotify) \in Nat
    BY LenProperties DEF CardInv
  <2>2. \A k \in 1 .. Len(inotify) : k \in 1 .. Len(inotify')
    BY <1>2, <2>1
  <2> QED BY <2>2 DEF MonInv
<1> QED BY <1>2, <1>3, <1>4

LEMMA RemovedTyped ==
    ASSUME CardInv, NEW f \in Files
    PROVE  Removed(f) \in [state : FileState, time : Nat, space : Nat]
<1>1. disk[f] \in [state : FileState, time : Nat, space : Nat]
  BY DEF CardInv
<1> QED BY <1>1 DEF Removed, FileState

LEMMA DiskUpdate ==
    ASSUME CardInv, NEW f, NEW d \in [state : FileState, time : Nat, space : Nat]
    PROVE  [disk EXCEPT ![f] = d] \in [Files -> [state : FileState, time : Nat, space : Nat]]
BY DEF CardInv

LEMMA EnvironmentData == DataInv /\ Environment => DataInv'
<1> SUFFICES ASSUME DataInv, Environment PROVE DataInv'
  OBVIOUS
<1> USE DEF DataInv
<1>1. UNCHANGED <<folder, allocated, mount_status, signal, scan, mon, stop>>
  BY DEF Environment, Create, Close, UserDelete, UserMoveFrom, UserMoveTo, Umount
<1>2. FoldersInv' /\ ScanInv'
  BY <1>1 DEF FoldersInv, ScanInv
<1> DEFINE D == [state : FileState, time : Nat, space : Nat]
<1>3. ASSUME NEW f \in Files, Create(f)
      PROVE  CardInv' /\ MonInv' /\ FlagsInv'
  <2>1. [disk EXCEPT ![f].state = "open", ![f].time = clock] \in [Files -> D]
    BY DEF CardInv, FileState
  <2> QED BY <1>3, <2>1 DEF Create, CardInv, MonInv, FlagsInv
<1>4. ASSUME NEW f \in Files, Close(f)
      PROVE  CardInv' /\ MonInv' /\ FlagsInv'
  <2>1. inotify' \in Seq(Event) /\ lost' \subseteq Files /\ MonInv'
    BY <1>4, NotifyData DEF Close
  <2>2. disk' \in [Files -> D]
    <3>1. PICK s \in {0, FileSize[f]} :
            \/ disk' = [disk EXCEPT ![f] = [state |-> "closed", time |-> clock, space |-> s]]
            \/ disk' = [disk EXCEPT ![f] = [state |-> "gone", time |-> 0, space |-> 0]]
      BY <1>4 DEF Close
    <3>2. s \in Nat
      BY Constants
    <3>3. [state |-> "closed", time |-> clock, space |-> s] \in D
      BY <3>2 DEF CardInv, FileState
    <3>4. [state |-> "gone", time |-> 0, space |-> 0] \in D
      BY DEF FileState
    <3>5. PICK d \in D : disk' = [disk EXCEPT ![f] = d]
      <4> HIDE DEF D
      <4> QED BY <3>1, <3>3, <3>4
    <3> QED BY <3>5, DiskUpdate
  <2>3. clock' \in Nat
    BY <1>4 DEF Close, CardInv
  <2> QED BY <1>4, <2>1, <2>2, <2>3 DEF Close, CardInv, FlagsInv
<1>5. ASSUME NEW f \in Files, UserDelete(f) \/ UserMoveFrom(f)
      PROVE  CardInv' /\ MonInv' /\ FlagsInv'
  <2>1. inotify' \in Seq(Event) /\ lost' \subseteq Files /\ MonInv'
    <3>1. PICK type \in {"delete", "moved_from"} : Notify(type, f)
      BY <1>5 DEF UserDelete, UserMoveFrom
    <3> QED BY <1>1, <3>1, NotifyData
  <2>2. disk' \in [Files -> D]
    BY <1>5, RemovedTyped, DiskUpdate DEF UserDelete, UserMoveFrom
  <2> QED BY <1>5, <2>1, <2>2 DEF UserDelete, UserMoveFrom, CardInv, FlagsInv
<1>6. ASSUME NEW f \in Files, UserMoveTo(f)
      PROVE  CardInv' /\ MonInv' /\ FlagsInv'
  <2>1. inotify' \in Seq(Event) /\ lost' \subseteq Files /\ MonInv'
    BY <1>6, NotifyData DEF UserMoveTo
  <2>2. disk' \in [Files -> D]
    <3>1. PICK t \in {0, clock} :
            disk' = [disk EXCEPT ![f] = [state |-> "closed", time |-> t, space |-> FileSize[f]]]
      BY <1>6 DEF UserMoveTo
    <3>2. [state |-> "closed", time |-> t, space |-> FileSize[f]] \in D
      BY Constants DEF CardInv, FileState
    <3> QED BY <3>1, <3>2, DiskUpdate
  <2> QED BY <1>6, <2>1, <2>2 DEF UserMoveTo, CardInv, FlagsInv
<1>7. ASSUME Umount
      PROVE  CardInv' /\ MonInv' /\ FlagsInv'
  <2>1. [type |-> "unmount", file |-> NoFile] \in Event
    BY DEF Event
  <2>2. inotify' \in Seq(Event) /\ Len(inotify') \in {Len(inotify), Len(inotify) + 1}
    BY <1>7, <2>1, AppendEvent DEF Umount, CardInv
  <2>3. MonInv'
    <3>1. Len(inotify) \in Nat
      BY LenProperties DEF CardInv
    <3>2. \A k \in 1 .. Len(inotify) : k \in 1 .. Len(inotify')
      BY <2>2, <3>1
    <3> QED BY <1>1, <3>2 DEF MonInv
  <2>4. disk' \in [Files -> D]
    BY <1>7 DEF Umount, CardInv, FileState
  <2> QED BY <1>7, <2>2, <2>3, <2>4 DEF Umount, CardInv, FlagsInv
<1> QED BY <1>2, <1>3, <1>4, <1>5, <1>6, <1>7 DEF Environment

-----------------------------------------------------------------------------
(* The lists under the operations of the two threads.                      *)

LEMMA FolderUpdate ==
    ASSUME FoldersInv, NEW i \in Folders, NEW G, GoodList(G, Files),
           \A e \in ToSet(G.list) : FolderOf[e.name] = i,
           folder' = [folder EXCEPT ![i] = G]
    PROVE  FoldersInv' /\ folder'[i] = G /\ \A j \in Folders \ {i} : folder'[j] = folder[j]
<1>1. folder'[i] = G /\ \A j \in Folders \ {i} : folder'[j] = folder[j]
  BY DEF FoldersInv
<1>2. folder' = [j \in Folders |-> folder'[j]]
  BY DEF FoldersInv
<1> QED BY <1>1, <1>2 DEF FoldersInv

LEMMA DelFolder ==
    ASSUME FoldersInv, NEW i \in Folders, NEW name,
           folder' = [folder EXCEPT ![i] = file_list_del(@, name)]
    PROVE  /\ FoldersInv'
           /\ folder'[i] = file_list_del(folder[i], name)
           /\ \A j \in Folders \ {i} : folder'[j] = folder[j]
           /\ ToSet(folder'[i].list) = {e \in ToSet(folder[i].list) : e.name # name}
<1> PICK F, G : F = folder[i] /\ G = file_list_del(F, name)
  OBVIOUS
<1>1. GoodList(F, Files)
  BY DEF FoldersInv
<1>2. GoodList(G, Files)
  BY <1>1, DelGood
<1>3. ToSet(G.list) = {e \in ToSet(F.list) : e.name # name}
  <2>1. F.list \in Seq(EntryOf(Files)) /\ UniqueNames(F)
    BY <1>1 DEF GoodList
  <2> QED BY <2>1, DelContents
<1>4. \A e \in ToSet(G.list) : FolderOf[e.name] = i
  BY <1>3 DEF FoldersInv
<1>5. folder' = [folder EXCEPT ![i] = G]
  BY DEF FoldersInv
<1>6. FoldersInv' /\ folder'[i] = G /\ \A j \in Folders \ {i} : folder'[j] = folder[j]
  BY <1>2, <1>4, <1>5, FolderUpdate
<1> QED BY <1>3, <1>6, Zenon

LEMMA AddFolder ==
    ASSUME FoldersInv, NEW i \in Folders, NEW e \in EntryOf(Files), FolderOf[e.name] = i,
           ~file_list_check(folder[i], e.name),
           folder' = [folder EXCEPT ![i] = file_list_add(@, e)]
    PROVE  /\ FoldersInv'
           /\ folder'[i] = file_list_add(folder[i], e)
           /\ \A j \in Folders \ {i} : folder'[j] = folder[j]
           /\ ToSet(folder'[i].list) = ToSet(folder[i].list) \cup {e}
<1> PICK F, G : F = folder[i] /\ G = file_list_add(F, e)
  OBVIOUS
<1>1. GoodList(F, Files)
  BY DEF FoldersInv
<1>2. GoodList(G, Files)
  BY <1>1, AddGood
<1>3. ToSet(G.list) = ToSet(F.list) \cup {e}
  <2>1. F.list \in Seq(EntryOf(Files))
    BY <1>1 DEF GoodList
  <2>2. HoldsAlso(F, e, G)
    BY <2>1, AddContents
  <2> QED BY <2>2, Zenon DEF HoldsAlso
<1>4. \A x \in ToSet(G.list) : FolderOf[x.name] = i
  BY <1>3 DEF FoldersInv
<1>5. folder' = [folder EXCEPT ![i] = G]
  BY DEF FoldersInv
<1>6. FoldersInv' /\ folder'[i] = G /\ \A j \in Folders \ {i} : folder'[j] = folder[j]
  BY <1>2, <1>4, <1>5, FolderUpdate
<1> QED BY <1>3, <1>6, Zenon

(* The entries of a list are typed, and so is the file to delete next.     *)
LEMMA ListedFiles ==
    ASSUME FoldersInv, NEW i \in Folders
    PROVE  /\ \A e \in ToSet(folder[i].list) : e \in EntryOf(Files) /\ e.name \in Files
           /\ folder[i].last # NoFile =>
                folder[i].last \in ToSet(folder[i].list) /\ folder[i].last.name \in Files
<1> PICK F : F = folder[i]
  OBVIOUS
<1>1. GoodList(F, Files)
  BY DEF FoldersInv
<1>2. \A e \in ToSet(F.list) : e \in EntryOf(Files)
  <2>1. F.list \in Seq(EntryOf(Files))
    BY <1>1 DEF GoodList
  <2>2. DOMAIN F.list = 1 .. Len(F.list)
    BY <2>1, LenProperties
  <2>3. \A k \in 1 .. Len(F.list) : F.list[k] \in EntryOf(Files)
    BY <2>1, ElementOfSeq
  <2> QED BY <2>2, <2>3 DEF ToSet
<1>3. \A e \in ToSet(F.list) : e.name \in Files
  BY <1>2 DEF EntryOf
<1>4. F.last # NoFile => F.last \in ToSet(F.list)
  BY <1>1, LastOldest
<1> QED BY <1>2, <1>3, <1>4

-----------------------------------------------------------------------------
(* The scan thread.                                                        *)

LEMMA ScanLocalData ==
    ASSUME DataInv, ScanInv',
           UNCHANGED <<disk, clock, folder, allocated, inotify, watched, mount_status, signal, mon,
                       stop, lost>>
    PROVE  DataInv'
BY DEF DataInv, CardInv, FoldersInv, MonInv, FlagsInv

LEMMA NextFolderData ==
    ASSUME Records, ScanInv, scan' = NextFolder
    PROVE  ScanInv'
<1>1. scan.i < FolderNum => scan.i + 1 \in Folders
  BY Constants DEF ScanInv, Folders
<1>2. /\ NextFolder.pc \in {"measure", "size", "loop"}
      /\ NextFolder.i \in Folders
      /\ NextFolder.todo = scan.todo
  BY <1>1, Constants DEF NextFolder, Records, ScanFields, ScanInv
<1> QED BY <1>2 DEF ScanInv, ScanPcs

(* The actions that change only the scan thread's local variables.         *)
LEMMA ScanLocalsData ==
    ASSUME Records, DataInv,
           \/ ScanCheck \/ ScanLoop \/ ScanTimeout \/ ScanMeasure \/ ScanAgain
           \/ ScanPick \/ ScanPath \/ ScanName \/ ScanSize \/ ScanSum \/ ScanSize0
    PROVE  DataInv'
<1>1. UNCHANGED <<disk, clock, folder, allocated, inotify, watched, mount_status, signal, mon,
                  stop, lost>>
  BY DEF ScanFrame, ScanLocal, ScanCheck, ScanLoop, ScanTimeout, ScanMeasure, ScanAgain,
     ScanPick, ScanPath, ScanName, ScanSize, ScanSum, ScanSize0
<1> SUFFICES ScanInv'
  BY <1>1, ScanLocalData
<1> USE DEF DataInv, Records, ScanFields, ScanPcs
<1>3. CASE ScanCheck \/ ScanLoop \/ ScanAgain \/ ScanSize0
  BY <1>3 DEF ScanCheck, ScanLoop, ScanAgain, ScanSize0, ScanInv
<1>4. CASE ScanTimeout
  BY <1>4, Constants DEF ScanTimeout, Awake, ScanInv
<1>5. CASE ScanMeasure
  <2>1. CASE scan' = NextFolder
    BY <2>1, NextFolderData
  <2>2. CASE scan' # NextFolder
    BY <1>5, <2>2 DEF ScanMeasure, ScanInv
  <2> QED BY <2>1, <2>2
<1>6. CASE ScanPick
  <2>1. CASE scan' = NextFolder
    BY <2>1, NextFolderData
  <2>2. CASE scan' # NextFolder
    BY <1>6, <2>2 DEF ScanPick, ScanInv
  <2> QED BY <2>1, <2>2
<1>7. CASE ScanPath \/ ScanName
  <2>1. scan.i \in Folders /\ (folder[scan.i].last # NoFile => folder[scan.i].last.name \in Files)
    BY ListedFiles DEF ScanInv
  <2> QED BY <1>7, <2>1 DEF ScanPath, ScanName, ScanInv
<1>8. CASE ScanSize
  BY <1>8, Constants DEF ScanSize, ScanInv
<1>9. CASE ScanSum
  <2>1. scan.i < FolderNum => scan.i + 1 \in Folders
    BY Constants DEF ScanInv, Folders
  <2> QED BY <1>9, <2>1, Constants DEF ScanSum, ScanInv
<1> QED BY <1>3, <1>4, <1>5, <1>6, <1>7, <1>8, <1>9

(* The monitor does not exist when it is created.                          *)
LEMMA ScanStartMonitor ==
    ASSUME Records, DataInv, SpawnInv,
           \/ ScanAlloc \/ ScanMount \/ ScanSpawn \/ ScanSignal \/ ScanWoken
    PROVE  MonInv'
<1>1. CASE ScanSpawn
  <2>1. mon.left = 0
    BY <1>1 DEF ScanSpawn, SpawnInv, BeforeSpawn, DataInv, MonInv
  <2> QED BY <1>1, <2>1 DEF ScanSpawn, Records, MonFields, MonInv
<1>2. CASE ScanAlloc \/ ScanMount \/ ScanSignal \/ ScanWoken
  <2>1. mon' = mon /\ inotify' = inotify
    BY <1>2 DEF ScanAlloc, ScanMount, ScanSignal, ScanWoken
  <2> QED BY <2>1 DEF DataInv, MonInv
<1> QED BY <1>1, <1>2

(* A step of the scan thread that leaves the card and the monitor alone.   *)
LEMMA ScanStartData ==
    ASSUME Records, DataInv, SpawnInv,
           ScanAlloc \/ ScanMount \/ ScanSpawn \/ ScanSignal \/ ScanWoken
    PROVE  DataInv'
<1>1. UNCHANGED <<disk, clock, inotify, watched, stop, lost, folder>>
  BY DEF ScanFrame, ScanAlloc, ScanMount, ScanSpawn, ScanSignal, ScanWoken
<1>2. CardInv' /\ FoldersInv'
  BY <1>1 DEF DataInv, CardInv, FoldersInv
<1>3. ScanInv'
  BY Constants DEF DataInv, Records, ScanFields, ScanPcs, ScanInv, ScanAlloc, ScanMount, ScanSpawn,
     ScanSignal, ScanWoken, Awake
<1>4. FlagsInv'
  <2>1. allocated' \in BOOLEAN /\ watched' \in BOOLEAN
    BY <1>1 DEF DataInv, FlagsInv, ScanAlloc, ScanMount, ScanSpawn, ScanSignal, ScanWoken
  <2>2. signal' \in -1 .. 1
    BY DEF DataInv, FlagsInv, ScanAlloc, ScanMount, ScanSpawn, ScanSignal, ScanWoken
  <2>3. /\ mount_status' \in {"scanning", "mounted", "unmounted"}
        /\ stop' \in {"idle", "give", "join", "done"}
    BY <1>1 DEF DataInv, FlagsInv, ScanAlloc, ScanMount, ScanSpawn, ScanSignal, ScanWoken
  <2> QED BY <2>1, <2>2, <2>3, Zenon DEF FlagsInv
<1> QED BY <1>2, <1>3, <1>4, ScanStartMonitor DEF DataInv

LEMMA ScanEntryData ==
    ASSUME DataInv, NEW f \in Files, ScanEntry(f)
    PROVE  DataInv'
<1> USE DEF DataInv
<1>1. UNCHANGED <<disk, clock, allocated, inotify, watched, mount_status, signal, scan, mon, stop, lost>>
  BY DEF ScanEntry, ScanFrame
<1>2. CardInv' /\ ScanInv' /\ MonInv' /\ FlagsInv'
  BY <1>1 DEF CardInv, ScanInv, MonInv, FlagsInv
<1>3. Stat(f) \in EntryOf(Files) /\ Stat(f).name = f
  BY DEF Stat, EntryOf, CardInv
<1>4. FoldersInv'
  <2>1. /\ scan.i \in Folders /\ FolderOf[f] = scan.i
        /\ ~file_list_check(folder[scan.i], Stat(f).name)
        /\ folder' = [folder EXCEPT ![scan.i] = file_list_add(@, Stat(f))]
    BY <1>3 DEF ScanEntry, ScanInv
  <2> PICK i, e : i = scan.i /\ e = Stat(f)
    OBVIOUS
  <2>2. /\ i \in Folders /\ e \in EntryOf(Files) /\ FolderOf[e.name] = i
        /\ ~file_list_check(folder[i], e.name)
        /\ folder' = [folder EXCEPT ![i] = file_list_add(@, e)]
    BY <1>3, <2>1
  <2> QED BY <2>2, AddFolder
<1> QED BY <1>2, <1>4

LEMMA ScanReadData ==
    ASSUME Records, DataInv, ScanOpen \/ ScanReadEnd
    PROVE  DataInv'
<1> USE DEF DataInv
<1>1. UNCHANGED <<disk, clock, folder, allocated, inotify, watched, mount_status, signal, mon, stop>>
  BY DEF ScanOpen, ScanReadEnd, ScanFrame
<1>2. FoldersInv' /\ MonInv' /\ FlagsInv'
  BY <1>1 DEF FoldersInv, MonInv, FlagsInv
<1>3. lost' \subseteq Files
  BY DEF ScanOpen, ScanReadEnd, CardInv, ScanInv
<1>4. ScanInv'
  <2>1. scan.i # FolderNum => scan.i + 1 \in Folders
    BY Constants DEF ScanInv, Folders
  <2>2. CASE scan' = NextRead
    BY <2>1, <2>2, Constants DEF NextRead, ScanInv, ScanPcs, Records, ScanFields
  <2>3. CASE scan' # NextRead
    BY <2>3 DEF ScanOpen, ScanReadEnd, ScanInv, ScanPcs, Records, ScanFields
  <2> QED BY <2>2, <2>3
<1> QED BY <1>1, <1>2, <1>3, <1>4 DEF CardInv

LEMMA ScanUnlistData ==
    ASSUME Records, DataInv, ScanUnlist
    PROVE  DataInv'
<1> USE DEF DataInv
<1>1. UNCHANGED <<disk, clock, allocated, inotify, watched, mount_status, signal, mon, stop>>
  BY DEF ScanUnlist, ScanFrame
<1>2. MonInv' /\ FlagsInv'
  BY <1>1 DEF MonInv, FlagsInv
<1>3. CardInv'
  BY <1>1 DEF ScanUnlist, CardInv, ScanInv
<1>4. ScanInv'
  BY DEF ScanUnlist, ScanInv, ScanPcs, Records, ScanFields
<1>5. FoldersInv'
  <2>1. scan.i \in Folders /\ folder' = [folder EXCEPT ![scan.i] = file_list_del(@, scan.filename)]
    BY DEF ScanUnlist, ScanInv
  <2> PICK i, name : i = scan.i /\ name = scan.filename
    OBVIOUS
  <2>2. i \in Folders /\ folder' = [folder EXCEPT ![i] = file_list_del(@, name)]
    BY <2>1
  <2> QED BY <2>2, DelFolder
<1> QED BY <1>2, <1>3, <1>4, <1>5

LEMMA ScanRemoveData ==
    ASSUME Records, DataInv, ScanRemove
    PROVE  DataInv'
<1> USE DEF DataInv
<1>1. UNCHANGED <<clock, folder, allocated, watched, mount_status, signal, mon, stop>>
  BY DEF ScanRemove, ScanFrame
<1>2. FoldersInv' /\ FlagsInv'
  BY <1>1 DEF FoldersInv, FlagsInv
<1> PICK f : f = scan.file
  OBVIOUS
<1>3. f \in Files
  BY DEF ScanRemove, ScanInv
<1>4. CardInv' /\ MonInv'
  <2>1. CASE Exists(f)
    <3>1. disk' = [disk EXCEPT ![f] = Removed(f)] /\ Notify("delete", f)
      BY <2>1 DEF ScanRemove
    <3>2. inotify' \in Seq(Event) /\ lost' \subseteq Files /\ MonInv'
      BY <1>1, <1>3, <3>1, NotifyData
    <3>3. disk' \in [Files -> [state : FileState, time : Nat, space : Nat]]
      BY <1>3, <3>1, RemovedTyped, DiskUpdate
    <3> QED BY <1>1, <3>2, <3>3 DEF CardInv
  <2>2. CASE ~Exists(f)
    <3>1. UNCHANGED <<disk, inotify, lost>>
      BY <2>2 DEF ScanRemove
    <3> QED BY <1>1, <3>1 DEF CardInv, MonInv
  <2> QED BY <2>1, <2>2
<1>5. ScanInv'
  <2>1. CASE scan' = NextFolder
    BY <2>1, NextFolderData
  <2>2. CASE scan' # NextFolder
    BY <2>2 DEF ScanRemove, ScanInv, ScanPcs, Records, ScanFields
  <2> QED BY <2>1, <2>2
<1> QED BY <1>2, <1>4, <1>5

LEMMA ScanOutData ==
    ASSUME Records, DataInv, ScanOut
    PROVE  DataInv'
<1> USE DEF DataInv
<1>1. UNCHANGED <<disk, clock, inotify, watched, mount_status, signal, mon, stop, lost>>
  BY DEF ScanOut, ScanFrame
<1>2. CardInv' /\ MonInv'
  BY <1>1 DEF CardInv, MonInv
<1>3. FoldersInv'
  <2>1. ToSet(EmptyFolder.list) = {}
    <3>1. EmptyFolder.list = << >>
      BY DEF EmptyFolder
    <3> QED BY <3>1 DEF ToSet
  <2>2. folder' = [i \in Folders |-> EmptyFolder] /\ GoodList(EmptyFolder, Files)
    BY EmptyGood DEF ScanOut
  <2> QED BY <2>1, <2>2 DEF FoldersInv
<1>4. ScanInv'
  BY DEF ScanOut, ScanInv, ScanPcs, Records, ScanFields
<1>5. allocated' \in BOOLEAN
  BY DEF ScanOut
<1>6. FlagsInv'
  BY <1>1, <1>5 DEF FlagsInv
<1> QED BY <1>2, <1>3, <1>4, <1>6

-----------------------------------------------------------------------------
(* The monitor thread.                                                     *)

(* The event at hand, and the events after it.                             *)
LEMMA EventTail ==
    ASSUME DataInv, mon.pc \in {"event", "add"}
    PROVE  /\ inotify # << >> /\ Head(inotify) \in Event /\ Head(inotify) = inotify[1]
           /\ Len(inotify) \in Nat \ {0}
           /\ Tail(inotify) \in Seq(Event) /\ Len(Tail(inotify)) = Len(inotify) - 1
           /\ \A k \in 1 .. Len(inotify) - 1 : Tail(inotify)[k] = inotify[k + 1]
<1>1. inotify \in Seq(Event) /\ mon.left \in 1 .. Len(inotify)
  BY DEF DataInv, CardInv, MonInv
<1>2. Len(inotify) \in Nat
  BY <1>1, LenProperties
<1>3. inotify # << >>
  BY <1>1, <1>2, EmptySeq
<1> QED BY <1>1, <1>2, <1>3, HeadTailProperties

(* Done with an event, with one less in the queue or, when the monitor     *)
(* removes an empty file, one more behind it.                              *)
LEMMA EventDoneData ==
    ASSUME Records, DataInv, mon.pc \in {"event", "add"}, inotify' \in Seq(Event),
           Len(inotify') >= Len(inotify) - 1,
           mon'.left = mon.left - 1, mon'.pc = IF mon.left = 1 THEN "loop" ELSE "event"
    PROVE  MonInv'
<1>1. mon.left \in 1 .. Len(inotify) /\ Len(inotify) \in Nat /\ Len(inotify') \in Nat
  BY EventTail, LenProperties DEF DataInv, MonInv
<1>2. CASE mon.left = 1
  BY <1>1, <1>2 DEF MonInv
<1>3. CASE mon.left # 1
  <2>1. mon'.left \in 1 .. Len(inotify')
    BY <1>1, <1>3
  <2> QED BY <1>3, <2>1 DEF MonInv
<1> QED BY <1>2, <1>3

LEMMA EventDoneTyped ==
    ASSUME Records, DataInv, mon.pc = "event", EventDone
    PROVE  inotify' \in Seq(Event) /\ MonInv'
<1>1. inotify' \in Seq(Event) /\ Len(inotify') >= Len(inotify) - 1
  BY EventTail DEF EventDone
<1>2. mon'.left = mon.left - 1 /\ mon'.pc = IF mon.left = 1 THEN "loop" ELSE "event"
  BY DEF EventDone, Records, MonFields
<1> QED BY <1>1, <1>2, EventDoneData

LEMMA MonitorData == Records /\ DataInv /\ Monitor => DataInv'
<1> SUFFICES ASSUME Records, DataInv, Monitor PROVE DataInv'
  OBVIOUS
<1> USE DEF DataInv
<1>1. UNCHANGED <<clock, allocated, signal, scan, stop>>
  BY DEF MonFrame, Monitor, MonWatch, MonRead, MonEnd, MonUnmount, MonDelete, MonLstat, MonAdd
<1>2. ScanInv'
  BY <1>1 DEF ScanInv
<1>3. CASE MonWatch
  <2>1. UNCHANGED <<disk, folder, inotify, mount_status, lost>> /\ watched' \in {watched, TRUE}
    BY <1>3 DEF MonWatch
  <2>2. CardInv' /\ FoldersInv' /\ FlagsInv'
    BY <1>1, <2>1 DEF CardInv, FoldersInv, FlagsInv
  <2>3. MonInv'
    BY <1>3 DEF MonWatch, MonInv, Records, MonFields
  <2> QED BY <1>2, <2>2, <2>3
<1>4. CASE MonRead
  <2>1. UNCHANGED <<disk, folder, inotify, watched, mount_status, lost>>
    BY <1>4 DEF MonRead
  <2>2. CardInv' /\ FoldersInv' /\ FlagsInv'
    BY <1>1, <2>1 DEF CardInv, FoldersInv, FlagsInv
  <2>3. Len(inotify) \in Nat \ {0}
    BY <1>4, EmptySeq DEF MonRead, CardInv
  <2>4. MonInv'
    BY <1>4, <2>3 DEF MonRead, MonInv, Records, MonFields
  <2> QED BY <1>2, <2>2, <2>4
<1>5. CASE MonEnd
  <2>1. UNCHANGED <<disk, folder, mount_status, lost>> /\ watched' = FALSE /\ inotify' = << >>
    BY <1>5 DEF MonEnd
  <2>2. CardInv' /\ FoldersInv' /\ FlagsInv'
    BY <1>1, <2>1, EmptySeq DEF CardInv, FoldersInv, FlagsInv
  <2>3. MonInv'
    BY <1>5 DEF MonEnd, MonInv, Records, MonFields
  <2> QED BY <1>2, <2>2, <2>3
<1>6. CASE MonUnmount
  <2>1. UNCHANGED <<disk, folder, watched, lost>> /\ mount_status' = "unmounted"
    BY <1>6 DEF MonUnmount
  <2>2. inotify' \in Seq(Event) /\ MonInv'
    BY <1>6, EventDoneTyped DEF MonUnmount
  <2>3. CardInv' /\ FoldersInv'
    BY <1>1, <2>1, <2>2 DEF CardInv, FoldersInv
  <2>4. FlagsInv'
    BY <1>1, <2>1 DEF FlagsInv
  <2> QED BY <1>2, <2>2, <2>3, <2>4
<1>7. CASE MonDelete
  <2> PICK f : f = Head(inotify).file
    OBVIOUS
  <2>1. UNCHANGED <<disk, watched, mount_status, lost>>
    BY <1>7 DEF MonDelete
  <2>2. f \in Files /\ FolderOf[f] \in Folders
    BY <1>7, EventTail, Constants DEF MonDelete, Event
  <2>3. inotify' \in Seq(Event) /\ MonInv'
    BY <1>7, EventDoneTyped DEF MonDelete
  <2>4. CardInv' /\ FlagsInv'
    BY <1>1, <2>1, <2>3 DEF CardInv, FlagsInv
  <2>5. folder' = [folder EXCEPT ![FolderOf[f]] = file_list_del(@, f)]
    BY <1>7 DEF MonDelete
  <2>6. FoldersInv'
    BY <2>2, <2>5, DelFolder
  <2> QED BY <1>2, <2>3, <2>4, <2>6
<1>8. CASE MonLstat
  <2> PICK e, f : e = Head(inotify) /\ f = e.file
    OBVIOUS
  <2>1. UNCHANGED <<folder, watched, mount_status>>
    BY <1>8 DEF MonLstat
  <2>2. FoldersInv' /\ FlagsInv'
    BY <1>1, <2>1 DEF FoldersInv, FlagsInv
  <2>3. f \in Files
    BY <1>8, EventTail DEF MonLstat, Event
  <2>4. CASE ~Exists(f)
    <3>1. EventDone /\ UNCHANGED <<disk, lost>>
      BY <1>8, <2>4 DEF MonLstat
    <3>2. inotify' \in Seq(Event) /\ MonInv'
      BY <1>8, <3>1, EventDoneTyped DEF MonLstat
    <3> QED BY <1>1, <1>2, <2>2, <3>1, <3>2 DEF CardInv
  <2>5. CASE Exists(f) /\ e.type = "close_write" /\ disk[f].space = 0
    <3> PICK x : x = [e EXCEPT !.type = "delete"]
      OBVIOUS
    <3>1. /\ disk' = [disk EXCEPT ![f] = Removed(f)]
          /\ inotify' = Append(Tail(inotify), x) \/ inotify' = Tail(inotify)
          /\ mon' = [mon EXCEPT !.left = @ - 1, !.pc = IF mon.left = 1 THEN "loop" ELSE "event"]
          /\ lost' = lost \/ lost' = lost \cup {f}
      BY <1>8, <2>5 DEF MonLstat
    <3>2. x \in Event
      <4>1. e \in Event
        BY <1>8, EventTail DEF MonLstat
      <4> QED BY <2>3, <2>5, <4>1 DEF Event
    <3>3. Tail(inotify) \in Seq(Event) /\ Len(Tail(inotify)) = Len(inotify) - 1 /\ Len(inotify) \in Nat
      BY <1>8, EventTail DEF MonLstat
    <3>4. /\ Append(Tail(inotify), x) \in Seq(Event)
          /\ Len(Append(Tail(inotify), x)) = Len(Tail(inotify)) + 1
      BY <3>2, <3>3, AppendProperties
    <3>5. inotify' \in Seq(Event) /\ lost' \subseteq Files
      BY <2>3, <3>1, <3>3, <3>4 DEF CardInv
    <3>6. Len(inotify') >= Len(inotify) - 1
      BY <3>1, <3>3, <3>4
    <3>7. mon'.left = mon.left - 1 /\ mon'.pc = IF mon.left = 1 THEN "loop" ELSE "event"
      BY <3>1 DEF Records, MonFields
    <3>8. MonInv'
      BY <1>8, <3>5, <3>6, <3>7, EventDoneData DEF MonLstat
    <3>9. disk' \in [Files -> [state : FileState, time : Nat, space : Nat]]
      BY <2>3, <3>1, RemovedTyped, DiskUpdate
    <3> QED BY <1>1, <1>2, <2>2, <3>5, <3>8, <3>9 DEF CardInv
  <2>6. CASE Exists(f) /\ ~(e.type = "close_write" /\ disk[f].space = 0)
    <3>1. mon' = [mon EXCEPT !.pc = "add", !.stat = Stat(f)] /\ UNCHANGED <<disk, inotify, lost>>
      BY <1>8, <2>6 DEF MonLstat
    <3>2. Stat(f) \in EntryOf(Files)
      BY <2>3 DEF Stat, EntryOf, CardInv
    <3>3. MonInv'
      BY <1>8, <3>1, <3>2 DEF MonLstat, MonInv, Records, MonFields
    <3> QED BY <1>1, <1>2, <2>2, <3>1, <3>3 DEF CardInv
  <2> QED BY <2>4, <2>5, <2>6
<1>9. CASE MonAdd
  <2> PICK e, i : e = mon.stat /\ i = FolderOf[e.name]
    OBVIOUS
  <2>1. UNCHANGED <<disk, watched, mount_status, lost>>
    BY <1>9 DEF MonAdd
  <2>2. e \in EntryOf(Files) /\ e.name \in Files /\ i \in Folders
    BY <1>9, Constants DEF MonAdd, MonInv, EntryOf
  <2>3. inotify' \in Seq(Event) /\ Len(inotify') >= Len(inotify) - 1
    BY <1>9, EventTail DEF MonAdd
  <2>4. mon'.left = mon.left - 1 /\ mon'.pc = IF mon.left = 1 THEN "loop" ELSE "event"
    BY <1>9 DEF MonAdd, Records, MonFields
  <2>5. MonInv'
    BY <1>9, <2>3, <2>4, EventDoneData DEF MonAdd
  <2>6. CardInv' /\ FlagsInv'
    BY <1>1, <2>1, <2>3 DEF CardInv, FlagsInv
  <2>7. FoldersInv'
    <3>1. CASE file_list_check(folder[i], e.name)
      <4>1. folder' = folder
        BY <1>9, <2>2, <3>1 DEF MonAdd, FoldersInv
      <4> QED BY <4>1 DEF FoldersInv
    <3>2. CASE ~file_list_check(folder[i], e.name)
      <4>1. folder' = [folder EXCEPT ![i] = file_list_add(@, e)]
        BY <1>9, <2>2, <3>2 DEF MonAdd, FoldersInv
      <4> QED BY <2>2, <3>2, <4>1, AddFolder
    <3> QED BY <3>1, <3>2
  <2> QED BY <1>2, <2>5, <2>6, <2>7
<1> QED BY <1>3, <1>4, <1>5, <1>6, <1>7, <1>8, <1>9 DEF Monitor

-----------------------------------------------------------------------------
LEMMA StopData == DataInv /\ (StopSet \/ StopGive \/ StopJoin) => DataInv'
<1> SUFFICES ASSUME DataInv, StopSet \/ StopGive \/ StopJoin PROVE DataInv'
  OBVIOUS
<1>1. UNCHANGED <<disk, clock, folder, allocated, inotify, watched, scan, mon, lost>>
  BY DEF StopSet, StopGive, StopJoin
<1>2. CardInv' /\ FoldersInv' /\ ScanInv' /\ MonInv'
  BY <1>1 DEF DataInv, CardInv, FoldersInv, ScanInv, MonInv
<1>3. FlagsInv'
  <2>1. signal' \in -1 .. 1
    BY DEF DataInv, FlagsInv, StopSet, StopGive, StopJoin
  <2>2. /\ mount_status' \in {"scanning", "mounted", "unmounted"}
        /\ stop' \in {"idle", "give", "join", "done"}
    BY DEF DataInv, FlagsInv, StopSet, StopGive, StopJoin
  <2> QED BY <1>1, <2>1, <2>2, Zenon DEF DataInv, FlagsInv
<1> QED BY <1>2, <1>3 DEF DataInv

LEMMA NextData == IInv /\ DataInv /\ [Next]_vars => DataInv'
<1> SUFFICES ASSUME IInv, DataInv, [Next]_vars PROVE DataInv'
  OBVIOUS
<1>0. Records /\ SpawnInv
  BY DEF IInv
<1>1. CASE Environment BY <1>1, EnvironmentData
<1>2. CASE Scan \/ ScanTimeout
  BY <1>0, <1>2, ScanLocalsData, ScanStartData, ScanEntryData, ScanReadData, ScanUnlistData,
     ScanRemoveData, ScanOutData DEF Scan
<1>3. CASE Monitor BY <1>0, <1>3, MonitorData
<1>4. CASE StopSet \/ StopGive \/ StopJoin BY <1>4, StopData
<1>5. CASE UNCHANGED vars
  BY <1>5 DEF vars, DataInv, CardInv, FoldersInv, ScanInv, MonInv, FlagsInv
<1> QED BY <1>1, <1>2, <1>3, <1>4, <1>5 DEF Next

(* The history of what others delete counts.                               *)
LEMMA CountNext == others \in Nat /\ [Next]_vars => others' \in Nat
<1> SUFFICES ASSUME others \in Nat, [Next]_vars PROVE others' \in Nat
  OBVIOUS
<1>1. CASE Environment
  <2>1. others' = others
    BY <1>1 DEF Environment, Create, Close, UserDelete, UserMoveFrom, UserMoveTo, Umount, Notify
  <2> QED BY <2>1
<1>2. CASE Scan \/ ScanTimeout
  <2>1. others' \in {others, 0}
    BY <1>2 DEF Scan, ScanLocal, ScanAlloc, ScanOpen, ScanEntry, ScanReadEnd, ScanCheck, ScanMount,
       ScanSize0, ScanSpawn, ScanSignal, ScanLoop, ScanWoken, ScanTimeout, ScanMeasure, ScanAgain,
       ScanPick, ScanPath, ScanName, ScanUnlist, ScanRemove, ScanSize, ScanSum, ScanOut, Notify
  <2> QED BY <2>1
<1>3. CASE Monitor
  <2>1. others' \in {others, others + 1}
    BY <1>3 DEF Monitor, MonWatch, MonRead, MonEnd, MonUnmount, MonDelete, MonLstat, MonAdd
  <2> QED BY <2>1
<1>4. CASE StopSet \/ StopGive \/ StopJoin \/ UNCHANGED vars
  BY <1>4 DEF StopSet, StopGive, StopJoin, vars
<1> QED BY <1>1, <1>2, <1>3, <1>4 DEF Next

LEMMA DataTypes == DataInv /\ others \in Nat => TypeOK
<1> SUFFICES ASSUME DataInv, others \in Nat PROVE TypeOK
  OBVIOUS
<1> USE DEF DataInv
<1>1. /\ disk \in [Files -> [state : FileState, time : Nat, space : Nat]]
      /\ clock \in Nat
      /\ lost \subseteq Files
  BY DEF CardInv
<1>2. \A i \in Folders : \A e \in ToSet(folder[i].list) : e \in Entry /\ FolderOf[e.name] = i
  BY ListedFiles DEF FoldersInv, Entry, EntryOf
<1>3. \A k \in 1 .. Len(inotify) : inotify[k] \in Event
  BY ElementOfSeq DEF CardInv
<1>4. {allocated, watched} \subseteq BOOLEAN
  BY DEF FlagsInv
<1>5. /\ mount_status \in {"scanning", "mounted", "unmounted"}
      /\ signal \in -1 .. 1
      /\ stop \in {"idle", "give", "join", "done"}
  BY DEF FlagsInv
<1>6. \/ scan.pc \in {"alloc", "check", "mount", "size0", "spawn", "signal", "loop", "wait",
                      "size", "out", "ended", "crash"}
      \/ /\ scan.pc \in {"open", "read", "measure", "again", "pick", "path", "name", "unlist",
                         "remove", "sum"}
         /\ scan.i \in Folders
  BY DEF ScanInv, ScanPcs
<1>7. mon.pc \in {"absent", "watch", "loop", "event", "add", "ended"}
  BY DEF MonInv
<1>8. mon.left \in 0 .. Len(inotify)
  <2>1. Len(inotify) \in Nat
    BY LenProperties DEF CardInv
  <2> QED BY <2>1 DEF MonInv
<1> QED BY <1>1, <1>2, <1>3, <1>4, <1>5, <1>6, <1>7, <1>8 DEF TypeOK

LEMMA DataLists == DataInv => ListsConsistent
BY DEF DataInv, FoldersInv, GoodList, ListsConsistent

LEMMA DataInvariant == Spec => [](IInv /\ DataInv /\ others \in Nat)
<1>1. IInv /\ DataInv /\ others \in Nat /\ [Next]_vars => (IInv /\ DataInv /\ others \in Nat)'
  BY NextInv, NextData, CountNext
<1>2. Init => others \in Nat
  BY DEF Init
<1> QED BY <1>1, <1>2, InitInv, InitData, PTL DEF Spec

(* The variables of the two threads, the card and the lists keep their     *)
(* types: in particular a list only ever holds files of its folder, the    *)
(* monitor never reads past the events it got, and a file to remove is     *)
(* named before it is removed.                                             *)
THEOREM DeletionTypes == Spec => []TypeOK
BY DataInvariant, DataTypes, PTL

(* The lists stay sorted, without repetition and in agreement with their   *)
(* counters and file_list_last, whatever the scan thread, the monitor      *)
(* thread, the writers and the users of the card do at the same time.      *)
THEOREM ListsStayConsistent == Spec => []ListsConsistent
BY DataInvariant, DataLists, PTL
=============================================================================
