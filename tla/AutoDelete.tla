----------------------------- MODULE AutoDelete -----------------------------
(***************************************************************************)
(* Automatic deletion of recordings (common/storage/storage.c): the scan   *)
(* thread (rkipc_storage_file_scan_thread), which reads the recording      *)
(* folders once and then deletes files by number or by share of the space, *)
(* the monitor thread (rkipc_storage_file_monitor_thread), which keeps the *)
(* lists up to date from inotify events, the functions that stop the scan, *)
(* and, as the environment, the writers of files and the users of the      *)
(* card.  The folder lists are those of FileList.                          *)
(*                                                                         *)
(* The scan thread reads file_num, total_space and file_list_last without  *)
(* the folder's mutex, each read a step of its own here.  A failing malloc *)
(* or pthread_create is not modelled; the other calls that may fail are    *)
(* named in Faults.                                                        *)
(***************************************************************************)
EXTENDS FileList

CONSTANTS
    FolderNum,    \* folders are numbered 1 .. FolderNum
    Files,        \* files that may come to exist, under names never reused
    FolderOf,     \* [Files -> 1 .. FolderNum]
    FileSize,     \* [Files -> Nat], blocks a complete file takes
    Present,      \* files on the card when the scan starts
    Capacity,     \* blocks on the card
    free_size_del_min,
    NumLimit,     \* storage:num_limit_enable
    Limit,        \* [1 .. FolderNum -> Nat]: file_max_num or video_quota
    ReadSlack,    \* 300 in rkipc_storage_read_file_list
    OffMax,       \* largest value of off_t
    Faults        \* which failures and actions of others, named below, can happen

Folders == 1 .. FolderNum

ASSUME AutoDeleteAssumption ==
    /\ FolderNum \in Nat \ {0}
    /\ FolderOf \in [Files -> Folders]
    /\ FileSize \in [Files -> Nat]
    /\ Limit \in [Folders -> Nat]
    /\ {Capacity, free_size_del_min, ReadSlack, OffMax} \subseteq Nat
    /\ NumLimit \in BOOLEAN
    /\ Present \subseteq Files
    /\ NoFile \notin Files
    /\ Faults \subseteq {"early", "stop", "umount", "delete", "move",
                        "statfs", "mkdir", "opendir", "inotify", "overflow"}

VARIABLES
    disk,          \* per file: state, modification time, blocks
    clock,         \* advances with every completed file
    folder,        \* per folder: its list (dev_sta.folder[i])
    allocated,     \* dev_sta.folder is not NULL
    inotify,       \* events not processed yet
    watched,       \* the watches exist
    mount_status,  \* dev_sta.mount_status
    signal,        \* g_file_scan_signal: -1 for NULL, or its count
    scan,          \* the scan thread: pc and local variables
    mon,           \* the monitor thread: pc and local variables
    stop,          \* progress of dev_remove or auto_delete_deinit
    lost,          \* history: files whose changes the lists miss
    others         \* history: listed files that others than the scan thread have taken from
                   \* its folder since it found the folder over the limit

vars == <<disk, clock, folder, allocated, inotify, watched, mount_status, signal, scan, mon,
          stop, lost, others>>

FileState == {"none", "open", "closed", "unlinked", "gone"}
Event == [type : {"close_write", "moved_to", "delete", "moved_from"}, file : Files]
         \cup [type : {"unmount"}, file : {NoFile}]
Entry == [name : Files, time : Nat, space : Nat]
NoEntry == [name |-> NoFile, time |-> 0, space |-> 0]

(* The entries of a folder's list are files of that folder, and a thread   *)
(* at work on a folder has a valid folder index.                           *)
TypeOK ==
    /\ disk \in [Files -> [state : FileState, time : Nat, space : Nat]]
    /\ clock \in Nat
    /\ \A i \in Folders : \A e \in ToSet(folder[i].list) : e \in Entry /\ FolderOf[e.name] = i
    /\ \A k \in 1 .. Len(inotify) : inotify[k] \in Event
    /\ {allocated, watched} \subseteq BOOLEAN
    /\ mount_status \in {"scanning", "mounted", "unmounted"}
    /\ signal \in -1 .. 1
    /\ \/ scan.pc \in {"alloc", "check", "mount", "size0", "spawn", "signal", "loop", "wait",
                       "size", "out", "ended", "crash"}
       \/ /\ scan.pc \in {"open", "read", "measure", "again", "pick", "path", "name", "unlist",
                          "remove", "sum"}
          /\ scan.i \in Folders
    /\ mon.pc \in {"absent", "watch", "loop", "event", "add", "ended"}
    /\ mon.left \in 0 .. Len(inotify)
    /\ stop \in {"idle", "give", "join", "done"}
    /\ lost \subseteq Files
    /\ others \in Nat

Init ==
    /\ disk = [f \in Files |->
                 IF f \in Present THEN [state |-> "closed", time |-> 0, space |-> FileSize[f]]
                 ELSE [state |-> "none", time |-> 0, space |-> 0]]
    /\ clock = 1
    /\ folder = [i \in Folders |-> EmptyFolder]
    /\ allocated = FALSE
    /\ inotify = << >>
    /\ watched = FALSE
    /\ mount_status = "scanning"
    /\ signal = -1
    /\ scan = [pc |-> "alloc", i |-> 1, todo |-> {}, mode |-> "num", limit |-> 0, total |-> 0,
               file |-> NoFile, filename |-> NoFile, overwrote |-> FALSE]
    /\ mon = [pc |-> "absent", left |-> 0, stat |-> NoEntry]
    /\ stop = "idle"
    /\ lost = {}
    /\ others = 0

-----------------------------------------------------------------------------
(* The card and its file system (external).                                *)

Free == Capacity - MapThenSumSet(LAMBDA f : disk[f].space, Files)

Exists(f) == disk[f].state \in {"open", "closed"}

(* A removed file keeps its blocks while it is open for writing.           *)
Removed(f) ==
    IF disk[f].state = "open" THEN [disk[f] EXCEPT !.state = "unlinked"]
    ELSE [state |-> "gone", time |-> 0, space |-> 0]

(* The scan has opened the directory of f: a later change of f that no     *)
(* watch reports is lost.                                                  *)
Opened(f) ==
    CASE scan.pc = "alloc" -> FALSE
      [] scan.pc = "open"  -> FolderOf[f] < scan.i
      [] scan.pc = "read"  -> FolderOf[f] <= scan.i
      [] OTHER -> TRUE

(* A change of f is reported if f is watched.  No event comes when the     *)
(* queue is full, or when inotify_add_watch has failed for the folder,     *)
(* which the code does not look at.                                        *)
Notify(type, f) ==
    /\ UNCHANGED others
    /\ \/ /\ watched
          /\ inotify' = Append(inotify, [type |-> type, file |-> f])
          /\ UNCHANGED lost
       \/ /\ ~watched \/ "overflow" \in Faults
          /\ lost' = IF Opened(f) THEN lost \cup {f} ELSE lost
          /\ UNCHANGED inotify

(* A recorder or a snapshot creates a file.  Recording starts right after  *)
(* the scan thread is created ("early"), or once the watches exist.        *)
Create(f) ==
    /\ "early" \in Faults \/ watched
    /\ disk[f].state = "none"
    /\ disk' = [disk EXCEPT ![f].state = "open", ![f].time = clock]
    /\ UNCHANGED <<clock, folder, allocated, inotify, watched, mount_status, signal, scan, mon,
                   stop, lost, others>>

(* It closes the file, complete or, when nothing was written, empty.       *)
Close(f) ==
    \E s \in {0, FileSize[f]} :
        /\ s <= Free
        /\ \/ /\ disk[f].state = "open"
              /\ disk' = [disk EXCEPT ![f] = [state |-> "closed", time |-> clock, space |-> s]]
           \/ /\ disk[f].state = "unlinked"
              /\ disk' = [disk EXCEPT ![f] = [state |-> "gone", time |-> 0, space |-> 0]]
        /\ clock' = clock + 1
        /\ Notify("close_write", f)
        /\ UNCHANGED <<folder, allocated, watched, mount_status, signal, scan, mon, stop>>

(* A user deletes a file, moves one away, or moves one in.                 *)
UserDelete(f) ==
    /\ "delete" \in Faults
    /\ Exists(f)
    /\ disk' = [disk EXCEPT ![f] = Removed(f)]
    /\ Notify("delete", f)
    /\ UNCHANGED <<clock, folder, allocated, watched, mount_status, signal, scan, mon, stop>>

UserMoveFrom(f) ==
    /\ "move" \in Faults
    /\ disk[f].state = "closed"
    /\ disk' = [disk EXCEPT ![f] = Removed(f)]
    /\ Notify("moved_from", f)
    /\ UNCHANGED <<clock, folder, allocated, watched, mount_status, signal, scan, mon, stop>>

UserMoveTo(f) ==
    /\ "move" \in Faults
    /\ disk[f].state = "none"
    /\ FileSize[f] <= Free
    /\ \E t \in {0, clock} :
         disk' = [disk EXCEPT ![f] = [state |-> "closed", time |-> t, space |-> FileSize[f]]]
    /\ Notify("moved_to", f)
    /\ UNCHANGED <<clock, folder, allocated, watched, mount_status, signal, scan, mon, stop>>

(* The card is unmounted: its files are out of reach, the watches report   *)
(* IN_UNMOUNT and are gone.                                                *)
Umount ==
    /\ "umount" \in Faults
    /\ watched
    /\ disk' = [f \in Files |-> IF disk[f].state = "none" THEN disk[f]
                                ELSE [state |-> "gone", time |-> 0, space |-> 0]]
    /\ \/ inotify' = Append(inotify, [type |-> "unmount", file |-> NoFile])
       \/ "overflow" \in Faults /\ UNCHANGED inotify
    /\ watched' = FALSE
    /\ lost' = Files
    /\ UNCHANGED <<clock, folder, allocated, mount_status, signal, scan, mon, stop, others>>

Environment ==
    \/ \E f \in Files : Create(f) \/ Close(f) \/ UserDelete(f) \/ UserMoveFrom(f) \/ UserMoveTo(f)
    \/ Umount

-----------------------------------------------------------------------------
(* The scan thread, up to its loop.                                        *)

ScanFrame == UNCHANGED <<clock, watched, stop>>

(* The scan has no folder to read after the current one, or the next.      *)
NextRead == IF scan.i = FolderNum THEN [scan EXCEPT !.pc = "check", !.i = 1, !.todo = {}]
            ELSE [scan EXCEPT !.pc = "open", !.i = @ + 1, !.todo = {}]

(* A scan that is already told to stop allocates nothing.                  *)
ScanAlloc ==
    /\ scan.pc = "alloc"
    /\ IF mount_status # "unmounted"
       THEN allocated' = TRUE /\ scan' = [scan EXCEPT !.pc = "open"]
       ELSE scan' = [scan EXCEPT !.pc = "check"] /\ UNCHANGED allocated
    /\ ScanFrame /\ UNCHANGED <<disk, folder, inotify, mount_status, signal, mon, lost, others>>

(* create_folder and opendir for one folder.  When mkdir fails the thread  *)
(* gives up; when opendir fails, the folder stays empty for it and it goes *)
(* on with the next one.                                                   *)
ScanOpen ==
    /\ scan.pc = "open"
    /\ \/ /\ scan' = [scan EXCEPT !.pc = "read",
                                  !.todo = {f \in Files : FolderOf[f] = scan.i /\ Exists(f)}]
          /\ UNCHANGED lost
       \/ /\ "mkdir" \in Faults
          /\ scan' = [scan EXCEPT !.pc = "out"]
          /\ UNCHANGED lost
       \/ /\ "opendir" \in Faults
          /\ scan' = NextRead
          /\ lost' = lost \cup {f \in Files : FolderOf[f] = scan.i /\ disk[f].state = "closed"}
    /\ ScanFrame
    /\ UNCHANGED <<disk, folder, allocated, inotify, mount_status, signal, mon, others>>

Stat(f) == [name |-> f, time |-> disk[f].time, space |-> disk[f].space]

(* readdir returns a file, also one created since, and lstat finds it.     *)
ScanEntry(f) ==
    /\ scan.pc = "read"
    /\ FolderOf[f] = scan.i
    /\ Exists(f)
    /\ ~file_list_check(folder[scan.i], f)
    /\ folder[scan.i].file_num <= Limit[scan.i] + ReadSlack
    /\ folder' = [folder EXCEPT ![scan.i] = file_list_add(@, Stat(f))]
    /\ ScanFrame
    /\ UNCHANGED <<disk, allocated, inotify, mount_status, signal, scan, mon, lost, others>>

(* readdir has returned everything that was there, or the read stops at    *)
(* its limit; of the entries counted, the folder itself and its parent     *)
(* are two, wherever they come.                                            *)
ScanReadEnd ==
    LET missing == {f \in scan.todo : Exists(f) /\ ~file_list_check(folder[scan.i], f)} IN
    /\ scan.pc = "read"
    /\ missing = {} \/ folder[scan.i].file_num >= Limit[scan.i] + ReadSlack - 1
    /\ lost' = lost \cup missing
    /\ scan' = NextRead
    /\ ScanFrame
    /\ UNCHANGED <<disk, folder, allocated, inotify, mount_status, signal, mon, others>>

(* The test of mount_status and the assignment are two steps: a stop       *)
(* between them is overwritten.                                            *)
ScanCheck ==
    /\ scan.pc = "check"
    /\ scan' = [scan EXCEPT !.pc = IF mount_status = "unmounted" THEN "out" ELSE "mount"]
    /\ ScanFrame
    /\ UNCHANGED <<disk, folder, allocated, inotify, mount_status, signal, mon, lost, others>>

ScanMount ==
    /\ scan.pc = "mount"
    /\ mount_status' = "mounted"
    /\ scan' = [scan EXCEPT !.pc = "size0", !.overwrote = (mount_status = "unmounted")]
    /\ ScanFrame
    /\ UNCHANGED <<disk, folder, allocated, inotify, signal, mon, lost, others>>

(* When the first get_disk_size fails the thread returns, mount_status and *)
(* the folders stay.                                                       *)
ScanSize0 ==
    /\ scan.pc = "size0"
    /\ \/ scan' = [scan EXCEPT !.pc = "spawn"]
       \/ "statfs" \in Faults /\ mount_status # "unmounted" /\ scan' = [scan EXCEPT !.pc = "ended"]
    /\ ScanFrame
    /\ UNCHANGED <<disk, folder, allocated, inotify, mount_status, signal, mon, lost, others>>

ScanSpawn ==
    /\ scan.pc = "spawn"
    /\ mon' = [mon EXCEPT !.pc = "watch"]
    /\ scan' = [scan EXCEPT !.pc = "signal"]
    /\ ScanFrame
    /\ UNCHANGED <<disk, folder, allocated, inotify, mount_status, signal, lost, others>>

ScanSignal ==
    /\ scan.pc = "signal"
    /\ signal' = 0
    /\ scan' = [scan EXCEPT !.pc = "loop"]
    /\ ScanFrame
    /\ UNCHANGED <<disk, folder, allocated, inotify, mount_status, mon, lost, others>>

-----------------------------------------------------------------------------
(* The scan thread's loop.                                                 *)

(* A step that changes only the scan thread's local variables.             *)
ScanLocal ==
    /\ ScanFrame
    /\ UNCHANGED <<disk, folder, allocated, inotify, mount_status, signal, mon, lost, others>>

ScanLoop ==
    /\ scan.pc = "loop"
    /\ scan' = [scan EXCEPT !.pc = IF mount_status = "mounted" THEN "wait" ELSE "out"]
    /\ ScanLocal

(* Awake: leave, or start a pass over the folders.                         *)
Awake ==
    scan' = IF mount_status # "mounted" THEN [scan EXCEPT !.pc = "out"]
            ELSE [scan EXCEPT !.pc = IF NumLimit THEN "measure" ELSE "size",
                              !.i = 1, !.mode = "num", !.total = 0]

ScanWoken ==
    /\ scan.pc = "wait" /\ signal = 1
    /\ signal' = 0
    /\ Awake
    /\ ScanFrame /\ UNCHANGED <<disk, folder, allocated, inotify, mount_status, mon, lost, others>>

(* After 60 seconds.                                                       *)
ScanTimeout ==
    /\ scan.pc = "wait" /\ signal = 0
    /\ Awake
    /\ ScanLocal

(* off_t arithmetic, and the division of C.                                *)
Wrap(n) == ((n + OffMax + 1) % (2 * (OffMax + 1))) - (OffMax + 1)
Quotient(a, b) ==
    LET Abs(x) == IF x < 0 THEN -x ELSE x
        q == Abs(a) \div Abs(b)
    IN IF (a < 0) = (b < 0) THEN q ELSE -q

(* Mutant: the share is computed from the space of the first folder.       *)
MeasureFirst ==
    IF scan.mode = "num" THEN folder[scan.i].file_num
    ELSE Quotient(Wrap(folder[1].total_space * 100), scan.total)

(* What a pass compares with the limit: the number of files, or their      *)
(* share of the space of all folders when the pass began, in percent.      *)
Measure ==
    IF scan.mode = "num" THEN folder[scan.i].file_num
    ELSE Quotient(Wrap(folder[scan.i].total_space * 100), scan.total)

(* Mutant: a folder at its limit is over it.                               *)
OverOrAt(limit) == limit >= Limit[scan.i]

Over(limit) == limit > Limit[scan.i]

(* Mutant: a pass ends after the first folder.                             *)
NextFolderNone ==
    [scan EXCEPT !.limit = 0, !.file = NoFile, !.filename = NoFile, !.i = 1,
                 !.pc = IF scan.mode = "num" THEN "size" ELSE "loop"]

(* Mutant: the pass goes on to a folder past the last one.                 *)
NextFolderTooFar ==
    [scan EXCEPT !.limit = 0, !.file = NoFile, !.filename = NoFile,
                 !.i = IF scan.i <= FolderNum THEN @ + 1 ELSE 1,
                 !.pc = IF scan.i <= FolderNum THEN "measure"
                        ELSE IF scan.mode = "num" THEN "size" ELSE "loop"]

(* The next folder of the pass, or what follows the pass.  Variables that  *)
(* are written before they are read again are reset, here and below.       *)
NextFolder ==
    [scan EXCEPT !.limit = 0, !.file = NoFile, !.filename = NoFile,
                 !.i = IF scan.i < FolderNum THEN @ + 1 ELSE 1,
                 !.total = IF scan.i < FolderNum THEN @ ELSE 0,
                 !.pc = IF scan.i < FolderNum THEN "measure"
                        ELSE IF scan.mode = "num" THEN "size" ELSE "loop"]

ScanMeasure ==
    /\ scan.pc = "measure"
    /\ scan' = IF Over(Measure) THEN [scan EXCEPT !.pc = "again"]
               ELSE NextFolder
    /\ others' = 0
    /\ ScanFrame
    /\ UNCHANGED <<disk, folder, allocated, inotify, mount_status, signal, mon, lost>>

(* The loop over the files of a folder reads the measure again before each *)
(* deletion and tests it after the deletion.                               *)
ScanAgain ==
    /\ scan.pc = "again"
    /\ scan' = [scan EXCEPT !.pc = "pick", !.limit = Measure]
    /\ ScanLocal

ScanPick ==
    /\ scan.pc = "pick"
    /\ scan' = IF folder[scan.i].last # NoFile THEN [scan EXCEPT !.pc = "path"]
               ELSE IF Over(scan.limit) THEN [scan EXCEPT !.pc = "again"] ELSE NextFolder
    /\ ScanLocal

(* file_list_last is read again, for the path to remove, ...               *)
ScanPath ==
    /\ scan.pc = "path"
    /\ scan' = IF folder[scan.i].last = NoFile THEN [scan EXCEPT !.pc = "crash"]
               ELSE [scan EXCEPT !.pc = "name", !.file = folder[scan.i].last.name]
    /\ ScanLocal

(* Mutant: the name to unlist is that of the newest file.                  *)
ScanNameNewest ==
    /\ scan.pc = "name"
    /\ scan' = IF folder[scan.i].list = << >> THEN [scan EXCEPT !.pc = "crash"]
               ELSE [scan EXCEPT !.pc = "unlist", !.filename = Head(folder[scan.i].list).name]
    /\ ScanLocal

(* ... and once more, for the name to unlist.                              *)
ScanName ==
    /\ scan.pc = "name"
    /\ scan' = IF folder[scan.i].last = NoFile THEN [scan EXCEPT !.pc = "crash"]
               ELSE [scan EXCEPT !.pc = "unlist", !.filename = folder[scan.i].last.name]
    /\ ScanLocal

ScanUnlist ==
    /\ scan.pc = "unlist"
    /\ folder' = [folder EXCEPT ![scan.i] = file_list_del(@, scan.filename)]
    /\ scan' = [scan EXCEPT !.pc = "remove"]
    /\ lost' = IF scan.file = scan.filename THEN lost ELSE lost \cup {scan.filename}
    /\ ScanFrame /\ UNCHANGED <<disk, allocated, inotify, mount_status, signal, mon, others>>

(* Mutant: the file stays on the card.                                     *)
ScanRemoveNothing ==
    /\ scan.pc = "remove"
    /\ scan' = IF Over(scan.limit)
               THEN [scan EXCEPT !.pc = "again", !.limit = 0, !.file = NoFile, !.filename = NoFile]
               ELSE NextFolder
    /\ ScanLocal

ScanRemove ==
    /\ scan.pc = "remove"
    /\ IF Exists(scan.file)
       THEN disk' = [disk EXCEPT ![scan.file] = Removed(scan.file)] /\ Notify("delete", scan.file)
       ELSE UNCHANGED <<disk, inotify, lost, others>>
    /\ scan' = IF Over(scan.limit)
               THEN [scan EXCEPT !.pc = "again", !.limit = 0, !.file = NoFile, !.filename = NoFile]
               ELSE NextFolder
    /\ ScanFrame /\ UNCHANGED <<folder, allocated, mount_status, signal, mon>>

(* get_disk_size, which may fail.  free_size_del_max is not read.          *)
ScanSize ==
    /\ scan.pc = "size"
    /\ \/ scan' = IF Free > free_size_del_min THEN [scan EXCEPT !.pc = "loop"]
                  ELSE [scan EXCEPT !.pc = "sum", !.i = 1]
       \/ "statfs" \in Faults /\ scan' = [scan EXCEPT !.pc = "out"]
    /\ ScanLocal

(* The space of one more folder limited by its share; after the last one   *)
(* the pass by space begins, unless there is nothing to share.             *)
ScanSum ==
    LET total == Wrap(scan.total + (IF NumLimit THEN 0 ELSE folder[scan.i].total_space)) IN
    /\ scan.pc = "sum"
    /\ scan' = IF scan.i < FolderNum THEN [scan EXCEPT !.total = total, !.i = @ + 1]
               ELSE IF total = 0 THEN [scan EXCEPT !.pc = "loop", !.i = 1]
               ELSE [scan EXCEPT !.pc = "measure", !.total = total, !.mode = "space", !.i = 1]
    /\ ScanLocal

(* Mutant: the folders are freed under the monitor.                        *)
ScanOutNoJoin ==
    /\ scan.pc = "out"
    /\ folder' = [i \in Folders |-> EmptyFolder]
    /\ allocated' = FALSE
    /\ scan' = [scan EXCEPT !.pc = "ended"]
    /\ ScanFrame /\ UNCHANGED <<disk, inotify, mount_status, signal, mon, lost, others>>

ScanOut ==
    /\ scan.pc = "out"
    /\ mon.pc \in {"absent", "ended"}
    /\ folder' = [i \in Folders |-> EmptyFolder]
    /\ allocated' = FALSE
    /\ scan' = [scan EXCEPT !.pc = "ended"]
    /\ ScanFrame /\ UNCHANGED <<disk, inotify, mount_status, signal, mon, lost, others>>

-----------------------------------------------------------------------------
(* The monitor thread.                                                     *)

MonFrame == UNCHANGED <<clock, allocated, signal, scan, stop>>

(* When inotify_init fails the thread ends and the scan thread goes on     *)
(* with lists nobody keeps.                                                *)
MonWatch ==
    /\ mon.pc = "watch"
    /\ \/ watched' = TRUE /\ mon' = [mon EXCEPT !.pc = "loop"]
       \/ "inotify" \in Faults /\ mon' = [mon EXCEPT !.pc = "ended"] /\ UNCHANGED watched
    /\ MonFrame /\ UNCHANGED <<disk, folder, inotify, mount_status, lost, others>>

(* One read returns all events there are.  mount_status is looked at only  *)
(* between two reads.                                                      *)
MonRead ==
    /\ mon.pc = "loop" /\ mount_status = "mounted"
    /\ inotify # << >>
    /\ mon' = [mon EXCEPT !.pc = "event", !.left = Len(inotify)]
    /\ MonFrame /\ UNCHANGED <<disk, folder, inotify, watched, mount_status, lost, others>>

(* The descriptor is closed: events not read are dropped.                  *)
MonEnd ==
    /\ mon.pc = "loop" /\ mount_status # "mounted"
    /\ mon' = [mon EXCEPT !.pc = "ended"]
    /\ watched' = FALSE
    /\ inotify' = << >>
    /\ MonFrame /\ UNCHANGED <<disk, folder, mount_status, lost, others>>

(* The events after the current one, of the batch read.                    *)
EventDone ==
    /\ inotify' = Tail(inotify)
    /\ mon' = [mon EXCEPT !.left = @ - 1, !.pc = IF mon.left = 1 THEN "loop" ELSE "event"]

MonUnmount ==
    /\ mon.pc = "event" /\ Head(inotify).type = "unmount"
    /\ mount_status' = "unmounted"
    /\ EventDone
    /\ MonFrame /\ UNCHANGED <<disk, folder, watched, lost, others>>

(* The scan thread is in its loop over the files of folder scan.i.         *)
InLoop == scan.pc \in {"again", "pick", "path", "name", "unlist", "remove"}

MonDelete ==
    LET f == Head(inotify).file IN
    /\ mon.pc = "event" /\ Head(inotify).type \in {"delete", "moved_from"}
    /\ folder' = [folder EXCEPT ![FolderOf[f]] = file_list_del(@, f)]
    /\ others' = IF InLoop /\ FolderOf[f] = scan.i /\ file_list_check(folder[scan.i], f)
                  THEN others + 1 ELSE others
    /\ EventDone
    /\ MonFrame /\ UNCHANGED <<disk, watched, mount_status, lost>>

(* lstat of a new file: it may be gone already, and one closed empty is    *)
(* removed, which raises an event of its own.                              *)
MonLstat ==
    LET e == Head(inotify) IN
    /\ mon.pc = "event" /\ e.type \in {"moved_to", "close_write"}
    /\ IF ~Exists(e.file)
       THEN EventDone /\ UNCHANGED <<disk, lost>>
       ELSE IF e.type = "close_write" /\ disk[e.file].space = 0
       THEN /\ disk' = [disk EXCEPT ![e.file] = Removed(e.file)]
            /\ \/ /\ watched
                  /\ inotify' = Append(Tail(inotify), [e EXCEPT !.type = "delete"])
                  /\ UNCHANGED lost
               \/ /\ ~watched \/ "overflow" \in Faults
                  /\ inotify' = Tail(inotify)
                  /\ lost' = lost \cup {e.file}
            /\ mon' = [mon EXCEPT !.left = @ - 1, !.pc = IF mon.left = 1 THEN "loop" ELSE "event"]
       ELSE /\ mon' = [mon EXCEPT !.pc = "add", !.stat = Stat(e.file)]
            /\ UNCHANGED <<disk, inotify, lost>>
    /\ MonFrame /\ UNCHANGED <<folder, watched, mount_status, others>>

(* Mutant: the file is added without looking it up.                        *)
MonAddAlways ==
    LET i == FolderOf[mon.stat.name] IN
    /\ mon.pc = "add"
    /\ folder' = [folder EXCEPT ![i] = file_list_add(@, mon.stat)]
    /\ inotify' = Tail(inotify)
    /\ mon' = [mon EXCEPT !.left = @ - 1, !.stat = NoEntry,
                          !.pc = IF mon.left = 1 THEN "loop" ELSE "event"]
    /\ MonFrame /\ UNCHANGED <<disk, watched, mount_status, lost, others>>

(* file_list_check, then file_list_add: no other thread adds files now.    *)
MonAdd ==
    LET i == FolderOf[mon.stat.name] IN
    /\ mon.pc = "add"
    /\ folder' = [folder EXCEPT ![i] = IF file_list_check(@, mon.stat.name) THEN @
                                       ELSE file_list_add(@, mon.stat)]
    /\ inotify' = Tail(inotify)
    /\ mon' = [mon EXCEPT !.left = @ - 1, !.stat = NoEntry,
                          !.pc = IF mon.left = 1 THEN "loop" ELSE "event"]
    /\ MonFrame /\ UNCHANGED <<disk, watched, mount_status, lost, others>>

-----------------------------------------------------------------------------
(* rkipc_storage_dev_remove for the device of the recordings, and          *)
(* rkipc_storage_auto_delete_deinit.                                       *)

StopSet ==
    /\ "stop" \in Faults
    /\ stop = "idle"
    /\ mount_status' = "unmounted"
    /\ stop' = "give"
    /\ UNCHANGED <<disk, clock, folder, allocated, inotify, watched, signal, scan, mon, lost, others>>

(* Mutant: the scan thread is not woken.                                   *)
StopNoGive ==
    /\ stop = "give"
    /\ stop' = "join"
    /\ UNCHANGED <<disk, clock, folder, allocated, inotify, watched, mount_status, signal, scan,
                   mon, lost, others>>

StopGive ==
    /\ stop = "give"
    /\ signal' = IF signal = -1 THEN signal ELSE 1
    /\ stop' = "join"
    /\ UNCHANGED <<disk, clock, folder, allocated, inotify, watched, mount_status, scan, mon, lost, others>>

StopJoin ==
    /\ stop = "join"
    /\ scan.pc = "ended"
    /\ signal' = -1
    /\ stop' = "done"
    /\ UNCHANGED <<disk, clock, folder, allocated, inotify, watched, mount_status, scan, mon, lost, others>>

-----------------------------------------------------------------------------
Scan ==
    \/ ScanAlloc \/ ScanOpen \/ (\E f \in Files : ScanEntry(f)) \/ ScanReadEnd
    \/ ScanCheck \/ ScanMount \/ ScanSize0 \/ ScanSpawn \/ ScanSignal
    \/ ScanLoop \/ ScanWoken \/ ScanMeasure \/ ScanAgain \/ ScanPick \/ ScanPath \/ ScanName
    \/ ScanUnlist \/ ScanRemove \/ ScanSize \/ ScanSum \/ ScanOut

Monitor == MonWatch \/ MonRead \/ MonEnd \/ MonUnmount \/ MonDelete \/ MonLstat \/ MonAdd

Next == Environment \/ Scan \/ ScanTimeout \/ Monitor \/ StopSet \/ StopGive \/ StopJoin

Spec == Init /\ [][Next]_vars

(* The threads run.  The environment may stop at any time.                 *)
FairSpec ==
    /\ Spec
    /\ WF_vars(Scan)
    /\ WF_vars(Monitor)
    /\ WF_vars(StopGive \/ StopJoin)

(* As FairSpec, and the wait of the scan thread times out.                 *)
TimedSpec == FairSpec /\ WF_vars(ScanTimeout)

-----------------------------------------------------------------------------
(* Properties.                                                             *)

(* Every list stays sorted by time, with each file once, and its           *)
(* file_list_last, file_num and total_space agree with it, whatever the    *)
(* scan, the monitor and users do at the same time.                        *)
ListsConsistent == \A i \in Folders : Sorted(folder[i]) /\ UniqueNames(folder[i]) /\ Consistent(folder[i])

(* The scan thread reads file_list_last three times without the mutex,     *)
(* while users delete files and early writers leave files that the monitor *)
(* removes.  If the name it unlists is not that of the file it goes on to  *)
(* remove, that file is gone already: no file is deleted in place of the   *)
(* oldest one.  A file moved in with an older time would break this.       *)
ConsistentVictim ==
    scan.pc = "unlist" /\ scan.file # scan.filename => ~Exists(scan.file)

(* With every event processed and no deletion under way, every complete    *)
(* file on the card is listed, and every listed file is on the card.       *)
(* Exempt are the files known to be lost: changed between the reading of   *)
(* the folder and the watch, in a folder that could not be opened, beyond  *)
(* the limit of the reading, changed without an event, or unlisted in      *)
(* place of another file.                                                  *)
QuiescentMirror ==
    mon.pc = "loop" /\ watched /\ inotify = << >> /\ scan.pc # "remove" =>
        \A f \in Files \ lost :
            /\ disk[f].state = "closed" => file_list_check(folder[FolderOf[f]], f)
            /\ file_list_check(folder[FolderOf[f]], f) => Exists(f)

(* The pass by number tests a file_num it has read without the mutex       *)
(* before its last deletion.  It still goes below Limit - 1 files only by  *)
(* the files that others took from the folder in the meantime: without     *)
(* them, what it unlists would come from a list of at least Limit files.   *)
NumPassFloor ==
    scan.pc = "unlist" /\ scan.mode = "num" => folder[scan.i].file_num + others >= Limit[scan.i]

(* The monitor works on the folders only while they are allocated.         *)
MonitorInsideFolders == mon.pc \in {"watch", "event", "add"} => allocated

(* dev_remove and auto_delete_deinit return: the scan thread ends without  *)
(* its timeout, unless it overwrites the stop, or the whole process ends   *)
(* by a null pointer.                                                      *)
StopReturns ==
    stop = "join" /\ ~scan.overwrote ~> stop = "done" \/ scan.overwrote \/ scan.pc = "crash"

Running == mount_status = "mounted" /\ scan.pc \notin {"out", "ended", "crash"}

(* With num_limit_enable, a folder with more files than its limit gets     *)
(* back to it.                                                             *)
NumLimitEnforced ==
    \A i \in Folders :
        NumLimit /\ folder[i].file_num > Limit[i] ~> folder[i].file_num <= Limit[i] \/ ~Running

(* With num_limit_enable = 0: when free space is at or below               *)
(* free_size_del_min, files are deleted until it is not, or none is left   *)
(* to delete.  It is false with num_limit_enable = 1, contrary to the      *)
(* documentation (the limit by number is "prioritized over remaining       *)
(* space limit"): the code then sums no space and deletes nothing.  It     *)
(* also fails when writers start before the watches: a file listed while   *)
(* open keeps its size of 0 in the sum.                                    *)
SpaceReclaimed ==
    Running /\ ~NumLimit /\ Free <= free_size_del_min
        ~> Free > free_size_del_min \/ ~Running \/ \A i \in Folders : folder[i].list = << >>
=============================================================================
