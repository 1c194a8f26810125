------------------------- MODULE AutoDeleteCard_proofs -------------------------
(***************************************************************************)
(* What the lists say about the card, for any number of folders and files. *)
(*                                                                         *)
(* The first part is about the mirror, with every fault: once the events   *)
(* are handled the lists hold exactly the complete files of the card, but  *)
(* for the files whose changes no watch reports.                           *)
(*                                                                         *)
(* The second part is about the victim of a deletion: although the scan    *)
(* thread reads file_list_last three times without the mutex, it removes   *)
(* no file other than the one it unlists, unless that file is gone.        *)
(*                                                                         *)
(* The third part is about the number of files a pass leaves.              *)
(***************************************************************************)
EXTENDS AutoDelete_proofs

-----------------------------------------------------------------------------
(* The lists mirror the card, with every fault.                            *)

Listed(f) == file_list_check(folder[FolderOf[f]], f)

AddTypes == {"close_write", "moved_to"}
DelTypes == {"delete", "moved_from"}

(* An event of f of one of the types is in the queue.                      *)
Pending(f, types) ==
    \E k \in 1 .. Len(inotify) : inotify[k].file = f /\ inotify[k].type \in types

(* The scan is about to read f, or has unlisted it and is about to remove  *)
(* it.                                                                     *)
InHand(f) ==
    \/ scan.pc = "read" /\ f \in scan.todo
    \/ scan.pc = "remove" /\ scan.file = f

(* From the allocation of the folders to the end of the scan thread or of  *)
(* the monitor thread, whichever comes first.                              *)
Live ==
    /\ mon.pc # "ended"
    /\ mon.pc = "absent" => scan.pc \in BeforeSpawn \ {"ended"} /\ allocated

(* A complete file is listed, or will be: an event of it is pending, or    *)
(* the scan has it in hand.  A listed file is on the card, or the event of *)
(* its end is pending.                                                     *)
Mirrored(f) ==
    /\ disk[f].state = "closed" /\ Opened(f) => Listed(f) \/ Pending(f, AddTypes) \/ InHand(f)
    /\ Listed(f) => Opened(f) /\ (Exists(f) \/ Pending(f, DelTypes))

CardMirrored == Live => \A f \in Files \ lost : Mirrored(f)

(* Before the scan nothing is listed; a folder is read for its own files.  *)
StartInv ==
    /\ scan.pc = "alloc" => ~allocated /\ scan.i = 1 /\ \A f \in Files : ~Listed(f)
    /\ scan.pc = "read" => \A f \in scan.todo : FolderOf[f] = scan.i

(* The end of a file is reported only once it has ended.                   *)
TakenInv ==
    \A k \in 1 .. Len(inotify) :
        inotify[k].type \in DelTypes => disk[inotify[k].file].state \in {"unlinked", "gone"}

(* What the monitor is about to add is of the first event; if the file has *)
(* ended meanwhile, another event says so.                                 *)
StatInv ==
    mon.pc = "add" =>
        /\ inotify[1].type \in AddTypes
        /\ mon.stat.name = inotify[1].file
        /\ mon.stat.name \notin lost => Exists(mon.stat.name) \/ Pending(mon.stat.name, DelTypes)

(* Events come only while the monitor works; without the watches it works  *)
(* only after the card is unmounted.                                       *)
WatchedInv ==
    /\ mon.pc \notin {"loop", "event", "add"} => ~watched /\ inotify = << >>
    /\ mon.pc \in {"loop", "event", "add"} /\ ~watched => lost = Files
    /\ scan.pc \in BeforeSpawn \ {"ended"} => mon.pc = "absent"

MirrorInv == CardMirrored /\ StartInv /\ TakenInv /\ StatInv /\ WatchedInv

LEMMA InitMirror == Init => MirrorInv
<1> SUFFICES ASSUME Init PROVE MirrorInv
  OBVIOUS
<1>1. /\ scan.pc = "alloc" /\ scan.i = 1 /\ mon.pc = "absent" /\ watched = FALSE
      /\ inotify = << >> /\ allocated = FALSE
  BY DEF Init
<1>2. \A i \in Folders : folder[i].list = << >>
  BY DEF Init, EmptyFolder
<1>3. \A f \in Files : ~Listed(f)
  BY <1>2, Constants DEF Listed, file_list_check, Names
<1>4. Len(inotify) = 0
  BY <1>1
<1> QED BY <1>1, <1>3, <1>4 DEF MirrorInv, CardMirrored, Live, StartInv, TakenInv, StatInv, WatchedInv

LEMMA MirrorFacts ==
    ASSUME IInv, DataInv, MirrorInv
    PROVE  /\ inotify \in Seq(Event) /\ Len(inotify) \in Nat
           /\ \A k \in 1 .. Len(inotify) : inotify[k] \in Event
           /\ mon.pc \in {"event", "add"} => 1 \in 1 .. Len(inotify) /\ Head(inotify) = inotify[1]
           /\ mon.pc \in {"watch", "loop", "event", "add"} => Live /\ \A f \in Files : Opened(f)
           /\ \A f \in Files : disk[f] \in [state : FileState, time : Nat, space : Nat]
<1>1. inotify \in Seq(Event) /\ Len(inotify) \in Nat
  BY LenProperties DEF DataInv, CardInv
<1>2. mon.pc \in {"event", "add"} => 1 \in 1 .. Len(inotify) /\ Head(inotify) = inotify[1]
  BY <1>1, EventTail
<1>3. \A k \in 1 .. Len(inotify) : inotify[k] \in Event
  BY <1>1, ElementOfSeq
<1>4. mon.pc \in {"watch", "loop", "event", "add"} => Live /\ \A f \in Files : Opened(f)
  BY DEF IInv, SpawnInv, BeforeSpawn, Live, Opened
<1> QED BY <1>1, <1>2, <1>3, <1>4 DEF DataInv, CardInv

-----------------------------------------------------------------------------
(* How listing and events change.                                          *)

LEMMA ListedEntry ==
    ASSUME DataInv, NEW f \in Files
    PROVE  Listed(f) <=> \E e \in ToSet(folder[FolderOf[f]].list) : e.name = f
<1>1. FolderOf[f] \in Folders
  BY Constants
<1>2. folder[FolderOf[f]].list \in Seq(EntryOf(Files))
  BY <1>1 DEF DataInv, FoldersInv, GoodList
<1> QED BY <1>2, NamesOfList DEF Listed, file_list_check

LEMMA ListedDel ==
    ASSUME DataInv, DataInv', NEW i \in Folders, NEW name,
           folder' = [folder EXCEPT ![i] = file_list_del(@, name)], NEW f \in Files
    PROVE  /\ Listed(f)' => Listed(f)
           /\ Listed(f) /\ f # name => Listed(f)'
           /\ FolderOf[f] = i /\ f = name => ~Listed(f)'
<1>1. /\ \A j \in Folders \ {i} : folder'[j] = folder[j]
      /\ ToSet(folder'[i].list) = {e \in ToSet(folder[i].list) : e.name # name}
  BY DelFolder DEF DataInv
<1>2. FolderOf[f] \in Folders
  BY Constants
<1>3. Listed(f) <=> \E e \in ToSet(folder[FolderOf[f]].list) : e.name = f
  BY ListedEntry
<1>4. Listed(f)' <=> \E e \in ToSet(folder'[FolderOf[f]].list) : e.name = f
  <2>1. FolderOf[f] \in Folders /\ folder'[FolderOf[f]].list \in Seq(EntryOf(Files))
    BY <1>2 DEF DataInv, FoldersInv, GoodList
  <2> QED BY <2>1, NamesOfList DEF Listed, file_list_check
<1> QED BY <1>1, <1>2, <1>3, <1>4

LEMMA ListedAdd ==
    ASSUME DataInv, DataInv', NEW i \in Folders, NEW e \in EntryOf(Files), FolderOf[e.name] = i,
           ~file_list_check(folder[i], e.name),
           folder' = [folder EXCEPT ![i] = file_list_add(@, e)], NEW f \in Files
    PROVE  Listed(f)' <=> Listed(f) \/ f = e.name
<1>1. /\ \A j \in Folders \ {i} : folder'[j] = folder[j]
      /\ ToSet(folder'[i].list) = ToSet(folder[i].list) \cup {e}
  BY AddFolder DEF DataInv
<1>2. FolderOf[f] \in Folders
  BY Constants
<1>3. Listed(f) <=> \E x \in ToSet(folder[FolderOf[f]].list) : x.name = f
  BY ListedEntry
<1>4. Listed(f)' <=> \E x \in ToSet(folder'[FolderOf[f]].list) : x.name = f
  <2>1. FolderOf[f] \in Folders /\ folder'[FolderOf[f]].list \in Seq(EntryOf(Files))
    BY <1>2 DEF DataInv, FoldersInv, GoodList
  <2> QED BY <2>1, NamesOfList DEF Listed, file_list_check
<1> QED BY <1>1, <1>2, <1>3, <1>4

(* The events from number k on stay in the queue.                          *)
Keeps(k) ==
    \A j \in k .. Len(inotify) : \E l \in 1 .. Len(inotify') : inotify'[l] = inotify[j]

(* All events in the queue were there before, or are x.                    *)
OnlyNew(x) ==
    \A l \in 1 .. Len(inotify') :
        inotify'[l] = x \/ \E j \in 1 .. Len(inotify) : inotify'[l] = inotify[j]

LEMMA PendingKept ==
    ASSUME Keeps(1), NEW f, NEW types, Pending(f, types)
    PROVE  Pending(f, types)'
BY DEF Keeps, Pending

LEMMA PendingTail ==
    ASSUME Len(inotify) \in Nat, Keeps(2), NEW f, NEW types, Pending(f, types),
           ~(inotify[1].file = f /\ inotify[1].type \in types)
    PROVE  Pending(f, types)'
<1>1. PICK k \in 1 .. Len(inotify) : inotify[k].file = f /\ inotify[k].type \in types
  BY DEF Pending
<1>2. k \in 2 .. Len(inotify)
  BY <1>1
<1> QED BY <1>1, <1>2 DEF Keeps, Pending

LEMMA QueueAppend ==
    ASSUME DataInv, NEW x \in Event, inotify' = Append(inotify, x)
    PROVE  /\ Keeps(1) /\ OnlyNew(x)
           /\ 1 \in 1 .. Len(inotify) => inotify'[1] = inotify[1]
           /\ \A types : x.type \in types => Pending(x.file, types)'
<1> PICK n : n = Len(inotify)
  OBVIOUS
<1>1. /\ n \in Nat /\ Len(inotify') = n + 1
      /\ \A k \in 1 .. n : inotify'[k] = inotify[k]
      /\ inotify'[n + 1] = x
  BY AppendProperties, LenProperties DEF DataInv, CardInv
<1>2. \A k \in 1 .. n : k \in 1 .. Len(inotify')
  BY <1>1
<1>3. n + 1 \in 1 .. Len(inotify') /\ \A k \in 1 .. Len(inotify') : k \in 1 .. n \/ k = n + 1
  BY <1>1
<1>4. Keeps(1)
  BY <1>1, <1>2 DEF Keeps
<1>5. OnlyNew(x)
  BY <1>1, <1>3 DEF OnlyNew
<1>6. \A types : x.type \in types => Pending(x.file, types)'
  BY <1>1, <1>3 DEF Pending
<1> QED BY <1>1, <1>4, <1>5, <1>6

LEMMA QueueTail ==
    ASSUME DataInv, mon.pc \in {"event", "add"}, inotify' = Tail(inotify)
    PROVE  Keeps(2) /\ \A x : OnlyNew(x)
<1> PICK n : n = Len(inotify)
  OBVIOUS
<1>1. n \in Nat \ {0} /\ Len(inotify') = n - 1 /\ \A k \in 1 .. n - 1 : inotify'[k] = inotify[k + 1]
  BY EventTail
<1>2. \A j \in 2 .. n : j - 1 \in 1 .. n - 1 /\ inotify'[j - 1] = inotify[j]
  BY <1>1
<1>3. \A k \in 1 .. n - 1 : k + 1 \in 1 .. n
  BY <1>1
<1> QED BY <1>1, <1>2, <1>3 DEF Keeps, OnlyNew

(* What is left, and an event behind it.                                   *)
LEMMA QueueTailAppend ==
    ASSUME DataInv, mon.pc \in {"event", "add"}, NEW x \in Event, inotify' = Append(Tail(inotify), x)
    PROVE  /\ Keeps(2) /\ OnlyNew(x)
           /\ \A types : x.type \in types => Pending(x.file, types)'
<1> PICK n, t : n = Len(inotify) /\ t = Tail(inotify)
  OBVIOUS
<1>1. /\ n \in Nat \ {0} /\ t \in Seq(Event) /\ Len(t) = n - 1
      /\ \A k \in 1 .. n - 1 : t[k] = inotify[k + 1]
  BY EventTail
<1>2. /\ Len(inotify') = n
      /\ \A k \in 1 .. n - 1 : inotify'[k] = inotify[k + 1] /\ k + 1 \in 1 .. n
      /\ inotify'[n] = x
  <2>1. /\ Len(inotify') = (n - 1) + 1 /\ inotify'[(n - 1) + 1] = x
        /\ \A k \in 1 .. n - 1 : inotify'[k] = t[k]
    BY <1>1, AppendProperties
  <2> QED BY <1>1, <2>1
<1>3. \A j \in 2 .. n : j - 1 \in 1 .. n - 1 /\ j - 1 \in 1 .. n /\ (j - 1) + 1 = j
  BY <1>1
<1>4. n \in 1 .. n /\ \A k \in 1 .. n : k \in 1 .. n - 1 \/ k = n
  BY <1>1
<1>5. Keeps(2)
  <2>1. \A j \in 2 .. n : inotify'[j - 1] = inotify[j]
    BY <1>2, <1>3
  <2> QED BY <1>2, <1>3, <2>1 DEF Keeps
<1>6. OnlyNew(x)
  BY <1>2, <1>4 DEF OnlyNew
<1>7. \A types : x.type \in types => Pending(x.file, types)'
  BY <1>2, <1>4 DEF Pending
<1> QED BY <1>5, <1>6, <1>7

-----------------------------------------------------------------------------
(* A change of file f on the card.                                         *)

(* The state of a file of which an event of its end is pending.            *)
LEMMA TakenKept ==
    ASSUME TakenInv, NEW x, OnlyNew(x),
           \A g \in Files : disk[g].state \in {"unlinked", "gone"} => disk'[g].state \in {"unlinked", "gone"},
           \A k \in 1 .. Len(inotify) : inotify[k].type \in DelTypes => inotify[k].file \in Files,
           x.type \in DelTypes => disk'[x.file].state \in {"unlinked", "gone"}
    PROVE  TakenInv'
BY DEF TakenInv, OnlyNew

LEMMA EventFiles ==
    ASSUME DataInv
    PROVE  \A k \in 1 .. Len(inotify) : inotify[k].type \in DelTypes \cup AddTypes => inotify[k].file \in Files
<1>1. \A k \in 1 .. Len(inotify) : inotify[k] \in Event
  BY ElementOfSeq DEF DataInv, CardInv
<1> QED BY <1>1 DEF Event, DelTypes, AddTypes

(* What a step does that changes f and, if f is watched, reports it with   *)
(* an event of this type.                                                  *)
Changes(f, type) ==
    /\ UNCHANGED <<folder, allocated, watched, mon>>
    /\ Notify(type, f)
    /\ \A g \in Files \ {f} : disk'[g] = disk[g]
    /\ disk[f].state \in {"unlinked", "gone"} => disk'[f].state \in {"unlinked", "gone"}
    /\ disk'[f].state = "closed" => type \in AddTypes
    /\ Exists(f) /\ ~Exists(f)' => type \in DelTypes
    /\ type \in DelTypes => disk'[f].state \in {"unlinked", "gone"}

LEMMA ChangeMirror ==
    ASSUME IInv, DataInv, MirrorInv, NEW f \in Files,
           NEW type \in {"close_write", "moved_to", "delete", "moved_from"}, Changes(f, type),
           \A g \in Files : Opened(g)' <=> Opened(g),
           \A g \in Files \ {f} : InHand(g) => InHand(g)',
           Live' => Live, StartInv',
           scan'.pc \in BeforeSpawn \ {"ended"} => scan.pc \in BeforeSpawn \ {"ended"}
    PROVE  MirrorInv'
<1> PICK x : x = [type |-> type, file |-> f]
  OBVIOUS
<1>1. x \in Event /\ x.type = type /\ x.file = f
  BY DEF Event
<1>2. /\ UNCHANGED <<folder, allocated, watched, mon>> /\ Notify(type, f)
      /\ \A g \in Files \ {f} : disk'[g] = disk[g]
  BY DEF Changes
<1> PICK reported \in BOOLEAN : reported <=> watched /\ inotify' = Append(inotify, x)
  OBVIOUS
<1>4. /\ lost \subseteq lost'
      /\ ~reported => inotify' = inotify /\ (Opened(f) => f \in lost')
  BY <1>1, <1>2 DEF Notify
<1>3. /\ Keeps(1) /\ OnlyNew(x)
      /\ 1 \in 1 .. Len(inotify) => inotify'[1] = inotify[1]
  <2>1. CASE reported
    BY <1>1, <1>2, <2>1, QueueAppend
  <2>2. CASE ~reported
    BY <1>4, <2>2 DEF Keeps, OnlyNew
  <2> QED BY <2>1, <2>2
<1>5. reported => \A types : type \in types => Pending(f, types)'
  BY <1>1, QueueAppend
<1>6. \A g \in Files : Listed(g)' <=> Listed(g)
  BY <1>2 DEF Listed
<1>7. CardMirrored'
  <2> SUFFICES ASSUME Live', NEW g \in Files, g \notin lost'
               PROVE  Mirrored(g)'
    BY DEF CardMirrored
  <2>1. Live /\ g \notin lost /\ Mirrored(g) /\ (Opened(g)' <=> Opened(g))
    BY <1>4 DEF MirrorInv, CardMirrored
  <2>2. \A types : Pending(g, types) => Pending(g, types)'
    BY <1>3, PendingKept
  <2>3. CASE g # f
    <3>1. disk'[g] = disk[g] /\ (InHand(g) => InHand(g)') /\ (Exists(g)' <=> Exists(g))
      BY <1>2, <2>3 DEF Exists
    <3> QED BY <1>6, <2>1, <2>2, <3>1 DEF Mirrored
  <2>4. CASE g = f
    <3>1. disk'[f].state = "closed" /\ Opened(f) => Pending(f, AddTypes)'
      BY <1>4, <1>5, <2>1, <2>4 DEF Changes
    <3>2. Listed(f) => Exists(f)' \/ Pending(f, DelTypes)'
      <4>1. CASE Exists(f) /\ ~Exists(f)' /\ Listed(f)
        <5>1. reported /\ type \in DelTypes
          BY <1>4, <2>1, <2>4, <4>1 DEF Changes, Mirrored
        <5> QED BY <1>5, <5>1
      <4>2. CASE ~(Exists(f) /\ ~Exists(f)') /\ Listed(f)
        BY <2>1, <2>2, <2>4, <4>2 DEF Mirrored
      <4> QED BY <4>1, <4>2
    <3> QED BY <1>6, <2>1, <2>4, <3>1, <3>2 DEF Mirrored
  <2> QED BY <2>3, <2>4
<1>8. TakenInv'
  <2>1. \A g \in Files : disk[g].state \in {"unlinked", "gone"} => disk'[g].state \in {"unlinked", "gone"}
    BY <1>2 DEF Changes
  <2>2. x.type \in DelTypes => disk'[x.file].state \in {"unlinked", "gone"}
    BY <1>1 DEF Changes
  <2> QED BY <1>3, <2>1, <2>2, TakenKept, EventFiles DEF MirrorInv
<1>9. StatInv'
  <2> PICK g : g = mon.stat.name
    OBVIOUS
  <2> SUFFICES ASSUME mon.pc = "add"
               PROVE  /\ inotify'[1].type \in AddTypes
                      /\ g = inotify'[1].file
                      /\ g \notin lost' => Exists(g)' \/ Pending(g, DelTypes)'
    BY <1>2 DEF StatInv
  <2>1. inotify'[1] = inotify[1] /\ Opened(f)
    BY <1>3, MirrorFacts
  <2>2. /\ inotify[1].type \in AddTypes /\ g = inotify[1].file
        /\ g \notin lost => Exists(g) \/ Pending(g, DelTypes)
    BY DEF MirrorInv, StatInv
  <2>3. ASSUME g \notin lost'
        PROVE  Exists(g)' \/ Pending(g, DelTypes)'
    <3>1. CASE Pending(g, DelTypes)
      BY <1>3, <3>1, PendingKept
    <3>2. CASE Exists(g)
      <4>1. CASE g # f
        <5>1. g \in Files
          BY <2>2, MirrorFacts, EventFiles
        <5>2. disk'[g] = disk[g]
          BY <1>2, <4>1, <5>1
        <5> QED BY <3>2, <5>2 DEF Exists
      <4>2. CASE g = f
        <5>1. reported
          BY <1>4, <2>1, <2>3, <4>2
        <5>2. ~Exists(f)' => type \in DelTypes
          BY <3>2, <4>2 DEF Changes
        <5> QED BY <1>5, <4>2, <5>1, <5>2
      <4> QED BY <4>1, <4>2
    <3> QED BY <1>4, <2>2, <2>3, <3>1, <3>2
  <2> QED BY <2>1, <2>2, <2>3
<1>10. WatchedInv'
  <2>1. lost' \subseteq Files
    BY <1>2 DEF Notify, DataInv, CardInv
  <2>2. ~watched => inotify' = inotify
    BY <1>2 DEF Notify
  <2> QED BY <1>2, <1>4, <2>1, <2>2 DEF MirrorInv, WatchedInv
<1> QED BY <1>7, <1>8, <1>9, <1>10 DEF MirrorInv

(* A step of the environment does not move the threads.                    *)
LEMMA OutsideMirror ==
    ASSUME IInv, DataInv, MirrorInv, NEW f \in Files,
           NEW type \in {"close_write", "moved_to", "delete", "moved_from"}, Changes(f, type),
           scan' = scan
    PROVE  MirrorInv'
<1>1. UNCHANGED <<folder, allocated, watched, mon>>
  BY DEF Changes
<1>2. \A g \in Files : Opened(g)' <=> Opened(g)
  BY DEF Opened
<1>3. \A g \in Files \ {f} : InHand(g) => InHand(g)'
  BY DEF InHand
<1>4. Live' => Live
  BY <1>1 DEF Live
<1>5. StartInv'
  BY <1>1 DEF MirrorInv, StartInv, Listed
<1> QED BY <1>2, <1>3, <1>4, <1>5, ChangeMirror

LEMMA CreateMirror ==
    ASSUME IInv, DataInv, MirrorInv, NEW f \in Files, Create(f)
    PROVE  MirrorInv'
<1>1. UNCHANGED <<clock, folder, allocated, inotify, watched, scan, mon, lost>> /\ disk[f].state = "none"
  BY DEF Create
<1>2. disk'[f].state = "open" /\ \A g \in Files \ {f} : disk'[g] = disk[g]
  BY DEF Create, DataInv, CardInv
<1>3. CardMirrored'
  <2> SUFFICES ASSUME Live', NEW g \in Files, g \notin lost'
               PROVE  Mirrored(g)'
    BY DEF CardMirrored
  <2>1. Mirrored(g)
    BY <1>1 DEF MirrorInv, CardMirrored, Live
  <2>2. /\ Opened(g)' <=> Opened(g)
        /\ Listed(g)' <=> Listed(g)
        /\ InHand(g)' <=> InHand(g)
        /\ \A types : Pending(g, types)' <=> Pending(g, types)
    BY <1>1 DEF Opened, Listed, InHand, Pending
  <2>3. disk'[g].state = "closed" => disk[g].state = "closed"
    BY <1>2
  <2>4. Exists(g) => Exists(g)'
    BY <1>2 DEF Exists
  <2> QED BY <2>1, <2>2, <2>3, <2>4 DEF Mirrored
<1>4. TakenInv'
  <2>1. \A k \in 1 .. Len(inotify) : inotify[k].type \in DelTypes =>
          inotify[k].file \in Files /\ disk[inotify[k].file].state \in {"unlinked", "gone"}
    BY EventFiles DEF MirrorInv, TakenInv
  <2>2. \A g \in Files : disk[g].state \in {"unlinked", "gone"} => disk'[g] = disk[g]
    BY <1>1, <1>2
  <2> QED BY <1>1, <2>1, <2>2 DEF TakenInv
<1>5. StatInv'
  <2>1. mon.pc = "add" => mon.stat.name \in Files
    BY DEF DataInv, MonInv, EntryOf
  <2>2. \A g \in Files : Exists(g) => Exists(g)'
    BY <1>2 DEF Exists
  <2>3. \A g : Pending(g, DelTypes)' <=> Pending(g, DelTypes)
    BY <1>1 DEF Pending
  <2> QED BY <1>1, <2>1, <2>2, <2>3 DEF MirrorInv, StatInv
<1>6. StartInv' /\ WatchedInv'
  BY <1>1 DEF MirrorInv, StartInv, Listed, WatchedInv
<1> QED BY <1>3, <1>4, <1>5, <1>6 DEF MirrorInv

LEMMA UmountMirror ==
    ASSUME IInv, DataInv, MirrorInv, Umount
    PROVE  MirrorInv'
<1> PICK x : x = [type |-> "unmount", file |-> NoFile]
  OBVIOUS
<1>1. /\ UNCHANGED <<folder, allocated, scan, mon>> /\ watched /\ watched' = FALSE /\ lost' = Files
      /\ inotify' = Append(inotify, x) \/ inotify' = inotify
      /\ x \in Event
      /\ disk' = [f \in Files |-> IF disk[f].state = "none" THEN disk[f]
                                  ELSE [state |-> "gone", time |-> 0, space |-> 0]]
  BY DEF Umount, Event
<1>2. Keeps(1) /\ OnlyNew(x) /\ (1 \in 1 .. Len(inotify) => inotify'[1] = inotify[1])
  <2>1. CASE inotify' = Append(inotify, x)
    BY <1>1, <2>1, QueueAppend
  <2>2. CASE inotify' = inotify
    BY <2>2 DEF Keeps, OnlyNew
  <2> QED BY <1>1, <2>1, <2>2
<1>3. CardMirrored'
  BY <1>1 DEF CardMirrored
<1>4. TakenInv'
  <2>1. \A g \in Files : disk[g].state \in {"unlinked", "gone"} => disk'[g].state \in {"unlinked", "gone"}
    BY <1>1
  <2>2. x.type \notin DelTypes
    BY DEF DelTypes
  <2> QED BY <1>2, <2>1, <2>2, TakenKept, EventFiles DEF MirrorInv
<1>5. StatInv'
  <2>1. mon.pc = "add" => mon.stat.name \in Files
    BY DEF DataInv, MonInv, EntryOf
  <2> QED BY <1>1, <1>2, <2>1, MirrorFacts DEF MirrorInv, StatInv
<1>6. StartInv'
  BY <1>1 DEF MirrorInv, StartInv, Listed
<1>7. WatchedInv'
  BY <1>1 DEF MirrorInv, WatchedInv
<1> QED BY <1>3, <1>4, <1>5, <1>6, <1>7 DEF MirrorInv

LEMMA EnvironmentMirror ==
    ASSUME IInv, DataInv, MirrorInv, Environment
    PROVE  MirrorInv'
<1> USE DEF AddTypes, DelTypes
<1>1. ASSUME NEW f \in Files, Close(f)
      PROVE  MirrorInv'
  <2> PICK type : type = "close_write"
    OBVIOUS
  <2>1. PICK s : \/ /\ disk[f].state = "open"
                    /\ disk' = [disk EXCEPT ![f] = [state |-> "closed", time |-> clock, space |-> s]]
                 \/ /\ disk[f].state = "unlinked"
                    /\ disk' = [disk EXCEPT ![f] = [state |-> "gone", time |-> 0, space |-> 0]]
    BY <1>1 DEF Close
  <2>2. Changes(f, type) /\ scan' = scan
    BY <1>1, <2>1 DEF Close, Changes, Exists, DataInv, CardInv
  <2> QED BY <2>2, OutsideMirror
<1>2. ASSUME NEW f \in Files, UserDelete(f) \/ UserMoveFrom(f)
      PROVE  MirrorInv'
  <2>1. PICK type \in {"delete", "moved_from"} : Notify(type, f)
    BY <1>2 DEF UserDelete, UserMoveFrom
  <2>2. /\ UNCHANGED <<folder, allocated, watched, mon, scan>> /\ Exists(f)
        /\ disk' = [disk EXCEPT ![f] = Removed(f)]
    BY <1>2 DEF UserDelete, UserMoveFrom, Exists
  <2>3. disk'[f].state \in {"unlinked", "gone"} /\ \A g \in Files \ {f} : disk'[g] = disk[g]
    BY <2>2 DEF Removed, DataInv, CardInv
  <2>4. Changes(f, type)
    BY <2>1, <2>2, <2>3 DEF Changes, Exists
  <2> QED BY <2>2, <2>4, OutsideMirror
<1>3. ASSUME NEW f \in Files, UserMoveTo(f)
      PROVE  MirrorInv'
  <2> PICK type : type = "moved_to"
    OBVIOUS
  <2>1. PICK t : disk' = [disk EXCEPT ![f] = [state |-> "closed", time |-> t, space |-> FileSize[f]]]
    BY <1>3 DEF UserMoveTo
  <2>2. Changes(f, type) /\ scan' = scan
    BY <1>3, <2>1 DEF UserMoveTo, Changes, Exists, DataInv, CardInv
  <2> QED BY <2>2, OutsideMirror
<1> QED BY <1>1, <1>2, <1>3, CreateMirror, UmountMirror DEF Environment

-----------------------------------------------------------------------------
(* The scan thread.                                                        *)

(* A step that leaves the card and the events alone.                       *)
LEMMA CardStill ==
    ASSUME IInv, DataInv, MirrorInv, UNCHANGED <<disk, inotify, watched>>, lost \subseteq lost',
           lost' \subseteq Files, mon' = mon, StartInv',
           scan'.pc \in BeforeSpawn \ {"ended"} => scan.pc \in BeforeSpawn \ {"ended"}
    PROVE  TakenInv' /\ StatInv' /\ WatchedInv'
<1>1. TakenInv'
  BY DEF MirrorInv, TakenInv
<1>2. WatchedInv'
  BY DEF MirrorInv, WatchedInv
<1>3. \A g : (Pending(g, DelTypes)' <=> Pending(g, DelTypes)) /\ (Exists(g)' <=> Exists(g))
  BY DEF Pending, Exists
<1> PICK g : g = mon.stat.name
  OBVIOUS
<1>4. mon.pc = "add" => /\ inotify'[1].type \in AddTypes
                        /\ g = inotify'[1].file
                        /\ g \notin lost' => Exists(g)' \/ Pending(g, DelTypes)'
  BY <1>3 DEF MirrorInv, StatInv
<1>5. StatInv'
  BY <1>4 DEF StatInv
<1> QED BY <1>1, <1>2, <1>5

(* A step within the loop, which has neither a folder to read nor a file   *)
(* to remove in hand.                                                      *)
LEMMA LoopMirror ==
    ASSUME IInv, DataInv, MirrorInv, UNCHANGED <<disk, folder, allocated, inotify, watched, mon, lost>>,
           scan.pc \notin {"alloc", "open", "read", "remove"},
           scan'.pc \notin {"alloc", "open", "read", "remove"},
           scan'.pc \in BeforeSpawn \ {"ended"} => scan.pc \in BeforeSpawn \ {"ended"}
    PROVE  MirrorInv'
<1>1. StartInv'
  BY DEF StartInv
<1>2. TakenInv' /\ StatInv' /\ WatchedInv'
  BY <1>1, CardStill DEF DataInv, CardInv
<1>3. CardMirrored'
  <2> SUFFICES ASSUME Live', NEW g \in Files, g \notin lost'
               PROVE  Mirrored(g)'
    BY DEF CardMirrored
  <2>1. Mirrored(g)
    BY DEF Live, MirrorInv, CardMirrored
  <2>2. Opened(g) /\ Opened(g)' /\ ~InHand(g)
    BY DEF Opened, InHand
  <2>3. /\ Listed(g)' <=> Listed(g)
        /\ Exists(g)' <=> Exists(g)
        /\ \A types : Pending(g, types)' <=> Pending(g, types)
    BY DEF Listed, Exists, Pending
  <2> QED BY <2>1, <2>2, <2>3 DEF Mirrored
<1> QED BY <1>1, <1>2, <1>3 DEF MirrorInv

LEMMA ScanLoopMirror ==
    ASSUME IInv, DataInv, MirrorInv,
           \/ ScanCheck \/ ScanMount \/ ScanSize0
           \/ ScanSignal \/ ScanLoop \/ ScanWoken \/ ScanTimeout \/ ScanMeasure \/ ScanAgain
           \/ ScanPick \/ ScanPath \/ ScanName \/ ScanSize \/ ScanSum
    PROVE  MirrorInv'
<1> USE DEF ScanFrame, ScanLocal
<1>0. Records
  BY DEF IInv
<1>1. UNCHANGED <<disk, folder, allocated, inotify, watched, mon, lost>>
  BY DEF ScanCheck, ScanMount, ScanSize0, ScanSignal, ScanLoop, ScanWoken, ScanTimeout, ScanMeasure,
     ScanAgain, ScanPick, ScanPath, ScanName, ScanSize, ScanSum
<1>2. /\ scan.pc \in {"check", "mount", "size0"} /\ scan'.pc \in {"out", "mount", "size0", "spawn", "ended"}
      \/ /\ scan.pc \in {"signal", "loop", "wait", "measure", "again", "pick", "path", "name", "size", "sum"}
         /\ scan'.pc \in {"loop", "wait", "out", "measure", "again", "pick", "path", "name", "unlist",
                          "size", "sum", "crash"}
  <2> USE <1>0 DEF Records, ScanFields
  <2>1. CASE ScanCheck \/ ScanMount \/ ScanSize0
    BY <2>1 DEF ScanCheck, ScanMount, ScanSize0
  <2>2. CASE ScanSignal \/ ScanLoop
    BY <2>2 DEF ScanSignal, ScanLoop
  <2>3. CASE ScanWoken \/ ScanTimeout
    <3>1. scan'.pc \in {"out", "measure", "size"}
      BY <2>3 DEF ScanWoken, ScanTimeout, Awake
    <3> QED BY <2>3, <3>1 DEF ScanWoken, ScanTimeout
  <2>4. CASE ScanSize
    BY <2>4 DEF ScanSize
  <2>5. CASE ScanSum
    <3>1. scan'.pc \in {"sum", "loop", "measure"}
      BY <2>5 DEF ScanSum
    <3> QED BY <2>5, <3>1 DEF ScanSum
  <2>6. CASE ScanMeasure \/ ScanPick
    <3>1. NextFolder.pc \in {"measure", "size", "loop"}
      BY NextFolderRecord
    <3> QED BY <2>6, <3>1 DEF ScanMeasure, ScanPick
  <2>7. CASE ScanAgain \/ ScanPath \/ ScanName
    BY <2>7 DEF ScanAgain, ScanPath, ScanName
  <2> QED BY <2>1, <2>2, <2>3, <2>4, <2>5, <2>6, <2>7
<1>3. /\ scan.pc \notin {"alloc", "open", "read", "remove"}
      /\ scan'.pc \notin {"alloc", "open", "read", "remove"}
      /\ scan'.pc \in BeforeSpawn \ {"ended"} => scan.pc \in BeforeSpawn \ {"ended"}
  BY <1>2 DEF BeforeSpawn
<1> QED BY <1>1, <1>3, LoopMirror

LEMMA ScanAllocMirror ==
    ASSUME IInv, DataInv, MirrorInv, ScanAlloc
    PROVE  MirrorInv'
<1>1. /\ UNCHANGED <<disk, folder, inotify, watched, mon, lost>> /\ scan.pc = "alloc" /\ scan'.i = scan.i
      /\ \/ scan'.pc = "open"
         \/ scan'.pc = "check" /\ allocated' = allocated /\ mount_status = "unmounted"
  BY DEF ScanAlloc, ScanFrame, IInv, Records, ScanFields
<1>2. ~allocated /\ scan.i = 1 /\ \A f \in Files : ~Listed(f)
  BY <1>1 DEF MirrorInv, StartInv
<1>3. StartInv'
  BY <1>1 DEF StartInv
<1>4. TakenInv' /\ StatInv' /\ WatchedInv'
  BY <1>1, <1>3, CardStill DEF DataInv, CardInv, BeforeSpawn
<1>5. CardMirrored'
  <2> SUFFICES ASSUME Live', NEW g \in Files, g \notin lost'
               PROVE  Mirrored(g)'
    BY DEF CardMirrored
  <2>1. ~Listed(g)'
    BY <1>1, <1>2 DEF Listed
  <2>2. CASE scan'.pc = "open"
    <3>1. ~Opened(g)'
      <4>1. ~(FolderOf[g] < 1)
        BY Constants DEF Folders
      <4> QED BY <1>1, <1>2, <2>2, <4>1 DEF Opened
    <3> QED BY <2>1, <3>1 DEF Mirrored
  <2>3. CASE scan'.pc = "check"
    <3>1. mon'.pc = "absent" /\ ~allocated'
      BY <1>1, <1>2, <2>3 DEF MirrorInv, WatchedInv, BeforeSpawn
    <3> QED BY <3>1 DEF Live
  <2> QED BY <1>1, <2>2, <2>3
<1> QED BY <1>3, <1>4, <1>5 DEF MirrorInv

(* A folder that cannot be opened: what is in it is lost.                  *)
LEMMA ScanSkipMirror ==
    ASSUME IInv, DataInv, DataInv', MirrorInv, scan.pc = "open", scan' = NextRead,
           UNCHANGED <<disk, folder, allocated, inotify, watched, mon>>,
           lost' = lost \cup {f \in Files : FolderOf[f] = scan.i /\ disk[f].state = "closed"}
    PROVE  MirrorInv'
<1> PICK i : i = scan.i
  OBVIOUS
<1>1. i \in Folders
  BY DEF DataInv, ScanInv
<1>2. \/ i = FolderNum /\ scan'.pc = "check"
      \/ i # FolderNum /\ scan'.pc = "open" /\ scan'.i = i + 1
  BY DEF NextRead, IInv, Records, ScanFields
<1>3. StartInv'
  BY <1>2 DEF StartInv
<1>4. TakenInv' /\ StatInv' /\ WatchedInv'
  <2>1. lost' \subseteq Files /\ lost \subseteq lost'
    BY DEF DataInv, CardInv
  <2> QED BY <1>3, <2>1, CardStill DEF BeforeSpawn
<1>5. CardMirrored'
  <2> SUFFICES ASSUME Live', NEW g \in Files, g \notin lost'
               PROVE  Mirrored(g)'
    BY DEF CardMirrored
  <2>1. Mirrored(g)
    BY DEF Live, BeforeSpawn, MirrorInv, CardMirrored, WatchedInv
  <2>2. /\ Listed(g)' <=> Listed(g)
        /\ Exists(g)' <=> Exists(g)
        /\ \A types : Pending(g, types)' <=> Pending(g, types)
        /\ ~InHand(g) /\ disk'[g] = disk[g]
    BY DEF Listed, Exists, Pending, InHand
  <2>3. Opened(g) <=> FolderOf[g] < i
    BY DEF Opened
  <2>4. FolderOf[g] \in 1 .. FolderNum /\ i \in 1 .. FolderNum /\ FolderNum \in Nat
    BY <1>1, Constants DEF Folders
  <2>5. (Opened(g) => Opened(g)') /\ (Opened(g)' => Opened(g) \/ FolderOf[g] = i)
    <3>1. CASE scan'.pc = "check"
      BY <1>2, <2>3, <2>4, <3>1 DEF Opened
    <3>2. CASE scan'.pc = "open"
      BY <1>2, <2>3, <2>4, <3>2 DEF Opened
    <3> QED BY <1>2, <3>1, <3>2
  <2>6. FolderOf[g] = i => disk[g].state # "closed"
    OBVIOUS
  <2> QED BY <2>1, <2>2, <2>5, <2>6 DEF Mirrored
<1> QED BY <1>3, <1>4, <1>5 DEF MirrorInv

LEMMA ScanOpenMirror ==
    ASSUME IInv, DataInv, DataInv', MirrorInv, ScanOpen
    PROVE  MirrorInv'
<1> DEFINE Skipped ==
      scan' = NextRead /\ lost' = lost \cup {f \in Files : FolderOf[f] = scan.i /\ disk[f].state = "closed"}
<1>0. CASE Skipped
  BY <1>0, ScanSkipMirror DEF ScanOpen, ScanFrame
<1> SUFFICES ASSUME ~Skipped PROVE MirrorInv'
  BY <1>0
<1> PICK i : i = scan.i
  OBVIOUS
<1>1. /\ UNCHANGED <<disk, folder, allocated, inotify, watched, mon, lost>> /\ scan.pc = "open"
      /\ \/ /\ scan'.pc = "read" /\ scan'.i = i
            /\ scan'.todo = {f \in Files : FolderOf[f] = i /\ Exists(f)}
         \/ scan'.pc = "out"
  <2> PICK todo : todo = {f \in Files : FolderOf[f] = scan.i /\ Exists(f)}
    OBVIOUS
  <2>1. \/ scan' = [scan EXCEPT !.pc = "read", !.todo = todo]
        \/ scan' = [scan EXCEPT !.pc = "out"]
    BY DEF ScanOpen
  <2>2. (scan'.pc = "read" /\ scan'.i = i /\ scan'.todo = todo) \/ scan'.pc = "out"
    BY <2>1 DEF IInv, Records, ScanFields
  <2> QED BY <2>2 DEF ScanOpen, ScanFrame
<1>2. StartInv'
  BY <1>1 DEF StartInv
<1>3. TakenInv' /\ StatInv' /\ WatchedInv'
  BY <1>1, <1>2, CardStill DEF DataInv, CardInv, BeforeSpawn
<1>4. CardMirrored'
  <2> SUFFICES ASSUME Live', NEW g \in Files, g \notin lost'
               PROVE  Mirrored(g)'
    BY DEF CardMirrored
  <2>1. mon.pc = "absent"
    BY <1>1 DEF MirrorInv, WatchedInv, BeforeSpawn
  <2>2. scan'.pc = "read"
    BY <1>1, <2>1 DEF Live, BeforeSpawn
  <2>3. Mirrored(g)
    BY <1>1, <2>1 DEF Live, BeforeSpawn, MirrorInv, CardMirrored
  <2>4. /\ Listed(g)' <=> Listed(g)
        /\ Exists(g)' <=> Exists(g)
        /\ \A types : Pending(g, types)' <=> Pending(g, types)
    BY <1>1 DEF Listed, Exists, Pending
  <2>5. (Opened(g) <=> FolderOf[g] < i) /\ (Opened(g)' <=> FolderOf[g] <= i)
    BY <1>1, <2>2 DEF Opened
  <2>6. ~InHand(g) /\ (InHand(g)' <=> FolderOf[g] = i /\ Exists(g))
    BY <1>1, <2>2 DEF InHand
  <2>7. FolderOf[g] \in Nat /\ i \in Nat
    BY Constants DEF Folders, DataInv, ScanInv
  <2>8. disk'[g] = disk[g] /\ (disk[g].state = "closed" => Exists(g))
    BY <1>1 DEF Exists
  <2>9. Listed(g)' => Opened(g)' /\ (Exists(g)' \/ Pending(g, DelTypes)')
    BY <2>3, <2>4, <2>5, <2>7 DEF Mirrored
  <2>10. disk'[g].state = "closed" /\ Opened(g)' => Listed(g)' \/ Pending(g, AddTypes)' \/ InHand(g)'
    <3>1. Opened(g)' => Opened(g) \/ FolderOf[g] = i
      BY <2>5, <2>7
    <3> QED BY <2>3, <2>4, <2>6, <2>8, <3>1 DEF Mirrored
  <2> QED BY <2>9, <2>10 DEF Mirrored
<1> QED BY <1>2, <1>3, <1>4 DEF MirrorInv

LEMMA ScanEntryMirror ==
    ASSUME IInv, DataInv, DataInv', MirrorInv, NEW f \in Files, ScanEntry(f)
    PROVE  MirrorInv'
<1> PICK i, e : i = scan.i /\ e = Stat(f)
  OBVIOUS
<1>1. /\ UNCHANGED <<disk, allocated, inotify, watched, mon, lost, scan>> /\ scan.pc = "read"
      /\ FolderOf[f] = i /\ i \in Folders /\ Exists(f)
      /\ ~file_list_check(folder[i], f)
      /\ folder' = [folder EXCEPT ![i] = file_list_add(@, e)]
  BY DEF ScanEntry, ScanFrame, DataInv, ScanInv
<1>2. e \in EntryOf(Files) /\ e.name = f
  BY DEF Stat, EntryOf, DataInv, CardInv
<1>3. \A g \in Files : Listed(g)' <=> Listed(g) \/ g = f
  BY <1>1, <1>2, ListedAdd
<1>4. StartInv'
  BY <1>1 DEF MirrorInv, StartInv
<1>5. TakenInv' /\ StatInv' /\ WatchedInv'
  BY <1>1, <1>4, CardStill DEF DataInv, CardInv
<1>6. CardMirrored'
  <2> SUFFICES ASSUME Live', NEW g \in Files, g \notin lost'
               PROVE  Mirrored(g)'
    BY DEF CardMirrored
  <2>1. Mirrored(g)
    BY <1>1 DEF Live, MirrorInv, CardMirrored
  <2>2. /\ Opened(g)' <=> Opened(g)
        /\ InHand(g)' <=> InHand(g)
        /\ Exists(g)' <=> Exists(g)
        /\ \A types : Pending(g, types)' <=> Pending(g, types)
        /\ disk'[g] = disk[g]
    BY <1>1 DEF Opened, InHand, Exists, Pending
  <2>3. g = f => Opened(g) /\ Exists(g)
    <3>1. i <= i
      BY <1>1 DEF Folders
    <3> QED BY <1>1, <3>1 DEF Opened
  <2> QED BY <1>3, <2>1, <2>2, <2>3 DEF Mirrored
<1> QED BY <1>4, <1>5, <1>6 DEF MirrorInv

LEMMA ScanReadEndMirror ==
    ASSUME IInv, DataInv, DataInv', MirrorInv, ScanReadEnd
    PROVE  MirrorInv'
<1> PICK i, missing : /\ i = scan.i
                      /\ missing = {f \in scan.todo : Exists(f) /\ ~file_list_check(folder[i], f)}
  OBVIOUS
<1>1. /\ UNCHANGED <<disk, folder, allocated, inotify, watched, mon>> /\ scan.pc = "read"
      /\ lost' = lost \cup missing
      /\ scan' = IF i = FolderNum THEN [scan EXCEPT !.pc = "check", !.i = 1, !.todo = {}]
                 ELSE [scan EXCEPT !.pc = "open", !.i = @ + 1, !.todo = {}]
      /\ i \in Folders
  BY DEF ScanReadEnd, NextRead, ScanFrame, DataInv, ScanInv
<1>2. \/ i = FolderNum /\ scan'.pc = "check"
      \/ i # FolderNum /\ scan'.pc = "open" /\ scan'.i = i + 1
  BY <1>1 DEF IInv, Records, ScanFields
<1>3. StartInv'
  BY <1>2 DEF StartInv
<1>4. TakenInv' /\ StatInv' /\ WatchedInv'
  <2>1. lost' \subseteq Files /\ lost \subseteq lost'
    BY <1>1 DEF DataInv, CardInv
  <2> QED BY <1>1, <1>3, <2>1, CardStill DEF BeforeSpawn
<1>5. CardMirrored'
  <2> SUFFICES ASSUME Live', NEW g \in Files, g \notin lost'
               PROVE  Mirrored(g)'
    BY DEF CardMirrored
  <2>1. Mirrored(g) /\ g \notin missing
    BY <1>1 DEF Live, BeforeSpawn, MirrorInv, CardMirrored, WatchedInv
  <2>2. /\ Listed(g)' <=> Listed(g)
        /\ Exists(g)' <=> Exists(g)
        /\ \A types : Pending(g, types)' <=> Pending(g, types)
        /\ disk'[g] = disk[g]
    BY <1>1 DEF Listed, Exists, Pending
  <2>3. Opened(g) <=> FolderOf[g] <= i
    BY <1>1 DEF Opened
  <2>4. FolderOf[g] \in 1 .. FolderNum /\ i \in 1 .. FolderNum /\ FolderNum \in Nat
    BY <1>1, Constants DEF Folders
  <2>5. Opened(g)' <=> Opened(g)
    <3>1. CASE scan'.pc = "check"
      BY <1>2, <2>3, <2>4, <3>1 DEF Opened
    <3>2. CASE scan'.pc = "open"
      BY <1>2, <2>3, <2>4, <3>2 DEF Opened
    <3> QED BY <1>2, <3>1, <3>2
  <2>6. InHand(g) /\ disk[g].state = "closed" => Listed(g)
    <3>1. InHand(g) => g \in scan.todo /\ FolderOf[g] = i
      BY <1>1 DEF InHand, MirrorInv, StartInv
    <3>2. disk[g].state = "closed" => Exists(g)
      BY DEF Exists
    <3> QED BY <2>1, <3>1, <3>2 DEF Listed
  <2> QED BY <2>1, <2>2, <2>5, <2>6 DEF Mirrored
<1> QED BY <1>3, <1>4, <1>5 DEF MirrorInv

LEMMA ScanSpawnMirror ==
    ASSUME IInv, DataInv, MirrorInv, ScanSpawn
    PROVE  MirrorInv'
<1>1. /\ UNCHANGED <<disk, folder, allocated, inotify, watched, lost>> /\ scan.pc = "spawn"
      /\ scan'.pc = "signal" /\ mon'.pc = "watch" /\ allocated
  BY DEF ScanSpawn, ScanFrame, IInv, AllocInv, Records, ScanFields, MonFields
<1>2. mon.pc = "absent" /\ ~watched /\ inotify = << >>
  BY <1>1 DEF MirrorInv, WatchedInv, BeforeSpawn
<1>3. StartInv' /\ StatInv' /\ WatchedInv'
  BY <1>1, <1>2 DEF StartInv, StatInv, WatchedInv, BeforeSpawn
<1>4. TakenInv'
  BY <1>1 DEF MirrorInv, TakenInv
<1>5. CardMirrored'
  <2> SUFFICES ASSUME NEW g \in Files, g \notin lost'
               PROVE  Mirrored(g)'
    BY DEF CardMirrored
  <2>1. Mirrored(g)
    BY <1>1, <1>2 DEF Live, BeforeSpawn, MirrorInv, CardMirrored
  <2>2. /\ Opened(g) /\ Opened(g)' /\ ~InHand(g)
        /\ Listed(g)' <=> Listed(g)
        /\ Exists(g)' <=> Exists(g)
        /\ \A types : Pending(g, types)' <=> Pending(g, types)
        /\ disk'[g] = disk[g]
    BY <1>1 DEF Opened, InHand, Listed, Exists, Pending
  <2> QED BY <2>1, <2>2 DEF Mirrored
<1> QED BY <1>3, <1>4, <1>5 DEF MirrorInv

LEMMA ScanUnlistMirror ==
    ASSUME IInv, DataInv, DataInv', MirrorInv, ScanUnlist
    PROVE  MirrorInv'
<1> PICK i, name : i = scan.i /\ name = scan.filename
  OBVIOUS
<1>1. /\ UNCHANGED <<disk, allocated, inotify, watched, mon>> /\ scan.pc = "unlist"
      /\ scan'.pc = "remove" /\ scan'.file = scan.file
      /\ folder' = [folder EXCEPT ![i] = file_list_del(@, name)]
      /\ lost' = IF scan.file = name THEN lost ELSE lost \cup {name}
      /\ i \in Folders /\ name \in Files
  BY DEF ScanUnlist, ScanFrame, DataInv, ScanInv, IInv, Records, ScanFields
<1>2. StartInv'
  BY <1>1 DEF StartInv
<1>3. TakenInv' /\ StatInv' /\ WatchedInv'
  BY <1>1, <1>2, CardStill DEF DataInv, CardInv, BeforeSpawn
<1>4. CardMirrored'
  <2> SUFFICES ASSUME Live', NEW g \in Files, g \notin lost'
               PROVE  Mirrored(g)'
    BY DEF CardMirrored
  <2>1. Mirrored(g)
    BY <1>1 DEF Live, BeforeSpawn, MirrorInv, CardMirrored
  <2>2. (Listed(g)' => Listed(g)) /\ (Listed(g) /\ g # name => Listed(g)')
    BY <1>1, ListedDel
  <2>3. /\ Opened(g) /\ Opened(g)' /\ ~InHand(g)
        /\ Exists(g)' <=> Exists(g)
        /\ \A types : Pending(g, types)' <=> Pending(g, types)
        /\ disk'[g] = disk[g]
    BY <1>1 DEF Opened, InHand, Exists, Pending
  <2>4. g = name => InHand(g)'
    BY <1>1 DEF InHand
  <2> QED BY <2>1, <2>2, <2>3, <2>4 DEF Mirrored
<1> QED BY <1>2, <1>3, <1>4 DEF MirrorInv

LEMMA ScanRemoveMirror ==
    ASSUME IInv, DataInv, MirrorInv, ScanRemove
    PROVE  MirrorInv'
<1> PICK f : f = scan.file
  OBVIOUS
<1>1. /\ UNCHANGED <<folder, allocated, watched, mon>> /\ scan.pc = "remove" /\ f \in Files
      /\ IF Exists(f) THEN disk' = [disk EXCEPT ![f] = Removed(f)] /\ Notify("delete", f)
         ELSE UNCHANGED <<disk, inotify, lost>>
  BY DEF ScanRemove, ScanFrame, DataInv, ScanInv
<1>2. scan'.pc \in {"again", "measure", "size", "loop"}
  <2>1. NextFolder.pc \in {"measure", "size", "loop"}
    BY NextFolderRecord
  <2> QED BY <2>1 DEF ScanRemove, IInv, Records, ScanFields
<1>3. /\ StartInv' /\ (Live' => Live)
      /\ scan'.pc \in BeforeSpawn \ {"ended"} => scan.pc \in BeforeSpawn \ {"ended"}
  BY <1>1, <1>2 DEF StartInv, Live, BeforeSpawn
<1>4. (\A g \in Files : Opened(g) /\ Opened(g)') /\ \A g \in Files \ {f} : ~InHand(g)
  BY <1>1, <1>2 DEF Opened, InHand
<1>5. CASE Exists(f)
  <2> PICK type : type = "delete"
    OBVIOUS
  <2>1. disk'[f].state \in {"unlinked", "gone"} /\ \A g \in Files \ {f} : disk'[g] = disk[g]
    BY <1>1, <1>5 DEF Removed, DataInv, CardInv
  <2>2. Changes(f, type)
    BY <1>1, <1>5, <2>1 DEF Changes, DelTypes
  <2> QED BY <1>1, <1>3, <1>4, <2>2, ChangeMirror
<1>6. CASE ~Exists(f)
  <2>1. UNCHANGED <<disk, inotify, lost>>
    BY <1>1, <1>6
  <2>2. TakenInv' /\ StatInv' /\ WatchedInv'
    BY <1>1, <1>3, <2>1, CardStill DEF DataInv, CardInv
  <2>3. CardMirrored'
    <3> SUFFICES ASSUME Live', NEW g \in Files, g \notin lost'
                 PROVE  Mirrored(g)'
      BY DEF CardMirrored
    <3>1. Mirrored(g)
      BY <1>3, <2>1 DEF MirrorInv, CardMirrored
    <3>2. /\ Listed(g)' <=> Listed(g)
          /\ Exists(g)' <=> Exists(g)
          /\ \A types : Pending(g, types)' <=> Pending(g, types)
          /\ disk'[g] = disk[g]
      BY <1>1, <2>1 DEF Listed, Exists, Pending
    <3>3. disk[g].state = "closed" => ~InHand(g)
      BY <1>4, <1>6 DEF Exists
    <3> QED BY <1>4, <3>1, <3>2, <3>3 DEF Mirrored
  <2> QED BY <1>3, <2>2, <2>3 DEF MirrorInv
<1> QED BY <1>5, <1>6

LEMMA ScanOutMirror ==
    ASSUME IInv, DataInv, MirrorInv, ScanOut
    PROVE  MirrorInv'
<1>1. /\ UNCHANGED <<disk, inotify, watched, mon, lost>> /\ mon.pc \in {"absent", "ended"}
      /\ scan'.pc = "ended"
  BY DEF ScanOut, ScanFrame, IInv, Records, ScanFields
<1>2. StartInv' /\ ~Live'
  BY <1>1 DEF StartInv, Live
<1>3. TakenInv' /\ StatInv' /\ WatchedInv'
  BY <1>1, <1>2, CardStill DEF DataInv, CardInv
<1> QED BY <1>2, <1>3 DEF MirrorInv, CardMirrored

-----------------------------------------------------------------------------
(* The monitor thread.                                                     *)

LEMMA MonStartMirror ==
    ASSUME IInv, DataInv, MirrorInv, MonWatch \/ MonRead \/ MonEnd
    PROVE  MirrorInv'
<1>1. UNCHANGED <<disk, folder, allocated, scan, lost>>
  BY DEF MonWatch, MonRead, MonEnd, MonFrame
<1>2. /\ mon.pc \in {"watch", "loop"} /\ mon'.pc \in {"loop", "event", "ended"}
      /\ mon'.pc # "ended" => inotify' = inotify /\ (watched' = watched \/ watched' = TRUE)
      /\ mon'.pc = "ended" => inotify' = << >> /\ watched' = FALSE
      /\ mon.pc = "loop" \/ mon'.pc = "ended" \/ watched' = TRUE
  <2>1. mon.pc = "watch" => ~watched /\ watched \in BOOLEAN /\ inotify = << >>
    BY DEF MirrorInv, WatchedInv, DataInv, FlagsInv
  <2> QED BY <2>1 DEF MonWatch, MonRead, MonEnd, IInv, Records, MonFields
<1>3. StartInv' /\ StatInv'
  BY <1>1, <1>2 DEF MirrorInv, StartInv, Listed, StatInv
<1>4. WatchedInv'
  BY <1>1, <1>2 DEF MirrorInv, WatchedInv
<1>5. TakenInv'
  <2>1. inotify' = inotify \/ Len(inotify') = 0
    BY <1>2
  <2> QED BY <1>1, <2>1 DEF MirrorInv, TakenInv
<1>6. CardMirrored'
  <2> SUFFICES ASSUME Live', NEW g \in Files, g \notin lost'
               PROVE  Mirrored(g)'
    BY DEF CardMirrored
  <2>1. Mirrored(g) /\ inotify' = inotify
    BY <1>1, <1>2 DEF Live, MirrorInv, CardMirrored
  <2>2. /\ Opened(g)' <=> Opened(g)
        /\ Listed(g)' <=> Listed(g)
        /\ InHand(g)' <=> InHand(g)
        /\ Exists(g)' <=> Exists(g)
        /\ \A types : Pending(g, types)' <=> Pending(g, types)
        /\ disk'[g] = disk[g]
    BY <1>1, <2>1 DEF Opened, Listed, InHand, Exists, Pending
  <2> QED BY <2>1, <2>2 DEF Mirrored
<1> QED BY <1>3, <1>4, <1>5, <1>6 DEF MirrorInv

LEMMA LostTyped == DataInv => lost \subseteq Files
BY DEF DataInv, CardInv

(* The monitor is done with the first event, of file f.  What that event   *)
(* said of f is now in the lists, or no longer true.                       *)
LEMMA DoneMirror ==
    ASSUME IInv, DataInv, MirrorInv, mon.pc \in {"event", "add"}, mon'.pc \in {"loop", "event"},
           UNCHANGED <<allocated, watched, scan>>, lost \subseteq lost', lost' \subseteq Files,
           Keeps(2), NEW x, OnlyNew(x), NEW f, f = inotify[1].file,
           \A g \in Files \ {f} : disk'[g] = disk[g] /\ (Listed(g)' <=> Listed(g)),
           \A g \in Files : disk[g].state \in {"unlinked", "gone"} => disk'[g].state \in {"unlinked", "gone"},
           x.type \in DelTypes => disk'[x.file].state \in {"unlinked", "gone"},
           f \in Files \ lost' =>
              /\ disk'[f].state = "closed" => Listed(f)'
              /\ Listed(f)' => Exists(f)' \/ Pending(f, DelTypes)'
    PROVE  MirrorInv'
<1>1. \A g \in Files : Opened(g) /\ Opened(g)' /\ Len(inotify) \in Nat /\ Live
  <2>1. \A g \in Files : Opened(g)
    BY MirrorFacts
  <2>2. \A g \in Files : Opened(g)' <=> Opened(g)
    BY DEF Opened
  <2> QED BY <2>1, <2>2, MirrorFacts
<1>2. scan.pc \notin BeforeSpawn
  BY DEF IInv, SpawnInv
<1>3. StartInv' /\ StatInv' /\ WatchedInv'
  BY <1>2 DEF MirrorInv, StartInv, StatInv, WatchedInv, BeforeSpawn
<1>4. TakenInv'
  BY TakenKept, EventFiles DEF MirrorInv
<1>5. CardMirrored'
  <2> SUFFICES ASSUME NEW g \in Files, g \notin lost'
               PROVE  Mirrored(g)'
    BY DEF CardMirrored
  <2>1. Mirrored(g) /\ g \notin lost
    BY <1>1 DEF MirrorInv, CardMirrored
  <2>2. CASE g = f
    BY <1>1, <2>1, <2>2 DEF Mirrored
  <2>3. CASE g # f
    <3>1. \A types : Pending(g, types) => Pending(g, types)'
      BY <1>1, <2>3, PendingTail
    <3>2. (Exists(g)' <=> Exists(g)) /\ (InHand(g)' <=> InHand(g)) /\ disk'[g] = disk[g]
      BY <2>3 DEF Exists, InHand
    <3> QED BY <1>1, <2>1, <2>3, <3>1, <3>2 DEF Mirrored
  <2> QED BY <2>2, <2>3
<1> QED BY <1>3, <1>4, <1>5 DEF MirrorInv

LEMMA MonUnmountMirror ==
    ASSUME IInv, DataInv, MirrorInv, MonUnmount
    PROVE  MirrorInv'
<1> PICK f, x : f = inotify[1].file /\ x = inotify[1]
  OBVIOUS
<1>1. /\ mon.pc \in {"event", "add"} /\ mon'.pc \in {"loop", "event"}
      /\ UNCHANGED <<disk, folder, allocated, watched, scan, lost>> /\ inotify' = Tail(inotify)
      /\ Head(inotify).type = "unmount"
  BY DEF MonUnmount, EventDone, MonFrame, IInv, Records, MonFields
<1>2. x \in Event /\ x.type = "unmount" /\ f \notin Files
  BY <1>1, MirrorFacts, Constants DEF Event
<1>3. Keeps(2) /\ OnlyNew(x)
  BY <1>1, QueueTail
<1>4. \A g \in Files : disk'[g] = disk[g] /\ (Listed(g)' <=> Listed(g))
  BY <1>1 DEF Listed
<1> QED BY <1>1, <1>2, <1>3, <1>4, LostTyped, DoneMirror DEF DelTypes

LEMMA MonDeleteMirror ==
    ASSUME IInv, DataInv, DataInv', MirrorInv, MonDelete
    PROVE  MirrorInv'
<1> PICK f, x, i : f = inotify[1].file /\ x = inotify[1] /\ i = FolderOf[f]
  OBVIOUS
<1>0. mon.pc \in {"event", "add"}
  BY DEF MonDelete
<1>1. /\ mon'.pc \in {"loop", "event"}
      /\ UNCHANGED <<disk, allocated, watched, scan, lost>> /\ inotify' = Tail(inotify)
      /\ x.type \in DelTypes
      /\ folder' = [folder EXCEPT ![i] = file_list_del(@, f)]
  BY <1>0, MirrorFacts DEF MonDelete, EventDone, MonFrame, IInv, Records, MonFields, DelTypes
<1>2. f \in Files /\ i \in Folders /\ disk[f].state \in {"unlinked", "gone"}
  BY <1>0, <1>1, MirrorFacts, EventFiles, Constants DEF MirrorInv, TakenInv
<1>3. Keeps(2) /\ OnlyNew(x)
  BY <1>0, <1>1, QueueTail
<1>4. ~Listed(f)' /\ \A g \in Files \ {f} : disk'[g] = disk[g] /\ (Listed(g)' <=> Listed(g))
  BY <1>1, <1>2, ListedDel
<1>5. disk'[f].state \in {"unlinked", "gone"}
  BY <1>1, <1>2
<1>6. \A g \in Files : disk[g].state \in {"unlinked", "gone"} => disk'[g].state \in {"unlinked", "gone"}
  BY <1>1
<1> QED BY <1>0, <1>1, <1>2, <1>3, <1>4, <1>5, <1>6, LostTyped, DoneMirror

LEMMA MonLstatMirror ==
    ASSUME IInv, DataInv, MirrorInv, MonLstat
    PROVE  MirrorInv'
<1> PICK f : f = inotify[1].file
  OBVIOUS
<1>0. mon.pc \in {"event", "add"} /\ mon.pc = "event"
  BY DEF MonLstat
<1>1. /\ UNCHANGED <<folder, allocated, watched, scan>> /\ Head(inotify) = inotify[1]
      /\ inotify[1].type \in AddTypes /\ f \in Files /\ inotify[1] \in Event
      /\ 1 \in 1 .. Len(inotify)
  BY <1>0, MirrorFacts, EventFiles DEF MonLstat, MonFrame, AddTypes
<1>2. \A g \in Files : Listed(g)' <=> Listed(g)
  BY <1>1 DEF Listed
<1>3. Mirrored(f) \/ f \in lost
  BY <1>0, <1>1, MirrorFacts DEF MirrorInv, CardMirrored
<1>4. CASE ~Exists(f)
  <2> PICK x : x = inotify[1]
    OBVIOUS
  <2>1. /\ UNCHANGED <<disk, lost>> /\ inotify' = Tail(inotify) /\ mon'.pc \in {"loop", "event"}
    BY <1>1, <1>4 DEF MonLstat, EventDone, IInv, Records, MonFields
  <2>2. Keeps(2) /\ OnlyNew(x)
    BY <1>0, <2>1, QueueTail
  <2>3. x.type \notin DelTypes
    BY <1>1 DEF DelTypes, AddTypes
  <2>4. ASSUME f \notin lost
        PROVE  /\ disk'[f].state # "closed"
               /\ Listed(f)' => Pending(f, DelTypes)'
    <3>1. disk'[f].state # "closed"
      BY <1>4, <2>1 DEF Exists
    <3>2. Listed(f) => Pending(f, DelTypes)
      BY <1>3, <1>4, <2>4 DEF Mirrored
    <3>3. Pending(f, DelTypes) => Pending(f, DelTypes)'
      BY <2>2, <2>3, PendingTail, MirrorFacts
    <3> QED BY <1>1, <1>2, <3>1, <3>2, <3>3
  <2>5. \A g \in Files : disk[g].state \in {"unlinked", "gone"} => disk'[g].state \in {"unlinked", "gone"}
    BY <2>1
  <2>6. \A g \in Files \ {f} : disk'[g] = disk[g] /\ (Listed(g)' <=> Listed(g))
    BY <1>2, <2>1
  <2> QED BY <1>0, <1>1, <2>1, <2>2, <2>3, <2>4, <2>5, <2>6, LostTyped, DoneMirror
<1>5. CASE Exists(f) /\ inotify[1].type = "close_write" /\ disk[f].space = 0
  <2> PICK x : x = [inotify[1] EXCEPT !.type = "delete"]
    OBVIOUS
  <2>1. /\ disk' = [disk EXCEPT ![f] = Removed(f)]
        /\ \/ inotify' = Append(Tail(inotify), x) /\ lost' = lost
           \/ inotify' = Tail(inotify) /\ lost' = lost \cup {f}
        /\ mon'.pc \in {"loop", "event"}
    BY <1>1, <1>5 DEF MonLstat, IInv, Records, MonFields
  <2>2. x \in Event /\ x.type = "delete" /\ x.file = f
    BY <1>1, <1>5 DEF Event
  <2>3. /\ Keeps(2) /\ OnlyNew(x)
        /\ f \in lost' \/ Pending(f, DelTypes)'
    <3>1. CASE inotify' = Append(Tail(inotify), x)
      <4>1. x.type \in DelTypes
        BY <2>2 DEF DelTypes
      <4> QED BY <1>0, <2>2, <3>1, <4>1, QueueTailAppend
    <3>2. CASE inotify' = Tail(inotify) /\ lost' = lost \cup {f}
      BY <1>0, <3>2, QueueTail
    <3> QED BY <2>1, <3>1, <3>2
  <2>4. disk'[f].state \in {"unlinked", "gone"} /\ \A g \in Files \ {f} : disk'[g] = disk[g]
    BY <1>1, <2>1 DEF Removed, DataInv, CardInv, Exists
  <2>5. lost \subseteq lost' /\ lost' \subseteq Files
    BY <1>1, <2>1 DEF DataInv, CardInv
  <2>6. f \notin lost' => disk'[f].state # "closed" /\ (Listed(f)' => Pending(f, DelTypes)')
    BY <1>1, <2>3, <2>4
  <2>7. \A g \in Files : disk[g].state \in {"unlinked", "gone"} => disk'[g].state \in {"unlinked", "gone"}
    BY <2>4
  <2>8. \A g \in Files \ {f} : disk'[g] = disk[g] /\ (Listed(g)' <=> Listed(g))
    BY <1>2, <2>4
  <2> QED BY <1>0, <1>1, <2>1, <2>2, <2>3, <2>4, <2>5, <2>6, <2>7, <2>8, DoneMirror
<1>6. CASE Exists(f) /\ ~(inotify[1].type = "close_write" /\ disk[f].space = 0)
  <2>1. UNCHANGED <<disk, inotify, lost>> /\ mon' = [mon EXCEPT !.pc = "add", !.stat = Stat(f)]
    BY <1>1, <1>6 DEF MonLstat
  <2>2. mon'.pc = "add" /\ mon'.stat.name = f
    BY <2>1 DEF Stat, IInv, Records, MonFields
  <2>3. StartInv' /\ WatchedInv' /\ TakenInv'
    BY <1>0, <1>1, <2>1, <2>2 DEF MirrorInv, StartInv, Listed, WatchedInv, TakenInv, BeforeSpawn, IInv,
       SpawnInv
  <2>4. Exists(f)'
    BY <1>6, <2>1 DEF Exists
  <2>5. StatInv'
    BY <1>1, <2>1, <2>2, <2>4 DEF StatInv
  <2>6. CardMirrored'
    <3> SUFFICES ASSUME NEW g \in Files, g \notin lost'
                 PROVE  Mirrored(g)'
      BY DEF CardMirrored
    <3>1. Mirrored(g)
      BY <1>0, <2>1, MirrorFacts DEF MirrorInv, CardMirrored
    <3>2. /\ Opened(g)' <=> Opened(g)
          /\ Listed(g)' <=> Listed(g)
          /\ InHand(g)' <=> InHand(g)
          /\ Exists(g)' <=> Exists(g)
          /\ \A types : Pending(g, types)' <=> Pending(g, types)
          /\ disk'[g] = disk[g]
      BY <1>1, <2>1 DEF Opened, Listed, InHand, Exists, Pending
    <3> QED BY <3>1, <3>2 DEF Mirrored
  <2> QED BY <2>3, <2>5, <2>6 DEF MirrorInv
<1> QED BY <1>4, <1>5, <1>6

LEMMA MonAddMirror ==
    ASSUME IInv, DataInv, DataInv', MirrorInv, MonAdd
    PROVE  MirrorInv'
<1> PICK f, x, i, e : f = inotify[1].file /\ x = inotify[1] /\ i = FolderOf[f] /\ e = mon.stat
  OBVIOUS
<1>0. mon.pc \in {"event", "add"} /\ mon.pc = "add"
  BY DEF MonAdd
<1>1. /\ e \in EntryOf(Files) /\ e.name = f /\ x.type \in AddTypes
      /\ f \notin lost => Exists(f) \/ Pending(f, DelTypes)
  BY <1>0 DEF DataInv, MonInv, MirrorInv, StatInv
<1>2. f \in Files /\ i \in Folders
  BY <1>1, Constants DEF EntryOf
<1>3. /\ mon'.pc \in {"loop", "event"}
      /\ UNCHANGED <<disk, allocated, watched, scan, lost>> /\ inotify' = Tail(inotify)
      /\ folder' = [folder EXCEPT ![i] = IF file_list_check(@, f) THEN @ ELSE file_list_add(@, e)]
  BY <1>1 DEF MonAdd, MonFrame, IInv, Records, MonFields
<1>4. Keeps(2) /\ OnlyNew(x)
  BY <1>0, <1>3, QueueTail
<1>5. Listed(f)' /\ \A g \in Files \ {f} : Listed(g)' <=> Listed(g)
  <2>1. CASE file_list_check(folder[i], f)
    <3>1. folder' = folder
      BY <1>2, <1>3, <2>1 DEF DataInv, FoldersInv
    <3> QED BY <2>1, <3>1 DEF Listed
  <2>2. CASE ~file_list_check(folder[i], f)
    <3>1. folder' = [folder EXCEPT ![i] = file_list_add(@, e)]
      BY <1>2, <1>3, <2>2 DEF DataInv, FoldersInv
    <3> QED BY <1>1, <1>2, <2>2, <3>1, ListedAdd
  <2> QED BY <2>1, <2>2
<1>6. x.type \notin DelTypes
  BY <1>1 DEF AddTypes, DelTypes
<1>7. f \notin lost => Exists(f)' \/ Pending(f, DelTypes)'
  <2>1. Exists(f)' <=> Exists(f)
    BY <1>3 DEF Exists
  <2>2. Pending(f, DelTypes) => Pending(f, DelTypes)'
    BY <1>4, <1>6, PendingTail, MirrorFacts
  <2> QED BY <1>1, <2>1, <2>2
<1>8. /\ \A g \in Files \ {f} : disk'[g] = disk[g] /\ (Listed(g)' <=> Listed(g))
      /\ \A g \in Files : disk[g].state \in {"unlinked", "gone"} => disk'[g].state \in {"unlinked", "gone"}
  BY <1>3, <1>5
<1> QED BY <1>0, <1>3, <1>4, <1>5, <1>6, <1>7, <1>8, LostTyped, DoneMirror

-----------------------------------------------------------------------------
LEMMA NextMirror ==
    ASSUME IInv, DataInv, MirrorInv, [Next]_vars
    PROVE  MirrorInv'
<1>0. DataInv'
  BY NextData
<1>1. CASE Environment BY <1>1, EnvironmentMirror
<1>2. CASE Scan \/ ScanTimeout
  BY <1>0, <1>2, ScanAllocMirror, ScanOpenMirror, ScanEntryMirror, ScanReadEndMirror, ScanSpawnMirror,
     ScanLoopMirror, ScanUnlistMirror, ScanRemoveMirror, ScanOutMirror DEF Scan
<1>3. CASE Monitor
  BY <1>0, <1>3, MonStartMirror, MonUnmountMirror, MonDeleteMirror, MonLstatMirror, MonAddMirror
     DEF Monitor
<1>4. CASE StopSet \/ StopGive \/ StopJoin \/ UNCHANGED vars
  <2>1. UNCHANGED <<disk, folder, allocated, inotify, watched, scan, mon, lost>>
    BY <1>4 DEF StopSet, StopGive, StopJoin, vars
  <2> QED BY <2>1 DEF MirrorInv, CardMirrored, Live, Mirrored, Opened, Listed, InHand, Exists, Pending,
          StartInv, TakenInv, StatInv, WatchedInv
<1> QED BY <1>1, <1>2, <1>3, <1>4 DEF Next

LEMMA MirrorQuiescent == DataInv /\ IInv /\ MirrorInv => QuiescentMirror
<1> SUFFICES ASSUME DataInv, IInv, MirrorInv, mon.pc = "loop", inotify = << >>, scan.pc # "remove",
                    NEW f \in Files \ lost
             PROVE  /\ disk[f].state = "closed" => file_list_check(folder[FolderOf[f]], f)
                    /\ file_list_check(folder[FolderOf[f]], f) => Exists(f)
  BY DEF QuiescentMirror
<1>1. Mirrored(f) /\ Opened(f)
  BY MirrorFacts DEF MirrorInv, CardMirrored
<1>2. \A types : ~Pending(f, types)
  <2>1. Len(inotify) = 0
    OBVIOUS
  <2> QED BY <2>1 DEF Pending
<1>3. ~InHand(f)
  BY DEF InHand, IInv, SpawnInv, BeforeSpawn
<1> QED BY <1>1, <1>2, <1>3 DEF Mirrored, Listed

(* Once every event is processed and no deletion is under way, the lists   *)
(* hold exactly the files on the card, apart from those known to be lost,  *)
(* whatever writers, users, the unmounting of the card, failures and the   *)
(* stop did on the way.                                                    *)
THEOREM ListsMirrorCard == Spec => []QuiescentMirror
<1>1. IInv /\ DataInv /\ MirrorInv /\ [Next]_vars => MirrorInv'
  BY NextMirror
<1> QED BY <1>1, InitMirror, MirrorQuiescent, DataInvariant, PTL DEF Spec

-----------------------------------------------------------------------------
(* The victim of a deletion, unless files are moved in or out.             *)

(* Event k is of a complete file that is still there.                      *)
Ready(k) == inotify[k].type \in AddTypes /\ disk[inotify[k].file].state = "closed"
Time(k) == disk[inotify[k].file].time

(* No file that is to be added, nor one closed from now on, is older.      *)
Old(t) ==
    /\ t \in Nat /\ t <= clock
    /\ \A k \in 1 .. Len(inotify) : Ready(k) => t <= Time(k)

EventsOrdered ==
    \A k, l \in 1 .. Len(inotify) : k < l /\ Ready(k) /\ Ready(l) => Time(k) <= Time(l)

(* Only a closed file is announced.                                        *)
EventsClosed ==
    \A k \in 1 .. Len(inotify) :
        inotify[k].type \in AddTypes => disk[inotify[k].file].state \in {"closed", "gone"}

(* The monitor adds the files in the order in which they were closed, so   *)
(* that it puts each before all that are listed.                           *)
OrderInv ==
    /\ \A f \in Files : Exists(f) => disk[f].time <= clock
    /\ EventsClosed /\ EventsOrdered
    /\ \A j \in Folders : \A e \in ToSet(folder[j].list) :
         Old(e.time) /\ disk[e.name].state # "none"
    /\ mon.pc = "add" =>
         /\ Old(mon.stat.time)
         /\ \A j \in Folders : \A e \in ToSet(folder[j].list) : e.time <= mon.stat.time

(* While the file chosen is on the card it stays the last of its list.     *)
VictimInv ==
    /\ scan.pc \in {"name", "unlist"} => disk[scan.file].state # "none"
    /\ scan.pc = "name" /\ Exists(scan.file) =>
         folder[scan.i].last # NoFile /\ folder[scan.i].last.name = scan.file
    /\ scan.pc = "unlist" /\ Exists(scan.file) => scan.filename = scan.file

VInv == OrderInv /\ VictimInv

LEMMA InitVictim == Init => VInv
<1> SUFFICES ASSUME Init PROVE VInv
  OBVIOUS
<1>1. scan.pc = "alloc" /\ mon.pc = "absent" /\ inotify = << >> /\ clock = 1
  BY DEF Init
<1>2. \A f \in Files : disk[f].time = 0
  BY DEF Init
<1>3. \A i \in Folders : ToSet(folder[i].list) = {}
  <2>1. \A i \in Folders : folder[i].list = << >>
    BY DEF Init, EmptyFolder
  <2> QED BY <2>1 DEF ToSet
<1>4. Len(inotify) = 0
  BY <1>1
<1>5. EventsClosed /\ EventsOrdered
  BY <1>4 DEF EventsClosed, EventsOrdered
<1>6. OrderInv
  BY <1>1, <1>2, <1>3, <1>5 DEF OrderInv
<1> QED BY <1>1, <1>6 DEF VInv, VictimInv

(* What one step does to the card and the queue: the queue loses its first *)
(* event (c is 1) or not (c is 0), no event of it becomes ready, and a     *)
(* file may be closed and announced behind the others.                     *)
Moves(c) ==
    /\ c \in {0, 1} /\ clock \in Nat /\ clock' \in Nat /\ clock <= clock'
    /\ Len(inotify) \in Nat /\ Len(inotify') \in Nat
    /\ \A l \in 1 .. Len(inotify') :
         inotify'[l].type \in AddTypes =>
            /\ disk'[inotify'[l].file].state \in {"closed", "gone"}
            /\ Ready(l)' => \/ /\ l + c \in 1 .. Len(inotify)
                               /\ Ready(l + c) /\ Time(l)' = Time(l + c)
                            \/ l = Len(inotify') /\ Time(l)' = clock

LEMMA MovesOrder ==
    ASSUME NEW c, Moves(c), EventsOrdered,
           \A k \in 1 .. Len(inotify) : Ready(k) => Time(k) \in Nat /\ Time(k) <= clock
    PROVE  /\ EventsClosed' /\ EventsOrdered'
           /\ \A t : Old(t) => Old(t)'
<1>1. EventsClosed'
  BY DEF Moves, EventsClosed
<1>2. ASSUME NEW t, Old(t)
      PROVE  Old(t)'
  <2>1. t \in Nat /\ t <= clock'
    BY <1>2 DEF Old, Moves
  <2>2. ASSUME NEW l \in 1 .. Len(inotify'), Ready(l)'
        PROVE  t <= Time(l)'
    <3>1. inotify'[l].type \in AddTypes
      BY <2>2 DEF Ready
    <3> QED BY <1>2, <2>2, <3>1 DEF Old, Moves
  <2> QED BY <2>1, <2>2 DEF Old
<1>3. ASSUME NEW k \in 1 .. Len(inotify'), NEW l \in 1 .. Len(inotify'), k < l, Ready(k)', Ready(l)'
      PROVE  Time(k)' <= Time(l)'
  <2>1. inotify'[k].type \in AddTypes /\ inotify'[l].type \in AddTypes
    BY <1>3 DEF Ready
  <2>2. k + c \in 1 .. Len(inotify) /\ Ready(k + c) /\ Time(k)' = Time(k + c)
    BY <1>3, <2>1 DEF Moves
  <2>3. CASE l + c \in 1 .. Len(inotify) /\ Ready(l + c) /\ Time(l)' = Time(l + c)
    <3>1. k + c < l + c
      BY <1>3 DEF Moves
    <3> QED BY <2>2, <2>3, <3>1 DEF EventsOrdered
  <2>4. CASE Time(l)' = clock
    BY <2>2, <2>4
  <2> QED BY <1>3, <2>1, <2>3, <2>4 DEF Moves
<1>4. EventsOrdered'
  BY <1>3 DEF EventsOrdered
<1> QED BY <1>1, <1>2, <1>4

(* A step after which no file is complete that was not.                    *)
LEMMA MovesKept ==
    ASSUME EventsClosed, NEW c \in {0, 1}, clock \in Nat, clock' \in Nat, clock <= clock',
           Len(inotify) \in Nat, Len(inotify') \in Nat,
           \A l \in 1 .. Len(inotify') :
              \/ inotify'[l].type \notin AddTypes
              \/ l + c \in 1 .. Len(inotify) /\ inotify'[l] = inotify[l + c],
           \A k \in 1 .. Len(inotify) : inotify[k].type \in AddTypes => inotify[k].file \in Files,
           \A f \in Files : disk[f].state \in {"closed", "gone"} =>
              /\ disk'[f].state \in {"closed", "gone"}
              /\ disk'[f].state = "closed" => disk[f].state = "closed" /\ disk'[f].time = disk[f].time
    PROVE  Moves(c)
<1>1. ASSUME NEW l \in 1 .. Len(inotify'), inotify'[l].type \in AddTypes
      PROVE  /\ disk'[inotify'[l].file].state \in {"closed", "gone"}
             /\ Ready(l)' => /\ l + c \in 1 .. Len(inotify)
                             /\ Ready(l + c) /\ Time(l)' = Time(l + c)
  <2>1. l + c \in 1 .. Len(inotify) /\ inotify'[l] = inotify[l + c]
    BY <1>1
  <2> PICK f : f = inotify[l + c].file
    OBVIOUS
  <2>2. f \in Files /\ disk[f].state \in {"closed", "gone"}
    BY <1>1, <2>1 DEF EventsClosed
  <2> QED BY <1>1, <2>1, <2>2 DEF Ready, Time
<1> QED BY <1>1 DEF Moves

(* A step that adds to no list and does not move the monitor.              *)
LEMMA OrderStep ==
    ASSUME DataInv, DataInv', OrderInv, NEW c, Moves(c),
           \A f \in Files : Exists(f)' => Exists(f) \/ disk'[f].time = clock,
           \A f \in Files : Exists(f) /\ Exists(f)' => disk'[f].time \in {disk[f].time, clock},
           \A f \in Files : disk[f].state # "none" => disk'[f].state # "none",
           \A j \in Folders : \A e \in ToSet(folder'[j].list) :
              \/ e \in ToSet(folder[j].list)
              \/ Old(e.time) /\ disk[e.name].state # "none",
           mon'.pc = "add" => /\ mon.pc = "add" /\ mon'.stat = mon.stat
                              /\ \A j \in Folders : ToSet(folder'[j].list) \subseteq ToSet(folder[j].list)
    PROVE  OrderInv'
<1>1. clock \in Nat /\ clock' \in Nat /\ clock <= clock' /\ \A f \in Files : disk[f].time \in Nat
  BY DEF Moves, DataInv, CardInv
<1>2. \A k \in 1 .. Len(inotify) : Ready(k) => Time(k) \in Nat /\ Time(k) <= clock
  <2>1. ASSUME NEW k \in 1 .. Len(inotify), Ready(k)
        PROVE  inotify[k].file \in Files /\ Exists(inotify[k].file)
    BY <2>1, EventFiles DEF Ready, Exists
  <2> QED BY <1>1, <2>1 DEF OrderInv, Time
<1>3. EventsClosed' /\ EventsOrdered' /\ \A t : Old(t) => Old(t)'
  BY <1>2, MovesOrder DEF OrderInv
<1>4. \A f \in Files : Exists(f)' => disk'[f].time <= clock'
  BY <1>1 DEF OrderInv
<1>5. \A j \in Folders : \A e \in ToSet(folder'[j].list) : Old(e.time)' /\ disk'[e.name].state # "none"
  <2> SUFFICES ASSUME NEW j \in Folders, NEW e \in ToSet(folder'[j].list)
               PROVE  Old(e.time)' /\ disk'[e.name].state # "none"
    OBVIOUS
  <2>1. e.name \in Files
    <3>1. FoldersInv'
      BY DEF DataInv
    <3>2. GoodList(folder'[j], Files) /\ folder'[j].list \in Seq(EntryOf(Files))
      BY <3>1 DEF FoldersInv, GoodList
    <3>3. e \in EntryOf(Files)
      BY <3>2, LenProperties, ElementOfSeq DEF ToSet
    <3> QED BY <3>3 DEF EntryOf
  <2>2. Old(e.time) /\ disk[e.name].state # "none"
    BY DEF OrderInv
  <2> QED BY <1>3, <2>1, <2>2
<1>6. mon'.pc = "add" => /\ Old(mon.stat.time)'
                        /\ \A j \in Folders : \A e \in ToSet(folder'[j].list) : e.time <= mon'.stat.time
  <2> SUFFICES ASSUME mon'.pc = "add"
               PROVE  /\ Old(mon.stat.time)'
                      /\ \A j \in Folders : \A e \in ToSet(folder'[j].list) : e.time <= mon'.stat.time
    OBVIOUS
  <2> PICK t : t = mon.stat.time
    OBVIOUS
  <2>1. mon'.stat.time = t /\ Old(t) /\ \A j \in Folders : \A e \in ToSet(folder[j].list) : e.time <= t
    BY DEF OrderInv
  <2>2. Old(t)'
    BY <1>3, <2>1
  <2>3. Old(mon.stat.time)'
    BY <2>1, <2>2 DEF Old
  <2> QED BY <2>1, <2>3
<1> QED BY <1>3, <1>4, <1>5, <1>6 DEF OrderInv

(* Nothing happens to the card and the queue, or an event is added that    *)
(* announces no file.                                                      *)
LEMMA QueueSame ==
    ASSUME DataInv, NEW x \in Event, x.type \notin AddTypes,
           inotify' = inotify \/ inotify' = Append(inotify, x)
    PROVE  /\ Len(inotify) \in Nat /\ Len(inotify') \in Nat
           /\ \A l \in 1 .. Len(inotify') :
                \/ inotify'[l].type \notin AddTypes
                \/ l + 0 \in 1 .. Len(inotify) /\ inotify'[l] = inotify[l + 0]
<1> PICK n : n = Len(inotify)
  OBVIOUS
<1>1. inotify \in Seq(Event) /\ n \in Nat
  BY LenProperties DEF DataInv, CardInv
<1>2. CASE inotify' = inotify
  BY <1>1, <1>2
<1>3. CASE inotify' = Append(inotify, x)
  <2>1. /\ Len(inotify') = n + 1
        /\ \A k \in 1 .. n : inotify'[k] = inotify[k]
        /\ inotify'[n + 1] = x
    BY <1>1, <1>3, AppendProperties
  <2>2. \A l \in 1 .. n + 1 : (l + 0 \in 1 .. n /\ l + 0 = l) \/ l = n + 1
    BY <1>1
  <2> QED BY <1>1, <2>1, <2>2
<1> QED BY <1>2, <1>3

(* The same once the first event is gone.                                  *)
LEMMA QueueRest ==
    ASSUME DataInv, mon.pc \in {"event", "add"}, NEW x \in Event, x.type \notin AddTypes,
           inotify' = Tail(inotify) \/ inotify' = Append(Tail(inotify), x)
    PROVE  /\ Len(inotify) \in Nat /\ Len(inotify') \in Nat
           /\ \A l \in 1 .. Len(inotify') :
                \/ inotify'[l].type \notin AddTypes
                \/ l + 1 \in 1 .. Len(inotify) /\ inotify'[l] = inotify[l + 1]
<1> PICK n, t : n = Len(inotify) /\ t = Tail(inotify)
  OBVIOUS
<1>1. /\ n \in Nat \ {0} /\ t \in Seq(Event) /\ Len(t) = n - 1
      /\ \A k \in 1 .. n - 1 : t[k] = inotify[k + 1] /\ k + 1 \in 1 .. n
  BY EventTail
<1>2. CASE inotify' = t
  BY <1>1, <1>2
<1>3. CASE inotify' = Append(t, x)
  <2>1. /\ Len(inotify') = (n - 1) + 1
        /\ \A k \in 1 .. n - 1 : inotify'[k] = t[k]
        /\ inotify'[(n - 1) + 1] = x
    BY <1>1, <1>3, AppendProperties
  <2>2. \A l \in 1 .. (n - 1) + 1 : l \in 1 .. n - 1 \/ l = (n - 1) + 1
    BY <1>1
  <2> QED BY <1>1, <2>1, <2>2
<1> QED BY <1>2, <1>3

LEMMA EventsOfFiles ==
    ASSUME DataInv
    PROVE  /\ clock \in Nat /\ \A f \in Files : disk[f].time \in Nat
           /\ \A k \in 1 .. Len(inotify) : inotify[k].type \in AddTypes => inotify[k].file \in Files
BY EventFiles DEF DataInv, CardInv

(* A step of another thread leaves the victim alone.                       *)
LEMMA VictimKept ==
    ASSUME DataInv, VictimInv, scan' = scan,
           \A f \in Files : disk[f].state # "none" =>
              disk'[f].state # "none" /\ (Exists(f)' => Exists(f)),
           scan.pc = "name" /\ Exists(scan.file)' /\ folder[scan.i].last # NoFile
             /\ folder[scan.i].last.name = scan.file
             => folder'[scan.i].last = folder[scan.i].last
    PROVE  VictimInv'
<1>1. scan.pc \in {"name", "unlist"} => scan.file \in Files
  BY DEF DataInv, ScanInv
<1> QED BY <1>1 DEF VictimInv

LEMMA NotChosen == scan'.pc \notin {"name", "unlist"} => VictimInv'
BY DEF VictimInv

(* Some files are taken from the card, and this may be announced.          *)
LEMMA TakenVictim ==
    ASSUME DataInv, DataInv', VInv, clock' = clock,
           NEW x \in Event, x.type \notin AddTypes, inotify' = inotify \/ inotify' = Append(inotify, x),
           \A f \in Files : \/ disk'[f] = disk[f]
                            \/ disk[f].state # "none" /\ disk'[f].state \in {"unlinked", "gone"}
                               /\ (disk[f].state = "gone" => disk'[f].state = "gone")
                               /\ (disk[f].state = "closed" => disk'[f].state = "gone"),
           UNCHANGED <<folder, mon>>
    PROVE  OrderInv' /\ (scan' = scan => VictimInv')
<1>1. \A f \in Files :
        /\ disk[f].state # "none" => disk'[f].state # "none"
        /\ Exists(f)' => Exists(f) /\ disk'[f].time = disk[f].time
        /\ disk[f].state \in {"closed", "gone"} =>
             /\ disk'[f].state \in {"closed", "gone"}
             /\ disk'[f].state = "closed" => disk[f].state = "closed" /\ disk'[f].time = disk[f].time
  BY DEF Exists
<1> PICK c : c = 0
  OBVIOUS
<1>2. Moves(c)
  <2>1. EventsClosed
    BY DEF VInv, OrderInv
  <2> QED BY <1>1, <2>1, QueueSame, EventsOfFiles, MovesKept
<1>3. OrderInv'
  BY <1>1, <1>2, OrderStep DEF VInv
<1>4. scan' = scan => VictimInv'
  BY <1>1, VictimKept DEF VInv
<1> QED BY <1>3, <1>4

(* Neither the card, nor the queue, nor the lists change.                  *)
LEMMA StillVictim ==
    ASSUME DataInv, DataInv', VInv, UNCHANGED <<disk, clock, folder, inotify>>,
           mon' = mon \/ mon'.pc # "add"
    PROVE  OrderInv' /\ (scan' = scan => VictimInv')
<1> PICK c, x : c = 0 /\ x = [type |-> "unmount", file |-> NoFile]
  OBVIOUS
<1>1. x \in Event /\ x.type \notin AddTypes
  BY DEF Event, AddTypes
<1>2. Moves(c)
  <2>1. EventsClosed
    BY DEF VInv, OrderInv
  <2> QED BY <1>1, <2>1, QueueSame, EventsOfFiles, MovesKept
<1>3. OrderInv'
  BY <1>2, OrderStep DEF VInv, Exists
<1>4. scan' = scan => VictimInv'
  BY VictimKept DEF VInv, Exists
<1> QED BY <1>3, <1>4

-----------------------------------------------------------------------------
(* The environment.                                                        *)

LEMMA CreateVictim ==
    ASSUME DataInv, DataInv', VInv, NEW f \in Files, Create(f)
    PROVE  VInv'
<1>1. UNCHANGED <<clock, folder, inotify, scan, mon>> /\ disk[f].state = "none"
  BY DEF Create
<1>2. /\ disk'[f].state = "open" /\ disk'[f].time = clock
      /\ \A g \in Files \ {f} : disk'[g] = disk[g]
  BY DEF Create, DataInv, CardInv
<1> PICK c, x : c = 0 /\ x = [type |-> "unmount", file |-> NoFile]
  OBVIOUS
<1>3. x \in Event /\ x.type \notin AddTypes
  BY DEF Event, AddTypes
<1>4. Moves(c)
  <2>1. EventsClosed
    BY DEF VInv, OrderInv
  <2> QED BY <1>1, <1>2, <1>3, <2>1, QueueSame, EventsOfFiles, MovesKept
<1>5. OrderInv'
  BY <1>1, <1>2, <1>4, OrderStep DEF VInv, Exists
<1>6. VictimInv'
  BY <1>1, <1>2, VictimKept DEF VInv, Exists
<1> QED BY <1>5, <1>6 DEF VInv

LEMMA CloseVictim ==
    ASSUME DataInv, DataInv', VInv, NEW f \in Files, Close(f)
    PROVE  VInv'
<1>1. /\ UNCHANGED <<folder, scan, mon>> /\ clock' = clock + 1 /\ Notify("close_write", f)
      /\ disk[f].state \in {"open", "unlinked"}
  BY DEF Close
<1>2. /\ \A g \in Files \ {f} : disk'[g] = disk[g]
      /\ \/ disk[f].state = "open" /\ disk'[f].state = "closed" /\ disk'[f].time = clock
         \/ disk[f].state = "unlinked" /\ disk'[f].state = "gone"
  BY DEF Close, DataInv, CardInv
<1> PICK x, n : x = [type |-> "close_write", file |-> f] /\ n = Len(inotify)
  OBVIOUS
<1>3. x \in Event /\ inotify \in Seq(Event) /\ n \in Nat /\ clock \in Nat
  BY LenProperties DEF Event, DataInv, CardInv
<1>4. /\ Len(inotify') \in {n, n + 1}
      /\ \A k \in 1 .. n : inotify'[k] = inotify[k]
      /\ Len(inotify') = n + 1 => inotify'[n + 1] = x
  <2>1. CASE inotify' = Append(inotify, x)
    BY <1>3, <2>1, AppendProperties
  <2>2. CASE inotify' = inotify
    BY <1>3, <2>2
  <2> QED BY <1>1, <2>1, <2>2 DEF Notify
<1>5. \A k \in 1 .. n : inotify[k].type \in AddTypes =>
        /\ inotify[k].file \in Files \ {f}
        /\ disk[inotify[k].file].state \in {"closed", "gone"}
  BY <1>1, EventsOfFiles DEF VInv, OrderInv, EventsClosed
<1> PICK c : c = 0
  OBVIOUS
<1>6. Moves(c)
  <2> SUFFICES ASSUME NEW l \in 1 .. Len(inotify'), inotify'[l].type \in AddTypes
               PROVE  /\ disk'[inotify'[l].file].state \in {"closed", "gone"}
                      /\ Ready(l)' => \/ /\ l + c \in 1 .. Len(inotify)
                                         /\ Ready(l + c) /\ Time(l)' = Time(l + c)
                                      \/ l = Len(inotify') /\ Time(l)' = clock
    BY <1>1, <1>3, <1>4 DEF Moves
  <2>1. CASE l \in 1 .. n
    <3>1. /\ l + c = l /\ inotify'[l] = inotify[l] /\ inotify[l].file \in Files \ {f}
          /\ disk'[inotify[l].file] = disk[inotify[l].file]
          /\ disk[inotify[l].file].state \in {"closed", "gone"}
      BY <1>2, <1>3, <1>4, <1>5, <2>1
    <3> QED BY <2>1, <3>1 DEF Ready, Time
  <2>2. CASE l = n + 1
    <3>1. l = Len(inotify') /\ inotify'[l].file = f
      BY <1>3, <1>4, <2>2
    <3> QED BY <1>2, <3>1 DEF Ready, Time
  <2> QED BY <1>3, <1>4, <2>1, <2>2
<1>7. OrderInv'
  BY <1>1, <1>2, <1>6, OrderStep DEF VInv, Exists
<1>8. VictimInv'
  BY <1>1, <1>2, VictimKept DEF VInv, Exists
<1> QED BY <1>7, <1>8 DEF VInv

LEMMA EnvironmentVictim ==
    ASSUME "move" \notin Faults, DataInv, DataInv', VInv, Environment
    PROVE  VInv'
<1>1. CASE \E f \in Files : Create(f) \/ Close(f)
  BY <1>1, CreateVictim, CloseVictim
<1>2. CASE \E f \in Files : UserDelete(f)
  <2>1. PICK f \in Files : UserDelete(f)
    BY <1>2
  <2> PICK x : x = [type |-> "delete", file |-> f]
    OBVIOUS
  <2>2. x \in Event /\ x.type \notin AddTypes /\ (inotify' = inotify \/ inotify' = Append(inotify, x))
    BY <2>1 DEF Event, AddTypes, UserDelete, Notify
  <2>3. UNCHANGED <<clock, folder, scan, mon>>
    BY <2>1 DEF UserDelete
  <2>4. /\ \A g \in Files \ {f} : disk'[g] = disk[g]
        /\ \/ disk[f].state = "open" /\ disk'[f].state = "unlinked"
           \/ disk[f].state = "closed" /\ disk'[f].state = "gone"
    BY <2>1 DEF UserDelete, Removed, Exists, DataInv, CardInv
  <2>5. \A g \in Files : \/ disk'[g] = disk[g]
                         \/ disk[g].state # "none" /\ disk'[g].state \in {"unlinked", "gone"}
                            /\ (disk[g].state = "gone" => disk'[g].state = "gone")
                            /\ (disk[g].state = "closed" => disk'[g].state = "gone")
    BY <2>4
  <2> QED BY <2>2, <2>3, <2>5, TakenVictim DEF VInv
<1>3. CASE Umount
  <2> PICK x : x = [type |-> "unmount", file |-> NoFile]
    OBVIOUS
  <2>1. x \in Event /\ x.type \notin AddTypes /\ (inotify' = inotify \/ inotify' = Append(inotify, x))
    BY <1>3 DEF Event, AddTypes, Umount
  <2>2. UNCHANGED <<clock, folder, scan, mon>>
    BY <1>3 DEF Umount
  <2>3. \A f \in Files : \/ disk'[f] = disk[f]
                         \/ disk[f].state # "none" /\ disk'[f].state = "gone"
    BY <1>3 DEF Umount
  <2> QED BY <2>1, <2>2, <2>3, TakenVictim DEF VInv
<1> QED BY <1>1, <1>2, <1>3 DEF Environment, UserMoveFrom, UserMoveTo

-----------------------------------------------------------------------------
(* The scan thread.                                                        *)

LEMMA ScanStillVictim ==
    ASSUME IInv, DataInv, DataInv', VInv,
           \/ ScanAlloc \/ ScanOpen \/ ScanReadEnd \/ ScanCheck \/ ScanMount \/ ScanSize0
           \/ ScanSpawn \/ ScanSignal \/ ScanLoop \/ ScanWoken \/ ScanTimeout \/ ScanSize \/ ScanSum
           \/ ScanMeasure \/ ScanAgain \/ ScanPick \/ ScanPath \/ ScanName
    PROVE  VInv'
<1> USE DEF ScanFrame, ScanLocal
<1>1. UNCHANGED <<disk, clock, folder, inotify>> /\ (mon' = mon \/ mon'.pc # "add")
  BY DEF ScanAlloc, ScanOpen, ScanReadEnd, ScanCheck, ScanMount, ScanSize0, ScanSpawn, ScanSignal,
     ScanLoop, ScanWoken, ScanTimeout, ScanSize, ScanSum, ScanMeasure, ScanAgain, ScanPick, ScanPath,
     ScanName, IInv, Records, MonFields
<1>2. OrderInv'
  BY <1>1, StillVictim
<1>3. VictimInv'
  <2> USE DEF IInv, Records, ScanFields
  <2>1. CASE \/ ScanAlloc \/ ScanOpen \/ ScanReadEnd \/ ScanCheck \/ ScanMount \/ ScanSize0
             \/ ScanSpawn
    <3>1. scan'.pc \notin {"name", "unlist"}
      BY <2>1 DEF ScanAlloc, ScanOpen, ScanReadEnd, ScanCheck, ScanMount, ScanSize0, ScanSpawn, NextRead
    <3> QED BY <3>1, NotChosen
  <2>2. CASE ScanSignal \/ ScanLoop \/ ScanSize \/ ScanAgain
    <3>1. scan'.pc \notin {"name", "unlist"}
      BY <2>2 DEF ScanSignal, ScanLoop, ScanSize, ScanAgain
    <3> QED BY <3>1, NotChosen
  <2>3. CASE ScanWoken \/ ScanTimeout
    <3>1. scan'.pc \in {"out", "measure", "size"}
      BY <2>3 DEF ScanWoken, ScanTimeout, Awake
    <3> QED BY <3>1, NotChosen
  <2>4. CASE ScanSum
    <3>1. scan'.pc \in {"sum", "loop", "measure"}
      BY <2>4 DEF ScanSum
    <3> QED BY <3>1, NotChosen
  <2>5. CASE ScanMeasure \/ ScanPick
    <3>1. NextFolder.pc \in {"measure", "size", "loop"}
      BY NextFolderRecord
    <3>2. scan'.pc \notin {"name", "unlist"}
      BY <2>5, <3>1 DEF ScanMeasure, ScanPick
    <3> QED BY <3>2, NotChosen
  <2>6. CASE ScanPath
    <3> PICK L : L = folder[scan.i].last
      OBVIOUS
    <3>1. CASE L = NoFile
      BY <2>6, <3>1 DEF ScanPath, VictimInv
    <3>2. CASE L # NoFile
      <4>1. scan.i \in Folders
        BY DEF DataInv, ScanInv
      <4>2. L \in ToSet(folder[scan.i].list)
        BY <3>2, <4>1, ListedFiles DEF DataInv
      <4>3. disk[L.name].state # "none"
        BY <4>1, <4>2 DEF VInv, OrderInv
      <4>4. scan'.pc = "name" /\ scan'.file = L.name /\ scan'.i = scan.i
        BY <2>6, <3>2 DEF ScanPath
      <4> QED BY <1>1, <3>2, <4>3, <4>4 DEF VictimInv
    <3> QED BY <3>1, <3>2
  <2>7. CASE ScanName
    <3> PICK L : L = folder[scan.i].last
      OBVIOUS
    <3>1. scan.pc = "name" /\ scan'.file = scan.file
      BY <2>7 DEF ScanName
    <3>2. /\ disk[scan.file].state # "none"
          /\ Exists(scan.file) => L # NoFile /\ L.name = scan.file
      BY <3>1 DEF VInv, VictimInv
    <3>3. /\ scan'.pc # "name"
          /\ scan'.pc = "unlist" => L # NoFile /\ scan'.filename = L.name
      BY <2>7 DEF ScanName
    <3>4. Exists(scan.file)' <=> Exists(scan.file)
      BY <1>1, <3>1 DEF Exists
    <3> QED BY <1>1, <3>1, <3>2, <3>3, <3>4 DEF VictimInv, Exists
  <2> QED BY <2>1, <2>2, <2>3, <2>4, <2>5, <2>6, <2>7
<1> QED BY <1>2, <1>3 DEF VInv

(* Files found on the card are no newer than those closed from then on.    *)
LEMMA ScanEntryVictim ==
    ASSUME IInv, DataInv, DataInv', MirrorInv, VInv, NEW f \in Files, ScanEntry(f)
    PROVE  VInv'
<1> PICK i, e : i = scan.i /\ e = Stat(f)
  OBVIOUS
<1>1. /\ UNCHANGED <<disk, clock, inotify, scan, mon>> /\ scan.pc = "read" /\ Exists(f)
      /\ ~file_list_check(folder[i], f)
      /\ folder' = [folder EXCEPT ![i] = file_list_add(@, e)]
      /\ i \in Folders /\ FolderOf[f] = i
  BY DEF ScanEntry, ScanFrame, DataInv, ScanInv
<1>2. e \in EntryOf(Files) /\ e.name = f /\ e.time = disk[f].time
  BY DEF Stat, EntryOf, DataInv, CardInv
<1>3. /\ \A j \in Folders \ {i} : folder'[j] = folder[j]
      /\ ToSet(folder'[i].list) = ToSet(folder[i].list) \cup {e}
  <2>1. FoldersInv /\ i \in Folders /\ FolderOf[e.name] = i /\ ~file_list_check(folder[i], e.name)
    BY <1>1, <1>2 DEF DataInv
  <2>2. folder' = [folder EXCEPT ![i] = file_list_add(@, e)]
    BY <1>1
  <2> QED BY <1>2, <2>1, <2>2, AddFolder
<1>4. mon.pc = "absent" /\ inotify = << >>
  BY <1>1 DEF BeforeSpawn, MirrorInv, WatchedInv
<1>5. Old(e.time)
  <2>1. Len(inotify) = 0
    BY <1>4
  <2>2. e.time \in Nat /\ e.time <= clock
    BY <1>1, <1>2 DEF VInv, OrderInv, EntryOf
  <2> QED BY <2>1, <2>2 DEF Old
<1> PICK c, x : c = 0 /\ x = [type |-> "unmount", file |-> NoFile]
  OBVIOUS
<1>6. x \in Event /\ x.type \notin AddTypes
  BY DEF Event, AddTypes
<1>7. Moves(c)
  <2>1. EventsClosed
    BY DEF VInv, OrderInv
  <2> QED BY <1>1, <1>6, <2>1, QueueSame, EventsOfFiles, MovesKept
<1>8. disk[e.name].state # "none" /\ mon'.pc # "add"
  BY <1>1, <1>2, <1>4 DEF Exists
<1>9. \A j \in Folders : \A y \in ToSet(folder'[j].list) : y \in ToSet(folder[j].list) \/ y = e
  BY <1>3
<1>10. OrderInv'
  BY <1>1, <1>5, <1>7, <1>8, <1>9, OrderStep DEF VInv, Exists
<1> QED BY <1>1, <1>10, NotChosen DEF VInv

(* Fewer files listed.                                                     *)
LEMMA FewerVictim ==
    ASSUME DataInv, DataInv', VInv, UNCHANGED <<disk, clock, inotify>>,
           mon' = mon \/ mon'.pc # "add",
           \A j \in Folders : ToSet(folder'[j].list) \subseteq ToSet(folder[j].list)
    PROVE  OrderInv'
<1> PICK c, x : c = 0 /\ x = [type |-> "unmount", file |-> NoFile]
  OBVIOUS
<1>1. x \in Event /\ x.type \notin AddTypes
  BY DEF Event, AddTypes
<1>2. Moves(c)
  <2>1. EventsClosed
    BY DEF VInv, OrderInv
  <2> QED BY <1>1, <2>1, QueueSame, EventsOfFiles, MovesKept
<1> QED BY <1>2, OrderStep DEF VInv, Exists

LEMMA ScanUnlistVictim ==
    ASSUME IInv, DataInv, DataInv', VInv, ScanUnlist
    PROVE  VInv'
<1>1. /\ UNCHANGED <<disk, clock, inotify, mon>> /\ scan.i \in Folders
      /\ folder' = [folder EXCEPT ![scan.i] = file_list_del(@, scan.filename)]
      /\ scan'.pc = "remove"
  BY DEF ScanUnlist, ScanFrame, DataInv, ScanInv, IInv, Records, ScanFields
<1>2. \A j \in Folders : ToSet(folder'[j].list) \subseteq ToSet(folder[j].list)
  <2>1. /\ \A j \in Folders \ {scan.i} : folder'[j] = folder[j]
        /\ ToSet(folder'[scan.i].list) = {e \in ToSet(folder[scan.i].list) : e.name # scan.filename}
    BY <1>1, DelFolder DEF DataInv
  <2> QED BY <2>1
<1> QED BY <1>1, <1>2, FewerVictim, NotChosen DEF VInv

LEMMA ScanOutVictim ==
    ASSUME IInv, DataInv, DataInv', VInv, ScanOut
    PROVE  VInv'
<1>1. /\ UNCHANGED <<disk, clock, inotify, mon>>
      /\ folder' = [i \in Folders |-> EmptyFolder]
      /\ scan'.pc = "ended"
  BY DEF ScanOut, ScanFrame, IInv, Records, ScanFields
<1>2. \A j \in Folders : ToSet(folder'[j].list) = {}
  <2>1. EmptyFolder.list = << >>
    BY DEF EmptyFolder
  <2> QED BY <1>1, <2>1 DEF ToSet
<1> QED BY <1>1, <1>2, FewerVictim, NotChosen DEF VInv

LEMMA ScanRemoveVictim ==
    ASSUME IInv, DataInv, DataInv', VInv, ScanRemove
    PROVE  VInv'
<1> PICK f, x : f = scan.file /\ x = [type |-> "delete", file |-> f]
  OBVIOUS
<1>1. UNCHANGED <<clock, folder, mon>> /\ f \in Files /\ x \in Event /\ x.type \notin AddTypes
  BY DEF ScanRemove, ScanFrame, DataInv, ScanInv, Event, AddTypes
<1>2. inotify' = inotify \/ inotify' = Append(inotify, x)
  BY DEF ScanRemove, Notify
<1>3. \A g \in Files : \/ disk'[g] = disk[g]
                       \/ disk[g].state # "none" /\ disk'[g].state \in {"unlinked", "gone"}
                          /\ (disk[g].state = "gone" => disk'[g].state = "gone")
                          /\ (disk[g].state = "closed" => disk'[g].state = "gone")
  <2>1. \A g \in Files \ {f} : disk'[g] = disk[g]
    BY <1>1 DEF ScanRemove, DataInv, CardInv
  <2>2. \/ disk'[f] = disk[f]
        \/ disk[f].state = "open" /\ disk'[f].state = "unlinked"
        \/ disk[f].state = "closed" /\ disk'[f].state = "gone"
    BY <1>1 DEF ScanRemove, Removed, Exists, DataInv, CardInv
  <2> QED BY <2>1, <2>2
<1>4. OrderInv'
  BY <1>1, <1>2, <1>3, TakenVictim
<1>5. scan'.pc \notin {"name", "unlist"}
  <2>1. NextFolder.pc \in {"measure", "size", "loop"}
    BY NextFolderRecord
  <2> QED BY <2>1 DEF ScanRemove, IInv, Records, ScanFields
<1> QED BY <1>4, <1>5, NotChosen DEF VInv

-----------------------------------------------------------------------------
(* The monitor thread.                                                     *)

LEMMA MonStartVictim ==
    ASSUME IInv, DataInv, DataInv', VInv, MonWatch \/ MonRead \/ MonEnd
    PROVE  VInv'
<1>1. UNCHANGED <<disk, clock, folder, scan>> /\ mon'.pc # "add"
  BY DEF MonWatch, MonRead, MonEnd, MonFrame, IInv, Records, MonFields
<1>2. CASE inotify' = inotify
  BY <1>1, <1>2, StillVictim DEF VInv
<1>3. CASE inotify' = << >>
  <2> PICK c : c = 0
    OBVIOUS
  <2>1. Len(inotify') = 0 /\ Len(inotify) \in Nat
    BY <1>3, LenProperties DEF DataInv, CardInv
  <2>2. Moves(c)
    <3>1. EventsClosed
      BY DEF VInv, OrderInv
    <3> QED BY <1>1, <2>1, <3>1, EventsOfFiles, MovesKept
  <2>3. OrderInv'
    BY <1>1, <2>2, OrderStep DEF VInv, Exists
  <2>4. VictimInv'
    BY <1>1, VictimKept DEF VInv, Exists
  <2> QED BY <2>3, <2>4 DEF VInv
<1> QED BY <1>2, <1>3 DEF MonWatch, MonRead, MonEnd

(* The first event is dealt with: of the files at most that of the event   *)
(* is taken from the card.                                                 *)
LEMMA DoneMoves ==
    ASSUME DataInv, VInv, mon.pc \in {"event", "add"}, clock' = clock,
           NEW x \in Event, x.type \notin AddTypes,
           inotify' = Tail(inotify) \/ inotify' = Append(Tail(inotify), x),
           NEW c, c = 1,
           \A f \in Files : \/ disk'[f] = disk[f]
                            \/ disk[f].state \in {"open", "closed"} /\ disk'[f].state \in {"unlinked", "gone"}
                               /\ (disk[f].state = "closed" => disk'[f].state = "gone")
    PROVE  Moves(c)
<1>1. EventsClosed
  BY DEF VInv, OrderInv
<1>2. /\ Len(inotify) \in Nat /\ Len(inotify') \in Nat
      /\ \A l \in 1 .. Len(inotify') :
           \/ inotify'[l].type \notin AddTypes
           \/ l + c \in 1 .. Len(inotify) /\ inotify'[l] = inotify[l + c]
  BY QueueRest
<1>3. \A f \in Files : disk[f].state \in {"closed", "gone"} =>
        /\ disk'[f].state \in {"closed", "gone"}
        /\ disk'[f].state = "closed" => disk[f].state = "closed" /\ disk'[f].time = disk[f].time
  OBVIOUS
<1> QED BY <1>1, <1>2, <1>3, EventsOfFiles, MovesKept

LEMMA MonUnmountVictim ==
    ASSUME IInv, DataInv, DataInv', VInv, MonUnmount
    PROVE  VInv'
<1>0. mon.pc \in {"event", "add"}
  BY DEF MonUnmount
<1>1. UNCHANGED <<disk, clock, folder, scan>> /\ mon'.pc # "add" /\ inotify' = Tail(inotify)
  BY DEF MonUnmount, EventDone, MonFrame, IInv, Records, MonFields
<1> PICK c, x : c = 1 /\ x = [type |-> "unmount", file |-> NoFile]
  OBVIOUS
<1>2. x \in Event /\ x.type \notin AddTypes
  BY DEF Event, AddTypes
<1>3. Moves(c)
  BY <1>0, <1>1, <1>2, DoneMoves
<1>4. OrderInv'
  BY <1>1, <1>3, OrderStep DEF VInv, Exists
<1>5. VictimInv'
  BY <1>1, VictimKept DEF VInv, Exists
<1> QED BY <1>4, <1>5 DEF VInv

LEMMA DelFewer ==
    ASSUME DataInv, NEW i \in Folders, NEW f \in Files,
           folder' = [folder EXCEPT ![i] = file_list_del(@, f)]
    PROVE  /\ folder'[i] = file_list_del(folder[i], f)
           /\ \A j \in Folders \ {i} : folder'[j] = folder[j]
           /\ \A j \in Folders : ToSet(folder'[j].list) \subseteq ToSet(folder[j].list)
<1>1. /\ folder'[i] = file_list_del(folder[i], f)
      /\ \A j \in Folders \ {i} : folder'[j] = folder[j]
      /\ ToSet(folder'[i].list) = {e \in ToSet(folder[i].list) : e.name # f}
  BY DelFolder DEF DataInv
<1>2. ToSet(folder'[i].list) \subseteq ToSet(folder[i].list)
  BY <1>1
<1> QED BY <1>1, <1>2, Zenon

(* If the file unlisted was the last of the list, it is gone.              *)
LEMMA MonDeleteVictim ==
    ASSUME IInv, DataInv, DataInv', MirrorInv, VInv, MonDelete
    PROVE  VInv'
<1> PICK f, i : f = inotify[1].file /\ i = FolderOf[f]
  OBVIOUS
<1>0. mon.pc \in {"event", "add"} /\ mon.pc = "event"
  BY DEF MonDelete
<1>1. /\ UNCHANGED <<disk, clock, scan>> /\ mon'.pc # "add" /\ inotify' = Tail(inotify)
      /\ inotify[1].type \in DelTypes
      /\ folder' = [folder EXCEPT ![i] = file_list_del(@, f)]
  BY <1>0, MirrorFacts DEF MonDelete, EventDone, MonFrame, IInv, Records, MonFields, DelTypes
<1>2. f \in Files /\ i \in Folders /\ ~Exists(f)
  <2>1. f \in Files /\ disk[f].state \in {"unlinked", "gone"}
    BY <1>0, <1>1, MirrorFacts, EventFiles DEF MirrorInv, TakenInv
  <2> QED BY <2>1, Constants DEF Exists
<1>3. /\ folder'[i] = file_list_del(folder[i], f)
      /\ \A j \in Folders \ {i} : folder'[j] = folder[j]
      /\ \A j \in Folders : ToSet(folder'[j].list) \subseteq ToSet(folder[j].list)
  BY <1>1, <1>2, DelFewer
<1> PICK c, x : c = 1 /\ x = [type |-> "unmount", file |-> NoFile]
  OBVIOUS
<1>4. x \in Event /\ x.type \notin AddTypes
  BY DEF Event, AddTypes
<1>5. Moves(c)
  BY <1>0, <1>1, <1>4, DoneMoves
<1>6. OrderInv'
  BY <1>1, <1>3, <1>5, OrderStep DEF VInv, Exists
<1>7. ASSUME Exists(scan.file)', folder[scan.i].last # NoFile, folder[scan.i].last.name = scan.file
      PROVE  folder'[scan.i].last = folder[scan.i].last
  <2>1. scan.i \in Folders /\ GoodList(folder[scan.i], Files)
    BY DEF DataInv, ScanInv, FoldersInv
  <2>2. folder[scan.i].last.name # f
    BY <1>1, <1>2, <1>7 DEF Exists
  <2> QED BY <1>3, <1>7, <2>1, <2>2, DelOther
<1>8. VictimInv'
  BY <1>1, <1>7, VictimKept DEF VInv, Exists
<1> QED BY <1>6, <1>8 DEF VInv

LEMMA MonLstatVictim ==
    ASSUME IInv, DataInv, DataInv', MirrorInv, VInv, MonLstat
    PROVE  VInv'
<1> PICK f, x : f = inotify[1].file /\ x = [inotify[1] EXCEPT !.type = "delete"]
  OBVIOUS
<1>0. mon.pc \in {"event", "add"} /\ mon.pc = "event"
  BY DEF MonLstat
<1>1. /\ UNCHANGED <<clock, folder, scan>> /\ Head(inotify) = inotify[1]
      /\ inotify[1].type \in AddTypes /\ inotify[1] \in Event /\ f \in Files
      /\ 1 \in 1 .. Len(inotify)
  BY <1>0, MirrorFacts, EventFiles DEF MonLstat, MonFrame, AddTypes
<1>2. x \in Event /\ x.type = "delete" /\ x.type \notin AddTypes
  BY <1>1 DEF Event, AddTypes
<1>3. disk[f].state \in {"closed", "gone"}
  BY <1>1 DEF VInv, OrderInv, EventsClosed
<1>4. CASE mon'.pc # "add"
  <2>1. /\ inotify' = Tail(inotify) \/ inotify' = Append(Tail(inotify), x)
        /\ disk' = disk \/ (Exists(f) /\ disk' = [disk EXCEPT ![f] = Removed(f)])
    BY <1>1, <1>4 DEF MonLstat, EventDone, IInv, Records, MonFields
  <2>2. \A g \in Files : \/ disk'[g] = disk[g]
                         \/ disk[g].state \in {"open", "closed"} /\ disk'[g].state \in {"unlinked", "gone"}
                            /\ (disk[g].state = "closed" => disk'[g].state = "gone")
    <3>1. CASE disk' = disk
      BY <3>1
    <3>2. CASE Exists(f) /\ disk' = [disk EXCEPT ![f] = Removed(f)]
      <4>1. disk[f].state = "closed" /\ disk'[f].state = "gone" /\ \A g \in Files \ {f} : disk'[g] = disk[g]
        BY <1>1, <1>3, <3>2 DEF Removed, Exists, DataInv, CardInv
      <4> QED BY <4>1
    <3> QED BY <2>1, <3>1, <3>2
  <2> PICK c : c = 1
    OBVIOUS
  <2>3. Moves(c)
    BY <1>0, <1>1, <1>2, <2>1, <2>2, DoneMoves
  <2>4. \A g \in Files : /\ disk[g].state # "none" => disk'[g].state # "none"
                         /\ Exists(g)' => Exists(g) /\ disk'[g].time = disk[g].time
    BY <2>2 DEF Exists
  <2>5. OrderInv'
    BY <1>1, <1>4, <2>3, <2>4, OrderStep DEF VInv
  <2>6. VictimInv'
    BY <1>1, <2>4, VictimKept DEF VInv
  <2> QED BY <2>5, <2>6 DEF VInv
<1>5. CASE mon'.pc = "add"
  <2>1. UNCHANGED <<disk, inotify>> /\ Exists(f) /\ mon' = [mon EXCEPT !.pc = "add", !.stat = Stat(f)]
    BY <1>0, <1>1, <1>5 DEF MonLstat, EventDone, IInv, Records, MonFields
  <2>2. /\ mon'.stat.time = disk[f].time /\ disk[f].time \in Nat /\ Ready(1) /\ Time(1) = disk[f].time
    BY <1>1, <1>3, <2>1, EventsOfFiles DEF Stat, Exists, Ready, Time, IInv, Records, MonFields
  <2>3. Old(disk[f].time)
    <3>1. disk[f].time <= clock
      BY <1>1, <2>1 DEF VInv, OrderInv
    <3>2. ASSUME NEW k \in 1 .. Len(inotify), Ready(k)
          PROVE  disk[f].time <= Time(k)
      <4>1. CASE k = 1
        BY <2>2, <4>1
      <4>2. CASE 1 < k
        BY <1>1, <2>2, <3>2, <4>2 DEF VInv, OrderInv, EventsOrdered
      <4> QED BY <4>1, <4>2
    <3> QED BY <2>2, <3>1, <3>2 DEF Old
  <2>4. \A j \in Folders : \A e \in ToSet(folder[j].list) : e.time <= disk[f].time
    BY <1>1, <2>2 DEF VInv, OrderInv, Old
  <2>5. OrderInv'
    BY <1>1, <2>1, <2>2, <2>3, <2>4
       DEF VInv, OrderInv, Old, Ready, Time, EventsClosed, EventsOrdered, Exists
  <2>6. VictimInv'
    BY <1>1, <2>1, VictimKept DEF VInv, Exists
  <2> QED BY <2>5, <2>6 DEF VInv
<1> QED BY <1>4, <1>5

(* The file added goes before all others.                                  *)
LEMMA MonAddVictim ==
    ASSUME IInv, DataInv, DataInv', MirrorInv, VInv, MonAdd
    PROVE  VInv'
<1> PICK f, i, e : f = inotify[1].file /\ i = FolderOf[f] /\ e = mon.stat
  OBVIOUS
<1>0. mon.pc \in {"event", "add"} /\ mon.pc = "add"
  BY DEF MonAdd
<1>1. e \in EntryOf(Files) /\ e.name = f /\ inotify[1].type \in AddTypes
  BY <1>0 DEF DataInv, MonInv, MirrorInv, StatInv
<1>2. f \in Files /\ i \in Folders /\ disk[f].state # "none"
  <2>1. f \in Files /\ i \in Folders
    BY <1>1, Constants DEF EntryOf
  <2>2. disk[f].state \in {"closed", "gone"}
    BY <1>0, <1>1, MirrorFacts DEF VInv, OrderInv, EventsClosed
  <2> QED BY <2>1, <2>2
<1>3. /\ mon'.pc # "add" /\ UNCHANGED <<disk, clock, scan>> /\ inotify' = Tail(inotify)
      /\ folder' = [folder EXCEPT ![i] = IF file_list_check(@, f) THEN @ ELSE file_list_add(@, e)]
  BY <1>1 DEF MonAdd, MonFrame, IInv, Records, MonFields
<1>4. /\ Old(e.time) /\ \A y \in ToSet(folder[i].list) : y.time <= e.time
  BY <1>0, <1>2 DEF VInv, OrderInv
<1>5. \A j \in Folders :
        /\ \A y \in ToSet(folder'[j].list) : y = e \/ y \in ToSet(folder[j].list)
        /\ folder[j].last # NoFile => folder'[j].last = folder[j].last
  <2>1. CASE file_list_check(folder[i], f)
    <3>1. folder' = folder
      BY <1>2, <1>3, <2>1 DEF DataInv, FoldersInv
    <3> QED BY <3>1
  <2>2. CASE ~file_list_check(folder[i], f)
    <3>1. folder' = [folder EXCEPT ![i] = file_list_add(@, e)]
      BY <1>2, <1>3, <2>2 DEF DataInv, FoldersInv
    <3>2. /\ folder'[i] = file_list_add(folder[i], e)
          /\ \A j \in Folders \ {i} : folder'[j] = folder[j]
          /\ ToSet(folder'[i].list) = ToSet(folder[i].list) \cup {e}
      <4>1. FoldersInv /\ FolderOf[e.name] = i /\ ~file_list_check(folder[i], e.name)
        BY <1>1, <2>2 DEF DataInv
      <4> QED BY <1>1, <1>2, <3>1, <4>1, AddFolder
    <3>3. folder[i].last # NoFile => file_list_add(folder[i], e).last = folder[i].last
      <4>1. GoodList(folder[i], Files)
        BY <1>2 DEF DataInv, FoldersInv
      <4> QED BY <1>1, <1>4, <4>1, AddNewest
    <3> QED BY <3>2, <3>3
  <2> QED BY <2>1, <2>2
<1> PICK c, x : c = 1 /\ x = [type |-> "unmount", file |-> NoFile]
  OBVIOUS
<1>6. x \in Event /\ x.type \notin AddTypes
  BY DEF Event, AddTypes
<1>7. Moves(c)
  BY <1>0, <1>3, <1>6, DoneMoves
<1>8. OrderInv'
  BY <1>1, <1>2, <1>3, <1>4, <1>5, <1>7, OrderStep DEF VInv, Exists
<1>9. VictimInv'
  <2>1. scan.i \in Folders
    BY DEF DataInv, ScanInv
  <2> QED BY <1>3, <1>5, <2>1, VictimKept DEF VInv, Exists
<1> QED BY <1>8, <1>9 DEF VInv

-----------------------------------------------------------------------------
LEMMA NextVictim ==
    ASSUME "move" \notin Faults, IInv, DataInv, MirrorInv, VInv, [Next]_vars
    PROVE  VInv'
<1>0. DataInv'
  BY NextData
<1>1. CASE Environment BY <1>0, <1>1, EnvironmentVictim
<1>2. CASE Scan \/ ScanTimeout
  BY <1>0, <1>2, ScanStillVictim, ScanEntryVictim, ScanUnlistVictim, ScanRemoveVictim, ScanOutVictim
     DEF Scan
<1>3. CASE Monitor
  BY <1>0, <1>3, MonStartVictim, MonUnmountVictim, MonDeleteVictim, MonLstatVictim, MonAddVictim
     DEF Monitor
<1>4. CASE StopSet \/ StopGive \/ StopJoin \/ UNCHANGED vars
  <2>1. UNCHANGED <<disk, clock, folder, inotify, scan, mon>>
    BY <1>4 DEF StopSet, StopGive, StopJoin, vars
  <2> QED BY <1>0, <2>1, StillVictim DEF VInv
<1> QED BY <1>1, <1>2, <1>3, <1>4 DEF Next

(* While users delete files, early writers leave some that the monitor     *)
(* removes, events are dropped and the card is unmounted, file_list_last   *)
(* may change between its three unguarded reads.  The file that the scan   *)
(* thread goes on to remove is nevertheless the one it unlists, unless it  *)
(* is gone already, so that no file is deleted in place of the oldest one. *)
(* Only a file moved in, which keeps its old time, is excluded.            *)
THEOREM VictimIsListed == ASSUME "move" \notin Faults PROVE Spec => []ConsistentVictim
<1>1. MirrorInv /\ IInv /\ DataInv /\ VInv /\ [Next]_vars => VInv'
  BY NextVictim
<1>2. IInv /\ DataInv /\ MirrorInv /\ [Next]_vars => MirrorInv'
  BY NextMirror
<1>3. VInv => ConsistentVictim
  BY DEF VInv, VictimInv, ConsistentVictim
<1> QED BY <1>1, <1>2, <1>3, InitMirror, InitVictim, DataInvariant, PTL DEF Spec

-----------------------------------------------------------------------------
(* The number of files a pass leaves, with every fault.                    *)

(* The files of the folder at hand, and those that others have taken from  *)
(* it since it was found over the limit.                                   *)
There == folder[scan.i].file_num + others

(* In a pass by number, the number read before a deletion is no more than  *)
(* the files that would be there, and the pass goes on only above the      *)
(* limit.                                                                  *)
FloorInv ==
    scan.mode = "num" =>
        /\ scan.pc \in {"again", "pick", "path", "name", "unlist"} => There >= Limit[scan.i]
        /\ scan.pc \in {"pick", "path", "name", "unlist"} => scan.limit \in Nat /\ There >= scan.limit
        /\ scan.pc = "remove" => scan.limit \in Nat /\ There >= scan.limit - 1

LEMMA InitFloor == Init => FloorInv
BY DEF Init, FloorInv

LEMMA NotInLoop == ~InLoop' => FloorInv'
BY DEF InLoop, FloorInv

LEMMA FolderNumbers ==
    ASSUME DataInv
    PROVE  \A i \in Folders : /\ GoodList(folder[i], Files)
                              /\ folder[i].file_num \in Nat /\ Limit[i] \in Nat
<1>1. \A i \in Folders : GoodList(folder[i], Files) /\ Limit[i] \in Nat
  BY AutoDeleteAssumption DEF DataInv, FoldersInv
<1> QED BY <1>1, DelOne

(* A step of another thread lowers the number only by files it counts.     *)
LEMMA FloorKept ==
    ASSUME DataInv, others \in Nat, others' \in Nat, FloorInv, scan' = scan,
           InLoop => There' \in Nat /\ There' >= There
    PROVE  FloorInv'
<1>1. scan.i \in Folders
  BY DEF DataInv, ScanInv
<1>2. There \in Nat /\ Limit[scan.i] \in Nat
  BY <1>1, FolderNumbers DEF There
<1> QED BY <1>2 DEF FloorInv, InLoop

LEMMA StillFloor ==
    ASSUME DataInv, others \in Nat, FloorInv, UNCHANGED <<folder, scan, others>>
    PROVE  FloorInv'
BY DEF FloorInv, There

LEMMA ScanStartFloor ==
    ASSUME IInv,
           \/ ScanAlloc \/ ScanOpen \/ (\E f \in Files : ScanEntry(f)) \/ ScanReadEnd \/ ScanCheck
           \/ ScanMount \/ ScanSize0 \/ ScanSpawn \/ ScanSignal \/ ScanLoop \/ ScanWoken
           \/ ScanTimeout \/ ScanSize \/ ScanSum \/ ScanOut
    PROVE  FloorInv'
<1> USE DEF IInv, Records, ScanFields, InLoop
<1>1. CASE \/ ScanAlloc \/ ScanOpen \/ (\E f \in Files : ScanEntry(f)) \/ ScanReadEnd \/ ScanCheck
           \/ ScanMount \/ ScanSize0 \/ ScanSpawn
  <2>1. ~InLoop'
    BY <1>1 DEF ScanAlloc, ScanOpen, ScanEntry, ScanReadEnd, ScanCheck, ScanMount, ScanSize0,
       ScanSpawn, NextRead
  <2> QED BY <2>1, NotInLoop
<1>2. CASE ScanSignal \/ ScanLoop \/ ScanSize \/ ScanOut
  <2>1. ~InLoop'
    BY <1>2 DEF ScanSignal, ScanLoop, ScanSize, ScanOut
  <2> QED BY <2>1, NotInLoop
<1>3. CASE ScanWoken \/ ScanTimeout
  <2>1. scan'.pc \in {"out", "measure", "size"}
    BY <1>3 DEF ScanWoken, ScanTimeout, Awake
  <2> QED BY <2>1, NotInLoop
<1>4. CASE ScanSum
  <2>1. scan'.pc \in {"sum", "loop", "measure"}
    BY <1>4 DEF ScanSum
  <2> QED BY <2>1, NotInLoop
<1> QED BY <1>1, <1>2, <1>3, <1>4

(* The loop over the files of a folder, up to the deletion.                *)
LEMMA ScanPickFloor ==
    ASSUME IInv, DataInv, others \in Nat, FloorInv,
           ScanMeasure \/ ScanAgain \/ ScanPick \/ ScanPath \/ ScanName
    PROVE  FloorInv'
<1> USE DEF ScanFrame, ScanLocal
<1>0. Records /\ folder' = folder
  BY DEF IInv, ScanMeasure, ScanAgain, ScanPick, ScanPath, ScanName
<1>1. CASE scan' = NextFolder
  <2>1. scan'.pc \in {"measure", "size", "loop"}
    BY <1>1, NextFolderRecord
  <2> QED BY <2>1, NotInLoop DEF InLoop
<1>2. CASE scan' # NextFolder
  <2> PICK i, n : i = scan.i /\ n = folder[i].file_num
    OBVIOUS
  <2>1. i \in Folders /\ n \in Nat /\ Limit[i] \in Nat
    BY FolderNumbers DEF DataInv, ScanInv
  <2>2. scan'.i = i /\ scan'.mode = scan.mode
    BY <1>0, <1>2 DEF ScanMeasure, ScanAgain, ScanPick, ScanPath, ScanName, Records, ScanFields
  <2>3. CASE ScanMeasure
    <3>1. others' = 0 /\ scan'.pc = "again" /\ (scan.mode = "num" => n > Limit[i])
      BY <1>0, <1>2, <2>3 DEF ScanMeasure, Over, Measure, Records, ScanFields
    <3>2. There' = n
      BY <1>0, <2>1, <2>2, <3>1 DEF There
    <3> QED BY <2>1, <2>2, <3>1, <3>2 DEF FloorInv
  <2>4. CASE ~ScanMeasure
    <3>1. There' = There /\ There = n + others
      BY <1>0, <2>2, <2>4 DEF There, ScanAgain, ScanPick, ScanPath, ScanName
    <3>2. CASE ScanAgain
      <4>1. scan.pc = "again" /\ scan'.pc = "pick" /\ (scan.mode = "num" => scan'.limit = n)
        BY <1>0, <3>2 DEF ScanAgain, Measure, Records, ScanFields
      <4> QED BY <2>1, <2>2, <3>1, <4>1 DEF FloorInv
    <3>3. CASE ScanPick
      <4>1. scan.pc = "pick" /\ scan'.pc \in {"path", "again"} /\ scan'.limit = scan.limit
        BY <1>0, <1>2, <3>3 DEF ScanPick, Records, ScanFields
      <4> QED BY <2>2, <3>1, <4>1 DEF FloorInv
    <3>4. CASE ScanPath \/ ScanName
      <4>1. /\ scan.pc \in {"path", "name"} /\ scan'.pc \in {"name", "unlist", "crash"}
            /\ scan'.limit = scan.limit
        BY <1>0, <3>4 DEF ScanPath, ScanName, Records, ScanFields
      <4> QED BY <2>2, <3>1, <4>1 DEF FloorInv
    <3> QED BY <2>4, <3>2, <3>3, <3>4
  <2> QED BY <2>3, <2>4
<1> QED BY <1>1, <1>2

LEMMA ScanUnlistFloor ==
    ASSUME IInv, DataInv, others \in Nat, FloorInv, ScanUnlist
    PROVE  FloorInv'
<1> PICK i : i = scan.i
  OBVIOUS
<1>1. /\ scan.pc = "unlist" /\ others' = others /\ i \in Folders
      /\ scan' = [scan EXCEPT !.pc = "remove"]
      /\ folder' = [folder EXCEPT ![i] = file_list_del(@, scan.filename)]
  BY DEF ScanUnlist, DataInv, ScanInv
<1>2. scan'.pc = "remove" /\ scan'.i = i /\ scan'.limit = scan.limit /\ scan'.mode = scan.mode
  BY <1>1 DEF IInv, Records, ScanFields
<1>3. folder'[i] = file_list_del(folder[i], scan.filename)
  BY <1>1 DEF DataInv, FoldersInv
<1>4. /\ folder[i].file_num \in Nat /\ folder'[i].file_num \in Nat
      /\ folder'[i].file_num >= folder[i].file_num - 1
  BY <1>1, <1>3, FolderNumbers, DelOne
<1>5. There' \in Nat /\ There \in Nat /\ There' >= There - 1
  BY <1>1, <1>2, <1>4 DEF There
<1> QED BY <1>1, <1>2, <1>5 DEF FloorInv

(* The pass goes on only if the number it has read is over the limit.      *)
LEMMA ScanRemoveFloor ==
    ASSUME IInv, DataInv, others \in Nat, FloorInv, ScanRemove
    PROVE  FloorInv'
<1> PICK i : i = scan.i
  OBVIOUS
<1>1. /\ scan.pc = "remove" /\ i \in Folders /\ folder' = folder /\ others' = others
      /\ scan' = IF Over(scan.limit)
                 THEN [scan EXCEPT !.pc = "again", !.limit = 0, !.file = NoFile, !.filename = NoFile]
                 ELSE NextFolder
  BY DEF ScanRemove, Notify, DataInv, ScanInv
<1>2. CASE ~Over(scan.limit)
  <2>1. scan'.pc \in {"measure", "size", "loop"}
    BY <1>1, <1>2, NextFolderRecord
  <2> QED BY <2>1, NotInLoop DEF InLoop
<1>3. CASE Over(scan.limit)
  <2>1. scan'.pc = "again" /\ scan'.i = i /\ scan'.mode = scan.mode
    BY <1>1, <1>3 DEF IInv, Records, ScanFields
  <2>2. There \in Nat /\ Limit[i] \in Nat /\ There' = There
    BY <1>1, <2>1, FolderNumbers DEF There
  <2>3. scan.mode = "num" => scan.limit \in Nat /\ There >= scan.limit - 1
    BY <1>1 DEF FloorInv
  <2>4. scan.mode = "num" => There >= Limit[i]
    BY <1>3, <2>2, <2>3 DEF Over
  <2> QED BY <2>1, <2>2, <2>4 DEF FloorInv
<1> QED BY <1>2, <1>3

(* What the monitor takes from the folder at hand is counted.              *)
LEMMA MonDeleteFloor ==
    ASSUME IInv, DataInv, others \in Nat, FloorInv, MonDelete
    PROVE  FloorInv'
<1> PICK f, i : f = inotify[1].file /\ i = FolderOf[f]
  OBVIOUS
<1>0. mon.pc \in {"event", "add"}
  BY DEF MonDelete
<1>1. /\ scan' = scan /\ i \in Folders
      /\ folder' = [folder EXCEPT ![i] = file_list_del(@, f)]
      /\ others' = IF InLoop /\ i = scan.i /\ file_list_check(folder[scan.i], f)
                   THEN others + 1 ELSE others
  <2>1. /\ Head(inotify) = inotify[1] /\ Head(inotify) \in Event
    BY <1>0, EventTail
  <2>2. Head(inotify).type \in {"delete", "moved_from"}
    BY DEF MonDelete
  <2>3. f \in Files
    BY <2>1, <2>2 DEF Event
  <2> QED BY <2>1, <2>3, Constants DEF MonDelete, MonFrame
<1>2. scan.i \in Folders
  BY DEF DataInv, ScanInv
<1>3. folder'[i] = file_list_del(folder[i], f) /\ \A j \in Folders \ {i} : folder'[j] = folder[j]
  BY <1>1 DEF DataInv, FoldersInv
<1>4. \A j \in Folders : folder[j].file_num \in Nat /\ GoodList(folder[j], Files)
  BY FolderNumbers
<1>5. ASSUME InLoop
      PROVE  There' \in Nat /\ There' >= There
  <2>1. CASE i # scan.i
    BY <1>1, <1>2, <1>3, <1>4, <2>1 DEF There
  <2>2. CASE i = scan.i /\ file_list_check(folder[i], f)
    <3>1. folder'[i].file_num \in Nat /\ folder'[i].file_num >= folder[i].file_num - 1
      BY <1>1, <1>3, <1>4, DelOne
    <3>2. others' = others + 1
      BY <1>1, <1>5, <2>2
    <3> QED BY <1>1, <1>4, <2>2, <3>1, <3>2 DEF There
  <2>3. CASE i = scan.i /\ ~file_list_check(folder[i], f)
    <3>1. folder'[i].file_num = folder[i].file_num
      BY <1>1, <1>3, <1>4, <2>3, DelNothing
    <3> QED BY <1>1, <1>4, <2>3, <3>1 DEF There
  <2> QED BY <2>1, <2>2, <2>3
<1>6. others' \in Nat
  BY <1>1
<1> QED BY <1>1, <1>5, <1>6, FloorKept

LEMMA MonAddFloor ==
    ASSUME DataInv, others \in Nat, FloorInv, MonAdd
    PROVE  FloorInv'
<1> PICK i, e : e = mon.stat /\ i = FolderOf[e.name]
  OBVIOUS
<1>1. /\ scan' = scan /\ others' = others /\ e \in EntryOf(Files)
      /\ folder' = [folder EXCEPT ![i] = IF file_list_check(@, e.name) THEN @
                                         ELSE file_list_add(@, e)]
  BY DEF MonAdd, MonFrame, DataInv, MonInv
<1>2. i \in Folders /\ scan.i \in Folders
  BY <1>1, Constants DEF EntryOf, DataInv, ScanInv
<1>3. /\ folder'[i] \in {folder[i], file_list_add(folder[i], e)}
      /\ \A j \in Folders \ {i} : folder'[j] = folder[j]
  BY <1>1, <1>2 DEF DataInv, FoldersInv
<1>4. \A j \in Folders : folder[j].file_num \in Nat /\ GoodList(folder[j], Files)
  BY FolderNumbers
<1>5. file_list_add(folder[i], e).file_num = folder[i].file_num + 1
  BY <1>1, <1>2, <1>4, AddOne
<1>6. folder'[scan.i].file_num \in Nat /\ folder'[scan.i].file_num >= folder[scan.i].file_num
  BY <1>2, <1>3, <1>4, <1>5
<1>7. There' \in Nat /\ There' >= There
  BY <1>1, <1>2, <1>4, <1>6 DEF There
<1> QED BY <1>1, <1>7, FloorKept

LEMMA NextFloor ==
    ASSUME IInv, DataInv, others \in Nat, FloorInv, [Next]_vars
    PROVE  FloorInv'
<1>1. CASE Environment
  <2>1. UNCHANGED <<folder, scan, others>>
    BY <1>1 DEF Environment, Create, Close, UserDelete, UserMoveFrom, UserMoveTo, Umount, Notify
  <2> QED BY <2>1, StillFloor
<1>2. CASE Scan \/ ScanTimeout
  BY <1>2, ScanStartFloor, ScanPickFloor, ScanUnlistFloor, ScanRemoveFloor DEF Scan
<1>3. CASE Monitor
  <2>1. CASE MonWatch \/ MonRead \/ MonEnd \/ MonUnmount \/ MonLstat
    <3>1. UNCHANGED <<folder, scan, others>>
      BY <2>1 DEF MonWatch, MonRead, MonEnd, MonUnmount, MonLstat, MonFrame
    <3> QED BY <3>1, StillFloor
  <2> QED BY <1>3, <2>1, MonDeleteFloor, MonAddFloor DEF Monitor
<1>4. CASE StopSet \/ StopGive \/ StopJoin \/ UNCHANGED vars
  <2>1. UNCHANGED <<folder, scan, others>>
    BY <1>4 DEF StopSet, StopGive, StopJoin, vars
  <2> QED BY <2>1, StillFloor
<1> QED BY <1>1, <1>2, <1>3, <1>4 DEF Next

(* A pass by number, although it tests a file_num that it has read without *)
(* the mutex before its last deletion, takes files off a list below its    *)
(* limit only by as many as others took from it during the pass: whatever  *)
(* writers, users, the monitor, failures and the stop do.                  *)
THEOREM PassKeepsFloor == Spec => []NumPassFloor
<1>1. IInv /\ DataInv /\ others \in Nat /\ FloorInv /\ [Next]_vars => FloorInv'
  BY NextFloor
<1>2. FloorInv => NumPassFloor
  BY DEF FloorInv, There, NumPassFloor
<1> QED BY <1>1, <1>2, InitFloor, DataInvariant, PTL DEF Spec
================================================================================
