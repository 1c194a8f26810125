------------------------------- MODULE Param --------------------------------
(***************************************************************************)
(* The parameters: common/param/param.c over the dictionary, and the       *)
(* requests of common/system/system.c that bypass it.                      *)
(*                                                                         *)
(* Server threads (Clients) change settings, add and delete users, reset   *)
(* to the factory settings or import a file; the main thread loads the     *)
(* file at boot and saves it at the end; the system may crash at any time. *)
(* A request is a sequence of calls.  rk_param_get_* and rk_param_set_*    *)
(* lock g_param_mutex; rk_system_add_user and rk_system_del_user also call *)
(* iniparser_set, iniparser_unset and rk_param_save, which do not.  A      *)
(* value is a model value; numbers are kept as numbers.                    *)
(***************************************************************************)
EXTENDS Dictionary, FiniteSets, SequencesExt

CONSTANTS
    Clients, Main, None,   \* threads; mutex not held
    System, Users,         \* the section "system.device_info", sections "user.<id>"
    Values, Levels,        \* what clients set; user levels
    Torn,                  \* a value cut short by a crash
    Factory, Import,       \* /tmp/rkipc-factory-config.ini, an imported file
    Faults,                \* which of "fopen", "race" can happen
    MaxRequests, MaxBoots  \* bounds

Threads == Clients \cup {Main}

(* No file, or one with a syntax error: not a sequence of lines.           *)
Unreadable == [line \in {0} |-> "error"]

(* A line of a file assigns a value to a key.                              *)
IsKey(k) == k = [sec |-> k.sec, field |-> k.field]
IsText(lines) ==
    /\ lines \in Seq(ToSet(lines))
    /\ \A i \in 1 .. Len(lines) : IsKey(lines[i].key)

ASSUME ParamAssumption ==
    /\ Main \notin Clients /\ None \notin Threads
    /\ Levels \subseteq Nat
    /\ IsText(Factory) /\ IsText(Import)
    /\ Faults \subseteq {"fopen", "race"}
    /\ MaxRequests \in Nat /\ MaxBoots \in Nat

VARIABLES
    g_ini_d_,           \* "null", "ok", or "freed": left dangling at the end
    slots, n,           \* the dictionary
    g_param_mutex,      \* its holder
    file,               \* the ini file
    kept,               \* history: what a boot finds in it (before a write in progress)
    power,              \* "off", "on", or "end": deinit under way
    pc, todo,           \* per thread: step of a call, calls to make
    reg, count,         \* per thread: user_num as read, d->n about to be written
    requests, boots,    \* counted against the bounds
    orderly             \* history: see UserCount

dict == <<g_ini_d_, slots, n>>
disk == <<file, kept>>
threads == <<pc, todo, reg, count>>
vars == <<dict, g_param_mutex, disk, power, threads, requests, boots, orderly>>

(* The map that a boot makes of a file, if it can.                         *)
Map(lines) ==
    IF lines = Unreadable THEN {}
    ELSE {Contents(d.slots) : d \in {iniparser_load(lines)}}
FactoryMap == Map(Factory)
ImportMap == Map(Import)

user_num == [sec |-> System, field |-> "user_num"]
setting == [sec |-> System, field |-> "setting"]
UserKey(u, f) == [sec |-> u, field |-> f]

(* What the number of users rests on: the files a camera is given agree    *)
(* with themselves, as the factory files of the repository do, a number is *)
(* read back as it was written, and no field has the name of another.      *)
CountsUsers(m) ==
    /\ {Section(System), user_num} \subseteq DOMAIN m
    /\ m[user_num] = Cardinality({u \in Users : Section(u) \in DOMAIN m})
UsersCounted ==
    /\ IsFiniteSet(Users) /\ System \notin Users
    /\ NoField \notin {"user_num", "setting", "user_level", "user_name", "password"}
    /\ \A i \in 0 .. Cardinality(Users) : Reread(i) = i
    /\ \A m \in FactoryMap \cup ImportMap : CountsUsers(m)

Init ==
    /\ g_ini_d_ = "null" /\ slots = << >> /\ n = 0
    /\ g_param_mutex = None
    /\ file \in {Factory, Unreadable} /\ kept = Map(file)
    /\ power = "off"
    /\ pc = [t \in Threads |-> "idle"]
    /\ todo = [t \in Threads |-> << >>]
    /\ reg = [t \in Threads |-> 0]
    /\ count = [t \in Threads |-> 0]
    /\ requests = 0 /\ boots = 0
    /\ orderly = TRUE

-----------------------------------------------------------------------------
(* Calls.                                                                  *)

Call(fn, k, v) == [fn |-> fn, key |-> k, val |-> v]
Locked == {"rk_param_set", "get_user_num", "set_user_num"}
Setters == {"rk_param_set", "iniparser_set", "set_user_num"}

(* A thread is inside an operation on the dictionary or on the file.  The  *)
(* mutex keeps the locked calls apart; an unlocked call that overlaps      *)
(* another call is a data race ("race").                                   *)
Inside == {t \in Threads : pc[t] # "idle"}
MayEnter(t) == "race" \in Faults \/ Inside \ {t} = {}

Calls(t, fns) == todo[t] # << >> /\ Head(todo[t]).fn \in fns
call(t) == Head(todo[t])

(* The call enters the dictionary: it holds the mutex if it is a locked    *)
(* one.                                                                    *)
Enters(t, fns) ==
    /\ Calls(t, fns) /\ pc[t] = "idle"
    /\ MayEnter(t)
    /\ call(t).fn \in Locked => g_param_mutex = None

(* Mutant: a call on a missing dictionary returns with the mutex locked.   *)
ReturnLocked(t) ==
    /\ todo' = [todo EXCEPT ![t] = Tail(@)]
    /\ pc' = [pc EXCEPT ![t] = "idle"]
    /\ g_param_mutex' = IF call(t).fn \notin Locked THEN g_param_mutex
                        ELSE IF g_ini_d_ = "null" THEN t ELSE None

Return(t) ==
    /\ todo' = [todo EXCEPT ![t] = Tail(@)]
    /\ pc' = [pc EXCEPT ![t] = "idle"]
    /\ g_param_mutex' = IF call(t).fn \in Locked THEN None ELSE g_param_mutex

GoOn(t, l) ==
    /\ pc' = [pc EXCEPT ![t] = l]
    /\ g_param_mutex' = IF call(t).fn \in Locked THEN t ELSE g_param_mutex
    /\ UNCHANGED todo

Others == UNCHANGED <<power, requests, boots, orderly>>

(* The value a setter stores.                                              *)
Given(t) == IF call(t).fn = "set_user_num" THEN reg[t] ELSE call(t).val

(* dictionary_set finds the key and replaces its value, or makes room for  *)
(* a new entry.  Without a dictionary nothing happens.                     *)
SetFind(t) ==
    /\ Enters(t, Setters)
    /\ LET k == call(t).key IN
         \/ g_ini_d_ = "null" /\ Return(t) /\ UNCHANGED <<slots, n>>
         \/ /\ g_ini_d_ = "ok" /\ At(slots, k) # {}
            /\ slots' = Store(slots, First(At(slots, k)), k, Given(t))
            /\ Return(t) /\ UNCHANGED n
         \/ /\ g_ini_d_ = "ok" /\ At(slots, k) = {}
            /\ slots' = Room(slots, n)
            /\ GoOn(t, "probe") /\ UNCHANGED n
    /\ UNCHANGED <<g_ini_d_, disk, reg, count>> /\ Others

(* The probing loop ends at an empty slot.                                 *)
SetProbe(t) ==
    /\ pc[t] = "probe"
    /\ Free(slots) # {}
    /\ slots' = Store(slots, Probe(slots, n), call(t).key, Given(t))
    /\ GoOn(t, "count")
    /\ UNCHANGED <<g_ini_d_, n, disk, reg, count>> /\ Others

(* dictionary_unset finds the key and clears its slot.                     *)
Unset(t) ==
    /\ Enters(t, {"iniparser_unset"})
    /\ LET at == At(slots, call(t).key) IN
         IF g_ini_d_ = "null" \/ at = {}
           THEN Return(t) /\ UNCHANGED slots
           ELSE slots' = Clear(slots, First(at)) /\ GoOn(t, "count")
    /\ UNCHANGED <<g_ini_d_, n, disk, reg, count>> /\ Others

(* Mutant: every change of the table lowers d->n.                          *)
CountDown(t) ==
    /\ pc[t] = "count"
    /\ count' = [count EXCEPT ![t] = n - 1]
    /\ GoOn(t, "write")
    /\ UNCHANGED <<dict, disk, reg>> /\ Others

(* d->n++ and d->n-- read, then write.                                     *)
CountRead(t) ==
    /\ pc[t] = "count"
    /\ count' = [count EXCEPT ![t] = IF call(t).fn = "iniparser_unset" THEN n - 1 ELSE n + 1]
    /\ GoOn(t, "write")
    /\ UNCHANGED <<dict, disk, reg>> /\ Others

(* Mutant: a new entry is not counted.                                     *)
CountForgotten(t) ==
    /\ pc[t] = "write"
    /\ n' = IF call(t).fn = "iniparser_unset" THEN count[t] ELSE n
    /\ Return(t)
    /\ UNCHANGED <<g_ini_d_, slots, disk, reg, count>> /\ Others

CountWrite(t) ==
    /\ pc[t] = "write"
    /\ n' = count[t]
    /\ count' = [count EXCEPT ![t] = 0]
    /\ Return(t)
    /\ UNCHANGED <<g_ini_d_, slots, disk, reg>> /\ Others

(* iniparser_getint: a text without digits is 0.                           *)
Number(v) == IF v \in Int THEN v ELSE 0

(* rk_system_get_user_num, and the addition that follows; the default is 1 *)
GetUserNum(t) ==
    /\ Enters(t, {"get_user_num"})
    /\ LET old == IF g_ini_d_ = "ok" /\ At(slots, user_num) # {}
                    THEN Number(dictionary_get(slots, user_num)) ELSE 1
       IN reg' = [reg EXCEPT ![t] = old + call(t).val]
    /\ Return(t)
    /\ UNCHANGED <<dict, disk, count>> /\ Others

-----------------------------------------------------------------------------
(* Files.                                                                  *)

(* What a call writes: rk_param_save the dictionary, if there is one, cp   *)
(* the file it copies.                                                     *)
Text(t) ==
    IF call(t).fn = "cp" THEN call(t).val
    ELSE IF g_ini_d_ = "null" THEN << >> ELSE iniparser_dump_ini(slots)

(* fopen(path, "w") truncates the file; only main locks the mutex before.  *)
WriteBegin(t) ==
    /\ Enters(t, {"rk_param_save", "cp"})
    /\ t = Main => g_param_mutex = None
    /\ file' = << >>
    /\ GoOn(t, "fill")
    /\ reg' = [reg EXCEPT ![t] = 0]
    /\ UNCHANGED <<dict, kept, count>> /\ Others

(* When it fails, rk_param_save frees the dictionary.                      *)
SaveFails(t) ==
    /\ Enters(t, {"rk_param_save"})
    /\ "fopen" \in Faults
    /\ g_ini_d_' = "null" /\ slots' = << >> /\ n' = 0
    /\ Return(t)
    /\ UNCHANGED <<disk, reg, count>> /\ Others

WriteEnd(t) ==
    /\ pc[t] = "fill"
    /\ \E text \in {Text(t)} : file' = text /\ kept' = Map(text)
    /\ Return(t)
    /\ orderly' = (orderly /\ (g_ini_d_ = "ok" \/ call(t).fn = "cp"))
    /\ UNCHANGED <<dict, reg, count, power, requests, boots>>

(* A file of which only a part was written: whole lines, or a last line    *)
(* cut inside its value or cut so that it cannot be parsed.                *)
Fragments(lines) ==
    LET cut(k) == [SubSeq(lines, 1, k) EXCEPT ![k] = Entry(lines[k].key, Torn)]
    IN {Unreadable} \cup {SubSeq(lines, 1, k) : k \in 0 .. Len(lines)}
       \cup {cut(k) : k \in {j \in 1 .. Len(lines) : lines[j].key.field # NoField}}

-----------------------------------------------------------------------------
(* The requests of server threads, as the calls they make.                 *)

(* A request is served by a thread that serves none, always the same one,  *)
(* since threads are interchangeable.                                      *)
Serves(c) ==
    /\ todo[c] = << >>
    /\ c = CHOOSE x \in Clients : todo[x] = << >>

Begin(c, calls) ==
    /\ power = "on"
    /\ Serves(c)
    /\ requests < MaxRequests
    /\ requests' = requests + 1
    /\ todo' = [todo EXCEPT ![c] = calls]
    /\ UNCHANGED <<dict, g_param_mutex, disk, power, pc, reg, count, boots>>

(* An rk_param_set_* request, of a parameter that exists in the file.      *)
SetParam(c, v) ==
    /\ Begin(c, <<Call("rk_param_set", setting, v)>>)
    /\ UNCHANGED orderly

(* snprintf(user_level_char, 2, "%d", level) keeps one digit.              *)
user_level_char(l) == IF l < 10 THEN l ELSE l \div 10

UserPresent(u) == At(slots, Section(u)) # {}
UserRequests == {c \in Clients : todo[c] # << >> /\ Last(todo[c]).fn = "rk_param_save"}

CountAndSave(step) ==
    <<Call("get_user_num", user_num, step), Call("set_user_num", user_num, 0),
      Call("rk_param_save", user_num, 0)>>

rk_system_add_user(c, u, l, v) ==
    /\ Begin(c, <<Call("iniparser_set", Section(u), NoValue),
                  Call("iniparser_set", UserKey(u, "user_level"), user_level_char(l)),
                  Call("iniparser_set", UserKey(u, "user_name"), v),
                  Call("iniparser_set", UserKey(u, "password"), v)>> \o CountAndSave(1))
    /\ orderly' = (orderly /\ ~UserPresent(u) /\ UserRequests = {})

(* Mutant: user_num is written back as it was.                             *)
DelUserUncounted(c, u) ==
    /\ Begin(c, <<Call("iniparser_unset", Section(u), NoValue)>> \o CountAndSave(0))
    /\ orderly' = (orderly /\ UserPresent(u) /\ UserRequests = {})

(* Only the section entry is removed; the user's fields go at the next     *)
(* boot, since they are no longer saved.                                   *)
rk_system_del_user(c, u) ==
    /\ Begin(c, <<Call("iniparser_unset", Section(u), NoValue)>> \o CountAndSave(-1))
    /\ orderly' = (orderly /\ UserPresent(u) /\ UserRequests = {})

(* rk_system_factory_reset, rk_system_import_db: cp, sync, reboot -f       *)
CopyAndReboot(c, lines) ==
    /\ Begin(c, <<Call("cp", user_num, lines), Call("reboot -f", user_num, 0)>>)
    /\ UNCHANGED orderly

-----------------------------------------------------------------------------
(* Boot, shutdown and crash.                                               *)

(* rk_param_init clears the pointer and loads the file, after replacing an *)
(* unreadable one by the factory file.                                     *)
rk_param_init ==
    /\ power = "off" /\ todo[Main] = << >>
    /\ IF file = Unreadable
         THEN /\ todo' = [todo EXCEPT ![Main] = <<Call("cp", user_num, Factory)>>]
              /\ g_ini_d_' = "null"
              /\ UNCHANGED <<slots, n, power>>
         ELSE \E d \in {iniparser_load(file)} :
              /\ g_ini_d_' = "ok" /\ slots' = d.slots /\ n' = d.n
              /\ power' = "on"
              /\ UNCHANGED todo
    /\ UNCHANGED <<g_param_mutex, disk, pc, reg, count, requests, boots, orderly>>

(* rk_param_deinit, when no request is running (one that is would go on    *)
(* with the freed dictionary).  Without a dictionary nothing is saved.     *)
rk_param_deinit ==
    /\ power = "on"
    /\ boots < MaxBoots /\ boots' = boots + 1
    /\ \A c \in Clients : todo[c] = << >>
    /\ power' = "end"
    /\ todo' = [todo EXCEPT ![Main] =
                  IF g_ini_d_ = "null" THEN << >> ELSE <<Call("rk_param_save", user_num, 0)>>]
    /\ UNCHANGED <<dict, g_param_mutex, disk, pc, reg, count, requests, orderly>>

(* A dictionary that the save has not freed is freed, and the pointer to   *)
(* it stays; main returns.                                                 *)
DeinitFree ==
    /\ power = "end" /\ todo[Main] = << >>
    /\ g_ini_d_' = IF g_ini_d_ = "null" THEN "null" ELSE "freed"
    /\ slots' = << >> /\ n' = 0
    /\ power' = "off"
    /\ UNCHANGED <<g_param_mutex, disk, threads, requests, boots, orderly>>

(* Everything but the file is lost, and the part of it not yet written.    *)
Vanish ==
    /\ g_ini_d_' = "null" /\ slots' = << >> /\ n' = 0
    /\ g_param_mutex' = None
    /\ power' = "off"
    /\ pc' = [t \in Threads |-> "idle"]
    /\ todo' = [t \in Threads |-> << >>]
    /\ reg' = [t \in Threads |-> 0] /\ count' = [t \in Threads |-> 0]
    /\ LET writers == {t \in Threads : pc[t] = "fill"} IN
         /\ orderly' = (orderly /\ writers = {})
         /\ IF writers = {} THEN UNCHANGED disk
            ELSE \E t \in writers : \E text \in Fragments(Text(t)) :
                   file' = text /\ kept' = Map(text)
    /\ UNCHANGED requests

Crash ==
    /\ power # "off" \/ todo[Main] # << >>
    /\ boots < MaxBoots /\ boots' = boots + 1
    /\ Vanish

RebootForced(c) == Enters(c, {"reboot -f"}) /\ Vanish /\ UNCHANGED boots

-----------------------------------------------------------------------------
Step(t) ==
    \/ SetFind(t) \/ SetProbe(t) \/ Unset(t) \/ CountRead(t) \/ CountWrite(t)
    \/ GetUserNum(t) \/ WriteBegin(t) \/ WriteEnd(t)

Request(c) ==
    \/ \E v \in Values : SetParam(c, v)
    \/ \E u \in Users, l \in Levels, v \in Values : rk_system_add_user(c, u, l, v)
    \/ \E u \in Users : rk_system_del_user(c, u)
    \/ \E lines \in {Factory, Import} : CopyAndReboot(c, lines)

Next ==
    \/ \E t \in Threads : Step(t) \/ SaveFails(t)
    \/ \E c \in Clients : Request(c) \/ RebootForced(c)
    \/ rk_param_init \/ rk_param_deinit \/ DeinitFree \/ Crash

(* A call that was started goes on.                                        *)
Fairness ==
    /\ \A t \in Threads : WF_vars(Step(t))
    /\ \A c \in Clients : WF_vars(RebootForced(c))
    /\ WF_vars(DeinitFree) /\ WF_vars(rk_param_init)

Spec == Init /\ [][Next]_vars
FairSpec == Spec /\ Fairness
-----------------------------------------------------------------------------
(* Properties *)

(* Types; the functions of the dictionary are bounded only by its size.    *)
TypeOK ==
    /\ g_ini_d_ \in {"null", "ok", "freed"}
    /\ n \in Nat
    /\ g_param_mutex \in Threads \cup {None}
    /\ power \in {"off", "on", "end"}
    /\ pc \in [Threads -> {"idle", "probe", "count", "write", "fill"}]
    /\ reg \in [Threads -> Int] /\ count \in [Threads -> Int]

(* "Because d->n < d->size this will necessarily terminate"                *)
(* (dictionary_set): a thread about to probe for an empty slot finds one.  *)
ProbeTerminates == \A t \in Threads : pc[t] = "probe" => Free(slots) # {}

(* The dictionary, its layout in memory, and the ini file it is dumped to  *)
(* and loaded from, implement a map that is saved and read back.           *)
Storage == INSTANCE ParamStore WITH
    Prepared <- {FactoryMap, ImportMap},
    store <- IF g_ini_d_ = "ok" THEN {Contents(slots)} ELSE {},
    disk <- kept,
    writing <- \E t \in Threads : pc[t] = "fill"

(* Whatever requests, restarts and crashes do, a boot finds exactly what   *)
(* the last save or copy put on disk, unless a crash cut that write short  *)
(* or a save followed a failed one.                                        *)
ImplementsStore == Storage!Spec

Quiet == power = "on" /\ g_ini_d_ = "ok" /\ UserRequests = {}

(* user_num is the number of users whenever no user request is running, if *)
(* clients add only new users and delete only existing ones, one at a      *)
(* time, and no crash cut a write short: a crash in the middle of a        *)
(* request, a failed save and a restart keep the two together.             *)
UserCount ==
    orderly /\ Quiet =>
        dictionary_get(slots, user_num) = Cardinality({u \in Users : UserPresent(u)})

(* Every request returns, unless the system goes down: nobody loops in the *)
(* dictionary or waits for the mutex for ever.                             *)
RequestsReturn == \A c \in Clients : todo[c] # << >> ~> todo[c] = << >>
=============================================================================
