------------------------------ MODULE Recorder ------------------------------
(***************************************************************************)
(* Recording in common/storage/storage.c: the record threads that cut the  *)
(* video of a stream into files (rk_storage_record), the code that starts  *)
(* and stops them (rk_storage_muxer_init_by_id, _deinit_by_id) on behalf   *)
(* of the main thread and of the hotplug message thread, the encoder       *)
(* threads that hand frames to the muxer (rk_storage_write_video_frame,    *)
(* _audio_frame) and the server threads that start and stop a recording by *)
(* hand (rk_storage_record_start, _stop).                                  *)
(*                                                                         *)
(* A step is what a thread does between two points where another thread    *)
(* can see it.  rkmuxer is a library outside the repository: of it the     *)
(* model keeps, per stream, whether rkmuxer_init was called since the last *)
(* rkmuxer_deinit.  File names, parameters and frame contents are left     *)
(* out.  The disk scan started by dev_add and stopped by dev_remove is     *)
(* another component; here they only succeed or fail.                      *)
(***************************************************************************)
EXTENDS Integers, Sequences, FiniteSets

CONSTANTS
    STORAGE_NUM,  \* number of streams (3 in storage.c)
    Enabled,      \* streams with storage.<i>:enable = 1
    Threads,      \* identities of record threads and of their signals
    Writers,      \* encoder threads
    Clients,      \* server threads
    None,         \* no thread, no signal, mutex not held
    Foreign,      \* TRUE: devices other than the card come and go
    Faults,       \* which of "mount", "mkdir", "overlap" can happen
    MaxEvents,    \* bound: hotplug events
    MaxRestarts   \* bound: calls of rk_storage_init

Streams == 0 .. STORAGE_NUM - 1

(* The loops over i < STORAGE_NUM - 1 leave the last stream out.           *)
Managed == 0 .. STORAGE_NUM - 2

Procs == Threads \cup Writers \cup Clients
Controllers == {"main", "msg"}

ASSUME RecorderAssumption ==
    /\ STORAGE_NUM \in Nat \ {0}
    /\ Enabled \subseteq Streams
    /\ None \notin Procs
    /\ Threads \cap Writers = {} /\ Threads \cap Clients = {} /\ Writers \cap Clients = {}
    /\ Foreign \in BOOLEAN
    /\ Faults \subseteq {"mount", "mkdir", "overlap"}
    /\ MaxEvents \in Nat /\ MaxRestarts \in Nat

VARIABLES
    record_flag,           \* per stream: 1 when the card is usable
    g_storage_record_flag, \* per stream: 0 asks the record thread to end
    g_record_run_,         \* per stream: frames are passed to the muxer
    session,               \* per stream: rkmuxer_init without rkmuxer_deinit
    g_rkmuxer_mutex,       \* its holder
    pc, sid,               \* per thread: next step, stream it works on
    g_storage_signal,      \* per stream: signal object or None
    sem,                   \* per signal object: its value
    waitsOn,               \* per record thread: the signal it sleeps on
    record_thread_id,      \* per stream: the thread to join
    cpc, cjob, cid,        \* per controller: next step, function, loop index
    queue, quit,           \* message buffer, msg_hd.quit
    listener_run,          \* event_listener_run
    card,                  \* is the configured device plugged in
    events, restarts,      \* counted against the bounds
    ub                     \* history: undefined behaviour has happened

flags == <<record_flag, g_storage_record_flag>>
muxer == <<g_record_run_, session, g_rkmuxer_mutex>>
signals == <<g_storage_signal, sem>>
control == <<cpc, cjob, cid>>
hotplug == <<queue, quit, listener_run, card, events>>
vars == <<flags, muxer, pc, sid, signals, waitsOn, record_thread_id,
          control, hotplug, restarts, ub>>

Message == [type : {"add", "remove", "changed"}, own : BOOLEAN]

InSection == {"swap", "open", "publish", "close", "test", "write"}
ThreadPc == {"absent", "check", "lock", "swap", "open", "publish", "wait",
             "waiting", "stop", "close", "done", "joined"}
ClientPc == {"idle", "lock", "swap", "open", "publish", "stop", "close"}
WriterPc == {"idle", "test", "write"}
ControlPc == {"off", "idle", "next", "flag", "test", "give", "join", "destroy", "mkdir",
              "renew", "create", "start", "listener", "quit", "msgjoin"}
InBody == {"flag", "test", "give", "join", "destroy", "mkdir", "renew", "create", "start"}

FlagType ==
    /\ record_flag \in [Streams -> {-1, 0, 1}]
    /\ g_storage_record_flag \in [Streams -> {0, 1}]

MuxerType ==
    /\ g_record_run_ \in [Streams -> {0, 1}]
    /\ session \in [Streams -> {"inited", "deinited"}]
    /\ g_rkmuxer_mutex \in Procs \cup {None}

ThreadType ==
    /\ pc \in [Procs -> ThreadPc \cup ClientPc \cup WriterPc]
    /\ \A t \in Threads : pc[t] \in ThreadPc
    /\ \A c \in Clients : pc[c] \in ClientPc
    /\ \A w \in Writers : pc[w] \in WriterPc
    /\ sid \in [Procs -> Streams]
    /\ waitsOn \in [Threads -> Threads \cup {None}]
    /\ \A t \in Threads : pc[t] = "waiting" => waitsOn[t] \in Threads

SignalType ==
    /\ g_storage_signal \in [Streams -> Threads \cup {None}]
    /\ sem \in [Threads -> {"absent", "0", "1", "freed"}]
    /\ record_thread_id \in [Streams -> Threads \cup {None}]

ControlType ==
    /\ cpc \in [Controllers -> ControlPc]
    /\ cjob \in [Controllers -> {"none", "init", "deinit", "add", "remove"}]
    /\ cid \in [Controllers -> Nat]
    /\ \A c \in Controllers : cpc[c] \in InBody => cid[c] \in Streams

OtherType ==
    /\ queue \in Seq(Message)
    /\ quit \in BOOLEAN /\ listener_run \in BOOLEAN
    /\ card \in {"in", "out"}
    /\ events \in Nat /\ restarts \in Nat
    /\ ub \in BOOLEAN

(* The variables have their types; a controller inside a muxer function    *)
(* works on an existing stream, a sleeping record thread on a signal.      *)
TypeOK == FlagType /\ MuxerType /\ ThreadType /\ SignalType /\ ControlType /\ OtherType

Init ==
    /\ record_flag = [i \in Streams |-> IF i = 0 THEN -1 ELSE 0]
    /\ g_storage_record_flag = [i \in Streams |-> 0]
    /\ g_record_run_ = [i \in Streams |-> 0]
    /\ session = [i \in Streams |-> "deinited"]
    /\ g_rkmuxer_mutex = None
    /\ pc = [p \in Procs |-> IF p \in Threads THEN "absent" ELSE "idle"]
    /\ sid = [p \in Procs |-> 0]
    /\ g_storage_signal = [i \in Streams |-> None]
    /\ sem = [s \in Threads |-> "absent"]
    /\ waitsOn = [t \in Threads |-> None]
    /\ record_thread_id = [i \in Streams |-> None]
    /\ cpc = [c \in Controllers |-> "off"]
    /\ cjob = [c \in Controllers |-> "none"]
    /\ cid = [c \in Controllers |-> 0]
    /\ queue = << >>
    /\ quit = FALSE /\ listener_run = FALSE
    /\ card \in {"in", "out"}
    /\ events = 0 /\ restarts = 0
    /\ ub = FALSE

-----------------------------------------------------------------------------
(* The muxer's critical sections, shared by record threads and clients.    *)

Goto(p, l) == pc' = [pc EXCEPT ![p] = l]

(* Mutant: the section does not reset g_record_run_.                       *)
EnterKeepsRun(p, l) ==
    /\ g_rkmuxer_mutex = None
    /\ g_rkmuxer_mutex' = p
    /\ Goto(p, l)
    /\ UNCHANGED <<g_record_run_, session, flags, sid, signals, waitsOn, record_thread_id,
                   control, hotplug, restarts, ub>>

(* pthread_mutex_lock(&g_rkmuxer_mutex); g_record_run_ = 0; the rest of    *)
(* the section starts at l.                                                *)
Enter(p, l) ==
    /\ g_rkmuxer_mutex = None
    /\ g_rkmuxer_mutex' = p
    /\ g_record_run_' = [g_record_run_ EXCEPT ![sid[p]] = 0]
    /\ Goto(p, l)
    /\ UNCHANGED <<session, flags, sid, signals, waitsOn, record_thread_id,
                   control, hotplug, restarts, ub>>

(* Mutant: the old file is not closed before the new one is opened.        *)
MuxerDeinitForgotten(p) ==
    /\ pc[p] = "swap"
    /\ Goto(p, "open")
    /\ UNCHANGED <<muxer, flags, sid, signals, waitsOn,
                   record_thread_id, control, hotplug, restarts, ub>>

(* rkmuxer_deinit(id) *)
MuxerDeinit(p) ==
    /\ pc[p] = "swap"
    /\ session' = [session EXCEPT ![sid[p]] = "deinited"]
    /\ Goto(p, "open")
    /\ UNCHANGED <<g_record_run_, g_rkmuxer_mutex, flags, sid, signals, waitsOn,
                   record_thread_id, control, hotplug, restarts, ub>>

(* rkmuxer_init(id, ...); its result is ignored *)
MuxerInit(p) ==
    /\ pc[p] = "open"
    /\ session' = [session EXCEPT ![sid[p]] = "inited"]
    /\ Goto(p, "publish")
    /\ UNCHANGED <<g_record_run_, g_rkmuxer_mutex, flags, sid, signals, waitsOn,
                   record_thread_id, control, hotplug, restarts, ub>>

(* g_record_run_ = 1; unlock *)
Publish(p) ==
    /\ pc[p] = "publish"
    /\ g_record_run_' = [g_record_run_ EXCEPT ![sid[p]] = 1]
    /\ g_rkmuxer_mutex' = None
    /\ Goto(p, IF p \in Threads THEN "wait" ELSE "idle")
    /\ UNCHANGED <<session, flags, sid, signals, waitsOn, record_thread_id,
                   control, hotplug, restarts, ub>>

(* rkmuxer_deinit(id); unlock, at the end of a record thread and in        *)
(* rk_storage_record_stop                                                  *)
Close(p) ==
    /\ pc[p] = "close"
    /\ session' = [session EXCEPT ![sid[p]] = "deinited"]
    /\ g_rkmuxer_mutex' = None
    /\ Goto(p, IF p \in Threads THEN "done" ELSE "idle")
    /\ UNCHANGED <<g_record_run_, flags, sid, signals, waitsOn, record_thread_id,
                   control, hotplug, restarts, ub>>

LockSwap(p) == pc[p] = "lock" /\ Enter(p, "swap")
LockStop(p) == pc[p] = "stop" /\ Enter(p, "close")

-----------------------------------------------------------------------------
(* rk_storage_record: the loop of a record thread.                         *)

Stay == UNCHANGED <<flags, muxer, sid, g_storage_signal, record_thread_id,
                    control, hotplug, restarts>>

RecordCheck(t) ==
    /\ pc[t] = "check"
    /\ Goto(t, IF g_storage_record_flag[sid[t]] = 1 /\ record_flag[sid[t]] = 1
                  THEN "lock" ELSE "stop")
    /\ UNCHANGED <<sem, waitsOn, ub>> /\ Stay

(* rk_signal_wait reads the pointer once; a null signal does not wait.     *)
RecordWait(t) ==
    /\ pc[t] = "wait"
    /\ LET s == g_storage_signal[sid[t]] IN
         /\ Goto(t, IF s = None THEN "check" ELSE "waiting")
         /\ waitsOn' = [waitsOn EXCEPT ![t] = s]
         /\ ub' = (ub \/ (s \in Threads /\ sem[s] = "freed"))
    /\ UNCHANGED sem /\ Stay

RecordWoken(t) ==
    /\ pc[t] = "waiting"
    /\ sem[waitsOn[t]] = "1"
    /\ sem' = [sem EXCEPT ![waitsOn[t]] = "0"]
    /\ waitsOn' = [waitsOn EXCEPT ![t] = None]
    /\ Goto(t, "check")
    /\ UNCHANGED ub /\ Stay

(* file_duration has passed *)
RecordTimeout(t) ==
    /\ pc[t] = "waiting"
    /\ waitsOn' = [waitsOn EXCEPT ![t] = None]
    /\ Goto(t, "check")
    /\ UNCHANGED <<sem, ub>> /\ Stay

-----------------------------------------------------------------------------
(* rk_storage_write_video_frame, rk_storage_write_audio_frame              *)

(* Mutant: a frame is written without taking the lock.                     *)
WriteUnlocked(w) ==
    /\ pc[w] = "idle"
    /\ Goto(w, "test")
    /\ \E i \in Streams : sid' = [sid EXCEPT ![w] = i]
    /\ UNCHANGED <<muxer, flags, signals, waitsOn, record_thread_id,
                   control, hotplug, restarts, ub>>

WriteLock(w) ==
    /\ pc[w] = "idle"
    /\ g_rkmuxer_mutex = None
    /\ g_rkmuxer_mutex' = w
    /\ Goto(w, "test")
    /\ \E i \in Streams : sid' = [sid EXCEPT ![w] = i]
    /\ UNCHANGED <<g_record_run_, session, flags, signals, waitsOn, record_thread_id,
                   control, hotplug, restarts, ub>>

WriteTest(w) ==
    /\ pc[w] = "test"
    /\ IF g_record_run_[sid[w]] = 1
         THEN Goto(w, "write") /\ UNCHANGED g_rkmuxer_mutex
         ELSE Goto(w, "idle") /\ g_rkmuxer_mutex' = None
    /\ UNCHANGED <<g_record_run_, session, flags, sid, signals, waitsOn, record_thread_id,
                   control, hotplug, restarts, ub>>

(* rkmuxer_write_*_frame returns; unlock *)
WriteDone(w) ==
    /\ pc[w] = "write"
    /\ Goto(w, "idle")
    /\ g_rkmuxer_mutex' = None
    /\ UNCHANGED <<g_record_run_, session, flags, sid, signals, waitsOn, record_thread_id,
                   control, hotplug, restarts, ub>>

-----------------------------------------------------------------------------
(* rk_storage_record_start and rk_storage_record_stop act on stream 0.     *)

Command(c, l) ==
    /\ pc[c] = "idle"
    /\ Goto(c, l)
    /\ sid' = [sid EXCEPT ![c] = 0]
    /\ UNCHANGED <<flags, muxer, signals, waitsOn, record_thread_id,
                   control, hotplug, restarts, ub>>

rk_storage_record_start(c) == Command(c, "lock")
rk_storage_record_stop(c) == Command(c, "stop")

-----------------------------------------------------------------------------
(* A controller c runs function cjob[c] (rk_storage_init, rk_storage_deinit *)
(* or the handling of a hotplug message), which calls                      *)
(* rk_storage_muxer_deinit_by_id and/or rk_storage_muxer_init_by_id for    *)
(* the streams cid[c] in turn.                                             *)

CGoto(c, l) == cpc' = [cpc EXCEPT ![c] = l] /\ UNCHANGED <<cjob, cid>>

NextStream(c) ==
    /\ cpc' = [cpc EXCEPT ![c] = "next"]
    /\ cid' = [cid EXCEPT ![c] = @ + 1]
    /\ UNCHANGED cjob

(* Mutant: MSG_DEV_ADD only stops the recorders.                           *)
DeinitReturnsOnly(c) == NextStream(c)

(* rk_storage_muxer_deinit_by_id returns; only MSG_DEV_ADD goes on with    *)
(* rk_storage_muxer_init_by_id.                                            *)
DeinitReturns(c) ==
    IF cjob[c] = "add" /\ cid[c] \in Enabled THEN CGoto(c, "mkdir") ELSE NextStream(c)

(* Mutant: i <= STORAGE_NUM                                                *)
LoopStreamsTooFar(job) == 0 .. STORAGE_NUM

(* Mutant: rk_storage_deinit leaves the last stream out, like the message  *)
(* handlers.                                                               *)
LoopStreamsTooFew(job) == IF job = "init" THEN Streams ELSE Managed

LoopStreams(job) == IF job \in {"init", "deinit"} THEN Streams ELSE Managed

(* The top of the loop body: the assignment to record_flag in the message  *)
(* handlers, none in rk_storage_init and rk_storage_deinit.                *)
LoopTop(c) ==
    /\ cpc[c] = "next"
    /\ cid[c] \in LoopStreams(cjob[c])
    /\ CGoto(c, IF cjob[c] = "init" THEN "mkdir" ELSE "flag")
    /\ record_flag' = CASE cjob[c] = "add" ->
                             [record_flag EXCEPT ![cid[c]] = IF cid[c] \in Enabled THEN 1 ELSE 0]
                        [] cjob[c] = "remove" -> [record_flag EXCEPT ![cid[c]] = 0]
                        [] OTHER -> record_flag
    /\ UNCHANGED <<g_storage_record_flag, muxer, pc, sid, signals, waitsOn,
                   record_thread_id, hotplug, restarts, ub>>

LoopEnd(c) ==
    /\ cpc[c] = "next"
    /\ cid[c] \notin LoopStreams(cjob[c])
    /\ CGoto(c, IF cjob[c] = "deinit" THEN "listener" ELSE "idle")
    /\ UNCHANGED <<flags, muxer, pc, sid, signals, waitsOn, record_thread_id,
                   hotplug, restarts, ub>>

(* rk_storage_muxer_deinit_by_id *)

DeinitFlag(c) ==
    /\ cpc[c] = "flag"
    /\ IF cid[c] \in Enabled
         THEN /\ g_storage_record_flag' = [g_storage_record_flag EXCEPT ![cid[c]] = 0]
              /\ CGoto(c, "test")
         ELSE /\ DeinitReturns(c)
              /\ UNCHANGED g_storage_record_flag
    /\ UNCHANGED <<record_flag, muxer, pc, sid, signals, waitsOn, record_thread_id,
                   hotplug, restarts, ub>>

(* if (g_storage_signal): the pointer is read here and again by each of    *)
(* the calls that follow.                                                  *)
DeinitTest(c) ==
    /\ cpc[c] = "test"
    /\ IF g_storage_signal[cid[c]] = None THEN DeinitReturns(c) ELSE CGoto(c, "give")
    /\ UNCHANGED <<flags, muxer, pc, sid, signals, waitsOn, record_thread_id,
                   hotplug, restarts, ub>>

(* Mutant: the record thread is joined without being woken.                *)
DeinitNoGive(c) ==
    /\ cpc[c] = "give"
    /\ CGoto(c, "join")
    /\ UNCHANGED <<flags, muxer, pc, sid, signals, waitsOn, record_thread_id,
                   hotplug, restarts, ub>>

(* rk_signal_give posts unless the value is already its maximum, 1; it     *)
(* does nothing with a null pointer.                                       *)
DeinitGive(c) ==
    /\ cpc[c] = "give"
    /\ CGoto(c, "join")
    /\ LET s == g_storage_signal[cid[c]] IN
         IF s = None
           THEN UNCHANGED <<sem, ub>>
           ELSE /\ sem' = [sem EXCEPT ![s] = IF @ = "0" THEN "1" ELSE @]
                /\ ub' = (ub \/ sem[s] = "freed")
    /\ UNCHANGED <<flags, muxer, pc, sid, g_storage_signal, waitsOn, record_thread_id,
                   hotplug, restarts>>

(* Mutant: the signal is freed without joining the record thread.          *)
DeinitNoJoin(c) ==
    /\ cpc[c] = "join"
    /\ CGoto(c, "destroy")
    /\ UNCHANGED <<flags, muxer, pc, sid, signals, waitsOn, record_thread_id,
                   hotplug, restarts, ub>>

(* pthread_join; joining a thread twice is undefined.                      *)
DeinitJoin(c) ==
    /\ cpc[c] = "join"
    /\ LET t == record_thread_id[cid[c]] IN
         /\ t \in Threads => pc[t] \in {"done", "joined"}
         /\ ub' = (ub \/ t = None \/ pc[t] = "joined")
         /\ pc' = IF t = None THEN pc ELSE [pc EXCEPT ![t] = "joined"]
    /\ CGoto(c, "destroy")
    /\ UNCHANGED <<flags, muxer, sid, signals, waitsOn, record_thread_id,
                   hotplug, restarts>>

(* Freeing signal s is undefined when it was freed before or when a thread *)
(* sleeps on it.                                                           *)
Destroy(s) ==
    IF s = None
      THEN UNCHANGED <<sem, ub>>
      ELSE /\ sem' = [sem EXCEPT ![s] = "freed"]
           /\ ub' = (ub \/ sem[s] = "freed" \/ \E t \in Threads : waitsOn[t] = s)

(* Mutant: g_storage_signal keeps the freed pointer.                       *)
DeinitDangling(c) ==
    /\ cpc[c] = "destroy"
    /\ Destroy(g_storage_signal[cid[c]])
    /\ DeinitReturns(c)
    /\ UNCHANGED <<flags, muxer, pc, sid, g_storage_signal, waitsOn, record_thread_id,
                   hotplug, restarts>>

DeinitDestroy(c) ==
    /\ cpc[c] = "destroy"
    /\ Destroy(g_storage_signal[cid[c]])
    /\ g_storage_signal' = [g_storage_signal EXCEPT ![cid[c]] = None]
    /\ DeinitReturns(c)
    /\ UNCHANGED <<flags, muxer, pc, sid, waitsOn, record_thread_id,
                   hotplug, restarts>>

(* rk_storage_muxer_init_by_id *)

(* A new thread or signal: one of the identities not used yet, always the  *)
(* same one, since identities are interchangeable.                         *)
Fresh(f) == LET free == {x \in Threads : f[x] = "absent"}
            IN IF free = {} THEN {} ELSE {CHOOSE x \in free : TRUE}

(* The record folder is created; on failure, and for a stream that is not  *)
(* enabled, the function returns.                                          *)
InitMkdir(c) ==
    /\ cpc[c] = "mkdir"
    /\ \/ cid[c] \in Enabled /\ CGoto(c, "renew")
       \/ (cid[c] \notin Enabled \/ "mkdir" \in Faults) /\ NextStream(c)
    /\ UNCHANGED <<flags, muxer, pc, sid, signals, waitsOn, record_thread_id,
                   hotplug, restarts, ub>>

(* A signal left from an earlier run is destroyed first.                   *)
InitRenew(c) ==
    /\ cpc[c] = "renew"
    /\ Destroy(g_storage_signal[cid[c]])
    /\ CGoto(c, "create")
    /\ UNCHANGED <<flags, muxer, pc, sid, g_storage_signal, waitsOn, record_thread_id,
                   hotplug, restarts>>

InitCreate(c) ==
    /\ cpc[c] = "create"
    /\ \E s \in Fresh(sem) :
         /\ sem' = [sem EXCEPT ![s] = "0"]
         /\ g_storage_signal' = [g_storage_signal EXCEPT ![cid[c]] = s]
    /\ CGoto(c, "start")
    /\ UNCHANGED <<flags, muxer, pc, sid, waitsOn, record_thread_id,
                   hotplug, restarts, ub>>

InitStart(c) ==
    /\ cpc[c] = "start"
    /\ g_storage_record_flag' = [g_storage_record_flag EXCEPT ![cid[c]] = 1]
    /\ \E t \in Fresh(pc) :
         /\ Goto(t, "check")
         /\ sid' = [sid EXCEPT ![t] = cid[c]]
         /\ record_thread_id' = [record_thread_id EXCEPT ![cid[c]] = t]
    /\ NextStream(c)
    /\ UNCHANGED <<record_flag, muxer, signals, waitsOn, hotplug, restarts, ub>>

-----------------------------------------------------------------------------
(* The main thread: rk_storage_init and rk_storage_deinit.                 *)

Begin(c, job, l) ==
    /\ cpc' = [cpc EXCEPT ![c] = l]
    /\ cjob' = [cjob EXCEPT ![c] = job]
    /\ cid' = [cid EXCEPT ![c] = 0]

(* rkipc_storage_set_dev_attr looks up the device of the mount path in the *)
(* mount table, and sets the record_flag of all streams but the last.      *)
set_dev_attr(found) ==
    record_flag' = [i \in Streams |->
        IF i \notin Managed THEN record_flag[i]
        ELSE IF found /\ i \in Enabled THEN 1 ELSE 0]

(* rkipc_storage_msg_create starts the message thread with an empty queue, *)
(* rkipc_storage_listen_msg_init also starts the listener.                 *)
msg_create == queue' = << >> /\ quit' = FALSE
listen_msg_init == listener_run' = TRUE /\ msg_create

(* The message thread and the listener run before the muxers start.  The   *)
(* device is found when the card is in, unless the mount table lags behind *)
(* the card ("mount").                                                     *)
rk_storage_init ==
    /\ cpc["main"] = "off"
    /\ restarts < MaxRestarts
    /\ restarts' = restarts + 1
    /\ \E found \in BOOLEAN :
         /\ "mount" \in Faults \/ found = (card = "in")
         /\ set_dev_attr(found)
    /\ listen_msg_init
    /\ cpc' = [cpc EXCEPT !["main"] = "next", !["msg"] = "idle"]
    /\ cjob' = [cjob EXCEPT !["main"] = "init"]
    /\ cid' = [cid EXCEPT !["main"] = 0]
    /\ UNCHANGED <<g_storage_record_flag, muxer, pc, sid, signals, waitsOn,
                   record_thread_id, card, events, ub>>

(* Unless "overlap" is among the faults, rk_storage_deinit is not called   *)
(* while a hotplug message waits or is handled.                            *)
Settled == queue = << >> /\ cpc["msg"] = "idle"

rk_storage_deinit ==
    /\ cpc["main"] = "idle"
    /\ "overlap" \in Faults \/ Settled
    /\ Begin("main", "deinit", "next")
    /\ UNCHANGED <<flags, muxer, pc, sid, signals, waitsOn, record_thread_id,
                   hotplug, restarts, ub>>

(* rkipc_storage_manager_deinit: join the listener, ...                    *)
StopListener ==
    /\ cpc["main"] = "listener"
    /\ listener_run' = FALSE
    /\ CGoto("main", "quit")
    /\ UNCHANGED <<flags, muxer, pc, sid, signals, waitsOn, record_thread_id,
                   queue, quit, card, events, restarts, ub>>

(* ... msg_destroy sets quit ...                                           *)
SetQuit ==
    /\ cpc["main"] = "quit"
    /\ quit' = TRUE
    /\ CGoto("main", "msgjoin")
    /\ UNCHANGED <<flags, muxer, pc, sid, signals, waitsOn, record_thread_id,
                   queue, listener_run, card, events, restarts, ub>>

(* ... and joins the message thread.                                       *)
JoinMsg ==
    /\ cpc["main"] = "msgjoin"
    /\ cpc["msg"] = "off"
    /\ CGoto("main", "off")
    /\ UNCHANGED <<flags, muxer, pc, sid, signals, waitsOn, record_thread_id,
                   hotplug, restarts, ub>>

-----------------------------------------------------------------------------
(* Hotplug: the listener queues device events, the message thread handles  *)
(* them.                                                                   *)

(* rkipc_storage_msg_send_msg and rkipc_storage_msg_put_msg_to_buffer.     *)
send_msg(type, own) == queue' = Append(queue, [type |-> type, own |-> own])

(* A device other than the card, or the card, is added or removed, or a    *)
(* "change" event arrives.  On "remove" the listener clears the flags of   *)
(* all streams before it queues the message.                               *)
DeviceEvent(type, own) ==
    /\ events < MaxEvents
    /\ events' = events + 1
    /\ own => card = (IF type = "add" THEN "out" ELSE "in")
    /\ card' = IF own /\ type # "changed" THEN (IF type = "add" THEN "in" ELSE "out") ELSE card
    /\ "overlap" \in Faults \/ cpc["main"] = "idle"
    /\ IF listener_run
         THEN /\ send_msg(type, own)
              /\ g_storage_record_flag' =
                   IF type = "remove" THEN [i \in Streams |-> 0] ELSE g_storage_record_flag
         ELSE UNCHANGED <<queue, g_storage_record_flag>>
    /\ UNCHANGED <<record_flag, muxer, pc, sid, signals, waitsOn, record_thread_id,
                   control, quit, listener_run, restarts, ub>>

(* Mutant: MSG_DEV_REMOVE is left to the flags the listener has cleared.   *)
MsgTakeNoRemove ==
    /\ cpc["msg"] = "idle" /\ ~quit
    /\ queue # << >>
    /\ queue' = Tail(queue)
    /\ IF Head(queue).type = "add" /\ Head(queue).own
         THEN Begin("msg", "add", "next") ELSE UNCHANGED control
    /\ UNCHANGED <<flags, muxer, pc, sid, signals, waitsOn, record_thread_id,
                   quit, listener_run, card, events, restarts, ub>>

(* rkipc_storage_msg_rec_msg_thread takes a message.  dev_add fails for a  *)
(* device other than the card, and for the card when it is not mounted     *)
(* yet; dev_remove never fails, whatever the device.                       *)
MsgTake ==
    /\ cpc["msg"] = "idle" /\ ~quit
    /\ queue # << >>
    /\ queue' = Tail(queue)
    /\ LET m == Head(queue) IN
         \/ m.type = "add" /\ m.own /\ Begin("msg", "add", "next")
         \/ m.type = "add" /\ (~m.own \/ "mount" \in Faults) /\ UNCHANGED control
         \/ m.type = "remove" /\ Begin("msg", "remove", "next")
         \/ m.type = "changed" /\ UNCHANGED control
    /\ UNCHANGED <<flags, muxer, pc, sid, signals, waitsOn, record_thread_id,
                   quit, listener_run, card, events, restarts, ub>>

MsgExit ==
    /\ cpc["msg"] = "idle" /\ quit
    /\ CGoto("msg", "off")
    /\ UNCHANGED <<flags, muxer, pc, sid, signals, waitsOn, record_thread_id,
                   hotplug, restarts, ub>>

-----------------------------------------------------------------------------
RecordThread(t) ==
    \/ RecordCheck(t) \/ LockSwap(t) \/ MuxerDeinit(t) \/ MuxerInit(t) \/ Publish(t)
    \/ RecordWait(t) \/ RecordWoken(t) \/ LockStop(t) \/ Close(t)

FrameWriter(w) == WriteLock(w) \/ WriteTest(w) \/ WriteDone(w)

ServerCall(c) ==
    \/ LockSwap(c) \/ MuxerDeinit(c) \/ MuxerInit(c) \/ Publish(c)
    \/ LockStop(c) \/ Close(c)

Controller(c) ==
    \/ LoopTop(c) \/ LoopEnd(c)
    \/ DeinitFlag(c) \/ DeinitTest(c) \/ DeinitGive(c) \/ DeinitJoin(c) \/ DeinitDestroy(c)
    \/ InitMkdir(c) \/ InitRenew(c) \/ InitCreate(c) \/ InitStart(c)

Shutdown == StopListener \/ SetQuit \/ JoinMsg

Hotplug ==
    \E type \in {"add", "remove", "changed"}, own \in BOOLEAN :
        (own \/ Foreign) /\ DeviceEvent(type, own)

Next ==
    \/ \E t \in Threads : RecordThread(t) \/ RecordTimeout(t)
    \/ \E w \in Writers : FrameWriter(w)
    \/ \E c \in Clients : rk_storage_record_start(c) \/ rk_storage_record_stop(c) \/ ServerCall(c)
    \/ \E c \in Controllers : Controller(c)
    \/ rk_storage_init \/ rk_storage_deinit \/ Shutdown
    \/ Hotplug \/ MsgTake \/ MsgExit

(* Every started call goes on.  Locks are contended by the encoder threads *)
(* at frame rate for a short time each, so a thread that wants the lock is *)
(* taken to get it: strong fairness.  Nothing is assumed of the calls of   *)
(* the main thread, of the clients, of hotplug, nor of file_duration.      *)
Fairness ==
    /\ \A t \in Threads : SF_vars(RecordThread(t))
    /\ \A w \in Writers : WF_vars(WriteTest(w) \/ WriteDone(w))
    /\ \A c \in Clients : SF_vars(ServerCall(c))
    /\ \A c \in Controllers : WF_vars(Controller(c))
    /\ WF_vars(Shutdown) /\ WF_vars(MsgTake) /\ WF_vars(MsgExit)

Spec == Init /\ [][Next]_vars
FairSpec == Spec /\ Fairness
-----------------------------------------------------------------------------
(* Properties *)

(* A frame reaches rkmuxer_write_video_frame or rkmuxer_write_audio_frame  *)
(* only between rkmuxer_init and rkmuxer_deinit of its stream, although    *)
(* record threads and clients close and reopen the muxer at any time.      *)
FramesInsideSession ==
    \A w \in Writers : pc[w] = "write" => session[sid[w]] = "inited"

(* Whenever nobody is inside the muxer lock, g_record_run_ (what           *)
(* rk_storage_record_statue_get reports) says whether the muxer of the     *)
(* stream is initialised, whoever opened or closed it last.                *)
RunMatchesSession ==
    g_rkmuxer_mutex = None =>
        \A i \in Streams : g_record_run_[i] = 1 <=> session[i] = "inited"

(* rkmuxer_init is never called for a stream whose muxer was not           *)
(* deinitialised since the last rkmuxer_init (that file would never be     *)
(* closed).                                                                *)
NoDoubleInit ==
    \A p \in Procs : pc[p] = "open" => session[sid[p]] = "deinited"

(* The recorder implements the protocol of the muxer library.              *)
Muxer == INSTANCE MuxerSession WITH
    inUse <- {sid[w] : w \in {v \in Writers : pc[v] = "write"}}

(* Whatever record threads, encoder threads, server threads, hotplug and   *)
(* restarts do at the same time, their calls of rkmuxer_init, _deinit and  *)
(* _write_*_frame are a sequence the library allows: in particular no      *)
(* muxer is closed or reopened while a frame is being written.             *)
ImplementsSession == Muxer!Spec

Live(t) == pc[t] \notin {"absent", "done", "joined"}

(* Starting, stopping and restarting recordings never leaves two record    *)
(* threads cutting files of one stream, nor a live one that                *)
(* rk_storage_muxer_deinit_by_id could not find and join.                  *)
OneRecorder ==
    \A t \in Threads : Live(t) =>
        record_thread_id[sid[t]] = t /\ g_storage_signal[sid[t]] # None

(* No record thread sleeps on a freed signal, no signal is freed twice or  *)
(* given after it was freed, no thread is joined twice.                    *)
NoUndefinedBehaviour == ~ub

(* When rk_storage_deinit has returned, every record thread was joined and *)
(* every signal freed.                                                     *)
DeinitLeavesNothing ==
    cpc["main"] = "off" =>
        /\ \A t \in Threads : pc[t] \in {"absent", "joined"}
        /\ \A s \in Threads : sem[s] \in {"absent", "freed"}

(* rk_storage_deinit returns: no join waits for a record thread that was   *)
(* not woken, even if file_duration never passes.                          *)
DeinitReturnsEventually == cjob["main"] = "deinit" ~> cpc["main"] = "off"

(* A client opens the muxer of stream 0 when no record thread of the       *)
(* stream is left that would close it again.                               *)
StartedAlone ==
    \E c \in Clients : pc[c] = "publish" /\ \A t \in Threads : Live(t) => sid[t] # sid[c]

(* When the card stays out, every record thread ends for good, also when   *)
(* the removal comes while an earlier add message is still being handled,  *)
(* and with it every recording, those that clients started under a record  *)
(* thread included.  A recording that a client starts when there is no     *)
(* record thread goes on: rk_storage_record_start tests neither the flag   *)
(* nor the card.                                                           *)
RemovalStopsRecording ==
    <>[](card = "out") =>
        /\ <>[](\A t \in Threads : ~Live(t))
        /\ \A i \in Streams \ {0} : <>[](session[i] = "deinited")
        /\ <>[](session[0] = "deinited") \/ <>StartedAlone

Up == cpc["main"] = "idle"

(* The removal of another device is waiting to be handled.  Handling it    *)
(* stops all recording, since dev_remove reports no error for a device     *)
(* that is not the card, and nothing starts it again.                      *)
ForeignRemoval == \E k \in DOMAIN queue : queue[k].type = "remove" /\ ~queue[k].own

(* rk_storage_record_stop closes a file that its record thread reopens     *)
(* only when file_duration has passed.                                     *)
StoppedByHand == \E c \in Clients : pc[c] = "stop"

(* When the card stays in and the system stays up, every enabled stream of *)
(* S is recorded again and again, if no other device is ever removed and   *)
(* no client stops a recording.                                            *)
Resumes(S) ==
    <>[](card = "in" /\ Up) /\ []~ForeignRemoval /\ []~StoppedByHand
        => \A i \in Enabled \cap S : []<>(session[i] = "inited")

(* ... for the streams that the message handlers manage.                   *)
RecordingResumes == Resumes(Managed)

(* ... for every enabled stream, which is what the configuration's         *)
(* "enable" says ("Whether to enable recording for this stream").          *)
EnabledStreamRecords == Resumes(Streams)
=============================================================================
