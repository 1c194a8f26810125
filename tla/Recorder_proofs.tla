--------------------------- MODULE Recorder_proofs ---------------------------
(***************************************************************************)
(* Proofs about Recorder for any number of streams, record threads,        *)
(* encoder threads and clients, with every fault: the type invariant, that *)
(* g_rkmuxer_mutex and g_record_run_ protect the muxer, and the life cycle *)
(* of the record threads and of their signals.  Only the last part needs   *)
(* rk_storage_init and rk_storage_deinit not to overlap the handling of    *)
(* hotplug.                                                                *)
(***************************************************************************)
EXTENDS Recorder, TLAPS

(* A thread is between lock and unlock exactly when it holds the mutex.    *)
LockInv == \A p \in Procs : pc[p] \in InSection <=> g_rkmuxer_mutex = p

Reopening == {"swap", "open", "publish", "close"}

(* A stream nobody is reopening has its run flag set exactly when its      *)
(* muxer is initialised; while someone is, the flag is down.               *)
StreamInv ==
    \A i \in Streams :
        \/ g_record_run_[i] = 1 /\ session[i] = "inited"
        \/ g_record_run_[i] = 0 /\ session[i] = "deinited"
        \/ g_record_run_[i] = 0 /\ \E p \in Procs : sid[p] = i /\ pc[p] \in Reopening

(* What a thread inside the section knows of its stream.                   *)
InsideInv ==
    \A p \in Procs :
        /\ pc[p] \in Reopening => g_record_run_[sid[p]] = 0
        /\ pc[p] = "open" => session[sid[p]] = "deinited"
        /\ pc[p] = "publish" => session[sid[p]] = "inited"
        /\ pc[p] = "write" => g_record_run_[sid[p]] = 1

IInv == LockInv /\ StreamInv /\ InsideInv

(* A fresh identity is one of those not in use.                            *)
LEMMA FreshIsAbsent ==
    ASSUME NEW f, NEW x \in Fresh(f)
    PROVE  x \in Threads /\ f[x] = "absent"
BY DEF Fresh

(* The streams a loop visits are streams.                                  *)
LEMMA LoopsOverStreams ==
    ASSUME NEW job
    PROVE  LoopStreams(job) \subseteq Streams
BY RecorderAssumption DEF LoopStreams, Streams, Managed

(* A controller that leaves a muxer function, or moves on inside one,      *)
(* stays well typed.                                                       *)
LEMMA StreamIsNat == Streams \subseteq Nat
BY RecorderAssumption DEF Streams

LEMMA GotoType ==
    ASSUME ControlType, NEW c \in Controllers, NEW l \in ControlPc, CGoto(c, l),
           l \in InBody => cid[c] \in Streams
    PROVE  ControlType'
BY DEF ControlType, CGoto

LEMMA NextStreamType ==
    ASSUME ControlType, NEW c \in Controllers, NextStream(c)
    PROVE  ControlType'
BY DEF ControlType, NextStream, InBody, ControlPc

LEMMA ReturnType ==
    ASSUME ControlType, NEW c \in Controllers, cid[c] \in Streams, DeinitReturns(c)
    PROVE  ControlType'
BY GotoType, NextStreamType DEF DeinitReturns, ControlPc

LEMMA InitType == Init => TypeOK
<1> SUFFICES ASSUME Init PROVE TypeOK OBVIOUS
<1>1. FlagType /\ MuxerType BY DEF Init, FlagType, MuxerType
<1>2. ThreadType
  BY RecorderAssumption DEF Init, ThreadType, Streams, Procs, ThreadPc, ClientPc, WriterPc
<1>3. SignalType BY DEF Init, SignalType
<1>4. ControlType BY DEF Init, ControlType, ControlPc, InBody
<1>5. OtherType
  <2>1. queue \in Seq(Message) BY DEF Init
  <2>2. events \in Nat /\ restarts \in Nat BY DEF Init
  <2> QED BY <2>1, <2>2, Zenon DEF Init, OtherType
<1> QED BY <1>1, <1>2, <1>3, <1>4, <1>5 DEF TypeOK

(* Parts of the type invariant whose variables do not change.              *)
LEMMA FlagStays == ASSUME FlagType, UNCHANGED flags PROVE FlagType'
BY DEF FlagType, flags
LEMMA MuxerStays == ASSUME MuxerType, UNCHANGED muxer PROVE MuxerType'
BY DEF MuxerType, muxer
LEMMA ThreadStays == ASSUME ThreadType, UNCHANGED <<pc, sid, waitsOn>> PROVE ThreadType'
BY DEF ThreadType
LEMMA SignalStays ==
    ASSUME SignalType, UNCHANGED signals, UNCHANGED record_thread_id PROVE SignalType'
BY DEF SignalType, signals
LEMMA ControlStays == ASSUME ControlType, UNCHANGED control PROVE ControlType'
BY DEF ControlType, control
LEMMA OtherStays ==
    ASSUME OtherType, UNCHANGED <<hotplug, restarts>>, ub' \in BOOLEAN
    PROVE  OtherType'
BY DEF OtherType, hotplug

(* The critical sections of record threads and clients.                    *)
LEMMA SectionType ==
    ASSUME TypeOK, NEW p \in Threads \cup Clients,
           LockSwap(p) \/ LockStop(p) \/ MuxerDeinit(p) \/ MuxerInit(p) \/ Publish(p) \/ Close(p)
    PROVE  TypeOK'
<1> USE DEF LockSwap, LockStop, Enter, MuxerDeinit, MuxerInit, Publish, Close, Goto
<1>1. FlagType' /\ SignalType' /\ ControlType'
  BY FlagStays, SignalStays, ControlStays DEF TypeOK
<1>2. MuxerType' BY DEF TypeOK, MuxerType, ThreadType, Procs
<1>3. ThreadType'
  BY RecorderAssumption DEF TypeOK, ThreadType, Procs, ThreadPc, ClientPc
<1>4. OtherType' BY OtherStays DEF TypeOK, OtherType
<1> QED BY <1>1, <1>2, <1>3, <1>4 DEF TypeOK

(* The steps of a record thread outside the sections.                      *)
LEMMA RecordType ==
    ASSUME TypeOK, NEW t \in Threads,
           RecordCheck(t) \/ RecordWait(t) \/ RecordWoken(t) \/ RecordTimeout(t)
    PROVE  TypeOK'
<1> USE DEF RecordCheck, RecordWait, RecordWoken, RecordTimeout, Stay, Goto
<1>1. FlagType' /\ MuxerType' /\ ControlType'
  BY FlagStays, MuxerStays, ControlStays DEF TypeOK
<1>2. SignalType' BY DEF TypeOK, SignalType, ThreadType
<1>3. ThreadType'
  BY RecorderAssumption DEF TypeOK, ThreadType, SignalType, Procs, ThreadPc
<1>4. OtherType' BY OtherStays DEF TypeOK, OtherType
<1> QED BY <1>1, <1>2, <1>3, <1>4 DEF TypeOK

(* The encoder threads.                                                    *)
LEMMA WriterType ==
    ASSUME TypeOK, NEW w \in Writers, FrameWriter(w)
    PROVE  TypeOK'
<1> USE DEF FrameWriter, WriteLock, WriteTest, WriteDone, Goto
<1>1. FlagType' /\ SignalType' /\ ControlType'
  BY FlagStays, SignalStays, ControlStays DEF TypeOK
<1>2. MuxerType' BY DEF TypeOK, MuxerType, Procs
<1>3. ThreadType'
  BY RecorderAssumption DEF TypeOK, ThreadType, Procs, WriterPc
<1>4. OtherType' BY OtherStays DEF TypeOK, OtherType
<1> QED BY <1>1, <1>2, <1>3, <1>4 DEF TypeOK

(* The calls a client begins.                                              *)
LEMMA CommandType ==
    ASSUME TypeOK, NEW c \in Clients, rk_storage_record_start(c) \/ rk_storage_record_stop(c)
    PROVE  TypeOK'
<1> USE DEF rk_storage_record_start, rk_storage_record_stop, Command, Goto
<1>1. FlagType' /\ MuxerType' /\ SignalType' /\ ControlType'
  BY FlagStays, MuxerStays, SignalStays, ControlStays DEF TypeOK
<1>2. ThreadType'
  BY RecorderAssumption DEF TypeOK, ThreadType, Procs, ClientPc, Streams
<1>3. OtherType' BY DEF TypeOK, OtherType, hotplug
<1> QED BY <1>1, <1>2, <1>3 DEF TypeOK

(* The controllers.                                                        *)
LEMMA ControllerType ==
    ASSUME TypeOK, NEW c \in Controllers, Controller(c)
    PROVE  TypeOK'
<1>1. CASE LoopTop(c)
  <2>1. FlagType' BY <1>1, LoopsOverStreams DEF TypeOK, FlagType, LoopTop
  <2>2. ControlType'
    BY <1>1, GotoType, LoopsOverStreams DEF TypeOK, LoopTop, ControlPc
  <2>3. MuxerType' /\ ThreadType' /\ SignalType' /\ OtherType'
    BY <1>1, MuxerStays, ThreadStays, SignalStays, OtherStays DEF TypeOK, LoopTop, OtherType
  <2> QED BY <2>1, <2>2, <2>3 DEF TypeOK
<1>2. CASE LoopEnd(c)
  <2>1. ControlType' BY <1>2, GotoType DEF TypeOK, LoopEnd, ControlPc, InBody
  <2>2. FlagType' /\ MuxerType' /\ ThreadType' /\ SignalType' /\ OtherType'
    BY <1>2, FlagStays, MuxerStays, ThreadStays, SignalStays, OtherStays
       DEF TypeOK, LoopEnd, OtherType
  <2> QED BY <2>1, <2>2 DEF TypeOK
<1>3. CASE DeinitFlag(c)
  <2>1. cid[c] \in Streams BY <1>3 DEF TypeOK, ControlType, DeinitFlag, InBody
  <2>2. FlagType' BY <1>3, <2>1 DEF TypeOK, FlagType, DeinitFlag
  <2>3. ControlType' BY <1>3, <2>1, GotoType, ReturnType DEF TypeOK, DeinitFlag, ControlPc
  <2>4. MuxerType' /\ ThreadType' /\ SignalType' /\ OtherType'
    BY <1>3, MuxerStays, ThreadStays, SignalStays, OtherStays DEF TypeOK, DeinitFlag, OtherType
  <2> QED BY <2>2, <2>3, <2>4 DEF TypeOK
<1>4. CASE DeinitGive(c)
  <2>1. cid[c] \in Streams BY <1>4 DEF TypeOK, ControlType, DeinitGive, InBody
  <2>2. ControlType' BY <1>4, <2>1, GotoType DEF TypeOK, DeinitGive, ControlPc, InBody
  <2>3. SignalType' BY <1>4, <2>1 DEF TypeOK, SignalType, DeinitGive
  <2>4. FlagType' /\ MuxerType' /\ ThreadType'
    BY <1>4, FlagStays, MuxerStays, ThreadStays DEF TypeOK, DeinitGive
  <2>5. ub' \in BOOLEAN BY <1>4, Zenon DEF TypeOK, OtherType, DeinitGive
  <2>6. OtherType' BY <1>4, <2>5, OtherStays DEF TypeOK, DeinitGive
  <2> QED BY <2>2, <2>3, <2>4, <2>6 DEF TypeOK
<1>5. CASE DeinitJoin(c)
  <2>1. cid[c] \in Streams BY <1>5 DEF TypeOK, ControlType, DeinitJoin, InBody
  <2>2. ControlType' BY <1>5, <2>1, GotoType DEF TypeOK, DeinitJoin, ControlPc
  <2>3. record_thread_id[cid[c]] \in Threads \cup {None} BY <2>1 DEF TypeOK, SignalType
  <2>4. ThreadType'
    BY <1>5, <2>3, RecorderAssumption DEF TypeOK, ThreadType, DeinitJoin, Procs, ThreadPc
  <2>5. FlagType' /\ MuxerType' /\ SignalType'
    BY <1>5, FlagStays, MuxerStays, SignalStays DEF TypeOK, DeinitJoin
  <2>6. ub' \in BOOLEAN BY <1>5, Zenon DEF TypeOK, OtherType, DeinitJoin
  <2>7. OtherType' BY <1>5, <2>6, OtherStays DEF TypeOK, DeinitJoin
  <2> QED BY <2>2, <2>4, <2>5, <2>7 DEF TypeOK
<1>6. CASE DeinitDestroy(c)
  <2>1. cid[c] \in Streams BY <1>6 DEF TypeOK, ControlType, DeinitDestroy, InBody
  <2>2. ControlType' BY <1>6, <2>1, ReturnType DEF TypeOK, DeinitDestroy
  <2>3. SignalType' BY <1>6, <2>1 DEF TypeOK, SignalType, DeinitDestroy, Destroy
  <2>4. FlagType' /\ MuxerType' /\ ThreadType'
    BY <1>6, FlagStays, MuxerStays, ThreadStays DEF TypeOK, DeinitDestroy
  <2>5. ub' \in BOOLEAN BY <1>6, Zenon DEF TypeOK, OtherType, DeinitDestroy, Destroy
  <2>6. OtherType' BY <1>6, <2>5, OtherStays DEF TypeOK, DeinitDestroy
  <2> QED BY <2>2, <2>3, <2>4, <2>6 DEF TypeOK
<1>7. CASE InitMkdir(c)
  <2>1. cid[c] \in Streams BY <1>7 DEF TypeOK, ControlType, InitMkdir, InBody
  <2>2. ControlType' BY <1>7, <2>1, GotoType, NextStreamType DEF TypeOK, InitMkdir, ControlPc
  <2>3. FlagType' /\ MuxerType' /\ ThreadType' /\ SignalType' /\ OtherType'
    BY <1>7, FlagStays, MuxerStays, ThreadStays, SignalStays, OtherStays
       DEF TypeOK, InitMkdir, OtherType
  <2> QED BY <2>2, <2>3 DEF TypeOK
<1>8. CASE InitRenew(c)
  <2>1. cid[c] \in Streams BY <1>8 DEF TypeOK, ControlType, InitRenew, InBody
  <2>2. ControlType' BY <1>8, <2>1, GotoType DEF TypeOK, InitRenew, ControlPc
  <2>3. SignalType' BY <1>8, <2>1 DEF TypeOK, SignalType, InitRenew, Destroy
  <2>4. FlagType' /\ MuxerType' /\ ThreadType'
    BY <1>8, FlagStays, MuxerStays, ThreadStays DEF TypeOK, InitRenew
  <2>5. ub' \in BOOLEAN BY <1>8, Zenon DEF TypeOK, OtherType, InitRenew, Destroy
  <2>6. OtherType' BY <1>8, <2>5, OtherStays DEF TypeOK, InitRenew
  <2> QED BY <2>2, <2>3, <2>4, <2>6 DEF TypeOK
<1>9. CASE InitCreate(c)
  <2>1. cid[c] \in Streams BY <1>9 DEF TypeOK, ControlType, InitCreate, InBody
  <2>2. ControlType' BY <1>9, <2>1, GotoType DEF TypeOK, InitCreate, ControlPc
  <2>3. SignalType' BY <1>9, <2>1, FreshIsAbsent DEF TypeOK, SignalType, InitCreate
  <2>4. FlagType' /\ MuxerType' /\ ThreadType' /\ OtherType'
    BY <1>9, FlagStays, MuxerStays, ThreadStays, OtherStays DEF TypeOK, InitCreate, OtherType
  <2> QED BY <2>2, <2>3, <2>4 DEF TypeOK
<1>10. CASE InitStart(c)
  <2>1. cid[c] \in Streams BY <1>10 DEF TypeOK, ControlType, InitStart, InBody
  <2>2. ControlType' BY <1>10, NextStreamType DEF TypeOK, InitStart
  <2>3. FlagType' BY <1>10, <2>1 DEF TypeOK, FlagType, InitStart
  <2>4. SignalType' BY <1>10, <2>1, FreshIsAbsent DEF TypeOK, SignalType, InitStart, signals
  <2>5. ThreadType'
    BY <1>10, <2>1, FreshIsAbsent, RecorderAssumption
       DEF TypeOK, ThreadType, InitStart, Goto, Procs, ThreadPc
  <2>6. MuxerType' /\ OtherType'
    BY <1>10, MuxerStays, OtherStays DEF TypeOK, InitStart, OtherType
  <2> QED BY <2>2, <2>3, <2>4, <2>5, <2>6 DEF TypeOK
<1>11. CASE DeinitTest(c)
  <2>1. cid[c] \in Streams BY <1>11 DEF TypeOK, ControlType, DeinitTest, InBody
  <2>2. ControlType' BY <1>11, <2>1, GotoType, ReturnType DEF TypeOK, DeinitTest, ControlPc
  <2>3. FlagType' /\ MuxerType' /\ ThreadType' /\ SignalType' /\ OtherType'
    BY <1>11, FlagStays, MuxerStays, ThreadStays, SignalStays, OtherStays
       DEF TypeOK, DeinitTest, OtherType
  <2> QED BY <2>2, <2>3 DEF TypeOK
<1> QED BY <1>1, <1>2, <1>3, <1>4, <1>5, <1>6, <1>7, <1>8, <1>9, <1>10, <1>11
   DEF Controller

(* The main thread's calls.                                                *)
LEMMA MainType ==
    ASSUME TypeOK, rk_storage_init \/ rk_storage_deinit \/ Shutdown
    PROVE  TypeOK'
<1>1. CASE rk_storage_init
  <2>1. FlagType' BY <1>1 DEF TypeOK, FlagType, rk_storage_init, set_dev_attr
  <2>2. ControlType'
    BY <1>1 DEF TypeOK, ControlType, rk_storage_init, Controllers, ControlPc, InBody
  <2>3. MuxerType' /\ ThreadType' /\ SignalType'
    BY <1>1, MuxerStays, ThreadStays, SignalStays DEF TypeOK, rk_storage_init
  <2>4. queue' \in Seq(Message) BY <1>1 DEF rk_storage_init, listen_msg_init, msg_create
  <2>5. restarts' \in Nat BY <1>1 DEF TypeOK, OtherType, rk_storage_init
  <2>6. OtherType'
    BY <1>1, <2>4, <2>5, Zenon DEF TypeOK, OtherType, rk_storage_init, listen_msg_init, msg_create
  <2> QED BY <2>1, <2>2, <2>3, <2>6 DEF TypeOK
<1>2. CASE rk_storage_deinit
  <2>1. ControlType'
    BY <1>2 DEF TypeOK, ControlType, rk_storage_deinit, Begin, Controllers, ControlPc, InBody
  <2>2. FlagType' /\ MuxerType' /\ ThreadType' /\ SignalType' /\ OtherType'
    BY <1>2, FlagStays, MuxerStays, ThreadStays, SignalStays, OtherStays
       DEF TypeOK, rk_storage_deinit, OtherType
  <2> QED BY <2>1, <2>2 DEF TypeOK
<1>3. CASE Shutdown
  <2> USE DEF Shutdown, StopListener, SetQuit, JoinMsg
  <2>1. ControlType'
    BY <1>3, GotoType DEF TypeOK, Controllers, ControlPc, InBody
  <2>2. FlagType' /\ MuxerType' /\ ThreadType' /\ SignalType'
    BY <1>3, FlagStays, MuxerStays, ThreadStays, SignalStays DEF TypeOK
  <2>3. OtherType' BY <1>3, Zenon DEF TypeOK, OtherType, hotplug
  <2> QED BY <2>1, <2>2, <2>3 DEF TypeOK
<1> QED BY <1>1, <1>2, <1>3

(* Hotplug and the message thread.                                         *)
LEMMA HotplugType ==
    ASSUME TypeOK, Hotplug \/ MsgTake \/ MsgExit
    PROVE  TypeOK'
<1>1. CASE Hotplug
  <2>1. PICK type \in {"add", "remove", "changed"}, own \in BOOLEAN : DeviceEvent(type, own)
    BY <1>1 DEF Hotplug
  <2>2. FlagType' BY <2>1 DEF TypeOK, FlagType, DeviceEvent
  <2>3. MuxerType' /\ ThreadType' /\ SignalType' /\ ControlType'
    BY <2>1, MuxerStays, ThreadStays, SignalStays, ControlStays DEF TypeOK, DeviceEvent
  <2>4. [type |-> type, own |-> own] \in Message BY DEF Message
  <2>5. queue' \in Seq(Message) BY <2>1, <2>4 DEF TypeOK, OtherType, DeviceEvent, send_msg
  <2>6. events' \in Nat BY <2>1 DEF TypeOK, OtherType, DeviceEvent
  <2>7. card' \in {"in", "out"} BY <2>1 DEF TypeOK, OtherType, DeviceEvent
  <2>8. OtherType' BY <2>1, <2>5, <2>6, <2>7, Zenon DEF TypeOK, OtherType, DeviceEvent, send_msg
  <2> QED BY <2>2, <2>3, <2>8 DEF TypeOK
<1>2. CASE MsgTake
  <2>1. ControlType'
    BY <1>2, ControlStays
       DEF TypeOK, ControlType, MsgTake, Begin, Controllers, ControlPc, InBody
  <2>2. FlagType' /\ MuxerType' /\ ThreadType' /\ SignalType'
    BY <1>2, FlagStays, MuxerStays, ThreadStays, SignalStays DEF TypeOK, MsgTake
  <2>3. queue' \in Seq(Message) BY <1>2 DEF TypeOK, OtherType, MsgTake
  <2>4. OtherType' BY <1>2, <2>3, Zenon DEF TypeOK, OtherType, MsgTake
  <2> QED BY <2>1, <2>2, <2>4 DEF TypeOK
<1>3. CASE MsgExit
  <2>1. ControlType' BY <1>3, GotoType DEF TypeOK, MsgExit, Controllers, ControlPc, InBody
  <2>2. FlagType' /\ MuxerType' /\ ThreadType' /\ SignalType' /\ OtherType'
    BY <1>3, FlagStays, MuxerStays, ThreadStays, SignalStays, OtherStays
       DEF TypeOK, MsgExit, OtherType
  <2> QED BY <2>1, <2>2 DEF TypeOK
<1> QED BY <1>1, <1>2, <1>3

LEMMA StepType == TypeOK /\ [Next]_vars => TypeOK'
<1> SUFFICES ASSUME TypeOK, [Next]_vars PROVE TypeOK' OBVIOUS
<1>1. ASSUME NEW t \in Threads, RecordThread(t) \/ RecordTimeout(t) PROVE TypeOK'
  BY <1>1, SectionType, RecordType DEF RecordThread
<1>2. ASSUME NEW c \in Clients,
             rk_storage_record_start(c) \/ rk_storage_record_stop(c) \/ ServerCall(c)
      PROVE  TypeOK'
  BY <1>2, SectionType, CommandType DEF ServerCall
<1>3. CASE UNCHANGED vars
  BY <1>3, FlagStays, MuxerStays, ThreadStays, SignalStays, ControlStays, OtherStays
     DEF TypeOK, vars, OtherType
<1> QED BY <1>1, <1>2, <1>3, WriterType, ControllerType, MainType, HotplugType DEF Next

(* The variables of Recorder always have their types; in particular a      *)
(* controller never indexes the arrays of storage.c past STORAGE_NUM and a *)
(* record thread never sleeps on a null signal.                            *)
THEOREM TypeCorrect == Spec => []TypeOK
<1>1. Init => TypeOK BY InitType
<1>2. TypeOK /\ [Next]_vars => TypeOK' BY StepType
<1> QED BY <1>1, <1>2, PTL DEF Spec

-----------------------------------------------------------------------------
(* The muxer's lock and run flag.                                          *)

LEMMA InitInv == Init => IInv
BY RecorderAssumption
   DEF Init, IInv, LockInv, StreamInv, InsideInv, InSection, Reopening, Procs, Streams

(* A thread that moves outside the section, and one that leaves its        *)
(* position alone, keep the invariant.                                     *)
LEMMA OutsideInv ==
    ASSUME TypeOK, IInv, UNCHANGED muxer, NEW p \in Procs,
           pc[p] \notin InSection, pc'[p] \notin InSection,
           \A q \in Procs : q # p => pc'[q] = pc[q] /\ sid'[q] = sid[q]
    PROVE  IInv'
<1>1. LockInv'
  BY DEF IInv, LockInv, muxer
<1>2. InsideInv'
  BY DEF IInv, InsideInv, InSection, Reopening, muxer
<1>3. StreamInv'
  <2> SUFFICES ASSUME NEW i \in Streams,
                      ~(g_record_run_'[i] = 1 /\ session'[i] = "inited"),
                      ~(g_record_run_'[i] = 0 /\ session'[i] = "deinited")
               PROVE  g_record_run_'[i] = 0 /\ \E q \in Procs : sid'[q] = i /\ pc'[q] \in Reopening
    BY DEF StreamInv
  <2>1. PICK q \in Procs : g_record_run_[i] = 0 /\ sid[q] = i /\ pc[q] \in Reopening
    BY DEF IInv, StreamInv, muxer
  <2>2. q # p BY <2>1 DEF Reopening, InSection
  <2> QED BY <2>1, <2>2 DEF muxer
<1> QED BY <1>1, <1>2, <1>3 DEF IInv

LEMMA StillInv ==
    ASSUME IInv, UNCHANGED muxer, UNCHANGED <<pc, sid>>
    PROVE  IInv'
BY DEF IInv, LockInv, StreamInv, InsideInv, muxer

(* Taking the lock lowers the run flag.                                    *)
LEMMA EnterInv ==
    ASSUME TypeOK, IInv, NEW p \in Threads \cup Clients, NEW l \in {"swap", "close"},
           pc[p] \notin InSection, Enter(p, l)
    PROVE  IInv'
<1> USE DEF Enter, Goto
<1>0. p \in Procs /\ sid[p] \in Streams BY DEF TypeOK, ThreadType, Procs
<1>1. \A q \in Procs : pc[q] \notin InSection
  BY RecorderAssumption DEF IInv, LockInv
<1>2. LockInv'
  BY <1>0, <1>1, RecorderAssumption DEF IInv, LockInv, InSection, TypeOK, ThreadType
<1>3. InsideInv'
  BY <1>0, <1>1 DEF InsideInv, InSection, Reopening, TypeOK, ThreadType, MuxerType
<1>4. StreamInv'
  <2> SUFFICES ASSUME NEW i \in Streams
               PROVE  \/ g_record_run_'[i] = 1 /\ session'[i] = "inited"
                      \/ g_record_run_'[i] = 0 /\ session'[i] = "deinited"
                      \/ g_record_run_'[i] = 0 /\ \E q \in Procs : sid'[q] = i /\ pc'[q] \in Reopening
    BY DEF StreamInv
  <2>1. CASE i = sid[p]
    BY <1>0, <2>1 DEF Reopening, TypeOK, ThreadType, MuxerType
  <2>2. CASE i # sid[p]
    BY <1>0, <1>1, <2>2 DEF IInv, StreamInv, Reopening, InSection, TypeOK, MuxerType
  <2> QED BY <2>1, <2>2
<1> QED BY <1>2, <1>3, <1>4 DEF IInv

(* Only the holder of the lock is inside.                                  *)
LEMMA Alone ==
    ASSUME IInv, NEW p \in Procs, pc[p] \in InSection
    PROVE  g_rkmuxer_mutex = p /\ \A q \in Procs : q # p => pc[q] \notin InSection
BY DEF IInv, LockInv

LEMMA InsideStepInv ==
    ASSUME TypeOK, IInv, NEW p \in Threads \cup Clients,
           MuxerDeinit(p) \/ MuxerInit(p) \/ Publish(p) \/ Close(p)
    PROVE  IInv'
<1> USE DEF MuxerDeinit, MuxerInit, Publish, Close, Goto
<1>0. p \in Procs /\ sid[p] \in Streams /\ p # None
  BY RecorderAssumption DEF TypeOK, ThreadType, Procs
<1>1. pc[p] \in Reopening /\ pc[p] \in InSection BY DEF Reopening, InSection
<1>2. g_rkmuxer_mutex = p /\ \A q \in Procs : q # p => pc[q] \notin InSection
  BY <1>0, <1>1, Alone
<1>3. LockInv'
  BY <1>0, <1>2, RecorderAssumption DEF IInv, LockInv, InSection, TypeOK, ThreadType
<1>4. InsideInv'
  BY <1>0, <1>2 DEF IInv, InsideInv, InSection, Reopening, TypeOK, ThreadType, MuxerType
<1>5. StreamInv'
  <2> SUFFICES ASSUME NEW i \in Streams
               PROVE  \/ g_record_run_'[i] = 1 /\ session'[i] = "inited"
                      \/ g_record_run_'[i] = 0 /\ session'[i] = "deinited"
                      \/ g_record_run_'[i] = 0 /\ \E q \in Procs : sid'[q] = i /\ pc'[q] \in Reopening
    BY DEF StreamInv
  <2>1. CASE i = sid[p]
    BY <1>0, <1>1, <2>1 DEF IInv, InsideInv, Reopening, TypeOK, ThreadType, MuxerType
  <2>2. CASE i # sid[p]
    <3>1. \A q \in Procs : pc[q] \in Reopening => q = p
      BY <1>2 DEF Reopening, InSection
    <3>2. g_record_run_'[i] = g_record_run_[i] /\ session'[i] = session[i]
      BY <1>0, <2>2 DEF TypeOK, MuxerType
    <3> QED BY <2>2, <3>1, <3>2 DEF IInv, StreamInv
  <2> QED BY <2>1, <2>2
<1> QED BY <1>3, <1>4, <1>5 DEF IInv

LEMMA WriterInv ==
    ASSUME TypeOK, IInv, NEW w \in Writers, FrameWriter(w)
    PROVE  IInv'
<1> USE DEF FrameWriter, WriteLock, WriteTest, WriteDone, Goto
<1>0. w \in Procs /\ w # None BY RecorderAssumption DEF Procs
<1>1. pc[w] \notin Reopening BY DEF Reopening
<1>2. \A q \in Procs : q # w => pc'[q] = pc[q] /\ sid'[q] = sid[q]
  BY <1>0 DEF TypeOK, ThreadType
<1>3. pc'[w] \notin Reopening BY <1>0 DEF Reopening, TypeOK, ThreadType
<1>4. LockInv'
  BY <1>0, RecorderAssumption DEF IInv, LockInv, InSection, TypeOK, ThreadType
<1>5. InsideInv'
  BY <1>0, <1>2, <1>3 DEF IInv, InsideInv, Reopening, TypeOK, ThreadType
<1>6. StreamInv'
  <2> SUFFICES ASSUME NEW i \in Streams,
                      ~(g_record_run_[i] = 1 /\ session[i] = "inited"),
                      ~(g_record_run_[i] = 0 /\ session[i] = "deinited")
               PROVE  g_record_run_[i] = 0 /\ \E q \in Procs : sid'[q] = i /\ pc'[q] \in Reopening
    BY DEF StreamInv
  <2>1. PICK q \in Procs : g_record_run_[i] = 0 /\ sid[q] = i /\ pc[q] \in Reopening
    BY DEF IInv, StreamInv
  <2> QED BY <1>1, <1>2, <2>1
<1> QED BY <1>4, <1>5, <1>6 DEF IInv

(* Record threads and clients outside the section.                         *)
LEMMA RecordInv ==
    ASSUME TypeOK, IInv, NEW t \in Threads,
           RecordCheck(t) \/ RecordWait(t) \/ RecordWoken(t) \/ RecordTimeout(t)
    PROVE  IInv'
<1> USE DEF RecordCheck, RecordWait, RecordWoken, RecordTimeout, Stay, Goto
<1>1. t \in Procs BY DEF Procs
<1>2. pc[t] \notin InSection /\ pc'[t] \notin InSection
  BY <1>1 DEF InSection, TypeOK, ThreadType
<1>3. \A q \in Procs : q # t => pc'[q] = pc[q] /\ sid'[q] = sid[q]
  BY <1>1 DEF TypeOK, ThreadType
<1> QED BY <1>1, <1>2, <1>3, OutsideInv

LEMMA CommandInv ==
    ASSUME TypeOK, IInv, NEW c \in Clients,
           rk_storage_record_start(c) \/ rk_storage_record_stop(c)
    PROVE  IInv'
<1> USE DEF rk_storage_record_start, rk_storage_record_stop, Command, Goto
<1>1. c \in Procs BY DEF Procs
<1>2. pc[c] \notin InSection /\ pc'[c] \notin InSection
  BY <1>1 DEF InSection, TypeOK, ThreadType
<1>3. \A q \in Procs : q # c => pc'[q] = pc[q] /\ sid'[q] = sid[q]
  BY <1>1 DEF TypeOK, ThreadType
<1> QED BY <1>1, <1>2, <1>3, OutsideInv

(* A controller only touches a thread that does not exist yet or has       *)
(* ended.                                                                  *)
LEMMA ControllerInv ==
    ASSUME TypeOK, IInv, NEW c \in Controllers, Controller(c)
    PROVE  IInv'
<1>1. CASE DeinitJoin(c)
  <2> DEFINE t == record_thread_id[cid[c]]
  <2>1. t \in Threads \cup {None}
    BY <1>1 DEF TypeOK, ControlType, SignalType, DeinitJoin, InBody
  <2>2. CASE t = None BY <1>1, <2>2, StillInv DEF DeinitJoin
  <2>3. CASE t # None
    <3>1. t \in Procs BY <2>1, <2>3 DEF Procs
    <3>2. pc[t] \in {"done", "joined"} BY <1>1, <2>1, <2>3 DEF DeinitJoin
    <3>3. pc' = [pc EXCEPT ![t] = "joined"] BY <1>1, <2>3 DEF DeinitJoin
    <3>4. pc[t] \notin InSection /\ pc'[t] \notin InSection
      BY <3>1, <3>2, <3>3 DEF InSection, TypeOK, ThreadType
    <3>5. \A q \in Procs : q # t => pc'[q] = pc[q] /\ sid'[q] = sid[q]
      BY <1>1, <3>1, <3>3 DEF TypeOK, ThreadType, DeinitJoin
    <3>6. UNCHANGED muxer BY <1>1 DEF DeinitJoin
    <3> QED BY <3>1, <3>4, <3>5, <3>6, OutsideInv
  <2> QED BY <2>2, <2>3
<1>2. CASE InitStart(c)
  <2>1. PICK t \in Fresh(pc) : Goto(t, "check") /\ sid' = [sid EXCEPT ![t] = cid[c]]
    BY <1>2 DEF InitStart
  <2>2. t \in Procs /\ pc[t] = "absent" BY <2>1, FreshIsAbsent DEF Procs
  <2>3. pc[t] \notin InSection /\ pc'[t] \notin InSection
    BY <2>1, <2>2 DEF InSection, Goto, TypeOK, ThreadType
  <2>4. \A q \in Procs : q # t => pc'[q] = pc[q] /\ sid'[q] = sid[q]
    BY <2>1, <2>2 DEF Goto, TypeOK, ThreadType
  <2>5. UNCHANGED muxer BY <1>2 DEF InitStart
  <2> QED BY <2>2, <2>3, <2>4, <2>5, OutsideInv
<1>3. CASE LoopTop(c) \/ LoopEnd(c) \/ DeinitFlag(c) \/ DeinitTest(c) \/ DeinitGive(c)
           \/ DeinitDestroy(c) \/ InitMkdir(c) \/ InitRenew(c) \/ InitCreate(c)
  BY <1>3, StillInv
     DEF LoopTop, LoopEnd, DeinitFlag, DeinitTest, DeinitGive, DeinitDestroy, InitMkdir, InitRenew,
         InitCreate
<1> QED BY <1>1, <1>2, <1>3 DEF Controller

LEMMA StepInv == TypeOK /\ IInv /\ [Next]_vars => IInv'
<1> SUFFICES ASSUME TypeOK, IInv, [Next]_vars PROVE IInv' OBVIOUS
<1>1. ASSUME NEW p \in Threads \cup Clients, LockSwap(p) \/ LockStop(p) PROVE IInv'
  BY <1>1, EnterInv DEF LockSwap, LockStop, InSection
<1>2. ASSUME NEW t \in Threads, RecordThread(t) \/ RecordTimeout(t) PROVE IInv'
  BY <1>1, <1>2, InsideStepInv, RecordInv DEF RecordThread
<1>3. ASSUME NEW c \in Clients,
             rk_storage_record_start(c) \/ rk_storage_record_stop(c) \/ ServerCall(c)
      PROVE  IInv'
  BY <1>1, <1>3, InsideStepInv, CommandInv DEF ServerCall
<1>4. CASE rk_storage_init \/ rk_storage_deinit \/ Shutdown
  BY <1>4, StillInv
     DEF rk_storage_init, rk_storage_deinit, Shutdown, StopListener, SetQuit, JoinMsg
<1>5. CASE Hotplug \/ MsgTake \/ MsgExit
  BY <1>5, StillInv DEF Hotplug, DeviceEvent, MsgTake, MsgExit
<1>6. CASE UNCHANGED vars
  BY <1>6, StillInv DEF vars
<1> QED BY <1>2, <1>3, <1>4, <1>5, <1>6, WriterInv, ControllerInv DEF Next

LEMMA InvImplies ==
    ASSUME TypeOK, IInv
    PROVE  FramesInsideSession /\ RunMatchesSession /\ NoDoubleInit
<1>1. FramesInsideSession
  <2> SUFFICES ASSUME NEW w \in Writers, pc[w] = "write" PROVE session[sid[w]] = "inited"
    BY DEF FramesInsideSession
  <2>1. w \in Procs /\ sid[w] \in Streams BY DEF TypeOK, ThreadType, Procs
  <2>2. g_record_run_[sid[w]] = 1 BY <2>1 DEF IInv, InsideInv
  <2> QED BY <2>1, <2>2 DEF IInv, StreamInv
<1>2. RunMatchesSession
  <2> SUFFICES ASSUME g_rkmuxer_mutex = None, NEW i \in Streams
               PROVE  g_record_run_[i] = 1 <=> session[i] = "inited"
    BY DEF RunMatchesSession
  <2>1. \A p \in Procs : pc[p] \notin Reopening
    BY RecorderAssumption DEF IInv, LockInv, InSection, Reopening
  <2> QED BY <2>1 DEF IInv, StreamInv
<1>3. NoDoubleInit BY DEF IInv, InsideInv, NoDoubleInit
<1> QED BY <1>1, <1>2, <1>3

(* Whatever the interleaving of segment changes, hotplug, restarts and     *)
(* client commands, a frame is handed to rkmuxer only inside a session,    *)
(* the run flag tells the truth whenever the lock is free, and             *)
(* rkmuxer_init is only called after rkmuxer_deinit.                       *)
THEOREM MuxerProtected == Spec => [](FramesInsideSession /\ RunMatchesSession /\ NoDoubleInit)
<1>1. Init => TypeOK /\ IInv BY InitType, InitInv
<1>2. TypeOK /\ IInv /\ [Next]_vars => (TypeOK /\ IInv)' BY StepType, StepInv
<1>3. TypeOK /\ IInv => FramesInsideSession /\ RunMatchesSession /\ NoDoubleInit
  BY InvImplies
<1> QED BY <1>1, <1>2, <1>3, PTL DEF Spec

(* g_record_run_, which rk_storage_record_statue_get reports, says whether *)
(* the stream is being recorded whenever nobody is inside the lock.        *)
THEOREM RunFlagTruthful == Spec => []RunMatchesSession
BY MuxerProtected, PTL
-----------------------------------------------------------------------------
(* The muxer's protocol.  Every step is a step of MuxerSession or leaves   *)
(* its variables alone.                                                    *)

Busy == {sid[w] : w \in {v \in Writers : pc[v] = "write"}}

(* No frame is being written when a thread that is not an encoder thread   *)
(* is inside the section, and when the lock is free.                       *)
LEMMA NoFrame ==
    ASSUME IInv, \/ g_rkmuxer_mutex = None
                 \/ \E p \in Procs : pc[p] \in InSection \ {"write"}
    PROVE  \A w \in Writers : pc[w] # "write"
<1> SUFFICES ASSUME NEW w \in Writers, pc[w] = "write" PROVE FALSE OBVIOUS
<1>1. g_rkmuxer_mutex = w /\ w \in Procs BY DEF IInv, LockInv, InSection, Procs
<1> QED BY <1>1, Alone, RecorderAssumption DEF InSection

(* A step that leaves the sessions and the frames being written alone.     *)
LEMMA SameFrames ==
    ASSUME UNCHANGED session,
           \A w \in Writers : /\ pc'[w] = "write" <=> pc[w] = "write"
                              /\ pc[w] = "write" => sid'[w] = sid[w]
    PROVE  UNCHANGED <<session, Busy>>
BY DEF Busy

LEMMA SectionRefines ==
    ASSUME TypeOK, IInv, NEW p \in Threads \cup Clients,
           LockSwap(p) \/ LockStop(p) \/ MuxerDeinit(p) \/ MuxerInit(p) \/ Publish(p) \/ Close(p)
    PROVE  [Muxer!Next]_(Muxer!vars)
<1> USE DEF LockSwap, LockStop, Enter, MuxerDeinit, MuxerInit, Publish, Close, Goto
<1>1. p \in Procs /\ p \notin Writers /\ sid[p] \in Streams
  BY RecorderAssumption DEF TypeOK, ThreadType, Procs
<1>2. \A w \in Writers : pc'[w] = pc[w] /\ sid'[w] = sid[w]
  BY <1>1 DEF TypeOK, ThreadType, Procs
<1>3. CASE UNCHANGED session
  BY <1>2, <1>3, SameFrames DEF Busy, Muxer!vars
<1>4. CASE MuxerDeinit(p) \/ MuxerInit(p) \/ Close(p)
  <2>1. pc[p] \in InSection \ {"write"} BY <1>4 DEF InSection
  <2>2. \A w \in Writers : pc[w] # "write" BY <1>1, <2>1, NoFrame
  <2>3. Busy = {} /\ Busy' = {} BY <1>2, <2>2 DEF Busy
  <2>4. CASE MuxerInit(p)
    <3>1. session[sid[p]] = "deinited" BY <1>1, <2>4 DEF IInv, InsideInv
    <3>2. Muxer!Open(sid[p]) BY <2>3, <2>4, <3>1 DEF Busy, Muxer!Open
    <3> QED BY <1>1, <3>2 DEF Muxer!Next
  <2>5. CASE MuxerDeinit(p) \/ Close(p)
    <3>1. Muxer!Shut(sid[p]) BY <2>3, <2>5 DEF Busy, Muxer!Shut
    <3> QED BY <1>1, <3>1 DEF Muxer!Next
  <2> QED BY <1>4, <2>4, <2>5
<1> QED BY <1>3, <1>4

LEMMA WriterRefines ==
    ASSUME TypeOK, IInv, NEW w \in Writers, FrameWriter(w)
    PROVE  [Muxer!Next]_(Muxer!vars)
<1> USE DEF FrameWriter, WriteLock, WriteTest, WriteDone, Goto
<1>1. w \in Procs /\ sid[w] \in Streams BY DEF TypeOK, ThreadType, Procs
<1>2. \A v \in Writers : v # w => pc'[v] = pc[v] /\ sid'[v] = sid[v]
  BY <1>1 DEF TypeOK, ThreadType, Procs
<1>3. UNCHANGED session OBVIOUS
<1>4. CASE pc[w] # "write" /\ pc'[w] # "write"
  BY <1>2, <1>3, <1>4, SameFrames DEF Busy, Muxer!vars
<1>5. CASE pc[w] = "test" /\ pc'[w] = "write"
  <2>1. \A v \in Writers : pc[v] # "write" BY <1>1, <1>5, NoFrame DEF InSection
  <2>2. sid' = sid /\ g_record_run_[sid[w]] = 1
    BY <1>1, <1>5 DEF TypeOK, ThreadType
  <2>3. session[sid[w]] = "inited"
    <3>1. \A q \in Procs : pc[q] \in Reopening => q = w
      BY <1>1, <1>5, Alone DEF InSection, Reopening
    <3> QED BY <1>1, <2>2 DEF IInv, StreamInv
  <2>4. Busy = {} BY <2>1 DEF Busy
  <2>5. Busy' = {sid[w]} BY <1>2, <1>5, <2>1, <2>2 DEF Busy
  <2>6. \E i \in Streams : Muxer!BeginFrame(i)
    BY <1>1, <1>3, <2>3, <2>4, <2>5 DEF Busy, Muxer!BeginFrame
  <2> QED BY <2>6 DEF Muxer!Next
<1>6. CASE pc[w] = "write"
  <2>1. \A v \in Writers : v # w => pc[v] # "write"
    BY <1>1, <1>6, Alone DEF InSection, Procs
  <2>2. pc'[w] = "idle" BY <1>1, <1>6 DEF TypeOK, ThreadType
  <2>3. Busy' = {} BY <1>2, <2>1, <2>2 DEF Busy
  <2>4. Muxer!EndFrame BY <1>3, <2>3 DEF Busy, Muxer!EndFrame
  <2> QED BY <2>4 DEF Muxer!Next
<1> QED BY <1>1, <1>4, <1>5, <1>6 DEF TypeOK, ThreadType

(* Steps of a thread outside the section, and of the controllers.          *)
LEMMA OtherRefines ==
    ASSUME TypeOK, UNCHANGED session, NEW p \in Threads \cup Clients,
           \A q \in Procs : q # p => pc'[q] = pc[q] /\ sid'[q] = sid[q]
    PROVE  [Muxer!Next]_(Muxer!vars)
<1>1. \A w \in Writers : pc'[w] = pc[w] /\ sid'[w] = sid[w]
  BY RecorderAssumption DEF Procs
<1> QED BY <1>1, SameFrames DEF Busy, Muxer!vars

LEMMA StillRefines ==
    ASSUME UNCHANGED session, UNCHANGED <<pc, sid>>
    PROVE  [Muxer!Next]_(Muxer!vars)
BY SameFrames DEF Busy, Muxer!vars

LEMMA ControllerRefines ==
    ASSUME TypeOK, NEW c \in Controllers, Controller(c)
    PROVE  [Muxer!Next]_(Muxer!vars)
<1>1. CASE DeinitJoin(c)
  <2> DEFINE t == record_thread_id[cid[c]]
  <2>1. t \in Threads \cup {None}
    BY <1>1 DEF TypeOK, ControlType, SignalType, DeinitJoin, InBody
  <2>2. CASE t = None BY <1>1, <2>2, StillRefines DEF DeinitJoin, muxer
  <2>3. CASE t # None
    <3>1. pc' = [pc EXCEPT ![t] = "joined"] /\ UNCHANGED <<sid, session>>
      BY <1>1, <2>3 DEF DeinitJoin, muxer
    <3>2. \A q \in Procs : q # t => pc'[q] = pc[q] /\ sid'[q] = sid[q]
      BY <3>1 DEF TypeOK, ThreadType
    <3> QED BY <2>1, <2>3, <3>1, <3>2, OtherRefines
  <2> QED BY <2>2, <2>3
<1>2. CASE InitStart(c)
  <2>1. PICK t \in Fresh(pc) : Goto(t, "check") /\ sid' = [sid EXCEPT ![t] = cid[c]]
    BY <1>2 DEF InitStart
  <2>2. t \in Threads BY <2>1, FreshIsAbsent
  <2>3. \A q \in Procs : q # t => pc'[q] = pc[q] /\ sid'[q] = sid[q]
    BY <2>1 DEF Goto, TypeOK, ThreadType
  <2>4. UNCHANGED session BY <1>2 DEF InitStart, muxer
  <2> QED BY <2>2, <2>3, <2>4, OtherRefines
<1>3. CASE LoopTop(c) \/ LoopEnd(c) \/ DeinitFlag(c) \/ DeinitTest(c) \/ DeinitGive(c)
           \/ DeinitDestroy(c) \/ InitMkdir(c) \/ InitRenew(c) \/ InitCreate(c)
  BY <1>3, StillRefines
     DEF LoopTop, LoopEnd, DeinitFlag, DeinitTest, DeinitGive, DeinitDestroy, InitMkdir, InitRenew,
         InitCreate, muxer
<1> QED BY <1>1, <1>2, <1>3 DEF Controller

LEMMA StepRefines == TypeOK /\ IInv /\ [Next]_vars => [Muxer!Next]_(Muxer!vars)
<1> SUFFICES ASSUME TypeOK, IInv, [Next]_vars PROVE [Muxer!Next]_(Muxer!vars) OBVIOUS
<1> USE DEF muxer
<1>1. ASSUME NEW t \in Threads,
             RecordCheck(t) \/ RecordWait(t) \/ RecordWoken(t) \/ RecordTimeout(t)
      PROVE  [Muxer!Next]_(Muxer!vars)
  <2>1. \A q \in Procs : q # t => pc'[q] = pc[q] /\ sid'[q] = sid[q]
    BY <1>1 DEF RecordCheck, RecordWait, RecordWoken, RecordTimeout, Stay, Goto, TypeOK, ThreadType
  <2>2. UNCHANGED session
    BY <1>1 DEF RecordCheck, RecordWait, RecordWoken, RecordTimeout, Stay
  <2> QED BY <2>1, <2>2, OtherRefines
<1>2. ASSUME NEW c \in Clients, rk_storage_record_start(c) \/ rk_storage_record_stop(c)
      PROVE  [Muxer!Next]_(Muxer!vars)
  <2>1. \A q \in Procs : q # c => pc'[q] = pc[q] /\ sid'[q] = sid[q]
    BY <1>2 DEF rk_storage_record_start, rk_storage_record_stop, Command, Goto, TypeOK, ThreadType
  <2>2. UNCHANGED session
    BY <1>2 DEF rk_storage_record_start, rk_storage_record_stop, Command
  <2> QED BY <2>1, <2>2, OtherRefines
<1>3. CASE rk_storage_init \/ rk_storage_deinit \/ Shutdown
  BY <1>3, StillRefines
     DEF rk_storage_init, rk_storage_deinit, Shutdown, StopListener, SetQuit, JoinMsg
<1>4. CASE Hotplug \/ MsgTake \/ MsgExit
  BY <1>4, StillRefines DEF Hotplug, DeviceEvent, MsgTake, MsgExit
<1>5. CASE UNCHANGED vars BY <1>5, StillRefines DEF vars
<1>6. ASSUME NEW t \in Threads, RecordThread(t) \/ RecordTimeout(t)
      PROVE  [Muxer!Next]_(Muxer!vars)
  BY <1>1, <1>6, SectionRefines DEF RecordThread
<1>7. ASSUME NEW c \in Clients, ServerCall(c) PROVE [Muxer!Next]_(Muxer!vars)
  BY <1>7, SectionRefines DEF ServerCall
<1> QED BY <1>2, <1>3, <1>4, <1>5, <1>6, <1>7, WriterRefines, ControllerRefines DEF Next

(* The calls of rkmuxer_init, _deinit and _write_*_frame made by all       *)
(* threads of the program follow the protocol of the muxer library, for    *)
(* any number of streams, threads and clients.                             *)
THEOREM RecorderImplementsSession == Spec => ImplementsSession
<1>1. Init => Muxer!Init
  <2> SUFFICES ASSUME Init PROVE Muxer!Init OBVIOUS
  <2>1. \A w \in Writers : pc[w] = "idle" BY RecorderAssumption DEF Init, Procs
  <2>2. session = [i \in Streams |-> "deinited"] BY DEF Init
  <2> QED BY <2>1, <2>2 DEF Muxer!Init
<1>2. Init => TypeOK /\ IInv BY InitType, InitInv
<1>3. TypeOK /\ IInv /\ [Next]_vars => (TypeOK /\ IInv)' BY StepType, StepInv
<1>4. TypeOK /\ IInv /\ [Next]_vars => [Muxer!Next]_(Muxer!vars) BY StepRefines
<1> QED BY <1>1, <1>2, <1>3, <1>4, PTL DEF Spec, ImplementsSession, Muxer!Spec
-----------------------------------------------------------------------------
(* The life cycle of record threads and of their signals.                  *)

Unjoined(t) == pc[t] \notin {"absent", "joined"}
Working(c) == cpc[c] \in InBody \cup {"next"}
Silent(i) == g_storage_signal[i] = None

(* Messages are handled only while the main thread is outside init and     *)
(* deinit; the message thread exists exactly between the two.              *)
Exclusive ==
    /\ cpc["main"] # "idle" => queue = << >> /\ cpc["msg"] \in {"idle", "off"}
    /\ cpc["main"] = "off" => cpc["msg"] = "off"
    /\ cpc["msg"] = "off" => cpc["main"] \in {"msgjoin", "off"}
    /\ quit => cpc["main"] \in {"msgjoin", "off"}

(* Which functions a controller runs, and for which streams it gets to     *)
(* their middle.                                                           *)
JobInv ==
    /\ Working("main") => cjob["main"] \in {"init", "deinit"}
    /\ Working("msg") => cjob["msg"] \in {"add", "remove"}
    /\ cpc["msg"] \in {"idle", "off"} \cup InBody \cup {"next"}
    /\ \A c \in Controllers :
         /\ cpc[c] \in {"mkdir", "renew", "create", "start"} => cjob[c] \in {"init", "add"}
         /\ cpc[c] \in {"flag", "test", "give", "join", "destroy"} => cjob[c] # "init"
         /\ cpc[c] \in {"test", "give", "join", "destroy", "renew", "create", "start"} => cid[c] \in Enabled

(* A thread that was not joined is the one its stream knows.               *)
ThreadInv ==
    \A t \in Threads : Unjoined(t) =>
        record_thread_id[sid[t]] = t /\ ~Silent(sid[t])

(* The signals in use are those of the streams, each of one stream.        *)
SignalInv ==
    /\ \A s \in Threads : sem[s] \in {"0", "1"} => \E i \in Streams : g_storage_signal[i] = s
    /\ \A i \in Streams : ~Silent(i) => sem[g_storage_signal[i]] \in {"0", "1"}
    /\ \A i, j \in Streams : g_storage_signal[i] = g_storage_signal[j] => i = j \/ Silent(i)

(* A stream with a signal has a thread to join, except between the two     *)
(* steps that make or destroy them.                                        *)
PairInv ==
    \A i \in Streams : ~Silent(i) =>
        \/ /\ record_thread_id[i] \in Threads
           /\ sid[record_thread_id[i]] = i
           /\ Unjoined(record_thread_id[i])
        \/ \E c \in Controllers : cpc[c] \in {"destroy", "start"} /\ cid[c] = i

(* What a controller knows of the stream it works on.                      *)
StageInv ==
    \A c \in Controllers :
        /\ cpc[c] \in {"give", "join", "destroy", "start"} => ~Silent(cid[c])
        /\ cpc[c] \in {"mkdir", "renew", "create"} => Silent(cid[c])
        /\ cpc[c] \in {"destroy", "start"} => \A t \in Threads : Unjoined(t) => sid[t] # cid[c]

(* A thread sleeps on the signal of its stream.                            *)
SleepInv ==
    \A t \in Threads : waitsOn[t] # None =>
        pc[t] = "waiting" /\ waitsOn[t] = g_storage_signal[sid[t]]

(* How far init and deinit have come.                                      *)
ProgressInv ==
    \A i \in Streams :
        /\ i \notin Enabled => Silent(i)
        /\ Working("main") /\ cjob["main"] = "init" =>
             (i > cid["main"] \/ (i = cid["main"] /\ cpc["main"] = "next") => Silent(i))
        /\ Working("main") /\ cjob["main"] = "deinit" => (i < cid["main"] => Silent(i))
        /\ cpc["main"] \in {"listener", "quit", "msgjoin", "off"} => Silent(i)

LifeInv ==
    /\ Exclusive /\ JobInv /\ ThreadInv /\ SignalInv /\ PairInv /\ StageInv /\ SleepInv
    /\ ProgressInv
    /\ ~ub

(* While one controller works the other one does nothing.                  *)
LEMMA OneController ==
    ASSUME LifeInv, NEW c \in Controllers, Working(c), NEW d \in Controllers, d # c
    PROVE  cpc[d] \in {"idle", "off"}
BY DEF LifeInv, Exclusive, Working, InBody, Controllers

LEMMA LifeInit == Init => LifeInv
<1> SUFFICES ASSUME Init PROVE LifeInv OBVIOUS
<1> USE RecorderAssumption DEF Init
<1>1. \A t \in Threads : pc[t] = "absent" BY DEF Procs
<1>2. cpc = [c \in Controllers |-> "off"] OBVIOUS
<1>3. Exclusive BY DEF Exclusive, Controllers
<1>4. JobInv BY DEF JobInv, Working, InBody, Controllers
<1>5. ThreadInv BY <1>1 DEF ThreadInv, Unjoined
<1>6. SignalInv BY DEF SignalInv, Silent
<1>7. PairInv BY DEF PairInv, Silent
<1>8. StageInv BY DEF StageInv
<1>9. SleepInv BY DEF SleepInv
<1>10. ProgressInv BY DEF ProgressInv, Silent
<1> QED BY <1>3, <1>4, <1>5, <1>6, <1>7, <1>8, <1>9, <1>10 DEF LifeInv

(* A step that creates and joins no thread, makes and frees no signal and  *)
(* moves no controller.                                                    *)
LEMMA QuietLife ==
    ASSUME LifeInv,
           UNCHANGED <<g_storage_signal, record_thread_id, cpc, cjob, cid, queue, quit>>,
           \A t \in Threads : /\ (Unjoined(t))' <=> Unjoined(t)
                              /\ sid'[t] = sid[t]
                              /\ sem'[t] \in {"0", "1"} <=> sem[t] \in {"0", "1"},
           g_storage_signal \in [Streams -> Threads \cup {None}],
           SleepInv', ~ub'
    PROVE  LifeInv'
<1>1. Exclusive' BY DEF LifeInv, Exclusive
<1>2. JobInv' BY DEF LifeInv, JobInv, Working
<1>3. ThreadInv' BY DEF LifeInv, ThreadInv, Silent
<1>4. SignalInv' BY DEF LifeInv, SignalInv, Silent
<1>5. PairInv' BY DEF LifeInv, PairInv, Silent
<1>6. StageInv' BY DEF LifeInv, StageInv, Silent
<1>7. ProgressInv' BY DEF LifeInv, ProgressInv, Silent, Working
<1> QED BY <1>1, <1>2, <1>3, <1>4, <1>5, <1>6, <1>7 DEF LifeInv

(* The muxer's sections, and the steps of encoder threads and clients.     *)
LEMMA SectionLife ==
    ASSUME TypeOK, LifeInv, NEW p \in Threads \cup Clients,
           LockSwap(p) \/ LockStop(p) \/ MuxerDeinit(p) \/ MuxerInit(p) \/ Publish(p) \/ Close(p)
    PROVE  LifeInv'
<1> USE DEF LockSwap, LockStop, Enter, MuxerDeinit, MuxerInit, Publish, Close, Goto
<1>1. \A t \in Threads : /\ (Unjoined(t))' <=> Unjoined(t)
                         /\ sid'[t] = sid[t] /\ sem'[t] = sem[t]
  BY DEF TypeOK, ThreadType, Procs, Unjoined, signals
<1>2. \A t \in Threads : pc[t] = "waiting" => pc'[t] = "waiting"
  BY DEF TypeOK, ThreadType, Procs
<1>3. SleepInv' BY <1>1, <1>2 DEF LifeInv, SleepInv, signals
<1>4. g_storage_signal \in [Streams -> Threads \cup {None}] BY DEF TypeOK, SignalType
<1>5. ~ub' BY DEF LifeInv, TypeOK, OtherType
<1> QED BY <1>1, <1>3, <1>4, <1>5, QuietLife DEF control, hotplug, signals

LEMMA OthersLife ==
    ASSUME TypeOK, LifeInv, UNCHANGED <<signals, waitsOn, record_thread_id, control, hotplug, ub>>,
           \A t \in Threads : pc'[t] = pc[t] /\ sid'[t] = sid[t]
    PROVE  LifeInv'
<1>1. SleepInv' BY DEF LifeInv, SleepInv, signals
<1>2. g_storage_signal \in [Streams -> Threads \cup {None}] BY DEF TypeOK, SignalType
<1>3. ~ub' BY DEF LifeInv, TypeOK, OtherType
<1> QED BY <1>1, <1>2, <1>3, QuietLife DEF control, hotplug, signals, Unjoined

LEMMA WriterLife ==
    ASSUME TypeOK, LifeInv, NEW w \in Writers, FrameWriter(w)
    PROVE  LifeInv'
<1> USE DEF FrameWriter, WriteLock, WriteTest, WriteDone, Goto
<1>1. \A t \in Threads : pc'[t] = pc[t] /\ sid'[t] = sid[t]
  BY RecorderAssumption DEF TypeOK, ThreadType, Procs
<1> QED BY <1>1, OthersLife

LEMMA CommandLife ==
    ASSUME TypeOK, LifeInv, NEW c \in Clients,
           rk_storage_record_start(c) \/ rk_storage_record_stop(c)
    PROVE  LifeInv'
<1> USE DEF rk_storage_record_start, rk_storage_record_stop, Command, Goto
<1>1. \A t \in Threads : pc'[t] = pc[t] /\ sid'[t] = sid[t]
  BY RecorderAssumption DEF TypeOK, ThreadType, Procs
<1> QED BY <1>1, OthersLife

(* A record thread outside the sections.  The signal it reads is that of   *)
(* its stream, which is not freed.                                         *)
LEMMA RecordLife ==
    ASSUME TypeOK, LifeInv, NEW t \in Threads,
           RecordCheck(t) \/ RecordWait(t) \/ RecordWoken(t) \/ RecordTimeout(t)
    PROVE  LifeInv'
<1> USE DEF Goto, Stay
<1>0. t \in Procs /\ sid[t] \in Streams BY DEF TypeOK, ThreadType, Procs
<1>1. Unjoined(t) /\ (Unjoined(t))'
  BY <1>0 DEF RecordCheck, RecordWait, RecordWoken, RecordTimeout, TypeOK, ThreadType, Unjoined
<1>2. \A u \in Threads : u # t => pc'[u] = pc[u] /\ waitsOn'[u] = waitsOn[u]
  BY DEF RecordCheck, RecordWait, RecordWoken, RecordTimeout, TypeOK, ThreadType, Procs
<1>3. UNCHANGED <<sid, g_storage_signal, record_thread_id, cpc, cjob, cid, queue, quit>>
  BY DEF RecordCheck, RecordWait, RecordWoken, RecordTimeout, control, hotplug
<1>4. g_storage_signal \in [Streams -> Threads \cup {None}] BY DEF TypeOK, SignalType
<1>5. g_storage_signal[sid[t]] \in Threads
  BY <1>0, <1>1, <1>4 DEF LifeInv, ThreadInv, Silent
<1>6. \A u \in Threads : sem'[u] \in {"0", "1"} <=> sem[u] \in {"0", "1"}
  BY DEF RecordCheck, RecordWait, RecordWoken, RecordTimeout, TypeOK, SignalType, ThreadType
<1>7. waitsOn'[t] # None => pc'[t] = "waiting" /\ waitsOn'[t] = g_storage_signal[sid[t]]
  <2>1. CASE RecordWait(t)
    BY <1>0, <2>1 DEF RecordWait, TypeOK, ThreadType
  <2>2. CASE RecordCheck(t)
    BY <1>0, <2>2 DEF RecordCheck, LifeInv, SleepInv, TypeOK, ThreadType
  <2>3. CASE RecordWoken(t) \/ RecordTimeout(t)
    BY <2>3 DEF RecordWoken, RecordTimeout, TypeOK, ThreadType
  <2> QED BY <2>1, <2>2, <2>3
<1>8. SleepInv' BY <1>2, <1>3, <1>7 DEF LifeInv, SleepInv
<1>9. ~ub'
  <2>1. CASE RecordWait(t)
    <3>1. sem[g_storage_signal[sid[t]]] # "freed"
      BY <1>0, <1>1 DEF LifeInv, ThreadInv, SignalInv
    <3> QED BY <2>1, <3>1, <1>5 DEF RecordWait, LifeInv
  <2>2. CASE RecordCheck(t) \/ RecordWoken(t) \/ RecordTimeout(t)
    BY <2>2 DEF RecordCheck, RecordWoken, RecordTimeout, LifeInv, TypeOK, OtherType
  <2> QED BY <2>1, <2>2
<1>10. \A u \in Threads : (Unjoined(u))' <=> Unjoined(u) BY <1>1, <1>2 DEF Unjoined
<1> QED BY <1>3, <1>4, <1>6, <1>8, <1>9, <1>10, QuietLife

(* What the proofs need of the typing of controllers.                      *)
LEMMA ControlFacts ==
    ASSUME TypeOK
    PROVE  /\ cpc \in [Controllers -> ControlPc]
           /\ cid \in [Controllers -> Nat]
           /\ cjob \in [Controllers -> {"none", "init", "deinit", "add", "remove"}]
           /\ \A c \in Controllers : Working(c) /\ cpc[c] # "next" => cid[c] \in Streams
           /\ g_storage_signal \in [Streams -> Threads \cup {None}]
           /\ record_thread_id \in [Streams -> Threads \cup {None}]
           /\ sem \in [Threads -> {"absent", "0", "1", "freed"}]
           /\ None \notin Threads
           /\ Streams \subseteq Nat
BY RecorderAssumption, StreamIsNat DEF TypeOK, ControlType, SignalType, Working, Procs

(* How a controller leaves a stream: it goes on with the next one, or, in  *)
(* MSG_DEV_ADD, with the start of the same one.                            *)
LEMMA MoveFacts ==
    ASSUME TypeOK, NEW c \in Controllers
    PROVE  /\ \A l : CGoto(c, l) =>
                 /\ cpc'[c] = l /\ UNCHANGED <<cjob, cid>>
                 /\ \A d \in Controllers : d # c => cpc'[d] = cpc[d]
           /\ NextStream(c) =>
                 /\ cpc'[c] = "next" /\ cid'[c] = cid[c] + 1 /\ UNCHANGED cjob
                 /\ \A d \in Controllers : d # c => cpc'[d] = cpc[d] /\ cid'[d] = cid[d]
           /\ DeinitReturns(c) =>
                 \/ cjob[c] = "add" /\ cid[c] \in Enabled /\ CGoto(c, "mkdir")
                 \/ (cjob[c] # "add" \/ cid[c] \notin Enabled) /\ NextStream(c)
BY ControlFacts DEF CGoto, NextStream, DeinitReturns

(* A step that creates and joins no thread, makes and frees no signal and  *)
(* moves the controllers.                                                  *)
LEMMA MoveLife ==
    ASSUME TypeOK, LifeInv,
           UNCHANGED <<g_storage_signal, record_thread_id, pc, sid, waitsOn>>,
           \A s \in Threads : sem'[s] \in {"0", "1"} <=> sem[s] \in {"0", "1"},
           ~ub',
           \A c \in Controllers : cpc[c] \in {"destroy", "start"} => cpc'[c] = cpc[c] /\ cid'[c] = cid[c],
           Exclusive', JobInv', StageInv', ProgressInv'
    PROVE  LifeInv'
<1>1. ThreadInv' BY DEF LifeInv, ThreadInv, Unjoined, Silent
<1>2. SignalInv' BY ControlFacts DEF LifeInv, SignalInv, Silent
<1>3. PairInv'
  <2> SUFFICES ASSUME NEW i \in Streams, ~Silent(i)
               PROVE  \/ /\ record_thread_id[i] \in Threads
                         /\ sid[record_thread_id[i]] = i
                         /\ Unjoined(record_thread_id[i])
                      \/ \E c \in Controllers : cpc'[c] \in {"destroy", "start"} /\ cid'[c] = i
    BY DEF PairInv, Silent, Unjoined
  <2>1. CASE \E c \in Controllers : cpc[c] \in {"destroy", "start"} /\ cid[c] = i
    BY <2>1
  <2> QED BY <2>1 DEF LifeInv, PairInv
<1>4. SleepInv' BY DEF LifeInv, SleepInv
<1> QED BY <1>1, <1>2, <1>3, <1>4 DEF LifeInv

LEMMA LoopTopLife ==
    ASSUME TypeOK, LifeInv, NEW c \in Controllers, LoopTop(c)
    PROVE  LifeInv'
<1> USE ControlFacts DEF Controllers
<1>1. Working(c) /\ cpc[c] = "next" /\ cid[c] \in Streams
  BY LoopsOverStreams DEF LoopTop, Working
<1>2. CGoto(c, IF cjob[c] = "init" THEN "mkdir" ELSE "flag") BY DEF LoopTop
<1>3. /\ cpc'[c] = IF cjob[c] = "init" THEN "mkdir" ELSE "flag"
      /\ UNCHANGED <<cjob, cid>>
      /\ \A d \in Controllers : d # c => cpc'[d] = cpc[d]
  BY <1>2, MoveFacts
<1>4. UNCHANGED <<g_storage_signal, record_thread_id, pc, sid, sem, waitsOn, queue, quit, ub>>
  BY DEF LoopTop, signals, hotplug
<1>5. Exclusive' BY <1>1, <1>3, <1>4 DEF LifeInv, Exclusive, Working, InBody
<1>6. JobInv' BY <1>1, <1>3 DEF LifeInv, JobInv, Working, InBody
<1>7. StageInv'
  <2>1. ASSUME cjob[c] = "init" PROVE Silent(cid[c])
    BY <1>1, <2>1 DEF LifeInv, JobInv, ProgressInv, Working
  <2> QED BY <1>3, <1>4, <2>1 DEF LifeInv, StageInv, Silent, Unjoined
<1>8. ProgressInv'
  BY <1>1, <1>3, <1>4 DEF LifeInv, ProgressInv, Silent, Working, InBody
<1> QED BY <1>1, <1>3, <1>4, <1>5, <1>6, <1>7, <1>8, MoveLife DEF LifeInv

LEMMA LoopEndLife ==
    ASSUME TypeOK, LifeInv, NEW c \in Controllers, LoopEnd(c)
    PROVE  LifeInv'
<1> USE ControlFacts DEF Controllers
<1>1. Working(c) /\ cpc[c] = "next" BY DEF LoopEnd, Working
<1>2. /\ cpc'[c] = IF cjob[c] = "deinit" THEN "listener" ELSE "idle"
      /\ UNCHANGED <<cjob, cid>>
      /\ \A d \in Controllers : d # c => cpc'[d] = cpc[d]
  BY MoveFacts DEF LoopEnd
<1>3. UNCHANGED <<g_storage_signal, record_thread_id, pc, sid, sem, waitsOn, queue, quit, ub>>
  BY DEF LoopEnd, signals, hotplug
<1>4. cjob[c] = "deinit" => c = "main" BY <1>1 DEF LifeInv, JobInv
<1>5. Exclusive' BY <1>1, <1>2, <1>3, <1>4 DEF LifeInv, Exclusive, Working, InBody
<1>6. JobInv' BY <1>1, <1>2, <1>4 DEF LifeInv, JobInv, Working, InBody
<1>7. StageInv' BY <1>2, <1>3 DEF LifeInv, StageInv, Silent, Unjoined
<1>8. ProgressInv'
  <2>1. ASSUME cjob[c] = "deinit", NEW i \in Streams PROVE i < cid[c] /\ Silent(i)
    <3>1. cid[c] \notin Streams BY <2>1 DEF LoopEnd, LoopStreams
    <3>2. i < cid[c] BY <3>1, RecorderAssumption DEF Streams
    <3> QED BY <1>1, <1>4, <2>1, <3>2 DEF LifeInv, ProgressInv
  <2> QED BY <1>1, <1>2, <1>3, <1>4, <2>1 DEF LifeInv, ProgressInv, Silent, Working, InBody
<1> QED BY <1>1, <1>2, <1>3, <1>5, <1>6, <1>7, <1>8, MoveLife DEF LifeInv

(* The stream is left with no signal.                                      *)
LEMMA LeaveLife ==
    ASSUME TypeOK, LifeInv, NEW c \in Controllers,
           cpc[c] \in {"flag", "test"}, Silent(cid[c]), DeinitReturns(c),
           UNCHANGED <<g_storage_signal, record_thread_id, pc, sid, sem, waitsOn, queue, quit, ub>>
    PROVE  LifeInv'
<1> USE ControlFacts DEF Controllers
<1>1. Working(c) /\ cpc[c] # "next" /\ cid[c] \in Streams BY DEF Working, InBody
<1>2. \/ /\ cpc'[c] = "mkdir" /\ UNCHANGED <<cid, cjob>> /\ cjob[c] = "add"
         /\ \A d \in Controllers : d # c => cpc'[d] = cpc[d]
      \/ /\ cpc'[c] = "next" /\ cid'[c] = cid[c] + 1 /\ UNCHANGED cjob /\ cjob[c] # "init"
         /\ \A d \in Controllers : d # c => cpc'[d] = cpc[d] /\ cid'[d] = cid[d]
  BY MoveFacts DEF LifeInv, JobInv
<1>3. Exclusive' BY <1>1, <1>2 DEF LifeInv, Exclusive, Working, InBody
<1>4. JobInv' BY <1>1, <1>2 DEF LifeInv, JobInv, Working, InBody
<1>5. StageInv' BY <1>1, <1>2 DEF LifeInv, StageInv, Silent, Unjoined
<1>6. ProgressInv'
  <2>1. ASSUME NEW i \in Streams, i < cid[c] + 1, i # cid[c] PROVE i < cid[c]
    BY <2>1, <1>1
  <2> QED BY <1>1, <1>2, <2>1 DEF LifeInv, JobInv, ProgressInv, Silent, Working, InBody
<1> QED BY <1>2, <1>3, <1>4, <1>5, <1>6, MoveLife DEF LifeInv

LEMMA DeinitFlagLife ==
    ASSUME TypeOK, LifeInv, NEW c \in Controllers, DeinitFlag(c)
    PROVE  LifeInv'
<1> USE ControlFacts DEF Controllers
<1>1. Working(c) /\ cpc[c] = "flag" /\ cid[c] \in Streams BY DEF DeinitFlag, Working, InBody
<1>2. UNCHANGED <<g_storage_signal, record_thread_id, pc, sid, sem, waitsOn, queue, quit, ub>>
  BY DEF DeinitFlag, signals, hotplug
<1>3. CASE cid[c] \notin Enabled
  <2>1. Silent(cid[c]) BY <1>1, <1>3 DEF LifeInv, ProgressInv
  <2> QED BY <1>1, <1>2, <1>3, <2>1, LeaveLife DEF DeinitFlag
<1>4. CASE cid[c] \in Enabled
  <2>1. /\ cpc'[c] = "test" /\ UNCHANGED <<cjob, cid>>
        /\ \A d \in Controllers : d # c => cpc'[d] = cpc[d]
    BY <1>4, MoveFacts DEF DeinitFlag
  <2>2. Exclusive' BY <1>1, <1>2, <2>1 DEF LifeInv, Exclusive, Working, InBody
  <2>3. JobInv' BY <1>1, <1>4, <2>1 DEF LifeInv, JobInv, Working, InBody
  <2>4. StageInv' BY <1>1, <1>2, <2>1 DEF LifeInv, StageInv, Silent, Unjoined
  <2>5. ProgressInv' BY <1>1, <1>2, <2>1 DEF LifeInv, ProgressInv, Silent, Working, InBody
  <2> QED BY <1>1, <1>2, <2>1, <2>2, <2>3, <2>4, <2>5, MoveLife DEF LifeInv
<1> QED BY <1>3, <1>4

LEMMA DeinitTestLife ==
    ASSUME TypeOK, LifeInv, NEW c \in Controllers, DeinitTest(c)
    PROVE  LifeInv'
<1> USE ControlFacts DEF Controllers
<1>1. Working(c) /\ cpc[c] = "test" /\ cid[c] \in Streams BY DEF DeinitTest, Working, InBody
<1>2. UNCHANGED <<g_storage_signal, record_thread_id, pc, sid, sem, waitsOn, queue, quit, ub>>
  BY DEF DeinitTest, signals, hotplug
<1>3. CASE Silent(cid[c])
  <2>1. DeinitReturns(c) BY <1>3 DEF DeinitTest, Silent
  <2> QED BY <1>1, <1>2, <1>3, <2>1, LeaveLife
<1>4. CASE ~Silent(cid[c])
  <2>1. /\ cpc'[c] = "give" /\ UNCHANGED <<cjob, cid>>
        /\ \A d \in Controllers : d # c => cpc'[d] = cpc[d]
    BY <1>4, MoveFacts DEF DeinitTest, Silent
  <2>2. Exclusive' BY <1>1, <1>2, <2>1 DEF LifeInv, Exclusive, Working, InBody
  <2>3. JobInv' BY <1>1, <1>4, <2>1 DEF LifeInv, JobInv, Working, InBody
  <2>4. StageInv' BY <1>1, <1>2, <1>4, <2>1 DEF LifeInv, StageInv, Silent, Unjoined
  <2>5. ProgressInv' BY <1>1, <1>2, <2>1 DEF LifeInv, ProgressInv, Silent, Working, InBody
  <2> QED BY <1>1, <1>2, <2>1, <2>2, <2>3, <2>4, <2>5, MoveLife DEF LifeInv
<1> QED BY <1>3, <1>4

(* The signal that is given is still there and was not freed.              *)
LEMMA DeinitGiveLife ==
    ASSUME TypeOK, LifeInv, NEW c \in Controllers, DeinitGive(c)
    PROVE  LifeInv'
<1> USE ControlFacts DEF Controllers
<1> DEFINE s == g_storage_signal[cid[c]]
<1>1. Working(c) /\ cpc[c] = "give" /\ cid[c] \in Streams /\ ~Silent(cid[c])
  BY DEF DeinitGive, Working, InBody, LifeInv, StageInv
<1>2. UNCHANGED <<g_storage_signal, record_thread_id, pc, sid, waitsOn, queue, quit>>
  BY DEF DeinitGive, signals, hotplug
<1>3. /\ cpc'[c] = "join" /\ UNCHANGED <<cjob, cid>>
      /\ \A d \in Controllers : d # c => cpc'[d] = cpc[d]
  BY MoveFacts DEF DeinitGive
<1>4. sem' = [sem EXCEPT ![s] = IF @ = "0" THEN "1" ELSE @] /\ ub' = (ub \/ sem[s] = "freed")
  BY <1>1 DEF DeinitGive, Silent
<1>5. sem[s] \in {"0", "1"} BY <1>1 DEF LifeInv, SignalInv
<1>6. ~ub' BY <1>4, <1>5 DEF LifeInv
<1>7. \A x \in Threads : sem'[x] \in {"0", "1"} <=> sem[x] \in {"0", "1"} BY <1>4
<1>8. Exclusive' BY <1>1, <1>2, <1>3 DEF LifeInv, Exclusive, Working, InBody
<1>9. JobInv' BY <1>1, <1>3 DEF LifeInv, JobInv, Working, InBody
<1>10. StageInv' BY <1>1, <1>2, <1>3 DEF LifeInv, StageInv, Silent, Unjoined
<1>11. ProgressInv' BY <1>1, <1>2, <1>3 DEF LifeInv, ProgressInv, Silent, Working, InBody
<1> QED BY <1>1, <1>2, <1>3, <1>6, <1>7, <1>8, <1>9, <1>10, <1>11, MoveLife DEF LifeInv

(* The thread to join exists and was not joined; afterwards the stream has *)
(* none.                                                                   *)
LEMMA DeinitJoinLife ==
    ASSUME TypeOK, LifeInv, NEW c \in Controllers, DeinitJoin(c)
    PROVE  LifeInv'
<1> USE ControlFacts DEF Controllers
<1> DEFINE i == cid[c]
           t == record_thread_id[i]
<1>1. Working(c) /\ cpc[c] = "join" /\ i \in Streams /\ ~Silent(i)
  BY DEF DeinitJoin, Working, InBody, LifeInv, StageInv
<1>2. \A d \in Controllers : d # c => cpc[d] \in {"idle", "off"} BY <1>1, OneController
<1>3. t \in Threads /\ sid[t] = i /\ Unjoined(t)
  BY <1>1, <1>2 DEF LifeInv, PairInv
<1>4. pc[t] = "done" /\ pc' = [pc EXCEPT ![t] = "joined"] /\ ~ub'
  BY <1>3 DEF DeinitJoin, Unjoined, LifeInv
<1>5. \A u \in Threads : pc'[u] = IF u = t THEN "joined" ELSE pc[u]
  BY <1>3, <1>4 DEF TypeOK, ThreadType, Procs
<1>6. UNCHANGED <<g_storage_signal, record_thread_id, sid, sem, waitsOn, queue, quit>>
  BY DEF DeinitJoin, signals, hotplug
<1>7. /\ cpc'[c] = "destroy" /\ UNCHANGED <<cjob, cid>>
      /\ \A d \in Controllers : d # c => cpc'[d] = cpc[d]
  BY MoveFacts DEF DeinitJoin
<1>8. Exclusive' BY <1>1, <1>6, <1>7 DEF LifeInv, Exclusive, Working, InBody
<1>9. JobInv' BY <1>1, <1>7 DEF LifeInv, JobInv, Working, InBody
<1>10. ThreadInv' BY <1>5, <1>6 DEF LifeInv, ThreadInv, Unjoined, Silent
<1>11. SignalInv' BY <1>6 DEF LifeInv, SignalInv, Silent
<1>12. PairInv'
  <2> SUFFICES ASSUME NEW j \in Streams, ~Silent(j), j # i
               PROVE  /\ record_thread_id[j] \in Threads
                      /\ sid[record_thread_id[j]] = j
                      /\ (Unjoined(record_thread_id[j]))'
    BY <1>6, <1>7 DEF PairInv, Silent, Unjoined
  <2>1. /\ record_thread_id[j] \in Threads /\ sid[record_thread_id[j]] = j
        /\ Unjoined(record_thread_id[j])
    BY <1>1, <1>2 DEF LifeInv, PairInv
  <2> QED BY <1>3, <1>5, <1>6, <2>1 DEF Unjoined
<1>13. StageInv'
  <2>1. \A u \in Threads : (Unjoined(u))' => sid[u] # i
    BY <1>3, <1>5 DEF Unjoined, LifeInv, ThreadInv
  <2> QED BY <1>1, <1>2, <1>6, <1>7, <2>1 DEF LifeInv, StageInv, Silent
<1>14. SleepInv' BY <1>4, <1>5, <1>6 DEF LifeInv, SleepInv
<1>15. ProgressInv' BY <1>1, <1>6, <1>7 DEF LifeInv, ProgressInv, Silent, Working, InBody
<1> QED BY <1>4, <1>8, <1>9, <1>10, <1>11, <1>12, <1>13, <1>14, <1>15 DEF LifeInv

(* Nobody sleeps on the signal that is freed.                              *)
LEMMA DeinitDestroyLife ==
    ASSUME TypeOK, LifeInv, NEW c \in Controllers, DeinitDestroy(c)
    PROVE  LifeInv'
<1> USE ControlFacts DEF Controllers
<1> DEFINE i == cid[c]
           s == g_storage_signal[i]
<1>1. Working(c) /\ cpc[c] = "destroy" /\ i \in Streams /\ ~Silent(i)
  BY DEF DeinitDestroy, Working, InBody, LifeInv, StageInv
<1>2. \A d \in Controllers : d # c => cpc[d] \in {"idle", "off"} BY <1>1, OneController
<1>3. s \in Threads /\ sem[s] \in {"0", "1"} BY <1>1 DEF LifeInv, SignalInv, Silent
<1>4. \A u \in Threads : Unjoined(u) => sid[u] # i BY <1>1 DEF LifeInv, StageInv
<1>5. \A u \in Threads : waitsOn[u] # s
  <2> SUFFICES ASSUME NEW u \in Threads, waitsOn[u] = s PROVE FALSE OBVIOUS
  <2>1. Unjoined(u) /\ s = g_storage_signal[sid[u]]
    BY <1>3 DEF LifeInv, SleepInv, Unjoined
  <2>2. sid[u] \in Streams BY DEF TypeOK, ThreadType, Procs
  <2> QED BY <1>1, <1>4, <2>1, <2>2 DEF LifeInv, SignalInv
<1>6. /\ sem' = [sem EXCEPT ![s] = "freed"]
      /\ ub' = (ub \/ sem[s] = "freed" \/ \E u \in Threads : waitsOn[u] = s)
      /\ g_storage_signal' = [g_storage_signal EXCEPT ![i] = None]
  BY <1>1 DEF DeinitDestroy, Destroy, Silent
<1>7. ~ub' BY <1>3, <1>5, <1>6 DEF LifeInv
<1>8. UNCHANGED <<record_thread_id, pc, sid, waitsOn, queue, quit>>
  BY DEF DeinitDestroy, hotplug
<1>9. \/ /\ cpc'[c] = "mkdir" /\ UNCHANGED <<cid, cjob>> /\ cjob[c] = "add"
         /\ \A d \in Controllers : d # c => cpc'[d] = cpc[d]
      \/ /\ cpc'[c] = "next" /\ cid'[c] = cid[c] + 1 /\ UNCHANGED cjob /\ cjob[c] # "init"
         /\ \A d \in Controllers : d # c => cpc'[d] = cpc[d] /\ cid'[d] = cid[d]
  BY <1>1, MoveFacts DEF LifeInv, JobInv, DeinitDestroy
<1>10. Exclusive' BY <1>1, <1>8, <1>9 DEF LifeInv, Exclusive, Working, InBody
<1>11. JobInv' BY <1>1, <1>9 DEF LifeInv, JobInv, Working, InBody
<1>12. ThreadInv' BY <1>4, <1>6, <1>8 DEF LifeInv, ThreadInv, Unjoined, Silent, TypeOK, ThreadType, Procs
<1>13. SignalInv'
  <2>1. \A j \in Streams : g_storage_signal'[j] = IF j = i THEN None ELSE g_storage_signal[j]
    BY <1>6
  <2>2. \A x \in Threads : sem'[x] = IF x = s THEN "freed" ELSE sem[x] BY <1>6
  <2> QED BY <1>1, <1>3, <2>1, <2>2 DEF LifeInv, SignalInv, Silent
<1>14. PairInv'
  <2> SUFFICES ASSUME NEW j \in Streams, ~(Silent(j))'
               PROVE  /\ record_thread_id[j] \in Threads
                      /\ sid[record_thread_id[j]] = j
                      /\ Unjoined(record_thread_id[j])
    BY <1>8 DEF PairInv, Unjoined
  <2>1. j # i /\ ~Silent(j) BY <1>6 DEF Silent
  <2> QED BY <1>1, <1>2, <2>1 DEF LifeInv, PairInv
<1>15. StageInv' BY <1>1, <1>2, <1>6, <1>8, <1>9 DEF LifeInv, StageInv, Silent, Unjoined
<1>16. SleepInv'
  BY <1>4, <1>6, <1>8 DEF LifeInv, SleepInv, Unjoined, TypeOK, ThreadType, Procs
<1>17. ProgressInv'
  <2>1. ASSUME NEW j \in Streams, j < cid[c] + 1, j # cid[c] PROVE j < cid[c]
    BY <2>1, <1>1
  <2>2. \A j \in Streams : (Silent(j))' <=> Silent(j) \/ j = i BY <1>6 DEF Silent
  <2> QED BY <1>1, <1>9, <2>1, <2>2 DEF LifeInv, JobInv, ProgressInv, Working, InBody
<1> QED BY <1>7, <1>10, <1>11, <1>12, <1>13, <1>14, <1>15, <1>16, <1>17 DEF LifeInv

(* A stream whose folder cannot be created, or that is not enabled, is     *)
(* left without signal.                                                    *)
LEMMA InitMkdirLife ==
    ASSUME TypeOK, LifeInv, NEW c \in Controllers, InitMkdir(c)
    PROVE  LifeInv'
<1> USE ControlFacts DEF Controllers
<1>1. Working(c) /\ cpc[c] = "mkdir" /\ cid[c] \in Streams BY DEF InitMkdir, Working, InBody
<1>2. UNCHANGED <<g_storage_signal, record_thread_id, pc, sid, sem, waitsOn, queue, quit, ub>>
  BY DEF InitMkdir, signals, hotplug
<1>3. \/ /\ cpc'[c] = "renew" /\ UNCHANGED <<cid, cjob>> /\ cid[c] \in Enabled
         /\ \A d \in Controllers : d # c => cpc'[d] = cpc[d]
      \/ /\ cpc'[c] = "next" /\ cid'[c] = cid[c] + 1 /\ UNCHANGED cjob
         /\ \A d \in Controllers : d # c => cpc'[d] = cpc[d] /\ cid'[d] = cid[d]
  BY MoveFacts DEF InitMkdir
<1>4. Silent(cid[c]) /\ cjob[c] \in {"init", "add"} BY <1>1 DEF LifeInv, StageInv, JobInv
<1>5. Exclusive' BY <1>1, <1>2, <1>3 DEF LifeInv, Exclusive, Working, InBody
<1>6. JobInv' BY <1>1, <1>3 DEF LifeInv, JobInv, Working, InBody
<1>7. StageInv' BY <1>1, <1>2, <1>3, <1>4 DEF LifeInv, StageInv, Silent, Unjoined
<1>8. ProgressInv'
  <2>1. ASSUME NEW i \in Streams, i > cid[c] + 1 \/ i = cid[c] + 1 PROVE i > cid[c]
    BY <2>1, <1>1
  <2> QED BY <1>1, <1>2, <1>3, <1>4, <2>1 DEF LifeInv, ProgressInv, Silent, Working, InBody
<1> QED BY <1>1, <1>2, <1>3, <1>5, <1>6, <1>7, <1>8, MoveLife DEF LifeInv

(* There is no signal of an earlier run to destroy.                        *)
LEMMA InitRenewLife ==
    ASSUME TypeOK, LifeInv, NEW c \in Controllers, InitRenew(c)
    PROVE  LifeInv'
<1> USE ControlFacts DEF Controllers
<1>1. Working(c) /\ cpc[c] = "renew" /\ cid[c] \in Streams /\ Silent(cid[c])
  BY DEF InitRenew, Working, InBody, LifeInv, StageInv
<1>2. UNCHANGED <<g_storage_signal, record_thread_id, pc, sid, sem, waitsOn, queue, quit, ub>>
  BY <1>1 DEF InitRenew, Destroy, Silent, hotplug
<1>3. /\ cpc'[c] = "create" /\ UNCHANGED <<cid, cjob>>
      /\ \A d \in Controllers : d # c => cpc'[d] = cpc[d]
  BY MoveFacts DEF InitRenew
<1>4. Exclusive' BY <1>1, <1>2, <1>3 DEF LifeInv, Exclusive, Working, InBody
<1>5. JobInv' BY <1>1, <1>3 DEF LifeInv, JobInv, Working, InBody
<1>6. StageInv' BY <1>1, <1>2, <1>3 DEF LifeInv, StageInv, Silent, Unjoined
<1>7. ProgressInv' BY <1>1, <1>2, <1>3 DEF LifeInv, ProgressInv, Silent, Working, InBody
<1> QED BY <1>1, <1>2, <1>3, <1>4, <1>5, <1>6, <1>7, MoveLife DEF LifeInv

(* The new signal is of no other stream, and the stream has no thread.     *)
LEMMA InitCreateLife ==
    ASSUME TypeOK, LifeInv, NEW c \in Controllers, InitCreate(c)
    PROVE  LifeInv'
<1> USE ControlFacts DEF Controllers
<1> DEFINE i == cid[c]
<1>1. Working(c) /\ cpc[c] = "create" /\ i \in Streams /\ Silent(i) /\ i \in Enabled
  BY DEF InitCreate, Working, InBody, LifeInv, StageInv, JobInv
<1>2. \A d \in Controllers : d # c => cpc[d] \in {"idle", "off"} BY <1>1, OneController
<1>3. PICK s \in Fresh(sem) :
          /\ sem' = [sem EXCEPT ![s] = "0"]
          /\ g_storage_signal' = [g_storage_signal EXCEPT ![i] = s]
  BY DEF InitCreate
<1>4. s \in Threads /\ sem[s] = "absent" BY <1>3, FreshIsAbsent
<1>5. \A j \in Streams : g_storage_signal[j] # s BY <1>4 DEF LifeInv, SignalInv, Silent
<1>6. \A j \in Streams : g_storage_signal'[j] = IF j = i THEN s ELSE g_storage_signal[j]
  BY <1>3
<1>7. UNCHANGED <<record_thread_id, pc, sid, waitsOn, queue, quit, ub>>
  BY DEF InitCreate, hotplug
<1>8. /\ cpc'[c] = "start" /\ UNCHANGED <<cid, cjob>>
      /\ \A d \in Controllers : d # c => cpc'[d] = cpc[d]
  BY MoveFacts DEF InitCreate
<1>9. \A u \in Threads : sid[u] \in Streams BY DEF TypeOK, ThreadType, Procs
<1>10. \A u \in Threads : Unjoined(u) => sid[u] # i BY <1>1 DEF LifeInv, ThreadInv
<1>11. Exclusive' BY <1>1, <1>7, <1>8 DEF LifeInv, Exclusive, Working, InBody
<1>12. JobInv' BY <1>1, <1>8 DEF LifeInv, JobInv, Working, InBody
<1>13. ThreadInv' BY <1>4, <1>6, <1>7, <1>9 DEF LifeInv, ThreadInv, Unjoined, Silent
<1>14. SignalInv'
  <2>1. \A x \in Threads : sem'[x] = IF x = s THEN "0" ELSE sem[x] BY <1>3
  <2> QED BY <1>1, <1>4, <1>5, <1>6, <2>1 DEF LifeInv, SignalInv, Silent
<1>15. PairInv'
  <2> SUFFICES ASSUME NEW j \in Streams, ~(Silent(j))', j # i
               PROVE  /\ record_thread_id[j] \in Threads
                      /\ sid[record_thread_id[j]] = j
                      /\ Unjoined(record_thread_id[j])
    BY <1>7, <1>8 DEF PairInv, Unjoined
  <2>1. ~Silent(j) BY <1>6 DEF Silent
  <2> QED BY <1>1, <1>2, <2>1 DEF LifeInv, PairInv
<1>16. StageInv' BY <1>1, <1>2, <1>4, <1>6, <1>7, <1>8, <1>10 DEF LifeInv, StageInv, Silent, Unjoined
<1>17. SleepInv' BY <1>6, <1>7, <1>9, <1>10 DEF LifeInv, SleepInv, Unjoined
<1>18. ProgressInv'
  <2>1. \A j \in Streams : (Silent(j))' <=> Silent(j) /\ j # i BY <1>4, <1>6 DEF Silent
  <2>2. cjob[c] \in {"init", "add"} BY <1>1 DEF LifeInv, JobInv
  <2>3. \A j \in Streams : j > i => j # i BY <1>1
  <2>4. \A j \in Streams : j \notin Enabled => (Silent(j))'
    BY <1>1, <2>1 DEF LifeInv, ProgressInv
  <2>5. CASE c = "main"
    <3>1. \A j \in Streams : j > i => (Silent(j))'
      BY <1>1, <2>1, <2>2, <2>3, <2>5 DEF LifeInv, JobInv, ProgressInv
    <3> QED BY <1>1, <1>8, <2>2, <2>4, <2>5, <3>1 DEF ProgressInv
  <2>6. CASE c = "msg"
    <3>1. cpc'["main"] = "idle" BY <1>1, <1>8, <2>6 DEF LifeInv, Exclusive, Working, InBody
    <3> QED BY <2>4, <3>1 DEF ProgressInv, Working, InBody
  <2> QED BY <2>5, <2>6
<1> QED BY <1>7, <1>11, <1>12, <1>13, <1>14, <1>15, <1>16, <1>17, <1>18 DEF LifeInv

(* The stream's only thread is the new one.                                *)
LEMMA InitStartLife ==
    ASSUME TypeOK, LifeInv, NEW c \in Controllers, InitStart(c)
    PROVE  LifeInv'
<1> USE ControlFacts DEF Controllers
<1> DEFINE i == cid[c]
<1>1. /\ Working(c) /\ cpc[c] = "start" /\ i \in Streams /\ ~Silent(i)
      /\ cjob[c] \in {"init", "add"}
  BY DEF InitStart, Working, InBody, LifeInv, StageInv, JobInv
<1>2. \A d \in Controllers : d # c => cpc[d] \in {"idle", "off"} BY <1>1, OneController
<1>3. \A u \in Threads : Unjoined(u) => sid[u] # i BY <1>1 DEF LifeInv, StageInv
<1>4. PICK t \in Fresh(pc) :
          /\ pc' = [pc EXCEPT ![t] = "check"]
          /\ sid' = [sid EXCEPT ![t] = i]
          /\ record_thread_id' = [record_thread_id EXCEPT ![i] = t]
  BY DEF InitStart, Goto
<1>5. t \in Threads /\ pc[t] = "absent" BY <1>4, FreshIsAbsent
<1>6. \A u \in Threads : /\ pc'[u] = IF u = t THEN "check" ELSE pc[u]
                         /\ sid'[u] = IF u = t THEN i ELSE sid[u]
                         /\ sid[u] \in Streams
  BY <1>4 DEF TypeOK, ThreadType, Procs
<1>7. \A j \in Streams : record_thread_id'[j] = IF j = i THEN t ELSE record_thread_id[j]
  BY <1>4
<1>8. UNCHANGED <<g_storage_signal, sem, waitsOn, queue, quit, ub>>
  BY DEF InitStart, signals, hotplug
<1>9. /\ cpc'[c] = "next" /\ cid'[c] = i + 1 /\ UNCHANGED cjob
      /\ \A d \in Controllers : d # c => cpc'[d] = cpc[d] /\ cid'[d] = cid[d]
  BY MoveFacts DEF InitStart
<1>10. Exclusive' BY <1>1, <1>8, <1>9 DEF LifeInv, Exclusive, Working, InBody
<1>11. JobInv' BY <1>1, <1>9 DEF LifeInv, JobInv, Working, InBody
<1>12. ThreadInv' BY <1>1, <1>3, <1>6, <1>7, <1>8 DEF LifeInv, ThreadInv, Unjoined, Silent
<1>13. SignalInv' BY <1>8 DEF LifeInv, SignalInv, Silent
<1>14. PairInv'
  <2> SUFFICES ASSUME NEW j \in Streams, ~Silent(j)
               PROVE  /\ record_thread_id'[j] \in Threads
                      /\ sid'[record_thread_id'[j]] = j
                      /\ (Unjoined(record_thread_id[j]))'
    BY <1>8 DEF PairInv, Silent
  <2>1. CASE j = i BY <1>5, <1>6, <1>7, <2>1 DEF Unjoined
  <2>2. CASE j # i
    <3>1. /\ record_thread_id[j] \in Threads
          /\ sid[record_thread_id[j]] = j
          /\ Unjoined(record_thread_id[j])
      BY <1>1, <1>2, <2>2 DEF LifeInv, PairInv
    <3> QED BY <1>5, <1>6, <1>7, <2>2, <3>1 DEF Unjoined
  <2> QED BY <2>1, <2>2
<1>15. StageInv' BY <1>1, <1>2, <1>8, <1>9 DEF StageInv
<1>16. SleepInv' BY <1>5, <1>6, <1>8 DEF LifeInv, SleepInv
<1>17. ProgressInv'
  <2>1. ASSUME NEW j \in Streams, j > i + 1 \/ j = i + 1 PROVE j > i
    BY <2>1, <1>1
  <2> QED BY <1>1, <1>2, <1>8, <1>9, <2>1 DEF LifeInv, JobInv, ProgressInv, Silent, Working, InBody
<1> QED BY <1>8, <1>10, <1>11, <1>12, <1>13, <1>14, <1>15, <1>16, <1>17 DEF LifeInv

(* The main thread's calls, as long as they wait for hotplug to settle.    *)
LEMMA MainLife ==
    ASSUME TypeOK, LifeInv, "overlap" \notin Faults,
           rk_storage_init \/ rk_storage_deinit \/ Shutdown
    PROVE  LifeInv'
<1> USE ControlFacts DEF Controllers
<1>1. UNCHANGED <<g_storage_signal, record_thread_id, pc, sid, sem, waitsOn, ub>>
  BY DEF rk_storage_init, rk_storage_deinit, Shutdown, StopListener, SetQuit, JoinMsg, signals
<1>2. CASE rk_storage_init
  <2>1. /\ cpc["main"] = "off" /\ cpc' = [cpc EXCEPT !["main"] = "next", !["msg"] = "idle"]
        /\ cjob' = [cjob EXCEPT !["main"] = "init"] /\ cid' = [cid EXCEPT !["main"] = 0]
        /\ queue' = << >> /\ quit' = FALSE
    BY <1>2 DEF rk_storage_init, listen_msg_init, msg_create
  <2>2. Exclusive' BY <2>1 DEF Exclusive
  <2>3. JobInv' BY <2>1 DEF LifeInv, JobInv, Working, InBody
  <2>4. StageInv' BY <2>1 DEF StageInv
  <2>5. ProgressInv' BY <1>1, <2>1 DEF LifeInv, ProgressInv, Silent, Working
  <2>6. \A c \in Controllers : cpc[c] \notin {"destroy", "start"}
    BY <2>1 DEF LifeInv, Exclusive
  <2> QED BY <1>1, <2>2, <2>3, <2>4, <2>5, <2>6, MoveLife DEF LifeInv
<1>3. CASE rk_storage_deinit
  <2>1. /\ cpc["main"] = "idle" /\ queue = << >> /\ cpc["msg"] = "idle"
        /\ cpc' = [cpc EXCEPT !["main"] = "next"]
        /\ cjob' = [cjob EXCEPT !["main"] = "deinit"] /\ cid' = [cid EXCEPT !["main"] = 0]
        /\ UNCHANGED <<queue, quit>>
    BY <1>3 DEF rk_storage_deinit, Begin, Settled, hotplug
  <2>2. Exclusive' BY <2>1 DEF LifeInv, Exclusive
  <2>3. JobInv' BY <2>1 DEF LifeInv, JobInv, Working, InBody
  <2>4. StageInv' BY <2>1 DEF StageInv
  <2>5. ProgressInv' BY <1>1, <2>1 DEF LifeInv, ProgressInv, Silent, Working
  <2>6. \A c \in Controllers : cpc[c] \notin {"destroy", "start"} BY <2>1
  <2> QED BY <1>1, <2>2, <2>3, <2>4, <2>5, <2>6, MoveLife DEF LifeInv
<1>4. CASE Shutdown
  <2>1. /\ UNCHANGED <<cjob, cid, queue>>
        /\ cpc'["msg"] = cpc["msg"]
        /\ \/ cpc["main"] = "listener" /\ cpc'["main"] = "quit" /\ quit' = quit
           \/ cpc["main"] = "quit" /\ cpc'["main"] = "msgjoin"
           \/ cpc["main"] = "msgjoin" /\ cpc'["main"] = "off" /\ cpc["msg"] = "off"
    BY <1>4, MoveFacts DEF Shutdown, StopListener, SetQuit, JoinMsg, hotplug
  <2>2. Exclusive' BY <2>1 DEF LifeInv, Exclusive
  <2>3. JobInv' BY <2>1 DEF LifeInv, JobInv, Working, InBody
  <2>4. StageInv' BY <1>1, <2>1 DEF LifeInv, StageInv, Silent, Unjoined
  <2>5. ProgressInv' BY <1>1, <2>1 DEF LifeInv, ProgressInv, Silent, Working, InBody
  <2> QED BY <1>1, <2>1, <2>2, <2>3, <2>4, <2>5, MoveLife DEF LifeInv
<1> QED BY <1>2, <1>3, <1>4

(* Hotplug events reach a running system only.                             *)
LEMMA HotplugLife ==
    ASSUME TypeOK, LifeInv, "overlap" \notin Faults, Hotplug \/ MsgTake \/ MsgExit
    PROVE  LifeInv'
<1> USE ControlFacts DEF Controllers
<1>1. UNCHANGED <<g_storage_signal, record_thread_id, pc, sid, sem, waitsOn, ub>>
  BY DEF Hotplug, DeviceEvent, MsgTake, MsgExit, signals
<1>2. CASE Hotplug
  <2>1. cpc["main"] = "idle" /\ UNCHANGED <<cpc, cjob, cid, quit>>
    BY <1>2 DEF Hotplug, DeviceEvent, control
  <2>2. Exclusive' BY <2>1 DEF LifeInv, Exclusive
  <2>3. JobInv' BY <2>1 DEF LifeInv, JobInv, Working
  <2>4. StageInv' BY <1>1, <2>1 DEF LifeInv, StageInv, Silent, Unjoined
  <2>5. ProgressInv' BY <1>1, <2>1 DEF LifeInv, ProgressInv, Silent, Working
  <2> QED BY <1>1, <2>1, <2>2, <2>3, <2>4, <2>5, MoveLife DEF LifeInv
<1>3. CASE MsgTake
  <2>1. queue # << >> /\ ~quit /\ cpc["msg"] = "idle" /\ quit' = quit BY <1>3 DEF MsgTake
  <2>2. cpc["main"] = "idle" BY <2>1 DEF LifeInv, Exclusive
  <2>3. \/ UNCHANGED <<cpc, cjob, cid>>
        \/ /\ cpc' = [cpc EXCEPT !["msg"] = "next"]
           /\ \E job \in {"add", "remove"} : cjob' = [cjob EXCEPT !["msg"] = job]
           /\ cid' = [cid EXCEPT !["msg"] = 0]
    BY <1>3 DEF MsgTake, Begin, control
  <2>4. Exclusive' BY <2>1, <2>2, <2>3 DEF LifeInv, Exclusive
  <2>5. JobInv' BY <2>1, <2>2, <2>3 DEF LifeInv, JobInv, Working, InBody
  <2>6. StageInv' BY <1>1, <2>1, <2>2, <2>3 DEF LifeInv, StageInv, Silent, Unjoined
  <2>7. ProgressInv' BY <1>1, <2>2, <2>3 DEF LifeInv, ProgressInv, Silent, Working, InBody
  <2> QED BY <1>1, <2>1, <2>2, <2>4, <2>5, <2>6, <2>7, MoveLife DEF LifeInv
<1>4. CASE MsgExit
  <2>1. quit /\ cpc["msg"] = "idle" /\ UNCHANGED <<cjob, cid, queue, quit>>
    BY <1>4 DEF MsgExit, CGoto, hotplug
  <2>2. cpc'["msg"] = "off" /\ cpc'["main"] = cpc["main"] BY <1>4, MoveFacts DEF MsgExit
  <2>3. cpc["main"] \in {"msgjoin", "off"} BY <2>1 DEF LifeInv, Exclusive
  <2>4. Exclusive' BY <2>1, <2>2, <2>3 DEF LifeInv, Exclusive
  <2>5. JobInv' BY <2>1, <2>2, <2>3 DEF LifeInv, JobInv, Working, InBody
  <2>6. StageInv' BY <1>1, <2>1, <2>2 DEF LifeInv, StageInv, Silent, Unjoined
  <2>7. ProgressInv' BY <1>1, <2>1, <2>2 DEF LifeInv, ProgressInv, Silent, Working, InBody
  <2> QED BY <1>1, <2>1, <2>2, <2>3, <2>4, <2>5, <2>6, <2>7, MoveLife DEF LifeInv
<1> QED BY <1>2, <1>3, <1>4

LEMMA LifeStep ==
    ASSUME TypeOK, LifeInv, "overlap" \notin Faults, [Next]_vars
    PROVE  LifeInv'
<1>1. ASSUME NEW t \in Threads, RecordThread(t) \/ RecordTimeout(t) PROVE LifeInv'
  BY <1>1, SectionLife, RecordLife DEF RecordThread
<1>2. ASSUME NEW c \in Clients,
             rk_storage_record_start(c) \/ rk_storage_record_stop(c) \/ ServerCall(c)
      PROVE  LifeInv'
  BY <1>2, SectionLife, CommandLife DEF ServerCall
<1>3. ASSUME NEW c \in Controllers, Controller(c) PROVE LifeInv'
  BY <1>3, LoopTopLife, LoopEndLife, DeinitFlagLife, DeinitTestLife, DeinitGiveLife,
     DeinitJoinLife, DeinitDestroyLife, InitMkdirLife, InitRenewLife, InitCreateLife, InitStartLife
     DEF Controller
<1>4. CASE UNCHANGED vars BY <1>4, OthersLife DEF vars
<1> QED BY <1>1, <1>2, <1>3, <1>4, WriterLife, MainLife, HotplugLife DEF Next

LEMMA LifeImplies ==
    ASSUME TypeOK, LifeInv
    PROVE  OneRecorder /\ NoUndefinedBehaviour /\ DeinitLeavesNothing
<1>1. OneRecorder BY DEF LifeInv, ThreadInv, Unjoined, Silent, OneRecorder, Live
<1>2. NoUndefinedBehaviour BY DEF LifeInv, NoUndefinedBehaviour
<1>3. DeinitLeavesNothing
  <2> SUFFICES ASSUME cpc["main"] = "off"
               PROVE  /\ \A t \in Threads : pc[t] \in {"absent", "joined"}
                      /\ \A s \in Threads : sem[s] \in {"absent", "freed"}
    BY DEF DeinitLeavesNothing
  <2>1. \A i \in Streams : Silent(i) BY DEF LifeInv, ProgressInv
  <2>2. \A t \in Threads : sid[t] \in Streams BY DEF TypeOK, ThreadType, Procs
  <2>3. \A t \in Threads : ~Unjoined(t) BY <2>1, <2>2 DEF LifeInv, ThreadInv
  <2>4. \A s \in Threads : sem[s] \notin {"0", "1"}
    BY <2>1, ControlFacts DEF LifeInv, SignalInv, Silent
  <2> QED BY <2>3, <2>4, ControlFacts DEF Unjoined
<1> QED BY <1>1, <1>2, <1>3

(* The invariant, unless rk_storage_init and rk_storage_deinit overlap the *)
(* handling of hotplug.                                                    *)
THEOREM RecorderLifeCycle ==
    ASSUME "overlap" \notin Faults
    PROVE  Spec => [](OneRecorder /\ NoUndefinedBehaviour /\ DeinitLeavesNothing)
<1>1. Init => TypeOK /\ LifeInv BY InitType, LifeInit
<1>2. TypeOK /\ LifeInv /\ [Next]_vars => (TypeOK /\ LifeInv)' BY StepType, LifeStep
<1>3. TypeOK /\ LifeInv => OneRecorder /\ NoUndefinedBehaviour /\ DeinitLeavesNothing
  BY LifeImplies
<1> QED BY <1>1, <1>2, <1>3, PTL DEF Spec

(* A stream never has two record threads, nor one whose id                 *)
(* rk_storage_muxer_init_by_id has overwritten, so that it cannot be       *)
(* joined.                                                                 *)
THEOREM OneRecordThread ==
    ASSUME "overlap" \notin Faults
    PROVE  Spec => []OneRecorder
BY RecorderLifeCycle, PTL

(* rk_storage_muxer_deinit_by_id frees no signal twice or under a sleeper, *)
(* nobody uses a signal that was freed, and no thread is joined twice.     *)
THEOREM SignalsAndThreadsDefined ==
    ASSUME "overlap" \notin Faults
    PROVE  Spec => []NoUndefinedBehaviour
BY RecorderLifeCycle, PTL

(* When rk_storage_deinit has returned every record thread was joined and  *)
(* every signal was freed.                                                 *)
THEOREM NothingLeft ==
    ASSUME "overlap" \notin Faults
    PROVE  Spec => []DeinitLeavesNothing
BY RecorderLifeCycle, PTL
=============================================================================
