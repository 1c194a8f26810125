---------------------------- MODULE Video_proofs ----------------------------
(***************************************************************************)
(* The pipelines, for any set of streams, outputs and clients, any number  *)
(* of restarts, and whatever the camera and the encoders fail to deliver.  *)
(*                                                                         *)
(* Outputs (SinkInv): only the holder of an output's mutex transmits, and  *)
(* sessions are opened and closed only while nobody holds it.  Nothing is  *)
(* needed of the controller's plan (todo): the protection does not rest on *)
(* the order of init and deinit.                                           *)
(*                                                                         *)
(* Threads and channels (PlanInv): these do rest on the plan.  What is     *)
(* still to come in todo tells which threads exist and which flags are     *)
(* set, and every call, concatenated from its parts, is Sorted: flags      *)
(* first, then the threads, the jpeg encoder's after those that use it.    *)
(*                                                                         *)
(* Photos (CalmInv): while orders stay apart, the counters, the places of  *)
(* the photo threads and the encoder tell where the one order is.          *)
(***************************************************************************)
EXTENDS Video, FiniteSetTheorems, FunctionTheorems, TLAPS

Labels == {"none", "exit", "get", "rtsp_tx", "rtmp", "rtmp_tx", "sleep", "idle",
           "grab", "resized", "first", "wait", "stop", "start", "count", "count_get"}

SinkType ==
    /\ open \in [Sinks -> BOOLEAN]
    /\ mutex \in [Sinks -> Streams \cup {None}]
    /\ pc \in [Workers \cup Clients -> Labels]

SinkInv == SinkType /\ FramesInsideSession

(* A step that leaves the outputs alone and sends at most one thread to a  *)
(* place where nothing is transmitted keeps the invariant.                 *)
LEMMA QuietStep ==
    ASSUME SinkInv, UNCHANGED sinks,
           NEW t, NEW l \in Labels \ {"rtsp_tx", "rtmp_tx"},
           pc' = [pc EXCEPT ![t] = l]
    PROVE  SinkInv'
<1>1. SinkType'
  BY DEF SinkInv, SinkType, sinks
<1>2. \A u \in Streams : pc'[u] = pc[u] \/ pc'[u] = l
  BY DEF SinkInv, SinkType, Streams, Workers
<1>3. FramesInsideSession'
  BY <1>2 DEF SinkInv, FramesInsideSession, sinks, Tx
<1> QED
  BY <1>1, <1>3 DEF SinkInv

(* So does a step that leaves the threads alone too.                       *)
LEMMA IdleStep ==
    ASSUME SinkInv, UNCHANGED <<sinks, pc>>
    PROVE  SinkInv'
BY DEF SinkInv, SinkType, FramesInsideSession, sinks

(* Frames.                                                                 *)
LEMMA StreamStepInv ==
    ASSUME SinkInv, NEW t \in Streams, StreamStep(t)
    PROVE  SinkInv'
<1>1. CASE GetTimeout(t)
  BY <1>1, QuietStep DEF GetTimeout, Loop, Goto, sinks, Labels
<1>2. ASSUME NEW s \in Sinks, WriteFrame(t, s)
      PROVE  SinkInv'
  <2>1. CASE ~open[s]
    BY <1>2, <2>1, QuietStep DEF WriteFrame, After, Loop, Goto, sinks, Labels
  <2>2. CASE open[s]
    <3>1. /\ mutex[s] = None /\ mutex' = [mutex EXCEPT ![s] = t] /\ open' = open
          /\ pc' = [pc EXCEPT ![t] = Tx(s)]
      BY <1>2, <2>2 DEF WriteFrame, Goto
    <3>2. SinkType'
      BY <3>1 DEF SinkInv, SinkType, Tx, Labels
    <3>3. \A u \in Streams : pc[u] # Tx(s)
      BY <3>1, VideoAssumption DEF SinkInv, FramesInsideSession
    <3>4. \A u \in Streams : pc'[u] = IF u = t THEN Tx(s) ELSE pc[u]
      BY <3>1 DEF SinkInv, SinkType, Streams, Workers
    <3>5. \A r \in Sinks : Tx(r) = Tx(s) => r = s
      BY VideoAssumption DEF Tx
    <3>6. ASSUME NEW u \in Streams, NEW r \in Sinks, pc'[u] = Tx(r)
          PROVE  open'[r] /\ mutex'[r] = u
      <4>1. CASE u = t
        BY <4>1, <3>1, <3>4, <3>5, <3>6, <2>2 DEF SinkInv, SinkType
      <4>2. CASE u # t
        BY <4>2, <3>1, <3>3, <3>4, <3>6 DEF SinkInv, SinkType, FramesInsideSession
      <4> QED BY <4>1, <4>2
    <3> QED BY <3>2, <3>6 DEF SinkInv, FramesInsideSession
  <2> QED BY <2>1, <2>2 DEF SinkInv, SinkType
<1>3. ASSUME NEW s \in Sinks, Written(t, s)
      PROVE  SinkInv'
  <2>1. PICK l \in Labels \ {"rtsp_tx", "rtmp_tx"} : pc' = [pc EXCEPT ![t] = l]
    BY <1>3 DEF Written, After, Loop, Goto, Labels
  <2>2. mutex[s] = t /\ mutex' = [mutex EXCEPT ![s] = None] /\ open' = open
    BY <1>3 DEF Written, SinkInv, FramesInsideSession
  <2>3. SinkType'
    BY <2>1, <2>2 DEF SinkInv, SinkType
  <2>4. \A u \in Streams : pc'[u] = IF u = t THEN l ELSE pc[u]
    BY <2>1 DEF SinkInv, SinkType, Streams, Workers
  <2>5. ASSUME NEW u \in Streams, NEW r \in Sinks, pc'[u] = Tx(r)
        PROVE  open'[r] /\ mutex'[r] = u
    <3>1. u # t
      BY <2>4, <2>5 DEF Tx
    <3>2. open[r] /\ mutex[r] = u
      BY <3>1, <2>4, <2>5 DEF SinkInv, FramesInsideSession
    <3> QED BY <3>1, <3>2, <2>2 DEF SinkInv, SinkType
  <2> QED BY <2>3, <2>5 DEF SinkInv, FramesInsideSession
<1>4. CASE Eos(t)
  BY <1>4, QuietStep DEF Eos, Goto, sinks, Labels
<1> QED
  BY <1>1, <1>2, <1>3, <1>4 DEF StreamStep, FrameStep

(* Photos: callers, and the threads that send and get them.                *)
LEMMA PhotoInv ==
    ASSUME SinkInv,
           \/ \E c \in Callers : PhotoTest(c) \/ PhotoRefused(c) \/ PhotoStep(c)
           \/ SendStep \/ GrabTimeout \/ ResizeFails
           \/ GetStep
    PROVE  SinkInv'
<1> USE DEF Goto, Loop, Labels, sinks
<1>1. ASSUME NEW c \in Callers, PhotoTest(c) \/ PhotoRefused(c) \/ PhotoStep(c)
      PROVE  SinkInv'
  BY <1>1, QuietStep DEF PhotoTest, PhotoRefused, PhotoStep, PhotoStart, PhotoCount,
     PhotoCountGet, Done
<1>2. CASE SendStep \/ GrabTimeout \/ ResizeFails
  BY <1>2, QuietStep DEF SendStep, SendTest, Grab, SendFrame, GrabTimeout, ResizeFails, Counted
<1>3. CASE GetStep
  BY <1>3, QuietStep DEF GetStep, GetFirst, GetTest, GetPhoto, GetStop
<1> QED
  BY <1>1, <1>2, <1>3

(* The controller.                                                         *)
LEMMA ControlInv ==
    ASSUME SinkInv,
           \/ Control \/ Restart \/ Shutdown
           \/ \E value \in BOOLEAN : rk_video_set_enable_cycle_snapshot(value)
    PROVE  SinkInv'
<1>1. CASE SetRun \/ SetCycle \/ Zero \/ Ready \/ Restart \/ Shutdown
  BY <1>1, IdleStep DEF SetRun, SetCycle, Zero, Ready, Restart, Shutdown, sinks
<1>2. CASE \E value \in BOOLEAN : rk_video_set_enable_cycle_snapshot(value)
  BY <1>2, IdleStep DEF rk_video_set_enable_cycle_snapshot, sinks
<1>3. CASE FinishThread
  BY <1>3, QuietStep DEF FinishThread, Goto, Labels
<1>4. CASE StartThread
  <2>1. \E w, l : /\ l \in Labels \ {"rtsp_tx", "rtmp_tx"}
                  /\ pc' = [pc EXCEPT ![w] = l]
    BY <1>4 DEF StartThread, Loop, Done, Goto, Labels
  <2> QED
    BY <1>4, <2>1, QuietStep DEF StartThread
<1>5. CASE SetSink
  <2>1. mutex[Of] = None /\ UNCHANGED <<mutex, pc>>
    BY <1>5 DEF SetSink
  <2>2. PICK b \in BOOLEAN : open' = [open EXCEPT ![Of] = b]
    BY <1>5 DEF SetSink, AtOp
  <2>3. SinkType'
    BY <2>1, <2>2 DEF SinkInv, SinkType
  <2>4. \A u \in Streams, r \in Sinks : pc[u] = Tx(r) => r # Of
    BY <2>1, VideoAssumption DEF SinkInv, FramesInsideSession
  <2>5. FramesInsideSession'
    BY <2>1, <2>2, <2>4 DEF SinkInv, SinkType, FramesInsideSession, Tx
  <2> QED
    BY <2>3, <2>5 DEF SinkInv
<1> QED
  BY <1>1, <1>2, <1>3, <1>4, <1>5 DEF Control

LEMMA InitSinks == Init => SinkInv
<1> SUFFICES ASSUME Init PROVE SinkInv
  OBVIOUS
<1>1. SinkType
  BY DEF Init, SinkType, Labels
<1>2. FramesInsideSession
  BY DEF Init, FramesInsideSession, Tx, Streams, Workers
<1> QED BY <1>1, <1>2 DEF SinkInv

LEMMA NextSinks == SinkInv /\ [Next]_vars => SinkInv'
<1> SUFFICES ASSUME SinkInv, [Next]_vars PROVE SinkInv'
  OBVIOUS
<1>1. CASE UNCHANGED vars
  BY <1>1, IdleStep DEF vars, sinks
<1>2. CASE Next
  BY <1>2, StreamStepInv, PhotoInv, ControlInv DEF Next
<1> QED BY <1>1, <1>2

(* A frame is transmitted only to an output whose sessions exist, and by   *)
(* the thread that holds the output's mutex (rkipc_rtsp_write_video_frame, *)
(* rkipc_rtsp_write_audio_frame, rk_rtmp_write_video_frame against the     *)
(* init and deinit of the outputs).                                        *)
THEOREM OutputsProtected == Spec => []FramesInsideSession
<1>1. SinkInv => FramesInsideSession
  BY DEF SinkInv
<1> QED
  BY <1>1, InitSinks, NextSinks, PTL DEF Spec

-----------------------------------------------------------------------------
(* The controller's plan, todo: which steps it has, and in which order.    *)
FinishStep(w) == Op("finish", w)
StartStep(w) == Op("start", w)
VideoStop == Op("video_stop", Vi)
VideoRun == Op("video_run", Vi)
CycleOff == Op("cycle_off", "cycle")
CycleOn == Op("cycle_on", "cycle")
ZeroStep == Op("zero", "cycle")

AudioSteps == {Op("audio_stop", Audio), FinishStep(Audio), StartStep(Audio)}
VideoSteps ==
    {VideoStop, VideoRun, CycleOff, CycleOn, ZeroStep}
    \cup {FinishStep(w) : w \in Workers \ {Audio}} \cup {StartStep(w) : w \in Workers \ {Audio}}
    \cup {Op("sink_open", s) : s \in Sinks} \cup {Op("sink_close", s) : s \in Sinks}
Steps == AudioSteps \cup VideoSteps

(* The run flag first, then the threads, the jpeg encoder's after those    *)
(* that use it; the other way round at the start.                          *)
Stage(x) ==
    IF x.op \in {"video_stop", "audio_stop", "zero"} THEN 0
    ELSE IF x.op \in {"finish", "cycle_off"} THEN IF x.of = "get" THEN 2 ELSE 1
    ELSE IF x.op \in {"sink_close", "video_run"} THEN IF x.op = "sink_close" THEN 2 ELSE 3
    ELSE IF x.of \in {"send", "cycle"} THEN 5 ELSE 4

(* Step x may come before step y.                                          *)
MayPrecede(x, y) ==
    x # y /\ ((x \in AudioSteps <=> y \in AudioSteps) => Stage(x) <= Stage(y))

Sorted(q) ==
    /\ q \in Seq(Steps)
    /\ \A j, k \in 1 .. Len(q) : j < k => MayPrecede(q[j], q[k])

Planned == ToSet(todo)

(* A thread that no step is to join exists unless a step is to create it   *)
(* or the system goes down; the cycle thread is a case of its own.         *)
Threads == Workers \ {"cycle"}
ThreadPlan ==
    /\ \A w \in Threads : FinishStep(w) \in Planned =>
         pc[w] # "none" /\ (StartStep(w) \in Planned \/ power = "down")
    /\ \A w \in Threads : FinishStep(w) \notin Planned =>
         (pc[w] = "none" <=> StartStep(w) \in Planned \/ power = "down")
    /\ power = "down" => \A w \in Workers : StartStep(w) \notin Planned

(* A thread of the video ends only when it is to be joined.                *)
VideoThreads == Vencs \cup {"send", "get"}
RunPlan ==
    /\ VideoStop \in Planned =>
         /\ VideoRun \in Planned \/ power = "down"
         /\ \A w \in VideoThreads : FinishStep(w) \in Planned
         /\ CycleOff \in Planned
    /\ ~g_video_run_ => VideoRun \in Planned \/ power = "down"
    /\ StartStep("get") \in Planned => StartStep("send") \in Planned
    /\ power = "down" => VideoRun \notin Planned /\ CycleOn \notin Planned
    /\ \A w \in VideoThreads :
         pc[w] # "none" /\ (pc[w] = "exit" \/ ~g_video_run_) => FinishStep(w) \in Planned

CycleThread == pc["cycle"] # "none"
Settled == power # "down" /\ Planned \cap {CycleOn, FinishStep("cycle"), StartStep("cycle")} = {}
CyclePlan ==
    /\ CycleOff \in Planned =>
         /\ CycleOn \in Planned \/ power = "down"
         /\ FinishStep("cycle") \notin Planned
    /\ CycleOn \in Planned => StartStep("cycle") \notin Planned /\ ZeroStep \notin Planned
    /\ ZeroStep \in Planned => FinishStep("cycle") \in Planned /\ power # "down"
    /\ FinishStep("cycle") \in Planned =>
         /\ CycleThread /\ StartStep("cycle") \notin Planned
         /\ ZeroStep \in Planned \/ ~cycle_snapshot_flag
         /\ CycleOn \in Planned \/ power = "down" \/ ~enable_cycle_snapshot
    /\ StartStep("cycle") \in Planned =>
         ~CycleThread /\ cycle_snapshot_flag /\ enable_cycle_snapshot
    /\ CycleOff \in Planned \/ Settled
         => (CycleThread <=> enable_cycle_snapshot) /\ cycle_snapshot_flag = enable_cycle_snapshot
    /\ CycleOn \in Planned /\ CycleOff \notin Planned /\ FinishStep("cycle") \notin Planned
         => ~CycleThread /\ ~cycle_snapshot_flag
    /\ CycleThread /\ (pc["cycle"] = "exit" \/ ~g_video_run_ \/ ~cycle_snapshot_flag)
         => CycleOff \in Planned \/ FinishStep("cycle") \in Planned

ChannelInv ==
    /\ \A t \in Streams : pc[t] # "none" => chan[t]
    /\ pc["get"] # "none" \/ pc["send"] # "none" => chan["jpeg"]

DataType ==
    /\ g_video_run_ \in BOOLEAN /\ g_audio_run_ \in BOOLEAN
    /\ cycle_snapshot_flag \in BOOLEAN /\ enable_cycle_snapshot \in BOOLEAN
    /\ send_jpeg_cnt \in Int /\ get_jpeg_cnt \in Int
    /\ chan \in [Channels -> BOOLEAN]
    /\ recv \in 0 .. 1 /\ out \in Seq(Nat) /\ shot \in Nat
    /\ power \in {"boot", "up", "down"}
    /\ orders \in Nat

PlanInv == Sorted(todo) /\ ThreadPlan /\ RunPlan /\ CyclePlan /\ ChannelInv /\ DataType

-----------------------------------------------------------------------------
(* Plans as sequences.                                                     *)

LEMMA OpEqual ==
    ASSUME NEW o, NEW w, NEW p, NEW v
    PROVE  Op(o, w) = Op(p, v) <=> o = p /\ w = v
BY DEF Op

LEMMA OpFields ==
    ASSUME NEW o, NEW w
    PROVE  Op(o, w).op = o /\ Op(o, w).of = w
BY DEF Op

(* What is left of a plan after its first step.                            *)
LEMMA PlanTail ==
    ASSUME NEW q, Sorted(q), q # << >>
    PROVE  /\ Sorted(Tail(q)) /\ Head(q) \in ToSet(q) /\ Head(q) \in Steps
           /\ ToSet(Tail(q)) = ToSet(q) \ {Head(q)}
           /\ \A x \in ToSet(Tail(q)) : MayPrecede(Head(q), x)
<1> USE DEF ToSet
<1>1. q \in Seq(Steps) /\ Len(q) \in Nat /\ Len(q) # 0
  BY DEF Sorted
<1>2. /\ Tail(q) \in Seq(Steps) /\ Len(Tail(q)) = Len(q) - 1 /\ Head(q) = q[1] /\ q[1] \in Steps
      /\ \A k \in 1 .. Len(Tail(q)) : Tail(q)[k] = q[k + 1]
  BY <1>1
<1>3. \A j, k \in 1 .. Len(q) : j < k => MayPrecede(q[j], q[k])
  BY DEF Sorted
<1>4. \A j, k \in 1 .. Len(q) : j < k => q[j] # q[k]
  BY <1>3 DEF MayPrecede
<1>5. \A k \in 1 .. Len(Tail(q)) : k \in 1 .. Len(q) /\ k + 1 \in 1 .. Len(q) /\ 1 < k + 1
  BY <1>1, <1>2
<1>6. Sorted(Tail(q))
  <2> SUFFICES ASSUME NEW j \in 1 .. Len(Tail(q)), NEW k \in 1 .. Len(Tail(q)), j < k
               PROVE  MayPrecede(Tail(q)[j], Tail(q)[k])
    BY <1>2 DEF Sorted
  <2>1. j + 1 \in 1 .. Len(q) /\ k + 1 \in 1 .. Len(q) /\ j + 1 < k + 1
    BY <1>1, <1>2
  <2> QED BY <2>1, <1>2, <1>3
<1>7. DOMAIN q = 1 .. Len(q) /\ DOMAIN Tail(q) = 1 .. Len(Tail(q)) /\ 1 \in 1 .. Len(q)
  BY <1>1, <1>2
<1>8. ASSUME NEW x \in ToSet(Tail(q))
      PROVE  x \in ToSet(q) /\ x # Head(q) /\ MayPrecede(Head(q), x)
  <2>1. PICK k \in 1 .. Len(Tail(q)) : x = Tail(q)[k]
    BY <1>7
  <2>2. x = q[k + 1] /\ k + 1 \in 1 .. Len(q) /\ 1 < k + 1
    BY <2>1, <1>2, <1>5
  <2> QED BY <2>2, <1>2, <1>3, <1>4, <1>7
<1>9. ASSUME NEW x \in ToSet(q), x # Head(q)
      PROVE  x \in ToSet(Tail(q))
  <2>1. PICK k \in 1 .. Len(q) : x = q[k]
    BY <1>7
  <2>2. k # 1
    BY <2>1, <1>2, <1>9
  <2>3. k - 1 \in 1 .. Len(Tail(q)) /\ k - 1 + 1 = k
    BY <2>2, <1>1, <1>2
  <2>4. Tail(q)[k - 1] = x
    BY <2>1, <2>3, <1>2
  <2> QED BY <2>3, <2>4, <1>7
<1> QED BY <1>2, <1>6, <1>7, <1>8, <1>9

(* A plan of one step, and one plan after the other.                       *)
LEMMA PlanUnit ==
    ASSUME NEW x \in Steps
    PROVE  Sorted(<<x>>) /\ ToSet(<<x>>) = {x}
BY DEF Sorted, ToSet

LEMMA PlanConcat ==
    ASSUME NEW q, NEW r, Sorted(q), Sorted(r),
           \A x \in ToSet(q), y \in ToSet(r) : MayPrecede(x, y)
    PROVE  Sorted(q \o r) /\ ToSet(q \o r) = ToSet(q) \cup ToSet(r)
<1> DEFINE s == q \o r
           m == Len(q)
           n == Len(r)
<1>1. q \in Seq(Steps) /\ r \in Seq(Steps) /\ s \in Seq(Steps) /\ m \in Nat /\ n \in Nat
      /\ Len(s) = m + n
  BY DEF Sorted
<1>2. /\ \A k \in 1 .. m : s[k] = q[k]
      /\ \A k \in m + 1 .. m + n : s[k] = r[k - m]
  BY <1>1
<1>3. DOMAIN q = 1 .. m /\ DOMAIN r = 1 .. n /\ DOMAIN s = 1 .. m + n
  BY <1>1
<1>4. /\ \A k \in 1 .. m + n : k \in 1 .. m \/ k \in m + 1 .. m + n
      /\ \A k \in m + 1 .. m + n : k - m \in 1 .. n
      /\ \A k \in 1 .. n : k + m \in m + 1 .. m + n /\ (k + m) - m = k /\ k + m \in 1 .. m + n
      /\ \A k \in 1 .. m : k \in 1 .. m + n
  BY <1>1
<1>0. m \in Nat /\ n \in Nat
  BY <1>1
<1> HIDE DEF s, m, n
<1>5. \A x : x \in ToSet(q) \/ x \in ToSet(r) => x \in ToSet(s)
  <2>1. ASSUME NEW k \in 1 .. m PROVE q[k] \in ToSet(s)
    BY <1>2, <1>3, <1>4 DEF ToSet
  <2>2. ASSUME NEW k \in 1 .. n PROVE r[k] \in ToSet(s)
    <3>1. k + m \in m + 1 .. m + n /\ (k + m) - m = k /\ k + m \in 1 .. m + n
      BY <1>0
    <3>2. ASSUME NEW i \in m + 1 .. m + n, i - m = k
          PROVE  s[i] = r[k]
      BY <3>2, <1>2
    <3>3. s[k + m] = r[k]
      BY <3>1, <3>2
    <3>4. k + m \in DOMAIN s
      BY <3>1, <1>3
    <3> QED BY <3>3, <3>4 DEF ToSet
  <2> QED BY <2>1, <2>2, <1>3 DEF ToSet
<1>6. \A x \in ToSet(s) : x \in ToSet(q) \/ x \in ToSet(r)
  <2>1. \A k \in 1 .. m : s[k] \in ToSet(q)
    BY <1>2, <1>3 DEF ToSet
  <2>2. \A k \in m + 1 .. m + n : s[k] \in ToSet(r)
    BY <1>2, <1>3, <1>4 DEF ToSet
  <2> QED BY <2>1, <2>2, <1>3, <1>4 DEF ToSet
<1>7. ASSUME NEW j \in 1 .. m + n, NEW k \in 1 .. m + n, j < k
      PROVE  MayPrecede(s[j], s[k])
  <2>1. CASE j \in 1 .. m /\ k \in 1 .. m
    BY <2>1, <1>2, <1>7 DEF Sorted, m
  <2>2. CASE j \in 1 .. m /\ k \in m + 1 .. m + n
    <3>1. s[j] \in ToSet(q) /\ s[k] \in ToSet(r)
      BY <2>2, <1>2, <1>3, <1>4 DEF ToSet
    <3> QED BY <3>1
  <2>3. CASE j \in m + 1 .. m + n /\ k \in m + 1 .. m + n
    <3>1. j - m \in 1 .. n /\ k - m \in 1 .. n /\ j - m < k - m
      BY <2>3, <1>1, <1>7
    <3>2. s[j] = r[j - m] /\ s[k] = r[k - m]
      BY <2>3, <1>2
    <3> QED BY <3>1, <3>2 DEF Sorted, n
  <2>4. ~(j \in m + 1 .. m + n /\ k \in 1 .. m)
    BY <1>1, <1>7
  <2> QED BY <2>1, <2>2, <2>3, <2>4, <1>4
<1>8. Sorted(s)
  BY <1>1, <1>7 DEF Sorted
<1> QED BY <1>5, <1>6, <1>8 DEF s

(* A step for each member of a finite set.                                 *)
LEMMA EachPlan ==
    ASSUME NEW S, IsFiniteSet(S), NEW o,
           \A x \in S : Op(o, x) \in Steps,
           \A x, y \in S : Stage(Op(o, x)) <= Stage(Op(o, y))
    PROVE  Sorted(Each(o, S)) /\ ToSet(Each(o, S)) = {Op(o, x) : x \in S}
<1> DEFINE n == Cardinality(S)
           q == SetToSeq(S)
<1>1. n \in Nat /\ ExistsBijection(1 .. n, S)
  BY FS_CardinalityType
<1>2. \E f \in [1 .. n -> S] : IsInjective(f)
  BY <1>1 DEF ExistsBijection, Bijection, Injection, IsInjective
<1>3. q \in [1 .. n -> S] /\ IsInjective(q)
  BY <1>2 DEF SetToSeq
<1> HIDE DEF q
<1>4. \A x \in S : \E k \in 1 .. n : q[k] = x
  <2>1. q \in Injection(1 .. n, S)
    BY <1>3 DEF Injection, IsInjective
  <2>2. q \in Surjection(1 .. n, S)
    <3>1. Cardinality(1 .. n) = Cardinality(S)
      BY <1>1, FS_Interval
    <3> QED BY <2>1, <3>1, FS_Injection
  <2> QED BY <2>2 DEF Surjection
<1>5. Each(o, S) = [k \in 1 .. n |-> Op(o, q[k])]
  BY <1>3 DEF Each, q
<1>6. Each(o, S) \in Seq(Steps) /\ Len(Each(o, S)) = n
  BY <1>1, <1>3, <1>5
<1>7. Sorted(Each(o, S))
  <2> SUFFICES ASSUME NEW j \in 1 .. n, NEW k \in 1 .. n, j < k
               PROVE  MayPrecede(Op(o, q[j]), Op(o, q[k]))
    BY <1>5, <1>6 DEF Sorted
  <2>1. q[j] \in S /\ q[k] \in S /\ q[j] # q[k]
    BY <1>1, <1>3 DEF IsInjective
  <2> QED BY <2>1, OpEqual DEF MayPrecede
<1>8. ToSet(Each(o, S)) = {Op(o, x) : x \in S}
  BY <1>3, <1>4, <1>5 DEF ToSet
<1> QED BY <1>7, <1>8

(* The plans of the calls, and what is in them.                            *)
JpegDeinitSteps == {CycleOff, FinishStep("send"), FinishStep("get")}
JpegInitSteps == {StartStep("get"), StartStep("send"), CycleOn}
VideoDeinitSteps ==
    {VideoStop} \cup {FinishStep(v) : v \in Vencs} \cup JpegDeinitSteps
    \cup {Op("sink_close", s) : s \in Sinks}
VideoInitSteps ==
    {VideoRun} \cup {Op("sink_open", s) : s \in Sinks} \cup {StartStep(v) : v \in Vencs}
    \cup JpegInitSteps

(* The stage of every step.                                                *)
LEMMA Stages ==
    /\ Stage(VideoStop) = 0 /\ Stage(Op("audio_stop", Audio)) = 0 /\ Stage(ZeroStep) = 0
    /\ \A w : Stage(FinishStep(w)) = IF w = "get" THEN 2 ELSE 1
    /\ Stage(CycleOff) = 1 /\ \A s : Stage(Op("sink_close", s)) = 2
    /\ Stage(VideoRun) = 3 /\ Stage(CycleOn) = 5
    /\ \A w : Stage(StartStep(w)) = IF w \in {"send", "cycle"} THEN 5 ELSE 4
    /\ \A s \in Sinks : Stage(Op("sink_open", s)) = 4
BY OpFields, VideoAssumption
   DEF Stage, VideoStop, ZeroStep, FinishStep, CycleOff, VideoRun, CycleOn, StartStep

(* No two kinds of steps are the same step.                                *)
LEMMA StepsDiffer ==
    /\ \A w, v : FinishStep(w) = FinishStep(v) <=> w = v
    /\ \A w, v : StartStep(w) = StartStep(v) <=> w = v
    /\ \A w, v : FinishStep(w) # StartStep(v)
    /\ \A w, s : /\ FinishStep(w) # Op("sink_open", s) /\ FinishStep(w) # Op("sink_close", s)
                 /\ StartStep(w) # Op("sink_open", s) /\ StartStep(w) # Op("sink_close", s)
    /\ \A w, x : x \in {VideoStop, VideoRun, CycleOff, CycleOn, ZeroStep, Op("audio_stop", Audio)}
         => FinishStep(w) # x /\ StartStep(w) # x
    /\ \A s, x : x \in {VideoStop, VideoRun, CycleOff, CycleOn, ZeroStep, Op("audio_stop", Audio)}
         => Op("sink_open", s) # x /\ Op("sink_close", s) # x
    /\ VideoStop # VideoRun /\ VideoStop # CycleOff /\ VideoStop # CycleOn /\ VideoStop # ZeroStep
    /\ VideoRun # CycleOff /\ VideoRun # CycleOn /\ VideoRun # ZeroStep
    /\ CycleOff # CycleOn /\ CycleOff # ZeroStep /\ CycleOn # ZeroStep
    /\ \A x \in {VideoStop, VideoRun, CycleOff, CycleOn, ZeroStep} : x # Op("audio_stop", Audio)
    /\ \A s, r : Op("sink_open", s) # Op("sink_close", r)
BY OpEqual DEF VideoStop, ZeroStep, FinishStep, CycleOff, VideoRun, CycleOn, StartStep

(* The steps of the audio thread are apart from all others.                *)
LEMMA AudioApart ==
    /\ \A x \in VideoSteps : x \notin AudioSteps
    /\ AudioSteps \subseteq Steps /\ VideoSteps \subseteq Steps
<1>1. \A x \in VideoSteps : x \notin AudioSteps
  BY StepsDiffer DEF VideoSteps, AudioSteps
<1> QED BY <1>1 DEF Steps

(* The plans are in order.                                                 *)
LEMMA JpegPlans ==
    /\ Sorted(rkipc_pipe_jpeg_deinit) /\ ToSet(rkipc_pipe_jpeg_deinit) = JpegDeinitSteps
    /\ Sorted(rkipc_pipe_jpeg_init) /\ ToSet(rkipc_pipe_jpeg_init) = JpegInitSteps
<1>1. JpegDeinitSteps \subseteq VideoSteps /\ JpegInitSteps \subseteq VideoSteps
  <2>1. {"send", "get"} \subseteq Workers \ {Audio}
    BY VideoAssumption DEF Workers, Streams
  <2> QED BY <2>1 DEF JpegDeinitSteps, JpegInitSteps, VideoSteps
<1>2. MayPrecede(CycleOff, FinishStep("send")) /\ MayPrecede(CycleOff, FinishStep("get"))
      /\ MayPrecede(FinishStep("send"), FinishStep("get"))
  <2>1. Stage(CycleOff) = 1 /\ Stage(FinishStep("send")) = 1 /\ Stage(FinishStep("get")) = 2
    BY Stages
  <2>2. CycleOff # FinishStep("send") /\ CycleOff # FinishStep("get")
        /\ FinishStep("send") # FinishStep("get")
    BY StepsDiffer
  <2> QED BY <2>1, <2>2 DEF MayPrecede
<1>3. MayPrecede(StartStep("get"), StartStep("send")) /\ MayPrecede(StartStep("get"), CycleOn)
      /\ MayPrecede(StartStep("send"), CycleOn)
  <2>1. Stage(CycleOn) = 5 /\ Stage(StartStep("send")) = 5 /\ Stage(StartStep("get")) = 4
    BY Stages
  <2>2. CycleOn # StartStep("send") /\ CycleOn # StartStep("get")
        /\ StartStep("send") # StartStep("get")
    BY StepsDiffer
  <2> QED BY <2>1, <2>2 DEF MayPrecede
<1>4. /\ rkipc_pipe_jpeg_deinit = <<CycleOff, FinishStep("send"), FinishStep("get")>>
      /\ rkipc_pipe_jpeg_init = <<StartStep("get"), StartStep("send"), CycleOn>>
  BY DEF rkipc_pipe_jpeg_deinit, rkipc_pipe_jpeg_init, CycleOff, CycleOn, FinishStep, StartStep
<1>5. \A x \in Steps, y \in Steps, z \in Steps :
         MayPrecede(x, y) /\ MayPrecede(x, z) /\ MayPrecede(y, z)
           => Sorted(<<x, y, z>>) /\ ToSet(<<x, y, z>>) = {x, y, z}
  BY DEF Sorted, ToSet
<1> QED
  BY <1>1, <1>2, <1>3, <1>4, <1>5, AudioApart DEF JpegDeinitSteps, JpegInitSteps

LEMMA SinksFinite == IsFiniteSet(Sinks) /\ IsFiniteSet(Vencs)
<1>1. IsFiniteSet({"rtsp"} \cup {"rtmp"})
  BY FS_Singleton, FS_AddElement
<1>2. Sinks \in SUBSET ({"rtsp"} \cup {"rtmp"}) /\ IsFiniteSet(Vencs)
  BY VideoAssumption
<1>3. IsFiniteSet(Sinks)
  BY <1>1, <1>2, FS_Subset
<1> QED BY <1>2, <1>3

(* One step for each stream, one for each output.                          *)
LEMMA EachPlans ==
    /\ Sorted(Each("finish", Vencs)) /\ ToSet(Each("finish", Vencs)) = {FinishStep(v) : v \in Vencs}
    /\ Sorted(Each("start", Vencs)) /\ ToSet(Each("start", Vencs)) = {StartStep(v) : v \in Vencs}
    /\ Sorted(OpenSinks) /\ ToSet(OpenSinks) = {Op("sink_open", s) : s \in Sinks}
    /\ Sorted(CloseSinks) /\ ToSet(CloseSinks) = {Op("sink_close", s) : s \in Sinks}
<1>1. \A v \in Vencs : v \in Workers \ {Audio} /\ v \notin {"send", "get", "cycle"}
  BY VideoAssumption DEF Workers, Streams
<1>2. ASSUME NEW v \in Vencs
      PROVE  Op("finish", v) \in Steps /\ Op("start", v) \in Steps
             /\ Stage(Op("finish", v)) = 1 /\ Stage(Op("start", v)) = 4
  <2>1. FinishStep(v) \in Steps /\ StartStep(v) \in Steps
    BY <1>1, AudioApart DEF VideoSteps
  <2>2. Stage(FinishStep(v)) = 1 /\ Stage(StartStep(v)) = 4
    BY <1>1, Stages
  <2> QED BY <2>1, <2>2 DEF FinishStep, StartStep
<1>3. ASSUME NEW s \in Sinks
      PROVE  Op("sink_open", s) \in Steps /\ Op("sink_close", s) \in Steps
             /\ Stage(Op("sink_open", s)) = 4 /\ Stage(Op("sink_close", s)) = 2
  BY Stages, AudioApart DEF VideoSteps
<1>4. Sorted(Each("finish", Vencs)) /\ ToSet(Each("finish", Vencs)) = {Op("finish", v) : v \in Vencs}
  BY <1>2, EachPlan, SinksFinite
<1>5. Sorted(Each("start", Vencs)) /\ ToSet(Each("start", Vencs)) = {Op("start", v) : v \in Vencs}
  BY <1>2, EachPlan, SinksFinite
<1>6. Sorted(OpenSinks) /\ ToSet(OpenSinks) = {Op("sink_open", s) : s \in Sinks}
  BY <1>3, EachPlan, SinksFinite DEF OpenSinks
<1>7. Sorted(CloseSinks) /\ ToSet(CloseSinks) = {Op("sink_close", s) : s \in Sinks}
  BY <1>3, EachPlan, SinksFinite DEF CloseSinks
<1> QED BY <1>4, <1>5, <1>6, <1>7 DEF FinishStep, StartStep

LEMMA DeinitPlan ==
    Sorted(rk_video_deinit) /\ ToSet(rk_video_deinit) = VideoDeinitSteps
<1>1. \A v \in Vencs : v \in Workers \ {Audio} /\ v \notin {"send", "get", "cycle"}
  BY VideoAssumption DEF Workers, Streams
<1>2. Sorted(<<VideoStop>>) /\ ToSet(<<VideoStop>>) = {VideoStop}
  BY PlanUnit, AudioApart DEF VideoSteps
<1> DEFINE a == <<VideoStop>> \o Each("finish", Vencs)
           b == a \o rkipc_pipe_jpeg_deinit
           A == {VideoStop} \cup {FinishStep(v) : v \in Vencs}
<1>3. Sorted(a) /\ ToSet(a) = A
  <2>1. \A y \in {FinishStep(v) : v \in Vencs} : MayPrecede(VideoStop, y)
    BY <1>1, Stages, StepsDiffer DEF MayPrecede
  <2> QED BY <2>1, <1>2, EachPlans, PlanConcat
<1>4. Sorted(b) /\ ToSet(b) = A \cup JpegDeinitSteps
  <2>1. \A y \in JpegDeinitSteps : MayPrecede(VideoStop, y)
    BY Stages, StepsDiffer DEF MayPrecede, JpegDeinitSteps
  <2>2. \A v \in Vencs : \A y \in JpegDeinitSteps : MayPrecede(FinishStep(v), y)
    BY <1>1, Stages, StepsDiffer DEF MayPrecede, JpegDeinitSteps
  <2>3. \A x \in A, y \in JpegDeinitSteps : MayPrecede(x, y)
    BY <2>1, <2>2
  <2> HIDE DEF a, A
  <2> QED BY <2>3, <1>3, JpegPlans, PlanConcat DEF b
<1>5. \A x \in A \cup JpegDeinitSteps, y \in {Op("sink_close", s) : s \in Sinks} : MayPrecede(x, y)
  <2>1. \A x \in A \cup JpegDeinitSteps : Stage(x) <= 2 /\ \A s : x # Op("sink_close", s)
    BY <1>1, Stages, StepsDiffer DEF JpegDeinitSteps
  <2>2. \A s : Stage(Op("sink_close", s)) = 2
    BY Stages
  <2> QED BY <2>1, <2>2 DEF MayPrecede
<1>6. Sorted(b \o CloseSinks)
      /\ ToSet(b \o CloseSinks) = (A \cup JpegDeinitSteps) \cup {Op("sink_close", s) : s \in Sinks}
  <2> HIDE DEF b, A
  <2> QED BY <1>4, <1>5, EachPlans, PlanConcat
<1>7. rk_video_deinit = b \o CloseSinks
  BY DEF rk_video_deinit, VideoStop
<1> QED BY <1>6, <1>7 DEF VideoDeinitSteps

LEMMA InitPlan ==
    Sorted(rk_video_init) /\ ToSet(rk_video_init) = VideoInitSteps
<1>1. \A v \in Vencs : v \in Workers \ {Audio} /\ v \notin {"send", "get", "cycle"}
  BY VideoAssumption DEF Workers, Streams
<1>2. Sorted(<<VideoRun>>) /\ ToSet(<<VideoRun>>) = {VideoRun}
  BY PlanUnit, AudioApart DEF VideoSteps
<1> DEFINE O == {Op("sink_open", s) : s \in Sinks}
           V == {StartStep(v) : v \in Vencs}
           a == <<VideoRun>> \o OpenSinks
           b == a \o Each("start", Vencs)
<1>3. Sorted(a) /\ ToSet(a) = {VideoRun} \cup O
  <2>1. \A y \in O : MayPrecede(VideoRun, y)
    BY Stages, StepsDiffer DEF MayPrecede
  <2> QED BY <2>1, <1>2, EachPlans, PlanConcat
<1>4. Sorted(b) /\ ToSet(b) = ({VideoRun} \cup O) \cup V
  <2>1. \A x \in {VideoRun} \cup O : Stage(x) <= 4 /\ \A v : x # StartStep(v)
    BY Stages, StepsDiffer
  <2>2. \A v \in Vencs : Stage(StartStep(v)) = 4
    BY <1>1, Stages
  <2>3. \A x \in {VideoRun} \cup O : Stage(x) \in Nat
    BY Stages
  <2>4. \A x \in {VideoRun} \cup O, y \in V : MayPrecede(x, y)
    BY <2>1, <2>2, <2>3 DEF MayPrecede
  <2> HIDE DEF a, O, V
  <2> QED BY <2>4, <1>3, EachPlans, PlanConcat DEF b, V
<1>5. \A x \in ({VideoRun} \cup O) \cup V, y \in JpegInitSteps : MayPrecede(x, y)
  <2>1. \A x \in ({VideoRun} \cup O) \cup V :
           Stage(x) \in 0 .. 4 /\ x \notin JpegInitSteps /\ x \notin AudioSteps
    BY <1>1, Stages, StepsDiffer DEF JpegInitSteps, AudioSteps
  <2>2. \A y \in JpegInitSteps : Stage(y) \in 4 .. 5
    BY Stages DEF JpegInitSteps
  <2> QED BY <2>1, <2>2 DEF MayPrecede
<1>6. Sorted(b \o rkipc_pipe_jpeg_init)
      /\ ToSet(b \o rkipc_pipe_jpeg_init) = (({VideoRun} \cup O) \cup V) \cup JpegInitSteps
  <2> HIDE DEF b, O, V
  <2> QED BY <1>4, <1>5, JpegPlans, PlanConcat
<1>7. rk_video_init = b \o rkipc_pipe_jpeg_init
  BY DEF rk_video_init, VideoRun
<1> QED BY <1>6, <1>7 DEF VideoInitSteps

LEMMA AudioPlans ==
    /\ Sorted(rkipc_audio_deinit)
    /\ ToSet(rkipc_audio_deinit) = {Op("audio_stop", Audio), FinishStep(Audio)}
    /\ Sorted(rkipc_audio_init) /\ ToSet(rkipc_audio_init) = {StartStep(Audio)}
<1>1. /\ rkipc_audio_deinit = <<Op("audio_stop", Audio), FinishStep(Audio)>>
      /\ rkipc_audio_init = <<StartStep(Audio)>>
  BY DEF rkipc_audio_deinit, rkipc_audio_init, FinishStep, StartStep
<1>2. MayPrecede(Op("audio_stop", Audio), FinishStep(Audio))
  <2>1. Op("audio_stop", Audio) # FinishStep(Audio)
    BY StepsDiffer
  <2> QED BY <2>1, Stages DEF MayPrecede
<1>3. \A x \in Steps, y \in Steps :
         MayPrecede(x, y) => Sorted(<<x, y>>) /\ ToSet(<<x, y>>) = {x, y}
  BY DEF Sorted, ToSet
<1>4. AudioSteps \subseteq Steps
  BY AudioApart
<1> QED BY <1>1, <1>2, <1>3, <1>4, PlanUnit DEF AudioSteps

(* What main and the restarts do, in order.                                *)
LEMMA CallPlans ==
    LET VI == VideoInitSteps
        VD == VideoDeinitSteps
        AD == {Op("audio_stop", Audio), FinishStep(Audio)}
        AI == {StartStep(Audio)}
        boot == rk_video_init \o rkipc_audio_init
        restart == rkipc_audio_deinit \o rk_video_deinit \o rk_video_init \o rkipc_audio_init
        again == rkipc_audio_deinit \o rkipc_audio_init
        down == rk_video_deinit \o rkipc_audio_deinit
    IN  /\ Sorted(boot) /\ ToSet(boot) = VI \cup AI
        /\ Sorted(restart) /\ ToSet(restart) = ((AD \cup VD) \cup VI) \cup AI
        /\ Sorted(again) /\ ToSet(again) = AD \cup AI
        /\ Sorted(down) /\ ToSet(down) = VD \cup AD
<1> DEFINE VI == VideoInitSteps
           VD == VideoDeinitSteps
           AD == {Op("audio_stop", Audio), FinishStep(Audio)}
           AI == {StartStep(Audio)}
<1>1. \A v \in Vencs : v \in Workers \ {Audio} /\ v \notin {"send", "get", "cycle"}
  BY VideoAssumption DEF Workers, Streams
<1>2. Audio \notin {"send", "get", "cycle"} /\ {"send", "get", "cycle"} \subseteq Workers \ {Audio}
  BY VideoAssumption DEF Workers, Streams
<1>3. VI \subseteq VideoSteps /\ VD \subseteq VideoSteps
  BY <1>1, <1>2 DEF VideoInitSteps, VideoDeinitSteps, JpegInitSteps, JpegDeinitSteps, VideoSteps
<1>4. \A x \in VD : Stage(x) \in 0 .. 2
  BY <1>1, Stages DEF VideoDeinitSteps, JpegDeinitSteps
<1>5. \A x \in VI : Stage(x) \in 3 .. 5
  BY <1>1, Stages DEF VideoInitSteps, JpegInitSteps
<1>6. (\A x \in AD : Stage(x) \in 0 .. 1) /\ \A x \in AI : Stage(x) \in 4 .. 5
  BY <1>2, Stages
<1>7. AD \subseteq AudioSteps /\ AI \subseteq AudioSteps
  BY DEF AudioSteps
<1>8. VI \cap AudioSteps = {} /\ VD \cap AudioSteps = {}
  BY <1>3, AudioApart
<1> HIDE DEF VI, VD, AD, AI
<1>9. \A x \in VD, y \in VI : MayPrecede(x, y)
  BY <1>4, <1>5 DEF MayPrecede
<1>10. \A x \in AD, y \in AI : MayPrecede(x, y)
  BY <1>6 DEF MayPrecede
<1>11. \A x \in VI \cup VD, y \in AD \cup AI : MayPrecede(x, y) /\ MayPrecede(y, x)
  BY <1>7, <1>8 DEF MayPrecede
<1>12. /\ Sorted(rk_video_init) /\ ToSet(rk_video_init) = VI
       /\ Sorted(rk_video_deinit) /\ ToSet(rk_video_deinit) = VD
  BY InitPlan, DeinitPlan DEF VI, VD
<1>13. /\ Sorted(rkipc_audio_init) /\ ToSet(rkipc_audio_init) = AI
       /\ Sorted(rkipc_audio_deinit) /\ ToSet(rkipc_audio_deinit) = AD
  BY AudioPlans DEF AI, AD
<1>14. Sorted(rk_video_init \o rkipc_audio_init)
       /\ ToSet(rk_video_init \o rkipc_audio_init) = VI \cup AI
  BY <1>11, <1>12, <1>13, PlanConcat
<1>15. Sorted(rkipc_audio_deinit \o rkipc_audio_init)
       /\ ToSet(rkipc_audio_deinit \o rkipc_audio_init) = AD \cup AI
  BY <1>10, <1>13, PlanConcat
<1>16. Sorted(rk_video_deinit \o rkipc_audio_deinit)
       /\ ToSet(rk_video_deinit \o rkipc_audio_deinit) = VD \cup AD
  BY <1>11, <1>12, <1>13, PlanConcat
<1>17. Sorted(rkipc_audio_deinit \o rk_video_deinit)
       /\ ToSet(rkipc_audio_deinit \o rk_video_deinit) = AD \cup VD
  BY <1>11, <1>12, <1>13, PlanConcat
<1>18. Sorted((rkipc_audio_deinit \o rk_video_deinit) \o rk_video_init)
       /\ ToSet((rkipc_audio_deinit \o rk_video_deinit) \o rk_video_init) = (AD \cup VD) \cup VI
  <2>1. \A x \in AD \cup VD, y \in VI : MayPrecede(x, y)
    BY <1>9, <1>11
  <2> QED BY <2>1, <1>12, <1>17, PlanConcat
<1>19. Sorted(((rkipc_audio_deinit \o rk_video_deinit) \o rk_video_init) \o rkipc_audio_init)
       /\ ToSet(((rkipc_audio_deinit \o rk_video_deinit) \o rk_video_init) \o rkipc_audio_init)
            = ((AD \cup VD) \cup VI) \cup AI
  <2>1. \A x \in (AD \cup VD) \cup VI, y \in AI : MayPrecede(x, y)
    BY <1>10, <1>11
  <2> QED BY <2>1, <1>13, <1>18, PlanConcat
<1> QED
  BY <1>14, <1>15, <1>16, <1>19 DEF VI, VD, AD, AI

(* What the plans have to do with each thread.                             *)
LEMMA PlanContents ==
    /\ \A w \in Threads \ {Audio} : FinishStep(w) \in VideoDeinitSteps /\ StartStep(w) \in VideoInitSteps
    /\ \A w : FinishStep(w) \notin VideoInitSteps /\ StartStep(w) \notin VideoDeinitSteps
    /\ FinishStep("cycle") \notin VideoDeinitSteps /\ StartStep("cycle") \notin VideoInitSteps
    /\ FinishStep(Audio) \notin VideoDeinitSteps /\ StartStep(Audio) \notin VideoInitSteps
    /\ VideoStop \in VideoDeinitSteps /\ CycleOff \in VideoDeinitSteps
    /\ VideoRun \in VideoInitSteps /\ CycleOn \in VideoInitSteps
    /\ VideoStop \notin VideoInitSteps /\ CycleOff \notin VideoInitSteps
    /\ VideoRun \notin VideoDeinitSteps /\ CycleOn \notin VideoDeinitSteps
    /\ ZeroStep \notin VideoInitSteps \cup VideoDeinitSteps
<1>1. \A w \in Threads \ {Audio} : w \in Vencs \cup {"send", "get"}
  BY DEF Threads, Workers, Streams
<1>2. Audio \notin Vencs \cup {"send", "get"} /\ "cycle" \notin Vencs
  BY VideoAssumption DEF Streams
<1>3. \A w : FinishStep(w) \notin VideoInitSteps /\ StartStep(w) \notin VideoDeinitSteps
  BY StepsDiffer DEF VideoDeinitSteps, VideoInitSteps, JpegDeinitSteps, JpegInitSteps
<1>4. \A w \in Threads \ {Audio} : FinishStep(w) \in VideoDeinitSteps /\ StartStep(w) \in VideoInitSteps
  BY <1>1 DEF VideoDeinitSteps, VideoInitSteps, JpegDeinitSteps, JpegInitSteps
<1>5. \A w \in {"cycle", Audio} : FinishStep(w) \notin VideoDeinitSteps /\ StartStep(w) \notin VideoInitSteps
  <2>1. \A w \in {"cycle", Audio} : w \notin Vencs \cup {"send", "get"}
    BY <1>2
  <2> QED
    BY <2>1, StepsDiffer DEF VideoDeinitSteps, VideoInitSteps, JpegDeinitSteps, JpegInitSteps
<1>6. /\ VideoStop \in VideoDeinitSteps /\ CycleOff \in VideoDeinitSteps
      /\ VideoRun \in VideoInitSteps /\ CycleOn \in VideoInitSteps
  BY DEF VideoDeinitSteps, VideoInitSteps, JpegDeinitSteps, JpegInitSteps
<1>7. /\ VideoStop \notin VideoInitSteps /\ CycleOff \notin VideoInitSteps
      /\ VideoRun \notin VideoDeinitSteps /\ CycleOn \notin VideoDeinitSteps
      /\ ZeroStep \notin VideoInitSteps \cup VideoDeinitSteps
  BY StepsDiffer DEF VideoDeinitSteps, VideoInitSteps, JpegDeinitSteps, JpegInitSteps
<1> QED BY <1>3, <1>4, <1>5, <1>6, <1>7

-----------------------------------------------------------------------------
(* The threads: what they do to the plan's invariant.                      *)

(* A worker or client goes on; if it ends, it was told to.                 *)
LEMMA WorkerPlan ==
    ASSUME SinkInv, PlanInv, UNCHANGED <<todo, power, chan, flags>>, DataType',
           NEW t \in Workers \cup Clients, NEW l, pc[t] # "none", l # "none",
           pc' = [pc EXCEPT ![t] = l],
           l = "exit" => /\ t \in VideoThreads => ~g_video_run_
                         /\ t = "cycle" => ~(g_video_run_ /\ cycle_snapshot_flag)
    PROVE  PlanInv'
<1>1. \A w \in Workers : pc'[w] = IF w = t THEN l ELSE pc[w]
  BY DEF SinkInv, SinkType
<1>2. \A w \in Workers : pc'[w] = "none" <=> pc[w] = "none"
  BY <1>1
<1>3. Planned' = Planned /\ power' = power /\ chan' = chan
      /\ g_video_run_' = g_video_run_ /\ cycle_snapshot_flag' = cycle_snapshot_flag
      /\ enable_cycle_snapshot' = enable_cycle_snapshot
  BY DEF Planned, flags
<1>4. Threads \subseteq Workers /\ VideoThreads \subseteq Workers /\ "cycle" \in Workers
      /\ Streams \subseteq Workers /\ "get" \in Workers /\ "send" \in Workers
  BY DEF Threads, VideoThreads, Workers, Streams
<1>5. ThreadPlan'
  BY <1>2, <1>3, <1>4 DEF PlanInv, ThreadPlan
<1>6. RunPlan'
  <2>1. ASSUME NEW w \in VideoThreads, pc'[w] # "none", pc'[w] = "exit" \/ ~g_video_run_'
        PROVE  FinishStep(w) \in Planned'
    <3>1. pc[w] # "none" /\ (pc[w] = "exit" \/ ~g_video_run_)
      BY <2>1, <1>1, <1>2, <1>3, <1>4
    <3> QED BY <3>1, <1>3 DEF PlanInv, RunPlan
  <2> QED BY <2>1, <1>3 DEF PlanInv, RunPlan
<1>7. CyclePlan'
  <2>1. CycleThread' <=> CycleThread
    BY <1>2, <1>4 DEF CycleThread
  <2>2. pc'["cycle"] = "exit" => pc["cycle"] = "exit" \/ ~g_video_run_ \/ ~cycle_snapshot_flag
    BY <1>1, <1>4
  <2> QED BY <2>1, <2>2, <1>3 DEF PlanInv, CyclePlan, Settled
<1>8. ChannelInv'
  BY <1>2, <1>3, <1>4 DEF PlanInv, ChannelInv
<1>9. Sorted(todo')
  BY DEF PlanInv
<1> QED BY <1>5, <1>6, <1>7, <1>8, <1>9 DEF PlanInv

LEMMA StreamPlan ==
    ASSUME SinkInv, PlanInv, NEW t \in Streams, StreamStep(t)
    PROVE  PlanInv'
<1>1. UNCHANGED <<todo, power, chan, flags>>
  BY DEF StreamStep, FrameStep, GetTimeout, WriteFrame, Written, Eos, control
<1>2. DataType'
  BY DEF StreamStep, FrameStep, GetTimeout, WriteFrame, Written, Eos, control, flags, counters,
     jpeg, history, PlanInv, DataType
<1>3. pc[t] # "none"
  BY DEF StreamStep, FrameStep, GetTimeout, WriteFrame, Written, Offers, Tx, Eos
<1>4. \E l \in {"get", "exit", "rtmp", "rtsp_tx", "rtmp_tx"} :
         /\ pc' = [pc EXCEPT ![t] = l]
         /\ l = "exit" => t = Audio \/ ~Running(t)
  BY DEF StreamStep, FrameStep, GetTimeout, WriteFrame, Written, After, Loop, Goto, Tx, Eos
<1>5. PICK l \in {"get", "exit", "rtmp", "rtsp_tx", "rtmp_tx"} :
         /\ pc' = [pc EXCEPT ![t] = l]
         /\ l = "exit" => t = Audio \/ ~Running(t)
  BY <1>4
<1>6. t \in Workers /\ t # "cycle" /\ (t \in VideoThreads => t # Audio)
  BY VideoAssumption DEF Workers, VideoThreads, Streams
<1> QED
  BY <1>1, <1>2, <1>3, <1>5, <1>6, WorkerPlan DEF Running

(* Orders of photos.                                                       *)
LEMMA CallerPlan ==
    ASSUME SinkInv, PlanInv, NEW c \in Callers, PhotoTest(c) \/ PhotoRefused(c) \/ PhotoStep(c)
    PROVE  PlanInv'
<1> USE DEF PhotoStep, PhotoTest, PhotoRefused, PhotoStart, PhotoCount, PhotoCountGet
<1>1. UNCHANGED <<todo, power, chan, flags>>
  BY DEF control, flags
<1>2. DataType'
  <2>1. CASE PhotoTest(c) \/ PhotoRefused(c) \/ PhotoStart(c)
    BY <2>1 DEF control, flags, counters, jpeg, history, PlanInv, DataType
  <2>2. CASE PhotoCount(c) \/ PhotoCountGet(c)
    BY <2>2 DEF control, flags, counters, jpeg, history, PlanInv, DataType
  <2> QED BY <2>1, <2>2
<1>3. pc[c] # "none"
  BY DEF Idle
<1>4. \E l \in {"start", "count", "count_get", "sleep", "idle", "exit"} :
         /\ pc' = [pc EXCEPT ![c] = l]
         /\ l = "exit" => c = "cycle" /\ ~(g_video_run_ /\ cycle_snapshot_flag)
  BY DEF Goto, Done
<1>5. PICK l \in {"start", "count", "count_get", "sleep", "idle", "exit"} :
         /\ pc' = [pc EXCEPT ![c] = l]
         /\ l = "exit" => c = "cycle" /\ ~(g_video_run_ /\ cycle_snapshot_flag)
  BY <1>4
<1>6. c \in Workers \cup Clients /\ "cycle" \notin VideoThreads
  BY VideoAssumption DEF Callers, Workers, VideoThreads, Streams
<1> QED
  BY <1>1, <1>2, <1>3, <1>5, <1>6, WorkerPlan

(* The threads that make the photos.                                       *)
LEMMA PhotoPlan ==
    ASSUME SinkInv, PlanInv, SendStep \/ GrabTimeout \/ ResizeFails \/ GetStep
    PROVE  PlanInv'
<1> USE DEF SendStep, SendTest, Grab, SendFrame, GrabTimeout, ResizeFails, Counted
<1> USE DEF GetStep, GetFirst, GetTest, GetPhoto, GetStop, TakePhoto
<1>1. UNCHANGED <<todo, power, chan, flags>>
  BY DEF control
<1>2. \A s \in Seq(Nat) : s # << >> => Head(s) \in Nat /\ Tail(s) \in Seq(Nat)
  OBVIOUS
<1>3. \A s \in Seq(Nat), x \in Nat : Append(s, x) \in Seq(Nat)
  OBVIOUS
<1>4. DataType'
  <2> USE DEF control, flags, counters, jpeg, history, PlanInv, DataType
  <2>1. CASE SendTest \/ Grab \/ GrabTimeout \/ ResizeFails
    BY <2>1
  <2>2. CASE SendFrame
    <3>1. recv \in 0 .. 1 /\ out \in Seq(Nat) /\ shot \in Nat
      OBVIOUS
    <3>2. recv' \in 0 .. 1 /\ out' \in Seq(Nat)
      <4>1. CASE chan["jpeg"] /\ recv > 0
        <5>1. recv' = recv - 1 /\ out' = Append(out, shot)
          BY <2>2, <4>1
        <5> QED BY <5>1, <4>1, <3>1, <1>3
      <4>2. CASE ~(chan["jpeg"] /\ recv > 0)
        BY <2>2, <4>2, <3>1
      <4> QED BY <4>1, <4>2
    <3>3. shot' = 0 /\ send_jpeg_cnt' = send_jpeg_cnt - 1
      BY <2>2
    <3> QED BY <2>2, <3>2, <3>3
  <2>3. CASE GetFirst \/ GetTest
    BY <2>3, <1>2
  <2>4. CASE GetPhoto \/ GetStop
    <3>1. out \in Seq(Nat) /\ get_jpeg_cnt \in Int /\ recv \in 0 .. 1
      OBVIOUS
    <3>2. out' \in Seq(Nat) /\ recv' \in 0 .. 1 /\ get_jpeg_cnt' \in Int
      <4>1. CASE GetPhoto
        <5>1. out' = out \/ (out # << >> /\ out' = Tail(out))
          BY <4>1
        <5>2. recv' = recv /\ get_jpeg_cnt' = get_jpeg_cnt - 1
          BY <4>1
        <5>3. out' \in Seq(Nat)
          BY <5>1, <3>1, <1>2
        <5> QED BY <5>2, <5>3, <3>1
      <4>2. CASE GetStop
        <5>1. recv' = 0 /\ out' = out /\ get_jpeg_cnt' = get_jpeg_cnt
          BY <4>2
        <5> QED BY <5>1, <3>1
      <4> QED BY <2>4, <4>1, <4>2
    <3>3. orders' = orders /\ shot' = shot /\ chan' = chan /\ power' = power
          /\ send_jpeg_cnt' = send_jpeg_cnt /\ flags' = flags
      BY <2>4
    <3> QED BY <3>2, <3>3
  <2> QED BY <2>1, <2>2, <2>3, <2>4
<1>5. \E t \in {"send", "get"}, l \in {"grab", "resized", "sleep", "wait", "stop", "exit"} :
         /\ pc' = [pc EXCEPT ![t] = l]
         /\ pc[t] # "none"
         /\ l = "exit" => ~g_video_run_
  <2> USE DEF Goto, Loop, Running
  <2>1. CASE SendStep \/ GrabTimeout \/ ResizeFails
    BY <2>1, VideoAssumption DEF Streams
  <2>2. CASE GetStep
    BY <2>2, VideoAssumption DEF Streams
  <2> QED BY <2>1, <2>2
<1>6. PICK t \in {"send", "get"}, l \in {"grab", "resized", "sleep", "wait", "stop", "exit"} :
         /\ pc' = [pc EXCEPT ![t] = l]
         /\ pc[t] # "none"
         /\ l = "exit" => ~g_video_run_
  BY <1>5
<1>7. t \in Workers
  BY DEF Workers
<1> QED
  BY <1>1, <1>4, <1>6, <1>7, WorkerPlan

-----------------------------------------------------------------------------
(* The controller: one step of the plan after the other.                   *)

LEMMA StepForms ==
    ASSUME NEW h \in Steps
    PROVE  /\ h.op = "finish" => h.of \in Workers /\ h = FinishStep(h.of)
           /\ h.op = "start" => h.of \in Workers /\ h = StartStep(h.of)
           /\ h.op = "video_stop" => h = VideoStop
           /\ h.op = "video_run" => h = VideoRun
           /\ h.op = "audio_stop" => h = Op("audio_stop", Audio)
           /\ h.op = "cycle_on" => h = CycleOn
           /\ h.op = "cycle_off" => h = CycleOff
           /\ h.op = "zero" => h = ZeroStep
           /\ h.op \in {"sink_open", "sink_close"} => h.of \in Sinks /\ h = Op(h.op, h.of)
<1>1. Audio \in Workers
  BY DEF Workers, Streams
<1>2. CASE h \in AudioSteps
  BY <1>1, <1>2, OpFields DEF AudioSteps, FinishStep, StartStep
<1>3. CASE h \in {VideoStop, VideoRun, CycleOff, CycleOn, ZeroStep}
  BY <1>3, OpFields DEF VideoStop, VideoRun, CycleOff, CycleOn, ZeroStep
<1>4. CASE \E w \in Workers : h = FinishStep(w) \/ h = StartStep(w)
  BY <1>4, OpFields DEF FinishStep, StartStep
<1>5. CASE \E s \in Sinks : h = Op("sink_open", s) \/ h = Op("sink_close", s)
  BY <1>5, OpFields
<1> QED BY <1>2, <1>3, <1>4, <1>5 DEF Steps, VideoSteps

(* The audio thread's steps are apart from the others'.                    *)
LEMMA Sides ==
    /\ \A w \in Workers : FinishStep(w) \in AudioSteps <=> w = Audio
    /\ \A w \in Workers : StartStep(w) \in AudioSteps <=> w = Audio
    /\ Op("audio_stop", Audio) \in AudioSteps
    /\ \A x \in {VideoStop, VideoRun, CycleOff, CycleOn, ZeroStep} : x \notin AudioSteps
    /\ \A s : Op("sink_open", s) \notin AudioSteps /\ Op("sink_close", s) \notin AudioSteps
BY StepsDiffer DEF AudioSteps

(* After a step is done: the rest of the plan, all of it later.            *)
LEMMA StepPlan ==
    ASSUME PlanInv, todo # << >>
    PROVE  /\ Sorted(Tail(todo)) /\ ToSet(Tail(todo)) = Planned \ {Head(todo)}
           /\ Head(todo) \in Planned /\ Head(todo) \in Steps
           /\ \A x \in Planned \ {Head(todo)} : MayPrecede(Head(todo), x)
BY PlanTail DEF PlanInv, Planned

(* No step of an earlier stage is left.                                    *)
LEMMA Passed ==
    ASSUME PlanInv, todo # << >>, NEW x, x \in AudioSteps <=> Head(todo) \in AudioSteps,
           ~(Stage(Head(todo)) <= Stage(x)), x # Head(todo)
    PROVE  x \notin Planned
BY StepPlan DEF MayPrecede

(* Channels of a thread.                                                   *)
LEMMA ChannelsOf ==
    /\ \A t \in Streams : ChannelOf(t) = {t}
    /\ ChannelOf("get") = {"jpeg"} /\ ChannelOf("send") = {} /\ ChannelOf("cycle") = {}
    /\ Streams \subseteq Channels /\ "jpeg" \in Channels /\ "jpeg" \notin Streams
    /\ {"get", "send", "cycle"} \cap Streams = {}
BY VideoAssumption DEF ChannelOf, Channels

LEMMA WorkersAre ==
    /\ Workers = Streams \cup {"send", "get", "cycle"} /\ Streams = Vencs \cup {Audio}
    /\ Threads = Streams \cup {"send", "get"} /\ VideoThreads = Vencs \cup {"send", "get"}
    /\ Audio \notin VideoThreads /\ "cycle" \notin VideoThreads /\ Audio # "cycle"
    /\ Audio \notin {"send", "get", "cycle"}
    /\ VideoThreads \subseteq Workers /\ VideoThreads \subseteq Threads /\ Threads \subseteq Workers
BY VideoAssumption DEF Workers, Streams, Threads, VideoThreads

LEMMA FinishPlan ==
    ASSUME SinkInv, PlanInv, FinishThread
    PROVE  PlanInv'
<1>1. PICK w \in Workers : Head(todo) = FinishStep(w) /\ Of = w
  BY StepForms, StepPlan DEF FinishThread, AtOp, Of
<1>2. /\ pc[w] = "exit" /\ pc' = [pc EXCEPT ![w] = "none"] /\ SetChannels(w, FALSE)
      /\ todo # << >> /\ todo' = Tail(todo) /\ power' = power /\ UNCHANGED flags
      /\ UNCHANGED <<send_jpeg_cnt, get_jpeg_cnt, shot, orders>>
  BY <1>1 DEF FinishThread, Goto, Step, AtOp, counters, history
<1>3. /\ Sorted(todo') /\ Planned' = Planned \ {FinishStep(w)} /\ FinishStep(w) \in Planned
  BY <1>1, <1>2, StepPlan DEF Planned
<1>4. \A v \in Workers : pc'[v] = IF v = w THEN "none" ELSE pc[v]
  BY <1>2 DEF SinkInv, SinkType
<1>5. /\ g_video_run_' = g_video_run_ /\ cycle_snapshot_flag' = cycle_snapshot_flag
      /\ enable_cycle_snapshot' = enable_cycle_snapshot /\ g_audio_run_' = g_audio_run_
  BY <1>2 DEF flags
<1>6. /\ \A v : FinishStep(v) \in Planned' <=> FinishStep(v) \in Planned /\ v # w
      /\ \A v : StartStep(v) \in Planned' <=> StartStep(v) \in Planned
      /\ \A x \in {VideoStop, VideoRun, CycleOff, CycleOn, ZeroStep} : x \in Planned' <=> x \in Planned
  BY <1>3, StepsDiffer
<1>7. w # Audio => VideoStop \notin Planned /\ ZeroStep \notin Planned
  <2> SUFFICES ASSUME w # Audio, NEW x \in {VideoStop, ZeroStep}
               PROVE  x \notin Planned
    OBVIOUS
  <2>1. x \notin AudioSteps /\ FinishStep(w) \notin AudioSteps
    BY Sides
  <2>2. Stage(x) = 0 /\ Stage(FinishStep(w)) \in 1 .. 2 /\ x # FinishStep(w)
    BY Stages, StepsDiffer
  <2> QED BY <1>1, <1>2, <2>1, <2>2, Passed
<1>8. ThreadPlan'
  BY <1>2, <1>3, <1>4, <1>6, WorkersAre DEF PlanInv, ThreadPlan
<1>9. RunPlan'
  <2>1. VideoStop \in Planned' => w = Audio
    BY <1>6, <1>7
  <2>2. VideoStop \in Planned' =>
          /\ VideoRun \in Planned' \/ power' = "down"
          /\ \A v \in VideoThreads : FinishStep(v) \in Planned'
          /\ CycleOff \in Planned'
    BY <1>2, <1>6, <2>1, WorkersAre DEF PlanInv, RunPlan
  <2>3. \A v \in VideoThreads :
          pc'[v] # "none" /\ (pc'[v] = "exit" \/ ~g_video_run_') => FinishStep(v) \in Planned'
    BY <1>4, <1>5, <1>6, WorkersAre DEF PlanInv, RunPlan
  <2> QED BY <1>2, <1>5, <1>6, <2>2, <2>3 DEF PlanInv, RunPlan
<1>10. CyclePlan'
  <2>1. CASE w = "cycle"
    <3>1. ZeroStep \notin Planned /\ ~CycleThread'
      BY <2>1, <1>4, <1>7, WorkersAre DEF CycleThread
    <3> QED
      BY <2>1, <3>1, <1>2, <1>3, <1>5, <1>6 DEF PlanInv, CyclePlan, Settled, DataType
  <2>2. CASE w # "cycle"
    <3>1. pc'["cycle"] = pc["cycle"] /\ (CycleThread' <=> CycleThread)
      BY <2>2, <1>4, WorkersAre DEF CycleThread
    <3> QED
      BY <2>2, <3>1, <1>2, <1>5, <1>6 DEF PlanInv, CyclePlan, Settled
  <2> QED BY <2>1, <2>2
<1>11. \A c \in Channels : chan'[c] = IF c \in ChannelOf(w) THEN FALSE ELSE chan[c]
  BY <1>2 DEF SetChannels
<1>12. ChannelInv'
  <2>1. CASE w \in Streams
    <3>0. ChannelOf(w) = {w}
      BY <2>1, ChannelsOf
    <3>1. \A c \in Channels : c # w => chan'[c] = chan[c]
      BY <3>0, <1>11
    <3>2. \A t \in Streams : pc'[t] # "none" => t # w /\ pc[t] # "none"
      BY <1>4, WorkersAre
    <3>3. \A t \in Streams : pc'[t] # "none" => chan'[t]
      BY <3>1, <3>2, ChannelsOf DEF PlanInv, ChannelInv
    <3>4. pc'["get"] = pc["get"] /\ pc'["send"] = pc["send"] /\ chan'["jpeg"] = chan["jpeg"]
      BY <2>1, <3>1, <1>4, ChannelsOf, WorkersAre
    <3> QED BY <3>3, <3>4 DEF PlanInv, ChannelInv
  <2>2. CASE w = "get"
    <3>1. FinishStep("send") \notin Planned
      <4>1. FinishStep("send") \notin AudioSteps /\ FinishStep("get") \notin AudioSteps
        BY Sides, WorkersAre
      <4>2. Stage(FinishStep("send")) = 1 /\ Stage(FinishStep("get")) = 2
            /\ FinishStep("send") # FinishStep("get")
        BY Stages, StepsDiffer
      <4> QED BY <2>2, <1>1, <1>2, <4>1, <4>2, Passed
    <3>2. StartStep("send") \in Planned \/ power = "down"
      BY <2>2, <1>3, WorkersAre DEF PlanInv, ThreadPlan, RunPlan
    <3>3. pc["send"] = "none"
      BY <3>1, <3>2, WorkersAre DEF PlanInv, ThreadPlan
    <3> QED
      BY <2>2, <3>3, <1>4, <1>11, ChannelsOf, WorkersAre DEF PlanInv, ChannelInv
  <2>3. CASE w \in {"send", "cycle"}
    BY <2>3, <1>4, <1>11, ChannelsOf, WorkersAre DEF PlanInv, ChannelInv
  <2> QED BY <2>1, <2>2, <2>3, WorkersAre
<1>13. DataType'
  <2>1. recv' \in 0 .. 1 /\ out' \in Seq(Nat)
    <3>1. /\ recv' = 0 \/ recv' = recv
          /\ out' = << >> \/ out' = out
      BY <1>2 DEF SetChannels
    <3>2. recv' \in 0 .. 1
      BY <3>1 DEF PlanInv, DataType
    <3>3. out \in Seq(Nat)
      BY DEF PlanInv, DataType
    <3>4. << >> \in Seq(Nat)
      OBVIOUS
    <3>5. out' \in Seq(Nat)
      BY <3>1, <3>3, <3>4, Zenon
    <3> QED BY <3>2, <3>5
  <2>2. chan' \in [Channels -> BOOLEAN]
    BY <1>2 DEF SetChannels, PlanInv, DataType
  <2> QED BY <1>2, <1>5, <2>1, <2>2 DEF PlanInv, DataType
<1> QED BY <1>3, <1>8, <1>9, <1>10, <1>12, <1>13 DEF PlanInv

LEMMA StartPlan ==
    ASSUME SinkInv, PlanInv, StartThread
    PROVE  PlanInv'
<1>1. PICK w \in Workers : Head(todo) = StartStep(w) /\ Of = w
  BY StepForms, StepPlan DEF StartThread, AtOp, Of
<1>2. /\ SetChannels(w, TRUE)
      /\ todo # << >> /\ todo' = Tail(todo) /\ power' = power /\ UNCHANGED flags
      /\ UNCHANGED <<send_jpeg_cnt, get_jpeg_cnt, shot, orders>>
  BY <1>1 DEF StartThread, Step, AtOp, counters, history
<1>3. /\ Sorted(todo') /\ Planned' = Planned \ {StartStep(w)} /\ StartStep(w) \in Planned
  BY <1>1, <1>2, StepPlan DEF Planned
<1>4. Stage(StartStep(w)) >= 4 /\ Stage(StartStep(w)) \in Nat
  BY Stages
<1>5. \A x : Stage(x) \in Nat
  BY DEF Stage
<1>6. ASSUME NEW x, x \in AudioSteps <=> w = Audio, Stage(x) < 4
      PROVE  x \notin Planned
  <2>1. x # StartStep(w)
    BY <1>4, <1>6
  <2>2. x \in AudioSteps <=> StartStep(w) \in AudioSteps
    BY <1>6, Sides
  <2>3. ~(Stage(StartStep(w)) <= Stage(x))
    BY <1>4, <1>5, <1>6
  <2> QED BY <1>1, <1>2, <2>1, <2>2, <2>3, Passed
<1>7. power # "down"
  BY <1>3 DEF PlanInv, ThreadPlan
<1>8. FinishStep(w) \notin Planned
  <2>1. Stage(FinishStep(w)) < 4
    BY Stages
  <2> QED BY <2>1, <1>6, Sides
<1>9. w # Audio => /\ g_video_run_ = TRUE
                   /\ VideoStop \notin Planned /\ CycleOff \notin Planned /\ ZeroStep \notin Planned
  <2> SUFFICES ASSUME w # Audio
               PROVE  /\ g_video_run_ = TRUE
                      /\ VideoStop \notin Planned /\ CycleOff \notin Planned
                      /\ ZeroStep \notin Planned
    OBVIOUS
  <2>1. \A x \in {VideoStop, VideoRun, CycleOff, ZeroStep} : x \notin Planned
    <3> TAKE x \in {VideoStop, VideoRun, CycleOff, ZeroStep}
    <3>1. Stage(x) < 4 /\ x \notin AudioSteps
      BY Stages, Sides
    <3> QED BY <3>1, <1>6
  <2>2. g_video_run_ = TRUE
    BY <2>1, <1>7 DEF PlanInv, RunPlan, DataType
  <2> QED BY <2>1, <2>2
<1>10. w = "cycle" => cycle_snapshot_flag = TRUE /\ enable_cycle_snapshot = TRUE
                      /\ CycleOn \notin Planned
  BY <1>3 DEF PlanInv, CyclePlan, Settled, DataType
<1>11. PICK l \in {"get", "exit", "sleep", "first"} :
         /\ pc' = [pc EXCEPT ![w] = l]
         /\ w # Audio => l # "exit"
  <2>1. CASE w \in Streams
    BY <2>1, <1>1, <1>9 DEF StartThread, Loop, Goto, Running
  <2>2. CASE w \in {"send", "get"}
    BY <2>2, <1>1, ChannelsOf DEF StartThread, Goto
  <2>3. CASE w = "cycle"
    BY <2>3, <1>1, <1>9, <1>10, WorkersAre, ChannelsOf DEF StartThread, Done, Goto
  <2> QED BY <2>1, <2>2, <2>3, WorkersAre
<1>12. \A v \in Workers : pc'[v] = IF v = w THEN l ELSE pc[v]
  BY <1>11 DEF SinkInv, SinkType
<1>13. /\ g_video_run_' = g_video_run_ /\ cycle_snapshot_flag' = cycle_snapshot_flag
       /\ enable_cycle_snapshot' = enable_cycle_snapshot /\ g_audio_run_' = g_audio_run_
  BY <1>2 DEF flags
<1>14. /\ \A v : FinishStep(v) \in Planned' <=> FinishStep(v) \in Planned
       /\ \A v : StartStep(v) \in Planned' <=> StartStep(v) \in Planned /\ v # w
       /\ \A x \in {VideoStop, VideoRun, CycleOff, CycleOn, ZeroStep} : x \in Planned' <=> x \in Planned
  BY <1>3, StepsDiffer
<1>15. ThreadPlan'
  BY <1>2, <1>7, <1>8, <1>11, <1>12, <1>14, WorkersAre DEF PlanInv, ThreadPlan
<1>16. RunPlan'
  <2>1. w = "send" => StartStep("get") \notin Planned
    <3> SUFFICES ASSUME w = "send" PROVE StartStep("get") \notin Planned
      OBVIOUS
    <3>1. Stage(StartStep("send")) = 5 /\ Stage(StartStep("get")) = 4
          /\ StartStep("send") # StartStep("get")
      BY Stages, StepsDiffer
    <3>2. StartStep("send") \notin AudioSteps /\ StartStep("get") \notin AudioSteps
      BY Sides, WorkersAre
    <3> QED BY <1>1, <1>2, <3>1, <3>2, Passed
  <2>2. StartStep("get") \in Planned' => StartStep("send") \in Planned'
    BY <2>1, <1>14 DEF PlanInv, RunPlan
  <2>3. \A v \in VideoThreads :
          pc'[v] # "none" /\ (pc'[v] = "exit" \/ ~g_video_run_') => FinishStep(v) \in Planned'
    BY <1>9, <1>11, <1>12, <1>13, <1>14, WorkersAre DEF PlanInv, RunPlan
  <2> QED BY <1>2, <1>13, <1>14, <2>2, <2>3 DEF PlanInv, RunPlan
<1>17. CyclePlan'
  <2>1. CASE w = "cycle"
    <3>1. CycleThread' /\ pc'["cycle"] # "exit"
      BY <2>1, <1>11, <1>12, WorkersAre DEF CycleThread
    <3> QED
      BY <2>1, <3>1, <1>2, <1>3, <1>8, <1>9, <1>10, <1>13, <1>14, WorkersAre
         DEF PlanInv, CyclePlan, Settled
  <2>2. CASE w # "cycle"
    <3>1. pc'["cycle"] = pc["cycle"] /\ (CycleThread' <=> CycleThread)
      BY <2>2, <1>12, WorkersAre DEF CycleThread
    <3> QED
      BY <2>2, <3>1, <1>2, <1>3, <1>13, <1>14, StepsDiffer DEF PlanInv, CyclePlan, Settled
  <2> QED BY <2>1, <2>2
<1>18. \A c \in Channels : chan'[c] = IF c \in ChannelOf(w) THEN TRUE ELSE chan[c]
  BY <1>2 DEF SetChannels
<1>19. \A c \in Channels : chan[c] => chan'[c]
  BY <1>18
<1>20. ChannelInv'
  <2>1. \A t \in Streams : pc'[t] # "none" => chan'[t]
    <3> TAKE t \in Streams
    <3>1. CASE t = w
      BY <3>1, <1>18, ChannelsOf
    <3>2. CASE t # w
      BY <3>2, <1>12, <1>19, ChannelsOf, WorkersAre DEF PlanInv, ChannelInv
    <3> QED BY <3>1, <3>2
  <2>2. CASE w = "get"
    BY <2>1, <2>2, <1>18, ChannelsOf DEF ChannelInv
  <2>3. CASE w = "send"
    <3>1. FinishStep("get") \notin Planned
      BY <2>3, <1>6, Stages, Sides, WorkersAre
    <3>2. StartStep("get") \notin Planned
      <4>1. Stage(StartStep("send")) = 5 /\ Stage(StartStep("get")) = 4
            /\ StartStep("send") # StartStep("get")
        BY Stages, StepsDiffer
      <4>2. StartStep("send") \notin AudioSteps /\ StartStep("get") \notin AudioSteps
        BY Sides, WorkersAre
      <4> QED BY <2>3, <1>1, <1>2, <4>1, <4>2, Passed
    <3>3. pc["get"] # "none"
      BY <3>1, <3>2, <1>7, WorkersAre DEF PlanInv, ThreadPlan
    <3> QED
      BY <2>1, <3>3, <1>19, ChannelsOf DEF PlanInv, ChannelInv
  <2>4. CASE w \notin {"get", "send"}
    BY <2>1, <2>4, <1>12, <1>19, ChannelsOf, WorkersAre DEF PlanInv, ChannelInv
  <2> QED BY <2>2, <2>3, <2>4
<1>21. DataType'
  <2>1. recv' \in 0 .. 1 /\ out' \in Seq(Nat)
    <3>1. /\ recv' = 1 \/ recv' = recv
          /\ out' = << >> \/ out' = out
      BY <1>2 DEF SetChannels
    <3>2. recv' \in 0 .. 1
      BY <3>1 DEF PlanInv, DataType
    <3>3. out \in Seq(Nat)
      BY DEF PlanInv, DataType
    <3>4. << >> \in Seq(Nat)
      OBVIOUS
    <3>5. out' \in Seq(Nat)
      BY <3>1, <3>3, <3>4, Zenon
    <3> QED BY <3>2, <3>5
  <2>2. chan' \in [Channels -> BOOLEAN]
    BY <1>2 DEF SetChannels, PlanInv, DataType
  <2> QED BY <1>2, <1>13, <2>1, <2>2 DEF PlanInv, DataType
<1> QED BY <1>3, <1>15, <1>16, <1>17, <1>20, <1>21 DEF PlanInv

(* The flags, the outputs and the cycle thread's flag.                     *)
LEMMA FlagPlan ==
    ASSUME SinkInv, PlanInv, SetRun \/ SetSink \/ Zero
    PROVE  PlanInv'
<1> DEFINE h == Head(todo)
<1>1. /\ todo # << >> /\ todo' = Tail(todo) /\ power' = power /\ UNCHANGED <<pc, chan>>
      /\ enable_cycle_snapshot' = enable_cycle_snapshot
      /\ UNCHANGED <<recv, out, shot, orders>>
  BY DEF SetRun, SetSink, Zero, Step, AtOp, jpeg, flags, history
<1>2. DataType'
  <2>1. /\ recv' \in 0 .. 1 /\ out' \in Seq(Nat) /\ shot' \in Nat /\ orders' \in Nat
        /\ chan' \in [Channels -> BOOLEAN] /\ power' \in {"boot", "up", "down"}
        /\ enable_cycle_snapshot' \in BOOLEAN
    BY <1>1 DEF PlanInv, DataType
  <2>2. send_jpeg_cnt' \in Int /\ get_jpeg_cnt' \in Int
    BY DEF SetRun, SetSink, Zero, counters, PlanInv, DataType
  <2>3. g_video_run_' \in BOOLEAN /\ g_audio_run_' \in BOOLEAN /\ cycle_snapshot_flag' \in BOOLEAN
    BY DEF SetRun, SetSink, Zero, flags, PlanInv, DataType
  <2> QED BY <2>1, <2>2, <2>3 DEF DataType
<1>3. /\ Sorted(todo') /\ Planned' = Planned \ {h} /\ h \in Planned /\ h \in Steps
  BY <1>1, StepPlan DEF Planned
<1>4. ChannelInv'
  BY <1>1 DEF PlanInv, ChannelInv
<1>5. CycleThread' <=> CycleThread
  BY <1>1 DEF CycleThread
<1>6. CASE SetSink
  <2>1. h = Op(h.op, h.of) /\ h.op \in {"sink_open", "sink_close"}
    BY <1>3, <1>6, StepForms DEF SetSink, AtOp
  <2>2. /\ \A v : FinishStep(v) \in Planned' <=> FinishStep(v) \in Planned
        /\ \A v : StartStep(v) \in Planned' <=> StartStep(v) \in Planned
        /\ \A x \in {VideoStop, VideoRun, CycleOff, CycleOn, ZeroStep} : x \in Planned' <=> x \in Planned
    <3>1. h = Op("sink_open", h.of) \/ h = Op("sink_close", h.of)
      BY <2>1
    <3> HIDE DEF h
    <3> QED BY <3>1, <1>3, StepsDiffer
  <2>3. UNCHANGED flags
    BY <1>6 DEF SetSink
  <2>4. ThreadPlan' /\ RunPlan' /\ CyclePlan'
    BY <1>1, <1>5, <2>2, <2>3 DEF PlanInv, ThreadPlan, RunPlan, CyclePlan, Settled, flags
  <2> QED BY <1>2, <1>3, <1>4, <2>4 DEF PlanInv
<1>7. CASE SetRun
  <2>1. CASE AtOp("video_stop")
    <3>1. h = VideoStop
      BY <1>3, <2>1, StepForms DEF AtOp
    <3>2. g_video_run_' = FALSE /\ cycle_snapshot_flag' = cycle_snapshot_flag
      BY <1>7, <2>1 DEF SetRun, AtOp
    <3>3. /\ \A v : FinishStep(v) \in Planned' <=> FinishStep(v) \in Planned
          /\ \A v : StartStep(v) \in Planned' <=> StartStep(v) \in Planned
          /\ \A x \in {VideoRun, CycleOff, CycleOn, ZeroStep} : x \in Planned' <=> x \in Planned
          /\ VideoStop \notin Planned' /\ VideoStop \in Planned
      BY <3>1, <1>3, StepsDiffer
    <3>4. ThreadPlan' /\ RunPlan' /\ CyclePlan'
      BY <1>1, <1>5, <3>2, <3>3 DEF PlanInv, ThreadPlan, RunPlan, CyclePlan, Settled
    <3> QED BY <1>2, <1>3, <1>4, <3>4 DEF PlanInv
  <2>2. CASE AtOp("video_run")
    <3>1. h = VideoRun
      BY <1>3, <2>2, StepForms DEF AtOp
    <3>2. g_video_run_' = TRUE /\ cycle_snapshot_flag' = cycle_snapshot_flag
      BY <1>7, <2>2 DEF SetRun, AtOp
    <3>3. /\ \A v : FinishStep(v) \in Planned' <=> FinishStep(v) \in Planned
          /\ \A v : StartStep(v) \in Planned' <=> StartStep(v) \in Planned
          /\ \A x \in {VideoStop, CycleOff, CycleOn, ZeroStep} : x \in Planned' <=> x \in Planned
          /\ VideoRun \notin Planned'
      BY <3>1, <1>3, StepsDiffer
    <3>4. VideoStop \notin Planned
      <4>1. Stage(VideoStop) = 0 /\ Stage(VideoRun) = 3 /\ VideoStop # VideoRun
        BY Stages, StepsDiffer
      <4>2. VideoStop \notin AudioSteps /\ VideoRun \notin AudioSteps
        BY Sides
      <4> QED BY <1>1, <3>1, <4>1, <4>2, Passed
    <3>5. ThreadPlan' /\ RunPlan' /\ CyclePlan'
      BY <1>1, <1>5, <3>2, <3>3, <3>4 DEF PlanInv, ThreadPlan, RunPlan, CyclePlan, Settled
    <3> QED BY <1>2, <1>3, <1>4, <3>5 DEF PlanInv
  <2>3. CASE AtOp("audio_stop")
    <3>1. h = Op("audio_stop", Audio)
      BY <1>3, <2>3, StepForms DEF AtOp
    <3>2. g_video_run_' = g_video_run_ /\ cycle_snapshot_flag' = cycle_snapshot_flag
      BY <1>7, <2>3 DEF SetRun, AtOp
    <3>3. /\ \A v : FinishStep(v) \in Planned' <=> FinishStep(v) \in Planned
          /\ \A v : StartStep(v) \in Planned' <=> StartStep(v) \in Planned
          /\ \A x \in {VideoStop, VideoRun, CycleOff, CycleOn, ZeroStep} : x \in Planned' <=> x \in Planned
      BY <3>1, <1>3, StepsDiffer
    <3>4. ThreadPlan' /\ RunPlan' /\ CyclePlan'
      BY <1>1, <1>5, <3>2, <3>3 DEF PlanInv, ThreadPlan, RunPlan, CyclePlan, Settled
    <3> QED BY <1>2, <1>3, <1>4, <3>4 DEF PlanInv
  <2> QED BY <1>7, <2>1, <2>2, <2>3 DEF SetRun
<1>8. CASE Zero
  <2>1. h = ZeroStep
    BY <1>3, <1>8, StepForms DEF Zero, AtOp
  <2>2. g_video_run_' = g_video_run_ /\ cycle_snapshot_flag' = FALSE
    BY <1>8 DEF Zero
  <2>3. /\ \A v : FinishStep(v) \in Planned' <=> FinishStep(v) \in Planned
        /\ \A v : StartStep(v) \in Planned' <=> StartStep(v) \in Planned
        /\ \A x \in {VideoStop, VideoRun, CycleOff, CycleOn} : x \in Planned' <=> x \in Planned
        /\ ZeroStep \notin Planned' /\ ZeroStep \in Planned
    BY <2>1, <1>3, StepsDiffer
  <2>4. ThreadPlan' /\ RunPlan'
    BY <1>1, <1>5, <2>2, <2>3 DEF PlanInv, ThreadPlan, RunPlan
  <2>5. CyclePlan'
    <3>1. FinishStep("cycle") \in Planned' /\ CycleOff \notin Planned' /\ CycleOn \notin Planned'
      BY <2>3 DEF PlanInv, CyclePlan, Settled
    <3> QED BY <3>1, <1>1, <1>5, <2>2, <2>3 DEF PlanInv, CyclePlan, Settled
  <2> QED BY <1>2, <1>3, <1>4, <2>4, <2>5 DEF PlanInv
<1> QED BY <1>6, <1>7, <1>8

(* The cycle thread's step becomes a join or a creation, or nothing.       *)
LEMMA SetCyclePlan ==
    ASSUME SinkInv, PlanInv, SetCycle
    PROVE  PlanInv'
<1> DEFINE h == Head(todo)
<1>1. /\ todo # << >> /\ power' = power /\ UNCHANGED <<pc, chan>>
      /\ enable_cycle_snapshot' = enable_cycle_snapshot /\ g_video_run_' = g_video_run_
      /\ UNCHANGED <<recv, out, shot, orders, send_jpeg_cnt, get_jpeg_cnt, g_audio_run_>>
  BY DEF SetCycle, AtOp, jpeg, history, counters
<1>2. DataType'
  <2>1. /\ recv' \in 0 .. 1 /\ out' \in Seq(Nat) /\ shot' \in Nat /\ orders' \in Nat
        /\ chan' \in [Channels -> BOOLEAN] /\ power' \in {"boot", "up", "down"}
        /\ enable_cycle_snapshot' \in BOOLEAN /\ send_jpeg_cnt' \in Int /\ get_jpeg_cnt' \in Int
    BY <1>1 DEF PlanInv, DataType
  <2>2. g_video_run_' \in BOOLEAN /\ g_audio_run_' \in BOOLEAN
    BY <1>1 DEF PlanInv, DataType
  <2>3. cycle_snapshot_flag' \in BOOLEAN
    <3>1. AtOp("cycle_on") \in BOOLEAN
      BY DEF AtOp
    <3>2. cycle_snapshot_flag' = AtOp("cycle_on") \/ cycle_snapshot_flag' = cycle_snapshot_flag
      BY DEF SetCycle
    <3>3. cycle_snapshot_flag \in BOOLEAN
      BY DEF PlanInv, DataType
    <3> QED BY <3>1, <3>2, <3>3, Zenon
  <2> QED BY <2>1, <2>2, <2>3 DEF DataType
<1>3. /\ Sorted(Tail(todo)) /\ ToSet(Tail(todo)) = Planned \ {h} /\ h \in Planned /\ h \in Steps
      /\ \A x \in Planned \ {h} : MayPrecede(h, x)
  BY <1>1, StepPlan
<1>4. ChannelInv'
  BY <1>1 DEF PlanInv, ChannelInv
<1>5. CycleThread' <=> CycleThread
  BY <1>1 DEF CycleThread
<1>6. /\ h = CycleOn \/ h = CycleOff
      /\ AtOp("cycle_on") <=> h = CycleOn
  BY <1>1, <1>3, StepForms, OpEqual, OpFields DEF SetCycle, AtOp, CycleOn, CycleOff
<1>0. /\ ~enable_cycle_snapshot => todo' = Tail(todo) /\ cycle_snapshot_flag' = cycle_snapshot_flag
      /\ enable_cycle_snapshot =>
           /\ h = CycleOn => todo' = <<StartStep("cycle")>> \o Tail(todo)
           /\ h # CycleOn => todo' = <<FinishStep("cycle")>> \o Tail(todo)
           /\ cycle_snapshot_flag' = AtOp("cycle_on")
  BY <1>6 DEF SetCycle, StartStep, FinishStep
<1> HIDE DEF h
<1>7. ZeroStep \notin Planned /\ VideoStop \notin Planned /\ (h = CycleOn => CycleOff \notin Planned)
      /\ FinishStep("cycle") \notin Planned /\ StartStep("cycle") \notin Planned
  <2>1. \A x \in {ZeroStep, VideoStop} : x \notin Planned
    <3> TAKE x \in {ZeroStep, VideoStop}
    <3>1. Stage(x) = 0 /\ Stage(h) \in {1, 5} /\ x # h
      BY <1>6, Stages, StepsDiffer
    <3>2. x \notin AudioSteps /\ h \notin AudioSteps
      BY <1>6, Sides
    <3> QED BY <1>1, <3>1, <3>2, Passed DEF h
  <2>2. CASE h = CycleOn
    <3>1. \A x \in {CycleOff, FinishStep("cycle")} : x \notin Planned
      <4> TAKE x \in {CycleOff, FinishStep("cycle")}
      <4>1. Stage(x) = 1 /\ Stage(h) = 5 /\ x # h
        BY <2>2, Stages, StepsDiffer
      <4>2. x \notin AudioSteps /\ h \notin AudioSteps
        BY <2>2, Sides, WorkersAre
      <4> QED BY <1>1, <4>1, <4>2, Passed DEF h
    <3> QED BY <2>1, <2>2, <3>1, <1>3 DEF PlanInv, CyclePlan, Settled
  <2>3. CASE h = CycleOff
    <3>1. FinishStep("cycle") \notin Planned /\ (CycleOn \in Planned \/ power = "down")
      BY <2>3, <1>3 DEF PlanInv, CyclePlan, Settled
    <3>2. StartStep("cycle") \notin Planned
      BY <3>1, WorkersAre DEF PlanInv, CyclePlan, Settled, ThreadPlan
    <3> QED BY <2>1, <2>3, <3>1, <3>2, StepsDiffer
  <2> QED BY <1>6, <2>2, <2>3
<1>8. CASE ~enable_cycle_snapshot
  <2>1. todo' = Tail(todo) /\ cycle_snapshot_flag' = cycle_snapshot_flag
    BY <1>0, <1>8
  <2>2. Sorted(todo') /\ Planned' = Planned \ {h}
    BY <2>1, <1>3 DEF Planned
  <2>3. /\ \A v : FinishStep(v) \in Planned' <=> FinishStep(v) \in Planned
        /\ \A v : StartStep(v) \in Planned' <=> StartStep(v) \in Planned
        /\ \A x \in {VideoStop, VideoRun, ZeroStep} : x \in Planned' <=> x \in Planned
        /\ CycleOff \notin Planned'
        /\ CycleOn \in Planned' <=> CycleOn \in Planned /\ h # CycleOn
    BY <2>2, <1>6, <1>7, StepsDiffer
  <2>4. ThreadPlan' /\ RunPlan'
    BY <1>1, <1>7, <2>1, <2>3 DEF PlanInv, ThreadPlan, RunPlan
  <2>5. ~CycleThread /\ ~cycle_snapshot_flag
    <3>1. CASE h = CycleOff
      <4>1. CycleOff \in Planned
        BY <3>1, <1>3
      <4>2. (CycleThread <=> enable_cycle_snapshot) /\ cycle_snapshot_flag = enable_cycle_snapshot
        BY <4>1, Zenon DEF PlanInv, CyclePlan, Settled
      <4> QED BY <4>2, <1>8, Zenon
    <3>2. CASE h = CycleOn
      BY <3>2, <1>3, <1>7 DEF PlanInv, CyclePlan, Settled
    <3> QED BY <1>6, <3>1, <3>2
  <2>6. CyclePlan'
    BY <1>1, <1>5, <1>7, <1>8, <2>1, <2>3, <2>5 DEF PlanInv, CyclePlan, Settled, DataType
  <2> QED BY <1>2, <1>4, <2>2, <2>4, <2>6 DEF PlanInv
<1>9. CASE enable_cycle_snapshot
  <2>1. PICK y \in {FinishStep("cycle"), StartStep("cycle")} :
          /\ y = IF h = CycleOn THEN StartStep("cycle") ELSE FinishStep("cycle")
          /\ todo' = <<y>> \o Tail(todo)
    BY <1>0, <1>9
  <2>2. cycle_snapshot_flag' = AtOp("cycle_on") /\ (AtOp("cycle_on") <=> h = CycleOn)
    BY <1>0, <1>6, <1>9
  <2>3. \A x \in Planned \ {h} : MayPrecede(y, x)
    <3>1. y \notin Planned
      BY <1>7
    <3>2. Stage(y) = Stage(h)
      BY <2>1, <1>6, Stages
    <3>3. y \notin AudioSteps /\ h \notin AudioSteps
      BY <1>6, Sides, WorkersAre
    <3> QED BY <3>1, <3>2, <3>3, <1>3 DEF MayPrecede
  <2>4. y \in Steps
    BY <2>1, AudioApart, WorkersAre DEF VideoSteps
  <2>5. Sorted(todo') /\ Planned' = {y} \cup (Planned \ {h})
    <3>1. Sorted(<<y>>) /\ ToSet(<<y>>) = {y}
      BY <2>4, PlanUnit
    <3> QED BY <2>1, <2>3, <3>1, <1>3, PlanConcat DEF Planned
  <2>6. /\ \A v : v # "cycle" => (FinishStep(v) \in Planned' <=> FinishStep(v) \in Planned)
        /\ \A v : v # "cycle" => (StartStep(v) \in Planned' <=> StartStep(v) \in Planned)
        /\ \A x \in {VideoStop, VideoRun, ZeroStep} : x \in Planned' <=> x \in Planned
        /\ CycleOff \notin Planned'
        /\ CycleOn \in Planned' <=> CycleOn \in Planned /\ h # CycleOn
        /\ FinishStep("cycle") \in Planned' <=> h = CycleOff
        /\ StartStep("cycle") \in Planned' <=> h = CycleOn
    <3>1. ASSUME NEW v, v # "cycle"
          PROVE  /\ FinishStep(v) \in Planned' <=> FinishStep(v) \in Planned
                 /\ StartStep(v) \in Planned' <=> StartStep(v) \in Planned
      <4>1. FinishStep(v) # y /\ StartStep(v) # y
        BY <2>1, <3>1, StepsDiffer
      <4>2. FinishStep(v) # h /\ StartStep(v) # h
        BY <1>6, StepsDiffer
      <4> QED BY <4>1, <4>2, <2>5
    <3>2. \A x \in {VideoStop, VideoRun, ZeroStep} : x \in Planned' <=> x \in Planned
      BY <2>1, <2>5, <1>6, StepsDiffer
    <3>3. /\ CycleOff \notin Planned'
          /\ CycleOn \in Planned' <=> CycleOn \in Planned /\ h # CycleOn
      <4>1. y # CycleOff /\ y # CycleOn
        BY <2>1, StepsDiffer
      <4>2. CycleOff # CycleOn
        BY StepsDiffer
      <4> QED BY <4>1, <4>2, <2>5, <1>6, <1>7
    <3>4. /\ FinishStep("cycle") \in Planned' <=> h = CycleOff
          /\ StartStep("cycle") \in Planned' <=> h = CycleOn
      BY <2>1, <2>5, <1>6, <1>7, StepsDiffer
    <3> QED BY <3>1, <3>2, <3>3, <3>4
  <2>7. h = CycleOn => power # "down"
    BY <1>3 DEF PlanInv, RunPlan
  <2>8. ThreadPlan'
    BY <1>1, <1>7, <2>1, <2>6, <2>7, WorkersAre DEF PlanInv, ThreadPlan, Threads
  <2>9. RunPlan'
    BY <1>1, <1>7, <2>1, <2>6, WorkersAre DEF PlanInv, RunPlan
  <2>10. CASE h = CycleOn
    <3>1. ~CycleThread
      BY <2>10, <1>3, <1>7 DEF PlanInv, CyclePlan, Settled
    <3>2. CycleOn \notin Planned' /\ FinishStep("cycle") \notin Planned' /\ StartStep("cycle") \in Planned'
      BY <2>6, <2>10, StepsDiffer
    <3>3. CyclePlan'
      BY <3>1, <3>2, <2>2, <2>6, <2>10, <1>1, <1>5, <1>7, <1>9 DEF CyclePlan, Settled
    <3> QED BY <3>3, <1>2, <1>4, <2>5, <2>8, <2>9 DEF PlanInv
  <2>11. CASE h = CycleOff
    <3>1. CycleThread /\ (CycleOn \in Planned \/ power = "down")
      <4>1. CycleOff \in Planned
        BY <2>11, <1>3
      <4>2. CycleThread <=> enable_cycle_snapshot
        BY <4>1, Zenon DEF PlanInv, CyclePlan, Settled
      <4>3. CycleOn \in Planned \/ power = "down"
        BY <4>1, Zenon DEF PlanInv, CyclePlan, Settled
      <4> QED BY <4>2, <4>3, <1>9, Zenon
    <3>2. /\ CycleOn \in Planned' \/ power' = "down"
          /\ FinishStep("cycle") \in Planned' /\ StartStep("cycle") \notin Planned'
          /\ cycle_snapshot_flag' = FALSE
      BY <3>1, <2>2, <2>6, <2>11, <1>1, StepsDiffer
    <3>3. CyclePlan'
      BY <3>1, <3>2, <2>6, <1>1, <1>5, <1>7 DEF CyclePlan, Settled
    <3> QED BY <3>3, <1>2, <1>4, <2>5, <2>8, <2>9 DEF PlanInv
  <2> QED BY <1>6, <2>10, <2>11
<1> QED BY <1>8, <1>9

(* Between two calls everything runs.                                      *)
LEMMA AtRest ==
    ASSUME PlanInv, todo = << >>, power # "down"
    PROVE  /\ Planned = {}
           /\ \A w \in Threads : pc[w] # "none"
           /\ \A w \in VideoThreads : pc[w] # "exit"
           /\ g_video_run_ = TRUE
           /\ CycleThread <=> enable_cycle_snapshot
           /\ cycle_snapshot_flag = enable_cycle_snapshot
           /\ CycleThread => pc["cycle"] # "exit"
<1>1. Planned = {}
  BY DEF Planned, ToSet
<1>2. \A w \in Threads : pc[w] # "none"
  BY <1>1 DEF PlanInv, ThreadPlan
<1>3. \A w \in VideoThreads : pc[w] # "exit"
  BY <1>1, <1>2, WorkersAre DEF PlanInv, RunPlan
<1>4. g_video_run_ = TRUE
  BY <1>1 DEF PlanInv, RunPlan, DataType
<1>5. Settled
  BY <1>1 DEF Settled
<1>6. (CycleThread <=> enable_cycle_snapshot) /\ cycle_snapshot_flag = enable_cycle_snapshot
  BY <1>5, Zenon DEF PlanInv, CyclePlan
<1>7. CycleThread => pc["cycle"] # "exit"
  BY <1>1 DEF PlanInv, CyclePlan
<1> QED BY <1>1, <1>2, <1>3, <1>4, <1>6, <1>7

(* main has started the system.                                            *)
LEMMA ReadyPlan ==
    ASSUME SinkInv, PlanInv, Ready
    PROVE  PlanInv'
<1>1. /\ Planned' = Planned /\ todo' = todo /\ power' = "up" /\ power = "boot"
      /\ UNCHANGED <<pc, chan, recv, out, shot, orders, send_jpeg_cnt, get_jpeg_cnt>>
      /\ UNCHANGED <<g_video_run_, g_audio_run_, cycle_snapshot_flag, enable_cycle_snapshot>>
  BY DEF Ready, flags, counters, jpeg, history, Planned
<1>2. ThreadPlan' /\ RunPlan' /\ ChannelInv'
  BY <1>1 DEF PlanInv, ThreadPlan, RunPlan, ChannelInv
<1>3. CyclePlan'
  BY <1>1 DEF PlanInv, CyclePlan, Settled, CycleThread
<1>4. DataType'
  BY <1>1 DEF PlanInv, DataType
<1> QED BY <1>1, <1>2, <1>3, <1>4 DEF PlanInv

(* A call is accepted only between two calls; its plan is in order.        *)
LEMMA CallFrame ==
    ASSUME SinkInv, PlanInv, Restart \/ Shutdown
    PROVE  /\ todo = << >> /\ power = "up"
           /\ UNCHANGED <<pc, chan, g_video_run_, cycle_snapshot_flag, enable_cycle_snapshot>>
           /\ DataType' /\ ChannelInv' /\ (CycleThread' <=> CycleThread)
<1>1. /\ todo = << >> /\ power = "up" /\ power' \in {"boot", "up", "down"}
      /\ UNCHANGED <<pc, chan, recv, out, shot, orders, send_jpeg_cnt, get_jpeg_cnt>>
      /\ UNCHANGED <<g_video_run_, g_audio_run_, cycle_snapshot_flag, enable_cycle_snapshot>>
  BY DEF Restart, Shutdown, Calls, flags, counters, jpeg, history
<1> QED BY <1>1 DEF PlanInv, DataType, ChannelInv, CycleThread

LEMMA RestartPlan ==
    ASSUME SinkInv, PlanInv, Restart
    PROVE  PlanInv'
<1>1. /\ todo = << >> /\ power = "up" /\ power' = "up"
      /\ UNCHANGED <<pc, chan, g_video_run_, cycle_snapshot_flag, enable_cycle_snapshot>>
      /\ DataType' /\ ChannelInv' /\ (CycleThread' <=> CycleThread)
  BY CallFrame DEF Restart, Calls
<1>2. /\ \A w \in Threads : pc[w] # "none"
      /\ \A w \in VideoThreads : pc[w] # "exit"
      /\ g_video_run_ = TRUE
      /\ CycleThread <=> enable_cycle_snapshot
      /\ cycle_snapshot_flag = enable_cycle_snapshot
      /\ CycleThread => pc["cycle"] # "exit"
  BY <1>1, AtRest
<1> DEFINE AD == {Op("audio_stop", Audio), FinishStep(Audio)}
           AI == {StartStep(Audio)}
<1>3. /\ \A w : FinishStep(w) \in AD <=> w = Audio
      /\ \A w : StartStep(w) \notin AD /\ FinishStep(w) \notin AI
      /\ \A w : StartStep(w) \in AI <=> w = Audio
      /\ \A x \in {VideoStop, VideoRun, CycleOff, CycleOn, ZeroStep} : x \notin AD /\ x \notin AI
  BY StepsDiffer
<1> HIDE DEF AD, AI
<1>4. CASE todo' = rkipc_audio_deinit \o rk_video_deinit \o rk_video_init \o rkipc_audio_init
  <2>1. Sorted(todo') /\ Planned' = ((AD \cup VideoDeinitSteps) \cup VideoInitSteps) \cup AI
    BY <1>4, CallPlans DEF Planned, AD, AI
  <2>2. /\ \A w \in Threads : FinishStep(w) \in Planned' /\ StartStep(w) \in Planned'
        /\ FinishStep("cycle") \notin Planned' /\ StartStep("cycle") \notin Planned'
        /\ \A x \in {VideoStop, VideoRun, CycleOff, CycleOn} : x \in Planned'
        /\ ZeroStep \notin Planned'
    BY <2>1, <1>3, PlanContents, WorkersAre
  <2>3. ThreadPlan'
    BY <1>1, <1>2, <2>2 DEF ThreadPlan
  <2>4. RunPlan'
    BY <1>1, <1>2, <2>2, WorkersAre DEF RunPlan
  <2>5. CyclePlan'
    BY <1>1, <1>2, <2>2 DEF CyclePlan, Settled
  <2> QED BY <1>1, <2>1, <2>3, <2>4, <2>5 DEF PlanInv
<1>5. CASE todo' = rkipc_audio_deinit \o rkipc_audio_init
  <2>1. Sorted(todo') /\ Planned' = AD \cup AI
    BY <1>5, CallPlans DEF Planned, AD, AI
  <2>2. /\ \A w : FinishStep(w) \in Planned' <=> w = Audio
        /\ \A w : StartStep(w) \in Planned' <=> w = Audio
        /\ \A x \in {VideoStop, VideoRun, CycleOff, CycleOn, ZeroStep} : x \notin Planned'
    BY <2>1, <1>3
  <2>3. ThreadPlan'
    BY <1>1, <1>2, <2>2 DEF ThreadPlan
  <2>4. RunPlan'
    BY <1>1, <1>2, <2>2, WorkersAre DEF RunPlan
  <2>5. pc'["cycle"] = pc["cycle"]
    BY <1>1
  <2>6. CyclePlan'
    BY <1>1, <1>2, <2>2, <2>5, WorkersAre DEF CyclePlan, Settled, CycleThread
  <2> QED BY <1>1, <2>1, <2>3, <2>4, <2>6 DEF PlanInv
<1> QED BY <1>4, <1>5 DEF Restart, Calls

LEMMA ShutdownPlan ==
    ASSUME SinkInv, PlanInv, Shutdown
    PROVE  PlanInv'
<1>1. /\ todo = << >> /\ power = "up" /\ power' = "down"
      /\ UNCHANGED <<pc, chan, g_video_run_, cycle_snapshot_flag, enable_cycle_snapshot>>
      /\ DataType' /\ ChannelInv' /\ (CycleThread' <=> CycleThread)
  BY CallFrame DEF Shutdown
<1>2. /\ \A w \in Threads : pc[w] # "none"
      /\ \A w \in VideoThreads : pc[w] # "exit"
      /\ g_video_run_ = TRUE
      /\ CycleThread <=> enable_cycle_snapshot
      /\ cycle_snapshot_flag = enable_cycle_snapshot
      /\ CycleThread => pc["cycle"] # "exit"
  BY <1>1, AtRest
<1> DEFINE AD == {Op("audio_stop", Audio), FinishStep(Audio)}
<1>3. /\ \A w : FinishStep(w) \in AD <=> w = Audio
      /\ \A w : StartStep(w) \notin AD
      /\ \A x \in {VideoStop, VideoRun, CycleOff, CycleOn, ZeroStep} : x \notin AD
  BY StepsDiffer
<1> HIDE DEF AD
<1>4. Sorted(todo') /\ Planned' = VideoDeinitSteps \cup AD
  BY CallPlans DEF Shutdown, Planned, AD
<1>5. /\ \A w \in Threads : FinishStep(w) \in Planned'
      /\ \A w : StartStep(w) \notin Planned'
      /\ FinishStep("cycle") \notin Planned'
      /\ VideoStop \in Planned' /\ CycleOff \in Planned'
      /\ VideoRun \notin Planned' /\ CycleOn \notin Planned' /\ ZeroStep \notin Planned'
  BY <1>3, <1>4, PlanContents, WorkersAre
<1>6. ThreadPlan'
  BY <1>1, <1>2, <1>5 DEF ThreadPlan
<1>7. RunPlan'
  BY <1>1, <1>2, <1>5, WorkersAre DEF RunPlan
<1>8. CyclePlan'
  BY <1>1, <1>2, <1>5 DEF CyclePlan, Settled
<1> QED BY <1>1, <1>4, <1>6, <1>7, <1>8 DEF PlanInv

(* The photo cycle is switched on, switched off, or left as it is.         *)
LEMMA SwitchPlan ==
    ASSUME SinkInv, PlanInv, NEW value \in BOOLEAN, rk_video_set_enable_cycle_snapshot(value)
    PROVE  PlanInv'
<1>1. /\ todo = << >> /\ power = "up" /\ power' = "up"
      /\ UNCHANGED <<pc, chan, recv, out, shot, orders, send_jpeg_cnt, get_jpeg_cnt>>
      /\ UNCHANGED <<g_video_run_, g_audio_run_>>
      /\ enable_cycle_snapshot' = value
  BY DEF rk_video_set_enable_cycle_snapshot, Calls, flags, counters, jpeg, history
<1>2. /\ \A w \in Threads : pc[w] # "none"
      /\ \A w \in VideoThreads : pc[w] # "exit"
      /\ g_video_run_ = TRUE
      /\ CycleThread <=> enable_cycle_snapshot
      /\ cycle_snapshot_flag = enable_cycle_snapshot
      /\ CycleThread => pc["cycle"] # "exit"
  BY <1>1, AtRest
<1>3. cycle_snapshot_flag \in BOOLEAN
  BY DEF PlanInv, DataType
<1>4. ChannelInv' /\ (CycleThread' <=> CycleThread) /\ pc'["cycle"] = pc["cycle"]
  BY <1>1 DEF PlanInv, ChannelInv, CycleThread
<1>5. CASE value = TRUE /\ ~cycle_snapshot_flag
  <2>1. cycle_snapshot_flag' = TRUE /\ todo' = <<StartStep("cycle")>>
    BY <1>5 DEF rk_video_set_enable_cycle_snapshot, Calls, StartStep
  <2>2. Sorted(todo') /\ Planned' = {StartStep("cycle")}
    BY <2>1, PlanUnit, AudioApart, WorkersAre DEF Planned, VideoSteps
  <2>3. /\ \A w : FinishStep(w) \notin Planned'
        /\ \A w : StartStep(w) \in Planned' <=> w = "cycle"
        /\ \A x \in {VideoStop, VideoRun, CycleOff, CycleOn, ZeroStep} : x \notin Planned'
    BY <2>2, StepsDiffer
  <2>4. ThreadPlan' /\ RunPlan'
    BY <1>1, <1>2, <2>3, WorkersAre DEF ThreadPlan, RunPlan, Threads
  <2>5. ~CycleThread'
    BY <1>2, <1>4, <1>5
  <2>6. CyclePlan'
    <3>1. enable_cycle_snapshot' = TRUE
      BY <1>1, <1>5
    <3> QED BY <3>1, <2>1, <2>2, <2>3, <2>5, <1>1 DEF CyclePlan, Settled
  <2>7. DataType'
    BY <1>1, <2>1 DEF PlanInv, DataType
  <2> QED BY <1>4, <2>2, <2>4, <2>6, <2>7 DEF PlanInv
<1>6. CASE value = FALSE /\ cycle_snapshot_flag
  <2>1. cycle_snapshot_flag' = cycle_snapshot_flag /\ todo' = <<ZeroStep, FinishStep("cycle")>>
    BY <1>6 DEF rk_video_set_enable_cycle_snapshot, Calls, FinishStep, ZeroStep
  <2>2. Sorted(todo') /\ Planned' = {ZeroStep, FinishStep("cycle")}
    <3>1. ZeroStep \in Steps /\ FinishStep("cycle") \in Steps
      BY AudioApart, WorkersAre DEF VideoSteps
    <3>2. MayPrecede(ZeroStep, FinishStep("cycle"))
      <4>1. Stage(ZeroStep) = 0 /\ Stage(FinishStep("cycle")) = 1
        BY Stages
      <4> QED BY <4>1, StepsDiffer DEF MayPrecede
    <3>3. \A x \in Steps, y \in Steps :
             MayPrecede(x, y) => Sorted(<<x, y>>) /\ ToSet(<<x, y>>) = {x, y}
      BY DEF Sorted, ToSet
    <3> QED BY <2>1, <3>1, <3>2, <3>3 DEF Planned
  <2>3. /\ \A w : FinishStep(w) \in Planned' <=> w = "cycle"
        /\ \A w : StartStep(w) \notin Planned'
        /\ \A x \in {VideoStop, VideoRun, CycleOff, CycleOn} : x \notin Planned'
        /\ ZeroStep \in Planned'
    BY <2>2, StepsDiffer
  <2>4. ThreadPlan' /\ RunPlan'
    BY <1>1, <1>2, <2>3, WorkersAre DEF ThreadPlan, RunPlan, Threads
  <2>5. CycleThread'
    BY <1>2, <1>4, <1>6
  <2>6. CyclePlan'
    <3>1. enable_cycle_snapshot' = FALSE
      BY <1>1, <1>6
    <3> QED BY <3>1, <2>2, <2>3, <2>5, <1>1 DEF CyclePlan, Settled
  <2>7. DataType'
    BY <1>1, <2>1 DEF PlanInv, DataType
  <2> QED BY <1>4, <2>2, <2>4, <2>6, <2>7 DEF PlanInv
<1>7. CASE value = cycle_snapshot_flag
  <2>1. cycle_snapshot_flag' = cycle_snapshot_flag /\ todo' = << >>
    BY <1>7 DEF rk_video_set_enable_cycle_snapshot, Calls
  <2>2. Sorted(todo') /\ Planned' = Planned
    BY <1>1, <2>1 DEF PlanInv, Planned
  <2>3. enable_cycle_snapshot' = enable_cycle_snapshot
    BY <1>1, <1>2, <1>7
  <2>4. ThreadPlan' /\ RunPlan'
    BY <1>1, <2>2 DEF PlanInv, ThreadPlan, RunPlan
  <2>5. CyclePlan'
    BY <1>1, <1>4, <2>1, <2>2, <2>3 DEF PlanInv, CyclePlan, Settled
  <2>6. DataType'
    BY <1>1, <2>1 DEF PlanInv, DataType
  <2> QED BY <1>4, <2>2, <2>4, <2>5, <2>6 DEF PlanInv
<1>8. value = TRUE \/ value = FALSE
  OBVIOUS
<1> QED BY <1>3, <1>5, <1>6, <1>7, <1>8

(* The boot: nothing runs, everything is to be started.                    *)
LEMMA BootPlan == Init => PlanInv
<1> SUFFICES ASSUME Init PROVE PlanInv
  OBVIOUS
<1>1. /\ \A w \in Workers : pc[w] = "none"
      /\ g_video_run_ = TRUE /\ cycle_snapshot_flag = FALSE /\ enable_cycle_snapshot \in BOOLEAN
      /\ power = "boot"
  BY VideoAssumption DEF Init, Workers
<1> DEFINE AI == {StartStep(Audio)}
<1>2. /\ \A w : FinishStep(w) \notin AI
      /\ \A w : StartStep(w) \in AI <=> w = Audio
      /\ \A x \in {VideoStop, VideoRun, CycleOff, CycleOn, ZeroStep} : x \notin AI
  BY StepsDiffer
<1> HIDE DEF AI
<1>3. Sorted(todo) /\ Planned = VideoInitSteps \cup AI
  BY CallPlans DEF Init, Planned, AI
<1>4. /\ \A w : FinishStep(w) \notin Planned
      /\ \A w \in Threads : StartStep(w) \in Planned
      /\ StartStep("cycle") \notin Planned
      /\ VideoStop \notin Planned /\ CycleOff \notin Planned /\ ZeroStep \notin Planned
      /\ VideoRun \in Planned /\ CycleOn \in Planned
  BY <1>2, <1>3, PlanContents, WorkersAre
<1>5. ThreadPlan
  BY <1>1, <1>4, WorkersAre DEF ThreadPlan
<1>6. RunPlan
  BY <1>1, <1>4, WorkersAre DEF RunPlan
<1>7. ~CycleThread
  BY <1>1, WorkersAre DEF CycleThread
<1>8. CyclePlan
  BY <1>1, <1>4, <1>7 DEF CyclePlan, Settled
<1>9. ChannelInv
  BY <1>1, WorkersAre DEF ChannelInv
<1>10. DataType
  <2>1. << >> \in Seq(Nat) /\ 0 \in 0 .. 1
    OBVIOUS
  <2>2. chan \in [Channels -> BOOLEAN] /\ out \in Seq(Nat) /\ recv \in 0 .. 1
    <3>1. chan = [c \in Channels |-> FALSE] /\ out = << >> /\ recv = 0
      BY DEF Init
    <3>2. out \in Seq(Nat)
      BY <2>1, <3>1, Zenon
    <3> QED BY <2>1, <3>1, <3>2
  <2>3. send_jpeg_cnt = 0 /\ get_jpeg_cnt = 0 /\ shot = 0 /\ orders = 0
        /\ g_audio_run_ = TRUE
    BY DEF Init
  <2>4. /\ g_video_run_ \in BOOLEAN /\ g_audio_run_ \in BOOLEAN
        /\ cycle_snapshot_flag \in BOOLEAN /\ enable_cycle_snapshot \in BOOLEAN
    BY <1>1, <2>3
  <2>5. send_jpeg_cnt \in Int /\ get_jpeg_cnt \in Int /\ shot \in Nat /\ orders \in Nat
    BY <2>3
  <2>6. power \in {"boot", "up", "down"}
    BY <1>1
  <2> QED BY <2>2, <2>4, <2>5, <2>6 DEF DataType
<1> QED BY <1>3, <1>5, <1>6, <1>8, <1>9, <1>10 DEF PlanInv

LEMMA RestPlan ==
    ASSUME SinkInv, PlanInv, UNCHANGED vars
    PROVE  PlanInv'
<1>1. /\ UNCHANGED <<todo, power, pc, chan, recv, out, shot, orders, send_jpeg_cnt, get_jpeg_cnt>>
      /\ UNCHANGED <<g_video_run_, g_audio_run_, cycle_snapshot_flag, enable_cycle_snapshot>>
  BY DEF vars, flags, counters, jpeg, control, history
<1>2. Planned' = Planned /\ (CycleThread' <=> CycleThread)
  BY <1>1 DEF Planned, CycleThread
<1>3. ThreadPlan' /\ RunPlan' /\ ChannelInv'
  BY <1>1, <1>2 DEF PlanInv, ThreadPlan, RunPlan, ChannelInv
<1>4. CyclePlan'
  BY <1>1, <1>2 DEF PlanInv, CyclePlan, Settled
<1>5. DataType'
  BY <1>1 DEF PlanInv, DataType
<1> QED BY <1>1, <1>3, <1>4, <1>5 DEF PlanInv

LEMMA NextPlan == SinkInv /\ PlanInv /\ [Next]_vars => PlanInv'
<1> SUFFICES ASSUME SinkInv, PlanInv, [Next]_vars PROVE PlanInv'
  OBVIOUS
<1>1. CASE \E t \in Streams : StreamStep(t)
  BY <1>1, StreamPlan
<1>2. CASE \E c \in Callers : PhotoTest(c) \/ PhotoRefused(c) \/ PhotoStep(c)
  BY <1>2, CallerPlan
<1>3. CASE SendStep \/ GrabTimeout \/ ResizeFails \/ GetStep
  BY <1>3, PhotoPlan
<1>4. CASE Control
  BY <1>4, FlagPlan, FinishPlan, StartPlan, SetCyclePlan, ReadyPlan DEF Control
<1>5. CASE Restart \/ Shutdown
  BY <1>5, RestartPlan, ShutdownPlan
<1>6. CASE \E value \in BOOLEAN : rk_video_set_enable_cycle_snapshot(value)
  BY <1>6, SwitchPlan
<1>7. CASE UNCHANGED vars
  BY <1>7, RestPlan
<1> QED BY <1>1, <1>2, <1>3, <1>4, <1>5, <1>6, <1>7 DEF Next

LEMMA VideoInvariant == Spec => [](SinkInv /\ PlanInv)
<1>1. Init => SinkInv
  BY InitSinks
<1>2. SinkInv /\ [Next]_vars => SinkInv'
  BY NextSinks
<1> QED BY <1>1, <1>2, BootPlan, NextPlan, PTL DEF Spec

(* The types, among them that the jpeg encoder never takes more than one   *)
(* frame for a photo (RK_MPI_VENC_StartRecvFrame with one frame each).     *)
THEOREM VideoTypes == Spec => []TypeOK
<1>1. SinkInv /\ PlanInv => TypeOK
  BY DEF SinkInv, SinkType, PlanInv, DataType, TypeOK, flags, Labels
<1> QED BY <1>1, VideoInvariant, PTL

(* Every channel outlives the threads that wait on it or hold its frames   *)
(* (rkipc_pipe_0_deinit, rkipc_pipe_jpeg_deinit, rkipc_audio_deinit).      *)
THEOREM ChannelsOutliveThreads == Spec => []ChannelInUse
<1>1. PlanInv => ChannelInUse
  BY DEF PlanInv, ChannelInv, ChannelInUse, Alive
<1> QED BY <1>1, VideoInvariant, PTL

(* A thread to be joined exists; one to be created does not.               *)
LEMMA PlanPairs == ASSUME PlanInv PROVE ThreadsPaired
<1> SUFFICES ASSUME AtOp("finish") \/ AtOp("start")
             PROVE  /\ AtOp("finish") => pc[Of] # "none"
                    /\ AtOp("start") => pc[Of] = "none"
  BY DEF ThreadsPaired
<1>1. todo # << >> /\ Head(todo) \in Steps /\ Head(todo) \in Planned
  BY StepPlan DEF AtOp
<1>2. ASSUME AtOp("finish")
      PROVE  pc[Of] # "none"
  <2>1. Of \in Workers /\ FinishStep(Of) \in Planned
    BY <1>1, <1>2, StepForms DEF AtOp, Of
  <2> QED BY <2>1, WorkersAre DEF PlanInv, ThreadPlan, CyclePlan, CycleThread
<1>3. ASSUME AtOp("start")
      PROVE  pc[Of] = "none"
  <2>1. Of \in Workers /\ StartStep(Of) \in Planned /\ Head(todo) = StartStep(Of)
    BY <1>1, <1>3, StepForms DEF AtOp, Of
  <2>2. FinishStep(Of) \notin Planned
    <3>1. FinishStep(Of) \in AudioSteps <=> StartStep(Of) \in AudioSteps
      BY <2>1, Sides
    <3>2. Stage(FinishStep(Of)) \in 1 .. 2 /\ Stage(StartStep(Of)) \in 4 .. 5
          /\ FinishStep(Of) # StartStep(Of)
      BY Stages, StepsDiffer
    <3> QED BY <1>1, <2>1, <3>1, <3>2, Passed
  <2> QED BY <2>1, <2>2, WorkersAre DEF PlanInv, ThreadPlan, CyclePlan, CycleThread
<1> QED BY <1>2, <1>3

(* pthread_create and pthread_join pair up whatever calls follow one       *)
(* another (rk_video_init, rk_video_deinit, rk_video_restart,              *)
(* rk_audio_restart, rk_video_set_enable_cycle_snapshot).                  *)
THEOREM ThreadsCreatedAndJoined == Spec => []ThreadsPaired
<1>1. PlanInv => ThreadsPaired
  BY PlanPairs
<1> QED BY <1>1, VideoInvariant, PTL

(* When a boot, a restart or a switch has returned, the video and photo    *)
(* threads run and the cycle thread is there if the parameter says so.     *)
THEOREM VideoRunsAgain == Spec => []VideoRuns
<1>1. PlanInv => VideoRuns
  <2> SUFFICES ASSUME PlanInv, power = "up", todo = << >>
               PROVE  /\ \A t \in Vencs \cup {"send", "get"} : Alive(t)
                      /\ Alive("cycle") <=> enable_cycle_snapshot
                      /\ cycle_snapshot_flag = enable_cycle_snapshot
    BY DEF VideoRuns
  <2>1. \A t \in Vencs \cup {"send", "get"} : Alive(t)
    BY AtRest, WorkersAre DEF Alive
  <2>2. CycleThread <=> Alive("cycle")
    BY AtRest DEF Alive, CycleThread
  <2> QED BY <2>1, <2>2, AtRest
<1> QED BY <1>1, VideoInvariant, PTL

-----------------------------------------------------------------------------
(* Photos.                                                                 *)

(* An order whose encoder was started, and one that is counted and not yet *)
(* answered.                                                               *)
Started == \E c \in Callers : pc[c] = "count"
Awaited == get_jpeg_cnt = 1 \/ \E c \in Callers : pc[c] = "count_get"

(* One order at a time: where it is, who is at work on it, and where its   *)
(* frame is.                                                               *)
OneOrder ==
    /\ \A c, d \in InPhoto : c = d
    /\ send_jpeg_cnt \in 0 .. 1 /\ get_jpeg_cnt \in 0 .. 1
    /\ InPhoto # {} => get_jpeg_cnt = 0
    /\ \A c \in Callers : pc[c] \in {"start", "count"} => send_jpeg_cnt = 0
    /\ send_jpeg_cnt = 1 => Awaited

AtWork ==
    /\ Started \/ Awaited => g_video_run_ /\ Alive("send") /\ pc["get"] \in {"first", "sleep", "wait"}
    /\ pc["send"] \in {"grab", "resized"} => send_jpeg_cnt = 1
    /\ pc["get"] = "wait" => get_jpeg_cnt = 1

FrameOf ==
    /\ ~Awaited \/ send_jpeg_cnt = 1 => out = << >>
    /\ Started \/ send_jpeg_cnt = 1 => recv = 1
    /\ Awaited /\ send_jpeg_cnt = 0 => out = <<orders>>
    /\ pc["send"] = "resized" => shot = orders

Answered ==
    /\ Awaited => orders > 0
    /\ photos = [i \in 1 .. (IF Awaited THEN orders - 1 ELSE orders) |-> i]

CalmInv == calm => OneOrder /\ AtWork /\ FrameOf /\ Answered

LEMMA CallersAre ==
    /\ Callers \subseteq Workers \cup Clients
    /\ "send" \notin Callers /\ "get" \notin Callers /\ "cycle" \in Callers
    /\ Streams \cap Callers = {} /\ {"send", "get"} \cap Streams = {} /\ "cycle" \notin Streams
    /\ InPhoto \subseteq Callers
    /\ "send" \in Workers /\ "get" \in Workers
BY VideoAssumption DEF Callers, Workers, Streams, InPhoto

(* Who changes where: no order is made or moved, and the photo threads     *)
(* stay where they are.                                                    *)
InPhotoLabels == {"start", "count", "count_get"}
OrdersStay ==
    /\ pc'["send"] = pc["send"] /\ pc'["get"] = pc["get"]
    /\ \A c \in Callers :
         pc'[c] = pc[c] \/ (pc[c] \notin InPhotoLabels /\ pc'[c] \notin InPhotoLabels)

LEMMA SameOrders ==
    ASSUME OrdersStay, get_jpeg_cnt' = get_jpeg_cnt
    PROVE  /\ InPhoto' = InPhoto /\ (Started' <=> Started) /\ (Awaited' <=> Awaited)
           /\ \A c \in Callers, l \in InPhotoLabels : pc'[c] = l <=> pc[c] = l
<1>1. \A c \in Callers, l \in InPhotoLabels : pc'[c] = l <=> pc[c] = l
  BY DEF OrdersStay
<1>2. \A c \in Callers : /\ pc'[c] = "start" <=> pc[c] = "start"
                         /\ pc'[c] = "count" <=> pc[c] = "count"
                         /\ pc'[c] = "count_get" <=> pc[c] = "count_get"
  BY <1>1 DEF InPhotoLabels
<1>3. InPhoto' = InPhoto
  BY <1>2 DEF InPhoto
<1>4. (Started' <=> Started) /\ (Awaited' <=> Awaited)
  BY <1>2 DEF Started, Awaited
<1> QED BY <1>1, <1>3, <1>4

(* A step that has nothing to do with photos.                              *)
LEMMA QuietCalm ==
    ASSUME CalmInv, OrdersStay, UNCHANGED <<counters, jpeg, orders, photos>>,
           g_video_run_ => g_video_run_', calm' => calm
    PROVE  CalmInv'
<1> SUFFICES ASSUME calm'
             PROVE  OneOrder' /\ AtWork' /\ FrameOf' /\ Answered'
  BY DEF CalmInv
<1>1. /\ InPhoto' = InPhoto /\ (Started' <=> Started) /\ (Awaited' <=> Awaited)
      /\ \A c \in Callers, l \in InPhotoLabels : pc'[c] = l <=> pc[c] = l
  BY SameOrders DEF counters
<1>2. /\ send_jpeg_cnt' = send_jpeg_cnt /\ get_jpeg_cnt' = get_jpeg_cnt
      /\ recv' = recv /\ out' = out /\ shot' = shot /\ orders' = orders /\ photos' = photos
      /\ pc'["send"] = pc["send"] /\ pc'["get"] = pc["get"]
  BY DEF counters, jpeg, OrdersStay
<1>3. OneOrder /\ AtWork /\ FrameOf /\ Answered
  BY DEF CalmInv
<1>4. OneOrder'
  BY <1>1, <1>2, <1>3 DEF OneOrder, InPhotoLabels
<1>5. AtWork'
  BY <1>1, <1>2, <1>3 DEF AtWork, Alive
<1>6. FrameOf'
  BY <1>1, <1>2, <1>3 DEF FrameOf
<1>7. Answered'
  BY <1>1, <1>2, <1>3 DEF Answered
<1> QED BY <1>4, <1>5, <1>6, <1>7

LEMMA StreamCalm ==
    ASSUME SinkInv, CalmInv, NEW t \in Streams, StreamStep(t)
    PROVE  CalmInv'
<1>1. \E l : pc' = [pc EXCEPT ![t] = l]
  BY DEF StreamStep, FrameStep, GetTimeout, WriteFrame, Written, After, Loop, Goto, Eos
<1>2. \A v \in Workers \cup Clients : v # t => pc'[v] = pc[v]
  BY <1>1 DEF SinkInv, SinkType
<1>3. OrdersStay
  BY <1>2, CallersAre DEF OrdersStay
<1>4. UNCHANGED <<counters, jpeg, orders, photos, g_video_run_, calm>>
  BY DEF StreamStep, FrameStep, GetTimeout, WriteFrame, Written, Eos, history, flags
<1> QED BY <1>3, <1>4, QuietCalm

(* The steps of an order.                                                  *)
LEMMA OrderMoves ==
    ASSUME SinkInv, NEW c \in Callers, NEW l, pc' = [pc EXCEPT ![c] = l]
    PROVE  /\ \A d \in Callers : pc'[d] = IF d = c THEN l ELSE pc[d]
           /\ pc'["send"] = pc["send"] /\ pc'["get"] = pc["get"]
           /\ InPhoto' = IF l \in InPhotoLabels THEN InPhoto \cup {c} ELSE InPhoto \ {c}
<1>1. \A d \in Callers : pc'[d] = IF d = c THEN l ELSE pc[d]
  BY CallersAre DEF SinkInv, SinkType
<1>2. pc'["send"] = pc["send"] /\ pc'["get"] = pc["get"]
  BY CallersAre DEF SinkInv, SinkType
<1>3. InPhoto' = IF l \in InPhotoLabels THEN InPhoto \cup {c} ELSE InPhoto \ {c}
  BY <1>1 DEF InPhoto, InPhotoLabels
<1> QED BY <1>1, <1>2, <1>3

LEMMA RefusedCalm ==
    ASSUME SinkInv, CalmInv, NEW c \in Callers, PhotoRefused(c)
    PROVE  CalmInv'
<1>1. PICK l \in {"idle", "sleep", "exit"} : pc' = [pc EXCEPT ![c] = l]
  BY DEF PhotoRefused, Done, Goto
<1>2. pc[c] \notin InPhotoLabels
  BY DEF PhotoRefused, Idle, InPhotoLabels
<1>3. /\ pc'["send"] = pc["send"] /\ pc'["get"] = pc["get"]
      /\ \A d \in Callers : pc'[d] = IF d = c THEN l ELSE pc[d]
  BY <1>1, OrderMoves
<1>4. l \notin InPhotoLabels
  BY DEF InPhotoLabels
<1>5. OrdersStay
  BY <1>2, <1>3, <1>4 DEF OrdersStay
<1>6. UNCHANGED <<counters, jpeg, orders, photos, g_video_run_, calm>>
  BY DEF PhotoRefused, history, flags
<1> QED BY <1>5, <1>6, QuietCalm

LEMMA TestCalm ==
    ASSUME SinkInv, CalmInv, DataType, NEW c \in Callers, PhotoTest(c)
    PROVE  CalmInv'
<1> SUFFICES ASSUME calm'
             PROVE  OneOrder' /\ AtWork' /\ FrameOf' /\ Answered'
  BY DEF CalmInv
<1>1. /\ calm /\ InPhoto = {} /\ send_jpeg_cnt = 0 /\ get_jpeg_cnt = 0
      /\ pc' = [pc EXCEPT ![c] = "start"]
      /\ send_jpeg_cnt' = 0 /\ get_jpeg_cnt' = 0
      /\ recv' = recv /\ out' = out /\ shot' = shot /\ orders' = orders /\ photos' = photos
  BY DEF PhotoTest, Goto, counters, jpeg
<1>2. OneOrder /\ AtWork /\ FrameOf /\ Answered
  BY <1>1 DEF CalmInv
<1>3. /\ \A d \in Callers : pc'[d] = IF d = c THEN "start" ELSE pc[d]
      /\ pc'["send"] = pc["send"] /\ pc'["get"] = pc["get"]
      /\ InPhoto' = {c}
  BY <1>1, OrderMoves DEF InPhotoLabels
<1>4. \A d \in Callers : pc[d] \notin InPhotoLabels
  BY <1>1 DEF InPhoto, InPhotoLabels
<1>5. ~Started' /\ ~Awaited' /\ ~Started /\ ~Awaited
  BY <1>1, <1>3, <1>4 DEF Started, Awaited, InPhotoLabels
<1>6. OneOrder'
  BY <1>1, <1>3 DEF OneOrder
<1>7. AtWork' /\ FrameOf' /\ Answered'
  BY <1>1, <1>2, <1>3, <1>5 DEF AtWork, FrameOf, Answered
<1> QED BY <1>6, <1>7

LEMMA StartCalm ==
    ASSUME SinkInv, CalmInv, PlanInv, NEW c \in Callers, PhotoStart(c)
    PROVE  CalmInv'
<1> SUFFICES ASSUME calm'
             PROVE  OneOrder' /\ AtWork' /\ FrameOf' /\ Answered'
  BY DEF CalmInv
<1>1. /\ calm /\ Calm /\ pc[c] = "start"
      /\ pc' = [pc EXCEPT ![c] = "count"]
      /\ recv' = IF chan["jpeg"] THEN 1 ELSE recv
      /\ send_jpeg_cnt' = send_jpeg_cnt /\ get_jpeg_cnt' = get_jpeg_cnt
      /\ out' = out /\ shot' = shot /\ orders' = orders /\ photos' = photos
      /\ g_video_run_' = g_video_run_
  BY DEF PhotoStart, Goto, counters, flags
<1>2. OneOrder /\ AtWork /\ FrameOf /\ Answered
  BY <1>1 DEF CalmInv
<1>3. /\ \A d \in Callers : pc'[d] = IF d = c THEN "count" ELSE pc[d]
      /\ pc'["send"] = pc["send"] /\ pc'["get"] = pc["get"]
      /\ c \in InPhoto /\ InPhoto' = InPhoto
  <2>1. /\ \A d \in Callers : pc'[d] = IF d = c THEN "count" ELSE pc[d]
        /\ pc'["send"] = pc["send"] /\ pc'["get"] = pc["get"]
        /\ InPhoto' = InPhoto \cup {c}
    BY <1>1, OrderMoves DEF InPhotoLabels
  <2>2. c \in InPhoto
    BY <1>1 DEF InPhoto
  <2> QED BY <2>1, <2>2
<1>4. \A d \in InPhoto : d = c
  BY <1>2, <1>3 DEF OneOrder
<1>5. send_jpeg_cnt = 0 /\ get_jpeg_cnt = 0
  BY <1>1, <1>2, <1>3 DEF OneOrder
<1>6. ~Awaited /\ ~Awaited' /\ Started'
  <2>1. \A d \in Callers : pc[d] # "count_get"
    BY <1>1, <1>4 DEF InPhoto
  <2>2. \A d \in Callers : pc'[d] # "count_get"
    BY <2>1, <1>3
  <2> QED BY <2>1, <2>2, <1>1, <1>3, <1>5 DEF Awaited, Started
<1>7. recv' = 1
  BY <1>1 DEF Calm, PlanInv, ChannelInv
<1>8. OneOrder'
  BY <1>1, <1>2, <1>3, <1>5, <1>6 DEF OneOrder
<1>9. AtWork'
  BY <1>1, <1>2, <1>3, <1>6 DEF AtWork, Calm, Alive
<1>10. FrameOf'
  BY <1>1, <1>2, <1>3, <1>6, <1>7 DEF FrameOf
<1>11. Answered'
  BY <1>1, <1>2, <1>6 DEF Answered
<1> QED BY <1>8, <1>9, <1>10, <1>11

LEMMA CountCalm ==
    ASSUME SinkInv, CalmInv, DataType, NEW c \in Callers, PhotoCount(c)
    PROVE  CalmInv'
<1> SUFFICES ASSUME calm'
             PROVE  OneOrder' /\ AtWork' /\ FrameOf' /\ Answered'
  BY DEF CalmInv
<1>1. /\ calm /\ pc[c] = "count"
      /\ pc' = [pc EXCEPT ![c] = "count_get"]
      /\ send_jpeg_cnt' = send_jpeg_cnt + 1 /\ get_jpeg_cnt' = get_jpeg_cnt
      /\ recv' = recv /\ out' = out /\ shot' = shot /\ orders' = orders + 1 /\ photos' = photos
      /\ g_video_run_' = g_video_run_
  BY DEF PhotoCount, Goto, jpeg, flags
<1>2. OneOrder /\ AtWork /\ FrameOf /\ Answered
  BY <1>1 DEF CalmInv
<1>3. /\ \A d \in Callers : pc'[d] = IF d = c THEN "count_get" ELSE pc[d]
      /\ pc'["send"] = pc["send"] /\ pc'["get"] = pc["get"]
      /\ c \in InPhoto /\ InPhoto' = InPhoto
  <2>1. /\ \A d \in Callers : pc'[d] = IF d = c THEN "count_get" ELSE pc[d]
        /\ pc'["send"] = pc["send"] /\ pc'["get"] = pc["get"]
        /\ InPhoto' = InPhoto \cup {c}
    BY <1>1, OrderMoves DEF InPhotoLabels
  <2>2. c \in InPhoto
    BY <1>1 DEF InPhoto
  <2> QED BY <2>1, <2>2
<1>4. \A d \in InPhoto : d = c
  BY <1>2, <1>3 DEF OneOrder
<1>5. send_jpeg_cnt = 0 /\ get_jpeg_cnt = 0
  BY <1>1, <1>2, <1>3 DEF OneOrder
<1>6. Started /\ ~Awaited /\ Awaited' /\ ~Started'
  <2>1. \A d \in Callers : d # c => pc[d] \notin InPhotoLabels
    BY <1>4 DEF InPhoto, InPhotoLabels
  <2> QED BY <2>1, <1>1, <1>3, <1>5 DEF Awaited, Started, InPhotoLabels
<1>7. OneOrder'
  <2>1. \A d \in Callers : pc'[d] \notin {"start", "count"}
    BY <1>3, <1>4 DEF InPhoto
  <2> QED BY <2>1, <1>1, <1>2, <1>3, <1>5, <1>6 DEF OneOrder
<1>8. AtWork'
  BY <1>1, <1>2, <1>3, <1>5, <1>6 DEF AtWork, Alive
<1>9. FrameOf'
  BY <1>1, <1>2, <1>3, <1>5, <1>6 DEF FrameOf, AtWork
<1>10. Answered'
  <2>1. orders \in Nat /\ orders' - 1 = orders /\ orders' > 0
    BY <1>1 DEF DataType
  <2> QED BY <2>1, <1>1, <1>2, <1>6 DEF Answered
<1> QED BY <1>7, <1>8, <1>9, <1>10

LEMMA CountGetCalm ==
    ASSUME SinkInv, CalmInv, DataType, NEW c \in Callers, PhotoCountGet(c)
    PROVE  CalmInv'
<1> SUFFICES ASSUME calm'
             PROVE  OneOrder' /\ AtWork' /\ FrameOf' /\ Answered'
  BY DEF CalmInv
<1>1. PICK l \in {"idle", "sleep", "exit"} : pc' = [pc EXCEPT ![c] = l]
  BY DEF PhotoCountGet, Done, Goto
<1>2. /\ calm /\ pc[c] = "count_get"
      /\ send_jpeg_cnt' = send_jpeg_cnt /\ get_jpeg_cnt' = get_jpeg_cnt + 1
      /\ recv' = recv /\ out' = out /\ shot' = shot /\ orders' = orders /\ photos' = photos
      /\ g_video_run_' = g_video_run_
  BY DEF PhotoCountGet, jpeg, flags, history
<1>3. OneOrder /\ AtWork /\ FrameOf /\ Answered
  BY <1>2 DEF CalmInv
<1>4. /\ \A d \in Callers : pc'[d] = IF d = c THEN l ELSE pc[d]
      /\ pc'["send"] = pc["send"] /\ pc'["get"] = pc["get"]
      /\ c \in InPhoto /\ InPhoto' = InPhoto \ {c}
  BY <1>1, <1>2, OrderMoves DEF InPhotoLabels, InPhoto
<1>5. InPhoto' = {} /\ get_jpeg_cnt = 0 /\ get_jpeg_cnt' = 1
  BY <1>2, <1>3, <1>4 DEF OneOrder
<1>6. Awaited /\ Awaited' /\ ~Started'
  BY <1>2, <1>5 DEF Awaited, Started, InPhoto
<1>7. OneOrder'
  <2>1. \A d \in Callers : pc'[d] \notin {"start", "count"}
    BY <1>5 DEF InPhoto
  <2> QED BY <2>1, <1>2, <1>3, <1>5, <1>6 DEF OneOrder
<1>8. AtWork'
  BY <1>2, <1>3, <1>4, <1>5, <1>6 DEF AtWork, Alive
<1>9. FrameOf'
  BY <1>2, <1>3, <1>4, <1>6 DEF FrameOf
<1>10. Answered'
  BY <1>2, <1>3, <1>6 DEF Answered
<1> QED BY <1>7, <1>8, <1>9, <1>10

(* The steps of the photo threads.                                         *)
LEMMA PhotoThreadMoves ==
    ASSUME SinkInv, NEW w \in {"send", "get"}, NEW l, pc' = [pc EXCEPT ![w] = l]
    PROVE  /\ pc'["send"] = IF w = "send" THEN l ELSE pc["send"]
           /\ pc'["get"] = IF w = "get" THEN l ELSE pc["get"]
           /\ \A c \in Callers : pc'[c] = pc[c]
           /\ InPhoto' = InPhoto /\ (Started' <=> Started)
           /\ get_jpeg_cnt' = get_jpeg_cnt => (Awaited' <=> Awaited)
<1>1. /\ pc'["send"] = IF w = "send" THEN l ELSE pc["send"]
      /\ pc'["get"] = IF w = "get" THEN l ELSE pc["get"]
  BY CallersAre DEF SinkInv, SinkType
<1>2. \A c \in Callers : pc'[c] = pc[c]
  BY CallersAre DEF SinkInv, SinkType
<1>3. InPhoto' = InPhoto /\ (Started' <=> Started)
  BY <1>2 DEF InPhoto, Started
<1>4. get_jpeg_cnt' = get_jpeg_cnt => (Awaited' <=> Awaited)
  BY <1>2 DEF Awaited
<1> QED BY <1>1, <1>2, <1>3, <1>4

(* A photo thread is at rest, and no order is under way.                   *)
LEMMA RestCalm ==
    ASSUME SinkInv, CalmInv, calm, ~Started, ~Awaited,
           NEW w \in {"send", "get"}, NEW l, pc' = [pc EXCEPT ![w] = l],
           l \notin {"grab", "resized", "wait"},
           UNCHANGED <<counters, orders, photos>>, out' \in {out, << >>}
    PROVE  CalmInv'
<1>1. OneOrder /\ AtWork /\ FrameOf /\ Answered
  BY DEF CalmInv
<1>2. /\ pc'["send"] = IF w = "send" THEN l ELSE pc["send"]
      /\ pc'["get"] = IF w = "get" THEN l ELSE pc["get"]
      /\ \A c \in Callers : pc'[c] = pc[c]
      /\ InPhoto' = InPhoto
  BY PhotoThreadMoves
<1>3. ~Started' /\ ~Awaited'
  BY PhotoThreadMoves DEF counters
<1>4. /\ send_jpeg_cnt' = send_jpeg_cnt /\ get_jpeg_cnt' = get_jpeg_cnt /\ send_jpeg_cnt = 0
      /\ orders' = orders /\ photos' = photos /\ out = << >> /\ out' = << >>
  BY <1>1 DEF counters, OneOrder, FrameOf
<1>5. OneOrder'
  BY <1>1, <1>2, <1>3, <1>4 DEF OneOrder
<1>6. AtWork'
  BY <1>1, <1>2, <1>3, <1>4 DEF AtWork
<1>7. FrameOf'
  BY <1>1, <1>2, <1>3, <1>4 DEF FrameOf, AtWork
<1>8. Answered'
  BY <1>1, <1>3, <1>4 DEF Answered
<1> QED BY <1>5, <1>6, <1>7, <1>8 DEF CalmInv

(* A photo thread goes on with the order.                                  *)
LEMMA SendTestCalm ==
    ASSUME SinkInv, CalmInv, SendTest
    PROVE  CalmInv'
<1> SUFFICES ASSUME calm'
             PROVE  CalmInv'
  BY DEF CalmInv
<1>1. /\ calm /\ pc["send"] = "sleep" /\ g_video_run_' = g_video_run_
      /\ UNCHANGED <<send_jpeg_cnt, get_jpeg_cnt, recv, out, shot, orders, photos>>
  BY DEF SendTest, history, counters, jpeg, flags
<1>2. OneOrder /\ AtWork /\ FrameOf /\ Answered
  BY <1>1 DEF CalmInv
<1>3. CASE ~g_video_run_ /\ Goto("send", "exit")
  <2>1. ~Started /\ ~Awaited
    BY <1>2, <1>3 DEF AtWork
  <2> QED BY <1>1, <1>3, <2>1, RestCalm DEF Goto, counters
<1>4. CASE g_video_run_ /\ Pending(send_jpeg_cnt) /\ Goto("send", "grab")
  <2>1. /\ pc'["send"] = "grab" /\ pc'["get"] = pc["get"]
        /\ \A c \in Callers : pc'[c] = pc[c]
        /\ InPhoto' = InPhoto /\ (Started' <=> Started) /\ (Awaited' <=> Awaited)
    BY <1>1, <1>4, PhotoThreadMoves DEF Goto
  <2>2. send_jpeg_cnt = 1
    BY <1>2, <1>4 DEF Pending, OneOrder
  <2>3. OneOrder'
    BY <1>1, <1>2, <2>1 DEF OneOrder
  <2>4. AtWork'
    BY <1>1, <1>2, <2>1, <2>2 DEF AtWork, Alive
  <2>5. FrameOf' /\ Answered'
    BY <1>1, <1>2, <2>1 DEF FrameOf, Answered
  <2> QED BY <2>3, <2>4, <2>5 DEF CalmInv
<1> QED BY <1>3, <1>4 DEF SendTest

LEMMA GrabCalm ==
    ASSUME SinkInv, CalmInv, Grab
    PROVE  CalmInv'
<1> SUFFICES ASSUME calm'
             PROVE  CalmInv'
  BY DEF CalmInv
<1>1. /\ calm /\ pc["send"] = "grab" /\ g_video_run_' = g_video_run_ /\ shot' = orders
      /\ pc' = [pc EXCEPT !["send"] = "resized"]
      /\ UNCHANGED <<send_jpeg_cnt, get_jpeg_cnt, recv, out, orders, photos>>
  BY DEF Grab, Goto, history, counters, flags
<1>2. OneOrder /\ AtWork /\ FrameOf /\ Answered
  BY <1>1 DEF CalmInv
<1>3. /\ pc'["send"] = "resized" /\ pc'["get"] = pc["get"]
      /\ \A c \in Callers : pc'[c] = pc[c]
      /\ InPhoto' = InPhoto /\ (Started' <=> Started) /\ (Awaited' <=> Awaited)
  BY <1>1, PhotoThreadMoves
<1>4. OneOrder'
  BY <1>1, <1>2, <1>3 DEF OneOrder
<1>5. AtWork'
  BY <1>1, <1>2, <1>3 DEF AtWork, Alive
<1>6. FrameOf' /\ Answered'
  BY <1>1, <1>2, <1>3 DEF FrameOf, Answered
<1> QED BY <1>4, <1>5, <1>6 DEF CalmInv

LEMMA ResizeFailsCalm ==
    ASSUME SinkInv, CalmInv, ResizeFails
    PROVE  CalmInv'
<1> SUFFICES ASSUME calm'
             PROVE  CalmInv'
  BY DEF CalmInv
<1>1. /\ calm /\ pc["send"] = "resized" /\ g_video_run_' = g_video_run_
      /\ UNCHANGED <<send_jpeg_cnt, get_jpeg_cnt, recv, out, orders, photos>>
  BY DEF ResizeFails, history, counters, flags
<1>2. OneOrder /\ AtWork /\ FrameOf /\ Answered
  BY <1>1 DEF CalmInv
<1>3. send_jpeg_cnt = 1 /\ Awaited /\ g_video_run_
  BY <1>1, <1>2 DEF AtWork, OneOrder
<1>4. pc' = [pc EXCEPT !["send"] = "sleep"]
  BY <1>3, VideoAssumption DEF ResizeFails, Loop, Goto, Running, Streams
<1>5. /\ pc'["send"] = "sleep" /\ pc'["get"] = pc["get"]
      /\ \A c \in Callers : pc'[c] = pc[c]
      /\ InPhoto' = InPhoto /\ (Started' <=> Started) /\ (Awaited' <=> Awaited)
  BY <1>1, <1>4, PhotoThreadMoves
<1>6. OneOrder'
  BY <1>1, <1>2, <1>5 DEF OneOrder
<1>7. AtWork'
  BY <1>1, <1>2, <1>5 DEF AtWork, Alive
<1>8. FrameOf' /\ Answered'
  BY <1>1, <1>2, <1>5 DEF FrameOf, Answered
<1> QED BY <1>6, <1>7, <1>8 DEF CalmInv

(* The encoder gets the frame of the order, and nothing else is in it.     *)
LEMMA SendFrameCalm ==
    ASSUME SinkInv, PlanInv, CalmInv, SendFrame
    PROVE  CalmInv'
<1> SUFFICES ASSUME calm'
             PROVE  CalmInv'
  BY DEF CalmInv
<1>1. /\ calm /\ pc["send"] = "resized" /\ g_video_run_' = g_video_run_
      /\ send_jpeg_cnt' = send_jpeg_cnt - 1
      /\ UNCHANGED <<get_jpeg_cnt, orders, photos>>
  BY DEF SendFrame, Counted, history, flags
<1>2. OneOrder /\ AtWork /\ FrameOf /\ Answered
  BY <1>1 DEF CalmInv
<1>3. send_jpeg_cnt = 1 /\ Awaited /\ g_video_run_ /\ recv = 1 /\ out = << >> /\ shot = orders
  BY <1>1, <1>2 DEF AtWork, OneOrder, FrameOf
<1>4. pc' = [pc EXCEPT !["send"] = "sleep"]
  BY <1>3, VideoAssumption DEF SendFrame, Counted, Loop, Goto, Running, Streams
<1>5. /\ pc'["send"] = "sleep" /\ pc'["get"] = pc["get"]
      /\ \A c \in Callers : pc'[c] = pc[c]
      /\ InPhoto' = InPhoto /\ (Started' <=> Started) /\ (Awaited' <=> Awaited)
  BY <1>1, <1>4, PhotoThreadMoves
<1>6. chan["jpeg"]
  BY <1>1 DEF PlanInv, ChannelInv
<1>7. out' = <<orders>>
  <2>1. out' = Append(out, shot)
    BY <1>3, <1>6 DEF SendFrame
  <2> QED BY <2>1, <1>3
<1>8. ~Started /\ send_jpeg_cnt' = 0
  BY <1>1, <1>2, <1>3 DEF Started, OneOrder
<1>9. OneOrder'
  BY <1>1, <1>2, <1>5, <1>8 DEF OneOrder
<1>10. AtWork'
  BY <1>1, <1>2, <1>5 DEF AtWork, Alive
<1>11. FrameOf'
  BY <1>1, <1>3, <1>5, <1>7, <1>8 DEF FrameOf
<1>12. Answered'
  BY <1>1, <1>2, <1>5 DEF Answered
<1> QED BY <1>9, <1>10, <1>11, <1>12 DEF CalmInv

(* The wait for the first frame has timed out: an order that was begun in  *)
(* it still has its frame to come.                                         *)
LEMMA GetFirstCalm ==
    ASSUME SinkInv, CalmInv, GetFirst
    PROVE  CalmInv'
<1> SUFFICES ASSUME calm'
             PROVE  CalmInv'
  BY DEF CalmInv
<1>1. /\ calm /\ pc["get"] = "first" /\ g_video_run_' = g_video_run_
      /\ UNCHANGED <<send_jpeg_cnt, get_jpeg_cnt, recv, out, shot, orders, photos>>
  BY DEF GetFirst, GetTimesOut, counters, flags
<1>2. OneOrder /\ AtWork /\ FrameOf /\ Answered
  BY <1>1 DEF CalmInv
<1>3. CASE ~g_video_run_
  <2>1. ~Started /\ ~Awaited
    BY <1>2, <1>3 DEF AtWork
  <2>2. pc' = [pc EXCEPT !["get"] = "exit"]
    BY <1>3, VideoAssumption DEF GetFirst, Loop, Goto, Running, Streams
  <2> QED BY <1>1, <2>1, <2>2, RestCalm DEF counters
<1>4. CASE g_video_run_
  <2>1. pc' = [pc EXCEPT !["get"] = "sleep"]
    BY <1>4, VideoAssumption DEF GetFirst, Loop, Goto, Running, Streams
  <2>2. /\ pc'["get"] = "sleep" /\ pc'["send"] = pc["send"]
        /\ \A c \in Callers : pc'[c] = pc[c]
        /\ InPhoto' = InPhoto /\ (Started' <=> Started) /\ (Awaited' <=> Awaited)
    BY <1>1, <2>1, PhotoThreadMoves
  <2>3. OneOrder'
    BY <1>1, <1>2, <2>2 DEF OneOrder
  <2>4. AtWork'
    BY <1>1, <1>2, <2>2 DEF AtWork, Alive
  <2>5. FrameOf' /\ Answered'
    BY <1>1, <1>2, <2>2 DEF FrameOf, Answered
  <2> QED BY <2>3, <2>4, <2>5 DEF CalmInv
<1> QED BY <1>3, <1>4

LEMMA GetStopCalm ==
    ASSUME SinkInv, CalmInv, GetStop
    PROVE  CalmInv'
<1> SUFFICES ASSUME calm'
             PROVE  CalmInv'
  BY DEF CalmInv
<1>1. /\ calm /\ pc["get"] = "stop"
      /\ UNCHANGED <<send_jpeg_cnt, get_jpeg_cnt, orders, photos, out>>
  BY DEF GetStop, history, counters
<1>2. OneOrder /\ AtWork /\ FrameOf /\ Answered
  BY <1>1 DEF CalmInv
<1>3. ~Started /\ ~Awaited
  BY <1>1, <1>2 DEF AtWork
<1>4. PICK l \in {"sleep", "exit"} : pc' = [pc EXCEPT !["get"] = l]
  BY DEF GetStop, Loop, Goto
<1> QED BY <1>1, <1>3, <1>4, RestCalm DEF counters

LEMMA GetTestCalm ==
    ASSUME SinkInv, CalmInv, GetTest
    PROVE  CalmInv'
<1> SUFFICES ASSUME calm'
             PROVE  CalmInv'
  BY DEF CalmInv
<1>1. /\ calm /\ pc["get"] = "sleep" /\ g_video_run_' = g_video_run_
      /\ UNCHANGED <<send_jpeg_cnt, get_jpeg_cnt, recv, out, shot, orders, photos>>
  BY DEF GetTest, history, counters, jpeg, flags
<1>2. OneOrder /\ AtWork /\ FrameOf /\ Answered
  BY <1>1 DEF CalmInv
<1>3. CASE ~g_video_run_ /\ Goto("get", "exit")
  <2>1. ~Started /\ ~Awaited
    BY <1>2, <1>3 DEF AtWork
  <2> QED BY <1>1, <1>3, <2>1, RestCalm DEF Goto, counters
<1>4. CASE g_video_run_ /\ Pending(get_jpeg_cnt) /\ Goto("get", "wait")
  <2>1. /\ pc'["get"] = "wait" /\ pc'["send"] = pc["send"]
        /\ \A c \in Callers : pc'[c] = pc[c]
        /\ InPhoto' = InPhoto /\ (Started' <=> Started) /\ (Awaited' <=> Awaited)
    BY <1>1, <1>4, PhotoThreadMoves DEF Goto
  <2>2. get_jpeg_cnt = 1
    BY <1>2, <1>4 DEF Pending, OneOrder
  <2>3. OneOrder'
    BY <1>1, <1>2, <2>1 DEF OneOrder
  <2>4. AtWork'
    BY <1>1, <1>2, <2>1, <2>2 DEF AtWork, Alive
  <2>5. FrameOf' /\ Answered'
    BY <1>1, <1>2, <2>1 DEF FrameOf, Answered
  <2> QED BY <2>3, <2>4, <2>5 DEF CalmInv
<1> QED BY <1>3, <1>4 DEF GetTest

(* The photo is the one of this order: the get thread gives up only on an  *)
(* order that the send thread is still serving.                            *)
LEMMA GetPhotoCalm ==
    ASSUME SinkInv, PlanInv, CalmInv, GetPhoto
    PROVE  CalmInv'
<1> SUFFICES ASSUME calm'
             PROVE  CalmInv'
  BY DEF CalmInv
<1>1. /\ calm /\ pc["get"] = "wait" /\ g_video_run_' = g_video_run_
      /\ pc' = [pc EXCEPT !["get"] = "stop"]
      /\ get_jpeg_cnt' = get_jpeg_cnt - 1
      /\ UNCHANGED <<send_jpeg_cnt, recv, shot, orders>>
  BY DEF GetPhoto, TakePhoto, GetTimesOut, Goto, flags
<1>2. OneOrder /\ AtWork /\ FrameOf /\ Answered
  BY <1>1 DEF CalmInv
<1>3. get_jpeg_cnt = 1 /\ Awaited /\ Alive("send") /\ InPhoto = {}
  BY <1>1, <1>2 DEF AtWork, Awaited, OneOrder
<1>4. /\ pc'["get"] = "stop" /\ pc'["send"] = pc["send"]
      /\ \A c \in Callers : pc'[c] = pc[c]
      /\ InPhoto' = InPhoto
  BY <1>1, PhotoThreadMoves
<1>5. out # << >>
  <2> SUFFICES ASSUME out = << >>
               PROVE  FALSE
    OBVIOUS
  <2>1. send_jpeg_cnt = 1
    <3>1. send_jpeg_cnt = 0 => out = <<orders>>
      BY <1>2, <1>3 DEF FrameOf
    <3> QED BY <3>1, <1>2 DEF OneOrder
  <2>2. Serving
    BY <1>3, <2>1 DEF Serving, Alive
  <2> QED BY <2>2 DEF GetPhoto, TakePhoto, GetTimesOut
<1>6. send_jpeg_cnt = 0 /\ out = <<orders>>
  BY <1>2, <1>3, <1>5 DEF FrameOf, OneOrder
<1>7. out' = << >> /\ photos' = Append(photos, orders)
  <2>1. out' = Tail(out) /\ photos' = Append(photos, Head(out))
    BY <1>5 DEF GetPhoto, TakePhoto
  <2> QED BY <2>1, <1>6
<1>8. get_jpeg_cnt' = 0 /\ send_jpeg_cnt' = 0
  BY <1>1, <1>3, <1>6
<1>9. ~Started' /\ ~Awaited'
  BY <1>3, <1>4, <1>8 DEF Started, Awaited, InPhoto
<1>10. OneOrder'
  BY <1>1, <1>2, <1>3, <1>4, <1>8 DEF OneOrder, InPhoto
<1>11. AtWork'
  BY <1>1, <1>2, <1>4, <1>6, <1>8, <1>9 DEF AtWork
<1>12. FrameOf'
  BY <1>1, <1>2, <1>4, <1>6, <1>7, <1>8, <1>9 DEF FrameOf, AtWork
<1>13. Answered'
  <2>1. orders \in Nat /\ orders > 0 /\ photos = [i \in 1 .. orders - 1 |-> i]
    BY <1>2, <1>3 DEF Answered, PlanInv, DataType
  <2>2. photos' = [i \in 1 .. orders |-> i]
    BY <2>1, <1>7
  <2> QED BY <2>2, <1>1, <1>9 DEF Answered
<1> QED BY <1>10, <1>11, <1>12, <1>13 DEF CalmInv

(* The steps of the controller.                                            *)
LEMMA DisturbCalm ==
    ASSUME CalmInv, Disturbs, UNCHANGED <<pc, jpeg, orders, photos>>,
           send_jpeg_cnt' \in {send_jpeg_cnt, 0}, get_jpeg_cnt' \in {get_jpeg_cnt, 0}
    PROVE  CalmInv'
<1> SUFFICES ASSUME calm'
             PROVE  CalmInv'
  BY DEF CalmInv
<1>1. /\ calm /\ send_jpeg_cnt = 0 /\ get_jpeg_cnt = 0 /\ InPhoto = {}
      /\ send_jpeg_cnt' = 0 /\ get_jpeg_cnt' = 0 /\ InPhoto' = {}
      /\ UNCHANGED <<pc, recv, out, shot, orders, photos>>
  BY DEF Disturbs, InPhoto, jpeg
<1>2. OneOrder /\ AtWork /\ FrameOf /\ Answered
  BY <1>1 DEF CalmInv
<1>3. ~Started /\ ~Awaited /\ ~Started' /\ ~Awaited'
  BY <1>1 DEF Started, Awaited, InPhoto
<1>4. OneOrder'
  BY <1>1, <1>2, <1>3 DEF OneOrder, InPhoto
<1>5. AtWork'
  BY <1>1, <1>2, <1>3 DEF AtWork
<1>6. FrameOf' /\ Answered'
  BY <1>1, <1>2, <1>3 DEF FrameOf, Answered
<1> QED BY <1>4, <1>5, <1>6 DEF CalmInv

LEMMA NooneMoves ==
    ASSUME pc' = pc
    PROVE  OrdersStay
BY DEF OrdersStay

LEMMA FlagCalm ==
    ASSUME CalmInv, SetRun \/ Zero
    PROVE  CalmInv'
<1>1. UNCHANGED <<pc, jpeg, orders, photos>>
  BY DEF SetRun, Zero
<1>2. CASE Disturbs
  <2>1. send_jpeg_cnt' \in {send_jpeg_cnt, 0} /\ get_jpeg_cnt' \in {get_jpeg_cnt, 0}
    BY DEF SetRun, Zero, counters
  <2> QED BY <1>1, <1>2, <2>1, DisturbCalm
<1>3. CASE ~Disturbs
  <2>1. UNCHANGED <<counters, calm>> /\ (g_video_run_ => g_video_run_')
    BY <1>3 DEF SetRun, Zero
  <2> QED BY <1>1, <2>1, NooneMoves, QuietCalm
<1> QED BY <1>2, <1>3

LEMMA ControlCalm ==
    ASSUME CalmInv,
           \/ SetSink \/ SetCycle \/ Ready \/ Restart \/ Shutdown
           \/ \E value \in BOOLEAN : rk_video_set_enable_cycle_snapshot(value)
    PROVE  CalmInv'
<1>1. UNCHANGED <<pc, counters, jpeg, orders, photos, g_video_run_, calm>>
  BY DEF SetSink, SetCycle, Ready, Restart, Shutdown, rk_video_set_enable_cycle_snapshot, flags, history
<1> QED BY <1>1, NooneMoves, QuietCalm

(* A thread is joined or created: a photo thread only when no order is     *)
(* under way.                                                              *)
LEMMA ThreadCalm ==
    ASSUME SinkInv, PlanInv, CalmInv, FinishThread \/ StartThread
    PROVE  CalmInv'
<1> SUFFICES ASSUME calm'
             PROVE  CalmInv'
  BY DEF CalmInv
<1>1. PICK w \in Workers : Of = w
  BY StepForms, StepPlan DEF FinishThread, StartThread, AtOp, Of
<1>2. pc[w] \in {"none", "exit"}
  BY <1>1, PlanPairs DEF FinishThread, StartThread, ThreadsPaired
<1>3. PICK l \in {"none", "exit", "get", "sleep", "first"} : pc' = [pc EXCEPT ![w] = l]
  <2>1. CASE FinishThread
    BY <2>1, <1>1 DEF FinishThread, Goto
  <2>2. CASE StartThread
    <3>1. CASE w \in Streams
      BY <2>2, <3>1, <1>1 DEF StartThread, Loop, Goto
    <3>2. CASE w \in {"send", "get"}
      BY <2>2, <3>2, <1>1, ChannelsOf DEF StartThread, Goto
    <3>3. CASE w = "cycle"
      BY <2>2, <3>3, <1>1, WorkersAre, ChannelsOf DEF StartThread, Done, Goto
    <3> QED BY <3>1, <3>2, <3>3, WorkersAre
  <2> QED BY <2>1, <2>2
<1>4. /\ UNCHANGED <<counters, shot, orders, photos, g_video_run_>> /\ calm' = calm
      /\ out' \in {out, << >>} /\ (w # "get" => UNCHANGED jpeg)
  BY <1>1 DEF FinishThread, StartThread, SetChannels, history, flags, jpeg
<1>5. CASE w \in {"send", "get"}
  <2>1. ~Started /\ ~Awaited
    BY <1>2, <1>4, <1>5 DEF CalmInv, AtWork, Alive
  <2> QED BY <1>3, <1>4, <1>5, <2>1, RestCalm
<1>6. CASE w \notin {"send", "get"}
  <2>1. /\ pc'["send"] = pc["send"] /\ pc'["get"] = pc["get"]
        /\ \A c \in Callers : pc'[c] = IF c = w THEN l ELSE pc[c]
    BY <1>3, <1>6, CallersAre DEF SinkInv, SinkType
  <2>2. OrdersStay
    BY <1>2, <2>1 DEF OrdersStay, InPhotoLabels
  <2> QED BY <1>4, <1>6, <2>2, QuietCalm
<1> QED BY <1>5, <1>6

LEMMA NextCalm ==
    ASSUME SinkInv, PlanInv, CalmInv, [Next]_vars
    PROVE  CalmInv'
<1>1. DataType
  BY DEF PlanInv
<1>2. ASSUME NEW c \in Callers, PhotoTest(c) \/ PhotoRefused(c) \/ PhotoStep(c)
      PROVE  CalmInv'
  BY <1>1, <1>2, TestCalm, RefusedCalm, StartCalm, CountCalm, CountGetCalm DEF PhotoStep
<1>3. ASSUME SendStep \/ ResizeFails
      PROVE  CalmInv'
  BY <1>3, SendTestCalm, GrabCalm, SendFrameCalm, ResizeFailsCalm DEF SendStep
<1>4. ASSUME GrabTimeout
      PROVE  CalmInv'
  BY <1>4 DEF GrabTimeout, CalmInv
<1>5. ASSUME GetStep
      PROVE  CalmInv'
  BY <1>5, GetFirstCalm, GetStopCalm, GetTestCalm, GetPhotoCalm DEF GetStep
<1>6. ASSUME UNCHANGED vars
      PROVE  CalmInv'
  <2>1. UNCHANGED <<pc, counters, jpeg, orders, photos, g_video_run_, calm>>
    BY <1>6 DEF vars, flags, history
  <2> QED BY <2>1, NooneMoves, QuietCalm
<1>7. ASSUME Control
      PROVE  CalmInv'
  BY <1>7, FlagCalm, ThreadCalm, ControlCalm DEF Control
<1> QED BY <1>2, <1>3, <1>4, <1>5, <1>6, <1>7, StreamCalm, ControlCalm DEF Next

LEMMA InitCalm == ASSUME Init PROVE CalmInv
<1>1. \A v \in Workers \cup Clients : pc[v] \in {"none", "idle"}
  BY DEF Init
<1>2. \A c \in Callers : pc[c] \in {"none", "idle"}
  BY <1>1, CallersAre
<1>3. pc["send"] \in {"none", "idle"} /\ pc["get"] \in {"none", "idle"}
  BY <1>1, CallersAre
<1>4. /\ send_jpeg_cnt = 0 /\ get_jpeg_cnt = 0 /\ out = << >> /\ recv = 0
      /\ orders = 0 /\ photos = << >>
  BY DEF Init
<1>5. InPhoto = {} /\ ~Started /\ ~Awaited
  BY <1>2, <1>4 DEF InPhoto, Started, Awaited
<1>6. OneOrder /\ AtWork /\ FrameOf
  BY <1>2, <1>3, <1>4, <1>5 DEF OneOrder, AtWork, FrameOf
<1>7. Answered
  BY <1>4, <1>5 DEF Answered
<1> QED BY <1>6, <1>7 DEF CalmInv

(* An accepted order is answered by exactly one photo on the card, of a    *)
(* frame taken after it (rk_take_photo, rkipc_get_vi_send_jpeg,            *)
(* rkipc_get_jpeg), while orders stay apart, no photo is dropped as the    *)
(* get thread's first frame, camera and encoder deliver in time and every  *)
(* file can be opened.                                                     *)
THEOREM OrdersAnswered == Spec => []EveryPhotoSaved
<1>1. Init => CalmInv
  BY InitCalm
<1>2. SinkInv /\ PlanInv /\ CalmInv /\ [Next]_vars => CalmInv'
  BY NextCalm
<1>3. CalmInv => EveryPhotoSaved
  BY DEF CalmInv, Answered, Awaited, InPhoto, EveryPhotoSaved
<1> QED BY <1>1, <1>2, <1>3, VideoInvariant, PTL DEF Spec
=============================================================================
