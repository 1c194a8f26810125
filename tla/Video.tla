-------------------------------- MODULE Video -------------------------------
(***************************************************************************)
(* The pipelines of the camera: rv1106_ipc/video/video.c with the audio    *)
(* module and the rtsp and rtmp outputs.                                   *)
(*                                                                         *)
(* Worker threads take frames from encoder channels: one per video stream  *)
(* and one for audio feed the outputs; "send", "get" and "cycle" make the  *)
(* photos.  A controller (main at boot and shutdown, a server thread at a  *)
(* restart) starts and stops them, one call at a time: overlapping calls   *)
(* join the same threads, which the code does not survive.  Photos are     *)
(* ordered at any time, by the cycle thread and by server threads, with    *)
(* two unlocked counters.                                                  *)
(*                                                                         *)
(* Left out: osd, detector and region parameters (called in between), and  *)
(* the recorder (module Recorder) that the same frames go to.              *)
(***************************************************************************)
EXTENDS Integers, SequencesExt

CONSTANTS
    Vencs,          \* the enabled video streams
    Vi,             \* the stream whose camera channel photos are taken from
    Audio,          \* the audio stream
    Sinks,          \* the enabled outputs
    Clients,        \* server threads that order photos
    None,           \* mutex not held
    MaxOrders, MaxRestarts, MaxGlitches, MaxDebt   \* bounds; MaxDebt of counters below 0

Streams == Vencs \cup {Audio}
Workers == Streams \cup {"send", "get", "cycle"}
Channels == Streams \cup {"jpeg"}
Callers == Clients \cup {"cycle"}

ASSUME VideoAssumption ==
    /\ Vi \in Vencs
    /\ Sinks \subseteq {"rtsp", "rtmp"} /\ IsFiniteSet(Vencs)
    /\ Audio \notin Vencs /\ None \notin Streams
    /\ Clients \cap Workers = {} /\ Streams \cap {"send", "get", "cycle", "jpeg"} = {}
    /\ MaxOrders \in Nat /\ MaxRestarts \in Nat /\ MaxGlitches \in Nat
    /\ MaxDebt \in Nat

VARIABLES
    g_video_run_, g_audio_run_,
    cycle_snapshot_flag,
    enable_cycle_snapshot,        \* the parameter
    send_jpeg_cnt, get_jpeg_cnt,
    chan,                         \* which channels exist
    recv, out,                    \* the jpeg encoder: frames it will take, photos ready
    open, mutex,                  \* per output: sessions exist; holder of its mutex
    pc,                           \* per worker and client; "none": no thread
    shot,                         \* the frame the send thread holds
    todo,                         \* the controller's next steps
    power,                        \* "boot", "up", "down"
    restarts, glitches,           \* counted against the bounds
    orders, photos, calm          \* history: see EveryPhotoSaved

flags == <<g_video_run_, g_audio_run_, cycle_snapshot_flag, enable_cycle_snapshot>>
counters == <<send_jpeg_cnt, get_jpeg_cnt>>
jpeg == <<recv, out, shot>>
sinks == <<open, mutex>>
control == <<todo, power, restarts>>
history == <<orders, photos, calm>>
vars == <<flags, counters, chan, jpeg, sinks, pc, control, glitches, history>>

(* Thread t goes to l.                                                     *)
Goto(t, l) == pc' = [pc EXCEPT ![t] = l]

(* The test at the head of a worker's loop.                                *)
Running(t) == IF t = Audio THEN g_audio_run_ ELSE g_video_run_
Loop(t, l) == Goto(t, IF Running(t) THEN l ELSE "exit")

-----------------------------------------------------------------------------
(* rkipc_get_venc_0, rkipc_get_venc_1, save_aenc_thread                    *)

(* A worker that transmits to an output.                                   *)
Tx(s) == IF s = "rtsp" THEN "rtsp_tx" ELSE "rtmp_tx"

(* The output a stream goes to next: audio goes to rtsp only.              *)
After(t, s) ==
    IF s = "rtsp" /\ t # Audio /\ "rtmp" \in Sinks THEN Goto(t, "rtmp") ELSE Loop(t, "get")

(* GetStream waits for a frame, or times out; then the flag is tested.     *)
GetTimeout(t) ==
    /\ pc[t] = "get"
    /\ ~Running(t)
    /\ Loop(t, "get")
    /\ UNCHANGED <<flags, counters, chan, jpeg, sinks, control, glitches, history>>

(* A stream that got a frame goes to rtsp first, if that is enabled.       *)
Offers(t, s) ==
    IF s = "rtmp" /\ "rtsp" \in Sinks THEN pc[t] = "rtmp"
    ELSE pc[t] = "get" /\ (s = "rtmp" => t # Audio)

(* Mutant: the session is not tested.                                      *)
WriteUntested(t, s) ==
    /\ Offers(t, s)
    /\ mutex[s] = None
    /\ mutex' = [mutex EXCEPT ![s] = t] /\ Goto(t, Tx(s))
    /\ UNCHANGED <<flags, counters, chan, jpeg, open, control, glitches, history>>

(* rkipc_rtsp_write_video_frame, rkipc_rtsp_write_audio_frame,             *)
(* rk_rtmp_write_video_frame: lock, test and transmit; unlock.             *)
WriteFrame(t, s) ==
    /\ Offers(t, s)
    /\ mutex[s] = None
    /\ IF open[s]
         THEN mutex' = [mutex EXCEPT ![s] = t] /\ Goto(t, Tx(s))
         ELSE After(t, s) /\ UNCHANGED mutex
    /\ UNCHANGED <<flags, counters, chan, jpeg, open, control, glitches, history>>

Written(t, s) ==
    /\ pc[t] = Tx(s)
    /\ mutex' = [mutex EXCEPT ![s] = None]
    /\ After(t, s)
    /\ UNCHANGED <<flags, counters, chan, jpeg, open, control, glitches, history>>

(* A stream of length 0 ends the audio thread, after its write like any    *)
(* other.                                                                  *)
Eos(t) ==
    /\ t = Audio /\ pc[t] = "get"
    /\ glitches < MaxGlitches /\ glitches' = glitches + 1
    /\ Goto(t, "exit")
    /\ UNCHANGED <<flags, counters, chan, jpeg, sinks, control, history>>

-----------------------------------------------------------------------------
(* rk_take_photo, by the cycle thread and by clients                       *)

(* rkipc_cycle_snapshot sleeps, then orders a photo.                       *)
Idle(c) == pc[c] = IF c = "cycle" THEN "sleep" ELSE "idle"
InPhoto == {c \in Callers : pc[c] \in {"start", "count", "count_get"}}
Done(c) == IF c = "cycle"
             THEN Goto(c, IF g_video_run_ /\ cycle_snapshot_flag THEN "sleep" ELSE "exit")
             ELSE Goto(c, "idle")

(* Refused because a photo is not completed, or no card is mounted.        *)
PhotoRefused(c) ==
    /\ Idle(c)
    /\ Done(c)
    /\ UNCHANGED <<flags, counters, chan, jpeg, sinks, control, glitches, history>>

PhotoTest(c) ==
    /\ Idle(c)
    /\ c \in Clients => power = "up"
    /\ orders + Cardinality(InPhoto) < MaxOrders
    /\ send_jpeg_cnt = 0 /\ get_jpeg_cnt = 0
    /\ calm' = (calm /\ InPhoto = {})
    /\ Goto(c, "start")
    /\ UNCHANGED <<flags, counters, chan, jpeg, sinks, control, glitches, orders, photos>>

(* The photo threads run, and no StopRecvFrame of the order before is due. *)
Calm ==
    /\ g_video_run_ /\ pc["send"] \notin {"none", "exit"}
    /\ pc["get"] \in {"first", "sleep"}

(* Mutant: the encoder takes frames without end, as for the video streams. *)
PhotoStartEndless(c) ==
    /\ pc[c] = "start"
    /\ recv' = IF chan["jpeg"] THEN -1 ELSE recv
    /\ calm' = (calm /\ Calm)
    /\ Goto(c, "count")
    /\ UNCHANGED <<flags, counters, chan, out, shot, sinks, control, glitches, orders, photos>>

(* RK_MPI_VENC_StartRecvFrame; an error is ignored.                        *)
PhotoStart(c) ==
    /\ pc[c] = "start"
    /\ recv' = IF chan["jpeg"] THEN 1 ELSE recv
    /\ calm' = (calm /\ Calm)
    /\ Goto(c, "count")
    /\ UNCHANGED <<flags, counters, chan, out, shot, sinks, control, glitches, orders, photos>>

PhotoCount(c) ==
    /\ pc[c] = "count"
    /\ send_jpeg_cnt' = send_jpeg_cnt + 1
    /\ orders' = orders + 1
    /\ Goto(c, "count_get")
    /\ UNCHANGED <<flags, get_jpeg_cnt, chan, jpeg, sinks, control, glitches, photos, calm>>

PhotoCountGet(c) ==
    /\ pc[c] = "count_get"
    /\ get_jpeg_cnt' = get_jpeg_cnt + 1
    /\ Done(c)
    /\ UNCHANGED <<flags, send_jpeg_cnt, chan, jpeg, sinks, control, glitches, history>>

-----------------------------------------------------------------------------
(* rkipc_get_vi_send_jpeg; shot is the number of orders when the camera    *)
(* frame was taken.                                                        *)

(* A counter below zero looks like an order, and goes on falling.          *)
Pending(cnt) == cnt # 0 /\ cnt > -MaxDebt

SendTest ==
    /\ pc["send"] = "sleep"
    /\ \/ ~g_video_run_ /\ Goto("send", "exit")
       \/ g_video_run_ /\ Pending(send_jpeg_cnt) /\ Goto("send", "grab")
    /\ UNCHANGED <<flags, counters, chan, jpeg, sinks, control, glitches, history>>

(* The end of the loop: the order is served, or given up.                  *)
Counted ==
    /\ send_jpeg_cnt' = send_jpeg_cnt - 1
    /\ Loop("send", "sleep")

(* RK_MPI_VI_GetChnFrame fails when the channel is disabled; a timeout is  *)
(* a glitch.                                                               *)
Grab ==
    /\ pc["send"] = "grab" /\ chan[Vi]
    /\ shot' = orders
    /\ Goto("send", "resized")
    /\ UNCHANGED <<flags, counters, chan, recv, out, sinks, control, glitches, history>>

GrabTimeout ==
    /\ pc["send"] = "grab"
    /\ chan[Vi] => glitches < MaxGlitches
    /\ glitches' = IF chan[Vi] THEN glitches + 1 ELSE glitches
    /\ calm' = FALSE
    /\ Counted
    /\ UNCHANGED <<flags, get_jpeg_cnt, chan, jpeg, sinks, control, orders, photos>>

(* Mutant: a failed resize is counted as a photo sent.                     *)
ResizeFailsCounted ==
    /\ pc["send"] = "resized" /\ glitches < MaxGlitches
    /\ glitches' = glitches + 1 /\ shot' = 0
    /\ Counted
    /\ UNCHANGED <<flags, get_jpeg_cnt, chan, recv, out, sinks, control, history>>

(* An error of the resizer: the loop starts again, and so does the photo.  *)
ResizeFails ==
    /\ pc["send"] = "resized" /\ glitches < MaxGlitches
    /\ glitches' = glitches + 1 /\ shot' = 0
    /\ Loop("send", "sleep")
    /\ UNCHANGED <<flags, counters, chan, recv, out, sinks, control, history>>

(* RK_MPI_VENC_SendFrame: refused unless the encoder takes frames.         *)
SendFrame ==
    /\ pc["send"] = "resized"
    /\ IF chan["jpeg"] /\ recv > 0
         THEN recv' = recv - 1 /\ out' = Append(out, shot)
         ELSE UNCHANGED <<recv, out>>
    /\ shot' = 0
    /\ Counted
    /\ UNCHANGED <<flags, get_jpeg_cnt, chan, sinks, control, glitches, history>>

-----------------------------------------------------------------------------
(* rkipc_get_jpeg                                                          *)

(* RK_MPI_VENC_GetStream waits for 1000 ms, in which the send thread       *)
(* serves an order (a photo that takes longer is a glitch).                *)
Serving == send_jpeg_cnt # 0 /\ pc["send"] \notin {"none", "exit"}
GetTimesOut ==
    \/ ~Serving /\ UNCHANGED <<glitches, calm>>
    \/ Serving /\ glitches < MaxGlitches /\ glitches' = glitches + 1 /\ calm' = FALSE

(* The first frame is dropped.  Frames are only made for orders: it is the *)
(* photo of one placed in the second after a boot or a restart.            *)
GetFirst ==
    /\ pc["get"] = "first"
    /\ \/ out # << >> /\ out' = Tail(out) /\ calm' = FALSE /\ UNCHANGED glitches
       \/ out = << >> /\ UNCHANGED out /\ GetTimesOut
    /\ Loop("get", "sleep")
    /\ UNCHANGED <<flags, counters, chan, recv, shot, sinks, control, orders, photos>>

GetTest ==
    /\ pc["get"] = "sleep"
    /\ \/ ~g_video_run_ /\ Goto("get", "exit")
       \/ g_video_run_ /\ Pending(get_jpeg_cnt) /\ Goto("get", "wait")
    /\ UNCHANGED <<flags, counters, chan, jpeg, sinks, control, glitches, history>>

(* The photo is saved; or fopen fails and it is lost; or nothing comes     *)
(* before the timeout.                                                     *)
TakePhoto ==
    \/ out # << >> /\ out' = Tail(out) /\ photos' = Append(photos, Head(out))
       /\ UNCHANGED <<glitches, calm>>
    \/ out # << >> /\ out' = Tail(out) /\ UNCHANGED photos
       /\ glitches < MaxGlitches /\ glitches' = glitches + 1 /\ calm' = FALSE
    \/ out = << >> /\ GetTimesOut /\ UNCHANGED <<out, photos>>

(* Mutant: an order whose photo timed out is kept.                         *)
GetPhotoOrKeep ==
    /\ pc["get"] = "wait"
    /\ TakePhoto
    /\ get_jpeg_cnt' = IF out # << >> THEN get_jpeg_cnt - 1 ELSE get_jpeg_cnt
    /\ Goto("get", "stop")
    /\ UNCHANGED <<flags, send_jpeg_cnt, chan, recv, shot, sinks, control, orders>>

(* The order is served, or given up.                                       *)
GetPhoto ==
    /\ pc["get"] = "wait"
    /\ TakePhoto
    /\ get_jpeg_cnt' = get_jpeg_cnt - 1
    /\ Goto("get", "stop")
    /\ UNCHANGED <<flags, send_jpeg_cnt, chan, recv, shot, sinks, control, orders>>

(* RK_MPI_VENC_StopRecvFrame                                               *)
GetStop ==
    /\ pc["get"] = "stop"
    /\ recv' = 0
    /\ Loop("get", "sleep")
    /\ UNCHANGED <<flags, counters, chan, out, shot, sinks, control, glitches, history>>

-----------------------------------------------------------------------------
(* The controller: a call is a sequence of steps.                          *)

Op(o, w) == [op |-> o, of |-> w]
Each(o, S) == LET q == SetToSeq(S) IN [i \in DOMAIN q |-> Op(o, q[i])]

OpenSinks == Each("sink_open", Sinks)
CloseSinks == Each("sink_close", Sinks)

(* Mutant: the audio thread is not told to end.                            *)
AudioDeinitRunning == <<Op("finish", Audio)>>

rkipc_audio_deinit == <<Op("audio_stop", Audio), Op("finish", Audio)>>
rkipc_audio_init == <<Op("start", Audio)>>

rkipc_pipe_jpeg_deinit == <<Op("cycle_off", "cycle"), Op("finish", "send"), Op("finish", "get")>>
rkipc_pipe_jpeg_init == <<Op("start", "get"), Op("start", "send"), Op("cycle_on", "cycle")>>

rk_video_deinit ==
    <<Op("video_stop", Vi)>> \o Each("finish", Vencs) \o rkipc_pipe_jpeg_deinit
    \o CloseSinks

(* Mutant: g_video_run_ is not set again.                                  *)
VideoInitStopped ==
    OpenSinks \o Each("start", Vencs) \o rkipc_pipe_jpeg_init

rk_video_init ==
    <<Op("video_run", Vi)>> \o OpenSinks \o Each("start", Vencs) \o rkipc_pipe_jpeg_init

(* The initial values, and the calls main makes.                           *)
Init ==
    /\ g_video_run_ = TRUE /\ g_audio_run_ = TRUE
    /\ cycle_snapshot_flag = FALSE /\ enable_cycle_snapshot \in BOOLEAN
    /\ send_jpeg_cnt = 0 /\ get_jpeg_cnt = 0
    /\ chan = [c \in Channels |-> FALSE]
    /\ recv = 0 /\ out = << >> /\ shot = 0
    /\ open = [s \in Sinks |-> FALSE] /\ mutex = [s \in Sinks |-> None]
    /\ pc = [t \in Workers \cup Clients |-> IF t \in Clients THEN "idle" ELSE "none"]
    /\ todo = rk_video_init \o rkipc_audio_init
    /\ power = "boot"
    /\ restarts = 0 /\ glitches = 0
    /\ orders = 0 /\ photos = << >> /\ calm = TRUE

AtOp(o) == todo # << >> /\ Head(todo).op = o
Of == Head(todo).of
Step == todo' = Tail(todo) /\ UNCHANGED <<power, restarts>>

(* An order that is under way when its threads stop may be lost.           *)
Disturbs == calm' = (calm /\ send_jpeg_cnt = 0 /\ get_jpeg_cnt = 0 /\ InPhoto = {})

SetRun ==
    /\ \/ AtOp("video_stop") /\ g_video_run_' = FALSE /\ Disturbs /\ UNCHANGED g_audio_run_
       \/ AtOp("video_run") /\ g_video_run_' = TRUE /\ UNCHANGED <<g_audio_run_, calm>>
       \/ AtOp("audio_stop") /\ g_audio_run_' = FALSE /\ UNCHANGED <<g_video_run_, calm>>
    /\ Step
    /\ UNCHANGED <<cycle_snapshot_flag, enable_cycle_snapshot, counters, chan, jpeg, sinks, pc,
                   glitches, orders, photos>>

(* The channel a thread works on; the jpeg encoder belongs to "get".       *)
ChannelOf(w) == CASE w \in Streams -> {w} [] w = "get" -> {"jpeg"} [] OTHER -> {}

SetChannels(w, b) ==
    /\ chan' = [c \in Channels |-> IF c \in ChannelOf(w) THEN b ELSE chan[c]]
    /\ IF w = "get" THEN recv' = (IF b THEN 1 ELSE 0) /\ out' = << >>
                    ELSE UNCHANGED <<recv, out>>

(* Mutant: the thread is not waited for.                                   *)
FinishAtOnce ==
    /\ AtOp("finish")
    /\ UNCHANGED pc
    /\ SetChannels(Of, FALSE)
    /\ Step
    /\ UNCHANGED <<flags, counters, shot, sinks, glitches, history>>

(* pthread_join, then the channel is destroyed.                            *)
FinishThread ==
    /\ AtOp("finish")
    /\ pc[Of] = "exit"
    /\ Goto(Of, "none")
    /\ SetChannels(Of, FALSE)
    /\ Step
    /\ UNCHANGED <<flags, counters, shot, sinks, glitches, history>>

(* The channel is created, then the thread, which tests its flag.          *)
StartThread ==
    /\ AtOp("start")
    /\ CASE Of \in Streams -> Loop(Of, "get")
         [] Of = "send" -> Goto(Of, "sleep")
         [] Of = "get" -> Goto(Of, "first")
         [] OTHER -> Done("cycle")
    /\ SetChannels(Of, TRUE)
    /\ Step
    /\ UNCHANGED <<flags, counters, shot, sinks, glitches, history>>

(* rkipc_rtsp_init, rk_rtmp_init and the deinits lock the output's mutex.  *)
SetSink ==
    /\ AtOp("sink_open") \/ AtOp("sink_close")
    /\ mutex[Of] = None
    /\ open' = [open EXCEPT ![Of] = AtOp("sink_open")]
    /\ Step
    /\ UNCHANGED <<flags, counters, chan, jpeg, mutex, pc, glitches, history>>

(* Mutant: the cycle thread is started and joined whatever the parameter.  *)
SetCycleAlways ==
    /\ AtOp("cycle_on") \/ AtOp("cycle_off")
    /\ cycle_snapshot_flag' = AtOp("cycle_on")
    /\ todo' = <<Op(IF AtOp("cycle_off") THEN "finish" ELSE "start", "cycle")>> \o Tail(todo)
    /\ UNCHANGED <<g_video_run_, g_audio_run_, enable_cycle_snapshot, counters, chan, jpeg, sinks,
                   pc, power, restarts, glitches, history>>

(* The cycle thread follows the parameter, not the flag.                   *)
SetCycle ==
    /\ AtOp("cycle_on") \/ AtOp("cycle_off")
    /\ IF enable_cycle_snapshot
         THEN /\ cycle_snapshot_flag' = AtOp("cycle_on")
              /\ todo' = <<Op(IF AtOp("cycle_on") THEN "start" ELSE "finish", "cycle")>> \o Tail(todo)
         ELSE todo' = Tail(todo) /\ UNCHANGED cycle_snapshot_flag
    /\ UNCHANGED <<g_video_run_, g_audio_run_, enable_cycle_snapshot, counters, chan, jpeg, sinks,
                   pc, power, restarts, glitches, history>>

(* rk_video_set_enable_cycle_snapshot zeroes the counters, also when a     *)
(* thread is making the photo it will count down for.                      *)
Zero ==
    /\ AtOp("zero")
    /\ send_jpeg_cnt' = 0 /\ get_jpeg_cnt' = 0
    /\ cycle_snapshot_flag' = FALSE
    /\ Disturbs
    /\ Step
    /\ UNCHANGED <<g_video_run_, g_audio_run_, enable_cycle_snapshot, chan, jpeg, sinks, pc,
                   glitches, orders, photos>>

(* main has started the system.                                            *)
Ready ==
    /\ power = "boot" /\ todo = << >>
    /\ power' = "up"
    /\ UNCHANGED <<flags, counters, chan, jpeg, sinks, pc, todo, restarts, glitches, history>>

Calls(steps) ==
    /\ power = "up" /\ todo = << >>
    /\ restarts < MaxRestarts /\ restarts' = restarts + 1
    /\ todo' = steps

(* rk_video_restart, rk_audio_restart                                      *)
Restart ==
    /\ \/ Calls(rkipc_audio_deinit \o rk_video_deinit \o rk_video_init \o rkipc_audio_init)
       \/ Calls(rkipc_audio_deinit \o rkipc_audio_init)
    /\ UNCHANGED <<flags, counters, chan, jpeg, sinks, pc, power, glitches, history>>

rk_video_set_enable_cycle_snapshot(value) ==
    /\ enable_cycle_snapshot' = value
    /\ \/ value /\ ~cycle_snapshot_flag
          /\ cycle_snapshot_flag' = TRUE /\ Calls(<<Op("start", "cycle")>>)
       \/ ~value /\ cycle_snapshot_flag
          /\ UNCHANGED cycle_snapshot_flag /\ Calls(<<Op("zero", "cycle"), Op("finish", "cycle")>>)
       \/ value = cycle_snapshot_flag
          /\ UNCHANGED cycle_snapshot_flag /\ Calls(<< >>)
    /\ UNCHANGED <<g_video_run_, g_audio_run_, counters, chan, jpeg, sinks, pc, power, glitches, history>>

(* main stops the video before the audio.                                  *)
Shutdown ==
    /\ power = "up" /\ todo = << >>
    /\ power' = "down"
    /\ todo' = rk_video_deinit \o rkipc_audio_deinit
    /\ UNCHANGED <<flags, counters, chan, jpeg, sinks, pc, restarts, glitches, history>>

-----------------------------------------------------------------------------
FrameStep(t) ==
    \/ GetTimeout(t)
    \/ \E s \in Sinks : WriteFrame(t, s) \/ Written(t, s)

StreamStep(t) == FrameStep(t) \/ Eos(t)

PhotoStep(c) == PhotoStart(c) \/ PhotoCount(c) \/ PhotoCountGet(c)
SendStep == SendTest \/ Grab \/ SendFrame
GetStep == GetFirst \/ GetTest \/ GetPhoto \/ GetStop
CycleStep == PhotoRefused("cycle") \/ PhotoStep("cycle")
Control == SetRun \/ FinishThread \/ StartThread \/ SetSink \/ SetCycle \/ Zero \/ Ready

Next ==
    \/ \E t \in Streams : StreamStep(t)
    \/ \E c \in Callers : PhotoTest(c) \/ PhotoRefused(c) \/ PhotoStep(c)
    \/ SendStep \/ GrabTimeout \/ ResizeFails
    \/ GetStep
    \/ Control \/ Restart \/ Shutdown
    \/ \E value \in BOOLEAN : rk_video_set_enable_cycle_snapshot(value)

(* Threads run, calls time out, and the controller goes on.  It gets an    *)
(* output's mutex although frames keep coming: a frame is written every    *)
(* 30 ms or so and the mutex is free in between.                           *)
Fairness ==
    /\ \A t \in Streams : WF_vars(FrameStep(t))
    /\ \A c \in Clients : WF_vars(PhotoStep(c))
    /\ WF_vars(CycleStep) /\ WF_vars(SendStep \/ GrabTimeout) /\ WF_vars(GetStep)
    /\ WF_vars(Control) /\ SF_vars(SetSink)

Spec == Init /\ [][Next]_vars
FairSpec == Spec /\ Fairness
-----------------------------------------------------------------------------
(* Properties *)

Alive(t) == pc[t] \notin {"none", "exit"}

TypeOK ==
    /\ flags \in BOOLEAN \X BOOLEAN \X BOOLEAN \X BOOLEAN
    /\ send_jpeg_cnt \in Int /\ get_jpeg_cnt \in Int
    /\ chan \in [Channels -> BOOLEAN]
    /\ recv \in 0 .. 1 /\ out \in Seq(Nat) /\ shot \in Nat
    /\ open \in [Sinks -> BOOLEAN] /\ mutex \in [Sinks -> Streams \cup {None}]
    /\ pc \in [Workers \cup Clients ->
             {"none", "exit", "get", "rtsp_tx", "rtmp", "rtmp_tx", "sleep", "idle",
              "grab", "resized", "first", "wait", "stop", "start", "count", "count_get"}]
    /\ power \in {"boot", "up", "down"}

(* A frame is transmitted only to an output whose sessions exist and by    *)
(* one thread at a time, although at shutdown the audio thread outlives    *)
(* the sessions (rtsp.c, rtmp.c; main.c stops the video first).            *)
FramesInsideSession ==
    \A t \in Streams, s \in Sinks : pc[t] = Tx(s) => open[s] /\ mutex[s] = t

(* Nobody waits on, or holds a frame of, an encoder channel that is gone:  *)
(* every channel is destroyed after its thread was joined, in whatever     *)
(* order restarts and switches of the cycle come.                          *)
ChannelInUse ==
    /\ \A t \in Streams : Alive(t) => chan[t]
    /\ Alive("get") \/ Alive("send") => chan["jpeg"]

(* pthread_join is called for a thread that exists and was not joined, and *)
(* pthread_create never overwrites the id of a thread not yet joined.      *)
ThreadsPaired ==
    /\ AtOp("finish") => pc[Of] # "none"
    /\ AtOp("start") => pc[Of] = "none"

(* After a boot and after any number of restarts the video and photo       *)
(* threads run, and the cycle thread follows the parameter.                *)
VideoRuns ==
    power = "up" /\ todo = << >> =>
        /\ \A t \in Vencs \cup {"send", "get"} : Alive(t)
        /\ Alive("cycle") <=> enable_cycle_snapshot
        /\ cycle_snapshot_flag = enable_cycle_snapshot

(* Each accepted order is answered by one photo saved on the card, of a    *)
(* frame taken after the order.  calm names the orders that may be lost:   *)
(* two that overlap; one that falls between the decrement and the          *)
(* StopRecvFrame of the one before, or into a restart; one whose photo is  *)
(* the first frame the get thread drops after a boot or a restart; one     *)
(* that camera or encoder do not deliver in time; one whose file cannot be *)
(* opened.  A resizer that fails is no excuse.                             *)
EveryPhotoSaved ==
    calm /\ send_jpeg_cnt = 0 /\ get_jpeg_cnt = 0 /\ InPhoto = {}
        => photos = [i \in 1 .. orders |-> i]

(* An order is finished in the end, also when it is lost, whatever races,  *)
(* timeouts and restarts it meets: "the last photo was not completed" is   *)
(* not the answer for ever.  The one exception: switching the cycle off    *)
(* zeroes the counters under a thread that then counts down to -1.         *)
OrdersComplete ==
    send_jpeg_cnt # 0 \/ get_jpeg_cnt # 0 ~>
        \/ send_jpeg_cnt = 0 /\ get_jpeg_cnt = 0
        \/ send_jpeg_cnt < 0 \/ get_jpeg_cnt < 0
        \/ power = "down"

(* Restarts, switches of the cycle and the shutdown return: every thread   *)
(* that is joined ends.                                                    *)
CallsReturn == todo # << >> ~> todo = << >>

(* After a restart the audio thread runs again ("Restart audio module").   *)
AudioRuns == power = "up" /\ todo = << >> => Alive(Audio)
=============================================================================
