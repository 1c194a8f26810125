--------------------------------- MODULE Osd --------------------------------
(***************************************************************************)
(* The on-screen display: common/osd/osd.c, with the region functions of   *)
(* rv1106_ipc/video/video.c that it calls back.                            *)
(*                                                                         *)
(* Server threads change the parameters of a region, its type included, at *)
(* any time and then restart the display; a change of resolution restarts  *)
(* the privacy masks; a restart of the video stops the display and starts  *)
(* it again.  The time is drawn by a thread of its own, which makes its    *)
(* region itself, outside g_osd_mutex.  Calls do not overlap here: the     *)
(* mutex is released in the middle of rk_osd_restart, and the code does    *)
(* not survive a second call there, nor any call while the callbacks are   *)
(* unregistered.                                                           *)
(*                                                                         *)
(* Nothing keeps a client from making a second region show the time: a     *)
(* start then starts two threads and forgets the id of the first.  What    *)
(* such a lost thread can still do is modelled by Stray.                   *)
(*                                                                         *)
(* A region is identified by its number; what is drawn is left out.        *)
(***************************************************************************)
EXTENDS Integers, Sequences

CONSTANTS
    MAX_OSD_NUM,          \* regions are 0 .. MAX_OSD_NUM - 1
    FactoryType,          \* the type of a region in the ini file
    MaxSets, MaxCalls     \* bounds

Ids == 0 .. MAX_OSD_NUM - 1
RegionTypes == {"bmp", "mask", "dateTime"}     \* "bmp" is text or an image

ASSUME OsdAssumption ==
    /\ MAX_OSD_NUM \in Nat \ {0}
    /\ FactoryType \in [Ids -> RegionTypes]
    /\ MaxSets \in Nat /\ MaxCalls \in Nat

VARIABLES
    enabled, style, type, \* the parameters
    region,               \* per id: "none", "hidden", "shown"
    g_osd_server_run_,
    g_osd_signal,         \* "null", "clear", "given"
    clock,                \* the time thread: "none", "new", "loop", "wait", "exit"
    waits,                \* what it waits on: its argument to rk_signal_wait
    todo, cursor,         \* steps of the call that runs, next region of its loop
    dirty,                \* history: a parameter changed since the last restart began
    retyped,              \* history: a type changed since the last join
    met,                  \* history: this start has started a time thread
    stray,                \* a time thread was started next to another one
    sets, calls           \* counted against the bounds

params == <<enabled, style, type>>
thread == <<clock, waits, stray, met>>
call == <<todo, cursor, calls>>
vars == <<params, region, g_osd_server_run_, g_osd_signal, thread, call, dirty, retyped, sets>>

Masks == {i \in Ids : type[i] = "mask"}
Clocks == {i \in Ids : type[i] = "dateTime"}

-----------------------------------------------------------------------------
(* The callbacks.  RK_MPI_RGN_Create fails for a region that exists, which *)
(* is then destroyed; the handle is all that RK_MPI_RGN_Destroy is given,  *)
(* so that either callback destroys a region of either kind.               *)
Created(i, enable) ==
    [region EXCEPT ![i] = IF @ # "none" THEN "none" ELSE IF enable THEN "shown" ELSE "hidden"]
Destroyed(i) == [region EXCEPT ![i] = "none"]

(* No mosaic callback is registered on this chip.                          *)
Cover(i) == style[i] = "cover"

(* Setters                                                                 *)
Sets ==
    /\ sets < MaxSets /\ sets' = sets + 1
    /\ dirty' = TRUE
    /\ UNCHANGED <<region, g_osd_server_run_, g_osd_signal, thread, call>>

rk_osd_set_enabled(i) ==
    /\ enabled' = [enabled EXCEPT ![i] = ~@]
    /\ Sets /\ UNCHANGED <<style, type, retyped>>

rk_osd_set_style(i) ==
    /\ style' = [style EXCEPT ![i] = IF @ = "cover" THEN "mosaic" ELSE "cover"]
    /\ Sets /\ UNCHANGED <<enabled, type, retyped>>

rk_osd_set_type(i) ==
    /\ \E t \in RegionTypes \ {type[i]} : type' = [type EXCEPT ![i] = t]
    /\ retyped' = TRUE
    /\ Sets /\ UNCHANGED <<enabled, style>>

-----------------------------------------------------------------------------
(* Calls, as the steps they take; a loop over the regions is one step that *)
(* is repeated.                                                            *)

(* Mutant: the regions go before the thread that draws on one of them.     *)
DeinitRegionsFirst == <<"destroy", "stop", "join">>

rk_osd_deinit == <<"stop", "join", "destroy">>
rk_osd_init == <<"create">>
rk_osd_restart == rk_osd_deinit \o rk_osd_init
rk_osd_privacy_mask_restart == <<"unmask", "mask">>

(* rk_video_init has registered the callbacks and calls rk_osd_init.       *)
Init ==
    /\ enabled \in [Ids -> BOOLEAN]
    /\ style = [i \in Ids |-> "cover"]
    /\ type = FactoryType
    /\ region = [i \in Ids |-> "none"]
    /\ g_osd_server_run_ = TRUE /\ g_osd_signal = "null"
    /\ clock = "none" /\ waits = "null"
    /\ todo = rk_osd_init /\ cursor = 0
    /\ dirty = FALSE /\ retyped = FALSE /\ met = FALSE /\ stray = FALSE
    /\ sets = 0 /\ calls = 0

Calls(steps) ==
    /\ todo = << >>
    /\ calls < MaxCalls /\ calls' = calls + 1
    /\ todo' = steps /\ cursor' = 0
    /\ UNCHANGED <<params, region, g_osd_server_run_, g_osd_signal, clock, waits, stray,
                   retyped, sets>>

(* By a server thread, or for a restart of the video: stop, then start.    *)
Restart == Calls(rk_osd_restart) /\ dirty' = FALSE /\ met' = FALSE

(* rk_video_set_resolution and others                                      *)
MaskRestart == Calls(rk_osd_privacy_mask_restart) /\ UNCHANGED <<dirty, met>>

(* The step that comes next, and the loop over the regions.                *)
At(s) == todo # << >> /\ Head(todo) = s
NextStep == todo' = Tail(todo) /\ cursor' = 0 /\ UNCHANGED calls

(* Mutant: the loop runs one region too far.                               *)
RepeatTooFar == IF cursor = MAX_OSD_NUM THEN NextStep
                ELSE cursor' = cursor + 1 /\ UNCHANGED <<todo, calls>>

Repeat == IF cursor = MAX_OSD_NUM - 1 THEN NextStep
          ELSE cursor' = cursor + 1 /\ UNCHANGED <<todo, calls>>

(* Mutant: the thread is not told to end.                                  *)
StopNoFlag ==
    /\ At("stop")
    /\ g_osd_signal' = IF g_osd_signal = "null" THEN "null" ELSE "given"
    /\ NextStep
    /\ UNCHANGED <<params, region, g_osd_server_run_, thread, dirty, retyped, sets>>

(* Clears the flag and gives the signal, if there is one.                  *)
Stop ==
    /\ At("stop")
    /\ g_osd_server_run_' = FALSE
    /\ g_osd_signal' = IF g_osd_signal = "null" THEN "null" ELSE "given"
    /\ NextStep
    /\ UNCHANGED <<params, region, thread, dirty, retyped, sets>>

(* Mutant: the signal is destroyed without waiting for the thread.         *)
JoinNot ==
    /\ At("join")
    /\ g_osd_signal' = "null" /\ retyped' = FALSE
    /\ NextStep
    /\ UNCHANGED <<params, region, g_osd_server_run_, thread, dirty, sets>>

(* Only a signal tells that there is a thread to join.                     *)
Join ==
    /\ At("join")
    /\ IF g_osd_signal = "null" THEN UNCHANGED <<g_osd_signal, thread>>
       ELSE /\ clock = "exit" /\ clock' = "none" /\ UNCHANGED <<waits, stray, met>>
            /\ g_osd_signal' = "null"
    /\ retyped' = FALSE
    /\ NextStep
    /\ UNCHANGED <<params, region, g_osd_server_run_, dirty, sets>>

(* Mutant: a region that was switched off is left.                         *)
DestroyEnabled ==
    /\ At("destroy")
    /\ region' = IF enabled[cursor] THEN Destroyed(cursor) ELSE region
    /\ Repeat
    /\ UNCHANGED <<params, g_osd_server_run_, g_osd_signal, thread, dirty, retyped, sets>>

(* Every region is destroyed, whether it is enabled or not, except a mask  *)
(* whose style has no callback.                                            *)
Destroy ==
    /\ At("destroy")
    /\ region' = IF cursor \in Masks => Cover(cursor) THEN Destroyed(cursor) ELSE region
    /\ Repeat
    /\ UNCHANGED <<params, g_osd_server_run_, g_osd_signal, thread, dirty, retyped, sets>>

(* Text, images and masks are created; for the time the thread is started, *)
(* then the signal it waits on is created.  A thread that there is already *)
(* is forgotten, with the signal it may wait on.                           *)
Create ==
    /\ At("create")
    /\ IF enabled[cursor] /\ cursor \in Clocks
         THEN /\ g_osd_server_run_' = TRUE /\ clock' = "new" /\ waits' = "null"
              /\ g_osd_signal' = "null"
              /\ met' = TRUE /\ stray' = (stray \/ clock # "none")
              /\ todo' = <<"signal">> \o todo
              /\ UNCHANGED <<region, cursor, calls>>
         ELSE /\ region' = IF enabled[cursor] /\ (cursor \in Masks => Cover(cursor))
                             THEN Created(cursor, TRUE) ELSE region
              /\ Repeat
              /\ UNCHANGED <<g_osd_server_run_, g_osd_signal, thread>>
    /\ UNCHANGED <<params, dirty, retyped, sets>>

CreateSignal ==
    /\ At("signal")
    /\ g_osd_signal' = "clear"
    /\ IF cursor = MAX_OSD_NUM - 1 THEN todo' = Tail(Tail(todo)) /\ cursor' = 0
       ELSE todo' = Tail(todo) /\ cursor' = cursor + 1
    /\ UNCHANGED <<params, region, g_osd_server_run_, thread, dirty, retyped, sets, calls>>

(* rk_osd_init returns without unlocking g_osd_mutex: no call of the       *)
(* display goes on after that.                                             *)
CreateSignalFails ==
    /\ At("signal")
    /\ todo' = <<"locked">>
    /\ UNCHANGED <<params, region, g_osd_server_run_, g_osd_signal, thread, cursor, calls,
                   dirty, retyped, sets>>

(* The two loops of rk_osd_privacy_mask_restart.                           *)
Unmask ==
    /\ At("unmask")
    /\ region' = IF cursor \in Masks /\ Cover(cursor) THEN Destroyed(cursor) ELSE region
    /\ Repeat
    /\ UNCHANGED <<params, g_osd_server_run_, g_osd_signal, thread, dirty, retyped, sets>>

Mask ==
    /\ At("mask")
    /\ region' = IF cursor \in Masks /\ enabled[cursor] /\ Cover(cursor)
                   THEN Created(cursor, TRUE) ELSE region
    /\ Repeat
    /\ UNCHANGED <<params, g_osd_server_run_, g_osd_signal, thread, dirty, retyped, sets>>

-----------------------------------------------------------------------------
(* osd_time_server.  It reads the parameters itself, later than rk_osd_init *)
(* did: it takes the last region of the time, enabled or not, and makes it *)
(* hidden if it finds it disabled.                                         *)
osd_time_id ==
    IF Clocks = {} THEN 0 ELSE CHOOSE i \in Clocks : \A j \in Clocks : j <= i

ClockBegin ==
    /\ clock = "new"
    /\ region' = Created(osd_time_id, enabled[osd_time_id])
    /\ clock' = "loop"
    /\ UNCHANGED <<params, g_osd_server_run_, g_osd_signal, waits, stray, met, call, dirty,
                   retyped, sets>>

ClockTest ==
    /\ clock = "loop"
    /\ IF g_osd_server_run_ THEN clock' = "wait" /\ waits' = g_osd_signal
       ELSE clock' = "exit" /\ waits' = "null"
    /\ UNCHANGED <<params, region, g_osd_server_run_, g_osd_signal, stray, met, call, dirty,
                   retyped, sets>>

(* rk_signal_wait for 100 ms: the signal, or the timeout; without a signal *)
(* it returns at once.  Then the time is drawn.                            *)
ClockWoken ==
    /\ clock = "wait"
    /\ g_osd_signal' = IF waits # "null" /\ g_osd_signal = "given" THEN "clear" ELSE g_osd_signal
    /\ clock' = "loop"
    /\ UNCHANGED <<params, region, g_osd_server_run_, waits, stray, met, call, dirty, retyped,
                   sets>>

(* What a thread whose id was lost may still do: make its region, or take  *)
(* the signal meant for the other.  It is not told to end for certain, and *)
(* nobody waits for it.                                                    *)
Stray ==
    /\ stray
    /\ \/ region' = Created(osd_time_id, enabled[osd_time_id]) /\ UNCHANGED g_osd_signal
       \/ g_osd_signal = "given" /\ g_osd_signal' = "clear" /\ UNCHANGED region
    /\ UNCHANGED <<params, g_osd_server_run_, thread, call, dirty, retyped, sets>>

-----------------------------------------------------------------------------
CallStep ==
    Stop \/ Join \/ Destroy \/ Create \/ CreateSignal \/ Unmask \/ Mask
ClockStep == ClockBegin \/ ClockTest \/ ClockWoken

Next ==
    \/ \E i \in Ids : rk_osd_set_enabled(i) \/ rk_osd_set_style(i) \/ rk_osd_set_type(i)
    \/ Restart \/ MaskRestart
    \/ CallStep \/ CreateSignalFails
    \/ ClockStep \/ Stray

(* A call that was started and the time thread go on.                      *)
Fairness == WF_vars(CallStep) /\ WF_vars(ClockStep)

Spec == Init /\ [][Next]_vars
FairSpec == Spec /\ Fairness
-----------------------------------------------------------------------------
(* Properties *)

TypeOK ==
    /\ enabled \in [Ids -> BOOLEAN]
    /\ style \in [Ids -> {"cover", "mosaic"}]
    /\ type \in [Ids -> RegionTypes]
    /\ region \in [Ids -> {"none", "hidden", "shown"}]
    /\ g_osd_server_run_ \in BOOLEAN
    /\ g_osd_signal \in {"null", "clear", "given"}
    /\ clock \in {"none", "new", "loop", "wait", "exit"}
    /\ cursor \in Ids

Settled == todo = << >> /\ clock # "new" /\ ~dirty

OneTimeRegion == \A i, j \in Clocks : i = j

(* When a restart is over and no parameter was changed since it began, the *)
(* regions shown are the enabled ones: whatever was shown before, whatever *)
(* was changed while an earlier restart ran, types included, and although  *)
(* the time is not drawn by the thread that restarts.  Masks of a style    *)
(* without callbacks stay as they were.  With two regions of the time it   *)
(* is false, even if one of them is disabled: the thread takes the last.   *)
ShownMatches ==
    Settled /\ OneTimeRegion /\ ~stray => \A i \in Ids :
        (i \in Masks => Cover(i)) => region[i] = IF enabled[i] THEN "shown" ELSE "none"

(* The thread waits on no signal that was freed and draws on no region     *)
(* that does not exist, wherever the display is stopped.  A region that    *)
(* was made a mask since can be destroyed under the thread.                *)
ClockSafe ==
    clock \in {"loop", "wait"} /\ ~stray =>
        /\ waits # "null" /\ clock = "wait" => g_osd_signal # "null"
        /\ ~retyped => region[osd_time_id] # "none"

(* Restarts and starts leave no time thread behind, whatever types are set *)
(* meanwhile: a thread is started next to another only by the very start   *)
(* that started the other, for a second region of the time.  Unless that   *)
(* has happened, a thread that runs is always known by its signal.         *)
OneClock ==
    ~stray =>
        /\ At("create") /\ cursor \in Clocks /\ ~met => clock = "none"
        /\ todo = << >> => (clock # "none" <=> g_osd_signal # "null")

(* Restarts return: the time thread ends although nothing but a flag that  *)
(* it tests once per 100 ms tells it to, although its first wait may come  *)
(* before the signal exists, and although a lost thread may take the       *)
(* signal.  Only a signal that cannot be created stops every call.         *)
RestartsReturn == todo # << >> ~> todo = << >> \/ At("locked")
=============================================================================
