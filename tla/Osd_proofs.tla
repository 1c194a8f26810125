----------------------------- MODULE Osd_proofs -----------------------------
(***************************************************************************)
(* What the on-screen display keeps true for any number of regions, any    *)
(* number of changes of their parameters and types, and of calls, proved.  *)
(*                                                                         *)
(* The time region is made by a thread that only its signal makes known,   *)
(* so that neither "there is one time thread" nor "what is shown is what   *)
(* is enabled" is inductive: both need to know, at every step of a call    *)
(* and at every position of its loop, which regions were already dealt     *)
(* with and whether the thread is known.  Types may change at any of those *)
(* steps, which is why the invariant also says what a change disclaims.    *)
(* All of it is claimed until a start has met a second region of the time  *)
(* and lost a thread (stray).                                              *)
(***************************************************************************)
EXTENDS Osd, SequenceTheorems, NaturalsInduction, WellFoundedInduction, TLAPS

(* The steps that are left of a call, wherever it may be.                  *)
Idle == << >>
Stopping == <<"stop", "join", "destroy", "create">>
Joining == <<"join", "destroy", "create">>
Destroying == <<"destroy", "create">>
Creating == <<"create">>
Signalling == <<"signal", "create">>
Unmasking == <<"unmask", "mask">>
Masking == <<"mask">>
Locked == <<"locked">>

Programs ==
    {Idle, Stopping, Joining, Destroying, Creating, Signalling, Unmasking, Masking, Locked}

Types ==
    /\ TypeOK
    /\ todo \in Programs
    /\ waits \in {"null", "clear", "given"}
    /\ {dirty, retyped, met, stray} \subseteq BOOLEAN

(* The signal tells whether there is a time thread.                        *)
Known == clock # "none" <=> g_osd_signal # "null"

(* Before a start has started a thread there is none; after that there is  *)
(* one, and once its signal exists it is known by it.                      *)
ThreadInv ==
    /\ clock \in {"none", "new", "exit"} => waits = "null"
    /\ waits # "null" => g_osd_signal # "null"
    /\ todo = Destroying \/ (todo = Creating /\ ~met) => clock = "none" /\ g_osd_signal = "null"
    /\ todo = Signalling => clock # "none" /\ g_osd_signal = "null" /\ met
    /\ todo = Locked => clock # "none" /\ g_osd_signal = "null"
    /\ todo \notin {Signalling, Locked} => Known
    /\ todo \in {Stopping, Joining, Destroying} => ~met

(* While no type changes, the region of the time is the thread's alone.    *)
RegionInv == ~retyped =>
    /\ clock # "none" => Clocks # {}
    /\ clock \in {"loop", "wait"} => region[osd_time_id] # "none"
    /\ clock = "new" => region[osd_time_id] = "none"
    /\ clock = "none" => \A k \in Clocks :
         (todo = Destroying => k < cursor) => region[k] = "none"

(* A type that changed since the last join changed since the last restart  *)
(* began, unless that restart has not come to its join.                    *)
LinkInv == retyped => dirty \/ todo \in {Stopping, Joining}

(* While nothing changes, a start that is going to meet the time region    *)
(* has not met it yet.                                                     *)
MetInv == ~dirty =>
    /\ todo = Signalling => cursor \in Clocks
    /\ todo = Creating /\ OneTimeRegion => \A k \in Clocks : cursor <= k => ~met

(* What region i shows is what its parameter says; the time is shown as    *)
(* soon as its thread has made the region.                                 *)
Matches(i) ==
    IF i \in Clocks
      THEN IF enabled[i] THEN clock # "none" /\ region[i] = IF clock = "new" THEN "none" ELSE "shown"
                         ELSE clock = "none" /\ region[i] = "none"
      ELSE region[i] = IF enabled[i] THEN "shown" ELSE "none"

(* The regions that the loop of the call has passed, and those before it.  *)
Passed(i) ==
    /\ todo = Destroying /\ i < cursor => region[i] = "none"
    /\ todo = Creating => IF i < cursor THEN Matches(i) ELSE region[i] = "none"
    /\ todo = Signalling => IF i <= cursor THEN Matches(i) ELSE region[i] = "none"
    /\ todo = Unmasking => IF i \in Masks /\ i < cursor THEN region[i] = "none" ELSE Matches(i)
    /\ todo = Masking => IF i \in Masks /\ i >= cursor THEN region[i] = "none" ELSE Matches(i)
    /\ todo = Idle => Matches(i)

ShownInv == ~dirty /\ OneTimeRegion => \A i \in Ids : (i \in Masks => Cover(i)) => Passed(i)

Core == ThreadInv /\ RegionInv /\ LinkInv /\ MetInv /\ ShownInv

(* Once a thread was lost nothing but the types is claimed.                *)
OsdInv == Types /\ (~stray => Core)

(* Sequences of steps: what is left after each, and that no two of them    *)
(* are the same.                                                           *)
LEMMA Steps ==
    /\ Tail(Stopping) = Joining /\ Tail(Joining) = Destroying /\ Tail(Destroying) = Creating
    /\ Tail(Creating) = Idle /\ Tail(Signalling) = Creating
    /\ Tail(Unmasking) = Masking /\ Tail(Masking) = Idle
BY DEF Idle, Stopping, Joining, Destroying, Creating, Signalling, Unmasking, Masking

LEMMA Distinct ==
    /\ Idle \notin {Stopping, Joining, Destroying, Creating, Signalling, Unmasking, Masking, Locked}
    /\ Stopping \notin {Joining, Destroying, Creating, Signalling, Unmasking, Masking, Locked}
    /\ Joining \notin {Destroying, Creating, Signalling, Unmasking, Masking, Locked}
    /\ Destroying \notin {Creating, Signalling, Unmasking, Masking, Locked}
    /\ Creating \notin {Signalling, Unmasking, Masking, Locked}
    /\ Signalling \notin {Unmasking, Masking, Locked}
    /\ Unmasking \notin {Masking, Locked}
    /\ Masking # Locked
BY DEF Idle, Stopping, Joining, Destroying, Creating, Signalling, Unmasking, Masking, Locked

(* The step that comes next tells which program runs.                      *)
LEMMA Position ==
    ASSUME todo \in Programs
    PROVE  /\ At("stop") <=> todo = Stopping
           /\ At("join") <=> todo = Joining
           /\ At("destroy") <=> todo = Destroying
           /\ At("create") <=> todo = Creating
           /\ At("signal") <=> todo = Signalling
           /\ At("unmask") <=> todo = Unmasking
           /\ At("mask") <=> todo = Masking
BY Distinct DEF At, Programs, Idle, Stopping, Joining, Destroying, Creating, Signalling,
   Unmasking, Masking, Locked

(* The calls, as sequences of steps.                                       *)
LEMMA Concatenated ==
    ASSUME NEW S, NEW s \in Seq(S), NEW t \in Seq(S), NEW u \in Seq(S),
           Len(t) = 1, Len(u) = Len(s) + 1,
           \A i \in 1 .. Len(s) : u[i] = s[i], u[Len(s) + 1] = t[1]
    PROVE  s \o t = u
<1>1. s \o t \in Seq(S)
  BY ConcatProperties
<1>2. Len(s \o t) = Len(s) + Len(t)
  BY ConcatProperties, Zenon
<1>3. \A i \in 1 .. Len(s) + Len(t) : (s \o t)[i] = IF i <= Len(s) THEN s[i] ELSE t[i - Len(s)]
  BY ConcatProperties, Zenon
<1>4. Len(s) \in Nat
  BY LenProperties
<1>5. \A i \in 1 .. Len(s) + 1 : (s \o t)[i] = u[i]
  <2>1. ASSUME NEW i \in 1 .. Len(s)
        PROVE  (s \o t)[i] = u[i]
    <3>1. i \in 1 .. Len(s) + Len(t) /\ i <= Len(s)
      BY <1>4
    <3> QED BY <1>3, <3>1, Zenon
  <2>2. (s \o t)[Len(s) + 1] = u[Len(s) + 1]
    <3>1. PICK n \in 1 .. Len(s) + Len(t) : n = Len(s) + 1
      BY <1>4
    <3>2. ~(n <= Len(s)) /\ n - Len(s) = 1
      BY <1>4, <3>1
    <3>3. (s \o t)[n] = t[n - Len(s)]
      BY <1>3, <3>2, Zenon
    <3> QED BY <3>1, <3>2, <3>3, Zenon
  <2>3. \A i \in 1 .. Len(s) + 1 : i \in 1 .. Len(s) \/ i = Len(s) + 1
    BY <1>4
  <2> QED BY <2>1, <2>2, <2>3, Zenon
<1>6. Len(s \o t) = Len(u)
  BY <1>2, <1>4
<1>7. \A i \in 1 .. Len(s \o t) : (s \o t)[i] = u[i]
  BY <1>5, <1>6, Zenon
<1> QED BY <1>1, <1>6, <1>7, SeqEqual

LEMMA Called ==
    /\ rk_osd_init = Creating
    /\ rk_osd_restart = Stopping
    /\ rk_osd_privacy_mask_restart = Unmasking
    /\ <<"signal">> \o Creating = Signalling
<1> DEFINE Names == {"stop", "join", "destroy", "create", "signal"}
           Down == <<"stop", "join", "destroy">>
           Give == <<"signal">>
<1>1. /\ Down \in Seq(Names) /\ Creating \in Seq(Names) /\ Stopping \in Seq(Names)
      /\ Give \in Seq(Names) /\ Signalling \in Seq(Names)
  BY DEF Creating, Stopping, Signalling
<1>2. /\ Len(Creating) = 1 /\ Len(Down) = 3 /\ Len(Stopping) = 3 + 1
      /\ Len(Give) = 1 /\ Len(Signalling) = 1 + 1
  BY DEF Creating, Stopping, Signalling
<1>3. /\ \A i \in 1 .. 3 : Stopping[i] = Down[i]
      /\ \A i \in 1 .. 1 : Signalling[i] = Give[i]
      /\ Stopping[3 + 1] = Creating[1] /\ Signalling[1 + 1] = Creating[1]
  BY DEF Creating, Stopping, Signalling
<1>4. Down \o Creating = Stopping
  <2> HIDE DEF Names, Down
  <2> QED BY <1>1, <1>2, <1>3, Concatenated
<1>5. Give \o Creating = Signalling
  <2> HIDE DEF Names, Give
  <2> QED BY <1>1, <1>2, <1>3, Concatenated
<1> QED
  BY <1>4, <1>5 DEF rk_osd_init, rk_osd_restart, rk_osd_deinit, rk_osd_privacy_mask_restart,
     Creating, Unmasking

(* A nonempty set of numbers has a least one.                              *)
LEMMA LeastRegion ==
    ASSUME NEW T \in (SUBSET Nat) \ {{}}
    PROVE  \E m \in T : \A n \in T : m <= n
<1>1. PICK m \in T : \A n \in T : ~(<<n, m>> \in OpToRel(<, Nat))
  <2>1. T # {} /\ T \subseteq Nat
    OBVIOUS
  <2> QED BY <2>1, NatLessThanWellFounded, WFMin, Zenon
<1>2. \A n \in T : ~(n < m)
  BY <1>1 DEF OpToRel
<1> QED BY <1>2

-----------------------------------------------------------------------------
(* A repeated step goes on with the next region or ends its loop.          *)
LEMMA Looped ==
    ASSUME Types, Repeat
    PROVE  \/ cursor = MAX_OSD_NUM - 1 /\ todo' = Tail(todo) /\ cursor' = 0
           \/ cursor # MAX_OSD_NUM - 1 /\ todo' = todo /\ cursor' = cursor + 1 /\ cursor' \in Ids
BY OsdAssumption DEF Types, TypeOK, Ids, Repeat, NextStep

(* The order of the regions.                                               *)
LEMMA Order ==
    ASSUME Types
    PROVE  /\ 0 \in Ids
           /\ \A i \in Ids : ~(i < 0) /\ i >= 0
           /\ cursor = MAX_OSD_NUM - 1 => \A i \in Ids : i < cursor \/ i = cursor
           /\ \A i \in Ids : i < cursor + 1 <=> i < cursor \/ i = cursor
           /\ \A i \in Ids : i >= cursor + 1 <=> ~(i < cursor) /\ i # cursor
           /\ \A i \in Ids : i <= cursor <=> i < cursor \/ i = cursor
           /\ \A i \in Ids : i >= cursor <=> ~(i < cursor)
           /\ ~(cursor < cursor)
BY OsdAssumption DEF Types, TypeOK, Ids

(* Which region the time thread takes.                                     *)
LEMMA TimeRegion ==
    ASSUME Types
    PROVE  /\ osd_time_id \in Ids
           /\ Clocks # {} => osd_time_id \in Clocks
           /\ \A k \in Clocks : OneTimeRegion => osd_time_id = k
<1>1. Clocks \subseteq Ids /\ 0 \in Ids
  BY Order DEF Clocks
<1>2. ASSUME Clocks # {}
      PROVE  osd_time_id \in Clocks
  <2>1. PICK m \in {MAX_OSD_NUM - 1 - k : k \in Clocks} :
          \A n \in {MAX_OSD_NUM - 1 - k : k \in Clocks} : m <= n
    <3>1. \A k \in Clocks : MAX_OSD_NUM - 1 - k \in Nat
      BY <1>1, OsdAssumption DEF Ids
    <3>2. {MAX_OSD_NUM - 1 - k : k \in Clocks} \in (SUBSET Nat) \ {{}}
      BY <1>2, <3>1
    <3> QED BY <3>2, LeastRegion
  <2>2. PICK k \in Clocks : m = MAX_OSD_NUM - 1 - k
    BY <2>1
  <2>3. \A j \in Clocks : j <= k
    <3> SUFFICES ASSUME NEW j \in Clocks PROVE j <= k
      OBVIOUS
    <3>1. m <= MAX_OSD_NUM - 1 - j
      BY <2>1
    <3> QED BY <1>1, <2>2, <3>1, OsdAssumption DEF Ids
  <2> QED BY <1>2, <2>3, Zenon DEF osd_time_id
<1> QED
  BY <1>1, <1>2 DEF osd_time_id, OneTimeRegion

-----------------------------------------------------------------------------
(* The types, and what was lost stays lost.                                *)
LEMMA TypesStep ==
    ASSUME Types, [Next]_vars
    PROVE  Types' /\ (stray => stray')
<1>0. osd_time_id \in Ids /\ 0 \in Ids
  BY TimeRegion, Order
<1>1. CASE UNCHANGED vars
  BY <1>1 DEF Types, TypeOK, vars, params, thread, call
<1>2. ASSUME NEW i \in Ids, rk_osd_set_enabled(i) \/ rk_osd_set_style(i) \/ rk_osd_set_type(i)
      PROVE  Types' /\ (stray => stray')
  <2>1. Sets
    BY <1>2 DEF rk_osd_set_enabled, rk_osd_set_style, rk_osd_set_type
  <2>2. enabled' \in [Ids -> BOOLEAN]
    BY <1>2 DEF rk_osd_set_enabled, rk_osd_set_style, rk_osd_set_type, Types, TypeOK
  <2>3. style' \in [Ids -> {"cover", "mosaic"}]
    BY <1>2 DEF rk_osd_set_enabled, rk_osd_set_style, rk_osd_set_type, Types, TypeOK
  <2>4. type' \in [Ids -> RegionTypes] /\ retyped' \in BOOLEAN
    BY <1>2 DEF rk_osd_set_enabled, rk_osd_set_style, rk_osd_set_type, Types, TypeOK
  <2> QED BY <2>1, <2>2, <2>3, <2>4 DEF Sets, Types, TypeOK, thread, call
<1>3. CASE Restart \/ MaskRestart
  <2>1. todo' \in {Stopping, Unmasking} /\ cursor' = 0
    BY <1>3, Called DEF Restart, MaskRestart, Calls
  <2>2. UNCHANGED <<params, region, g_osd_server_run_, g_osd_signal, clock, waits, stray, retyped>>
    BY <1>3 DEF Restart, MaskRestart, Calls
  <2>3. dirty' \in BOOLEAN /\ met' \in BOOLEAN
    BY <1>3 DEF Restart, MaskRestart, Types
  <2> QED BY <1>0, <2>1, <2>2, <2>3 DEF Types, TypeOK, Programs, params
<1>4. CASE Stop
  <2>1. todo' = Joining /\ cursor' = 0
    BY <1>4, Position, Steps DEF Stop, NextStep, Types
  <2> QED BY <1>0, <1>4, <2>1 DEF Stop, Types, TypeOK, Programs, params, thread
<1>5. CASE Join
  <2>1. todo' = Destroying /\ cursor' = 0
    BY <1>5, Position, Steps DEF Join, NextStep, Types
  <2> QED BY <1>0, <1>5, <2>1 DEF Join, Types, TypeOK, Programs, params, thread
<1>6. ASSUME Destroy \/ Unmask \/ Mask
      PROVE  Types' /\ (stray => stray')
  <2>1. Repeat /\ todo \in {Destroying, Unmasking, Masking}
    BY <1>6, Position DEF Destroy, Unmask, Mask, Types
  <2>2. todo' \in Programs /\ cursor' \in Ids
    BY <1>0, <2>1, Looped, Steps DEF Types, TypeOK, Programs
  <2>3. region' \in [Ids -> {"none", "hidden", "shown"}]
    BY <1>6 DEF Destroy, Unmask, Mask, Destroyed, Created, Types, TypeOK
  <2>4. UNCHANGED <<params, g_osd_server_run_, g_osd_signal, thread, dirty, retyped>>
    BY <1>6 DEF Destroy, Unmask, Mask
  <2> QED BY <2>2, <2>3, <2>4 DEF Types, TypeOK, params, thread
<1>7. CASE Create
  <2>1. todo = Creating
    BY <1>7, Position DEF Create, Types
  <2>2. CASE enabled[cursor] /\ cursor \in Clocks
    BY <1>7, <2>1, <2>2, Called DEF Create, Types, TypeOK, Programs, params
  <2>3. CASE ~(enabled[cursor] /\ cursor \in Clocks)
    <3>1. Repeat
      BY <1>7, <2>3 DEF Create
    <3>2. todo' \in Programs /\ cursor' \in Ids
      BY <1>0, <2>1, <3>1, Looped, Steps DEF Types, TypeOK, Programs
    <3>3. region' \in [Ids -> {"none", "hidden", "shown"}]
      BY <1>7, <2>3 DEF Create, Created, Types, TypeOK
    <3> QED BY <1>7, <2>3, <3>2, <3>3 DEF Create, Types, TypeOK, params, thread
  <2> QED BY <2>2, <2>3
<1>8. CASE CreateSignal
  <2>1. todo = Signalling
    BY <1>8, Position DEF CreateSignal, Types
  <2>2. cursor # MAX_OSD_NUM - 1 => cursor + 1 \in Ids
    BY OsdAssumption DEF Types, TypeOK, Ids
  <2>3. Tail(todo) = Creating /\ Tail(Tail(todo)) = Idle
    BY <2>1, Steps
  <2> QED BY <1>0, <1>8, <2>2, <2>3 DEF CreateSignal, Types, TypeOK, Programs, params, thread
<1>9. CASE CreateSignalFails
  BY <1>9 DEF CreateSignalFails, Locked, Types, TypeOK, Programs, params, thread
<1>10. CASE ClockBegin
  BY <1>0, <1>10 DEF ClockBegin, Created, Types, TypeOK, params, call
<1>11. CASE ClockTest \/ ClockWoken
  BY <1>11 DEF ClockTest, ClockWoken, Types, TypeOK, params, call
<1>12. CASE Stray
  BY <1>0, <1>12 DEF Stray, Created, Types, TypeOK, params, thread, call
<1> QED
  BY <1>1, <1>2, <1>3, <1>4, <1>5, <1>6, <1>7, <1>8, <1>9, <1>10, <1>11, <1>12
     DEF Next, CallStep, ClockStep

(* Steps that change no type leave the regions of each kind the same.      *)
LEMMA SameKinds ==
    ASSUME UNCHANGED params
    PROVE  /\ Masks' = Masks /\ Clocks' = Clocks /\ osd_time_id' = osd_time_id
           /\ OneTimeRegion' <=> OneTimeRegion
           /\ \A i : Cover(i)' <=> Cover(i)
BY DEF params, Masks, Clocks, osd_time_id, OneTimeRegion, Cover

-----------------------------------------------------------------------------
(* The setters.  A type that changes disclaims what was known of regions.  *)
LEMMA SetInv ==
    ASSUME Types, Core, Sets, retyped' \/ UNCHANGED <<type, retyped>>
    PROVE  Core'
<1>1. ThreadInv'
  BY DEF Core, ThreadInv, Known, Sets, thread, call
<1>2. RegionInv'
  <2>1. CASE UNCHANGED <<type, retyped>>
    <3>1. Clocks' = Clocks /\ osd_time_id' = osd_time_id
      BY <2>1 DEF Clocks, osd_time_id
    <3> QED BY <2>1, <3>1 DEF Core, RegionInv, Sets, thread, call
  <2>2. CASE retyped'
    BY <2>2 DEF RegionInv
  <2> QED BY <2>1, <2>2
<1>3. LinkInv' /\ MetInv' /\ ShownInv'
  BY DEF LinkInv, MetInv, ShownInv, Sets
<1> QED
  BY <1>1, <1>2, <1>3 DEF Core

LEMMA RestartInv ==
    ASSUME Types, Core, Restart
    PROVE  Core'
<1>1. todo = Idle /\ todo' = Stopping /\ cursor' = 0
  BY Called DEF Restart, Calls, Idle
<1>2. /\ UNCHANGED <<params, region, g_osd_server_run_, g_osd_signal, clock, waits, retyped>>
      /\ ~dirty' /\ ~met'
  BY DEF Restart, Calls
<1>3. ThreadInv' /\ LinkInv'
  BY <1>1, <1>2, Distinct DEF Core, ThreadInv, LinkInv, Known
<1>4. RegionInv'
  BY <1>1, <1>2, Distinct, SameKinds DEF Core, RegionInv
<1>5. MetInv' /\ ShownInv'
  BY <1>1, <1>2, Distinct DEF MetInv, ShownInv, Passed
<1> QED
  BY <1>3, <1>4, <1>5 DEF Core

LEMMA MaskRestartInv ==
    ASSUME Types, Core, MaskRestart
    PROVE  Core'
<1>1. todo = Idle /\ todo' = Unmasking /\ cursor' = 0
  BY Called DEF MaskRestart, Calls, Idle
<1>2. UNCHANGED <<params, region, g_osd_server_run_, g_osd_signal, clock, waits, retyped, dirty, met>>
  BY DEF MaskRestart, Calls
<1>3. ThreadInv' /\ LinkInv'
  BY <1>1, <1>2, Distinct DEF Core, ThreadInv, LinkInv, Known
<1>4. RegionInv' /\ MetInv'
  BY <1>1, <1>2, Distinct, SameKinds DEF Core, RegionInv, MetInv
<1>5. ShownInv'
  <2> SUFFICES ASSUME ~dirty, OneTimeRegion, NEW i \in Ids, i \in Masks => Cover(i)
               PROVE  Passed(i)'
    BY <1>2, SameKinds DEF ShownInv
  <2>1. Matches(i)
    BY <1>1 DEF Core, ShownInv, Passed
  <2>2. Matches(i)'
    BY <1>2, <2>1, SameKinds DEF Matches, params
  <2>3. ~(i < cursor')
    BY <1>1, Order
  <2> QED
    BY <1>1, <2>2, <2>3, Distinct DEF Passed
<1> QED
  BY <1>3, <1>4, <1>5 DEF Core

-----------------------------------------------------------------------------
(* The steps of a call.                                                    *)
LEMMA StopInv ==
    ASSUME Types, Core, Stop
    PROVE  Core'
<1>1. todo = Stopping /\ todo' = Joining /\ cursor' = 0
  BY Position, Steps DEF Stop, NextStep, Types
<1>2. UNCHANGED <<params, region, thread, dirty, retyped>>
  BY DEF Stop
<1>3. g_osd_signal' = "null" <=> g_osd_signal = "null"
  BY DEF Stop, Types, TypeOK
<1>4. ThreadInv' /\ LinkInv'
  BY <1>1, <1>2, <1>3, Distinct DEF Core, ThreadInv, LinkInv, Known, thread
<1>5. RegionInv'
  BY <1>1, <1>2, Distinct, SameKinds DEF Core, RegionInv, thread
<1>6. MetInv' /\ ShownInv'
  BY <1>1, <1>2, Distinct DEF MetInv, ShownInv, Passed
<1> QED
  BY <1>4, <1>5, <1>6 DEF Core

LEMMA JoinInv ==
    ASSUME Types, Core, Join
    PROVE  Core'
<1>1. todo = Joining /\ todo' = Destroying /\ cursor' = 0
  BY Position, Steps DEF Join, NextStep, Types
<1>2. UNCHANGED <<params, region, dirty, waits, met>> /\ ~retyped'
  BY DEF Join, thread
<1>3. g_osd_signal' = "null" /\ clock' = "none" /\ waits = "null"
  BY <1>1, Distinct DEF Join, thread, Core, ThreadInv, Known
<1>4. ThreadInv' /\ LinkInv'
  BY <1>1, <1>2, <1>3, Distinct DEF Core, ThreadInv, LinkInv, Known
<1>5. RegionInv'
  <2>1. \A k \in Clocks : ~(k < cursor')
    BY <1>1, Order DEF Clocks
  <2> QED BY <1>1, <1>2, <1>3, <2>1, SameKinds DEF RegionInv
<1>6. MetInv'
  BY <1>1, Distinct DEF MetInv
<1>7. ShownInv'
  BY <1>1, Distinct, Order DEF ShownInv, Passed
<1> QED
  BY <1>4, <1>5, <1>6, <1>7 DEF Core

LEMMA DestroyInv ==
    ASSUME Types, Core, Destroy
    PROVE  Core'
<1>1. todo = Destroying /\ Repeat
  BY Position DEF Destroy, Types
<1>2. UNCHANGED <<params, g_osd_signal, thread, dirty, retyped>>
  BY DEF Destroy
<1>3. /\ \A i \in Ids : i # cursor \/ (i \in Masks /\ ~Cover(i)) => region'[i] = region[i]
      /\ (cursor \in Masks => Cover(cursor)) => region'[cursor] = "none"
  BY DEF Destroy, Destroyed, Types, TypeOK
<1>4. /\ clock = "none" /\ g_osd_signal = "null" /\ waits = "null" /\ ~met
      /\ ~retyped => \A k \in Clocks : k < cursor => region[k] = "none"
      /\ ~dirty /\ OneTimeRegion =>
           \A i \in Ids : (i \in Masks => Cover(i)) /\ i < cursor => region[i] = "none"
  BY <1>1, Distinct DEF Core, ThreadInv, RegionInv, ShownInv, Passed
<1>5. \A k \in Clocks : k \in Ids /\ k \notin Masks
  BY DEF Clocks, Masks
<1>6. CASE cursor = MAX_OSD_NUM - 1 /\ todo' = Creating /\ cursor' = 0
  <2>1. ~retyped => \A k \in Clocks : region'[k] = "none"
    BY <1>3, <1>4, <1>5, <1>6, Order
  <2>2. ThreadInv' /\ LinkInv'
    BY <1>1, <1>2, <1>4, <1>6, Distinct DEF Core, ThreadInv, LinkInv, Known, thread
  <2>3. RegionInv'
    BY <1>2, <1>4, <1>6, <2>1, Distinct, SameKinds DEF RegionInv, thread
  <2>4. MetInv'
    BY <1>2, <1>4, <1>6, Distinct DEF MetInv, thread
  <2>5. ShownInv'
    <3> SUFFICES ASSUME ~dirty, OneTimeRegion, NEW i \in Ids, i \in Masks => Cover(i)
                 PROVE  Passed(i)'
      BY <1>2, SameKinds DEF ShownInv
    <3>1. region'[i] = "none"
      BY <1>3, <1>4, <1>6, Order
    <3>2. ~(i < cursor')
      BY <1>6, Order
    <3> QED
      BY <1>6, <3>1, <3>2, Distinct DEF Passed
  <2> QED
    BY <2>2, <2>3, <2>4, <2>5 DEF Core
<1>7. CASE todo' = todo /\ cursor' = cursor + 1 /\ cursor' \in Ids
  <2>1. ~retyped => \A k \in Clocks : k < cursor' => region'[k] = "none"
    BY <1>3, <1>4, <1>5, <1>7, Order
  <2>2. ThreadInv' /\ LinkInv'
    BY <1>1, <1>2, <1>4, <1>7, Distinct DEF Core, ThreadInv, LinkInv, Known, thread
  <2>3. RegionInv'
    BY <1>1, <1>2, <1>4, <1>7, <2>1, Distinct, SameKinds DEF RegionInv, thread
  <2>4. MetInv'
    BY <1>1, <1>7, Distinct DEF MetInv
  <2>5. ShownInv'
    <3> SUFFICES ASSUME ~dirty, OneTimeRegion, NEW i \in Ids, i \in Masks => Cover(i)
                 PROVE  Passed(i)'
      BY <1>2, SameKinds DEF ShownInv
    <3>1. i < cursor' => region'[i] = "none"
      BY <1>3, <1>4, <1>7, Order
    <3> QED
      BY <1>1, <1>7, <3>1, Distinct DEF Passed
  <2> QED
    BY <2>2, <2>3, <2>4, <2>5 DEF Core
<1> QED
  BY <1>1, <1>6, <1>7, Looped, Steps

(* The thread is started: its region is made later, by the thread.         *)
LEMMA CreateClockInv ==
    ASSUME Types, Core, Create, enabled[cursor], cursor \in Clocks, ~stray'
    PROVE  Core'
<1>1. todo = Creating /\ todo' = Signalling /\ cursor' = cursor
  BY Position, Called DEF Create, Types
<1>2. /\ UNCHANGED <<params, region, dirty, retyped>>
      /\ clock' = "new" /\ waits' = "null" /\ g_osd_signal' = "null" /\ met' /\ clock = "none"
  BY DEF Create
<1>3. ~retyped => \A k \in Clocks : region[k] = "none"
  BY <1>1, <1>2, Distinct DEF Core, RegionInv
<1>4. ThreadInv' /\ LinkInv' /\ MetInv'
  BY <1>1, <1>2, Distinct, SameKinds DEF Core, ThreadInv, LinkInv, MetInv, Known
<1>5. RegionInv'
  <2>1. osd_time_id \in Clocks /\ Clocks # {}
    BY TimeRegion
  <2> QED BY <1>1, <1>2, <1>3, <2>1, SameKinds DEF RegionInv
<1>6. ShownInv'
  <2> SUFFICES ASSUME ~dirty, OneTimeRegion, NEW i \in Ids, i \in Masks => Cover(i)
               PROVE  Passed(i)'
    BY <1>2, SameKinds DEF ShownInv
  <2>1. IF i < cursor THEN Matches(i) ELSE region[i] = "none"
    BY <1>1 DEF Core, ShownInv, Passed
  <2>2. CASE i = cursor
    <3>1. ~retyped
      BY <1>1, Distinct DEF Core, LinkInv
    <3>2. Matches(i)'
      BY <1>2, <1>3, <2>2, <3>1, SameKinds DEF Matches, params
    <3> QED
      BY <1>1, <2>2, <3>2, Order, Distinct DEF Passed
  <2>3. CASE i # cursor
    <3>1. i \notin Clocks
      BY <2>3 DEF OneTimeRegion
    <3>2. IF i < cursor THEN Matches(i)' ELSE region'[i] = "none"
      BY <1>2, <2>1, <3>1, SameKinds DEF Matches, params
    <3> QED
      BY <1>1, <2>3, <3>2, Order, Distinct DEF Passed
  <2> QED
    BY <2>2, <2>3
<1> QED
  BY <1>4, <1>5, <1>6 DEF Core

(* Any other region is made at once, if it is enabled.                     *)
LEMMA CreateRegionInv ==
    ASSUME Types, Core, Create, ~(enabled[cursor] /\ cursor \in Clocks)
    PROVE  Core'
<1>1. todo = Creating /\ Repeat
  BY Position DEF Create, Types
<1>2. UNCHANGED <<params, g_osd_signal, thread, dirty, retyped>>
  BY DEF Create
<1>3. /\ \A i \in Ids : i # cursor => region'[i] = region[i]
      /\ ~enabled[cursor] => region' = region
      /\ enabled[cursor] /\ (cursor \in Masks => Cover(cursor)) /\ region[cursor] = "none"
           => region'[cursor] = "shown"
  BY DEF Create, Created, Types, TypeOK
<1>4. \A k \in Clocks : region'[k] = region[k]
  BY <1>3 DEF Clocks
<1>5. \/ cursor = MAX_OSD_NUM - 1 /\ todo' = Idle /\ cursor' = 0
      \/ cursor # MAX_OSD_NUM - 1 /\ todo' = todo /\ cursor' = cursor + 1 /\ cursor' \in Ids
  BY <1>1, Looped, Steps
<1>6. ThreadInv' /\ LinkInv'
  BY <1>1, <1>2, <1>5, Distinct DEF Core, ThreadInv, LinkInv, Known, thread
<1>7. RegionInv'
  <2>1. clock # "none" /\ ~retyped => osd_time_id \in Clocks
    BY TimeRegion DEF Core, RegionInv
  <2> QED BY <1>1, <1>2, <1>4, <1>5, <2>1, Distinct, SameKinds DEF Core, RegionInv, thread
<1>8. MetInv'
  <2> SUFFICES ASSUME ~dirty, todo' = Creating, OneTimeRegion, NEW k \in Clocks, cursor' <= k
               PROVE  ~met
    BY <1>1, <1>2, <1>5, Distinct, SameKinds DEF MetInv, thread
  <2>1. k \in Ids
    BY DEF Clocks
  <2>2. cursor <= k
    BY <1>5, <2>1, Distinct DEF Types, TypeOK, Ids
  <2> QED BY <1>1, <2>2 DEF Core, MetInv
<1>9. ASSUME ~dirty, OneTimeRegion, NEW i \in Ids, i \in Masks => Cover(i), i < cursor \/ i = cursor
      PROVE  Matches(i)'
  <2>1. IF i < cursor THEN Matches(i) ELSE region[i] = "none"
    BY <1>1, <1>9 DEF Core, ShownInv, Passed
  <2>2. CASE i # cursor
    BY <1>2, <1>3, <1>9, <2>1, <2>2, SameKinds DEF Matches, params, thread
  <2>3. CASE i = cursor
    <3>1. region[i] = "none"
      BY <2>1, <2>3, Order
    <3>2. CASE i \in Clocks
      <4>1. ~enabled[i] /\ cursor <= i
        BY <2>3, <3>2 DEF Types, TypeOK, Ids
      <4>2. clock = "none"
        BY <1>1, <1>9, <3>2, <4>1 DEF Core, ThreadInv, MetInv
      <4> QED
        BY <1>2, <1>3, <2>3, <3>1, <3>2, <4>1, <4>2, SameKinds DEF Matches, params, thread
    <3>3. CASE i \notin Clocks
      BY <1>2, <1>3, <1>9, <2>3, <3>1, <3>3, SameKinds DEF Matches, params, Types, TypeOK
    <3> QED
      BY <3>2, <3>3
  <2> QED
    BY <2>2, <2>3
<1>10. ShownInv'
  <2> SUFFICES ASSUME ~dirty, OneTimeRegion, NEW i \in Ids, i \in Masks => Cover(i)
               PROVE  Passed(i)'
    BY <1>2, SameKinds DEF ShownInv
  <2>1. CASE i < cursor \/ i = cursor
    <3>1. Matches(i)'
      BY <1>9, <2>1
    <3>2. todo' = Creating => i < cursor'
      BY <1>1, <1>5, <2>1, Order, Distinct
    <3> QED
      BY <1>1, <1>5, <3>1, <3>2, Distinct DEF Passed
  <2>2. CASE ~(i < cursor \/ i = cursor)
    <3>1. region[i] = "none"
      BY <1>1, <2>2 DEF Core, ShownInv, Passed
    <3>2. todo' = Creating /\ ~(i < cursor')
      BY <1>1, <1>5, <2>2, Order
    <3> QED
      BY <1>3, <2>2, <3>1, <3>2, Distinct DEF Passed
  <2> QED
    BY <2>1, <2>2
<1> QED
  BY <1>6, <1>7, <1>8, <1>10 DEF Core

LEMMA CreateSignalInv ==
    ASSUME Types, Core, CreateSignal
    PROVE  Core'
<1>1. todo = Signalling
  BY Position DEF CreateSignal, Types
<1>2. UNCHANGED <<params, region, thread, dirty, retyped>> /\ g_osd_signal' = "clear"
  BY DEF CreateSignal
<1>3. \/ cursor = MAX_OSD_NUM - 1 /\ todo' = Idle /\ cursor' = 0
      \/ cursor # MAX_OSD_NUM - 1 /\ todo' = Creating /\ cursor' = cursor + 1 /\ cursor' \in Ids
  <2>1. cursor # MAX_OSD_NUM - 1 => cursor + 1 \in Ids
    BY OsdAssumption DEF Types, TypeOK, Ids
  <2>2. Tail(todo) = Creating /\ Tail(Tail(todo)) = Idle
    BY <1>1, Steps
  <2> QED
    BY <2>1, <2>2 DEF CreateSignal
<1>4. clock # "none" /\ met /\ (~dirty => cursor \in Clocks)
  BY <1>1 DEF Core, ThreadInv, MetInv
<1>5. ThreadInv' /\ LinkInv'
  BY <1>1, <1>2, <1>3, <1>4, Distinct DEF Core, ThreadInv, LinkInv, Known, thread
<1>6. RegionInv'
  BY <1>1, <1>2, <1>3, <1>4, Distinct, SameKinds DEF Core, RegionInv, thread
<1>7. MetInv'
  <2> SUFFICES ASSUME ~dirty, todo' = Creating, OneTimeRegion, NEW k \in Clocks, cursor' <= k
               PROVE  FALSE
    BY <1>2, <1>3, Distinct, SameKinds DEF MetInv
  <2>1. k = cursor
    BY <1>4 DEF OneTimeRegion
  <2> QED BY <1>3, <2>1, Distinct DEF Types, TypeOK, Ids
<1>8. ShownInv'
  <2> SUFFICES ASSUME ~dirty, OneTimeRegion, NEW i \in Ids, i \in Masks => Cover(i)
               PROVE  Passed(i)'
    BY <1>2, SameKinds DEF ShownInv
  <2>1. IF i < cursor \/ i = cursor THEN Matches(i) ELSE region[i] = "none"
    BY <1>1, Order DEF Core, ShownInv, Passed
  <2>2. IF i < cursor \/ i = cursor THEN Matches(i)' ELSE region'[i] = "none"
    BY <1>2, <2>1, SameKinds DEF Matches, params, thread
  <2>3. IF todo' = Creating THEN i < cursor' <=> i < cursor \/ i = cursor
                            ELSE i < cursor \/ i = cursor
    BY <1>3, Order, Distinct
  <2> QED
    BY <1>3, <2>2, <2>3, Distinct DEF Passed
<1> QED
  BY <1>5, <1>6, <1>7, <1>8 DEF Core

LEMMA CreateSignalFailsInv ==
    ASSUME Types, Core, CreateSignalFails
    PROVE  Core'
<1>1. todo = Signalling /\ todo' = Locked
  BY Position DEF CreateSignalFails, Locked, Types
<1>2. UNCHANGED <<params, region, g_osd_signal, thread, dirty, retyped>>
  BY DEF CreateSignalFails
<1>3. ThreadInv' /\ LinkInv'
  BY <1>1, <1>2, Distinct DEF Core, ThreadInv, LinkInv, Known, thread
<1>4. RegionInv'
  BY <1>1, <1>2, Distinct, SameKinds DEF Core, ThreadInv, RegionInv, thread
<1>5. MetInv' /\ ShownInv'
  BY <1>1, Distinct DEF MetInv, ShownInv, Passed
<1> QED
  BY <1>3, <1>4, <1>5 DEF Core

(* The masks are taken away.                                               *)
LEMMA UnmaskInv ==
    ASSUME Types, Core, Unmask
    PROVE  Core'
<1>1. todo = Unmasking /\ Repeat
  BY Position DEF Unmask, Types
<1>2. UNCHANGED <<params, g_osd_signal, thread, dirty, retyped>>
  BY DEF Unmask
<1>3. /\ \A i \in Ids : i # cursor \/ i \notin Masks => region'[i] = region[i]
      /\ cursor \in Masks /\ Cover(cursor) => region'[cursor] = "none"
  BY DEF Unmask, Destroyed, Types, TypeOK
<1>4. \A k \in Clocks : region'[k] = region[k]
  BY <1>3 DEF Clocks, Masks
<1>5. \/ cursor = MAX_OSD_NUM - 1 /\ todo' = Masking /\ cursor' = 0
      \/ cursor # MAX_OSD_NUM - 1 /\ todo' = todo /\ cursor' = cursor + 1 /\ cursor' \in Ids
  BY <1>1, Looped, Steps
<1>6. ThreadInv' /\ LinkInv'
  BY <1>1, <1>2, <1>5, Distinct DEF Core, ThreadInv, LinkInv, Known, thread
<1>7. RegionInv' /\ MetInv'
  <2>1. clock # "none" /\ ~retyped => osd_time_id \in Clocks
    BY TimeRegion DEF Core, RegionInv
  <2> QED
    BY <1>1, <1>2, <1>4, <1>5, <2>1, Distinct, SameKinds DEF Core, RegionInv, MetInv, thread
<1>8. ShownInv'
  <2> SUFFICES ASSUME ~dirty, OneTimeRegion, NEW i \in Ids, i \in Masks => Cover(i)
               PROVE  Passed(i)'
    BY <1>2, SameKinds DEF ShownInv
  <2>1. IF i \in Masks /\ i < cursor THEN region[i] = "none" ELSE Matches(i)
    BY <1>1 DEF Core, ShownInv, Passed
  <2>2. IF i \in Masks /\ (i < cursor \/ i = cursor) THEN region'[i] = "none" ELSE Matches(i)'
    BY <1>2, <1>3, <2>1, SameKinds DEF Matches, params, thread
  <2>3. IF todo' = Masking THEN (i < cursor \/ i = cursor) /\ i >= cursor'
                           ELSE i < cursor' <=> i < cursor \/ i = cursor
    BY <1>1, <1>5, Order, Distinct
  <2> QED
    BY <1>1, <1>2, <1>5, <2>2, <2>3, Distinct, SameKinds DEF Passed
<1> QED
  BY <1>6, <1>7, <1>8 DEF Core

(* The enabled masks are made again.                                       *)
LEMMA MaskInv ==
    ASSUME Types, Core, Mask
    PROVE  Core'
<1>1. todo = Masking /\ Repeat
  BY Position DEF Mask, Types
<1>2. UNCHANGED <<params, g_osd_signal, thread, dirty, retyped>>
  BY DEF Mask
<1>3. /\ \A i \in Ids : i # cursor \/ i \notin Masks \/ ~enabled[i] => region'[i] = region[i]
      /\ cursor \in Masks /\ Cover(cursor) /\ enabled[cursor] /\ region[cursor] = "none"
           => region'[cursor] = "shown"
  BY DEF Mask, Created, Types, TypeOK
<1>4. \A k \in Clocks : region'[k] = region[k]
  BY <1>3 DEF Clocks, Masks
<1>5. \/ cursor = MAX_OSD_NUM - 1 /\ todo' = Idle /\ cursor' = 0
      \/ cursor # MAX_OSD_NUM - 1 /\ todo' = todo /\ cursor' = cursor + 1 /\ cursor' \in Ids
  BY <1>1, Looped, Steps
<1>6. ThreadInv' /\ LinkInv'
  BY <1>1, <1>2, <1>5, Distinct DEF Core, ThreadInv, LinkInv, Known, thread
<1>7. RegionInv' /\ MetInv'
  <2>1. clock # "none" /\ ~retyped => osd_time_id \in Clocks
    BY TimeRegion DEF Core, RegionInv
  <2> QED
    BY <1>1, <1>2, <1>4, <1>5, <2>1, Distinct, SameKinds DEF Core, RegionInv, MetInv, thread
<1>8. ShownInv'
  <2> SUFFICES ASSUME ~dirty, OneTimeRegion, NEW i \in Ids, i \in Masks => Cover(i)
               PROVE  Passed(i)'
    BY <1>2, SameKinds DEF ShownInv
  <2>1. IF i \in Masks /\ ~(i < cursor) THEN region[i] = "none" ELSE Matches(i)
    BY <1>1, Order DEF Core, ShownInv, Passed
  <2>2. i \in Masks => i \notin Clocks
    BY DEF Masks, Clocks
  <2>3. IF i \in Masks /\ ~(i < cursor) /\ i # cursor THEN region'[i] = "none" ELSE Matches(i)'
    <3>1. CASE i = cursor /\ i \in Masks
      <4>1. region[i] = "none"
        BY <2>1, <3>1, Order
      <4> QED
        BY <1>2, <1>3, <2>2, <3>1, <4>1, SameKinds DEF Matches, params, Types, TypeOK
    <3>2. CASE ~(i = cursor /\ i \in Masks)
      BY <1>2, <1>3, <2>1, <3>2, SameKinds DEF Matches, params, thread
    <3> QED
      BY <3>1, <3>2
  <2>4. todo' = Masking => (i >= cursor' <=> ~(i < cursor) /\ i # cursor)
    BY <1>1, <1>5, Order, Distinct
  <2>5. todo' = Idle => i < cursor \/ i = cursor
    BY <1>1, <1>5, Order, Distinct
  <2> QED
    BY <1>1, <1>2, <1>5, <2>3, <2>4, <2>5, Distinct, SameKinds DEF Passed
<1> QED
  BY <1>6, <1>7, <1>8 DEF Core

-----------------------------------------------------------------------------
(* The time thread.                                                        *)
LEMMA ClockBeginInv ==
    ASSUME Types, Core, ClockBegin
    PROVE  Core'
<1>1. /\ UNCHANGED <<params, g_osd_signal, waits, met, call, dirty, retyped>>
      /\ clock = "new" /\ clock' = "loop"
  BY DEF ClockBegin
<1>2. ~retyped => /\ osd_time_id \in Clocks
                  /\ region[osd_time_id] = "none"
  BY <1>1, TimeRegion DEF Core, RegionInv
<1>3. /\ \A i \in Ids : i # osd_time_id => region'[i] = region[i]
      /\ region[osd_time_id] = "none" =>
           region'[osd_time_id] = IF enabled[osd_time_id] THEN "shown" ELSE "hidden"
  BY TimeRegion DEF ClockBegin, Created, Types, TypeOK
<1>4. todo # Destroying /\ (todo = Creating => met)
  BY <1>1 DEF Core, ThreadInv
<1>5. ThreadInv' /\ LinkInv'
  BY <1>1 DEF Core, ThreadInv, LinkInv, Known, call
<1>6. RegionInv' /\ MetInv'
  BY <1>1, <1>2, <1>3, SameKinds DEF Core, RegionInv, MetInv, call
<1>7. ShownInv'
  <2> SUFFICES ASSUME ~dirty, OneTimeRegion, NEW i \in Ids, i \in Masks => Cover(i)
               PROVE  Passed(i)'
    BY <1>1, SameKinds DEF ShownInv
  <2>1. CASE todo \in {Stopping, Joining}
    BY <1>1, <2>1, Distinct DEF Passed, call
  <2>2. CASE todo \notin {Stopping, Joining}
    <3>1. Passed(i) /\ ~retyped
      BY <2>2 DEF Core, ShownInv, LinkInv
    <3>2. i \in Clocks <=> i = osd_time_id
      BY <1>2, <3>1, TimeRegion
    <3>3. Matches(i) => Matches(i)'
      BY <1>1, <1>2, <1>3, <3>1, <3>2, SameKinds DEF Matches, params
    <3>4. i \in Clocks => i \notin Masks
      BY DEF Clocks, Masks
    <3>5. i \in Clocks /\ todo = Creating => i < cursor
      <4> SUFFICES ASSUME i \in Clocks, todo = Creating PROVE i < cursor
        OBVIOUS
      <4>1. ~(cursor <= i)
        BY <1>4 DEF Core, MetInv
      <4> QED BY <4>1 DEF Types, TypeOK, Ids
    <3>6. i \in Clocks /\ todo = Signalling => i <= cursor
      <4> SUFFICES ASSUME i \in Clocks, todo = Signalling PROVE i <= cursor
        OBVIOUS
      <4>1. i = cursor
        BY DEF Core, MetInv, OneTimeRegion
      <4> QED BY <4>1 DEF Types, TypeOK, Ids
    <3> QED
      BY <1>1, <1>3, <1>4, <3>1, <3>2, <3>3, <3>4, <3>5, <3>6, SameKinds DEF Passed, call
  <2> QED
    BY <2>1, <2>2
<1> QED
  BY <1>5, <1>6, <1>7 DEF Core

LEMMA ClockLoopInv ==
    ASSUME Types, Core, ClockTest \/ ClockWoken
    PROVE  Core'
<1>1. /\ UNCHANGED <<params, region, met, call, dirty, retyped>>
      /\ clock \in {"loop", "wait"} /\ clock' \in {"loop", "wait", "exit"}
      /\ g_osd_signal' = "null" <=> g_osd_signal = "null"
      /\ clock' = "exit" => waits' = "null"
      /\ waits' \in {"null", waits, g_osd_signal}
  BY DEF ClockTest, ClockWoken, Types, TypeOK
<1>2. ThreadInv' /\ LinkInv'
  BY <1>1 DEF Core, ThreadInv, LinkInv, Known, call
<1>3. RegionInv' /\ MetInv'
  BY <1>1, SameKinds DEF Core, RegionInv, MetInv, call
<1>4. ShownInv'
  <2> SUFFICES ASSUME ~dirty, OneTimeRegion, NEW i \in Ids, i \in Masks => Cover(i)
               PROVE  Passed(i)'
    BY <1>1, SameKinds DEF ShownInv
  <2>1. Passed(i)
    BY DEF Core, ShownInv
  <2>2. Matches(i) => Matches(i)'
    BY <1>1, SameKinds DEF Matches, params
  <2> QED BY <1>1, <2>1, <2>2, SameKinds DEF Passed, call
<1> QED
  BY <1>2, <1>3, <1>4 DEF Core

-----------------------------------------------------------------------------
LEMMA InitInv == Init => OsdInv
<1> SUFFICES ASSUME Init PROVE OsdInv
  OBVIOUS
<1>1. todo = Creating /\ cursor = 0 /\ ~dirty /\ ~retyped /\ ~met
  BY Called DEF Init
<1>2. /\ region = [i \in Ids |-> "none"] /\ g_osd_signal = "null" /\ clock = "none" /\ waits = "null"
  BY DEF Init
<1>3. Types
  <2>1. 0 \in Ids
    BY OsdAssumption DEF Ids
  <2>2. todo \in Programs
    BY <1>1 DEF Programs
  <2> QED BY <1>1, <1>2, <2>1, <2>2, OsdAssumption DEF Init, Types, TypeOK
<1>4. ThreadInv /\ RegionInv /\ LinkInv /\ MetInv
  BY <1>1, <1>2, Distinct DEF ThreadInv, RegionInv, LinkInv, MetInv, Known, Clocks
<1>5. ShownInv
  BY <1>1, <1>2, <1>3, Order, Distinct DEF ShownInv, Passed
<1> QED
  BY <1>3, <1>4, <1>5 DEF OsdInv, Core

LEMMA NextInv == OsdInv /\ [Next]_vars => OsdInv'
<1> SUFFICES ASSUME OsdInv, [Next]_vars PROVE OsdInv'
  OBVIOUS
<1>1. Types /\ Types' /\ (stray => stray')
  BY TypesStep DEF OsdInv
<1> SUFFICES ASSUME ~stray' PROVE Core'
  BY <1>1 DEF OsdInv
<1>2. Core /\ ~stray
  BY <1>1 DEF OsdInv
<1>3. CASE UNCHANGED vars
  <2>1. UNCHANGED params
    BY <1>3 DEF vars
  <2>2. ThreadInv' /\ LinkInv'
    BY <1>2, <1>3 DEF Core, ThreadInv, LinkInv, Known, vars, thread, call
  <2>3. RegionInv' /\ MetInv'
    BY <1>2, <1>3, <2>1, SameKinds DEF Core, RegionInv, MetInv, vars, thread, call
  <2>4. \A i : Passed(i) => Passed(i)'
    BY <1>3, <2>1, SameKinds DEF Passed, Matches, vars, params, thread, call
  <2>5. ShownInv'
    BY <1>2, <1>3, <2>1, <2>4, SameKinds DEF Core, ShownInv, vars
  <2> QED BY <2>2, <2>3, <2>5 DEF Core
<1>4. ASSUME NEW i \in Ids, rk_osd_set_enabled(i) \/ rk_osd_set_style(i) \/ rk_osd_set_type(i)
      PROVE  Core'
  <2>1. Sets /\ (retyped' \/ UNCHANGED <<type, retyped>>)
    BY <1>4 DEF rk_osd_set_enabled, rk_osd_set_style, rk_osd_set_type
  <2> QED BY <1>1, <1>2, <2>1, SetInv
<1>5. CASE Restart \/ MaskRestart
  BY <1>1, <1>2, <1>5, RestartInv, MaskRestartInv
<1>6. CASE CallStep \/ CreateSignalFails
  BY <1>1, <1>2, <1>6, StopInv, JoinInv, DestroyInv, CreateClockInv, CreateRegionInv,
     CreateSignalInv, CreateSignalFailsInv, UnmaskInv, MaskInv DEF CallStep
<1>7. CASE ClockStep
  BY <1>1, <1>2, <1>7, ClockBeginInv, ClockLoopInv DEF ClockStep
<1>8. CASE Stray
  BY <1>2, <1>8 DEF Stray
<1> QED
  BY <1>3, <1>4, <1>5, <1>6, <1>7, <1>8 DEF Next

(* The invariant, for any regions of any types and any number of calls.    *)
THEOREM OsdInvariant == Spec => []OsdInv
BY InitInv, NextInv, PTL DEF Spec

(* The display's variables keep their types; no loop over the regions, in  *)
(* rk_osd_init, rk_osd_deinit or rk_osd_privacy_mask_restart, runs past    *)
(* the last region, however many time threads were started.                *)
THEOREM OsdTypes == Spec => []TypeOK
<1>1. OsdInv => TypeOK
  BY DEF OsdInv, Types
<1> QED BY <1>1, OsdInvariant, PTL

(* When rk_osd_restart is over and no parameter was changed since it       *)
(* began, the regions shown are the enabled ones, whatever rk_osd_set_type *)
(* had changed before, if one region shows the time.                       *)
THEOREM EnabledIsShown == Spec => []ShownMatches
<1>1. OsdInv => ShownMatches
  <2> SUFFICES ASSUME OsdInv, Settled, OneTimeRegion, ~stray,
                      NEW i \in Ids, i \in Masks => Cover(i)
               PROVE  region[i] = IF enabled[i] THEN "shown" ELSE "none"
    BY DEF ShownMatches
  <2>1. todo = Idle /\ clock # "new" /\ ~dirty
    BY DEF Settled, Idle
  <2>2. Matches(i)
    BY <2>1 DEF OsdInv, Core, ShownInv, Passed
  <2> QED
    BY <2>1, <2>2 DEF Matches
<1> QED BY <1>1, OsdInvariant, PTL

(* osd_time_server waits on no signal that rk_osd_deinit has freed and     *)
(* draws on no region that it has destroyed, unless a second thread was    *)
(* started for a second region of the time.                                *)
THEOREM ClockProtected == Spec => []ClockSafe
<1>1. OsdInv => ClockSafe
  BY DEF OsdInv, Core, ThreadInv, RegionInv, ClockSafe
<1> QED BY <1>1, OsdInvariant, PTL

(* rk_osd_init starts a time thread next to another one only for a second  *)
(* region of the time that it meets in the same loop: whatever types are   *)
(* set and whenever, no earlier start leaves a thread behind.              *)
THEOREM OneTimeThread == Spec => []OneClock
<1>1. OsdInv => OneClock
  <2> SUFFICES ASSUME OsdInv, ~stray PROVE OneClock
    BY DEF OneClock
  <2>1. ASSUME At("create"), ~met
        PROVE  clock = "none"
    <3>1. todo = Creating
      BY <2>1, Position DEF OsdInv, Types
    <3> QED
      BY <2>1, <3>1 DEF OsdInv, Core, ThreadInv
  <2>2. ASSUME todo = << >>
        PROVE  clock # "none" <=> g_osd_signal # "null"
    <3>1. todo \notin {Signalling, Locked}
      BY <2>2, Distinct DEF Idle
    <3> QED
      BY <3>1 DEF OsdInv, Core, ThreadInv, Known
  <2> QED
    BY <2>1, <2>2 DEF OneClock
<1> QED BY <1>1, OsdInvariant, PTL
=============================================================================
