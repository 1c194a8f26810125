----------------------------- MODULE ParamStore -----------------------------
(***************************************************************************)
(* What the parameters of the camera are meant to be: a map from keys to   *)
(* values in memory, of which saving puts a copy on disk and booting reads *)
(* the copy back.  A parameter is saved with its section: one whose        *)
(* section does not exist is not.                                          *)
(*                                                                         *)
(* Two things may spoil the disk, and nothing else: a crash while the file *)
(* is being written, and saving when there is nothing in memory because an *)
(* earlier save could not open the file.                                   *)
(***************************************************************************)
CONSTANTS
    NoField,      \* the field of a section entry
    Reread(_),    \* a value as it is read back
    Prepared      \* the settings copied to the disk: factory, imported

VARIABLES
    store,        \* the parameters in memory
    disk,         \* the parameters the next boot will find
    writing       \* the file is being written

(* store and disk hold one map or none.                                    *)

vars == <<store, disk, writing>>

Nothing == [k \in {} |-> k]
Sections(m) == {k.sec : k \in {h \in DOMAIN m : h.field = NoField}}
Flat(k) == [sec |-> [flat |-> k.sec], field |-> k.field]

(* What a boot finds after m was saved.                                    *)
Saved(m) ==
    IF Sections(m) = {}
      THEN [f \in {Flat(k) : k \in DOMAIN m} |->
               Reread(m[[sec |-> f.sec.flat, field |-> f.field]])]
      ELSE [k \in {x \in DOMAIN m : x.sec \in Sections(m)} |-> Reread(m[k])]

Init == store = {} /\ disk \in Prepared \cup {{}} /\ writing = FALSE

(* m and w are alike, but for the key k.                                   *)
Differ(m, w, k) ==
    /\ DOMAIN w = DOMAIN m \cup {k}
    /\ \A x \in DOMAIN m \ {k} : w[x] = m[x]

Put ==
    /\ \E m \in store, w \in store' :
         store' = {w} /\ \E k \in DOMAIN w : Differ(m, w, k)
    /\ UNCHANGED <<disk, writing>>

Remove ==
    /\ \E m \in store : \E k \in DOMAIN m : store' = {[x \in DOMAIN m \ {k} |-> m[x]]}
    /\ UNCHANGED <<disk, writing>>

Begin == ~writing /\ writing' = TRUE /\ UNCHANGED <<store, disk>>

(* The end of a save or of a copy.                                         *)
End ==
    /\ writing /\ writing' = FALSE
    /\ \/ disk' = IF store = {} THEN {Nothing} ELSE {Saved(m) : m \in store}
       \/ disk' \in Prepared
    /\ UNCHANGED store

Open ==
    /\ store = {} /\ disk # {} /\ ~writing
    /\ store' = disk
    /\ UNCHANGED <<disk, writing>>

(* Orderly, or by a crash; the disk changes only if it was being written.  *)
Close ==
    /\ store' = {}
    /\ ~writing => UNCHANGED disk
    /\ writing' = FALSE

Next == Put \/ Remove \/ Begin \/ End \/ Open \/ Close

Spec == Init /\ [][Next]_vars
=============================================================================
