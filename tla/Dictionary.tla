----------------------------- MODULE Dictionary -----------------------------
(***************************************************************************)
(* common/param/dictionary.c and iniparser.c: the open table in which the  *)
(* parameters are kept, how it is written to an ini file and read back.    *)
(*                                                                         *)
(* A dictionary is [slots, n]: slots[i] is an entry [key, val] or Empty,   *)
(* and Len(slots) is d->size.  A key is [sec, field]; the entry with field *)
(* NoField and value NoValue stands for the section itself.  Keys are      *)
(* compared as in the code (equal strings; the hash only saves time).      *)
(***************************************************************************)
EXTENDS Integers, Sequences

CONSTANTS
    NoField,    \* the field of a section entry
    NoValue,    \* val = NULL
    DICTMINSZ,  \* 128 in dictionary.c
    Reread(_)   \* what iniparser_line makes of a value written to the file

ASSUME DictionaryAssumption == DICTMINSZ \in Nat \ {0}

Only(S) == CHOOSE x \in S : TRUE

Empty == << >>   \* d->key[i] = NULL

Section(s) == [sec |-> s, field |-> NoField]

(* "sec:field = val" in a file without sections is read as the key         *)
(* ":sec:field", which no caller asks for.                                 *)
Flat(k) == [sec |-> [flat |-> k.sec], field |-> k.field]

Occupied(slots) == {i \in 1 .. Len(slots) : slots[i] # Empty}
At(slots, k) == {i \in Occupied(slots) : slots[i].key = k}
Keys(slots) == {slots[i].key : i \in Occupied(slots)}

(* dictionary_get finds the first slot of a key.                           *)
First(S) == CHOOSE i \in S : \A j \in S : i <= j
dictionary_get(slots, k) == slots[First(At(slots, k))].val

(* The table as a function from keys to values.                            *)
Contents(slots) == [k \in Keys(slots) |-> dictionary_get(slots, k)]

dictionary_grow(slots) == slots \o [i \in 1 .. Len(slots) |-> Empty]

(* The first empty slot from index n (counted from 0) on, wrapping at the  *)
(* end; the loop ends only if there is one.                                *)
Free(slots) == (1 .. Len(slots)) \ Occupied(slots)
Probe(slots, n) ==
    LET after == {i \in Free(slots) : i > n}
    IN IF after # {} THEN First(after) ELSE First(Free(slots))

Entry(k, v) == [key |-> k, val |-> v]
Store(slots, i, k, v) == [slots EXCEPT ![i] = Entry(k, v)]
Clear(slots, i) == [slots EXCEPT ![i] = Empty]
Room(slots, n) == IF n = Len(slots) THEN dictionary_grow(slots) ELSE slots

(* dictionary_set as one step, as iniparser_load uses it.                  *)
dictionary_set(d, k, v) ==
    IF At(d.slots, k) # {}
      THEN [d EXCEPT !.slots = Store(d.slots, First(At(d.slots, k)), k, v)]
      ELSE LET room == Room(d.slots, d.n)
           IN [slots |-> Store(room, Probe(room, d.n), k, v), n |-> d.n + 1]

dictionary_new == [slots |-> [i \in 1 .. DICTMINSZ |-> Empty], n |-> 0]

(* iniparser_load: one dictionary_set per section line and per value line. *)
iniparser_load(lines) ==
    LET load[i \in 0 .. Len(lines)] ==
          IF i = 0 THEN dictionary_new
          ELSE Only({dictionary_set(d, lines[i].key, Reread(lines[i].val)) : d \in {load[i - 1]}})
    IN load[Len(lines)]

-----------------------------------------------------------------------------
(* The elements of s with an index in I, in their order.                   *)
Those(s, I) ==
    LET those[i \in 0 .. Len(s)] ==
          IF i = 0 THEN << >>
          ELSE IF i \in I THEN Append(those[i - 1], s[i]) ELSE those[i - 1]
    IN those[Len(s)]

(* Mutant: keys whose section entry is gone are written too.               *)
dump_ini_all(slots) == Those(slots, Occupied(slots))

(* iniparser_dump_ini: the sections in the order of their entries, each    *)
(* with its keys; a key without a section entry is not written.  Without   *)
(* any section the keys are written flat, and read back as other keys.     *)
iniparser_dump_ini(slots) ==
    LET heads == {i \in Occupied(slots) : slots[i].key.field = NoField}
        keys(h) == {i \in Occupied(slots) \ heads : slots[i].key.sec = slots[h].key.sec}
        text[i \in 0 .. Len(slots)] ==
            IF i = 0 THEN << >>
            ELSE IF i \in heads THEN text[i - 1] \o <<slots[i]>> \o Those(slots, keys(i))
            ELSE text[i - 1]
        used == Those(slots, Occupied(slots))
    IN IF heads = {}
         THEN [i \in 1 .. Len(used) |-> Entry(Flat(used[i].key), used[i].val)]
         ELSE text[Len(slots)]
=============================================================================
