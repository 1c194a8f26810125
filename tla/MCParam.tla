------------------------------ MODULE MCParam -------------------------------
(* Instances of Param for TLC: one user in the factory file, none in the   *)
(* imported one, and a table that starts with two slots.                   *)
EXTENDS Param

CONSTANTS u0, plain, marked

(* A value is cut at a ';' or '#' when it is read back.                    *)
MCReread(v) == IF v = marked THEN plain ELSE v

Lines(s, fields, v) ==
    <<Entry(Section(s), NoValue)>> \o [i \in 1 .. Len(fields) |-> Entry(UserKey(s, fields[i]), v)]

MCSystem(num) == <<Entry(Section(System), NoValue), Entry(user_num, num), Entry(setting, plain)>>
MCFactory == MCSystem(1) \o Lines(u0, <<"user_level", "user_name", "password">>, plain)
MCImport == MCSystem(0)

(* These files, users and values are such that users are counted.          *)
ASSUME MCParamAssumption == UsersCounted
=============================================================================
