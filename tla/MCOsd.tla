------------------------------- MODULE MCOsd --------------------------------
(* The ini file for TLC: a text, the time and privacy masks.                *)
EXTENDS Osd

MCFactoryType == [i \in Ids |-> CASE i = 0 -> "bmp" [] i = 1 -> "dateTime" [] OTHER -> "mask"]
=============================================================================
