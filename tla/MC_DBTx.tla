------------------------------- MODULE MC_DBTx -------------------------------
(***************************************************************************)
(* DB objects over one or two entries of one table, with one or two fields *)
(* that are set or not.                                                    *)
(* c1 may do anything; the other object deletes, commits and writes        *)
(* directly, but neither reads nor sets.                                   *)
(***************************************************************************)
EXTENDS DBTx, TLC

CONSTANTS c1, k1, k2, t1, f1, x

MCTableOf  == [k \in Key |-> t1]
MCFull     == [f \in Field |-> IF f = f1 THEN x ELSE Absent]
MCStores   == {[k \in Key |-> MCFull]}
MCWatch    == [c \in Conn |-> IF c = c1 THEN {{t1}, {k1}} ELSE {{}}]
MCTables   == [c \in Conn |-> IF c = c1 THEN {{t1}} ELSE {{}}]
MCWritten  == [c \in Conn |-> IF c = c1 THEN {MCFull} ELSE {}]
MCAnything == [c \in Conn |-> {v \in Entry : Populated(v)}]
MCReadKeys == [c \in Conn |-> IF c = c1 THEN {k1} ELSE {}]
=============================================================================
