----------------------------- MODULE MC_Translib -----------------------------
(***************************************************************************)
(* A Set request and a Bulk request of two, served by one or two           *)
(* processes, and a daemon, over two entries of one table.                 *)
(***************************************************************************)
EXTENDS Translib, TLC

CONSTANTS r1, r2, d1, k1, k2, t1, f1, x, p1, p2

MCTableOf  == [k \in Key |-> t1]
MCFull     == [f \in Field |-> x]
MCPart     == [f \in Field |-> IF f = f1 THEN x ELSE Absent]
MCStores   == {[k \in Key |-> MCFull]}
MCWatch    == [c \in Conn |-> {{t1}}]
MCWritten  == [c \in Conn |-> IF c = r1 THEN {MCPart} ELSE {}]
MCWrites   == [c \in Conn |-> IF c = r1 THEN {MCPart, NoEntry} ELSE {}]
MCReadKeys == [c \in Conn |-> IF c = r1 THEN {k1} ELSE {}]
MCAllRead  == [c \in Conn |-> IF c = d1 THEN {} ELSE {k1}]
MCNumOps   == [r \in Request |-> IF r \in Bulk THEN 2 ELSE 1]
MCOneProc  == [r \in Request |-> p1]
MCTwoProcs == [r \in Request |-> IF r = r1 THEN p1 ELSE p2]
=============================================================================
