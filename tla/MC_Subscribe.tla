---------------------------- MODULE MC_Subscribe ----------------------------
(***************************************************************************)
(* One subscription to a path of each of two databases, and one to the     *)
(* first of those paths; a path reads as "{}" or x.                        *)
(***************************************************************************)
EXTENDS Subscribe, TLC

CONSTANTS s1, s2, p1, p2, d1, d2

MCWanted == [s \in Sub |-> [d \in Db |->
  IF s = s1 THEN IF d = d1 THEN <<p1>> ELSE <<p2>>
  ELSE IF d = d1 THEN <<p1>> ELSE <<>>]]
=============================================================================
