------------------------------ MODULE Entries ------------------------------
(***************************************************************************)
(* The contents of CONFIG_DB and what a list of hash commands does to      *)
(* them.  The server that runs the commands is not under src/, so every    *)
(* definition here is external; db.go sends HMSET, HDEL and DEL.           *)
(*                                                                         *)
(* A hash without fields does not exist, so an entry is a total function   *)
(* on Field and an absent entry maps every field to Absent.                *)
(***************************************************************************)
EXTENDS Naturals, Sequences

CONSTANTS Key,      \* hash keys of CONFIG_DB
          Table,    \* tables of CONFIG_DB
          TableOf,  \* the table a key belongs to
          Field,    \* fields of a hash
          Val,      \* values of a field
          Absent,   \* "no such field"
          InitialStores  \* contents of the database when the program starts

Entry   == [Field -> Val \cup {Absent}]
NoEntry == [f \in Field |-> Absent]
Populated(e) == \E f \in Field : e[f] # Absent

ASSUME EntriesAssumption ==
  /\ Key \cap Table = {}
  /\ TableOf \in [Key -> Table]
  /\ Absent \notin Val
  /\ InitialStores \subseteq [Key -> Entry]

(* HMSET writes the fields that val has, HDEL removes the fields that val  *)
(* names, DEL removes the hash.                                            *)
Cmd == [op : {"HMSET", "HDEL", "DEL"}, key : Key, val : Entry]

Hits(cmd, k, f) == cmd.key = k /\ (cmd.op = "DEL" \/ cmd.val[f] # Absent)
Leaves(cmd, f)  == IF cmd.op = "HMSET" THEN cmd.val[f] ELSE Absent

(* Command i is the last of cmds that says anything about field f of k.    *)
LastHit(cmds, i, k, f) ==
  /\ Hits(cmds[i], k, f)
  /\ \A j \in DOMAIN cmds : j > i => ~Hits(cmds[j], k, f)

(* The store after the commands of cmds ran one after the other.           *)
Effect(st, cmds) ==
  [k \in Key |-> [f \in Field |->
     IF \E i \in DOMAIN cmds : LastHit(cmds, i, k, f)
     THEN Leaves(cmds[CHOOSE i \in DOMAIN cmds : LastHit(cmds, i, k, f)], f)
     ELSE st[k][f]]]

(* The keys those commands modify: HMSET always does, a deletion only when *)
(* it finds something to delete.                                           *)
Touched(st, cmds) ==
  {k \in Key : \E i \in DOMAIN cmds :
     /\ cmds[i].key = k
     /\ \/ cmds[i].op = "HMSET"
        \/ \E f \in Field : Hits(cmds[i], k, f) /\ st[k][f] # Absent}

TablesOf(cmds) == {TableOf[cmds[i].key] : i \in DOMAIN cmds}
=============================================================================
