---------------------------- MODULE EntriesProofs ---------------------------
(***************************************************************************)
(* Effect, which looks for the last command that says anything about a     *)
(* field, is what running the commands one after the other gives.          *)
(***************************************************************************)
EXTENDS Entries, TLAPS

LEMMA LastHitUnique ==
  ASSUME NEW cmds \in Seq(Cmd), NEW k, NEW f,
         NEW i \in DOMAIN cmds, LastHit(cmds, i, k, f)
  PROVE  i = CHOOSE j \in DOMAIN cmds : LastHit(cmds, j, k, f)
<1>1. ASSUME NEW j \in DOMAIN cmds, LastHit(cmds, j, k, f)
      PROVE  j = i
  BY <1>1 DEF LastHit
<1> QED
  BY <1>1

(* The effect on one field, by its last command or by the lack of one.     *)
LEMMA EffectHit ==
  ASSUME NEW st, NEW cmds \in Seq(Cmd), NEW k \in Key, NEW f \in Field,
         NEW i \in DOMAIN cmds, LastHit(cmds, i, k, f)
  PROVE  Effect(st, cmds)[k][f] = Leaves(cmds[i], f)
  BY LastHitUnique DEF Effect

LEMMA EffectMiss ==
  ASSUME NEW st, NEW cmds, NEW k \in Key, NEW f \in Field,
         \A i \in DOMAIN cmds : ~LastHit(cmds, i, k, f)
  PROVE  Effect(st, cmds)[k][f] = st[k][f]
  BY DEF Effect

(* One more command works on what the ones before it left: a queue that    *)
(* EXEC runs is the same as its commands sent one by one to an undisturbed *)
(* store, which is what the CommitTx of db.go relies on when it replays    *)
(* d.txCmds in order.                                                      *)
THEOREM EffectIsSequential ==
  ASSUME NEW st \in [Key -> Entry], NEW cmds \in Seq(Cmd), NEW cmd \in Cmd
  PROVE  Effect(st, Append(cmds, cmd)) = Effect(Effect(st, cmds), <<cmd>>)
<1> DEFINE all == Append(cmds, cmd)
           one == <<cmd>>
           n   == Len(cmds) + 1
<1>1. /\ all \in Seq(Cmd) /\ one \in Seq(Cmd) /\ n \in Nat \ {0}
      /\ DOMAIN one = {1} /\ one[1] = cmd
      /\ DOMAIN all = 1..n /\ DOMAIN cmds = 1..(n - 1)
      /\ all[n] = cmd /\ \A i \in DOMAIN cmds : all[i] = cmds[i]
  OBVIOUS
<1> HIDE DEF all, one, n
<1>2. ASSUME NEW k \in Key, NEW f \in Field
      PROVE  Effect(st, all)[k][f] = Effect(Effect(st, cmds), one)[k][f]
  <2>1. CASE Hits(cmd, k, f)
    <3>1. LastHit(all, n, k, f)
      BY <1>1, <2>1 DEF LastHit
    <3>2. LastHit(one, 1, k, f)
      BY <1>1, <2>1 DEF LastHit
    <3>3. Effect(st, all)[k][f] = Leaves(cmd, f)
      <4>1. n \in DOMAIN all /\ all[n] = cmd
        BY <1>1
      <4> QED
        BY <1>1, <3>1, <4>1, EffectHit
    <3>4. Effect(Effect(st, cmds), one)[k][f] = Leaves(cmd, f)
      BY <1>1, <3>2, EffectHit
    <3> QED
      BY <3>3, <3>4
  <2>2. CASE ~Hits(cmd, k, f)
    <3>1. Effect(Effect(st, cmds), one)[k][f] = Effect(st, cmds)[k][f]
      <4>1. \A i \in DOMAIN one : ~LastHit(one, i, k, f)
        BY <1>1, <2>2 DEF LastHit
      <4> QED
        BY <4>1, EffectMiss
    <3>2. \A i \in DOMAIN cmds : LastHit(all, i, k, f) <=> LastHit(cmds, i, k, f)
      BY <1>1, <2>2 DEF LastHit
    <3>3. ~LastHit(all, n, k, f)
      BY <1>1, <2>2 DEF LastHit
    <3>4. CASE \E i \in DOMAIN cmds : LastHit(cmds, i, k, f)
      <4>1. PICK i \in DOMAIN cmds : LastHit(cmds, i, k, f)
        BY <3>4
      <4>2. i \in DOMAIN all /\ LastHit(all, i, k, f) /\ all[i] = cmds[i]
        BY <1>1, <3>2, <4>1
      <4>3. Effect(st, all)[k][f] = Leaves(cmds[i], f)
        BY <1>1, <4>2, EffectHit
      <4>4. Effect(st, cmds)[k][f] = Leaves(cmds[i], f)
        BY <4>1, EffectHit
      <4> QED
        BY <3>1, <4>3, <4>4
    <3>5. CASE \A i \in DOMAIN cmds : ~LastHit(cmds, i, k, f)
      <4>1. \A i \in DOMAIN all : ~LastHit(all, i, k, f)
        BY <1>1, <3>2, <3>3, <3>5
      <4> QED
        BY <3>1, <3>5, <4>1, EffectMiss
    <3> QED
      BY <3>4, <3>5
  <2> QED
    BY <2>1, <2>2
<1> QED
  BY <1>2 DEF Effect, all, one

(* The same, one field at a time.                                          *)
LEMMA EffectOfOneMore ==
  ASSUME NEW st \in [Key -> Entry], NEW cmds \in Seq(Cmd),
         NEW cmd \in Cmd, NEW k \in Key, NEW f \in Field
  PROVE  Effect(st, Append(cmds, cmd))[k][f] =
           IF Hits(cmd, k, f) THEN Leaves(cmd, f) ELSE Effect(st, cmds)[k][f]
<1> DEFINE one == <<cmd>>
<1>1. one \in Seq(Cmd) /\ DOMAIN one = {1} /\ one[1] = cmd
  OBVIOUS
<1>2. Effect(st, Append(cmds, cmd))[k][f] = Effect(Effect(st, cmds), one)[k][f]
  BY EffectIsSequential
<1> HIDE DEF one
<1>3. CASE Hits(cmd, k, f)
  <2>1. LastHit(one, 1, k, f)
    BY <1>1, <1>3 DEF LastHit
  <2> QED
    BY <1>1, <1>2, <1>3, <2>1, EffectHit
<1>4. CASE ~Hits(cmd, k, f)
  <2>1. \A i \in DOMAIN one : ~LastHit(one, i, k, f)
    BY <1>1, <1>4 DEF LastHit
  <2> QED
    BY <1>2, <1>4, <2>1, EffectMiss
<1> QED
  BY <1>3, <1>4

(* A transaction without commands, which CommitTx sends as MULTI and EXEC  *)
(* around its flags alone, leaves CONFIG_DB as it was.                     *)
THEOREM EffectOfNothing ==
  ASSUME NEW st \in [Key -> Entry]
  PROVE  Effect(st, <<>>) = st
<1>1. ASSUME NEW k \in Key, NEW f \in Field
      PROVE  Effect(st, <<>>)[k][f] = st[k][f]
  BY EffectMiss
<1> QED
  BY <1>1 DEF Effect, Entry
=============================================================================
