----------------------------- MODULE DBTxProofs -----------------------------
(***************************************************************************)
(* What module DBTx promises for any number of DB objects, keys, tables    *)
(* and commands, and any number of lost connections.                       *)
(***************************************************************************)
EXTENDS DBTx, EntriesProofs

-----------------------------------------------------------------------------
(* A step of one DB object, whatever its client asks to watch, or a panic  *)
(* of the client.  Next takes no other steps, and neither does translib.   *)

AppCall(c) == \/ ReadCall(c) \/ LoopCall(c) \/ LoopStep(c)
              \/ \E ok \in BOOLEAN : WriteCall(c, ok)

DBStep(c) ==
  \/ \E S \in SUBSET (Key \cup Table) : StartTx(c, S) \/ AppendWatchTx(c, S)
  \/ AppCall(c) \/ DirectCall(c) \/ Unwind(c)
  \/ CommitMulti(c) \/ CommitStep(c)
  \/ AbortTx(c) \/ DeleteDB(c)
  \/ Fault(c)

AnyStep == \E c \in Conn : DBStep(c)

LEMMA NextIsStep == Next => AnyStep
<1> SUFFICES ASSUME Next
             PROVE  AnyStep
  OBVIOUS
<1>1. \A c \in Conn : WatchSets[c] \subseteq SUBSET (Key \cup Table)
  BY DBAssumption
<1> QED
  BY <1>1 DEF Next, AnyStep, DBStep, AppCall

-----------------------------------------------------------------------------
(* The types of what the operators build.                                  *)

LEMMA NoEntryType == NoEntry \in Entry
  BY DEF NoEntry, Entry

LEMMA CmdType ==
  ASSUME NEW k \in Key, NEW v \in Entry
  PROVE  HMSet(k, v) \in Cmd /\ HDel(k, v) \in Cmd /\ Del(k) \in Cmd
  BY NoEntryType DEF HMSet, HDel, Del, Cmd

LEMMA ItemType ==
  ASSUME NEW k \in Key, NEW v \in Entry,
         NEW op \in {"CREATE", "UPDATE", "DELETE"}
  PROVE  Item(op, k, v) \in CVLItem
  BY DEF Item, CVLItem

LEMMA ComplementType ==
  ASSUME NEW cur \in Entry, NEW v \in Entry
  PROVE  Complement(cur, v) \in Entry
  BY DEF Complement, Entry

LEMMA SetTypes ==
  ASSUME NEW cur \in Entry, NEW k \in Key, NEW v \in Entry
  PROVE  SetItems(cur, k, v) \in Seq(CVLItem) /\ SetCmds(cur, k, v) \in Seq(Cmd)
<1>1. /\ Item("CREATE", k, v) \in CVLItem
      /\ Item("UPDATE", k, v) \in CVLItem
      /\ Item("DELETE", k, Complement(cur, v)) \in CVLItem
  BY ItemType, ComplementType
<1>2. HMSet(k, v) \in Cmd /\ HDel(k, Complement(cur, v)) \in Cmd
  BY CmdType, ComplementType
<1> QED
  BY <1>1, <1>2 DEF SetItems, SetCmds

(* Running well-formed commands leaves a well-formed store.                *)
LEMMA EffectType ==
  ASSUME NEW st \in [Key -> Entry], NEW cmds \in Seq(Cmd)
  PROVE  Effect(st, cmds) \in [Key -> Entry]
<1> SUFFICES ASSUME NEW k \in Key, NEW f \in Field,
                    NEW i \in DOMAIN cmds, LastHit(cmds, i, k, f)
             PROVE  Leaves(cmds[CHOOSE j \in DOMAIN cmds : LastHit(cmds, j, k, f)], f)
                      \in Val \cup {Absent}
  BY DEF Effect, Entry
<1> DEFINE j == CHOOSE j \in DOMAIN cmds : LastHit(cmds, j, k, f)
<1>1. j \in DOMAIN cmds
  OBVIOUS
<1>2. cmds[j] \in Cmd
  BY <1>1
<1> QED
  BY <1>2 DEF Leaves, Cmd, Entry

LEMMA TouchedType ==
  ASSUME NEW st, NEW cmds
  PROVE  Touched(st, cmds) \subseteq Key
  BY DEF Touched

LEMMA TablesOfType ==
  ASSUME NEW cmds \in Seq(Cmd)
  PROVE  TablesOf(cmds) \subseteq Table
<1>1. \A i \in DOMAIN cmds : cmds[i] \in Cmd
  OBVIOUS
<1>2. \A cmd \in Cmd : cmd.key \in Key
  BY DEF Cmd
<1> QED
  BY <1>1, <1>2, EntriesAssumption DEF TablesOf

-----------------------------------------------------------------------------
(* Every operation of the server leaves it well-formed.                    *)

LEMMA SignalledType ==
  ASSUME RedisTypeOK, NEW S
  PROVE  Signalled(S) \in [Conn -> BOOLEAN]
  BY DEF Signalled, RedisTypeOK

LEMMA WatchTyped ==
  ASSUME RedisTypeOK, NEW c \in Conn, NEW S \in SUBSET (Key \cup Table),
         WATCH(c, S) \/ UNWATCH(c) \/ MULTI(c) \/ Forget(c)
  PROVE  RedisTypeOK'
<1>1. CASE WATCH(c, S)
  BY <1>1 DEF RedisTypeOK, WATCH
<1>2. CASE UNWATCH(c)
  BY <1>2 DEF RedisTypeOK, UNWATCH
<1>3. CASE MULTI(c)
  BY <1>3 DEF RedisTypeOK, MULTI
<1>4. CASE Forget(c)
  BY <1>4 DEF RedisTypeOK, Forget
<1> QED
  BY <1>1, <1>2, <1>3, <1>4

LEMMA HashCommandTyped ==
  ASSUME RedisTypeOK, NEW c \in Conn, NEW cmd \in Cmd, HashCommand(c, cmd)
  PROVE  RedisTypeOK'
<1>0. <<cmd>> \in Seq(Cmd) /\ store \in [Key -> Entry]
  BY DEF RedisTypeOK
<1>1. Effect(store, <<cmd>>) \in [Key -> Entry]
  BY <1>0, EffectType
<1>2. Signalled(Touched(store, <<cmd>>)) \in [Conn -> BOOLEAN]
  BY SignalledType
<1>3. Append(queue[c], cmd) \in Seq(Cmd)
  BY DEF RedisTypeOK
<1>4. CASE multi[c]
  <2>1. (dirty[c] \/ Malformed(cmd)) \in BOOLEAN
    OBVIOUS
  <2> QED
    BY <1>3, <1>4, <2>1 DEF RedisTypeOK, HashCommand
<1>5. CASE ~multi[c]
  BY <1>1, <1>2, <1>5 DEF RedisTypeOK, HashCommand
<1> QED
  BY <1>4, <1>5 DEF HashCommand

LEMMA FlagCommandsTyped ==
  ASSUME RedisTypeOK, NEW c \in Conn, NEW T \in SUBSET Table, FlagCommands(c, T)
  PROVE  RedisTypeOK'
<1>1. Signalled(T) \in [Conn -> BOOLEAN]
  BY SignalledType
<1> QED
  BY <1>1 DEF RedisTypeOK, FlagCommands

LEMMA ExecTyped ==
  ASSUME RedisTypeOK, NEW c \in Conn, EXEC(c)
  PROVE  RedisTypeOK'
<1>1. Effect(store, queue[c]) \in [Key -> Entry]
  BY EffectType DEF RedisTypeOK
<1>2. Signalled(Touched(store, queue[c]) \cup flags[c]) \in [Conn -> BOOLEAN]
  BY SignalledType
<1>3. <<>> \in Seq(Cmd)
  OBVIOUS
<1> QED
  BY <1>1, <1>2, <1>3 DEF RedisTypeOK, EXEC

-----------------------------------------------------------------------------
(* Type correctness.  EndTx closes a CVL session, so a transaction must    *)
(* have one open, and CommitTx must still be in it when it gets there.     *)

Open == \A c \in Conn : /\ InTx(c) => sess[c] > 0
                        /\ commitAt[c] > 0 => InTx(c)

LEMMA DropTyped ==
  ASSUME TypeOK, Open, NEW c \in Conn, Drop(c)
  PROVE  TypeOK' /\ Open'
<1>1. RedisTypeOK'
  BY WatchTyped DEF TypeOK, Drop
<1>2. \A r \in reads[c] :
        [r EXCEPT !.how = IF @ = "none" THEN "none" ELSE "lost"] \in Read
  <2>1. \A r \in Read, h \in {"none", "lost"} : [r EXCEPT !.how = h] \in Read
    BY DEF Read
  <2>2. reads[c] \subseteq Read
    BY DEF TypeOK, DBTypeOK
  <2> QED
    BY <2>1, <2>2
<1>3. reads' \in [Conn -> SUBSET Read]
  BY <1>2 DEF TypeOK, DBTypeOK, Drop
<1>4. /\ link' = [link EXCEPT ![c] = "broken"]
      /\ drops' = drops + 1
      /\ UNCHANGED <<txState, txCmds, cvlData, sess, commitAt, loop, todo,
                     outcome, bare, missed>>
  BY DEF Drop
<1>5. DBTypeOK'
  BY <1>3, <1>4 DEF TypeOK, DBTypeOK
<1> QED
  BY <1>1, <1>5 DEF TypeOK, Open, InTx, Drop

LEMMA RememberTyped ==
  ASSUME TypeOK, NEW c \in Conn, NEW K \in SUBSET Key, Remember(c, K)
  PROVE  reads' \in [Conn -> SUBSET Read]
<1>1. \A k \in K : [key |-> k, val |-> store[k], how |-> HowCovered(c, k)] \in Read
  BY DEF TypeOK, RedisTypeOK, Read, HowCovered
<1> QED
  BY <1>1 DEF TypeOK, DBTypeOK, Remember

LEMMA GetEntryTyped ==
  ASSUME TypeOK, Open, NEW c \in Conn, NEW k \in Key, GetEntry(c, k)
  PROVE  TypeOK' /\ Open'
<1>1. reads' \in [Conn -> SUBSET Read]
  BY RememberTyped DEF GetEntry
<1>2. RedisTypeOK'
  BY DEF TypeOK, RedisTypeOK, GetEntry, serverVars
<1>3. DBTypeOK'
  BY <1>1 DEF TypeOK, DBTypeOK, GetEntry, Redial
<1> QED
  BY <1>2, <1>3 DEF TypeOK, Open, InTx, GetEntry

LEMMA performWatchTyped ==
  ASSUME TypeOK, NEW c \in Conn, NEW S \in SUBSET (Key \cup Table),
         performWatch(c, S)
  PROVE  /\ RedisTypeOK'
         /\ txState' = [txState EXCEPT ![c] = "Watch"]
         /\ link' \in [Conn -> {"up", "broken"}]
<1>1. RedisTypeOK'
  <2>1. CASE WATCH(c, S)
    BY <2>1, WatchTyped DEF TypeOK
  <2>2. CASE UNCHANGED serverVars
    BY <2>2 DEF TypeOK, RedisTypeOK, serverVars
  <2> QED
    BY <2>1, <2>2 DEF performWatch
<1> QED
  BY <1>1 DEF performWatch, Redial, TypeOK, DBTypeOK

LEMMA StartTxTyped ==
  ASSUME TypeOK, Open, NEW c \in Conn, NEW S \in SUBSET (Key \cup Table),
         StartTx(c, S)
  PROVE  TypeOK' /\ Open'
<1>1. CASE ~InTx(c) /\ performWatch(c, S)
  <2>1. /\ RedisTypeOK'
        /\ txState' = [txState EXCEPT ![c] = "Watch"]
        /\ link' \in [Conn -> {"up", "broken"}]
    BY <1>1, performWatchTyped
  <2>. /\ sess' = [sess EXCEPT ![c] = @ + 1]
       /\ outcome' = [outcome EXCEPT ![c] = "none"]
       /\ bare' = [bare EXCEPT ![c] = FALSE]
       /\ UNCHANGED <<txCmds, cvlData, commitAt, loop, todo, drops, reads, missed>>
    BY <1>1 DEF StartTx
  <2>2. DBTypeOK'
    BY <2>1 DEF TypeOK, DBTypeOK
  <2>3. Open'
    BY <1>1, <2>1 DEF TypeOK, DBTypeOK, StartTx, Open, InTx
  <2> QED
    BY <2>1, <2>2, <2>3 DEF TypeOK
<1>2. CASE InTx(c)
  <2>1. RedisTypeOK'
    BY <1>2 DEF TypeOK, RedisTypeOK, StartTx, serverVars
  <2>2. DBTypeOK'
    BY <1>2 DEF TypeOK, DBTypeOK, StartTx
  <2>3. Open'
    BY <1>2 DEF TypeOK, DBTypeOK, StartTx, Open, InTx
  <2> QED
    BY <2>1, <2>2, <2>3 DEF TypeOK
<1> QED
  BY <1>1, <1>2 DEF StartTx

LEMMA AppendWatchTxTyped ==
  ASSUME TypeOK, Open, NEW c \in Conn, NEW S \in SUBSET (Key \cup Table),
         AppendWatchTx(c, S)
  PROVE  TypeOK' /\ Open'
<1>1. /\ RedisTypeOK'
      /\ txState' = [txState EXCEPT ![c] = "Watch"]
      /\ link' \in [Conn -> {"up", "broken"}]
  BY performWatchTyped DEF AppendWatchTx
<1>2. DBTypeOK'
  BY <1>1 DEF TypeOK, DBTypeOK, AppendWatchTx, histVars
<1> QED
  BY <1>1, <1>2 DEF TypeOK, DBTypeOK, Open, InTx, AppendWatchTx

(* What the writing methods have in common.                                *)
LEMMA StageTyped ==
  ASSUME TypeOK, NEW c \in Conn, NEW ok, NEW items \in Seq(CVLItem),
         NEW cmds \in Seq(Cmd), Stage(c, items, cmds, ok)
  PROVE  /\ RedisTypeOK'
         /\ txState' \in [Conn -> {"None", "Watch", "Set"}]
         /\ txCmds' \in [Conn -> Seq(Cmd)]
         /\ cvlData' \in [Conn -> Seq(CVLItem)]
         /\ UNCHANGED <<sess, commitAt, drops, outcome, bare>>
         /\ \A d \in Conn : InTx(d)' <=> InTx(d)
<1>1. RedisTypeOK'
  BY DEF TypeOK, RedisTypeOK, Stage, serverVars
<1>2. /\ txState' \in [Conn -> {"None", "Watch", "Set"}]
      /\ \A d \in Conn : InTx(d)' <=> InTx(d)
  BY DEF TypeOK, DBTypeOK, Stage, doWrite, InTx
<1>3. txCmds' \in [Conn -> Seq(Cmd)]
  BY DEF TypeOK, DBTypeOK, Stage, doWrite
<1>4. cvlData' \in [Conn -> Seq(CVLItem)]
  BY DEF TypeOK, DBTypeOK, Stage, doCVL
<1> QED
  BY <1>1, <1>2, <1>3, <1>4 DEF Stage

LEMMA WriteTyped ==
  ASSUME TypeOK, Open, NEW c \in Conn, NEW ok, NEW items \in Seq(CVLItem),
         NEW cmds \in Seq(Cmd), Write(c, items, cmds, ok)
  PROVE  TypeOK' /\ Open'
  BY StageTyped DEF Write, TypeOK, DBTypeOK, Open

LEMMA WriteCallTyped ==
  ASSUME TypeOK, Open, NEW c \in Conn, NEW ok \in BOOLEAN, WriteCall(c, ok)
  PROVE  TypeOK' /\ Open'
<1>1. PICK k \in Key :
         \/ DeleteEntry(c, k, ok)
         \/ \E v \in Written[c] : \/ CreateEntry(c, k, v, ok)
                                  \/ ModEntry(c, k, v, ok)
                                  \/ SetEntry(c, k, v, ok)
                                  \/ DeleteEntryFields(c, k, v, ok)
  BY DEF WriteCall
<1>2. ASSUME NEW v \in Entry
      PROVE  /\ \A op \in {"CREATE", "UPDATE", "DELETE"} :
                   <<Item(op, k, v)>> \in Seq(CVLItem)
             /\ <<HMSet(k, v)>> \in Seq(Cmd)
             /\ <<HDel(k, v)>> \in Seq(Cmd)
             /\ <<Del(k)>> \in Seq(Cmd)
  BY ItemType, CmdType
<1>3. CASE DeleteEntry(c, k, ok)
  BY <1>2, <1>3, NoEntryType, WriteTyped DEF DeleteEntry
<1>4. ASSUME NEW v \in Written[c],
             \/ CreateEntry(c, k, v, ok)
             \/ ModEntry(c, k, v, ok)
             \/ SetEntry(c, k, v, ok)
             \/ DeleteEntryFields(c, k, v, ok)
      PROVE  TypeOK' /\ Open'
  <2>1. v \in Entry
    BY DBAssumption
  <2>2. CASE CreateEntry(c, k, v, ok)
    BY <1>2, <2>1, <2>2, WriteTyped DEF CreateEntry
  <2>3. CASE ModEntry(c, k, v, ok)
    BY <1>2, <2>1, <2>3, WriteTyped DEF ModEntry
  <2>4. CASE DeleteEntryFields(c, k, v, ok)
    BY <1>2, <2>1, <2>4, WriteTyped DEF DeleteEntryFields
  <2>5. CASE SetEntry(c, k, v, ok)
    <3>1. Current(c, k) \in Entry
      BY NoEntryType DEF Current, TypeOK, RedisTypeOK
    <3>2. /\ SetItems(Current(c, k), k, v) \in Seq(CVLItem)
          /\ SetCmds(Current(c, k), k, v) \in Seq(Cmd)
      BY <2>1, <3>1, SetTypes
    <3>3. Stage(c, SetItems(Current(c, k), k, v), SetCmds(Current(c, k), k, v), ok)
      BY <2>5 DEF SetEntry
    <3>4. /\ RedisTypeOK'
          /\ txState' \in [Conn -> {"None", "Watch", "Set"}]
          /\ txCmds' \in [Conn -> Seq(Cmd)]
          /\ cvlData' \in [Conn -> Seq(CVLItem)]
          /\ UNCHANGED <<sess, commitAt, drops, outcome, bare>>
          /\ \A d \in Conn : InTx(d)' <=> InTx(d)
      BY <3>2, <3>3, StageTyped
    <3>5. reads' \in [Conn -> SUBSET Read]
      BY <2>5, RememberTyped DEF SetEntry
    <3>6. /\ link' = [link EXCEPT ![c] = "up"]
          /\ UNCHANGED <<loop, todo, missed>>
      BY <2>5 DEF SetEntry, Redial
    <3> QED
      BY <3>4, <3>5, <3>6 DEF TypeOK, DBTypeOK, Open
  <2> QED
    BY <1>4, <2>2, <2>3, <2>4, <2>5
<1> QED
  BY <1>1, <1>3, <1>4

LEMMA LoopCallTyped ==
  ASSUME TypeOK, Open, NEW c \in Conn, LoopCall(c)
  PROVE  TypeOK' /\ Open'
<1>1. PICK kind \in {"table", "keys"}, K \in SUBSET Key : DeleteLoop(c, kind, K)
  BY DEF LoopCall, DeleteTable, DeleteKeys
<1>2. reads' \in [Conn -> SUBSET Read]
  BY <1>1, RememberTyped DEF DeleteLoop
<1>3. RedisTypeOK'
  BY <1>1 DEF DeleteLoop, TypeOK, RedisTypeOK, serverVars
<1>4. Present(K) \in SUBSET Key
  BY DEF Present
<1>5. DBTypeOK'
  BY <1>1, <1>2, <1>4 DEF DeleteLoop, TypeOK, DBTypeOK, Redial
<1> QED
  BY <1>1, <1>3, <1>5 DEF DeleteLoop, TypeOK, Open, InTx

LEMMA LoopStepTyped ==
  ASSUME TypeOK, Open, NEW c \in Conn, LoopStep(c)
  PROVE  TypeOK' /\ Open'
<1>1. PICK k \in Key, ok \in BOOLEAN : LoopDelete(c, k, ok)
  BY DEF LoopStep
<1>2. <<Item("DELETE", k, NoEntry)>> \in Seq(CVLItem) /\ <<Del(k)>> \in Seq(Cmd)
  BY ItemType, CmdType, NoEntryType
<1>3. Stage(c, <<Item("DELETE", k, NoEntry)>>, <<Del(k)>>, ok)
  BY <1>1 DEF LoopDelete
<1>4. /\ RedisTypeOK'
      /\ txState' \in [Conn -> {"None", "Watch", "Set"}]
      /\ txCmds' \in [Conn -> Seq(Cmd)]
      /\ cvlData' \in [Conn -> Seq(CVLItem)]
      /\ UNCHANGED <<sess, commitAt, drops, outcome, bare>>
      /\ \A d \in Conn : InTx(d)' <=> InTx(d)
  BY <1>2, <1>3, StageTyped
<1>5. /\ loop' \in [Conn -> {"none", "table", "keys"}]
      /\ todo' \in [Conn -> SUBSET Key]
      /\ missed' \in [Conn -> SUBSET Key]
      /\ UNCHANGED <<link, reads>>
  <2>1. CASE LoopEnds(c, k, ok)
    BY <1>1, <2>1 DEF LoopDelete, TypeOK, DBTypeOK
  <2>2. CASE ~LoopEnds(c, k, ok)
    <3>1. /\ loop' = loop
          /\ todo' = [todo EXCEPT ![c] = @ \ {k}]
          /\ missed' = [missed EXCEPT ![c] = IF ok THEN @ ELSE @ \cup {k}]
          /\ UNCHANGED <<link, reads>>
      BY <1>1, <2>2 DEF LoopDelete
    <3> QED
      BY <3>1 DEF TypeOK, DBTypeOK
  <2> QED
    BY <2>1, <2>2
<1> QED
  BY <1>4, <1>5 DEF TypeOK, DBTypeOK, Open

LEMMA DirectCallTyped ==
  ASSUME TypeOK, Open, NEW c \in Conn, DirectCall(c)
  PROVE  TypeOK' /\ Open'
<1>1. PICK cmd \in Cmd : DirectWrite(c, cmd)
  <2>1. DirectKeys \subseteq Key /\ Written[c] \subseteq Entry
    BY DBAssumption
  <2> QED
    BY <2>1, CmdType, NoEntryType DEF DirectCall
<1>2. RedisTypeOK'
  <2>1. CASE HashCommand(c, cmd)
    BY <2>1, HashCommandTyped DEF TypeOK
  <2>2. CASE UNCHANGED serverVars
    BY <2>2 DEF TypeOK, RedisTypeOK, serverVars
  <2> QED
    BY <1>1, <2>1, <2>2 DEF DirectWrite
<1>3. /\ link' = [link EXCEPT ![c] = "up"]
      /\ UNCHANGED <<txState, txCmds, cvlData, sess, commitAt, loop, todo,
                     drops, reads, outcome, bare, missed>>
  BY <1>1 DEF DirectWrite, Redial, histVars
<1> QED
  BY <1>2, <1>3 DEF TypeOK, DBTypeOK, Open, InTx

LEMMA CommitMultiTyped ==
  ASSUME TypeOK, Open, NEW c \in Conn, CommitMulti(c)
  PROVE  TypeOK' /\ Open'
<1>1. RedisTypeOK'
  <2>1. CASE MULTI(c)
    BY <2>1, WatchTyped DEF TypeOK
  <2>2. CASE UNCHANGED serverVars
    BY <2>2 DEF TypeOK, RedisTypeOK, serverVars
  <2> QED
    BY <2>1, <2>2 DEF CommitMulti
<1>2. /\ InTx(c)
      /\ commitAt' = [commitAt EXCEPT ![c] = 1]
      /\ link' = [link EXCEPT ![c] = "up"]
      /\ UNCHANGED <<txState, txCmds, cvlData, sess, loop, todo,
                     drops, reads, outcome, bare, missed>>
  BY DEF CommitMulti, Redial, histVars
<1> QED
  BY <1>1, <1>2 DEF TypeOK, DBTypeOK, Open, InTx

LEMMA CommitCmdTyped ==
  ASSUME TypeOK, Open, NEW c \in Conn, CommitCmd(c)
  PROVE  TypeOK' /\ Open'
<1>1. /\ txCmds[c] \in Seq(Cmd)
      /\ commitAt[c] \in DOMAIN txCmds[c]
  BY DEF CommitCmd, TypeOK, DBTypeOK
<1>2. txCmds[c][commitAt[c]] \in Cmd
  BY <1>1
<1>3. RedisTypeOK'
  <2>1. CASE HashCommand(c, txCmds[c][commitAt[c]])
    BY <1>2, <2>1, HashCommandTyped DEF TypeOK
  <2>2. CASE UNCHANGED serverVars
    BY <2>2 DEF TypeOK, RedisTypeOK, serverVars
  <2> QED
    BY <2>1, <2>2 DEF CommitCmd
<1>4. bare' \in [Conn -> BOOLEAN]
  BY DEF CommitCmd, TypeOK, DBTypeOK
<1>5. /\ commitAt[c] > 0
      /\ commitAt' = [commitAt EXCEPT ![c] = @ + 1]
      /\ link' = [link EXCEPT ![c] = "up"]
      /\ UNCHANGED <<txState, txCmds, cvlData, sess, loop, todo, drops, reads,
                     outcome, missed>>
  BY <1>1 DEF CommitCmd, Redial
<1> QED
  BY <1>3, <1>4, <1>5 DEF TypeOK, DBTypeOK, Open, InTx

LEMMA CommitFlagsTyped ==
  ASSUME TypeOK, Open, NEW c \in Conn, CommitFlags(c)
  PROVE  TypeOK' /\ Open'
<1>1. TablesOf(txCmds[c]) \in SUBSET Table
  BY TablesOfType DEF TypeOK, DBTypeOK
<1>2. RedisTypeOK'
  <2>1. CASE FlagCommands(c, TablesOf(txCmds[c]))
    BY <1>1, <2>1, FlagCommandsTyped DEF TypeOK
  <2>2. CASE UNCHANGED serverVars
    BY <2>2 DEF TypeOK, RedisTypeOK, serverVars
  <2> QED
    BY <2>1, <2>2 DEF CommitFlags
<1>3. /\ commitAt[c] > 0
      /\ commitAt' = [commitAt EXCEPT ![c] = @ + 1]
      /\ link' = [link EXCEPT ![c] = "up"]
      /\ UNCHANGED <<txState, txCmds, cvlData, sess, loop, todo,
                     drops, reads, outcome, bare, missed>>
  BY DEF CommitFlags, AtFlags, Redial, histVars, TypeOK, DBTypeOK
<1> QED
  BY <1>2, <1>3 DEF TypeOK, DBTypeOK, Open, InTx

(* CommitExec, CommitReplyLost and AbortTx end with EndTx.                 *)
LEMMA EndTxTyped ==
  ASSUME TypeOK, Open, NEW c \in Conn, InTx(c), EndTx(c), RedisTypeOK',
         outcome' \in [Conn -> {"none", "ok", "fail"}],
         link' \in [Conn -> {"up", "broken"}],
         drops' \in Nat, bare' = bare
  PROVE  TypeOK' /\ Open'
<1>1. sess[c] \in Nat /\ sess[c] > 0
  BY DEF Open, TypeOK, DBTypeOK
<1>2. sess' \in [Conn -> Nat]
  BY <1>1 DEF EndTx, TypeOK, DBTypeOK
<1> QED
  BY <1>1, <1>2 DEF EndTx, TypeOK, DBTypeOK, Open, InTx

LEMMA CommitEndsTyped ==
  ASSUME TypeOK, Open, NEW c \in Conn,
         CommitExec(c) \/ CommitReplyLost(c) \/ AbortTx(c)
  PROVE  TypeOK' /\ Open'
<1>1. InTx(c)
  <2>1. CASE AbortTx(c)
    BY <2>1 DEF AbortTx
  <2>2. CASE commitAt[c] = AtExec(c)
    BY <2>2 DEF AtExec, Open, TypeOK, DBTypeOK
  <2> QED
    BY <2>1, <2>2 DEF CommitExec, CommitReplyLost
<1>2. RedisTypeOK'
  <2>1. CASE EXEC(c)
    BY <2>1, ExecTyped DEF TypeOK
  <2>2. CASE UNWATCH(c)
    BY <2>2, WatchTyped DEF TypeOK
  <2>3. CASE UNCHANGED serverVars
    BY <2>3 DEF TypeOK, RedisTypeOK, serverVars
  <2> QED
    BY <2>1, <2>2, <2>3 DEF CommitExec, CommitReplyLost, AbortTx
<1>3. /\ EndTx(c)
      /\ link' \in [Conn -> {"up", "broken"}]
      /\ drops' \in Nat /\ bare' = bare
  <2>1. CASE CommitExec(c)
    BY <2>1 DEF CommitExec, Redial, TypeOK, DBTypeOK
  <2>2. CASE CommitReplyLost(c)
    BY <2>2 DEF CommitReplyLost, TypeOK, DBTypeOK
  <2>3. CASE AbortTx(c)
    BY <2>3 DEF AbortTx, Redial, TypeOK, DBTypeOK
  <2> QED
    BY <2>1, <2>2, <2>3
<1>4. outcome' \in [Conn -> {"none", "ok", "fail"}]
  BY DEF CommitExec, CommitReplyLost, AbortTx, TypeOK, DBTypeOK
<1> QED
  BY <1>1, <1>2, <1>3, <1>4, EndTxTyped

LEMMA DeleteDBTyped ==
  ASSUME TypeOK, Open, NEW c \in Conn, DeleteDB(c)
  PROVE  TypeOK' /\ Open'
<1>1. RedisTypeOK'
  BY WatchTyped DEF DeleteDB, TypeOK
<1> QED
  BY <1>1 DEF DeleteDB, Redial, Idle, TypeOK, DBTypeOK, Open, InTx

LEMMA UnwindTyped ==
  ASSUME TypeOK, Open, NEW c \in Conn, Unwind(c)
  PROVE  TypeOK' /\ Open'
  BY DEF Unwind, TypeOK, RedisTypeOK, DBTypeOK, Open, InTx, serverVars

LEMMA StepTyped == TypeOK /\ Open /\ [AnyStep]_vars => TypeOK' /\ Open'
<1> SUFFICES ASSUME TypeOK, Open, [AnyStep]_vars
             PROVE  TypeOK' /\ Open'
  OBVIOUS
<1>1. CASE UNCHANGED vars
  BY <1>1 DEF vars, serverVars, dbVars, histVars, TypeOK, RedisTypeOK, DBTypeOK,
              Open, InTx
<1>2. ASSUME NEW c \in Conn, NEW S \in SUBSET (Key \cup Table),
             StartTx(c, S) \/ AppendWatchTx(c, S)
      PROVE  TypeOK' /\ Open'
  BY <1>2, StartTxTyped, AppendWatchTxTyped
<1>3. ASSUME NEW c \in Conn, ReadCall(c)
      PROVE  TypeOK' /\ Open'
  <2>1. PICK k \in Key : GetEntry(c, k)
    BY <1>3, DBAssumption DEF ReadCall
  <2> QED
    BY <2>1, GetEntryTyped
<1>4. ASSUME NEW c \in Conn,
             \/ (\E ok \in BOOLEAN : WriteCall(c, ok))
             \/ LoopCall(c) \/ LoopStep(c) \/ DirectCall(c)
      PROVE  TypeOK' /\ Open'
  BY <1>4, WriteCallTyped, LoopCallTyped, LoopStepTyped, DirectCallTyped
<1>5. ASSUME NEW c \in Conn,
             \/ CommitMulti(c) \/ CommitStep(c) \/ AbortTx(c) \/ DeleteDB(c)
             \/ Fault(c) \/ Unwind(c)
      PROVE  TypeOK' /\ Open'
  BY <1>5, UnwindTyped, CommitMultiTyped, CommitCmdTyped, CommitFlagsTyped, CommitEndsTyped,
     DeleteDBTyped, DropTyped DEF CommitStep, Fault
<1> QED
  BY <1>1, <1>2, <1>3, <1>4, <1>5 DEF AnyStep, DBStep, AppCall

(* The state of every DB object and of the server stays within its type,   *)
(* and the count of open CVL sessions never goes negative, for any client. *)
THEOREM TypeCorrect == Spec => []TypeOK
<1>1. Init => TypeOK /\ Open
  BY EntriesAssumption DEF Init, RedisInit, TypeOK, RedisTypeOK, DBTypeOK, Open, InTx
<1> QED
  BY <1>1, StepTyped, NextIsStep, PTL DEF Spec

-----------------------------------------------------------------------------
(* What was validated is what is queued, whatever CVL answers, but for     *)
(* malformed commands.                                                     *)

Accounts(item, cmd) == Malformed(cmd) \/ Mirrors(item, cmd)

InStep ==
  \A c \in Conn :
    /\ Len(cvlData[c]) = Len(txCmds[c])
    /\ \A i \in DOMAIN txCmds[c] : Accounts(cvlData[c][i], txCmds[c][i])

(* A list of items and the list of commands it stands for.                 *)
Match(items, cmds) ==
  /\ items \in Seq(CVLItem) /\ cmds \in Seq(Cmd)
  /\ Len(items) = Len(cmds)
  /\ \A i \in DOMAIN cmds : Accounts(items[i], cmds[i])

LEMMA MatchConcat ==
  ASSUME NEW s, NEW t, NEW u, NEW w, Match(s, t), Match(u, w)
  PROVE  Match(s \o u, t \o w)
<1>1. /\ s \o u \in Seq(CVLItem) /\ t \o w \in Seq(Cmd)
      /\ Len(s \o u) = Len(s) + Len(u) /\ Len(t \o w) = Len(t) + Len(w)
  <2>1. /\ s \in Seq(CVLItem) /\ u \in Seq(CVLItem)
        /\ t \in Seq(Cmd) /\ w \in Seq(Cmd)
    BY DEF Match
  <2>2. ASSUME NEW X, NEW x \in Seq(X), NEW y \in Seq(X)
        PROVE  x \o y \in Seq(X) /\ Len(x \o y) = Len(x) + Len(y)
    OBVIOUS
  <2> QED
    BY <2>1, <2>2
<1>2. ASSUME NEW i \in DOMAIN (t \o w)
      PROVE  Accounts((s \o u)[i], (t \o w)[i])
  <2>1. CASE i <= Len(t)
    <3>1. (s \o u)[i] = s[i] /\ (t \o w)[i] = t[i] /\ i \in DOMAIN t
      BY <2>1 DEF Match
    <3> QED
      BY <3>1 DEF Match
  <2>2. CASE i > Len(t)
    <3>1. /\ (s \o u)[i] = u[i - Len(t)] /\ (t \o w)[i] = w[i - Len(t)]
          /\ i - Len(t) \in DOMAIN w
      BY <2>2 DEF Match
    <3> QED
      BY <3>1 DEF Match
  <2> QED
    BY <2>1, <2>2 DEF Match
<1> QED
  BY <1>1, <1>2 DEF Match

LEMMA OneMatches ==
  ASSUME NEW item \in CVLItem, NEW cmd \in Cmd, Accounts(item, cmd)
  PROVE  Match(<<item>>, <<cmd>>)
  BY DEF Match

LEMMA NothingInNoEntry == ~Populated(NoEntry)
  BY DEF Populated, NoEntry

(* The lists of every writing method match.                                *)
LEMMA SingleMatches ==
  ASSUME NEW k \in Key, NEW v \in Entry
  PROVE  /\ Match(<<Item("CREATE", k, v)>>, <<HMSet(k, v)>>)
         /\ Match(<<Item("UPDATE", k, v)>>, <<HMSet(k, v)>>)
         /\ Match(<<Item("DELETE", k, NoEntry)>>, <<Del(k)>>)
         /\ Match(<<Item("DELETE", k, v)>>, <<HDel(k, v)>>)
<1>1. /\ Item("CREATE", k, v) \in CVLItem /\ Item("UPDATE", k, v) \in CVLItem
      /\ Item("DELETE", k, NoEntry) \in CVLItem /\ Item("DELETE", k, v) \in CVLItem
  BY ItemType, NoEntryType
<1>2. HMSet(k, v) \in Cmd /\ HDel(k, v) \in Cmd /\ Del(k) \in Cmd
  BY CmdType
<1>3. /\ Accounts(Item("CREATE", k, v), HMSet(k, v))
      /\ Accounts(Item("UPDATE", k, v), HMSet(k, v))
  BY DEF Accounts, Mirrors, Item, HMSet
<1>4. /\ Accounts(Item("DELETE", k, NoEntry), Del(k))
      /\ Accounts(Item("DELETE", k, v), HDel(k, v))
  BY NothingInNoEntry DEF Accounts, Mirrors, Malformed, Item, HDel, Del
<1> QED
  BY <1>1, <1>2, <1>3, <1>4, OneMatches

LEMMA SetMatches ==
  ASSUME NEW cur \in Entry, NEW k \in Key, NEW v \in Entry
  PROVE  Match(SetItems(cur, k, v), SetCmds(cur, k, v))
<1> DEFINE rest == Complement(cur, v)
<1>1. rest \in Entry
  BY ComplementType
<1>2. CASE Populated(rest)
  <2>1. Populated(cur)
    BY <1>2 DEF Populated, Complement
  <2>2. /\ Match(<<Item("UPDATE", k, v)>>, <<HMSet(k, v)>>)
        /\ Match(<<Item("DELETE", k, rest)>>, <<HDel(k, rest)>>)
    BY <1>1, <1>2, SingleMatches
  <2>3. Match(<<Item("UPDATE", k, v)>> \o <<Item("DELETE", k, rest)>>,
              <<HMSet(k, v)>> \o <<HDel(k, rest)>>)
    BY <2>2, MatchConcat
  <2>4. /\ SetItems(cur, k, v) = <<Item("UPDATE", k, v)>> \o <<Item("DELETE", k, rest)>>
        /\ SetCmds(cur, k, v) = <<HMSet(k, v)>> \o <<HDel(k, rest)>>
    BY <1>2, <2>1 DEF SetItems, SetCmds
  <2> QED
    BY <2>3, <2>4
<1>3. CASE ~Populated(rest)
  BY <1>3, SingleMatches DEF SetItems, SetCmds
<1> QED
  BY <1>2, <1>3

-----------------------------------------------------------------------------
(* Staging keeps the two lists of a transaction in step.                   *)

LEMMA StageMirrors ==
  ASSUME TypeOK, InStep, NEW c \in Conn, NEW items, NEW cmds,
         NEW ok \in BOOLEAN, Match(items, cmds), Stage(c, items, cmds, ok)
  PROVE  InStep'
<1>1. Match(cvlData[c], txCmds[c])
  BY DEF Match, InStep, TypeOK, DBTypeOK
<1>2. Match(cvlData'[c], txCmds'[c])
  <2>1. CASE ok
    <3>1. cvlData'[c] = cvlData[c] \o items /\ txCmds'[c] = txCmds[c] \o cmds
      BY <2>1 DEF Stage, doCVL, doWrite, TypeOK, DBTypeOK
    <3> QED
      BY <1>1, <3>1, MatchConcat
  <2>2. CASE ~ok
    BY <1>1, <2>2 DEF Stage, doCVL, doWrite
  <2> QED
    BY <2>1, <2>2
<1>3. \A d \in Conn \ {c} : cvlData'[d] = cvlData[d] /\ txCmds'[d] = txCmds[d]
  BY DEF Stage, doCVL, doWrite, TypeOK, DBTypeOK
<1> QED
  BY <1>2, <1>3 DEF InStep, Match

(* CommitTx, AbortTx and DeleteDB empty both.                              *)
LEMMA EmptyMirrors ==
  ASSUME TypeOK, InStep, NEW c \in Conn,
         cvlData' = [cvlData EXCEPT ![c] = <<>>],
         txCmds' = [txCmds EXCEPT ![c] = <<>>]
  PROVE  InStep'
  BY DEF InStep, TypeOK, DBTypeOK

LEMMA WriteCallMirrors ==
  ASSUME TypeOK, InStep, NEW c \in Conn, NEW ok \in BOOLEAN,
         WriteCall(c, ok)
  PROVE  InStep'
<1>1. PICK k \in Key :
        \/ DeleteEntry(c, k, ok)
        \/ \E v \in Written[c] : \/ CreateEntry(c, k, v, ok) \/ ModEntry(c, k, v, ok)
                                 \/ SetEntry(c, k, v, ok)
                                 \/ DeleteEntryFields(c, k, v, ok)
  BY DEF WriteCall
<1>2. \A v \in Written[c] : v \in Entry
  BY DBAssumption
<1>3. Current(c, k) \in Entry
  BY NoEntryType DEF Current, TypeOK, RedisTypeOK
<1>4. ASSUME NEW items, NEW cmds, Match(items, cmds), Write(c, items, cmds, ok)
      PROVE  InStep'
  BY <1>4, StageMirrors DEF Write
<1>5. CASE DeleteEntry(c, k, ok)
  BY <1>4, <1>5, SingleMatches, NoEntryType DEF DeleteEntry
<1>6. ASSUME NEW v \in Written[c],
             CreateEntry(c, k, v, ok) \/ ModEntry(c, k, v, ok) \/ DeleteEntryFields(c, k, v, ok)
      PROVE  InStep'
  BY <1>2, <1>4, <1>6, SingleMatches DEF CreateEntry, ModEntry, DeleteEntryFields
<1>7. ASSUME NEW v \in Written[c], SetEntry(c, k, v, ok)
      PROVE  InStep'
  BY <1>2, <1>3, <1>7, SetMatches, StageMirrors DEF SetEntry
<1> QED
  BY <1>1, <1>5, <1>6, <1>7

LEMMA StepMirrors ==
  TypeOK /\ InStep /\ [AnyStep]_vars => InStep'
<1> SUFFICES ASSUME TypeOK, InStep, [AnyStep]_vars
             PROVE  InStep'
  OBVIOUS
<1>1. CASE UNCHANGED <<cvlData, txCmds>>
  BY <1>1 DEF InStep
<1>2. ASSUME NEW c \in Conn, NEW ok \in BOOLEAN, WriteCall(c, ok)
      PROVE  InStep'
  BY <1>2, WriteCallMirrors
<1>3. ASSUME NEW c \in Conn, NEW k \in Key, NEW ok \in BOOLEAN, LoopDelete(c, k, ok)
      PROVE  InStep'
  BY <1>3, SingleMatches, NoEntryType, StageMirrors DEF LoopDelete
<1>4. ASSUME NEW c \in Conn,
             CommitExec(c) \/ CommitReplyLost(c) \/ AbortTx(c) \/ DeleteDB(c)
      PROVE  InStep'
  BY <1>4, EmptyMirrors DEF CommitExec, CommitReplyLost, AbortTx, EndTx, DeleteDB
<1>5. ASSUME NEW c \in Conn, NEW S, StartTx(c, S) \/ AppendWatchTx(c, S)
      PROVE  UNCHANGED <<cvlData, txCmds>>
  BY <1>5 DEF StartTx, AppendWatchTx
<1>6. ASSUME NEW c \in Conn,
             \/ ReadCall(c) \/ LoopCall(c) \/ DirectCall(c) \/ CommitMulti(c)
             \/ CommitCmd(c) \/ CommitFlags(c) \/ Drop(c) \/ Unwind(c)
      PROVE  UNCHANGED <<cvlData, txCmds>>
  BY <1>6 DEF ReadCall, GetEntry, LoopCall, DeleteTable, DeleteKeys, DeleteLoop,
              DirectCall, DirectWrite, CommitMulti, CommitCmd, CommitFlags, Drop,
              Unwind
<1>7. UNCHANGED vars => UNCHANGED <<cvlData, txCmds>>
  BY DEF vars, dbVars
<1> QED
  BY <1>1, <1>2, <1>3, <1>4, <1>5, <1>6, <1>7
  DEF AnyStep, DBStep, AppCall, LoopStep, CommitStep, Fault

LEMMA InStepCorrect == Spec => []InStep
<1>1. Init => InStep
  BY DEF Init, InStep
<1> QED
  BY <1>1, StepMirrors, NextIsStep, TypeCorrect, PTL DEF Spec

-----------------------------------------------------------------------------
(* What SetEntry leaves of an entry.                                       *)

(* Exactly when SetEntry replaces, its read of the entry having worked:    *)
(* when what the transaction has queued puts no field in the entry that is *)
(* neither in the store, where the HDEL list comes from, nor in v.         *)
QueuedWithin(c, k, v) ==
  \A f \in Field : v[f] = Absent /\ store[k][f] = Absent
                     => Effect(store, txCmds[c])[k][f] = Absent

SetReplacesStored ==
  [][\A c \in Conn, k \in Key : \A v \in Written[c] :
       SetEntry(c, k, v, TRUE) /\ Up(c) =>
         (Effect(store, txCmds'[c])[k] = v <=> QueuedWithin(c, k, v))]_vars

(* Field by field: what v has, nothing of what it replaces, and what the   *)
(* transaction had queued for the other fields.                            *)
LEMMA SetLeaves ==
  ASSUME NEW st \in [Key -> Entry], NEW cmds \in Seq(Cmd),
         NEW k \in Key, NEW v \in Entry, NEW f \in Field
  PROVE  Effect(st, cmds \o SetCmds(st[k], k, v))[k][f] =
           IF v[f] = Absent /\ st[k][f] = Absent
           THEN Effect(st, cmds)[k][f] ELSE v[f]
<1> DEFINE rest == Complement(st[k], v)
           set  == HMSet(k, v)
           del  == HDel(k, rest)
           one  == Append(cmds, set)
<1>1. rest \in Entry /\ rest[f] = IF v[f] = Absent THEN st[k][f] ELSE Absent
  BY ComplementType DEF Complement
<1>2. set \in Cmd /\ del \in Cmd /\ one \in Seq(Cmd)
  BY <1>1, CmdType
<1>3. /\ Hits(set, k, f) <=> v[f] # Absent
      /\ Leaves(set, f) = v[f]
      /\ Hits(del, k, f) <=> rest[f] # Absent
      /\ Leaves(del, f) = Absent
  BY DEF Hits, Leaves, HMSet, HDel
<1>4. SetCmds(st[k], k, v) = IF Populated(rest) THEN <<set, del>> ELSE <<set>>
  BY DEF SetCmds
<1> HIDE DEF rest, set, del
<1>5. Effect(st, one)[k][f] =
        IF v[f] # Absent THEN v[f] ELSE Effect(st, cmds)[k][f]
  BY <1>2, <1>3, EffectOfOneMore
<1>6. CASE Populated(rest)
  <2>1. cmds \o <<set, del>> = Append(one, del)
    BY <1>2
  <2>2. Effect(st, Append(one, del))[k][f] =
          IF rest[f] # Absent THEN Absent ELSE Effect(st, one)[k][f]
    <3> HIDE DEF one
    <3> QED
      BY <1>2, <1>3, EffectOfOneMore
  <2> QED
    BY <1>1, <1>4, <1>5, <1>6, <2>1, <2>2
<1>7. CASE ~Populated(rest)
  <2>1. cmds \o <<set>> = one
    BY <1>2
  <2>2. rest[f] = Absent
    BY <1>7 DEF Populated
  <2> QED
    BY <1>1, <1>4, <1>5, <1>7, <2>1, <2>2
<1> QED
  BY <1>6, <1>7

LEMMA SetReplacing ==
  ASSUME TypeOK, NEW c \in Conn, NEW k \in Key, NEW v \in Entry,
         SetEntry(c, k, v, TRUE), Up(c)
  PROVE  Effect(store, txCmds'[c])[k] = v <=> QueuedWithin(c, k, v)
<1>1. store \in [Key -> Entry] /\ txCmds[c] \in Seq(Cmd)
  BY DEF TypeOK, RedisTypeOK, DBTypeOK
<1>2. txCmds'[c] = txCmds[c] \o SetCmds(store[k], k, v)
  BY DEF SetEntry, Stage, doWrite, Current, TypeOK, DBTypeOK
<1>3. SetCmds(store[k], k, v) \in Seq(Cmd)
  BY <1>1, SetTypes
<1>4. Effect(store, txCmds'[c])[k] \in Entry
  <2>1. txCmds[c] \o SetCmds(store[k], k, v) \in Seq(Cmd)
    BY <1>1, <1>3
  <2> QED
    BY <1>1, <1>2, <2>1, EffectType
<1>5. \A f \in Field :
        Effect(store, txCmds'[c])[k][f] =
          IF v[f] = Absent /\ store[k][f] = Absent
          THEN Effect(store, txCmds[c])[k][f] ELSE v[f]
  BY <1>1, <1>2, SetLeaves
<1>6. Effect(store, txCmds'[c])[k] = v
        <=> \A f \in Field : Effect(store, txCmds'[c])[k][f] = v[f]
  BY <1>4 DEF Entry
<1> QED
  BY <1>5, <1>6 DEF QueuedWithin

(* SetEntry replaces an entry it could read exactly when what is queued    *)
(* for it stays within what the store has and v: the HDEL list of          *)
(* db.go:756 is complete for the store and for nothing else.               *)
THEOREM SetReplacesWhatIsStored == Spec => SetReplacesStored
<1>1. TypeOK /\ [Next]_vars =>
        [\A c \in Conn, k \in Key : \A v \in Written[c] :
           SetEntry(c, k, v, TRUE) /\ Up(c) =>
             (Effect(store, txCmds'[c])[k] = v <=> QueuedWithin(c, k, v))]_vars
  <2>1. \A c \in Conn : Written[c] \subseteq Entry
    BY DBAssumption
  <2> QED
    BY <2>1, SetReplacing
<1> QED
  BY <1>1, TypeCorrect, PTL DEF Spec, SetReplacesStored
=============================================================================
