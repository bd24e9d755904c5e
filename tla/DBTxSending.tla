----------------------------- MODULE DBTxSending ----------------------------
(***************************************************************************)
(* What CommitTx sends arrives as one piece or not at all when it reports  *)
(* success, for any number of DB objects, keys, tables and commands, and   *)
(* any number of lost connections.                                         *)
(***************************************************************************)
EXTENDS DBTxProofs, SequenceTheorems

-----------------------------------------------------------------------------
(* What CommitTx has sent, and what the server has of it.                  *)

Sent(c) == IF commitAt[c] <= Len(txCmds[c]) THEN commitAt[c] - 1
                                            ELSE Len(txCmds[c])

(* Between MULTI and EXEC the server holds exactly the commands sent so    *)
(* far, and none ran on its own.                                           *)
Queued(c) ==
  /\ commitAt[c] > 0 /\ commitAt[c] <= AtExec(c)
  /\ ~bare[c] /\ link[c] = "up"
  /\ Len(queue[c]) = Sent(c)
  /\ \A i \in 1..Sent(c) : queue[c][i] = txCmds[c][i]
  /\ flags[c] = IF commitAt[c] = AtExec(c) THEN TablesOf(txCmds[c]) ELSE {}

Sending ==
  \A c \in Conn :
    /\ multi[c] => Queued(c)
    /\ ~multi[c] => queue[c] = <<>> /\ flags[c] = {}
    /\ InTx(c) /\ commitAt[c] = 0 => ~bare[c]
    /\ drops = 0 => link[c] = "up" /\ (commitAt[c] > 0 => multi[c])

LEMMA Aside ==
  ASSUME TypeOK, Sending, NEW c \in Conn, commitAt[c] = 0,
         UNCHANGED <<multi, queue, flags, commitAt, drops>>,
         \A d \in Conn \ {c} : /\ txCmds'[d] = txCmds[d]
                               /\ bare'[d] = bare[d]
                               /\ link'[d] = link[d]
                               /\ InTx(d)' => InTx(d),
         link'[c] \in {"up", link[c]},
         InTx(c)' => ~bare'[c]
  PROVE  Sending'
<1>1. ~multi[c]
  BY DEF Sending, Queued
<1>2. \A d \in Conn \ {c} : multi[d] => Queued(d)'
  BY DEF Sending, Queued, Sent, AtExec
<1>3. \A d \in Conn \ {c} : InTx(d)' /\ commitAt[d] = 0 => ~bare'[d]
  BY DEF Sending
<1> QED
  BY <1>1, <1>2, <1>3 DEF Sending

(* A call that only reads leaves the queues alone, one that writes stages. *)
LEMMA AppCallStages ==
  ASSUME TypeOK, NEW c \in Conn, AppCall(c)
  PROVE  /\ commitAt[c] = 0
         /\ link' \in {link, [link EXCEPT ![c] = "up"]}
         /\ \/ \E items, cmds, ok : Stage(c, items, cmds, ok)
            \/ UNCHANGED <<serverVars, txState, txCmds, cvlData, commitAt, drops,
                           outcome, bare>>
<1>1. CASE ReadCall(c)
  BY <1>1 DEF ReadCall, GetEntry, Idle, Redial
<1>2. CASE LoopCall(c)
  BY <1>2 DEF LoopCall, DeleteTable, DeleteKeys, DeleteLoop, Idle, Redial
<1>3. CASE LoopStep(c)
  BY <1>3 DEF LoopStep, LoopDelete
<1>4. ASSUME NEW ok \in BOOLEAN, WriteCall(c, ok)
      PROVE  /\ commitAt[c] = 0
             /\ link' \in {link, [link EXCEPT ![c] = "up"]}
             /\ \E items, cmds : Stage(c, items, cmds, ok)
  <2>1. ASSUME NEW items, NEW cmds, Write(c, items, cmds, ok)
        PROVE  /\ commitAt[c] = 0
               /\ link' = link
               /\ Stage(c, items, cmds, ok)
    BY <2>1 DEF Write, Idle
  <2>2. ASSUME NEW k \in Key, NEW v, SetEntry(c, k, v, ok)
        PROVE  /\ commitAt[c] = 0
               /\ link' = [link EXCEPT ![c] = "up"]
               /\ \E items, cmds : Stage(c, items, cmds, ok)
    BY <2>2 DEF SetEntry, Idle, Redial
  <2> QED
    BY <1>4, <2>1, <2>2 DEF WriteCall, DeleteEntry, CreateEntry, ModEntry,
                            DeleteEntryFields
<1> QED
  BY <1>1, <1>2, <1>3, <1>4 DEF AppCall

LEMMA StageAside ==
  ASSUME TypeOK, NEW c \in Conn, NEW items, NEW cmds, NEW ok,
         Stage(c, items, cmds, ok)
  PROVE  /\ UNCHANGED <<serverVars, commitAt, drops, outcome, bare>>
         /\ \A d \in Conn \ {c} : txCmds'[d] = txCmds[d]
         /\ \A d \in Conn : InTx(d)' <=> InTx(d)
<1>1. \A d \in Conn \ {c} : txCmds'[d] = txCmds[d]
  BY DEF Stage, doWrite, TypeOK, DBTypeOK
<1>2. \A d \in Conn : InTx(d)' <=> InTx(d)
  BY DEF Stage, doWrite, InTx, TypeOK, DBTypeOK
<1> QED
  BY <1>1, <1>2 DEF Stage

(* What a call stages goes to the end of d.txCmds.                         *)
LEMMA AppCallCmds ==
  ASSUME TypeOK, NEW c \in Conn, AppCall(c)
  PROVE  \/ UNCHANGED txCmds
         \/ \E cmds \in Seq(Cmd) : txCmds' = [txCmds EXCEPT ![c] = @ \o cmds]
<1> DEFINE Queues(cmds) == txCmds' \in {txCmds, [txCmds EXCEPT ![c] = @ \o cmds]}
<1>1. ASSUME NEW items, NEW cmds, NEW ok, Stage(c, items, cmds, ok)
      PROVE  Queues(cmds)
  BY <1>1 DEF Stage, doWrite
<1>2. CASE ReadCall(c) \/ LoopCall(c)
  BY <1>2 DEF ReadCall, GetEntry, LoopCall, DeleteTable, DeleteKeys, DeleteLoop
<1>3. CASE LoopStep(c)
  <2>1. PICK k \in Key : Queues(<<Del(k)>>)
    BY <1>1, <1>3 DEF LoopStep, LoopDelete
  <2>2. <<Del(k)>> \in Seq(Cmd)
    BY NoEntryType, CmdType
  <2> QED
    BY <2>1, <2>2
<1>4. ASSUME NEW ok \in BOOLEAN, WriteCall(c, ok)
      PROVE  \E cmds \in Seq(Cmd) : Queues(cmds)
  <2>1. ASSUME NEW items, NEW cmds \in Seq(Cmd), Write(c, items, cmds, ok)
        PROVE  \E q \in Seq(Cmd) : Queues(q)
    BY <1>1, <2>1 DEF Write
  <2>2. PICK k \in Key : \/ DeleteEntry(c, k, ok)
                        \/ \E v \in Written[c] : \/ CreateEntry(c, k, v, ok)
                                               \/ ModEntry(c, k, v, ok)
                                               \/ SetEntry(c, k, v, ok)
                                               \/ DeleteEntryFields(c, k, v, ok)
    BY <1>4 DEF WriteCall
  <2>3. CASE DeleteEntry(c, k, ok)
    <3>1. <<Del(k)>> \in Seq(Cmd)
      BY NoEntryType, CmdType
    <3> QED
      BY <2>1, <2>3, <3>1 DEF DeleteEntry
  <2>4. ASSUME NEW v \in Written[c],
               \/ CreateEntry(c, k, v, ok) \/ ModEntry(c, k, v, ok)
               \/ SetEntry(c, k, v, ok) \/ DeleteEntryFields(c, k, v, ok)
        PROVE  \E cmds \in Seq(Cmd) : Queues(cmds)
    <3>1. v \in Entry
      BY DBAssumption
    <3>2. <<HMSet(k, v)>> \in Seq(Cmd) /\ <<HDel(k, v)>> \in Seq(Cmd)
      BY <3>1, CmdType
    <3>3. CASE CreateEntry(c, k, v, ok) \/ ModEntry(c, k, v, ok)
               \/ DeleteEntryFields(c, k, v, ok)
      BY <2>1, <3>2, <3>3 DEF CreateEntry, ModEntry, DeleteEntryFields
    <3>4. CASE SetEntry(c, k, v, ok)
      <4>1. Current(c, k) \in Entry
        BY NoEntryType DEF Current, TypeOK, RedisTypeOK
      <4>2. SetCmds(Current(c, k), k, v) \in Seq(Cmd)
        BY <3>1, <4>1, SetTypes
      <4>3. Queues(SetCmds(Current(c, k), k, v))
        BY <1>1, <3>4 DEF SetEntry
      <4> QED
        BY <4>2, <4>3
    <3> QED
      BY <2>4, <3>3, <3>4
  <2> QED
    BY <2>2, <2>3, <2>4
<1> QED
  BY <1>2, <1>3, <1>4 DEF AppCall

LEMMA AppCallSending ==
  ASSUME TypeOK, Sending, NEW c \in Conn, AppCall(c)
  PROVE  Sending'
<1>1. /\ UNCHANGED <<multi, queue, flags, commitAt, drops, bare>>
      /\ \A d \in Conn \ {c} : txCmds'[d] = txCmds[d]
      /\ \A d \in Conn : InTx(d)' <=> InTx(d)
  BY AppCallStages, StageAside DEF serverVars, InTx
<1>2. commitAt[c] = 0
  BY AppCallStages
<1>3. /\ link'[c] \in {"up", link[c]}
      /\ \A d \in Conn \ {c} : link'[d] = link[d]
  BY AppCallStages DEF TypeOK, DBTypeOK
<1>4. InTx(c)' => ~bare'[c]
  BY <1>1, <1>2 DEF Sending
<1> QED
  BY <1>1, <1>2, <1>3, <1>4, Aside

LEMMA WatchSending ==
  ASSUME TypeOK, Sending, NEW c \in Conn, NEW S,
         StartTx(c, S) \/ AppendWatchTx(c, S)
  PROVE  Sending'
<1>1. CASE performWatch(c, S) /\ ~InTx(c) /\ StartTx(c, S)
  <2>1. /\ UNCHANGED <<multi, queue, flags, commitAt, drops, txCmds>>
        /\ link' \in {link, [link EXCEPT ![c] = "up"]}
        /\ txState' = [txState EXCEPT ![c] = "Watch"]
    BY <1>1 DEF StartTx, performWatch, WATCH, serverVars, Redial
  <2>2. /\ commitAt[c] = 0
        /\ bare' = [bare EXCEPT ![c] = FALSE]
    BY <1>1 DEF StartTx, Idle
  <2> QED
    BY <2>1, <2>2, Aside DEF TypeOK, DBTypeOK, InTx
<1>2. CASE InTx(c) /\ StartTx(c, S)
  <2>1. UNCHANGED <<multi, queue, flags, commitAt, drops, txCmds, link, txState, bare>>
    BY <1>2 DEF StartTx, serverVars
  <2>2. commitAt[c] = 0
    BY <1>2 DEF StartTx, Idle
  <2> QED
    BY <1>2, <2>1, <2>2, Aside DEF InTx, Sending
<1>3. CASE AppendWatchTx(c, S)
  <2>1. /\ UNCHANGED <<multi, queue, flags, commitAt, drops, txCmds, bare>>
        /\ link' \in {link, [link EXCEPT ![c] = "up"]}
        /\ txState' = [txState EXCEPT ![c] = "Watch"]
    BY <1>3 DEF AppendWatchTx, performWatch, WATCH, serverVars, Redial, histVars
  <2>2. commitAt[c] = 0 /\ ~bare[c]
    BY <1>3 DEF AppendWatchTx, Idle, Sending
  <2> QED
    BY <2>1, <2>2, Aside DEF TypeOK, DBTypeOK, InTx
<1> QED
  BY <1>1, <1>2, <1>3 DEF StartTx

LEMMA DirectSending ==
  ASSUME TypeOK, Sending, NEW c \in Conn, DirectCall(c)
  PROVE  Sending'
<1>1. PICK cmd : DirectWrite(c, cmd)
  BY DEF DirectCall
<1>2. commitAt[c] = 0 /\ ~multi[c] /\ ~InTx(c)
  BY <1>1 DEF DirectWrite, Idle, Sending, Queued
<1>3. UNCHANGED <<multi, queue, flags>>
  BY <1>1, <1>2 DEF DirectWrite, HashCommand, serverVars
<1>4. /\ UNCHANGED <<commitAt, drops, txCmds, txState, bare>>
      /\ link' = [link EXCEPT ![c] = "up"]
  BY <1>1 DEF DirectWrite, histVars, Redial
<1> QED
  BY <1>2, <1>3, <1>4, Aside DEF TypeOK, DBTypeOK, InTx

(* A step of c that leaves the other connections alone is judged by c.     *)
SendingOf(c) ==
  /\ multi[c] => Queued(c)
  /\ ~multi[c] => queue[c] = <<>> /\ flags[c] = {}
  /\ InTx(c) /\ commitAt[c] = 0 => ~bare[c]
  /\ drops = 0 => link[c] = "up" /\ (commitAt[c] > 0 => multi[c])

LEMMA Others ==
  ASSUME Sending, NEW c \in Conn, drops' = 0 => drops = 0, SendingOf(c)',
         \A d \in Conn \ {c} :
           UNCHANGED <<multi[d], queue[d], flags[d], commitAt[d], txCmds[d],
                       txState[d], bare[d], link[d]>>
  PROVE  Sending'
<1>1. ASSUME NEW d \in Conn \ {c}
      PROVE  SendingOf(d)'
  <2>1. SendingOf(d)
    BY DEF Sending, SendingOf
  <2>2. /\ multi'[d] = multi[d] /\ queue'[d] = queue[d] /\ flags'[d] = flags[d]
        /\ commitAt'[d] = commitAt[d] /\ txCmds'[d] = txCmds[d]
        /\ txState'[d] = txState[d] /\ bare'[d] = bare[d] /\ link'[d] = link[d]
    OBVIOUS
  <2>3. multi[d] => Queued(d)'
    BY <2>1, <2>2 DEF SendingOf, Queued, Sent, AtExec
  <2> QED
    BY <2>1, <2>2, <2>3 DEF SendingOf, InTx
<1> QED
  BY <1>1 DEF Sending, SendingOf

LEMMA CommitMultiSending ==
  ASSUME TypeOK, Sending, NEW c \in Conn, CommitMulti(c)
  PROVE  Sending'
<1>1. /\ commitAt[c] = 0 /\ InTx(c) /\ ~bare[c] /\ ~multi[c]
      /\ queue[c] = <<>> /\ flags[c] = {}
  BY DEF CommitMulti, Idle, Sending, Queued
<1>2. /\ commitAt' = [commitAt EXCEPT ![c] = 1]
      /\ link' = [link EXCEPT ![c] = "up"]
      /\ multi' = IF Up(c) THEN [multi EXCEPT ![c] = TRUE] ELSE multi
      /\ UNCHANGED <<queue, flags, txState, txCmds, bare, drops>>
  BY DEF CommitMulti, Redial, MULTI, serverVars, histVars
<1>3. drops = 0 => Up(c)
  BY DEF Sending, Up
<1>4. txCmds[c] \in Seq(Cmd)
  BY DEF TypeOK, DBTypeOK
<1>5. SendingOf(c)'
  BY <1>1, <1>2, <1>3, <1>4
  DEF SendingOf, Queued, Sent, AtExec, InTx, TypeOK, DBTypeOK, RedisTypeOK
<1> QED
  BY <1>2, <1>5, Others DEF TypeOK, DBTypeOK, RedisTypeOK

LEMMA CommitCmdSending ==
  ASSUME TypeOK, Sending, NEW c \in Conn, CommitCmd(c)
  PROVE  Sending'
<1> DEFINE n == commitAt[c]
<1>1. /\ txCmds[c] \in Seq(Cmd) /\ queue[c] \in Seq(Cmd)
      /\ n \in 1..Len(txCmds[c])
  BY DEF CommitCmd, TypeOK, DBTypeOK, RedisTypeOK
<1>2. /\ commitAt' = [commitAt EXCEPT ![c] = n + 1]
      /\ link' = [link EXCEPT ![c] = "up"]
      /\ UNCHANGED <<multi, flags, txState, txCmds, drops>>
  BY DEF CommitCmd, Redial, HashCommand, serverVars
<1>3. CASE multi[c] /\ Up(c)
  <2>1. /\ queue' = [queue EXCEPT ![c] = Append(@, txCmds[c][n])]
        /\ bare' = [bare EXCEPT ![c] = @ \/ FALSE]
    BY <1>3 DEF CommitCmd, HashCommand
  <2>2. /\ Len(queue[c]) = n - 1 /\ ~bare[c]
        /\ \A i \in 1..(n - 1) : queue[c][i] = txCmds[c][i]
    BY <1>1, <1>3 DEF Sending, Queued, Sent
  <2>3. /\ Len(queue'[c]) = n
        /\ \A i \in 1..n : queue'[c][i] = txCmds[c][i]
    <3>1. queue'[c] = Append(queue[c], txCmds[c][n])
      BY <2>1 DEF TypeOK, RedisTypeOK
    <3>2. Len(queue'[c]) = n
      BY <1>1, <2>2, <3>1
    <3>3. \A i \in 1..(n - 1) : queue'[c][i] = queue[c][i]
      BY <1>1, <2>2, <3>1
    <3>4. queue'[c][n] = txCmds[c][n]
      BY <1>1, <2>2, <3>1
    <3> QED
      BY <1>1, <2>2, <3>2, <3>3, <3>4
  <2>4. /\ commitAt'[c] = n + 1 /\ Sent(c)' = n /\ ~bare'[c]
        /\ commitAt'[c] # AtExec(c)'
    BY <1>1, <1>2, <2>1, <2>2 DEF Sent, AtExec, TypeOK, DBTypeOK
  <2>5. SendingOf(c)'
    <3>0. /\ Len(txCmds[c]) \in Nat /\ AtExec(c)' = Len(txCmds[c]) + 2
          /\ AtExec(c) = Len(txCmds[c]) + 2 /\ n \in Nat
      BY <1>1, <1>2 DEF AtExec
    <3>1. commitAt'[c] > 0 /\ commitAt'[c] <= AtExec(c)'
      BY <1>1, <2>4, <3>0
    <3>3. flags[c] = {}
      BY <1>1, <1>3, <3>0 DEF Sending, Queued
    <3>2. flags'[c] = {} /\ link'[c] = "up" /\ multi'[c]
      BY <1>2, <1>3, <3>3 DEF TypeOK, DBTypeOK
    <3>4. Queued(c)'
      BY <1>2, <2>3, <2>4, <3>1, <3>2 DEF Queued
    <3> QED
      BY <3>1, <3>2, <3>4 DEF SendingOf, Queued
  <2> QED
    BY <1>2, <2>1, <2>5, Others DEF TypeOK, DBTypeOK, RedisTypeOK
<1>4. CASE ~multi[c]
  <2>1. UNCHANGED queue /\ bare' \in {bare, [bare EXCEPT ![c] = TRUE]}
    BY <1>4 DEF CommitCmd, HashCommand, serverVars, TypeOK, DBTypeOK
  <2>2. queue[c] = <<>> /\ flags[c] = {} /\ drops # 0
    BY <1>1, <1>4 DEF Sending
  <2>3. SendingOf(c)'
    BY <1>1, <1>2, <1>4, <2>1, <2>2 DEF SendingOf, TypeOK, DBTypeOK
  <2> QED
    BY <1>2, <2>1, <2>3, Others DEF TypeOK, DBTypeOK, RedisTypeOK
<1>5. ~Up(c) => ~multi[c]
  BY DEF Sending, Queued, Up
<1> QED
  BY <1>3, <1>4, <1>5

LEMMA CommitFlagsSending ==
  ASSUME TypeOK, Sending, NEW c \in Conn, CommitFlags(c)
  PROVE  Sending'
<1> DEFINE n == Len(txCmds[c])
<1>1. n \in Nat /\ commitAt[c] = n + 1
  BY DEF CommitFlags, AtFlags, TypeOK, DBTypeOK
<1>2. /\ commitAt' = [commitAt EXCEPT ![c] = n + 2]
      /\ link' = [link EXCEPT ![c] = "up"]
      /\ UNCHANGED <<multi, queue, txState, txCmds, bare, drops>>
  BY <1>1 DEF CommitFlags, Redial, FlagCommands, serverVars, histVars
<1>3. CASE multi[c]
  <2>1. flags' = [flags EXCEPT ![c] = @ \cup TablesOf(txCmds[c])]
    BY <1>3 DEF CommitFlags, FlagCommands, Sending, Queued, Up
  <2>2. /\ Queued(c) /\ Sent(c) = n
        /\ flags[c] = {}
    BY <1>1, <1>3 DEF Sending, Queued, Sent, AtExec
  <2>3. /\ flags'[c] = TablesOf(txCmds[c])
        /\ commitAt'[c] = AtExec(c)' /\ Sent(c)' = n
    BY <1>1, <1>2, <2>1, <2>2 DEF AtExec, Sent, TypeOK, DBTypeOK, RedisTypeOK
  <2>4. Queued(c)'
    BY <1>1, <1>2, <2>2, <2>3 DEF Queued, AtExec, TypeOK, DBTypeOK
  <2>5. SendingOf(c)'
    BY <1>1, <1>2, <1>3, <2>4 DEF SendingOf, Queued, AtExec
  <2> QED
    BY <1>2, <2>1, <2>5, Others DEF TypeOK, DBTypeOK, RedisTypeOK
<1>4. CASE ~multi[c]
  <2>1. UNCHANGED flags
    BY <1>4 DEF CommitFlags, FlagCommands, serverVars
  <2>2. queue[c] = <<>> /\ flags[c] = {} /\ drops # 0
    BY <1>1, <1>4 DEF Sending
  <2>3. SendingOf(c)'
    BY <1>1, <1>2, <1>4, <2>1, <2>2 DEF SendingOf, TypeOK, DBTypeOK
  <2> QED
    BY <1>2, <2>1, <2>3, Others DEF TypeOK, DBTypeOK, RedisTypeOK
<1> QED
  BY <1>3, <1>4

(* EXEC, UNWATCH and a connection that goes away end what c was sending.   *)
LEMMA EndSending ==
  ASSUME TypeOK, Sending, NEW c \in Conn, drops' = 0 => drops = 0,
         multi'[c] = FALSE, queue'[c] = <<>>, flags'[c] = {},
         InTx(c)' /\ commitAt'[c] = 0 => ~bare'[c],
         drops' = 0 => link'[c] = "up" /\ commitAt'[c] = 0,
         \A d \in Conn \ {c} :
           UNCHANGED <<multi[d], queue[d], flags[d], commitAt[d], txCmds[d],
                       txState[d], bare[d], link[d]>>
  PROVE  Sending'
<1>1. SendingOf(c)'
  BY DEF SendingOf, TypeOK, DBTypeOK
<1> QED
  BY <1>1, Others

LEMMA ExecSending ==
  ASSUME TypeOK, Sending, NEW c \in Conn, CommitExec(c) \/ CommitReplyLost(c)
  PROVE  Sending'
<1>1. EndTx(c) /\ bare' = bare
  BY DEF CommitExec, CommitReplyLost
<1>2. /\ multi' = [multi EXCEPT ![c] = FALSE]
      /\ queue' = [queue EXCEPT ![c] = <<>>]
      /\ flags' = [flags EXCEPT ![c] = {}]
  <2>1. CASE EXEC(c)
    BY <2>1 DEF EXEC
  <2>2. CASE ~Up(c) /\ UNCHANGED serverVars
    <3>1. multi[c] = FALSE
      BY <2>2 DEF Sending, Queued, Up, TypeOK, RedisTypeOK
    <3>2. queue[c] = <<>> /\ flags[c] = {}
      BY <3>1 DEF Sending
    <3> QED
      BY <2>2, <3>1, <3>2 DEF serverVars, TypeOK, RedisTypeOK
  <2> QED
    BY <2>1, <2>2 DEF CommitExec, CommitReplyLost
<1>3. /\ link' \in {link, [link EXCEPT ![c] = "up"]}
      /\ drops' \in {drops, drops + 1}
      /\ drops' = drops \/ drops' = drops + 1
  BY DEF CommitExec, CommitReplyLost, Redial
<1>4. drops' = 0 => drops = 0 /\ link'[c] = "up"
  BY <1>3 DEF TypeOK, DBTypeOK, Sending
<1>5. /\ txState' = [txState EXCEPT ![c] = "None"]
      /\ txCmds' = [txCmds EXCEPT ![c] = <<>>]
      /\ commitAt' = [commitAt EXCEPT ![c] = 0]
  BY <1>1 DEF EndTx
<1>6. ~InTx(c)' /\ commitAt'[c] = 0
  BY <1>5 DEF InTx, TypeOK, DBTypeOK
<1> QED
  BY <1>1, <1>2, <1>3, <1>4, <1>5, <1>6, EndSending DEF TypeOK, DBTypeOK, RedisTypeOK

LEMMA AbortTxSending ==
  ASSUME TypeOK, Sending, NEW c \in Conn, AbortTx(c)
  PROVE  Sending'
<1>1. /\ txState' = [txState EXCEPT ![c] = "None"]
      /\ txCmds' = [txCmds EXCEPT ![c] = <<>>]
      /\ commitAt' = [commitAt EXCEPT ![c] = 0]
      /\ link' = [link EXCEPT ![c] = "up"]
      /\ UNCHANGED <<multi, queue, flags, bare, drops>>
  BY DEF AbortTx, EndTx, Redial, UNWATCH, serverVars
<1>2. multi[c] = FALSE /\ queue[c] = <<>> /\ flags[c] = {}
  BY DEF AbortTx, Idle, Sending, Queued, TypeOK, RedisTypeOK
<1> QED
  BY <1>1, <1>2, EndSending DEF InTx, TypeOK, DBTypeOK, RedisTypeOK

LEMMA ForgetSending ==
  ASSUME TypeOK, Sending, NEW c \in Conn, Drop(c) \/ DeleteDB(c)
  PROVE  Sending'
<1>1. /\ multi' = [multi EXCEPT ![c] = FALSE]
      /\ queue' = [queue EXCEPT ![c] = <<>>]
      /\ flags' = [flags EXCEPT ![c] = {}]
  BY DEF Drop, DeleteDB, Forget
<1>2. CASE Drop(c)
  <2>1. /\ link' = [link EXCEPT ![c] = "broken"]
        /\ drops' = drops + 1 /\ drops' # 0
        /\ UNCHANGED <<commitAt, txCmds, txState, bare>>
    BY <1>2 DEF Drop, TypeOK, DBTypeOK
  <2>2. InTx(c) /\ commitAt[c] = 0 => ~bare[c]
    BY DEF Sending
  <2> QED
    BY <1>1, <2>1, <2>2, EndSending DEF InTx, TypeOK, DBTypeOK, RedisTypeOK
<1>3. CASE DeleteDB(c)
  <2>1. /\ link' = [link EXCEPT ![c] = "up"]
        /\ txState' = [txState EXCEPT ![c] = "None"]
        /\ txCmds' = [txCmds EXCEPT ![c] = <<>>]
        /\ bare' = [bare EXCEPT ![c] = FALSE]
        /\ commitAt' = commitAt /\ commitAt[c] = 0 /\ drops' = drops
    BY <1>3 DEF DeleteDB, Redial, Idle
  <2> QED
    BY <1>1, <2>1, EndSending DEF InTx, TypeOK, DBTypeOK, RedisTypeOK
<1> QED
  BY <1>2, <1>3

LEMMA UnwindSending ==
  ASSUME Sending, NEW c \in Conn, Unwind(c)
  PROVE  Sending'
  BY DEF Unwind, serverVars, Sending, Queued, Sent, AtExec, InTx

LEMMA StepSending == TypeOK /\ Sending /\ [AnyStep]_vars => Sending'
<1> SUFFICES ASSUME TypeOK, Sending, [AnyStep]_vars
             PROVE  Sending'
  OBVIOUS
<1>1. CASE UNCHANGED vars
  BY <1>1 DEF vars, serverVars, dbVars, histVars, Sending, Queued, Sent, AtExec, InTx
<1>2. ASSUME NEW c \in Conn, NEW S, StartTx(c, S) \/ AppendWatchTx(c, S)
      PROVE  Sending'
  BY <1>2, WatchSending
<1>3. ASSUME NEW c \in Conn, AppCall(c) \/ DirectCall(c)
      PROVE  Sending'
  BY <1>3, AppCallSending, DirectSending
<1>4. ASSUME NEW c \in Conn,
             \/ CommitMulti(c) \/ CommitStep(c) \/ AbortTx(c) \/ DeleteDB(c) \/ Fault(c)
             \/ Unwind(c)
      PROVE  Sending'
  BY <1>4, UnwindSending, CommitMultiSending, CommitCmdSending, CommitFlagsSending, ExecSending,
     AbortTxSending, ForgetSending DEF CommitStep, Fault
<1> QED
  BY <1>1, <1>2, <1>3, <1>4 DEF AnyStep, DBStep

-----------------------------------------------------------------------------
(* The invariant, and the success of CommitTx.                             *)

LEMMA SendingCorrect == Spec => []Sending
<1>1. Init => Sending
  BY DEF Init, RedisInit, Sending, Queued, InTx
<1> QED
  BY <1>1, StepSending, NextIsStep, TypeCorrect, PTL DEF Spec

(* At EXEC the server holds the whole of d.txCmds.                         *)
LEMMA WholeQueue ==
  ASSUME TypeOK, Sending, NEW c \in Conn, multi[c], commitAt[c] = AtExec(c)
  PROVE  queue[c] = txCmds[c] /\ ~bare[c]
<1>1. Queued(c)
  BY DEF Sending
<1>2. queue[c] \in Seq(Cmd) /\ txCmds[c] \in Seq(Cmd)
  BY DEF TypeOK, DBTypeOK, RedisTypeOK
<1>3. Sent(c) = Len(txCmds[c])
  BY <1>2 DEF AtExec, Sent
<1> QED
  BY <1>1, <1>2, <1>3, SeqEqual DEF Queued

(* Only the EXEC of c makes its CommitTx succeed, and what that EXEC runs  *)
(* is then the whole of d.txCmds.                                          *)
LEMMA CommitsByExec ==
  ASSUME TypeOK, Sending, AnyStep, NEW c \in Conn, Commits(c)
  PROVE  /\ ExecRuns(c) /\ ~bare[c]
         /\ queue[c] = txCmds[c]
         /\ store' = Effect(store, queue[c])
<1> USE DEF TypeOK, DBTypeOK
<1>1. PICK d \in Conn : DBStep(d)
  BY DEF AnyStep
<1>2. outcome'[c] # outcome[c] /\ outcome'[c] = "ok"
  BY DEF Commits
<1>3. CASE \E S \in SUBSET (Key \cup Table) : StartTx(d, S) \/ AppendWatchTx(d, S)
  BY <1>2, <1>3 DEF StartTx, AppendWatchTx, histVars
<1>4. CASE AppCall(d)
  BY <1>2, <1>4, AppCallStages, StageAside
<1>5. CASE DirectCall(d) \/ CommitMulti(d) \/ AbortTx(d) \/ DeleteDB(d)
  BY <1>2, <1>5 DEF DirectCall, DirectWrite, CommitMulti, AbortTx, DeleteDB, histVars
<1>6. CASE CommitCmd(d) \/ CommitFlags(d) \/ Drop(d) \/ CommitReplyLost(d) \/ Unwind(d)
  BY <1>2, <1>6 DEF CommitCmd, CommitFlags, Drop, CommitReplyLost, Unwind, histVars
<1>7. CASE CommitExec(d)
  <2>1. d = c /\ ExecRuns(c) /\ EXEC(c)
    BY <1>2, <1>7 DEF CommitExec
  <2>2. queue[c] = txCmds[c] /\ ~bare[c]
    BY <1>7, <2>1, WholeQueue DEF CommitExec, ExecRuns
  <2> QED
    BY <2>1, <2>2 DEF EXEC
<1> QED
  BY <1>1, <1>3, <1>4, <1>5, <1>6, <1>7 DEF DBStep, CommitStep, Fault

LEMMA CommitIsAtomic ==
  TypeOK /\ Sending /\ [AnyStep]_vars =>
    [\A c \in Conn : Commits(c) => ~bare[c] /\ store' = Effect(store, txCmds[c])]_vars
<1> SUFFICES ASSUME TypeOK, Sending, AnyStep, NEW c \in Conn, Commits(c)
             PROVE  ~bare[c] /\ store' = Effect(store, txCmds[c])
  OBVIOUS
<1> QED
  BY CommitsByExec

(* CommitTx returns no error only when one EXEC wrote all of d.txCmds, and *)
(* none of its commands had reached the store before: what db.go relies on *)
(* when it looks at the error of EXEC alone (db.go, CommitTx).             *)
THEOREM OkAtomic == Spec => OkIsAtomic
BY CommitIsAtomic, NextIsStep, TypeCorrect, SendingCorrect, PTL DEF Spec, OkIsAtomic

-----------------------------------------------------------------------------
(* A queue with a malformed command in it is never run.                    *)

Refused ==
  \A c \in Conn : multi[c] /\ ~dirty[c] =>
    \A i \in DOMAIN queue[c] : ~Malformed(queue[c][i])

RefusedOf(c) ==
  multi[c] /\ ~dirty[c] => \A i \in DOMAIN queue[c] : ~Malformed(queue[c][i])

(* What any command does to the queue of a connection that did not send it.*)
LEMMA OthersRefuse ==
  ASSUME Refused, NEW c \in Conn, RefusedOf(c)',
         \A d \in Conn \ {c} : UNCHANGED <<multi[d], queue[d]>> /\ (dirty[d] => dirty'[d])
  PROVE  Refused'
<1> SUFFICES ASSUME NEW d \in Conn
             PROVE  RefusedOf(d)'
  BY DEF Refused, RefusedOf
<1> QED
  BY DEF Refused, RefusedOf

LEMMA HashCommandRefused ==
  ASSUME TypeOK, Refused, NEW c \in Conn, NEW cmd \in Cmd, HashCommand(c, cmd)
  PROVE  Refused'
<1> USE DEF TypeOK, RedisTypeOK
<1>1. CASE multi[c]
  <2>1. /\ queue' = [queue EXCEPT ![c] = Append(@, cmd)]
        /\ dirty' = [dirty EXCEPT ![c] = @ \/ Malformed(cmd)]
        /\ multi' = multi
    BY <1>1 DEF HashCommand
  <2>2. dirty'[c] <=> dirty[c] \/ Malformed(cmd)
    BY <2>1
  <2>3. ASSUME NEW i \in DOMAIN queue'[c], queue'[c][i] # cmd
        PROVE  i \in DOMAIN queue[c] /\ queue'[c][i] = queue[c][i]
    <3> DEFINE q == queue[c]
    <3>1. q \in Seq(Cmd) /\ queue'[c] = Append(q, cmd)
      BY <2>1
    <3>2. ASSUME NEW j \in DOMAIN Append(q, cmd), Append(q, cmd)[j] # cmd
          PROVE  j \in DOMAIN q /\ Append(q, cmd)[j] = q[j]
      <4>1. j \in 1..(Len(q) + 1)
        BY <3>1
      <4>2. j = Len(q) + 1 => Append(q, cmd)[j] = cmd
        BY <3>1
      <4>3. j \in 1..Len(q)
        BY <3>1, <3>2, <4>1, <4>2
      <4> QED
        BY <3>1, <4>3
    <3> QED
      BY <2>3, <3>1, <3>2
  <2>4. RefusedOf(c)'
    BY <2>1, <2>2, <2>3 DEF Refused, RefusedOf
  <2> QED
    BY <2>1, <2>4, OthersRefuse
<1>2. CASE ~multi[c]
  <2>1. /\ dirty' = Signalled(Touched(store, <<cmd>>)) /\ UNCHANGED <<multi, queue>>
    BY <1>2 DEF HashCommand
  <2> QED
    BY <1>2, <2>1, OthersRefuse DEF RefusedOf, Signalled
<1> QED
  BY <1>1, <1>2

LEMMA ExecRefused ==
  ASSUME TypeOK, Refused, NEW c \in Conn, EXEC(c)
  PROVE  Refused'
<1> USE DEF TypeOK, RedisTypeOK
<1>1. RefusedOf(c)'
  BY DEF EXEC, RefusedOf
<1>2. \A d \in Conn \ {c} : UNCHANGED <<multi[d], queue[d]>>
  BY DEF EXEC
<1>3. \A d \in Conn \ {c} : dirty[d] => dirty'[d]
  <2>1. CASE ExecRuns(c)
    <3>1. dirty' = [Signalled(Touched(store, queue[c]) \cup flags[c]) EXCEPT ![c] = FALSE]
      BY <2>1 DEF EXEC
    <3> QED
      BY <3>1 DEF Signalled
  <2>2. CASE ~ExecRuns(c)
    BY <2>2 DEF EXEC
  <2> QED
    BY <2>1, <2>2
<1> QED
  BY <1>1, <1>2, <1>3, OthersRefuse

(* The other commands queue nothing, and only on a connection outside      *)
(* MULTI do they clear the mark.                                           *)
LEMMA RestRefused ==
  ASSUME TypeOK, Sending, Refused, NEW c \in Conn, NEW S, NEW T,
         \/ WATCH(c, S) \/ MULTI(c) \/ FlagCommands(c, T) \/ Forget(c)
         \/ UNWATCH(c) /\ ~multi[c]
         \/ UNCHANGED serverVars
  PROVE  Refused'
<1> USE DEF TypeOK, RedisTypeOK
<1>1. \A d \in Conn \ {c} : UNCHANGED <<multi[d], queue[d]>> /\ (dirty[d] => dirty'[d])
  BY DEF WATCH, MULTI, FlagCommands, Forget, UNWATCH, Signalled, serverVars
<1>2. RefusedOf(c)'
  <2>1. CASE MULTI(c)
    BY <2>1 DEF MULTI, Sending, Refused, RefusedOf
  <2>2. CASE WATCH(c, S) \/ FlagCommands(c, T) \/ UNCHANGED serverVars
    BY <2>2 DEF WATCH, FlagCommands, Signalled, serverVars, Refused, RefusedOf
  <2>3. CASE Forget(c) \/ (UNWATCH(c) /\ ~multi[c])
    BY <2>3 DEF Forget, UNWATCH, RefusedOf
  <2> QED
    BY <2>1, <2>2, <2>3
<1> QED
  BY <1>1, <1>2, OthersRefuse

LEMMA StepRefused == TypeOK /\ Sending /\ Refused /\ [AnyStep]_vars => Refused'
<1> SUFFICES ASSUME TypeOK, Sending, Refused, [AnyStep]_vars
             PROVE  Refused'
  OBVIOUS
<1>1. CASE UNCHANGED vars
  BY <1>1 DEF vars, serverVars, Refused
<1>2. ASSUME NEW c \in Conn, NEW S, StartTx(c, S) \/ AppendWatchTx(c, S)
      PROVE  Refused'
  BY <1>2, RestRefused DEF StartTx, AppendWatchTx, performWatch
<1>3. ASSUME NEW c \in Conn, AppCall(c)
      PROVE  Refused'
  BY <1>3, AppCallStages, StageAside, RestRefused
<1>4. ASSUME NEW c \in Conn, DirectCall(c)
      PROVE  Refused'
  <2>1. PICK cmd \in Cmd : DirectWrite(c, cmd)
    <3>1. DirectKeys \subseteq Key /\ \A v \in Written[c] : v \in Entry
      BY DBAssumption
    <3> QED
      BY <1>4, <3>1, CmdType, NoEntryType DEF DirectCall
  <2> QED
    BY <2>1, HashCommandRefused, RestRefused DEF DirectWrite
<1>5. ASSUME NEW c \in Conn, CommitCmd(c)
      PROVE  Refused'
  <2>1. txCmds[c][commitAt[c]] \in Cmd
    BY <1>5 DEF CommitCmd, TypeOK, DBTypeOK
  <2> QED
    BY <1>5, <2>1, HashCommandRefused, RestRefused DEF CommitCmd
<1>6. ASSUME NEW c \in Conn,
             \/ CommitMulti(c) \/ CommitFlags(c) \/ DeleteDB(c) \/ Drop(c) \/ Unwind(c)
      PROVE  Refused'
  BY <1>6, RestRefused DEF CommitMulti, CommitFlags, DeleteDB, Drop, Unwind
<1>7. ASSUME NEW c \in Conn, CommitExec(c) \/ CommitReplyLost(c)
      PROVE  Refused'
  BY <1>7, ExecRefused, RestRefused DEF CommitExec, CommitReplyLost
<1>8. ASSUME NEW c \in Conn, AbortTx(c)
      PROVE  Refused'
  <2>1. ~multi[c]
    BY <1>8 DEF AbortTx, Idle, Sending, Queued
  <2> QED
    BY <1>8, <2>1, RestRefused DEF AbortTx
<1> QED
  BY <1>1, <1>2, <1>3, <1>4, <1>5, <1>6, <1>7, <1>8
  DEF AnyStep, DBStep, CommitStep, Fault

LEMMA RefusedCorrect == Spec => []Refused
<1>1. Init => Refused
  BY DEF Init, RedisInit, Refused
<1> QED
  BY <1>1, StepRefused, NextIsStep, TypeCorrect, SendingCorrect, PTL DEF Spec

LEMMA CommitIsValidated ==
  TypeOK /\ Sending /\ InStep /\ Refused /\ [AnyStep]_vars =>
    [\A c \in Conn : Commits(c) =>
       /\ Len(cvlData[c]) = Len(txCmds[c])
       /\ \A i \in DOMAIN txCmds[c] : Mirrors(cvlData[c][i], txCmds[c][i])]_vars
<1> SUFFICES ASSUME TypeOK, Sending, InStep, Refused, AnyStep, NEW c \in Conn,
                    Commits(c)
             PROVE  /\ Len(cvlData[c]) = Len(txCmds[c])
                    /\ \A i \in DOMAIN txCmds[c] : Mirrors(cvlData[c][i], txCmds[c][i])
  OBVIOUS
<1>1. ExecRuns(c) /\ queue[c] = txCmds[c]
  BY CommitsByExec
<1>2. \A i \in DOMAIN txCmds[c] : ~Malformed(txCmds[c][i])
  BY <1>1 DEF ExecRuns, Refused
<1> QED
  BY <1>2 DEF InStep, Accounts

(* What CommitTx writes is what ValidateEditConfig accepted in the same    *)
(* transaction, item for command and in order: what doCVL takes off its    *)
(* list again is what doWrite does not queue, and the one call for which   *)
(* the two lists tell different stories, DeleteEntryFields without fields, *)
(* makes EXEC fail.                                                        *)
THEOREM ValidatedIsWritten == Spec => WrittenIsValidated
BY CommitIsValidated, InStepCorrect, RefusedCorrect, NextIsStep, TypeCorrect,
   SendingCorrect, PTL DEF Spec, WrittenIsValidated
=============================================================================
