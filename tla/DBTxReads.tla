------------------------------ MODULE DBTxReads -----------------------------
(***************************************************************************)
(* The check-and-set of a transaction, for any number of DB objects, keys, *)
(* tables and commands, and any number of lost connections: what was read  *)
(* under a WATCH is what EXEC finds, or EXEC is refused.                   *)
(***************************************************************************)
EXTENDS DBTxSending

-----------------------------------------------------------------------------
(* What the commands leave alone.                                          *)

LEMMA Untouched ==
  ASSUME NEW st \in [Key -> Entry], NEW cmds \in Seq(Cmd),
         NEW k \in Key, k \notin Touched(st, cmds)
  PROVE  Effect(st, cmds)[k] = st[k]
<1> SUFFICES ASSUME NEW f \in Field
             PROVE  Effect(st, cmds)[k][f] = st[k][f]
  BY EffectType DEF Entry
<1>1. CASE \E i \in DOMAIN cmds : LastHit(cmds, i, k, f)
  <2> DEFINE i == CHOOSE i \in DOMAIN cmds : LastHit(cmds, i, k, f)
  <2>1. i \in DOMAIN cmds /\ LastHit(cmds, i, k, f)
    BY <1>1
  <2>2. cmds[i].key = k /\ Hits(cmds[i], k, f)
    BY <2>1 DEF LastHit, Hits
  <2>3. cmds[i].op # "HMSET" /\ st[k][f] = Absent
    BY <2>1, <2>2 DEF Touched
  <2>4. Effect(st, cmds)[k][f] = Leaves(cmds[i], f)
    BY <1>1 DEF Effect
  <2> QED
    BY <2>3, <2>4 DEF Leaves
<1>2. CASE ~\E i \in DOMAIN cmds : LastHit(cmds, i, k, f)
  BY <1>2 DEF Effect
<1> QED
  BY <1>1, <1>2

LEMMA TouchedTables ==
  ASSUME NEW st, NEW cmds, NEW k \in Touched(st, cmds)
  PROVE  TableOf[k] \in TablesOf(cmds)
  BY DEF Touched, TablesOf

LEMMA TouchedByOne ==
  ASSUME NEW st, NEW cmd, NEW k \in Touched(st, <<cmd>>)
  PROVE  k = cmd.key
  BY DEF Touched

-----------------------------------------------------------------------------
(* CleanReadsCurrent, one connection at a time.                            *)

Clean(c) ==
  ~dirty[c] =>
    \A r \in reads[c] : Protects(c, r) => Watches(c, r) /\ store[r.key] = r.val

(* A connection that has read nothing keeps the promise.                   *)
LEMMA NothingRead ==
  ASSUME NEW c, reads'[c] = {}
  PROVE  Clean(c)'
  BY DEF Clean

(* A step may read more, watch more, lose a connection, and change what is *)
(* not watched.                                                            *)
LEMMA KeepsClean ==
  ASSUME NEW c, Clean(c), dirty[c] => dirty'[c],
         watching[c] \subseteq watching'[c],
         drops' = 0 => drops = 0,
         \A r \in reads'[c] : r \in reads[c] \/
            (Protects(c, r)' => Watches(c, r)' /\ store'[r.key] = r.val),
         \A r \in reads[c] : ~dirty'[c] /\ Watches(c, r) /\ Protects(c, r)' =>
            store'[r.key] = store[r.key]
  PROVE  Clean(c)'
<1> SUFFICES ASSUME NEW r \in reads'[c], ~dirty'[c], Protects(c, r)', r \in reads[c]
             PROVE  Watches(c, r)' /\ store'[r.key] = r.val
  BY DEF Clean
<1>1. Protects(c, r)
  BY DEF Protects
<1>2. Watches(c, r) /\ store[r.key] = r.val
  BY <1>1 DEF Clean
<1> QED
  BY <1>2 DEF Watches

(* What Remember adds is covered the way it says.                          *)
LEMMA RememberFresh ==
  ASSUME TypeOK, NEW c \in Conn, NEW K, Remember(c, K), UNCHANGED serverVars,
         NEW d \in Conn, NEW r \in reads'[d]
  PROVE  \/ r \in reads[d]
         \/ Protects(d, r)' => Watches(d, r)' /\ store'[r.key] = r.val
<1>1. CASE r \notin reads[d]
  <2>1. PICK k \in K : /\ d = c
                       /\ r = [key |-> k, val |-> store[k], how |-> HowCovered(c, k)]
    BY <1>1 DEF Remember, TypeOK, DBTypeOK
  <2> QED
    BY <2>1 DEF HowCovered, Protects, Watches, serverVars
<1> QED
  BY <1>1

-----------------------------------------------------------------------------
(* One lemma per kind of step of a connection c; d is any connection.      *)

LEMMA WatchClean ==
  ASSUME TypeOK, NEW c \in Conn, NEW S, StartTx(c, S) \/ AppendWatchTx(c, S),
         NEW d \in Conn, Clean(d)
  PROVE  Clean(d)'
<1>1. WATCH(c, S) \/ UNCHANGED serverVars
  BY DEF StartTx, AppendWatchTx, performWatch
<1>2. UNCHANGED <<store, dirty>> /\ watching[d] \subseteq watching'[d]
  BY <1>1 DEF WATCH, serverVars, TypeOK, RedisTypeOK
<1>3. UNCHANGED <<reads, drops>>
  BY DEF StartTx, AppendWatchTx, histVars
<1> QED
  BY <1>2, <1>3, KeepsClean

LEMMA AppCallReads ==
  ASSUME NEW c \in Conn, AppCall(c)
  PROVE  reads' = reads \/ \E K : Remember(c, K)
<1>1. CASE ReadCall(c)
  BY <1>1 DEF ReadCall, GetEntry
<1>2. CASE LoopCall(c)
  BY <1>2 DEF LoopCall, DeleteTable, DeleteKeys, DeleteLoop
<1>3. CASE LoopStep(c)
  BY <1>3 DEF LoopStep, LoopDelete
<1>4. ASSUME NEW ok \in BOOLEAN, WriteCall(c, ok)
      PROVE  reads' = reads \/ \E K : Remember(c, K)
  BY <1>4 DEF WriteCall, DeleteEntry, CreateEntry, ModEntry, DeleteEntryFields,
              Write, SetEntry
<1> QED
  BY <1>1, <1>2, <1>3, <1>4 DEF AppCall

LEMMA AppCallClean ==
  ASSUME TypeOK, NEW c \in Conn, AppCall(c), NEW d \in Conn, Clean(d)
  PROVE  Clean(d)'
<1>1. UNCHANGED serverVars /\ UNCHANGED drops
  BY AppCallStages, StageAside
<1>2. reads' = reads \/ \E K : Remember(c, K)
  BY AppCallReads
<1>3. \A r \in reads'[d] : \/ r \in reads[d]
                           \/ Protects(d, r)' => Watches(d, r)' /\ store'[r.key] = r.val
  BY <1>1, <1>2, RememberFresh
<1> QED
  BY <1>1, <1>3, KeepsClean DEF serverVars

LEMMA CommitMultiClean ==
  ASSUME TypeOK, NEW c \in Conn, CommitMulti(c) \/ CommitFlags(c),
         NEW d \in Conn, Clean(d)
  PROVE  Clean(d)'
<1>1. UNCHANGED <<store, watching, reads, drops>>
  BY DEF CommitMulti, CommitFlags, MULTI, FlagCommands, serverVars, histVars
<1>2. dirty[d] => dirty'[d]
  BY DEF CommitMulti, CommitFlags, MULTI, FlagCommands, Signalled, serverVars
<1> QED
  BY <1>1, <1>2, KeepsClean

(* A command that runs on its own: under a watched table only keys that    *)
(* are written outside transactions may change, or a commit was torn.      *)
LEMMA HashCommandClean ==
  ASSUME TypeOK, NEW c \in Conn, NEW cmd \in Cmd, HashCommand(c, cmd),
         ~multi[c] /\ drops = 0 => cmd.key \in DirectKeys,
         UNCHANGED <<reads, drops>>, NEW d \in Conn, Clean(d)
  PROVE  Clean(d)'
<1>1. CASE UNCHANGED <<store, watching>> /\ (dirty[d] => dirty'[d])
  BY <1>1, KeepsClean
<1>2. CASE /\ ~multi[c]
           /\ store' = Effect(store, <<cmd>>)
           /\ dirty' = Signalled(Touched(store, <<cmd>>))
           /\ UNCHANGED watching
  <2>1. dirty'[d] = (dirty[d] \/ watching[d] \cap Touched(store, <<cmd>>) # {})
    BY <1>2 DEF Signalled
  <2>2. ASSUME NEW r \in reads[d], ~dirty'[d], Watches(d, r), Protects(d, r)'
        PROVE  store'[r.key] = store[r.key]
    <3>1. r.key \in Key
      BY DEF TypeOK, DBTypeOK, Read
    <3>2. r.key \notin Touched(store, <<cmd>>)
      <4>1. CASE r.how = "key"
        BY <2>1, <2>2, <4>1 DEF Watches
      <4>2. CASE r.how = "table"
        <5>1. r.key \notin DirectKeys /\ drops = 0
          BY <2>2, <4>2 DEF Protects
        <5> QED
          BY <1>2, <5>1, TouchedByOne
      <4> QED
        BY <2>2, <4>1, <4>2 DEF Watches
    <3>3. <<cmd>> \in Seq(Cmd) /\ store \in [Key -> Entry]
      BY DEF TypeOK, RedisTypeOK
    <3> QED
      BY <1>2, <3>1, <3>2, <3>3, Untouched
  <2> QED
    BY <1>2, <2>1, <2>2, KeepsClean
<1>3. CASE multi[c]
  <2>1. dirty' = [dirty EXCEPT ![c] = @ \/ Malformed(cmd)]
    BY <1>3 DEF HashCommand
  <2>2. dirty[d] => dirty'[d]
    BY <2>1 DEF TypeOK, RedisTypeOK
  <2> QED
    BY <1>1, <1>3, <2>2 DEF HashCommand
<1> QED
  BY <1>2, <1>3 DEF HashCommand

LEMMA CommandClean ==
  ASSUME TypeOK, Sending, NEW c \in Conn, CommitCmd(c) \/ DirectCall(c),
         NEW d \in Conn, Clean(d)
  PROVE  Clean(d)'
<1>1. CASE CommitCmd(c)
  <2> DEFINE cmd == txCmds[c][commitAt[c]]
  <2>1. cmd \in Cmd /\ commitAt[c] > 0
    BY <1>1 DEF CommitCmd, TypeOK, DBTypeOK
  <2>2. drops = 0 => multi[c]
    BY <2>1 DEF Sending
  <2>3. UNCHANGED <<reads, drops>>
    BY <1>1 DEF CommitCmd
  <2>4. CASE HashCommand(c, cmd)
    BY <2>1, <2>2, <2>3, <2>4, HashCommandClean
  <2>5. CASE UNCHANGED serverVars
    BY <2>3, <2>5, KeepsClean DEF serverVars
  <2> QED
    BY <1>1, <2>4, <2>5 DEF CommitCmd
<1>2. CASE DirectCall(c)
  <2>1. PICK cmd \in Cmd : DirectWrite(c, cmd)
    <3>1. DirectKeys \subseteq Key /\ \A v \in Written[c] : v \in Entry
      BY DBAssumption
    <3> QED
      BY <1>2, <3>1, CmdType, NoEntryType DEF DirectCall
  <2>2. cmd.key \in DirectKeys /\ UNCHANGED <<reads, drops>>
    BY <2>1 DEF DirectWrite, histVars
  <2>3. CASE HashCommand(c, cmd)
    BY <2>2, <2>3, HashCommandClean
  <2>4. CASE UNCHANGED serverVars
    BY <2>2, <2>4, KeepsClean DEF serverVars
  <2> QED
    BY <2>1, <2>3, <2>4 DEF DirectWrite
<1> QED
  BY <1>1, <1>2

(* EXEC signals every key it changes and every table of such a key, and    *)
(* ends the transaction of its own connection.                             *)
LEMMA ExecClean ==
  ASSUME TypeOK, Sending, NEW c \in Conn, CommitExec(c) \/ CommitReplyLost(c),
         NEW d \in Conn, Clean(d)
  PROVE  Clean(d)'
<1>1. reads' = [reads EXCEPT ![c] = {}]
  BY DEF CommitExec, CommitReplyLost, EndTx
<1>2. CASE d = c
  BY <1>1, <1>2, NothingRead DEF TypeOK, DBTypeOK
<1>3. CASE d # c /\ EXEC(c) /\ ExecRuns(c)
  <2>1. /\ store' = Effect(store, queue[c])
        /\ dirty'[d] = (dirty[d] \/ watching[d] \cap (Touched(store, queue[c]) \cup flags[c]) # {})
        /\ watching'[d] = watching[d]
    BY <1>3 DEF EXEC, Signalled, TypeOK, RedisTypeOK
  <2>2. queue[c] \in Seq(Cmd) /\ txCmds[c] \in Seq(Cmd) /\ store \in [Key -> Entry]
    BY DEF TypeOK, RedisTypeOK, DBTypeOK
  <2>3. flags[c] = TablesOf(queue[c])
    <3>1. Queued(c) /\ commitAt[c] = AtExec(c)
      BY <1>3 DEF ExecRuns, Sending, CommitExec, CommitReplyLost
    <3>2. Sent(c) = Len(txCmds[c])
      BY <2>2, <3>1 DEF Sent, AtExec
    <3>3. queue[c] = txCmds[c]
      BY <2>2, <3>1, <3>2, SeqEqual DEF Queued
    <3> QED
      BY <3>1, <3>3 DEF Queued
  <2>4. ASSUME NEW r \in reads[d], ~dirty'[d], Watches(d, r), Protects(d, r)'
        PROVE  store'[r.key] = store[r.key]
    <3>1. r.key \in Key
      BY DEF TypeOK, DBTypeOK, Read
    <3>2. r.key \notin Touched(store, queue[c])
      BY <2>1, <2>3, <2>4, TouchedTables DEF Watches
    <3> QED
      BY <2>1, <2>2, <3>1, <3>2, Untouched
  <2>5. drops' = 0 => drops = 0
    BY DEF CommitExec, CommitReplyLost, TypeOK, DBTypeOK
  <2>6. reads'[d] = reads[d]
    BY <1>1, <1>3 DEF TypeOK, DBTypeOK
  <2> QED
    BY <2>1, <2>4, <2>5, <2>6, KeepsClean
<1>4. CASE d # c /\ ((EXEC(c) /\ ~ExecRuns(c)) \/ UNCHANGED serverVars)
  <2>1. store' = store /\ dirty'[d] = dirty[d] /\ watching'[d] = watching[d]
    BY <1>4 DEF EXEC, serverVars, TypeOK, RedisTypeOK
  <2>2. (drops' = 0 => drops = 0) /\ reads'[d] = reads[d]
    BY <1>1, <1>4 DEF CommitExec, CommitReplyLost, TypeOK, DBTypeOK
  <2> QED
    BY <2>1, <2>2, KeepsClean
<1> QED
  BY <1>2, <1>3, <1>4 DEF CommitExec, CommitReplyLost

(* UNWATCH and a closed connection forget the watch and the reads with it, *)
(* a broken one leaves reads that nothing protects.                        *)
LEMMA ForgetClean ==
  ASSUME TypeOK, NEW c \in Conn, AbortTx(c) \/ DeleteDB(c) \/ Drop(c),
         NEW d \in Conn, Clean(d)
  PROVE  Clean(d)'
<1>1. CASE d # c
  <2>1. store' = store /\ dirty'[d] = dirty[d] /\ watching'[d] = watching[d]
    BY <1>1 DEF AbortTx, DeleteDB, Drop, UNWATCH, Forget, serverVars, TypeOK, RedisTypeOK
  <2>2. (drops' = 0 => drops = 0) /\ reads'[d] = reads[d]
    BY <1>1 DEF AbortTx, EndTx, DeleteDB, Drop, TypeOK, DBTypeOK
  <2> QED
    BY <2>1, <2>2, KeepsClean
<1>2. CASE d = c /\ (AbortTx(c) \/ DeleteDB(c))
  BY <1>2, NothingRead DEF AbortTx, EndTx, DeleteDB, TypeOK, DBTypeOK
<1>3. CASE d = c /\ Drop(c)
  <2>1. \A r \in reads'[c] : r.how \in {"none", "lost"}
    <3>1. ASSUME NEW q \in reads[c], NEW h
          PROVE  [q EXCEPT !.how = h].how = h
      BY DEF TypeOK, DBTypeOK, Read
    <3>2. ASSUME NEW r \in reads'[c]
          PROVE  \E q \in reads[c], h \in {"none", "lost"} : r = [q EXCEPT !.how = h]
      BY <1>3 DEF Drop, TypeOK, DBTypeOK
    <3> SUFFICES ASSUME NEW r \in reads'[c]
                 PROVE  r.how \in {"none", "lost"}
      OBVIOUS
    <3>3. PICK q \in reads[c], h \in {"none", "lost"} : r = [q EXCEPT !.how = h]
      BY <3>2
    <3>4. r.how = h
      BY <3>1, <3>3
    <3> QED
      BY <3>4
  <2> QED
    BY <1>3, <2>1 DEF Clean, Protects
<1> QED
  BY <1>1, <1>2, <1>3

LEMMA StepClean ==
  TypeOK /\ Sending /\ CleanReadsCurrent /\ [AnyStep]_vars => CleanReadsCurrent'
<1> SUFFICES ASSUME TypeOK, Sending, CleanReadsCurrent, [AnyStep]_vars, NEW d \in Conn
             PROVE  Clean(d)'
  BY DEF CleanReadsCurrent, Clean
<1>0. Clean(d)
  BY DEF CleanReadsCurrent, Clean
<1>1. CASE UNCHANGED vars
  BY <1>0, <1>1, KeepsClean DEF vars, serverVars, histVars
<1>2. ASSUME NEW c \in Conn, NEW S, StartTx(c, S) \/ AppendWatchTx(c, S)
      PROVE  Clean(d)'
  BY <1>0, <1>2, WatchClean
<1>3. ASSUME NEW c \in Conn, AppCall(c) \/ DirectCall(c) \/ CommitMulti(c) \/ CommitStep(c)
      PROVE  Clean(d)'
  BY <1>0, <1>3, AppCallClean, CommandClean, CommitMultiClean, ExecClean DEF CommitStep
<1>4. ASSUME NEW c \in Conn, AbortTx(c) \/ DeleteDB(c) \/ Fault(c)
      PROVE  Clean(d)'
  BY <1>0, <1>4, ForgetClean, ExecClean DEF Fault
<1>5. ASSUME NEW c \in Conn, Unwind(c)
      PROVE  Clean(d)'
  BY <1>0, <1>5, KeepsClean DEF Unwind, serverVars
<1> QED
  BY <1>1, <1>2, <1>3, <1>4, <1>5 DEF AnyStep, DBStep

-----------------------------------------------------------------------------
(* The theorems.                                                           *)

(* No write by another client, in or out of a transaction, slips between a *)
(* read that the WATCH of performWatch covers and the EXEC of CommitTx     *)
(* without making that EXEC fail.                                          *)
THEOREM ReadsStayCurrent == Spec => []CleanReadsCurrent
<1>1. Init => CleanReadsCurrent
  BY DEF Init, CleanReadsCurrent
<1> QED
  BY <1>1, StepClean, NextIsStep, TypeCorrect, SendingCorrect, PTL DEF Spec

LEMMA CommitFindsReads ==
  TypeOK /\ Sending /\ CleanReadsCurrent /\ [AnyStep]_vars =>
    [\A c \in Conn : Commits(c) =>
       \A r \in reads[c] : Protects(c, r) => store[r.key] = r.val]_vars
<1> SUFFICES ASSUME TypeOK, Sending, CleanReadsCurrent, AnyStep, NEW c \in Conn,
                    Commits(c), NEW r \in reads[c], Protects(c, r)
             PROVE  store[r.key] = r.val
  OBVIOUS
<1>1. ~dirty[c]
  BY CommitsByExec DEF ExecRuns
<1> QED
  BY <1>1 DEF CleanReadsCurrent

(* A CommitTx that reports success wrote on top of the values that its     *)
(* transaction read under a WATCH.                                         *)
THEOREM CommitChecksReads == Spec => CheckAndSet
BY CommitFindsReads, NextIsStep, ReadsStayCurrent, TypeCorrect, SendingCorrect,
   PTL DEF Spec, CheckAndSet
=============================================================================
