---------------------------- MODULE TranslibProofs --------------------------
(***************************************************************************)
(* What module Translib promises for any number of requests, processes and *)
(* daemons, of keys, tables and commands, and of lost connections.         *)
(*                                                                         *)
(* A request uses its DB object only as DBTx allows, so what is proved     *)
(* there carries over; and what one request does to another goes through   *)
(* the store and the dirty mark only.                                      *)
(***************************************************************************)
EXTENDS Translib, DBTxReads

-----------------------------------------------------------------------------
(* Every step is a step of one DB object, or of none.                      *)

Moves(r) ==
  \/ Refuse(r) \/ Advance(r) \/ AppReads(r) \/ AppWrites(r)
  \/ AppDone(r) \/ AppFails(r) \/ AppPanics(r) \/ RequestFault(r)

LEMMA MovesAreSteps ==
  ASSUME NEW r \in Request, Moves(r)
  PROVE  DBStep(r) \/ UNCHANGED vars
<1>0. WatchSets[r] \subseteq SUBSET (Key \cup Table) /\ {} \in SUBSET (Key \cup Table)
  BY DBAssumption, TranslibAssumption
<1>1. CASE Refuse(r) \/ Lock(r) \/ AppDone(r) \/ AppFails(r)
  BY <1>1 DEF Refuse, Lock, AppDone, AppFails
<1>2. CASE BulkStart(r) \/ Watch(r)
  BY <1>0, <1>2 DEF BulkStart, Watch, DBStep
<1>3. CASE AppReads(r) \/ AppWrites(r) \/ AppLoops(r) \/ AppPanics(r)
  BY <1>3 DEF AppReads, AppWrites, AppLoops, AppPanics, DBStep, AppCall
<1>4. CASE Commit(r) \/ CommitEnds(r) \/ Abort(r) \/ Return(r) \/ RequestFault(r)
  BY <1>4 DEF Commit, CommitEnds, Abort, Return, RequestFault, DBStep, CommitStep,
              Fault
<1> QED
  BY <1>1, <1>2, <1>3, <1>4 DEF Moves, Advance

LEMMA DaemonSteps ==
  ASSUME NEW c, Daemon(c)
  PROVE  DBStep(c) /\ UNCHANGED reqVars
  BY DEF Daemon, DBStep

LEMMA StepOfOne ==
  TranslibNext <=> \/ \E r \in Request : Moves(r)
                   \/ \E c \in Conn \ Request : Daemon(c)
  BY DEF TranslibNext, Moves

LEMMA TranslibTakesSteps == [TranslibNext]_allVars => [AnyStep]_vars
<1>1. ASSUME NEW r \in Request, Moves(r)
      PROVE  [AnyStep]_vars
  BY <1>1, MovesAreSteps, TranslibAssumption DEF AnyStep
<1>2. ASSUME NEW c \in Conn \ Request, Daemon(c)
      PROVE  [AnyStep]_vars
  BY <1>2, DaemonSteps DEF AnyStep
<1>3. CASE UNCHANGED allVars
  BY <1>3 DEF allVars
<1> QED
  BY <1>1, <1>2, <1>3, StepOfOne

(* The invariants of DBTx, in the composition.                             *)
DBInv == TypeOK /\ Open /\ Sending /\ CleanReadsCurrent /\ InStep /\ Refused

LEMMA DBInvCorrect == TranslibSpec => []DBInv
<1>1. TranslibInit => DBInv
  <2> SUFFICES ASSUME TranslibInit
               PROVE  DBInv
    OBVIOUS
  <2>1. TypeOK /\ Open
    BY EntriesAssumption
    DEF TranslibInit, Init, RedisInit, TypeOK, RedisTypeOK, DBTypeOK, Open, InTx
  <2>2. Sending /\ CleanReadsCurrent /\ InStep /\ Refused
    BY DEF TranslibInit, Init, RedisInit, Sending, Queued, InTx, CleanReadsCurrent,
           InStep, Refused
  <2> QED
    BY <2>1, <2>2 DEF DBInv
<1>2. DBInv /\ [TranslibNext]_allVars => DBInv'
  BY TranslibTakesSteps, StepTyped, StepSending, StepClean, StepMirrors,
     StepRefused DEF DBInv
<1> QED
  BY <1>1, <1>2, PTL DEF TranslibSpec

-----------------------------------------------------------------------------
(* Type correctness.                                                       *)

ReqTypeOK ==
  /\ pc \in [Request -> Phase]
  /\ holder \in [Proc -> Request \cup {NoRequest}]
  /\ ops \in [Request -> Nat]
  /\ answer \in [Request -> {"none", "ok", "fail", "panic"}]

LEMMA MovesTyped ==
  ASSUME TypeOK, TypeOK', ReqTypeOK, NEW r \in Request, Moves(r)
  PROVE  ReqTypeOK'
<1> USE TranslibAssumption DEF ReqTypeOK, Goto, Phase
<1>1. CASE Refuse(r) \/ Lock(r) \/ BulkStart(r)
  BY <1>1 DEF Refuse, Lock, BulkStart, Answer
<1>2. CASE Watch(r)
  BY <1>2 DEF Watch, Answer
<1>3. CASE AppReads(r) \/ AppWrites(r) \/ AppLoops(r) \/ Commit(r)
  BY <1>3 DEF AppReads, AppWrites, AppLoops, Commit, reqVars
<1>4. CASE AppDone(r)
  BY <1>4 DEF AppDone
<1>5. CASE AppFails(r) \/ AppPanics(r) \/ Abort(r) \/ Return(r)
  BY <1>5 DEF AppFails, AppPanics, Abort, Return, Answer
<1>6. CASE CommitEnds(r)
  <2>1. outcome'[r] \in {"none", "ok", "fail"}
    BY DEF TypeOK, DBTypeOK
  <2> QED
    BY <1>6, <2>1 DEF CommitEnds, Answer
<1>7. CASE RequestFault(r)
  BY <1>7 DEF RequestFault, reqVars, Answer
<1> QED
  BY <1>1, <1>2, <1>3, <1>4, <1>5, <1>6, <1>7 DEF Moves, Advance

LEMMA ReqTyped ==
  TypeOK /\ TypeOK' /\ ReqTypeOK /\ [TranslibNext]_allVars => ReqTypeOK'
<1>1. UNCHANGED reqVars => (ReqTypeOK => ReqTypeOK')
  BY DEF reqVars, ReqTypeOK
<1> QED
  BY <1>1, MovesTyped, DaemonSteps, StepOfOne DEF allVars

(* The state of requests, mutexes and DB objects stays within its type,    *)
(* whatever the app modules call and whichever connections break.          *)
THEOREM TranslibTypeCorrect == TranslibSpec => []TranslibTypeOK
<1>1. TranslibInit => ReqTypeOK
  BY TranslibAssumption DEF TranslibInit, ReqTypeOK, Phase
<1>2. DBInv => TypeOK
  BY DEF DBInv
<1>3. TypeOK /\ ReqTypeOK => TranslibTypeOK
  BY DEF ReqTypeOK, TranslibTypeOK
<1> QED
  BY <1>1, <1>2, <1>3, ReqTyped, DBInvCorrect, PTL DEF TranslibSpec

-----------------------------------------------------------------------------
(* What a step of one DB object does to another: it may make it dirty, if  *)
(* it watches something.                                                   *)

SameObject(d) ==
  UNCHANGED <<txState[d], txCmds[d], cvlData[d], sess[d], commitAt[d], loop[d],
              reads[d], outcome[d], bare[d], watching[d], multi[d]>>

Dirtied(d) ==
  /\ dirty[d] => dirty'[d]
  /\ dirty'[d] => dirty[d] \/ watching[d] # {}

LEMMA SignalledIsDirtied ==
  ASSUME NEW d \in Conn, NEW S, dirty'[d] = Signalled(S)[d]
  PROVE  Dirtied(d)
<1>1. dirty'[d] <=> dirty[d] \/ watching[d] \cap S # {}
  BY DEF Signalled
<1> QED
  BY <1>1 DEF Dirtied

LEMMA ServerSpares ==
  ASSUME RedisTypeOK, NEW c \in Conn, NEW d \in Conn \ {c}, NEW cmd, NEW T,
         HashCommand(c, cmd) \/ FlagCommands(c, T) \/ EXEC(c) \/ UNCHANGED serverVars
  PROVE  UNCHANGED <<watching[d], multi[d]>> /\ Dirtied(d)
<1>1. UNCHANGED <<watching[d], multi[d]>>
  BY DEF HashCommand, FlagCommands, EXEC, serverVars, RedisTypeOK
<1>2. \/ dirty'[d] = dirty[d]
      \/ \E S : dirty'[d] = Signalled(S)[d]
  <2>1. CASE EXEC(c)
    <3>1. \A S : [Signalled(S) EXCEPT ![c] = FALSE][d] = Signalled(S)[d]
      BY DEF Signalled
    <3>2. [dirty EXCEPT ![c] = FALSE][d] = dirty[d]
      BY DEF RedisTypeOK
    <3> QED
      BY <2>1, <3>1, <3>2 DEF EXEC
  <2>2. CASE multi[c] /\ HashCommand(c, cmd)
    <3>1. dirty' = [dirty EXCEPT ![c] = @ \/ Malformed(cmd)]
      BY <2>2 DEF HashCommand
    <3> QED
      BY <3>1 DEF RedisTypeOK
  <2> QED
    BY <2>1, <2>2 DEF HashCommand, FlagCommands, serverVars
<1>3. dirty'[d] = dirty[d] => Dirtied(d)
  BY DEF Dirtied
<1> QED
  BY <1>1, <1>2, <1>3, SignalledIsDirtied

LEMMA StepSparesOthers ==
  ASSUME TypeOK, NEW c \in Conn, DBStep(c), NEW d \in Conn \ {c}
  PROVE  SameObject(d) /\ Dirtied(d)
<1> USE DEF TypeOK, RedisTypeOK, DBTypeOK
<1>1. ASSUME NEW S, StartTx(c, S) \/ AppendWatchTx(c, S)
      PROVE  SameObject(d) /\ Dirtied(d)
  BY <1>1 DEF StartTx, AppendWatchTx, performWatch, WATCH, SameObject, Dirtied,
              serverVars, histVars
<1>2. CASE AppCall(c)
  <2>1. ASSUME NEW items, NEW cmds, NEW ok, Stage(c, items, cmds, ok)
        PROVE  UNCHANGED <<txState[d], txCmds[d], cvlData[d], sess[d], commitAt[d],
                           outcome[d], bare[d], watching[d], multi[d], dirty[d]>>
    BY <2>1 DEF Stage, doCVL, doWrite, serverVars
  <2>2. ASSUME NEW K, Remember(c, K)
        PROVE  reads'[d] = reads[d]
    BY <2>2 DEF Remember
  <2>3. CASE ReadCall(c)
    BY <2>2, <2>3 DEF ReadCall, GetEntry, SameObject, Dirtied, serverVars
  <2>4. CASE LoopCall(c)
    BY <2>2, <2>4 DEF LoopCall, DeleteTable, DeleteKeys, DeleteLoop, SameObject,
                      Dirtied, serverVars
  <2>5. CASE LoopStep(c)
    BY <2>1, <2>5 DEF LoopStep, LoopDelete, SameObject, Dirtied
  <2>6. ASSUME NEW ok \in BOOLEAN, WriteCall(c, ok)
        PROVE  SameObject(d) /\ Dirtied(d)
    <3>1. ASSUME NEW items, NEW cmds, Write(c, items, cmds, ok)
          PROVE  SameObject(d) /\ Dirtied(d)
      BY <2>1, <3>1 DEF Write, SameObject, Dirtied
    <3>2. ASSUME NEW k, NEW v, SetEntry(c, k, v, ok)
          PROVE  SameObject(d) /\ Dirtied(d)
      BY <2>1, <2>2, <3>2 DEF SetEntry, SameObject, Dirtied
    <3> QED
      BY <2>6, <3>1, <3>2 DEF WriteCall, DeleteEntry, CreateEntry, ModEntry,
                              DeleteEntryFields
  <2> QED
    BY <1>2, <2>3, <2>4, <2>5, <2>6 DEF AppCall
<1>3. CASE DirectCall(c)
  <2>1. PICK cmd : DirectWrite(c, cmd)
    BY <1>3 DEF DirectCall
  <2>2. UNCHANGED <<watching[d], multi[d]>> /\ Dirtied(d)
    BY <2>1, ServerSpares DEF DirectWrite
  <2> QED
    BY <2>1, <2>2 DEF DirectWrite, SameObject, histVars
<1>4. CASE CommitMulti(c)
  BY <1>4 DEF CommitMulti, MULTI, SameObject, Dirtied, serverVars, histVars
<1>5. CASE CommitCmd(c)
  <2>1. UNCHANGED <<watching[d], multi[d]>> /\ Dirtied(d)
    BY <1>5, ServerSpares DEF CommitCmd
  <2> QED
    BY <1>5, <2>1 DEF CommitCmd, SameObject
<1>6. CASE CommitFlags(c)
  <2>1. UNCHANGED <<watching[d], multi[d]>> /\ Dirtied(d)
    BY <1>6, ServerSpares DEF CommitFlags
  <2> QED
    BY <1>6, <2>1 DEF CommitFlags, SameObject, histVars
<1>7. CASE CommitExec(c) \/ CommitReplyLost(c)
  <2>1. UNCHANGED <<watching[d], multi[d]>> /\ Dirtied(d)
    BY <1>7, ServerSpares DEF CommitExec, CommitReplyLost
  <2> QED
    BY <1>7, <2>1 DEF CommitExec, CommitReplyLost, EndTx, SameObject
<1>8. CASE AbortTx(c) \/ DeleteDB(c) \/ Drop(c) \/ Unwind(c)
  BY <1>8 DEF AbortTx, EndTx, UNWATCH, DeleteDB, Drop, Forget, Unwind, SameObject,
              Dirtied, serverVars
<1> QED
  BY <1>1, <1>2, <1>3, <1>4, <1>5, <1>6, <1>7, <1>8 DEF DBStep, CommitStep, Fault

LEMMA DropsGrow ==
  ASSUME TypeOK, NEW c \in Conn, DBStep(c)
  PROVE  (drops' = 0 => drops = 0) /\ (drops > 0 => drops' > 0)
<1>1. ASSUME NEW S, StartTx(c, S) \/ AppendWatchTx(c, S)
      PROVE  drops' = drops
  BY <1>1 DEF StartTx, AppendWatchTx, histVars
<1>2. CASE AppCall(c)
  BY <1>2, AppCallStages, StageAside
<1>3. CASE \/ DirectCall(c) \/ CommitMulti(c) \/ CommitStep(c) \/ AbortTx(c)
           \/ DeleteDB(c) \/ Unwind(c)
  BY <1>3 DEF DirectCall, DirectWrite, CommitMulti, CommitStep, CommitCmd,
              CommitFlags, CommitExec, AbortTx, DeleteDB, Unwind, histVars
<1>4. CASE Fault(c)
  BY <1>4 DEF Fault, Drop, CommitReplyLost, TypeOK, DBTypeOK
<1> QED
  BY <1>1, <1>2, <1>3, <1>4 DEF DBStep

LEMMA DirectSpares ==
  ASSUME TypeOK, NEW c \in Conn, DirectCall(c), NEW k \in Key \ DirectKeys
  PROVE  store'[k] = store[k]
<1>1. PICK cmd \in Cmd : DirectWrite(c, cmd)
  <2>1. DirectKeys \subseteq Key /\ \A v \in Written[c] : v \in Entry
    BY DBAssumption
  <2> QED
    BY <2>1, CmdType, NoEntryType DEF DirectCall
<1>2. k \notin Touched(store, <<cmd>>)
  BY <1>1, TouchedByOne DEF DirectWrite
<1>3. <<cmd>> \in Seq(Cmd) /\ store \in [Key -> Entry]
  BY DEF TypeOK, RedisTypeOK
<1>4. store' = Effect(store, <<cmd>>) \/ UNCHANGED store
  BY <1>1 DEF DirectWrite, HashCommand, serverVars
<1> QED
  BY <1>2, <1>3, <1>4, Untouched

(* While no connection broke, only keys that are also written outside      *)
(* transactions change without an EXEC, and nothing stale is read.         *)
LEMMA StepReads ==
  ASSUME TypeOK, Sending, NEW c \in Conn, DBStep(c), drops = 0, drops' = 0
  PROVE  \/ reads'[c] = {}
         \/ /\ \A k \in Key \ DirectKeys : store'[k] = store[k]
            /\ \A rd \in reads'[c] : rd \in reads[c] \/ rd.val = store[rd.key]
<1> USE DEF TypeOK, DBTypeOK
<1>1. ASSUME NEW S, StartTx(c, S) \/ AppendWatchTx(c, S)
      PROVE  UNCHANGED <<store, reads>>
  BY <1>1 DEF StartTx, AppendWatchTx, performWatch, WATCH, serverVars, histVars
<1>2. CASE AppCall(c)
  <2>1. UNCHANGED store
    BY <1>2, AppCallStages, StageAside DEF serverVars
  <2>2. CASE reads' = reads
    BY <2>1, <2>2
  <2>3. ASSUME NEW K, Remember(c, K)
        PROVE  \A rd \in reads'[c] : rd \in reads[c] \/ rd.val = store[rd.key]
    BY <2>3 DEF Remember
  <2> QED
    BY <1>2, <2>1, <2>2, <2>3, AppCallReads
<1>3. CASE DirectCall(c)
  BY <1>3, DirectSpares DEF DirectCall, DirectWrite, histVars
<1>4. CASE CommitMulti(c) \/ CommitFlags(c)
  BY <1>4 DEF CommitMulti, CommitFlags, MULTI, FlagCommands, serverVars, histVars
<1>5. CASE CommitCmd(c)
  <2>1. commitAt[c] > 0
    BY <1>5 DEF CommitCmd
  <2>2. multi[c]
    BY <2>1 DEF Sending
  <2> QED
    BY <1>5, <2>2 DEF CommitCmd, HashCommand, serverVars
<1>6. CASE CommitExec(c) \/ AbortTx(c) \/ DeleteDB(c)
  BY <1>6 DEF CommitExec, AbortTx, EndTx, DeleteDB
<1>7. ~Fault(c)
  BY DEF Fault, Drop, CommitReplyLost
<1>8. CASE Unwind(c)
  BY <1>8 DEF Unwind, serverVars
<1> QED
  BY <1>1, <1>2, <1>3, <1>4, <1>5, <1>6, <1>7, <1>8 DEF DBStep, CommitStep

-----------------------------------------------------------------------------
(* The inductive invariant.                                                *)

(* The DB object of r is as NewDB made it, reads aside.                    *)
Pristine(r) ==
  /\ ~InTx(r) /\ txCmds[r] = <<>> /\ cvlData[r] = <<>>
  /\ watching[r] = {} /\ ~multi[r] /\ ~dirty[r] /\ ~bare[r]

(* A transaction is open from StartTx to CommitTx or AbortTx.  A Set       *)
(* request, which never goes on with a next one, starts it after translate,*)
(* a Bulk request before.                                                  *)
Progress(r) ==
  /\ pc[r] \in {"new", "done"} => Pristine(r) /\ reads[r] = {}
  /\ pc[r] = "start" => r \in Bulk /\ Pristine(r)
  /\ pc[r] = "translate" /\ r \notin Bulk => Pristine(r)
  /\ pc[r] = "translate" /\ r \in Bulk => InTx(r)
  /\ pc[r] \in {"process", "commit", "abort"} => InTx(r)
  /\ pc[r] # "commit" => commitAt[r] = 0
  /\ pc[r] # "process" => loop[r] = "none"
  /\ r \notin Bulk => ops[r] = 1

(* A CVL session is open just in a transaction, and a request returns from *)
(* one only by a panic or a WATCH that a broken connection made fail.      *)
LeavesOpen(r) == answer[r] = "panic" \/ (answer[r] = "fail" /\ drops > 0)

Sessions(r) ==
  /\ pc[r] # "done" => sess[r] = IF InTx(r) THEN 1 ELSE 0
  /\ pc[r] = "return" /\ InTx(r) => LeavesOpen(r)
  /\ pc[r] = "done" /\ sess[r] > 0 => LeavesOpen(r)

Answers(r) ==
  /\ answer[r] = "none" <=> pc[r] \notin {"abort", "return", "done"}
  /\ pc[r] = "abort" => answer[r] = "fail"
  /\ pc[r] = "return" /\ answer[r] = "ok" => txCmds[r] = <<>>

(* A request that has started and not returned has the mutex.              *)
Locked(r) == pc[r] \notin {"new", "done"} => holder[ProcOf[r]] = r

RequestInv(r) == Progress(r) /\ Sessions(r) /\ Answers(r) /\ Locked(r)
TranslibInv   == \A r \in Request : RequestInv(r)

(* With one process, every read of a request holds until it returns.       *)
ReadsHold ==
  drops = 0 /\ OneProcess =>
    \A r \in Request : \A rd \in reads[r] :
      rd.key \notin DirectKeys => store[rd.key] = rd.val

-----------------------------------------------------------------------------
(* What a step of one request, or of a daemon, leaves of another's.        *)

LEMMA MovesSpare ==
  ASSUME ReqTypeOK, NEW r \in Request, Moves(r), NEW q \in Request \ {r}
  PROVE  /\ UNCHANGED <<pc[q], answer[q], ops[q]>>
         /\ \/ UNCHANGED holder
            \/ /\ holder[ProcOf[r]] = NoRequest
               /\ holder' = [holder EXCEPT ![ProcOf[r]] = r]
            \/ /\ pc[r] = "return"
               /\ holder' = [holder EXCEPT ![ProcOf[r]] = NoRequest]
<1> USE DEF ReqTypeOK, Goto, Answer
<1>1. CASE Refuse(r) \/ Lock(r) \/ BulkStart(r)
  BY <1>1 DEF Refuse, Lock, BulkStart
<1>2. CASE Watch(r)
  BY <1>2 DEF Watch
<1>3. CASE AppReads(r) \/ AppWrites(r) \/ AppLoops(r) \/ Commit(r)
  BY <1>3 DEF AppReads, AppWrites, AppLoops, Commit, reqVars
<1>4. CASE AppDone(r) \/ AppFails(r) \/ AppPanics(r)
  BY <1>4 DEF AppDone, AppFails, AppPanics
<1>5. CASE CommitEnds(r) \/ Abort(r) \/ Return(r)
  BY <1>5 DEF CommitEnds, Abort, Return
<1>6. CASE RequestFault(r)
  BY <1>6 DEF RequestFault, reqVars
<1> QED
  BY <1>1, <1>2, <1>3, <1>4, <1>5, <1>6 DEF Moves, Advance

LEMMA SameKeepsInv ==
  ASSUME NEW q \in Request, RequestInv(q), SameObject(q), Dirtied(q),
         drops > 0 => drops' > 0, UNCHANGED <<pc[q], answer[q], ops[q]>>, Locked(q)'
  PROVE  RequestInv(q)'
<1> USE DEF SameObject
<1>1. Pristine(q) => Pristine(q)'
  BY DEF Pristine, Dirtied, InTx
<1>2. Progress(q)'
  BY <1>1 DEF RequestInv, Progress, InTx
<1>3. Sessions(q)'
  BY DEF RequestInv, Sessions, LeavesOpen, InTx
<1>4. Answers(q)'
  BY DEF RequestInv, Answers
<1> QED
  BY <1>2, <1>3, <1>4 DEF RequestInv

LEMMA OthersKeepInv ==
  ASSUME TypeOK, ReqTypeOK, TranslibInv, NEW r \in Request, Moves(r),
         NEW q \in Request \ {r}
  PROVE  RequestInv(q)'
<1>1. RequestInv(q) /\ Locked(r)
  BY DEF TranslibInv, RequestInv
<1>2. SameObject(q) /\ Dirtied(q)
  <2>1. CASE DBStep(r)
    BY <2>1, StepSparesOthers, TranslibAssumption
  <2>2. CASE UNCHANGED vars
    BY <2>2 DEF vars, serverVars, dbVars, histVars, SameObject, Dirtied
  <2> QED
    BY <2>1, <2>2, MovesAreSteps
<1>3. drops > 0 => drops' > 0
  BY MovesAreSteps, DropsGrow, TranslibAssumption DEF vars, histVars
<1>4. UNCHANGED <<pc[q], answer[q], ops[q]>>
  BY MovesSpare
<1>5. Locked(q)'
  <2>1. Locked(q)
    BY <1>1 DEF RequestInv
  <2>2. ProcOf[q] \in Proc /\ ProcOf[r] \in Proc /\ NoRequest \notin Request
    BY TranslibAssumption
  <2>3. CASE UNCHANGED holder
    BY <1>4, <2>1, <2>3 DEF Locked
  <2>4. CASE /\ holder[ProcOf[r]] = NoRequest
             /\ holder' = [holder EXCEPT ![ProcOf[r]] = r]
    BY <1>4, <2>1, <2>2, <2>4 DEF Locked, ReqTypeOK
  <2>5. CASE /\ pc[r] = "return"
             /\ holder' = [holder EXCEPT ![ProcOf[r]] = NoRequest]
    BY <1>1, <1>4, <2>1, <2>2, <2>5 DEF Locked, ReqTypeOK
  <2> QED
    BY <2>3, <2>4, <2>5, MovesSpare
<1> QED
  BY <1>1, <1>2, <1>3, <1>4, <1>5, SameKeepsInv

LEMMA DaemonKeepsInv ==
  ASSUME TypeOK, TranslibInv, NEW c \in Conn \ Request, Daemon(c),
         NEW q \in Request
  PROVE  RequestInv(q)'
<1>1. DBStep(c) /\ UNCHANGED reqVars
  BY DaemonSteps
<1>2. SameObject(q) /\ Dirtied(q) /\ (drops > 0 => drops' > 0)
  BY <1>1, StepSparesOthers, DropsGrow, TranslibAssumption
<1>3. RequestInv(q)
  BY DEF TranslibInv
<1> QED
  BY <1>1, <1>2, <1>3, SameKeepsInv DEF RequestInv, Locked, reqVars

-----------------------------------------------------------------------------
(* What a step of a request does to its own part of the invariant.         *)

LEMMA LockKeepsOwn ==
  ASSUME TypeOK, ReqTypeOK, NEW r \in Request, RequestInv(r), Refuse(r) \/ Lock(r)
  PROVE  RequestInv(r)'
<1> USE DEF ReqTypeOK, Goto, Answer
<1>1. /\ pc[r] = "new" /\ answer[r] = "none" /\ ProcOf[r] \in Proc
      /\ UNCHANGED vars
  BY TranslibAssumption DEF Refuse, Lock, RequestInv, Answers
<1>2. CASE Refuse(r)
  BY <1>1, <1>2 DEF Refuse, RequestInv, Progress, Sessions, LeavesOpen, Answers, Locked,
                    Pristine, InTx, vars, serverVars, dbVars, histVars
<1>3. CASE Lock(r)
  BY <1>1, <1>3 DEF Lock, RequestInv, Progress, Sessions, LeavesOpen, Answers, Locked,
                    Pristine, InTx, vars, serverVars, dbVars, histVars
<1> QED
  BY <1>2, <1>3

(* StartTx out of a transaction opens one, and a session with it; a WATCH  *)
(* fails on a broken connection only.                                      *)
LEMMA StartKeepsOwn ==
  ASSUME TypeOK, ReqTypeOK, Sending, NEW r \in Request, RequestInv(r),
         BulkStart(r) \/ Watch(r)
  PROVE  RequestInv(r)'
<1> USE TranslibAssumption DEF TypeOK, DBTypeOK, ReqTypeOK, Goto, Answer
<1>1. /\ pc[r] \in {"start", "translate"} /\ answer[r] = "none"
      /\ holder[ProcOf[r]] = r
      /\ commitAt[r] = 0 /\ loop[r] = "none"
      /\ (r \notin Bulk \/ pc[r] = "start") => ~InTx(r)
      /\ (r \in Bulk /\ pc[r] = "translate") => InTx(r)
  BY DEF BulkStart, Watch, RequestInv, Progress, Answers, Locked, Pristine
<1>2. UNCHANGED <<holder, ops, commitAt, loop, drops>>
  BY DEF BulkStart, Watch, StartTx, AppendWatchTx, histVars
<1>3. txState' = [txState EXCEPT ![r] = "Watch"]
  BY <1>1 DEF BulkStart, Watch, StartTx, AppendWatchTx, performWatch
<1>4. InTx(r)'
  BY <1>3 DEF InTx
<1>5. sess'[r] = IF InTx(r) THEN sess[r] ELSE sess[r] + 1
  BY <1>1 DEF BulkStart, Watch, StartTx, AppendWatchTx
<1>6. CASE BulkStart(r)
  BY <1>1, <1>2, <1>4, <1>5, <1>6
  DEF BulkStart, RequestInv, Progress, Sessions, LeavesOpen, Answers, Locked
<1>7. CASE Watch(r)
  <2>1. \/ pc' = [pc EXCEPT ![r] = "process"] /\ UNCHANGED answer
        \/ /\ pc' = [pc EXCEPT ![r] = IF r \in Bulk THEN "abort" ELSE "return"]
           /\ answer' = [answer EXCEPT ![r] = "fail"]
           /\ drops # 0
    BY <1>7 DEF Watch, WatchFails, Up, Sending
  <2> QED
    BY <1>1, <1>2, <1>4, <1>5, <1>7, <2>1
    DEF Watch, RequestInv, Progress, Sessions, LeavesOpen, Answers, Locked
<1> QED
  BY <1>6, <1>7

(* The app module works in a transaction, or before it with a pristine     *)
(* object, and leaves it open.                                             *)
LEMMA AppKeepsOwn ==
  ASSUME TypeOK, ReqTypeOK, NEW r \in Request, RequestInv(r),
         AppReads(r) \/ AppWrites(r) \/ AppLoops(r)
  PROVE  RequestInv(r)'
<1> USE TranslibAssumption DEF TypeOK, DBTypeOK, RedisTypeOK, ReqTypeOK
<1>1. AppCall(r) /\ UNCHANGED reqVars /\ pc[r] \in {"translate", "process"}
  BY DEF AppReads, AppWrites, AppLoops, AppCall
<1>2. commitAt[r] = 0 /\ (pc[r] = "translate" => loop[r] = "none")
  BY <1>1 DEF RequestInv, Progress
<1>3. UNCHANGED <<serverVars, commitAt, drops, bare>> /\ (InTx(r)' <=> InTx(r))
  BY <1>1, AppCallStages, StageAside DEF InTx
<1>4. sess' = sess
  <2>1. ASSUME NEW items, NEW cmds, NEW ok, Stage(r, items, cmds, ok)
        PROVE  sess' = sess
    BY <2>1 DEF Stage
  <2> QED
    BY <1>1, <2>1 DEF AppCall, ReadCall, GetEntry, LoopCall, DeleteTable, DeleteKeys,
         DeleteLoop, LoopStep, LoopDelete, WriteCall, DeleteEntry, CreateEntry,
         ModEntry, DeleteEntryFields, Write, SetEntry
<1>5. pc[r] = "translate" => UNCHANGED <<txCmds, cvlData, loop>>
  BY DEF AppReads, ReadCall, GetEntry, AppWrites, AppLoops
<1>6. Progress(r)'
  BY <1>1, <1>2, <1>3, <1>5
  DEF RequestInv, Progress, Pristine, InTx, reqVars, serverVars
<1> QED
  BY <1>1, <1>3, <1>4, <1>6 DEF RequestInv, Sessions, Answers, Locked, reqVars, InTx

(* A panic leaves the transaction as it is.                                *)
LEMMA PanicKeepsOwn ==
  ASSUME TypeOK, ReqTypeOK, NEW r \in Request, RequestInv(r), AppPanics(r)
  PROVE  RequestInv(r)'
<1> USE TranslibAssumption DEF TypeOK, DBTypeOK, ReqTypeOK, Goto, Answer
<1>1. /\ pc[r] \in {"translate", "process"} /\ pc'[r] = "return"
      /\ answer'[r] = "panic" /\ loop'[r] = "none"
      /\ UNCHANGED <<serverVars, txState, txCmds, cvlData, sess, commitAt, reads,
                     bare, holder, ops>>
  BY DEF AppPanics, Unwind
<1> QED
  BY <1>1 DEF RequestInv, Progress, Sessions, LeavesOpen, Answers, Locked, InTx

LEMMA AppEndKeepsOwn ==
  ASSUME TypeOK, ReqTypeOK, NEW r \in Request, RequestInv(r), AppDone(r) \/ AppFails(r)
  PROVE  RequestInv(r)'
<1> USE TranslibAssumption DEF ReqTypeOK, Goto, Answer
<1>1. /\ Idle(r) /\ UNCHANGED <<vars, holder>>
      /\ pc[r] \in {"translate", "process"}
  BY DEF AppDone, AppFails
<1>2. InTx(r) \/ (pc[r] = "translate" /\ r \notin Bulk /\ Pristine(r))
  BY <1>1 DEF RequestInv, Progress
<1>3. \/ pc'[r] \in {"translate", "commit"} /\ pc[r] = "process" /\ UNCHANGED answer
      \/ pc'[r] = "abort" /\ answer'[r] = "fail" /\ InTx(r)
      \/ pc'[r] = "return" /\ answer'[r] = "fail" /\ ~InTx(r)
  BY <1>2 DEF AppDone, AppFails, RequestInv, Progress, Pristine
<1>4. r \notin Bulk => pc'[r] # "translate" /\ UNCHANGED ops
  BY <1>1, <1>3 DEF AppDone, AppFails, RequestInv, Progress
<1>5. pc[r] = "process" => InTx(r)
  BY DEF RequestInv, Progress
<1>6. InTx(r)' <=> InTx(r)
  BY <1>1 DEF InTx, vars, dbVars
<1>7. Progress(r)'
  BY <1>1, <1>3, <1>4, <1>5, <1>6 DEF RequestInv, Progress, Idle, vars, dbVars
<1>8. Sessions(r)'
  BY <1>1, <1>3, <1>6 DEF RequestInv, Sessions, vars, dbVars, histVars
<1>9. Answers(r)' /\ Locked(r)'
  BY <1>1, <1>3 DEF RequestInv, Answers, Locked
<1> QED
  BY <1>7, <1>8, <1>9 DEF RequestInv

LEMMA CommitKeepsOwn ==
  ASSUME TypeOK, ReqTypeOK, NEW r \in Request, RequestInv(r), Commit(r)
  PROVE  RequestInv(r)'
<1>1. pc[r] = "commit" /\ InTx(r) /\ UNCHANGED reqVars
  BY DEF Commit, RequestInv, Progress
<1>2. UNCHANGED <<txState, sess, loop, drops>>
  BY DEF Commit, CommitMulti, CommitCmd, CommitFlags, histVars
<1> QED
  BY <1>1, <1>2 DEF RequestInv, Progress, Sessions, LeavesOpen, Answers, Locked, InTx,
                    reqVars

(* CommitTx and AbortTx close the session and the transaction.             *)
LEMMA EndKeepsOwn ==
  ASSUME TypeOK, ReqTypeOK, NEW r \in Request, RequestInv(r), EndTx(r),
         pc[r] \in {"commit", "abort"}, pc' = [pc EXCEPT ![r] = "return"],
         answer'[r] \in {"ok", "fail"}, UNCHANGED <<holder, ops>>,
         drops > 0 => drops' > 0, loop[r] = "none"
  PROVE  RequestInv(r)'
<1> USE TranslibAssumption DEF TypeOK, DBTypeOK, ReqTypeOK
<1>1. /\ ~InTx(r)' /\ txCmds'[r] = <<>> /\ commitAt'[r] = 0 /\ loop'[r] = "none"
      /\ sess'[r] = sess[r] - 1
  BY DEF EndTx, InTx
<1>2. InTx(r) /\ pc'[r] = "return" /\ holder[ProcOf[r]] = r
  BY DEF RequestInv, Progress, Locked
<1>3. Sessions(r)'
  BY <1>1, <1>2 DEF RequestInv, Sessions
<1> QED
  BY <1>1, <1>2, <1>3 DEF RequestInv, Progress, Answers, Locked

LEMMA EndsKeepOwn ==
  ASSUME TypeOK, TypeOK', ReqTypeOK, NEW r \in Request, RequestInv(r),
         CommitEnds(r) \/ Abort(r) \/ RequestFault(r)
  PROVE  RequestInv(r)'
<1> USE TranslibAssumption DEF ReqTypeOK, Goto, Answer
<1>0. r \in Conn /\ (pc[r] # "process" => loop[r] = "none")
  BY DEF RequestInv, Progress
<1>1. CASE CommitEnds(r)
  <2>1. outcome'[r] \in {"ok", "fail"}
    BY <1>0, <1>1 DEF CommitEnds, CommitExec, TypeOK, DBTypeOK
  <2> QED
    BY <1>0, <1>1, <2>1, EndKeepsOwn DEF CommitEnds, CommitExec
<1>2. CASE Abort(r)
  BY <1>0, <1>2, EndKeepsOwn DEF Abort, AbortTx, RequestInv, Answers
<1>3. CASE Goto(r, "commit", "return") /\ CommitReplyLost(r) /\ Answer(r, "fail")
           /\ UNCHANGED <<holder, ops>>
  <2>1. drops > 0 => drops' > 0
    BY <1>3 DEF CommitReplyLost, TypeOK, DBTypeOK
  <2> QED
    BY <1>0, <1>3, <2>1, EndKeepsOwn DEF CommitReplyLost
<1>4. CASE pc[r] \notin {"new", "done"} /\ Drop(r) /\ UNCHANGED reqVars
  <2>1. /\ UNCHANGED <<txState, txCmds, cvlData, sess, commitAt, loop, bare>>
        /\ drops' > 0 /\ watching'[r] = {} /\ ~multi'[r] /\ ~dirty'[r]
    BY <1>0, <1>4 DEF Drop, Forget, TypeOK, DBTypeOK, RedisTypeOK
  <2>2. Pristine(r) => Pristine(r)'
    BY <2>1 DEF Pristine, InTx
  <2> QED
    BY <1>4, <2>1, <2>2 DEF RequestInv, Progress, Sessions, LeavesOpen, Answers,
                            Locked, InTx, reqVars
<1> QED
  BY <1>1, <1>2, <1>3, <1>4 DEF RequestFault

(* DeleteDB leaves nothing but a session that is still open.               *)
LEMMA ReturnKeepsOwn ==
  ASSUME TypeOK, ReqTypeOK, NEW r \in Request, RequestInv(r), Return(r)
  PROVE  RequestInv(r)'
<1> USE TranslibAssumption DEF TypeOK, DBTypeOK, RedisTypeOK, ReqTypeOK
<1>1. /\ pc[r] = "return" /\ pc'[r] = "done" /\ UNCHANGED <<ops, answer>>
      /\ DeleteDB(r)
  BY DEF Return, Goto
<1>2. Pristine(r)' /\ reads'[r] = {}
  BY <1>1 DEF DeleteDB, Forget, Pristine, InTx
<1>3. UNCHANGED <<sess, commitAt, loop, drops>>
  BY <1>1 DEF DeleteDB
<1>4. Sessions(r)'
  BY <1>1, <1>3 DEF RequestInv, Sessions, LeavesOpen
<1> QED
  BY <1>1, <1>2, <1>3, <1>4 DEF RequestInv, Progress, Answers, Locked

LEMMA TranslibInvStep ==
  DBInv /\ TypeOK' /\ ReqTypeOK /\ TranslibInv /\ [TranslibNext]_allVars => TranslibInv'
<1> SUFFICES ASSUME TypeOK, Sending, TypeOK', ReqTypeOK, TranslibInv,
                    [TranslibNext]_allVars
             PROVE  TranslibInv'
  BY DEF DBInv
<1>1. ASSUME NEW r \in Request, Moves(r)
      PROVE  RequestInv(r)'
  BY <1>1, LockKeepsOwn, StartKeepsOwn, AppKeepsOwn, AppEndKeepsOwn, CommitKeepsOwn,
     PanicKeepsOwn, EndsKeepOwn, ReturnKeepsOwn DEF Moves, Advance, TranslibInv
<1>2. CASE UNCHANGED allVars
  BY <1>2 DEF allVars, reqVars, vars, serverVars, dbVars, histVars, TranslibInv,
              RequestInv, Progress, Sessions, LeavesOpen, Answers, Locked, Pristine, InTx
<1>3. ASSUME NEW r \in Request, Moves(r)
      PROVE  TranslibInv'
  BY <1>1, <1>3, OthersKeepInv DEF TranslibInv
<1>4. ASSUME NEW c \in Conn \ Request, Daemon(c)
      PROVE  TranslibInv'
  BY <1>4, DaemonKeepsInv DEF TranslibInv
<1> QED
  BY <1>2, <1>3, <1>4, StepOfOne

LEMMA TranslibInvCorrect == TranslibSpec => [](DBInv /\ ReqTypeOK /\ TranslibInv)
<1>1. TranslibInit => ReqTypeOK
  BY TranslibAssumption DEF TranslibInit, ReqTypeOK, Phase
<1>2. TranslibInit => TranslibInv
  BY TranslibAssumption
  DEF TranslibInit, Init, RedisInit, TranslibInv, RequestInv, Progress, Pristine,
      Sessions, Answers, Locked, InTx
<1>3. DBInv => TypeOK
  BY DEF DBInv
<1> QED
  BY <1>1, <1>2, <1>3, ReqTyped, TranslibInvStep, DBInvCorrect, PTL DEF TranslibSpec

(* Every way through the returns of Create, Update, Replace, Delete and    *)
(* Bulk closes the CVL session that StartTx opened, whatever the app       *)
(* module did in between and whichever connections broke, except a panic   *)
(* and a WATCH that a broken connection made fail.                         *)
THEOREM SessionsAreClosed == TranslibSpec => []SessionClosed
<1>1. TranslibInv => SessionClosed
  BY DEF TranslibInv, RequestInv, Sessions, LeavesOpen, SessionClosed
<1> QED
  BY <1>1, TranslibInvCorrect, PTL

(* What a request commits is what CVL accepted in its transaction.         *)
THEOREM RequestsWriteValidated == TranslibSpec => WrittenIsValidated
<1>1. DBInv => TypeOK /\ Sending /\ InStep /\ Refused
  BY DEF DBInv
<1> QED
  BY <1>1, TranslibTakesSteps, CommitIsValidated, DBInvCorrect, PTL
  DEF TranslibSpec, WrittenIsValidated

-----------------------------------------------------------------------------
(* The mutex.                                                              *)

(* A request that does something to the database has the mutex, so the     *)
(* others of its process have not started or are over.                     *)
LEMMA OthersAreAside ==
  ASSUME ReqTypeOK, TranslibInv, NEW r \in Request, Moves(r),
         NEW q \in Request \ {r}, ProcOf[r] = ProcOf[q]
  PROVE  UNCHANGED vars \/ (Pristine(q) /\ reads[q] = {})
<1>1. Locked(r) /\ Locked(q) /\ Progress(q)
  BY DEF TranslibInv, RequestInv
<1>2. CASE pc[r] \in {"new", "done"}
  BY <1>2 DEF Moves, Advance, Refuse, Lock, BulkStart, Watch, AppReads, AppWrites,
              AppLoops, AppDone, AppFails, AppPanics, Commit, CommitEnds, Abort,
              Return, RequestFault, Goto
<1>3. CASE pc[r] \notin {"new", "done"}
  BY <1>1, <1>3 DEF Locked, Progress
<1> QED
  BY <1>2, <1>3

LEMMA OutcomeIsOwn ==
  ASSUME TypeOK, NEW c \in Conn, DBStep(c), NEW d \in Conn, outcome'[d] # outcome[d]
  PROVE  c = d
  BY StepSparesOthers DEF SameObject

(* The EXEC of one request never makes the EXEC of another of the same     *)
(* process fail: writeMutex keeps everything from WATCH to EXEC apart.     *)
THEOREM SiblingsAreUndisturbed == TranslibSpec => SiblingsUndisturbed
<1>1. DBInv /\ DBInv' /\ ReqTypeOK /\ TranslibInv /\ [TranslibNext]_allVars =>
        [\A r, q \in Request :
           (r # q /\ ProcOf[r] = ProcOf[q] /\ outcome[r] = "none" /\ outcome'[r] # "none")
             => dirty'[q] = dirty[q]]_allVars
  <2> SUFFICES ASSUME TypeOK, TypeOK', ReqTypeOK, TranslibInv, TranslibNext,
                      NEW r \in Request, NEW q \in Request \ {r},
                      ProcOf[r] = ProcOf[q], outcome'[r] # outcome[r]
               PROVE  dirty'[q] = dirty[q]
    BY DEF DBInv
  <2>1. r \in Conn /\ q \in Conn
    BY TranslibAssumption
  <2>2. ASSUME NEW c \in Conn \ Request, Daemon(c)
        PROVE  FALSE
    BY <2>1, <2>2, DaemonSteps, OutcomeIsOwn
  <2>3. PICK s \in Request : Moves(s)
    BY <2>2, StepOfOne
  <2>4. DBStep(s)
    BY <2>3, MovesAreSteps DEF vars, histVars
  <2>5. s = r
    BY <2>1, <2>4, OutcomeIsOwn, TranslibAssumption
  <2>6. Pristine(q)
    BY <2>3, <2>5, OthersAreAside DEF vars, histVars
  <2>7. Dirtied(q)
    BY <2>1, <2>4, <2>5, StepSparesOthers
  <2>8. ~dirty[q] /\ ~dirty'[q]
    BY <2>6, <2>7 DEF Pristine, Dirtied
  <2> QED
    BY <2>1, <2>8 DEF TypeOK, RedisTypeOK
<1> QED
  BY <1>1, TranslibInvCorrect, PTL DEF TranslibSpec, SiblingsUndisturbed

LEMMA ReadsHoldStep ==
  DBInv /\ TypeOK' /\ ReqTypeOK /\ TranslibInv /\ ReadsHold /\ [TranslibNext]_allVars
    => ReadsHold'
<1> SUFFICES ASSUME TypeOK, TypeOK', Sending, ReqTypeOK, TranslibInv, ReadsHold,
                    [TranslibNext]_allVars, drops' = 0, OneProcess,
                    NEW q \in Request, NEW rd \in reads'[q], rd.key \notin DirectKeys
             PROVE  store'[rd.key] = rd.val
  BY DEF DBInv, ReadsHold, OneProcess
<1>1. q \in Conn /\ rd.key \in Key
  BY TranslibAssumption DEF TypeOK, DBTypeOK, Read
<1>2. CASE UNCHANGED vars
  BY <1>2 DEF ReadsHold, vars, serverVars, histVars
<1>3. ASSUME NEW c \in Conn, DBStep(c),
             c = q \/ (\A k \in Key \ DirectKeys : store'[k] = store[k])
      PROVE  store'[rd.key] = rd.val
  <2>1. drops = 0
    BY <1>3, DropsGrow
  <2>2. reads'[c] # {} => \A k \in Key \ DirectKeys : store'[k] = store[k]
    BY <1>3, <2>1, StepReads
  <2>3. store'[rd.key] = store[rd.key]
    BY <1>1, <1>3, <2>2
  <2>4. rd \in reads[q] \/ rd.val = store[rd.key]
    BY <1>1, <1>3, <2>1, StepReads, StepSparesOthers DEF SameObject
  <2> QED
    BY <2>1, <2>3, <2>4 DEF ReadsHold
<1>4. ASSUME NEW r \in Request, Moves(r), DBStep(r)
      PROVE  store'[rd.key] = rd.val
  <2>1. r \in Conn /\ ProcOf[r] = ProcOf[q]
    BY TranslibAssumption DEF OneProcess
  <2>2. CASE r = q
    BY <1>3, <1>4, <2>1, <2>2
  <2>3. CASE r # q
    <3>1. reads'[q] = reads[q]
      BY <1>1, <1>4, <2>1, <2>3, StepSparesOthers DEF SameObject
    <3>2. UNCHANGED vars
      BY <1>4, <2>1, <2>3, <3>1, OthersAreAside
    <3> QED
      BY <1>2, <3>2
  <2> QED
    BY <2>2, <2>3
<1>5. ASSUME NEW c \in Conn \ Request, Daemon(c)
      PROVE  store'[rd.key] = rd.val
  <2>1. DBStep(c)
    BY <1>5, DaemonSteps
  <2>2. UNCHANGED reads
    BY <1>5 DEF Daemon, DirectCall, DirectWrite, histVars
  <2>3. drops = 0
    BY <2>1, DropsGrow
  <2>4. \A k \in Key \ DirectKeys : store'[k] = store[k]
    BY <1>5, DirectSpares DEF Daemon
  <2> QED
    BY <1>3, <2>1, <2>4
<1> QED
  BY <1>2, <1>4, <1>5, MovesAreSteps, StepOfOne DEF allVars

(* With one process, no daemon on the key and no lost connection, what a   *)
(* request read is still there when it commits, also what translate read   *)
(* before the WATCH.                                                       *)
THEOREM AloneReadsStay == TranslibSpec => AloneReadsHold
<1>1. TranslibInit => ReadsHold
  BY TranslibAssumption DEF TranslibInit, Init, ReadsHold
<1>2. DBInv => TypeOK
  BY DEF DBInv
<1>3. ReadsHold /\ [TranslibNext]_allVars =>
        [\A r \in Request :
           (Commits(r) /\ drops = 0 /\ OneProcess) =>
             \A rd \in reads[r] : rd.key \notin DirectKeys => store[rd.key] = rd.val]_allVars
  BY DEF ReadsHold
<1> QED
  BY <1>1, <1>2, <1>3, ReadsHoldStep, TranslibInvCorrect, PTL
  DEF TranslibSpec, AloneReadsHold

-----------------------------------------------------------------------------
(* What DBTx promises of any client holds of translib.                     *)

(* A request answered "ok" wrote on top of what it read under its WATCH,   *)
(* whatever the other requests, processes and daemons do.                  *)
THEOREM RequestsCheckReads == TranslibSpec => CheckAndSet
<1>1. DBInv => TypeOK /\ Sending /\ CleanReadsCurrent
  BY DEF DBInv
<1> QED
  BY <1>1, CommitFindsReads, TranslibTakesSteps, DBInvCorrect, PTL
  DEF TranslibSpec, CheckAndSet

(* A request answered "ok" wrote its whole queue in one EXEC.              *)
THEOREM RequestsAreAtomic == TranslibSpec => OkIsAtomic
<1>1. DBInv => TypeOK /\ Sending
  BY DEF DBInv
<1> QED
  BY <1>1, CommitIsAtomic, TranslibTakesSteps, DBInvCorrect, PTL
  DEF TranslibSpec, OkIsAtomic

-----------------------------------------------------------------------------
(* The implementation of ConfigStore: a request stages what it has in      *)
(* d.txCmds, and is torn once a command of it ran outside MULTI.           *)

staged == [r \in Request |-> txCmds[r]]
torn   == {r \in Request : answer[r] = "none" /\ bare[r]}
Lossy  == MaxDrops > 0

LEMMA StoreOperators ==
  /\ Store!Cmd = Cmd /\ Store!Entry = Entry
  /\ \A st, cmds : Store!Effect(st, cmds) = Effect(st, cmds)
  BY DEF Store!Cmd, Cmd, Store!Entry, Entry, Store!Effect, Effect, Store!LastHit,
         LastHit, Store!Hits, Hits, Store!Leaves, Leaves

(* A step that changes the commands and the answer of no other request.    *)
OwnStep(r) ==
  /\ answer' = [answer EXCEPT ![r] = answer'[r]]
  /\ txCmds' = [txCmds EXCEPT ![r] = txCmds'[r]]
  /\ bare' = [bare EXCEPT ![r] = bare'[r]]

LEMMA StagedMoves ==
  ASSUME TypeOK, ReqTypeOK, NEW r \in Request, OwnStep(r)
  PROVE  /\ staged' = [staged EXCEPT ![r] = txCmds'[r]]
         /\ torn' = IF answer'[r] = "none" /\ bare'[r] THEN torn \cup {r}
                    ELSE torn \ {r}
         /\ txCmds'[r] = txCmds[r] => staged' = staged
<1> USE TranslibAssumption DEF TypeOK, DBTypeOK, ReqTypeOK, OwnStep
<1>1. staged' = [staged EXCEPT ![r] = txCmds'[r]]
  BY DEF staged
<1>2. \A q \in Request \ {r} : answer'[q] = answer[q] /\ bare'[q] = bare[q]
  OBVIOUS
<1>3. torn' = IF answer'[r] = "none" /\ bare'[r] THEN torn \cup {r} ELSE torn \ {r}
  BY <1>2 DEF torn
<1>4. txCmds'[r] = txCmds[r] => staged' = staged
  BY DEF staged
<1> QED
  BY <1>1, <1>3, <1>4

(* The steps of ConfigStore, in terms of this module.                      *)
LEMMA StagesImplements ==
  ASSUME TypeOK, ReqTypeOK, NEW r \in Request, OwnStep(r), answer[r] = "none",
         NEW cmds \in Seq(Cmd), txCmds'[r] = txCmds[r] \o cmds,
         UNCHANGED <<store, answer, bare>>
  PROVE  Store!Next
<1>1. r \in Conn /\ txCmds[r] \in Seq(Cmd) /\ staged[r] = txCmds[r]
  BY TranslibAssumption DEF TypeOK, DBTypeOK, staged
<1>2. staged' = [staged EXCEPT ![r] = txCmds'[r]] /\ staged'[r] = txCmds'[r]
  BY StagedMoves DEF staged
<1>3. /\ staged'[r] \in Seq(Cmd)
      /\ Len(staged[r]) <= Len(staged'[r])
      /\ SubSeq(staged'[r], 1, Len(staged[r])) = staged[r]
  BY <1>1, <1>2
<1>4. Store!Extends(staged[r], staged'[r])
  BY <1>3 DEF Store!Extends
<1>5. Store!Stage(r)
  BY <1>2, <1>3, <1>4, StoreOperators DEF Store!Stage, staged
<1> QED
  BY <1>5 DEF Store!Next

LEMMA FailImplements ==
  ASSUME TypeOK, ReqTypeOK, NEW r \in Request, OwnStep(r), answer[r] = "none",
         answer'[r] = "fail" \/ (answer'[r] = "panic" /\ ~bare[r]),
         txCmds'[r] \in {<<>>, txCmds[r]}, UNCHANGED store
  PROVE  Store!Next
<1>1. Store!Fail(r)
  BY StagedMoves DEF OwnStep, Store!Fail, staged, torn
<1> QED
  BY <1>1 DEF Store!Next

LEMMA CommitImplements ==
  ASSUME TypeOK, ReqTypeOK, NEW r \in Request, OwnStep(r), answer[r] = "none", ~bare[r],
         answer'[r] = "ok" \/ (answer'[r] = "fail" /\ MaxDrops > 0),
         txCmds'[r] = <<>>, store' = Effect(store, txCmds[r])
  PROVE  Store!Next
<1>1. staged[r] = txCmds[r] /\ r \notin torn
  BY DEF staged, torn
<1>2. staged' = [staged EXCEPT ![r] = <<>>] /\ torn' = torn
  BY <1>1, StagedMoves
<1>3. CASE answer'[r] = "ok"
  <2>1. Store!Commit(r)
    BY <1>1, <1>2, <1>3, StoreOperators DEF OwnStep, Store!Commit, staged, torn
  <2> QED
    BY <2>1 DEF Store!Next
<1>4. CASE answer'[r] = "fail" /\ MaxDrops > 0
  <2>1. Store!CommitUnknown(r)
    BY <1>1, <1>2, <1>4, StoreOperators DEF OwnStep, Store!CommitUnknown, staged, torn
  <2> QED
    BY <1>4, <2>1 DEF Store!Next
<1> QED
  BY <1>3, <1>4

LEMMA TearImplements ==
  ASSUME TypeOK, ReqTypeOK, NEW r \in Request, OwnStep(r), answer[r] = "none",
         MaxDrops > 0, NEW i \in DOMAIN txCmds[r],
         store' = Effect(store, <<txCmds[r][i]>>), bare'[r],
         UNCHANGED <<answer, txCmds>>
  PROVE  Store!Next
<1>1. staged[r] = txCmds[r] /\ staged' = staged /\ torn' = torn \cup {r}
  BY StagedMoves DEF staged
<1>2. Store!Tear(r)
  BY <1>1, StoreOperators DEF Store!Tear, staged, torn
<1> QED
  BY <1>2 DEF Store!Next

LEMMA DiscardImplements ==
  ASSUME TypeOK, ReqTypeOK, NEW r \in Request, OwnStep(r),
         answer[r] \in {"fail", "panic"}, txCmds'[r] = <<>>, UNCHANGED <<store, answer>>
  PROVE  Store!Next
<1>1. torn' = torn
  BY StagedMoves DEF torn
<1>2. Store!Discard(r)
  BY <1>1, StagedMoves DEF Store!Discard, staged, torn
<1> QED
  BY <1>2 DEF Store!Next

LEMMA StutterImplements ==
  ASSUME UNCHANGED <<store, txCmds, bare, answer>>
  PROVE  UNCHANGED Store!vars
  BY DEF Store!vars

LEMMA DaemonImplements ==
  ASSUME TypeOK, TypeOK', NEW c \in Conn \ Request, Daemon(c)
  PROVE  [Store!Next]_(Store!vars)
<1>1. PICK cmd \in Cmd : DirectWrite(c, cmd) /\ cmd.key \in DirectKeys
  <2>1. DirectKeys \subseteq Key /\ \A v \in Written[c] : v \in Entry
    BY DBAssumption
  <2> QED
    BY <2>1, CmdType, NoEntryType DEF Daemon, DirectCall, DirectWrite
<1>2. UNCHANGED <<txCmds, bare, answer>>
  BY <1>1 DEF Daemon, DirectWrite, histVars, reqVars
<1>3. CASE UNCHANGED store
  BY <1>2, <1>3, StutterImplements
<1>4. CASE store' = Effect(store, <<cmd>>)
  <2>1. cmd.key \in Key /\ <<cmd>> \in Seq(Cmd)
    BY DEF Cmd
  <2>2. store \in [Key -> Entry] /\ store' \in [Key -> Entry]
    BY DEF TypeOK, RedisTypeOK
  <2>3. \A k \in Key : k # cmd.key => store'[k] = store[k]
    BY <1>4, <2>1, <2>2, TouchedByOne, Untouched
  <2>4. store' = [store EXCEPT ![cmd.key] = store'[cmd.key]] /\ store'[cmd.key] \in Entry
    BY <2>1, <2>2, <2>3
  <2>5. Store!External
    BY <1>1, <1>2, <2>4, StoreOperators DEF Store!External
  <2> QED
    BY <2>5 DEF Store!Next
<1> QED
  BY <1>1, <1>3, <1>4 DEF DirectWrite, HashCommand, serverVars

(* A request that has no answer yet was not written in part, unless it is  *)
(* committing.                                                             *)
LEMMA BareInCommit ==
  ASSUME Sending, ReqTypeOK, TranslibInv, NEW r \in Request, answer[r] = "none",
         pc[r] # "commit"
  PROVE  ~bare[r]
<1>1. Progress(r) /\ Answers(r) /\ r \in Conn
  BY TranslibAssumption DEF TranslibInv, RequestInv
<1>2. InTx(r) /\ commitAt[r] = 0 => ~bare[r]
  BY <1>1 DEF Sending
<1>3. ~InTx(r) => Pristine(r)
  BY <1>1 DEF Progress, Answers, ReqTypeOK, Phase
<1> QED
  BY <1>1, <1>2, <1>3 DEF Progress, Pristine, Answers

(* The commands before EXEC.                                               *)
LEMMA CommitSends ==
  ASSUME TypeOK, Sending, ReqTypeOK, TranslibInv, drops <= MaxDrops,
         NEW r \in Request, Commit(r)
  PROVE  [Store!Next]_(Store!vars)
<1>1. r \in Conn /\ pc[r] = "commit" /\ answer[r] = "none" /\ UNCHANGED answer
  BY TranslibAssumption DEF TranslibInv, RequestInv, Answers, Commit, reqVars
<1>2. CASE CommitMulti(r) \/ CommitFlags(r)
  BY <1>1, <1>2, StutterImplements
  DEF CommitMulti, CommitFlags, MULTI, FlagCommands, serverVars, histVars
<1>3. CASE CommitCmd(r)
  <2> DEFINE i == commitAt[r]
  <2>1. i \in DOMAIN txCmds[r] /\ i > 0 /\ UNCHANGED txCmds
    BY <1>1, <1>3 DEF CommitCmd, TypeOK, DBTypeOK
  <2>2. CASE multi[r]
    <3>1. UNCHANGED store /\ bare' = [bare EXCEPT ![r] = bare[r]]
      BY <1>1, <1>3, <2>2 DEF CommitCmd, HashCommand, serverVars, TypeOK, DBTypeOK
    <3>2. UNCHANGED bare
      BY <1>1, <3>1 DEF TypeOK, DBTypeOK
    <3> QED
      BY <1>1, <2>1, <3>1, <3>2, StutterImplements
  <2>3. CASE ~Up(r)
    BY <1>1, <1>3, <2>1, <2>3, StutterImplements DEF CommitCmd, serverVars
  <2>4. CASE ~multi[r] /\ Up(r)
    <3>1. MaxDrops > 0
      <4>1. drops # 0
        BY <1>1, <2>1, <2>4 DEF Sending
      <4> QED
        BY <4>1, DBAssumption DEF TypeOK, DBTypeOK
    <3>2. store' = Effect(store, <<txCmds[r][i]>>) /\ bare' = [bare EXCEPT ![r] = TRUE]
      BY <1>3, <2>4 DEF CommitCmd, HashCommand
    <3>3. OwnStep(r) /\ bare'[r]
      BY <1>1, <2>1, <3>2 DEF OwnStep, ReqTypeOK, TypeOK, DBTypeOK
    <3> QED
      BY <1>1, <2>1, <3>1, <3>2, <3>3, TearImplements
  <2> QED
    BY <2>2, <2>3, <2>4
<1> QED
  BY <1>2, <1>3 DEF Commit

(* EXEC, answered or not.                                                  *)
LEMMA CommitReturns ==
  ASSUME TypeOK, TypeOK', Sending, ReqTypeOK, TranslibInv, NEW r \in Request,
         CommitEnds(r) \/ RequestFault(r)
  PROVE  [Store!Next]_(Store!vars)
<1> USE DEF ReqTypeOK, Goto, Answer
<1>0. r \in Conn /\ Answers(r)
  BY TranslibAssumption DEF TranslibInv, RequestInv
<1>1. CASE \/ CommitEnds(r)
           \/ CommitReplyLost(r) /\ pc[r] = "commit" /\ Answer(r, "fail")
  <2>1. /\ answer[r] = "none" /\ UNCHANGED bare /\ commitAt[r] = AtExec(r)
        /\ txCmds' = [txCmds EXCEPT ![r] = <<>>]
    BY <1>0, <1>1 DEF CommitEnds, CommitExec, CommitReplyLost, EndTx, Answers
  <2>2. answer' = [answer EXCEPT ![r] = outcome'[r]]
    BY <1>0, <1>1 DEF CommitEnds, CommitReplyLost, TypeOK, DBTypeOK
  <2>3. OwnStep(r) /\ txCmds'[r] = <<>>
    BY <1>0, <2>1, <2>2 DEF OwnStep, TypeOK, DBTypeOK
  <2>4. CASE /\ EXEC(r) /\ ExecRuns(r)
             /\ outcome'[r] = "ok" \/ (outcome'[r] = "fail" /\ MaxDrops > 0)
    <3>1. ~bare[r] /\ store' = Effect(store, txCmds[r])
      BY <1>0, <2>1, <2>4, WholeQueue DEF EXEC, ExecRuns
    <3> QED
      BY <2>1, <2>2, <2>3, <2>4, <3>1, CommitImplements
  <2>5. CASE UNCHANGED store /\ outcome'[r] = "fail"
    BY <2>1, <2>2, <2>3, <2>5, FailImplements
  <2>6. CASE CommitExec(r)
    <3>1. \/ EXEC(r) /\ ExecRuns(r) /\ outcome' = [outcome EXCEPT ![r] = "ok"]
          \/ UNCHANGED store /\ outcome' = [outcome EXCEPT ![r] = "fail"]
      BY <2>6 DEF CommitExec, EXEC, serverVars
    <3> QED
      BY <1>0, <2>4, <2>5, <3>1 DEF TypeOK, DBTypeOK
  <2>7. CASE CommitReplyLost(r)
    <3>1. EXEC(r) /\ ExecRuns(r) /\ outcome' = [outcome EXCEPT ![r] = "fail"]
      BY <2>7 DEF CommitReplyLost
    <3>2. MaxDrops > 0
      BY <2>7, DBAssumption DEF CommitReplyLost, TypeOK, DBTypeOK
    <3> QED
      BY <1>0, <2>4, <3>1, <3>2 DEF TypeOK, DBTypeOK
  <2> QED
    BY <1>1, <2>6, <2>7 DEF CommitEnds
<1>2. CASE Drop(r) /\ UNCHANGED reqVars
  BY <1>2, StutterImplements DEF Drop, Forget, reqVars
<1> QED
  BY <1>1, <1>2 DEF RequestFault

LEMMA MovesImplement ==
  ASSUME TypeOK, TypeOK', Sending, ReqTypeOK, TranslibInv, drops <= MaxDrops,
         NEW r \in Request, Moves(r)
  PROVE  [Store!Next]_(Store!vars)
<1> USE DEF ReqTypeOK, Goto, Answer
<1>0. r \in Conn /\ Progress(r) /\ Answers(r)
  BY TranslibAssumption DEF TranslibInv, RequestInv
<1>1. CASE Refuse(r) \/ AppFails(r)
  <2>1. UNCHANGED <<store, txCmds, bare>> /\ answer' = [answer EXCEPT ![r] = "fail"]
    BY <1>1 DEF Refuse, AppFails, vars, serverVars, dbVars, histVars
  <2>2. answer[r] = "none"
    BY <1>0, <1>1 DEF Refuse, AppFails, Answers
  <2>3. OwnStep(r)
    BY <1>0, <2>1 DEF OwnStep, TypeOK, DBTypeOK
  <2> QED
    BY <2>1, <2>2, <2>3, FailImplements
<1>8. CASE AppPanics(r)
  <2>1. /\ UNCHANGED <<store, txCmds, bare>> /\ answer' = [answer EXCEPT ![r] = "panic"]
        /\ pc[r] # "commit"
    BY <1>8 DEF AppPanics, Unwind, serverVars
  <2>2. answer[r] = "none" /\ ~bare[r]
    BY <1>0, <1>8, BareInCommit DEF AppPanics, Answers
  <2>3. OwnStep(r)
    BY <1>0, <2>1 DEF OwnStep, TypeOK, DBTypeOK
  <2> QED
    BY <2>1, <2>2, <2>3, FailImplements
<1>2. CASE Lock(r) \/ BulkStart(r) \/ Watch(r)
  <2>1. answer[r] = "none" /\ ~bare[r]
    BY <1>0, <1>2, BareInCommit DEF Lock, BulkStart, Watch, Answers
  <2>2. UNCHANGED <<store, txCmds>> /\ bare' \in {bare, [bare EXCEPT ![r] = FALSE]}
    BY <1>2 DEF Lock, BulkStart, Watch, StartTx, AppendWatchTx, performWatch, WATCH,
                vars, serverVars, dbVars, histVars
  <2>3. UNCHANGED bare
    BY <1>0, <2>1, <2>2 DEF TypeOK, DBTypeOK
  <2>4. UNCHANGED answer \/ answer' = [answer EXCEPT ![r] = "fail"]
    BY <1>2 DEF Lock, BulkStart, Watch
  <2>5. OwnStep(r)
    BY <1>0, <2>2, <2>3, <2>4 DEF OwnStep, TypeOK, DBTypeOK
  <2> QED
    BY <2>1, <2>2, <2>3, <2>4, <2>5, FailImplements, StutterImplements
<1>3. CASE AppReads(r) \/ AppWrites(r) \/ AppLoops(r)
  <2>1. AppCall(r) /\ UNCHANGED answer /\ answer[r] = "none"
    BY <1>0, <1>3 DEF AppReads, AppWrites, AppLoops, AppCall, reqVars, Answers
  <2>2. UNCHANGED <<store, bare>>
    BY <1>0, <2>1, AppCallStages, StageAside DEF serverVars
  <2>3. CASE UNCHANGED txCmds
    BY <2>1, <2>2, <2>3, StutterImplements
  <2>4. ASSUME NEW cmds \in Seq(Cmd), txCmds' = [txCmds EXCEPT ![r] = @ \o cmds]
        PROVE  Store!Next
    <3>1. OwnStep(r) /\ txCmds'[r] = txCmds[r] \o cmds
      BY <1>0, <2>1, <2>2, <2>4 DEF OwnStep, TypeOK, DBTypeOK
    <3> QED
      BY <2>1, <2>2, <3>1, StagesImplements
  <2> QED
    BY <1>0, <2>1, <2>3, <2>4, AppCallCmds
<1>4. CASE AppDone(r)
  BY <1>4, StutterImplements DEF AppDone, vars, serverVars, dbVars, histVars
<1>5. CASE Abort(r)
  <2>1. /\ txCmds' = [txCmds EXCEPT ![r] = <<>>]
        /\ UNCHANGED <<store, bare, answer>> /\ answer[r] = "fail"
    BY <1>0, <1>5 DEF Abort, AbortTx, UNWATCH, EndTx, serverVars, Answers
  <2>2. OwnStep(r) /\ txCmds'[r] = <<>>
    BY <1>0, <2>1 DEF OwnStep, TypeOK, DBTypeOK
  <2> QED
    BY <2>1, <2>2, DiscardImplements
<1>6. CASE Return(r)
  <2>1. /\ txCmds' = [txCmds EXCEPT ![r] = <<>>] /\ bare' = [bare EXCEPT ![r] = FALSE]
        /\ UNCHANGED <<store, answer>> /\ pc[r] = "return"
    BY <1>6 DEF Return, DeleteDB, Forget
  <2>2. OwnStep(r) /\ txCmds'[r] = <<>>
    BY <1>0, <2>1 DEF OwnStep, TypeOK, DBTypeOK
  <2>3. CASE answer[r] \in {"fail", "panic"}
    BY <2>1, <2>2, <2>3, DiscardImplements
  <2>4. CASE answer[r] = "ok"
    <3>1. staged' = staged
      BY <1>0, <2>1, <2>2, <2>4, StagedMoves DEF Answers
    <3>2. torn' = torn
      BY <2>1, <2>2, <2>4, StagedMoves DEF torn
    <3> QED
      BY <2>1, <3>1, <3>2 DEF Store!vars, staged, torn
  <2> QED
    BY <1>0, <2>1, <2>3, <2>4 DEF Answers
<1>7. CASE Commit(r) \/ CommitEnds(r) \/ RequestFault(r)
  BY <1>7, CommitSends, CommitReturns
<1> QED
  BY <1>1, <1>2, <1>3, <1>4, <1>5, <1>6, <1>7, <1>8 DEF Moves, Advance

(* The bound on lost connections is kept.                                  *)
LEMMA DropsBounded ==
  TypeOK /\ drops <= MaxDrops /\ [TranslibNext]_allVars => (drops <= MaxDrops)'
<1>1. ASSUME TypeOK, drops <= MaxDrops, NEW c \in Conn, DBStep(c)
      PROVE  drops' <= MaxDrops
  <2>1. CASE AppCall(c)
    BY <1>1, <2>1, AppCallStages, StageAside
  <2>2. CASE Fault(c)
    BY <2>2, DBAssumption, <1>1 DEF Fault, Drop, CommitReplyLost, TypeOK, DBTypeOK
  <2> QED
    BY <1>1, <2>1, <2>2
    DEF DBStep, StartTx, AppendWatchTx, DirectCall, DirectWrite, CommitMulti,
        CommitStep, CommitCmd, CommitFlags, CommitExec, AbortTx, DeleteDB, Unwind,
        histVars
<1> QED
  BY <1>1, TranslibTakesSteps DEF AnyStep, vars, histVars

(* Every Set and Bulk request is all-or-nothing at one instant, and what   *)
(* it answers tells which.  With connections that break, a CommitTx that   *)
(* reports an error may have written some of its commands or all; one that *)
(* reports none has written all of them, once and together.                *)
THEOREM TranslibImplementsConfigStore == TranslibSpec => ImplementsConfigStore
<1>1. TranslibInit => Store!Init /\ drops <= MaxDrops
  <2> SUFFICES ASSUME TranslibInit
               PROVE  Store!Init /\ drops <= MaxDrops
    OBVIOUS
  <2>1. torn = {} /\ staged = [r \in Request |-> <<>>]
    BY TranslibAssumption DEF TranslibInit, Init, torn, staged
  <2>2. Store!Init
    BY <2>1 DEF TranslibInit, Init, RedisInit, Store!Init, torn, staged
  <2>3. drops <= MaxDrops
    BY DBAssumption DEF TranslibInit, Init
  <2> QED
    BY <2>2, <2>3
<1>2. DBInv => TypeOK
  BY DEF DBInv
<1>3. DBInv /\ DBInv' /\ ReqTypeOK /\ TranslibInv /\ drops <= MaxDrops
        /\ [TranslibNext]_allVars => [Store!Next]_(Store!vars)
  <2> SUFFICES ASSUME TypeOK, TypeOK', Sending, ReqTypeOK, TranslibInv,
                      drops <= MaxDrops, [TranslibNext]_allVars
               PROVE  [Store!Next]_(Store!vars)
    BY DEF DBInv
  <2>1. CASE UNCHANGED allVars
    BY <2>1, StutterImplements DEF allVars, vars, serverVars, dbVars, histVars, reqVars
  <2> QED
    BY <2>1, MovesImplement, DaemonImplements, StepOfOne
<1> QED
  BY <1>1, <1>2, <1>3, DropsBounded, TranslibInvCorrect, PTL
  DEF TranslibSpec, ImplementsConfigStore, Store!Spec
=============================================================================
