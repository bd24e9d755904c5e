------------------------------ MODULE Translib ------------------------------
(***************************************************************************)
(* The writing entry points of src/translib/translib.go: Create, Update,   *)
(* Replace and Delete (a Set request) and Bulk.  Each takes the writeMutex *)
(* of its process, makes a DB object, lets the app module read and write   *)
(* through it, commits or aborts, and returns.  Several processes (the     *)
(* REST server, a gNMI server) link translib and share CONFIG_DB; other    *)
(* daemons write some of its keys without translib.                        *)
(*                                                                         *)
(* What an app module does between translate and process is any sequence   *)
(* of the calls of module DBTx, with any verdict of the validation; it may *)
(* pass an error on or ignore it.                                          *)
(***************************************************************************)
EXTENDS DBTx

CONSTANTS Request,    \* requests, each with the connection of its DB object
          Bulk,       \* those that are Bulk requests
          NumOps,     \* how many Set requests are in each
          Proc,       \* processes that link translib
          ProcOf,     \* the process that serves a request
          NoRequest   \* the holder of an unlocked mutex

ASSUME TranslibAssumption ==
  /\ Request \subseteq Conn
  /\ Bulk \subseteq Request
  /\ NumOps \in [Request -> Nat \ {0}]
  /\ \A r \in Request \ Bulk : NumOps[r] = 1
  /\ ProcOf \in [Request -> Proc]
  /\ NoRequest \notin Request
  /\ MaxSess > 0

VARIABLES pc,      \* where each request is
          holder,  \* who holds the writeMutex of each process
          ops,     \* Set requests a request has still to do
          answer   \* what the caller was, or will be, returned

reqVars == <<pc, holder, ops, answer>>
allVars == <<vars, reqVars>>

Phase == {"new", "start", "translate", "process", "commit", "abort",
          "return", "done"}

TranslibTypeOK ==
  /\ TypeOK
  /\ pc \in [Request -> Phase]
  /\ holder \in [Proc -> Request \cup {NoRequest}]
  /\ ops \in [Request -> Nat]
  /\ answer \in [Request -> {"none", "ok", "fail", "panic"}]

TranslibInit ==
  /\ Init
  /\ pc = [r \in Request |-> "new"]
  /\ holder = [p \in Proc |-> NoRequest]
  /\ ops = NumOps
  /\ answer = [r \in Request |-> "none"]

Goto(r, from, to) == pc[r] = from /\ pc' = [pc EXCEPT ![r] = to]
Answer(r, a)      == answer' = [answer EXCEPT ![r] = a]

(* Authorization, getAppModule and, for a Set request, appInitialize come  *)
(* before the lock.                                                        *)
Refuse(r) ==
  /\ Goto(r, "new", "done")
  /\ Answer(r, "fail")
  /\ UNCHANGED <<vars, holder, ops>>

(* As if two requests of a process could hold the mutex.                   *)
Lock_noMutex(r) ==
  /\ Goto(r, "new", IF r \in Bulk THEN "start" ELSE "translate")
  /\ holder' = [holder EXCEPT ![ProcOf[r]] = r]
  /\ UNCHANGED <<vars, ops, answer>>

(* writeMutex.Lock and NewDB, which may find CONFIG_DB not initialized.    *)
Lock(r) ==
  /\ holder[ProcOf[r]] = NoRequest
  /\ holder' = [holder EXCEPT ![ProcOf[r]] = r]
  /\ \/ /\ Goto(r, "new", IF r \in Bulk THEN "start" ELSE "translate")
        /\ UNCHANGED answer
     \/ /\ Goto(r, "new", "return")
        /\ Answer(r, "fail")
  /\ UNCHANGED <<vars, ops>>

(* Bulk starts with nothing to watch: StartTx(nil, nil).                   *)
BulkStart(r) ==
  /\ Goto(r, "start", "translate")
  /\ sess[r] < MaxSess /\ StartTx(r, {})
  /\ UNCHANGED <<holder, ops, answer>>

(* translate and process read the database; translate does so before what  *)
(* it reads is watched.                                                    *)
AppReads(r) ==
  /\ pc[r] \in {"translate", "process"}
  /\ ReadCall(r)
  /\ UNCHANGED reqVars

(* appInfo.tablesToWatch.  A Set request whose WATCH fails returns at once *)
(* and leaves its transaction open.                                        *)
Watch(r) ==
  \E S \in WatchSets[r] :
    /\ IF r \in Bulk THEN AppendWatchTx(r, S)
                     ELSE sess[r] < MaxSess /\ StartTx(r, S)
    /\ \/ /\ ~WatchFails(r, S)
          /\ Goto(r, "translate", "process")
          /\ UNCHANGED answer
       \/ /\ WatchFails(r, S)
          /\ Goto(r, "translate", IF r \in Bulk THEN "abort" ELSE "return")
          /\ Answer(r, "fail")
    /\ UNCHANGED <<holder, ops>>

AppWrites(r) ==
  /\ pc[r] = "process"
  /\ (\E ok \in BOOLEAN : WriteCall(r, ok)) \/ LoopCall(r)
  /\ UNCHANGED reqVars

AppLoops(r) ==
  /\ pc[r] = "process"
  /\ LoopStep(r)
  /\ UNCHANGED reqVars

(* As if the last request of a Bulk were not the end of the loop.          *)
AppDone_runsOn(r) ==
  /\ Idle(r)
  /\ Goto(r, "process", "translate")
  /\ ops' = [ops EXCEPT ![r] = @ - 1]
  /\ UNCHANGED <<vars, holder, answer>>

(* processXxx returns without an error: on to the next request of a Bulk,  *)
(* or to CommitTx.                                                         *)
AppDone(r) ==
  /\ Idle(r)
  /\ \/ /\ ops[r] > 1
        /\ Goto(r, "process", "translate")
        /\ ops' = [ops EXCEPT ![r] = @ - 1]
     \/ /\ ops[r] = 1
        /\ Goto(r, "process", "commit")
        /\ UNCHANGED ops
  /\ UNCHANGED <<vars, holder, answer>>

(* As if an error returned without AbortTx.                                *)
AppFails_noAbort(r) ==
  /\ Idle(r)
  /\ Goto(r, "process", "return") \/ Goto(r, "translate", "return")
  /\ Answer(r, "fail")
  /\ UNCHANGED <<vars, holder, ops>>

(* translateXxx or processXxx returns an error.  A Set request whose       *)
(* translate fails has not started a transaction yet.                      *)
AppFails(r) ==
  /\ Idle(r)
  /\ \/ Goto(r, "process", "abort")
     \/ Goto(r, "translate", IF r \in Bulk THEN "abort" ELSE "return")
  /\ Answer(r, "fail")
  /\ UNCHANGED <<vars, holder, ops>>

(* A panic, of CVL (moveToYangList walks off the list) or of the app       *)
(* module: the deferred calls run, AbortTx does not, and the HTTP server   *)
(* drops the connection of the caller and goes on.                         *)
AppPanics(r) ==
  /\ Goto(r, "process", "return") \/ Goto(r, "translate", "return")
  /\ Unwind(r)
  /\ Answer(r, "panic")
  /\ UNCHANGED <<holder, ops>>

Commit(r) ==
  /\ pc[r] = "commit"
  /\ CommitMulti(r) \/ CommitCmd(r) \/ CommitFlags(r)
  /\ UNCHANGED reqVars

CommitEnds(r) ==
  /\ Goto(r, "commit", "return")
  /\ CommitExec(r)
  /\ Answer(r, outcome'[r])
  /\ UNCHANGED <<holder, ops>>

Abort(r) ==
  /\ Goto(r, "abort", "return")
  /\ AbortTx(r)
  /\ UNCHANGED <<holder, ops, answer>>

(* As if Unlock were not deferred and an early return missed it.           *)
Return_keepsLock(r) ==
  /\ Goto(r, "return", "done")
  /\ DeleteDB(r)
  /\ holder' = [holder EXCEPT ![ProcOf[r]] =
                  IF answer[r] = "ok" THEN NoRequest ELSE @]
  /\ UNCHANGED <<ops, answer>>

(* The deferred DeleteDB and writeMutex.Unlock.                            *)
Return(r) ==
  /\ Goto(r, "return", "done")
  /\ DeleteDB(r)
  /\ holder' = [holder EXCEPT ![ProcOf[r]] = NoRequest]
  /\ UNCHANGED <<ops, answer>>

(* As if a commit that took too long, on a connection that never breaks,   *)
(* gave up the mutex and ran on.                                           *)
RequestFault_unlocks(r) ==
  /\ pc[r] = "commit"
  /\ holder' = [holder EXCEPT ![ProcOf[r]] = IF @ = r THEN NoRequest ELSE @]
  /\ UNCHANGED <<vars, pc, ops, answer>>

(* Connections break only while there is one.                              *)
RequestFault(r) ==
  \/ /\ pc[r] \notin {"new", "done"}
     /\ Drop(r)
     /\ UNCHANGED reqVars
  \/ /\ Goto(r, "commit", "return")
     /\ CommitReplyLost(r)
     /\ Answer(r, "fail")
     /\ UNCHANGED <<holder, ops>>

Daemon(c) == DirectCall(c) /\ UNCHANGED reqVars

Advance(r) ==
  \/ Lock(r) \/ BulkStart(r) \/ Watch(r) \/ AppLoops(r)
  \/ Commit(r) \/ CommitEnds(r) \/ Abort(r) \/ Return(r)

TranslibNext ==
  \/ \E r \in Request : Refuse(r) \/ Advance(r) \/ AppReads(r) \/ AppWrites(r)
                        \/ AppDone(r) \/ AppFails(r) \/ AppPanics(r)
                        \/ RequestFault(r)
  \/ \E c \in Conn \ Request : Daemon(c)

TranslibSpec == TranslibInit /\ [][TranslibNext]_allVars

(* A goroutine runs, a mutex that keeps being free is taken, and an app    *)
(* module stops calling the database after finitely many calls.            *)
Fairness ==
  \A r \in Request : WF_allVars(Advance(r)) /\ SF_allVars(AppDone(r))

FairSpec == TranslibSpec /\ Fairness

-----------------------------------------------------------------------------
(* Properties.                                                             *)

(* Every request is answered and its mutex released, whatever the other    *)
(* requests of its process do and whichever connections break.             *)
Answered == \A r \in Request : <>(pc[r] = "done" /\ \A p \in Proc : holder[p] # r)

(* A request that is over has closed its CVL session, whichever way it     *)
(* went through the returns of Create, ..., Bulk: left open is only the    *)
(* session of a request that panicked, or whose WATCH failed on a broken   *)
(* connection (StartTx returned an error, and there is no AbortTx then).   *)
SessionClosed ==
  \A r \in Request : pc[r] = "done" /\ sess[r] > 0 =>
    answer[r] = "panic" \/ (answer[r] = "fail" /\ drops > 0)

(* A commit never makes another request of the same process fail: the      *)
(* mutex keeps everything from WATCH to EXEC apart, so only another        *)
(* process or a daemon can make a transaction dirty.                       *)
SiblingsUndisturbed ==
  [][\A r, q \in Request :
       (r # q /\ ProcOf[r] = ProcOf[q] /\ outcome[r] = "none" /\ outcome'[r] # "none")
         => dirty'[q] = dirty[q]]_allVars

(* What a request of the same process wrote after r read it, however early *)
(* r read it, is never overwritten by r: with one process, no daemon on    *)
(* the key and no fault, even the reads of translate, which come before    *)
(* WATCH, still hold when r commits.                                       *)
OneProcess == \A p, q \in Proc : p = q

AloneReadsHold ==
  [][\A r \in Request :
       (Commits(r) /\ drops = 0 /\ OneProcess) =>
         \A rd \in reads[r] : rd.key \notin DirectKeys => store[rd.key] = rd.val]_allVars

Store == INSTANCE ConfigStore
  WITH staged <- [r \in Request |-> txCmds[r]],
       torn   <- {r \in Request : answer[r] = "none" /\ bare[r]},
       Lossy  <- MaxDrops > 0

(* Every request is all-or-nothing at one instant, and its answer tells    *)
(* which; with connections that break, still when it is answered "ok".     *)
ImplementsConfigStore == Store!Spec
=============================================================================
