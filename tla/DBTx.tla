-------------------------------- MODULE DBTx --------------------------------
(***************************************************************************)
(* The transaction layer of src/translib/db/db.go: what a DB object does   *)
(* between StartTx and CommitTx or AbortTx, over the Redis server of       *)
(* module Redis.  A client may call the methods of its DB object in any    *)
(* order, legal or not; module Translib restricts the order to the one     *)
(* translib.go follows.                                                    *)
(*                                                                         *)
(* Every Redis round trip is a step of its own, so that what other         *)
(* connections do may fall between any two of them.  The calls of one DB   *)
(* object are sequential.  The verdict of ValidateEditConfig is a          *)
(* parameter of the writing methods.                                       *)
(*                                                                         *)
(* A connection may break between two commands, at most MaxDrops times.    *)
(* The next command then fails, go-redis dials a new connection for the    *)
(* one after it, and db.go looks at the error only where it does here.     *)
(***************************************************************************)
EXTENDS Redis, FiniteSets

CONSTANTS WatchSets,   \* what the client of a connection asks to watch
          Written,     \* values it passes to the writing methods
          ReadKeys,    \* keys it reads
          DirectKeys,  \* keys also written outside transactions
          MaxDrops,    \* bound: connection losses in a behaviour
          MaxCmds,     \* bound: commands queued in one transaction
          MaxReads,    \* bound: different reads of one transaction
          MaxSess      \* bound: CVL sessions one connection leaves open

ASSUME DBAssumption ==
  /\ WatchSets \in [Conn -> SUBSET SUBSET (Key \cup Table)]
  /\ Written \in [Conn -> SUBSET Entry]
  /\ ReadKeys \in [Conn -> SUBSET Key]
  /\ DirectKeys \subseteq Key
  /\ MaxDrops \in Nat /\ MaxCmds \in Nat
  /\ MaxReads \in Nat /\ MaxSess \in Nat

VARIABLES txState,    \* d.txState
          txCmds,     \* d.txCmds
          cvlData,    \* d.cvlEditConfigData
          sess,       \* CVL sessions opened and not closed
          commitAt,   \* 0, or the next thing CommitTx sends (1-based)
          loop,       \* the deleting loop in progress, if any
          todo,       \* the keys it still has to delete
          link,       \* whether the TCP connection is alive
          drops,      \* connections lost so far
          reads,      \* history: what the transaction read, and how covered
          outcome,    \* history: what the last CommitTx returned
          bare,       \* history: it sent a command that ran outside MULTI
          missed      \* history: keys the loop in progress could not delete

dbVars  == <<txState, txCmds, cvlData, sess, commitAt, loop, todo, link>>
histVars == <<drops, reads, outcome, bare, missed>>
vars == <<serverVars, dbVars, histVars>>

CVLItem == [op : {"CREATE", "UPDATE", "DELETE"}, key : Key, data : Entry]
Read    == [key : Key, val : Entry, how : {"none", "table", "key", "lost"}]

DBTypeOK ==
  /\ txState \in [Conn -> {"None", "Watch", "Set"}]
  /\ txCmds \in [Conn -> Seq(Cmd)]
  /\ cvlData \in [Conn -> Seq(CVLItem)]
  /\ sess \in [Conn -> Nat]
  /\ commitAt \in [Conn -> Nat]
  /\ loop \in [Conn -> {"none", "table", "keys"}]
  /\ todo \in [Conn -> SUBSET Key]
  /\ link \in [Conn -> {"up", "broken"}]
  /\ drops \in Nat
  /\ reads \in [Conn -> SUBSET Read]
  /\ outcome \in [Conn -> {"none", "ok", "fail"}]
  /\ bare \in [Conn -> BOOLEAN]
  /\ missed \in [Conn -> SUBSET Key]

TypeOK == RedisTypeOK /\ DBTypeOK

Init ==
  /\ RedisInit
  /\ txState = [c \in Conn |-> "None"]
  /\ txCmds = [c \in Conn |-> <<>>]
  /\ cvlData = [c \in Conn |-> <<>>]
  /\ sess = [c \in Conn |-> 0]
  /\ commitAt = [c \in Conn |-> 0]
  /\ loop = [c \in Conn |-> "none"]
  /\ todo = [c \in Conn |-> {}]
  /\ link = [c \in Conn |-> "up"]
  /\ drops = 0
  /\ reads = [c \in Conn |-> {}]
  /\ outcome = [c \in Conn |-> "none"]
  /\ bare = [c \in Conn |-> FALSE]
  /\ missed = [c \in Conn |-> {}]

-----------------------------------------------------------------------------
(* The connection.                                                         *)

Up(c)   == link[c] = "up"
Idle(c) == commitAt[c] = 0 /\ loop[c] = "none"
InTx(c) == txState[c] # "None"

(* Sending any command repairs a broken link, at the price of the command. *)
Redial(c) == link' = [link EXCEPT ![c] = "up"]

(* The server forgets the WATCH with the connection; db.go is not told.    *)
Drop(c) ==
  /\ drops < MaxDrops /\ Up(c)
  /\ Forget(c)
  /\ link' = [link EXCEPT ![c] = "broken"]
  /\ drops' = drops + 1
  /\ reads' = [reads EXCEPT ![c] =
                 {[r EXCEPT !.how = IF @ = "none" THEN "none" ELSE "lost"] :
                    r \in @}]
  /\ UNCHANGED <<txState, txCmds, cvlData, sess, commitAt, loop, todo,
                 outcome, bare, missed>>

(* GetEntry cannot tell a failed HGETALL from an empty hash.               *)
Current(c, k) == IF Up(c) THEN store[k] ELSE NoEntry

HowCovered(c, k) == IF k \in watching[c] THEN "key"
                    ELSE IF TableOf[k] \in watching[c] THEN "table"
                    ELSE "none"

Remember(c, K) ==
  reads' = IF Up(c)
           THEN [reads EXCEPT ![c] = @ \cup
                   {[key |-> k, val |-> store[k], how |-> HowCovered(c, k)] :
                      k \in K}]
           ELSE reads

GetEntry(c, k) ==
  /\ Idle(c)
  /\ Remember(c, {k})
  /\ Redial(c)
  /\ UNCHANGED <<serverVars, txState, txCmds, cvlData, sess, commitAt, loop,
                 todo, drops, outcome, bare, missed>>

-----------------------------------------------------------------------------
(* StartTx, AppendWatchTx.  S is what performWatch puts after WATCH.       *)

WatchFails(c, S) == S # {} /\ ~Up(c)

performWatch(c, S) ==
  /\ txState' = [txState EXCEPT ![c] = "Watch"]
  /\ \/ S # {} /\ Up(c) /\ WATCH(c, S)
     \/ (S = {} \/ ~Up(c)) /\ UNCHANGED serverVars
  /\ IF S = {} THEN UNCHANGED link ELSE Redial(c)

(* The CVL session is opened before the state is looked at, and stays open *)
(* when the state is wrong or the WATCH fails.  (That ValidationSessOpen   *)
(* may fail is looked at, too, but it never does.)                         *)
StartTx(c, S) ==
  /\ Idle(c)
  /\ sess' = [sess EXCEPT ![c] = @ + 1]
  /\ \/ /\ ~InTx(c)
        /\ performWatch(c, S)
        /\ outcome' = [outcome EXCEPT ![c] = "none"]
        /\ bare' = [bare EXCEPT ![c] = FALSE]
     \/ /\ InTx(c)
        /\ UNCHANGED <<serverVars, txState, link, outcome, bare>>
  /\ UNCHANGED <<txCmds, cvlData, commitAt, loop, todo, drops, reads, missed>>

(* As if each watch replaced the ones before.                              *)
AppendWatchTx_afresh(c, S) ==
  /\ Idle(c) /\ InTx(c)
  /\ txState' = [txState EXCEPT ![c] = "Watch"]
  /\ watching' = [watching EXCEPT ![c] = S]
  /\ dirty' = [dirty EXCEPT ![c] = FALSE]
  /\ Redial(c)
  /\ UNCHANGED <<store, multi, queue, flags, txCmds, cvlData, sess, commitAt,
                 loop, todo, histVars>>

AppendWatchTx(c, S) ==
  /\ Idle(c) /\ InTx(c)
  /\ performWatch(c, S)
  /\ UNCHANGED <<txCmds, cvlData, sess, commitAt, loop, todo, histVars>>

-----------------------------------------------------------------------------
(* The writing methods.  doCVL appends its items, validates the whole list *)
(* and takes them off again when the verdict is bad; doWrite then queues.  *)
(* ok is the verdict.  CreateEntry, ModEntry and SetEntry turn a value     *)
(* without fields into a call of DeleteEntry; DeleteEntryFields does not.  *)

Item(op, k, v) == [op |-> op, key |-> k, data |-> v]
HMSet(k, v)    == [op |-> "HMSET", key |-> k, val |-> v]
HDel(k, v)     == [op |-> "HDEL", key |-> k, val |-> v]
Del(k)         == [op |-> "DEL", key |-> k, val |-> NoEntry]

(* As if a rejected item stayed in the list.                               *)
doCVL_keeps(c, items, ok) == cvlData' = [cvlData EXCEPT ![c] = @ \o items]

doCVL(c, items, ok) ==
  cvlData' = IF ok THEN [cvlData EXCEPT ![c] = @ \o items] ELSE cvlData

doWrite(c, cmds, ok) ==
  /\ txCmds' = IF ok THEN [txCmds EXCEPT ![c] = @ \o cmds] ELSE txCmds
  /\ txState' = IF ok THEN [txState EXCEPT ![c] = "Set"] ELSE txState

Stage(c, items, cmds, ok) ==
  /\ InTx(c)
  /\ doCVL(c, items, ok)
  /\ doWrite(c, cmds, ok)
  /\ UNCHANGED <<serverVars, sess, commitAt, drops, outcome, bare>>

Write(c, items, cmds, ok) ==
  /\ Idle(c)
  /\ Stage(c, items, cmds, ok)
  /\ UNCHANGED <<link, reads, loop, todo, missed>>

DeleteEntry(c, k, ok) ==
  Write(c, <<Item("DELETE", k, NoEntry)>>, <<Del(k)>>, ok)

CreateEntry(c, k, v, ok) ==
  Populated(v) /\ Write(c, <<Item("CREATE", k, v)>>, <<HMSet(k, v)>>, ok)

ModEntry(c, k, v, ok) ==
  Populated(v) /\ Write(c, <<Item("UPDATE", k, v)>>, <<HMSet(k, v)>>, ok)

(* Without fields, the item tells CVL that the whole entry goes, and the   *)
(* command is malformed.                                                   *)
DeleteEntryFields(c, k, v, ok) ==
  Write(c, <<Item("DELETE", k, v)>>, <<HDel(k, v)>>, ok)

(* SetEntry replaces the entry: the fields the entry has now and v has not *)
(* are deleted as well.                                                    *)
Complement(cur, v) ==
  [f \in Field |-> IF v[f] = Absent THEN cur[f] ELSE Absent]

SetItems(cur, k, v) ==
  IF ~Populated(cur) THEN <<Item("CREATE", k, v)>>
  ELSE IF ~Populated(Complement(cur, v)) THEN <<Item("UPDATE", k, v)>>
  ELSE <<Item("UPDATE", k, v), Item("DELETE", k, Complement(cur, v))>>

SetCmds(cur, k, v) ==
  IF Populated(Complement(cur, v))
  THEN <<HMSet(k, v), HDel(k, Complement(cur, v))>>
  ELSE <<HMSet(k, v)>>

SetEntry(c, k, v, ok) ==
  /\ Idle(c) /\ Populated(v)
  /\ Stage(c, SetItems(Current(c, k), k, v), SetCmds(Current(c, k), k, v), ok)
  /\ Remember(c, {k})
  /\ Redial(c)
  /\ UNCHANGED <<loop, todo, missed>>

(* DeleteTable and DeleteKeys read the keys, then delete them one by one.  *)
Present(K) == {k \in K : Populated(store[k])}

DeleteLoop(c, kind, K) ==
  /\ Idle(c) /\ InTx(c)
  /\ Remember(c, K)
  /\ Redial(c)
  /\ IF Up(c) /\ Present(K) # {}
     THEN /\ loop' = [loop EXCEPT ![c] = kind]
          /\ todo' = [todo EXCEPT ![c] = Present(K)]
     ELSE UNCHANGED <<loop, todo>>
  /\ UNCHANGED <<serverVars, txState, txCmds, cvlData, sess, commitAt, drops,
                 outcome, bare, missed>>

DeleteTable(c, t) == DeleteLoop(c, "table", {k \in Key : TableOf[k] = t})
DeleteKeys(c, K)  == DeleteLoop(c, "keys", K)

(* DeleteTable stops at the first entry that cannot be deleted, DeleteKeys *)
(* goes on to the next.                                                    *)
LoopEnds(c, k, ok) ==
  todo[c] = {k} \/ (loop[c] = "table" /\ ~ok)

(* What the loop returns when this is its last entry: DeleteTable no error *)
(* (its inner e shadows the one it returns), DeleteKeys the last one.      *)
LoopFails(c, ok) == loop[c] = "keys" /\ ~ok

LoopDelete(c, k, ok) ==
  /\ k \in todo[c] /\ commitAt[c] = 0
  /\ Stage(c, <<Item("DELETE", k, NoEntry)>>, <<Del(k)>>, ok)
  /\ IF LoopEnds(c, k, ok)
     THEN /\ loop' = [loop EXCEPT ![c] = "none"]
          /\ todo' = [todo EXCEPT ![c] = {}]
          /\ missed' = [missed EXCEPT ![c] = {}]
     ELSE /\ todo' = [todo EXCEPT ![c] = @ \ {k}]
          /\ missed' = [missed EXCEPT ![c] = IF ok THEN @ ELSE @ \cup {k}]
          /\ UNCHANGED loop
  /\ UNCHANGED <<link, reads>>

(* A panic of CVL or of the client leaves a loop where it is.              *)
Unwind(c) ==
  /\ loop' = [loop EXCEPT ![c] = "none"]
  /\ todo' = [todo EXCEPT ![c] = {}]
  /\ missed' = [missed EXCEPT ![c] = {}]
  /\ UNCHANGED <<serverVars, txState, txCmds, cvlData, sess, commitAt, link,
                 drops, reads, outcome, bare>>

(* doWrite outside a transaction: one command, straight to the store,      *)
(* without CVL and without the CONFIG_DB_UPDATED_<t> key.                  *)
DirectWrite(c, cmd) ==
  /\ Idle(c) /\ ~InTx(c) /\ cmd.key \in DirectKeys
  /\ \/ Up(c) /\ HashCommand(c, cmd)
     \/ ~Up(c) /\ UNCHANGED serverVars
  /\ Redial(c)
  /\ UNCHANGED <<txState, txCmds, cvlData, sess, commitAt, loop, todo,
                 histVars>>

-----------------------------------------------------------------------------
(* CommitTx and AbortTx.  Only the error of EXEC is returned; those of     *)
(* MULTI and of the commands are logged and overwritten.                   *)

AtFlags(c) == Len(txCmds[c]) + 1
AtExec(c)  == Len(txCmds[c]) + 2

(* As if the CVL session were closed once more.                            *)
EndTx_closesTwice(c) ==
  /\ txState' = [txState EXCEPT ![c] = "None"]
  /\ txCmds' = [txCmds EXCEPT ![c] = <<>>]
  /\ cvlData' = [cvlData EXCEPT ![c] = <<>>]
  /\ sess' = [sess EXCEPT ![c] = @ - 2]
  /\ commitAt' = [commitAt EXCEPT ![c] = 0]
  /\ reads' = [reads EXCEPT ![c] = {}]
  /\ UNCHANGED <<loop, todo, missed>>

EndTx(c) ==
  /\ txState' = [txState EXCEPT ![c] = "None"]
  /\ txCmds' = [txCmds EXCEPT ![c] = <<>>]
  /\ cvlData' = [cvlData EXCEPT ![c] = <<>>]
  /\ sess' = [sess EXCEPT ![c] = @ - 1]
  /\ commitAt' = [commitAt EXCEPT ![c] = 0]
  /\ reads' = [reads EXCEPT ![c] = {}]
  /\ UNCHANGED <<loop, todo, missed>>

(* As if MULTI were not sent.                                              *)
CommitMulti_none(c) ==
  /\ Idle(c) /\ InTx(c)
  /\ commitAt' = [commitAt EXCEPT ![c] = 1]
  /\ Redial(c)
  /\ UNCHANGED <<serverVars, txState, txCmds, cvlData, sess, loop, todo,
                 histVars>>

CommitMulti(c) ==
  /\ Idle(c) /\ InTx(c)
  /\ commitAt' = [commitAt EXCEPT ![c] = 1]
  /\ \/ Up(c) /\ MULTI(c)
     \/ ~Up(c) /\ UNCHANGED serverVars
  /\ Redial(c)
  /\ UNCHANGED <<txState, txCmds, cvlData, sess, loop, todo, histVars>>

CommitCmd(c) ==
  /\ commitAt[c] \in DOMAIN txCmds[c]
  /\ commitAt' = [commitAt EXCEPT ![c] = @ + 1]
  /\ \/ /\ Up(c)
        /\ HashCommand(c, txCmds[c][commitAt[c]])
        /\ bare' = [bare EXCEPT ![c] = @ \/ ~multi[c]]
     \/ ~Up(c) /\ UNCHANGED <<serverVars, bare>>
  /\ Redial(c)
  /\ UNCHANGED <<txState, txCmds, cvlData, sess, loop, todo, drops, reads,
                 outcome, missed>>

(* As if the CONFIG_DB_UPDATED_<t> keys were not set.                      *)
CommitFlags_none(c) ==
  /\ commitAt[c] = AtFlags(c)
  /\ commitAt' = [commitAt EXCEPT ![c] = @ + 1]
  /\ UNCHANGED <<serverVars, txState, txCmds, cvlData, sess, loop, todo, link,
                 histVars>>

CommitFlags(c) ==
  /\ commitAt[c] = AtFlags(c)
  /\ commitAt' = [commitAt EXCEPT ![c] = @ + 1]
  /\ \/ Up(c) /\ FlagCommands(c, TablesOf(txCmds[c]))
     \/ ~Up(c) /\ UNCHANGED serverVars
  /\ Redial(c)
  /\ UNCHANGED <<txState, txCmds, cvlData, sess, loop, todo, histVars>>

(* As if the reply of EXEC were logged and forgotten like the others.      *)
CommitExec_ignores(c) ==
  /\ commitAt[c] = AtExec(c)
  /\ \/ Up(c) /\ EXEC(c)
     \/ ~Up(c) /\ UNCHANGED serverVars
  /\ outcome' = [outcome EXCEPT ![c] = "ok"]
  /\ EndTx(c)
  /\ Redial(c)
  /\ UNCHANGED <<drops, bare>>

CommitExec(c) ==
  /\ commitAt[c] = AtExec(c)
  /\ \/ /\ Up(c) /\ EXEC(c)
        /\ outcome' = [outcome EXCEPT ![c] =
                         IF ExecRuns(c) THEN "ok" ELSE "fail"]
     \/ /\ ~Up(c)
        /\ outcome' = [outcome EXCEPT ![c] = "fail"]
        /\ UNCHANGED serverVars
  /\ EndTx(c)
  /\ Redial(c)
  /\ UNCHANGED <<drops, bare>>

(* The connection is lost after the server ran EXEC and before its reply.  *)
CommitReplyLost(c) ==
  /\ commitAt[c] = AtExec(c)
  /\ drops < MaxDrops /\ Up(c) /\ ExecRuns(c)
  /\ EXEC(c)
  /\ outcome' = [outcome EXCEPT ![c] = "fail"]
  /\ drops' = drops + 1
  /\ EndTx(c)
  /\ UNCHANGED <<link, bare>>

AbortTx(c) ==
  /\ Idle(c) /\ InTx(c)
  /\ \/ Up(c) /\ UNWATCH(c)
     \/ ~Up(c) /\ UNCHANGED serverVars
  /\ EndTx(c)
  /\ Redial(c)
  /\ UNCHANGED <<outcome, bare, drops>>

(* DeleteDB closes the connection; the next NewDB starts from scratch.  A  *)
(* CVL session that is still open stays open.                              *)
DeleteDB(c) ==
  /\ Idle(c)
  /\ Forget(c)
  /\ txState' = [txState EXCEPT ![c] = "None"]
  /\ txCmds' = [txCmds EXCEPT ![c] = <<>>]
  /\ cvlData' = [cvlData EXCEPT ![c] = <<>>]
  /\ reads' = [reads EXCEPT ![c] = {}]
  /\ outcome' = [outcome EXCEPT ![c] = "none"]
  /\ bare' = [bare EXCEPT ![c] = FALSE]
  /\ Redial(c)
  /\ UNCHANGED <<sess, commitAt, loop, todo, drops, missed>>

-----------------------------------------------------------------------------
(* Any client, and the fault.                                              *)

Room(c) == Len(txCmds[c]) < MaxCmds

ReadCall(c) ==
  /\ Cardinality(reads[c]) < MaxReads
  /\ \E k \in ReadKeys[c] : GetEntry(c, k)

WriteCall(c, ok) ==
  /\ Room(c)
  /\ \E k \in Key :
       \/ DeleteEntry(c, k, ok)
       \/ \E v \in Written[c] : \/ CreateEntry(c, k, v, ok)
                             \/ ModEntry(c, k, v, ok)
                             \/ SetEntry(c, k, v, ok)
                             \/ DeleteEntryFields(c, k, v, ok)

LoopCall(c) ==
  /\ Room(c)
  /\ \/ \E t \in Table : DeleteTable(c, t)
     \/ \E K \in SUBSET Key : DeleteKeys(c, K)

LoopStep(c) == \E k \in Key, ok \in BOOLEAN : LoopDelete(c, k, ok)

CommitStep(c) == CommitCmd(c) \/ CommitFlags(c) \/ CommitExec(c)

DirectCall(c) ==
  \E k \in DirectKeys :
    \/ DirectWrite(c, Del(k))
    \/ \E v \in Written[c] : \/ Populated(v) /\ DirectWrite(c, HMSet(k, v))
                            \/ DirectWrite(c, HDel(k, v))

Fault(c) == Drop(c) \/ CommitReplyLost(c)

Next ==
  \E c \in Conn :
    \/ \E S \in WatchSets[c] : (sess[c] < MaxSess /\ StartTx(c, S)) \/ AppendWatchTx(c, S)
    \/ ReadCall(c)
    \/ \E ok \in BOOLEAN : WriteCall(c, ok)
    \/ LoopCall(c) \/ LoopStep(c)
    \/ DirectCall(c)
    \/ CommitMulti(c) \/ CommitStep(c)
    \/ AbortTx(c)
    \/ DeleteDB(c)
    \/ Fault(c)

Spec == Init /\ [][Next]_vars

-----------------------------------------------------------------------------
(* Properties.                                                             *)

(* What a transaction read of a table or key it was already watching is    *)
(* still in the database for as long as the server would let it commit:    *)
(* performWatch before the read, and the CONFIG_DB_UPDATED_<t> key that    *)
(* every CommitTx sets, together leave no window.  A watched table does    *)
(* not cover keys that are also written outside transactions, nor anything *)
(* once a commit was torn by a lost connection.                            *)
Protects(c, r) ==
  \/ r.how = "key"
  \/ r.how = "table" /\ r.key \notin DirectKeys /\ drops = 0

Watches(c, r) ==
  \/ r.how = "key" /\ r.key \in watching[c]
  \/ r.how = "table" /\ TableOf[r.key] \in watching[c]

CleanReadsCurrent ==
  \A c \in Conn : ~dirty[c] =>
    \A r \in reads[c] : Protects(c, r) => Watches(c, r) /\ store[r.key] = r.val

(* CommitTx returns no error only when one EXEC wrote the whole queue on    *)
(* top of what was in the store at that instant, and no command of it had  *)
(* reached the store before, even when the connection was lost and         *)
(* redialled on the way: MULTI, the commands and EXEC go out one by one    *)
(* and only the last error is looked at.                                   *)
Commits(c) == outcome[c] = "none" /\ outcome'[c] = "ok"

OkIsAtomic ==
  [][\A c \in Conn : Commits(c) =>
       ~bare[c] /\ store' = Effect(store, txCmds[c])]_vars

(* What a commit writes is what CVL validated: cvlEditConfigData lists the *)
(* commands of txCmds one by one and in order, whatever verdicts came in   *)
(* between and whatever doCVL took off again.  The item and the command of *)
(* a DeleteEntryFields without fields are no such pair; they do not get    *)
(* past the server.                                                        *)
Mirrors(item, cmd) ==
  /\ item.key = cmd.key
  /\ item.data = cmd.val
  /\ cmd.op = IF item.op # "DELETE" THEN "HMSET"
              ELSE IF Populated(item.data) THEN "HDEL" ELSE "DEL"

WrittenIsValidated ==
  [][\A c \in Conn : Commits(c) =>
       /\ Len(cvlData[c]) = Len(txCmds[c])
       /\ \A i \in DOMAIN txCmds[c] : Mirrors(cvlData[c][i], txCmds[c][i])]_vars

(* A commit reports success only if every value the transaction read under *)
(* its watch was still there when EXEC ran: the check-and-set that StartTx *)
(* says it is for.                                                         *)
CheckAndSet ==
  [][\A c \in Conn : Commits(c) =>
       \A r \in reads[c] : Protects(c, r) => store[r.key] = r.val]_vars

(* CommitTx returns TranslibTransactionFail, "Transaction failed. Please   *)
(* try again.", only when it did not write some commands of the            *)
(* transaction one by one.  (A lost reply to an EXEC that ran is no        *)
(* violation: no client can tell.)                                         *)
FailedIsNotBare == \A c \in Conn : outcome[c] = "fail" => ~bare[c]

(* SetEntry replaces: once the transaction commits, the entry has the      *)
(* fields of v and no other.  The HDEL list that is there for this is made *)
(* from the store, which does not have what the transaction itself has     *)
(* queued for the entry.                                                   *)
SetReplaces ==
  [][\A c \in Conn, k \in Key : \A v \in Written[c] :
       SetEntry(c, k, v, TRUE) => Effect(store, txCmds'[c])[k] = v]_vars

(* DeleteTable "deletes the entire table" and DeleteKeys "all entry/row    *)
(* keys matching a pattern": when they return no error, every key they     *)
(* found has been queued for deletion.                                     *)
LoopReturns(c) == loop[c] # "none" /\ loop'[c] = "none"

DeletesAll ==
  [][\A c \in Conn : LoopReturns(c) =>
       LET ok == txCmds'[c] # txCmds[c]
       IN  LoopFails(c, ok) \/ (ok /\ Cardinality(todo[c]) = 1 /\ missed[c] = {})]_vars
=============================================================================
