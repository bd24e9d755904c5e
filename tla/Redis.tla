------------------------------- MODULE Redis -------------------------------
(***************************************************************************)
(* The Redis server, as src/translib/db/db.go uses it through go-redis:    *)
(* hash commands and the optimistic transactions WATCH / MULTI / EXEC /    *)
(* UNWATCH of one connection per DB object.  The server is not under src/, *)
(* so every definition here is external.                                   *)
(*                                                                         *)
(* A table t stands, as something that can be watched, for the string key  *)
(* CONFIG_DB_UPDATED_<t> that CommitTx sets for every table it writes.     *)
(***************************************************************************)
EXTENDS Entries

CONSTANT Conn    \* connections, one per DB object (PoolSize 1)

VARIABLES store,     \* the hashes
          watching,  \* what each connection has WATCHed
          dirty,     \* the next EXEC will be refused
          multi,     \* the connection is between MULTI and EXEC
          queue,     \* hash commands the server got since MULTI
          flags      \* tables whose CONFIG_DB_UPDATED_<t> SET is queued

serverVars == <<store, watching, dirty, multi, queue, flags>>

(* Every connection watching something in S will have its EXEC refused.    *)
Signalled(S) == [c \in Conn |-> dirty[c] \/ watching[c] \cap S # {}]

RedisTypeOK ==
  /\ store \in [Key -> Entry]
  /\ watching \in [Conn -> SUBSET (Key \cup Table)]
  /\ dirty \in [Conn -> BOOLEAN]
  /\ multi \in [Conn -> BOOLEAN]
  /\ queue \in [Conn -> Seq(Cmd)]
  /\ flags \in [Conn -> SUBSET Table]

RedisInit ==
  /\ store \in InitialStores
  /\ watching = [c \in Conn |-> {}]
  /\ dirty = [c \in Conn |-> FALSE]
  /\ multi = [c \in Conn |-> FALSE]
  /\ queue = [c \in Conn |-> <<>>]
  /\ flags = [c \in Conn |-> {}]

(* The server forgets everything about a connection that goes away.        *)
Forget(c) ==
  /\ watching' = [watching EXCEPT ![c] = {}]
  /\ dirty' = [dirty EXCEPT ![c] = FALSE]
  /\ multi' = [multi EXCEPT ![c] = FALSE]
  /\ queue' = [queue EXCEPT ![c] = <<>>]
  /\ flags' = [flags EXCEPT ![c] = {}]
  /\ UNCHANGED store

WATCH(c, S) ==
  /\ watching' = [watching EXCEPT ![c] = @ \cup S]
  /\ UNCHANGED <<store, dirty, multi, queue, flags>>

UNWATCH(c) ==
  /\ watching' = [watching EXCEPT ![c] = {}]
  /\ dirty' = [dirty EXCEPT ![c] = FALSE]
  /\ UNCHANGED <<store, multi, queue, flags>>

MULTI(c) ==
  /\ multi' = [multi EXCEPT ![c] = TRUE]
  /\ UNCHANGED <<store, watching, dirty, queue, flags>>

(* HDEL wants a field.                                                     *)
Malformed(cmd) == cmd.op = "HDEL" /\ ~Populated(cmd.val)

(* A hash command: queued between MULTI and EXEC, executed otherwise.  A   *)
(* malformed one is an error, and after it the server refuses EXEC.        *)
HashCommand(c, cmd) ==
  \/ /\ multi[c]
     /\ queue' = [queue EXCEPT ![c] = Append(@, cmd)]
     /\ dirty' = [dirty EXCEPT ![c] = @ \/ Malformed(cmd)]
     /\ UNCHANGED <<store, watching, multi, flags>>
  \/ /\ ~multi[c]
     /\ store' = Effect(store, <<cmd>>)
     /\ dirty' = Signalled(Touched(store, <<cmd>>))
     /\ UNCHANGED <<watching, multi, queue, flags>>

(* SET CONFIG_DB_UPDATED_<t> 1 for every t in T.                           *)
FlagCommands(c, T) ==
  \/ /\ multi[c]
     /\ flags' = [flags EXCEPT ![c] = @ \cup T]
     /\ UNCHANGED <<store, watching, dirty, multi, queue>>
  \/ /\ ~multi[c]
     /\ dirty' = Signalled(T)
     /\ UNCHANGED <<store, watching, multi, queue, flags>>

(* EXEC runs the queue atomically unless a watched key was touched or a    *)
(* command was refused, and ends the WATCH either way.  Without MULTI it   *)
(* is an error.                                                            *)
ExecRuns(c) == multi[c] /\ ~dirty[c]

EXEC(c) ==
  /\ multi' = [multi EXCEPT ![c] = FALSE]
  /\ queue' = [queue EXCEPT ![c] = <<>>]
  /\ flags' = [flags EXCEPT ![c] = {}]
  /\ watching' = IF multi[c] THEN [watching EXCEPT ![c] = {}] ELSE watching
  /\ \/ /\ ExecRuns(c)
        /\ store' = Effect(store, queue[c])
        /\ dirty' = [Signalled(Touched(store, queue[c]) \cup flags[c])
                       EXCEPT ![c] = FALSE]
     \/ /\ ~ExecRuns(c)
        /\ dirty' = IF multi[c] THEN [dirty EXCEPT ![c] = FALSE] ELSE dirty
        /\ UNCHANGED store
=============================================================================
