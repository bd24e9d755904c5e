# TLA+ models of the SONiC management framework

The management framework lets REST and gNMI clients read and change the
configuration of a SONiC switch. A request names a YANG path. *Translib* finds
the app module for the path, the module translates the request to tables of
the Redis database CONFIG_DB, *CVL* validates each change against YANG, and the
DB layer writes everything in one optimistic Redis transaction.

The models here are about what makes that hard: requests of several goroutines
and several processes on one database, WATCH/MULTI/EXEC sent one command at a
time, connections that break between two commands, changes that are validated
one by one but written together, and failures in the middle of a Bulk request;
about subscriptions, where notifications, first values, stops and errors meet;
about CVL, whose verdict on an item depends on what the same session asked
before; and about the host account daemon, which makes accounts for logins that
are not authenticated yet and has to take back those that never are.

Paths below are relative to the repository, `db.go` is
`src/src/translib/db/db.go`, `translib.go` is `src/src/translib/translib.go`,
`cvl_*.go` are in `src/src/cvl` and `hamd.cpp` is `src/src/ham/hamd/hamd.cpp`.

## 1. Inventory

| Component | State | Operations | Hard behaviour | What must hold |
|---|---|---|---|---|
| DB transaction layer (`db.go`) | `txState`, `txCmds`, `cvlEditConfigData`, the CVL session, one connection | StartTx, AppendWatchTx, GetEntry, Create/Mod/Set/DeleteEntry, DeleteEntryFields, DeleteTable, DeleteKeys, CommitTx, AbortTx, DeleteDB | every round trip may interleave with other connections or be lost; only EXEC's error is returned | commit is atomic and on top of what was read; what is written was validated |
| translib (`translib.go`) | `writeMutex` | Create, Update, Replace, Delete, Bulk; Get, Action, Subscribe | reads before WATCH, a dozen early returns, a panic in the middle, processes that share the database | a request happens at one instant or never, is answered, closes its CVL session |
| Subscription (`translib/subscribe.go`, `db/subscribe.go`) | four maps under `sMutex`, a goroutine per subscription DB, a cache per path | Subscribe, notificationHandler, stophandler, cleanup, UnsubscribeDB | notification against initial sync, connection error against stop | no change lost, none after stop, SyncComplete once all paths were sent |
| Generic app module (`common_app.go`) | the translated tables, `tablesToWatch` of a shared appInfo | translate/process per operation | decisions on the stored entry while others are staged; table order | merge and replace see the request's own writes |
| Other app modules (`acl_app.go`, `stp_app.go`, ...) | per request | same interface | order of parent and child tables | as above |
| Transformer (`translib/transformer`) | annotation tables, read-only after start | XlateToDb, GetAndXlateFromDB; writers outside transactions | get-then-create without a transaction | order of tables follows the leafrefs |
| CVL (`src/src/cvl`) | per session: request cache, dependent data, element counts | ValidationSessOpen/Close, ValidateEditConfig, SortDepTables, GetDepTables | a rejected request stays in the cache; checks read the database through CVL's own connection | the verdict depends on what the session kept |
| REST server (`src/src/rest`) | the token secret, statistics under a mutex | handlers, Authenticate, Refresh | token expiry and refresh window, restart | only valid tokens are refreshed |
| Host account manager (`src/src/ham`) | `/etc/passwd`, `/etc/group`, `/proc` | add_unconfirmed_user, user_confirm, rm_unconfirmed_users, useradd, userdel, set_roles; the lookups of libnss_sac | process that dies, pid reuse, uid collision, a command that fails, a call handled after its caller is gone | a session keeps its account and gets the roles granted; an account that was never confirmed goes |
| Host services, CLI, models, build | none of interest | | | |

Interaction: a REST handler calls translib in its own goroutine. Translib makes
a DB object (one connection, `PoolSize` 1) under `writeMutex` and passes it to
the app module. Each write of the module goes through `doCVL`, which asks the
CVL session about everything staged so far, and `doWrite`, which appends to
`txCmds`. CommitTx sends the queue. Other processes (a gNMI server with its own
copy of translib, daemons that write CONFIG_DB directly) meet these requests
only in the database. Subscribe gives a client a queue; the goroutines that wait
for keyspace notifications make the app module read again and fill it, apart
from all requests. hamd serves login processes and the framework over D-Bus, one
call at a time; the processes read `/etc/passwd` themselves. `PROJECT.json`
lists the hazards at their lines.

## 2. Modules

| Module | Models |
|---|---|
| `Entries` | the hashes of CONFIG_DB; what HMSET, HDEL and DEL do to them, one after the other (`Effect`) |
| `Redis` | the server: WATCH, UNWATCH, MULTI, EXEC, the dirty mark, a connection that goes away |
| `DBTx` (EXTENDS `Redis`) | one DB object per connection, called in any order, legal or not |
| `Translib` (EXTENDS `DBTx`) | Set and Bulk requests, the mutex of each process, daemons |
| `ConfigStore` | the abstract specification: stage in private, then all at once or never; what is left of it when connections break |
| `Subscribe` | on-change subscriptions: `startSubscribe`, the receivers, the stop handler, connection errors |
| `CvlSession` | one CVL validation session after the other: a table that is referred to, the tables that refer to it, and a transaction that sends items one by one |
| `HostAccounts` | hamd's handlers and timer, the login processes, `/etc/passwd` |
| `MC_DBTx`, `MC_Translib`, `MC_Subscribe`, `MC_CvlSession`, `MC_HostAccounts` | small instances for TLC |
| `EntriesProofs`, `DBTxProofs`, `DBTxSending`, `DBTxReads`, `TranslibProofs`, `SubscribeProofs`, `CvlSessionProofs`, `HostAccountsProofs` | theorems |

### DBTx and the code

A variable is a function of the connection `c`, that is of the DB object:
`txState`, `txCmds` and `cvlData` are the fields of the same name
(`cvlData` is `cvlEditConfigData`); `sess` counts the CVL sessions `c` opened
and did not close; `commitAt` is where CommitTx is, so that each Redis command
it sends is a step; `loop` and `todo` are where DeleteTable or DeleteKeys is;
`link` says if the TCP connection is alive. `reads`, `outcome`, `bare`, `missed`
and `drops` are history, used by properties and bounds only.

* A write is `Write` or `Stage`: `doCVL` appends its items, the verdict `ok` of
  ValidateEditConfig is any, `doWrite` queues the commands or nothing. SetEntry
  also reads the entry and queues the HDEL for the fields that are to go.
  Given a value without fields, CreateEntry, ModEntry and SetEntry are a call of
  DeleteEntry, which is an action of its own. `DeleteEntryFields` is not: CVL is
  asked about the deletion of the entry, and the HDEL has no field (`Malformed` in
  `Redis`), which db.go logs and for which the server then refuses EXEC.
* `Unwind` is what a panic leaves of a loop. That ValidationSessOpen fails, which
  StartTx looks at, never happens: it has no way to (cvl_api.go:193).
* `CommitMulti`, `CommitCmd`, `CommitFlags`, `CommitExec` are the four parts of
  CommitTx. MULTI's result is not looked at (db.go:1288). `EndTx` is what
  CommitTx and AbortTx reset. `CommitReplyLost` is an EXEC whose reply never
  comes.
* `Drop` breaks a connection: the server forgets its WATCH and its queue, the
  next command fails, and the one after it finds a new connection, because
  go-redis takes the broken one out of its pool. Which failures db.go notices is
  in the actions: `performWatch` and EXEC do, GetEntry sees an empty entry, the
  others log it.
* `DirectWrite` is `doWrite` with no transaction open.

### Translib and the code

`pc[r]` is where request `r` is. `Lock` is writeMutex.Lock with NewDB, which may
fail; `AppReads`, `AppWrites`, `AppLoops` are the app module, in translate
(reads) and process (reads and writes); `Watch` is StartTx of a Set request and
AppendWatchTx of a Bulk one; `AppDone` and `AppFails` are the returns of the
module; `Return` is the deferred DeleteDB and Unlock. A WATCH that fails in a Set
request goes straight to `Return`, as the code does, without AbortTx. So does `AppPanics`,
a panic of CVL or of the module: only the deferred calls run, and net/http, which
recovers, drops the connection of the client (the answer "panic"). Nothing recovers
in a gNMI server, whose process ends, with its mutex and its connections. The
refinement mapping to `ConfigStore` is `staged <- txCmds`, `torn` the requests
without an answer that are `bare` (a command of theirs ran outside MULTI) and
`Lossy <- MaxDrops > 0`; `store` and `answer` keep their names. `ConfigStore` says
that where connections may break, a request answered "fail" may have been written
in part (`Tear`) or whole (`CommitUnknown`); one answered "ok" is never torn.

### Subscribe and the code

A variable is a function of the subscription: `pc` is where startSubscribe is,
`holder` who is in it with `sMutex` (the handlers, which hold it for one step,
need it free), `mapped` the paths that nMap and sMap have, `sDBs` and `arr` the
fields of `sInfo` (`sDBs` is also what cleanupMap has, and keeps), `cache` that
of each notificationInfo, `conn` the connections of SubscribeDB, `pending` the
notifications between Redis and the handler; `view`, `synced` and `told` are
what the client has been sent.

* `Listen`, `Record`, `AppendInfo` are the three parts of a turn of the first
  loop of startSubscribe, `ReadFirst` and `SendFirst` those of the second:
  the steps of an error event, whose handler takes no mutex, may come between them.
  `ListenFails` is SubscribeDB's error, with the cleanup.
* `Handle` is notificationHandler for a change with isCacheChanged and
  sendNotification, `ErrorReads` and `ErrorSends` are it for SEventErr, without the
  mutex: what it has read (`notice`) is sent whatever happened since. `ChannelEnds`
  is the end of the goroutine's loop, `StopHandler` stophandler with `cleanup`.
* `had` is history, all values a client was sent.
* `Change`, `LoseConnection`, `Stop` are Redis, the network and the client. A
  notification is there as soon as the change is, if the connection listens.
* That the table an app module names in its notificationInfo is the one its
  path depends on is taken for granted.

### CvlSession and the code

`store` is Redis and `after` is Redis as the accepted items will leave it;
`cfgData` is the list db.go sends (`cvlEditConfigData`, the accepted items),
`requestCache`, `tree` (`c.yv.root`) and `maxTableElem` are what the CVL object
keeps, for one table `Ent` that others refer to and the rows `Row` of those
tables. A row refers with its key (VLAN_MEMBER|Vlan10|...) or with fields, of which
some are leaf-lists (`LeafList`; one item of each is modelled). A leaf-list is a field
`ports@` in Redis and in the items; CVL turns it into the leaf-list `ports` of the
tree (cvl.go:793), where its references are checked, but `find_key` and
checkDeleteInRequestCache ask for the field `ports`, which no hash has (`HasField`).

* `ValidateEditConfig` is one call with one new item, in the code's order: the
  item goes into the cache, the count is adjusted (`checkMaxElemConstraint`) or
  the delete constraint is checked, a refusal there ends the call (`allowed`
  is FALSE), else the row is merged into the tree, and the key check and the
  leafrefs decide. Nothing of this is undone when the item is refused;
  `Refuse` is what doCVL takes off its own list.
* `CreateEntry`, `ModEntry`, `DeleteEntry` and `DeleteEntryFields` are the calls
  of db.go. `findUsedAsLeafRef` is any choice of one leaf per table, as the
  code takes the first in the iteration of a map. `Matches` is what the
  pattern `*value*` of the script `find_key` finds, `Contains` what
  checkDeleteInRequestCache finds with `strings.Contains`. The DELETE item of
  `DeleteEntryFields` has the values of the fields, or `Blank` when it is the second
  item of SetEntry (db.go:761).
* `panicked`: a search of several entries that finds none runs past the end of
  the list. The panic unwinds the request, translib's deferred DeleteDB throws
  the transaction away, and `AbortTx` stands for that.
* `CommitTx` writes `after` and the next transaction opens a session. Other
  writers are left out here; what they do to a transaction is in `DBTx`.

### HostAccounts and the code

`passwd` has the entry of each user, with the groups of `/etc/group`; its field
`granted` is history, the whole list of roles last granted. `login` says where each process
is, `calls` the D-Bus calls not handled yet; `live` is FALSE when the caller is
gone, and the pid may have been given to another process by then. The GECOS
field is a sequence of words, because one property is about it: the magic
string, a blank, the pid.

* hamd is single-threaded: its handlers run on the GLib main loop and wait for
  the command they start, so a handler is one step. `add_unconfirmed_user`
  begins with `rm_unconfirmed_users`, as in the code. Where the code calls a
  command, it may fail: for what its arguments are (a login or uid in use, a
  role without a group), or for reasons of its own, counted by `faults`.
* `getpwnam_r` and `Reread` are the two looks of libnss_sac at the file, before
  and after the call. `sac_user_confirm` is called by PAM after the server
  accepted the user. `Exit` may happen anywhere.
* `Candidates[u]` are the uids the code tries, in order; a collision is two
  users with the same first one.
* `on_poll_timeout` is the timer, which is on when `poll_period` is positive (the
  default is 30 seconds).

### What is abstracted

* Key and value formatting, logging, the arguments of errors. Of an
  item of CVL the model keeps the operation, the key and which fields with which values.
* The SETs of the `CONFIG_DB_UPDATED_<t>` keys are one step, `CommitFlags`; in
  the code they are one round trip per table. Inside MULTI the server only
  queues them, so the order cannot be seen. Outside (after MULTI was lost) they
  only mark connections dirty.
* Pattern keys in StartTx: no app module passes keys (common_app.go:665).
* In `DBTx` CVL's verdict is any verdict, so what is shown there does not depend
  on CVL; `CvlSession` has its rules.
* In `CvlSession` an item has the references of a row and nothing else: rows
  may exist with no reference, so that removing the last reference does not
  remove the row. SetEntry on an existing row sends an UPDATE and a DELETE
  of fields in one call; here they are two calls.
* Translib's app module makes any calls, which covers every module's behaviour
  towards the DB layer and says nothing of any particular module.

## 3. Runs

| Run | Instance | Question |
|---|---|---|
| `dbtx_faults` | 2 DB objects, 1 entry, 1 lost connection | Do reads under a watch stay current (`CleanReadsCurrent`), is success one atomic EXEC (`OkIsAtomic`)? `TypeOK` |
| `translib_two` | Set and Bulk in two processes, a daemon | Is each request all or nothing as `ConfigStore` says (`ImplementsConfigStore`), does a commit check what was read (`CheckAndSet`)? |
| `translib_one` | Set and Bulk in one process, entries of 2 fields, 1 lost connection, fairness | Does "ok" still mean all or nothing (`ImplementsConfigStore`), and is what is written what CVL validated (`WrittenIsValidated`)? Is the CVL session closed (`SessionClosed`)? Does the mutex protect also the reads before WATCH (`AloneReadsHold`), and keep requests from failing each other (`SiblingsUndisturbed`)? Is every request answered and the mutex given back (`Answered`)? `TranslibTypeOK` |
| `subscribe_safe` | 2 subscriptions, 2 databases, 1 fault | Is no change lost (`NothingMissed`), does SyncComplete come when all paths were sent (`SyncIsComplete`), does nothing new come after a stop, apart from the notice of an error, which has no new value (`QuietAfterStop`)? |
| `subscribe_live` | the same, no fault, fairness | Does every client get to know the last state (`Converges`)? |
| `cvl_safe` | 2 entries, 3 rows, sessions of 3 items, every consistent store | Does a session on one side of the leafrefs keep the references its checks can see (`ReferencesHold`), is the count that of the result (`CountIsExact`), is no legal item refused (`LegalIsAccepted`)? `CvlTypeOK` |
| `hosts_safe` | 2 users, 2 pids, 2 uids, 1 failing handler, fairness of the timer | Does a session keep its account (`SessionHasAccount`), does only a confirmation make one permanent (`PermanentByConfirm`), is no group of an earlier grant left and none of the last missing (`RolesAsGranted`), is a uid collision resolved (`CollisionIsResolved`), do stale accounts go (`StaleGoes`)? `HostTypeOK` |
| `dbtx_retry` | 1 DB object, 1 lost connection | expected violation of `FailedIsNotBare` |
| `dbtx_loop` | 1 DB object, 2 entries | expected violation of `DeletesAll` |
| `dbtx_set` | 1 DB object, 2 fields | expected violation of `SetReplaces` |
| `cvl_ref` | an empty store, 2 items | expected violation of `NoDangling` |
| `hosts_pid` | as `hosts_safe` | expected violation of `LoginKeepsAccount` |

The expected violations are where the code differs from what its
comments and error texts say; `PROJECT.json` quotes them under "findings".

1. *A failed transaction that was written.* MULTI meets a broken connection and
   its error is only logged. go-redis dials again, the commands run one by one,
   EXEC fails, and the client is told "Transaction failed. Please try again."
2. *A table that is not deleted.* The `e` of the loop in DeleteTable shadows the
   one it returns, and DeleteKeys keeps the error of the last entry only.
3. *A set that keeps old fields.* SetEntry computes what to delete from the
   store, not from what the transaction has queued for the entry. The theorem
   `SetReplacesWhatIsStored` says exactly when it replaces.
4. *A reference to nothing.* When a session has touched exactly one entry of a
   table, every reference to that table is found valid (`moveToYangList`).
5. *A login without its account.* hamd looks for the pid with the blank in front
   of it, so it never finds the process and removes every unconfirmed account at
   the next poll or the next login of anybody.

Reading CVL for the model showed three more disagreements with its comments, which
the model has and which are hazards in `PROJECT.json` without a run of their own.
When a session has touched several entries of a table and the one looked for is
neither among them nor in Redis or the cache, moveToYangList dereferences nil
(cvl_semantics.go:635: the inner loop moves the variable of the outer one) and the
request panics instead of being refused. A refused DELETE lowers the element count
(cvl_syntax.go:67), so a CREATE after it may take a table over max-elements. And
one row deleted in a session hides the other rows of its table that use an entry
(cvl_semantics.go:1442), so the entry may be deleted.

Two more are about what the delete check looks at. A leaf-list is looked for by
a name and a value it does not have (cvl_luascript.go:49), so the port that only
the leaf-list of an ACL table names, or of a VLAN, may be deleted
(`sonic-acl.yang` `ports`, `sonic-vlan.yang` `members`, `sonic-igmp-snooping.yang`
`out-intf`). And of a table with several leafrefs to an entry one is checked,
another one from call to call (cvl_semantics.go:1370).

Of `CvlSession`, the passing properties say how far the checks do reach:
`ReferencesHold` for sessions that touch only rows, each once, or only entries,
and then for rows that refer by one leaf which is no leaf-list (`Seen`); `CountIsExact` where no item for the table was refused and each key's items
come in an order its row allows; `LegalIsAccepted` where nothing was refused before
and no name that is part of another one is in the way. Each premise is there
because without it TLC finds one of these disagreements or its like.

`SessionClosed` says who leaves a CVL session open: a request that panicked, and
one whose WATCH failed on a broken connection. Both are what the code does.

After a stop, the notice of an error may bring a value older than the last one,
since its handler reads the cache, waits for nobody, and sends later (subscribe.go:145).
`QuietAfterStop` says that this is all that comes: a value the client was sent
before, no SyncComplete, and nothing of the changes since.

`RolesAsGranted` compares the groups with the whole list a server granted. Two things
are as the code has them and are hazards in `PROJECT.json`: a role that is no group
is left out of the comparison (hamd.cpp:737), so a user with a permanent account may
be let in without it, while
`org.SONiC.HostAccountManagement.xml` has "Must be a list of existing groups
(/etc/group) otherwise the API will return an error"; and when no role at all is
granted, the groups of the grant before stay (hamd.cpp:761).

`CheckAndSet` is checked where the writers are requests and a daemon
(`translib_two`); with one entry and no daemon it would say less.

`CheckAndSet` and `CleanReadsCurrent` say exactly how far the protection
reaches: for a watched key always; for a watched table unless the key is also
written outside transactions (`DirectKeys`), or a commit was torn by a lost
connection.

### Bounds

`MaxCmds` commands in a transaction when a call starts (SetEntry adds two, a
deleting loop as many as there are entries, so queues are longer), `MaxReads`
reads, `MaxSess` CVL sessions per connection, `MaxDrops` lost connections. Two
connections are enough for every race of the properties, which are about one
transaction and one other writer; `translib_two` and `translib_one` have three.
One entry is enough for a read that goes stale; two are used where a
write of one key must not be taken for one of the other, and where a
loop must fail in its middle. Fields are set or not; two fields are used where
a write of one must leave the other. One lost connection is enough to hit each step once; the proofs below
hold for any number of connections, entries, fields, reads and losses.
`translib_one` has one call per request, since only the order of the
requests' steps matters to its properties; with two fields the call may be a SetEntry
that drops one, which is two items and two commands, or one with no field at all.
In `cvl_safe` the name of one entry is the beginning of the other's, one row
refers with its key, one with a field and one with two fields of which one is a
leaf-list; the limit is one entry and the stores are all those in which references
hold. Three items take down a row and its entry and make it anew, or make and unmake
an entry with a refusal before, between or after. In `hosts_safe` two users collide in their uid,
one of them is also the administrator's, two pids are used again by later
processes (`MaxLogins` is three), and a role implies a group or has none of its
own; `MaxFaults` is one handler in which commands fail. No bound is on the
number of calls, polls or administrator's changes.
For subscriptions, `MaxChanges` bounds the changes and `MaxFaults` the lost
connections and failed reads together. Two changes are one that is handled
late and one after it; one subscription has two databases, so that one may fail
after the other succeeded and receivers run side by side; the second
shares a path and competes for `sMutex`.
The configurations say CHECK_DEADLOCK FALSE because at the bounds, or when every
request was answered, the system stops.

### Fairness

`Answered` assumes weak fairness of a request's own steps (the Go scheduler
runs a goroutine, a Redis command gets a reply or an error, and a mutex that is
held until its holder returns goes to the only other request) and strong
fairness of `AppDone`: an app module that can return returns eventually, as
every one is a finite sequence of calls. Nothing is assumed of reads, writes, failures
or of the daemons.

`StaleGoes` assumes weak fairness of `on_poll_timeout` only: the main loop
dispatches the timer when it is due, again and again (`apply_config` starts it,
its handler returns true). Nothing is assumed of logins or calls.

`Converges` assumes weak fairness of startSubscribe, and strong fairness of the
receivers and of the stop handler, which wait for `sMutex`: Go's mutex hands
itself over to a goroutine that has waited for a millisecond, so none starves.
It is stated for runs without faults, because nothing reads a path again after
a failed read (it stays "{}" for the client) or a notification that was lost.

## 4. Theorems

Those about `DBTx` hold for every value of the constants that satisfies `EntriesAssumption`
and `DBAssumption`, and for clients that call a DB object in any order.

* `TypeCorrect` (`DBTxProofs`): `Spec => []TypeOK`. `sess \in Nat` is not
  inductive by itself: EndTx subtracts one. The strengthening `Open` says that a
  DB object in a transaction has a session, and that CommitTx runs only in one.
* `OkAtomic` (`DBTxSending`): `OkIsAtomic`. The invariant `Sending`: while the
  server is between MULTI and EXEC for a connection, that link has not broken
  since, the server's queue is the part of `txCmds` already sent and none of it
  ran bare. A successful EXEC needs MULTI, so at that point the whole queue was
  sent (`SendingCorrect`, `CommitsByExec`).
* `ReadsStayCurrent`, `CommitChecksReads` (`DBTxReads`): `CleanReadsCurrent` and
  `CheckAndSet`. A change of an entry either signals the entry, or is part of an
  EXEC that also signals its table; `Sending` gives that the table keys of an
  EXEC are those of the commands in it. `Untouched` and `TouchedTables` are the
  facts about `Effect` it rests on.
* `ValidatedIsWritten` (`DBTxSending`): `WrittenIsValidated`. It is not so that the two
  lists always match: a DeleteEntryFields without fields makes a pair that does not.
  The invariant says that they match but for such pairs, from lemmas that
  matching lists stay so when matching lists are appended; and a queue with a
  malformed command does not pass EXEC.
* `SetReplacesWhatIsStored` (`DBTxProofs`): `SetReplacesStored`, which says how
  far finding 3 goes. When the read of SetEntry worked, the entry is replaced if
  and only if what is queued for it adds no field that neither the store nor the
  new value has. It is proved only, no run has it; `SetLeaves` gives the entry
  field by field, from `EffectIsSequential`.
* `EffectIsSequential` (`EntriesProofs`): the closed form of `Effect` (the last
  command that says something about a field wins) is sequential execution.

All but the last two are proved of `AnyStep`, a step of any DB object with any set of
keys to watch, which covers the steps of `DBTx` (`NextIsStep`) and those of
`Translib` (`TranslibTakesSteps`).

For translib (`TranslibProofs`), any number of requests, processes, daemons and
lost connections, from `TranslibAssumption` as well:

* A step of a request is a step of its DB object (`MovesAreSteps`), so the
  invariants of `DBTx` hold here (`DBInvCorrect`), and with them `CheckAndSet`
  (`RequestsCheckReads`) and `OkIsAtomic` (`RequestsAreAtomic`). A step of one DB
  object leaves another as it is, but may dirty it when it watches something
  (`StepSparesOthers`).
* `TranslibTypeCorrect` (`TranslibTypeOK`).
* `SessionsAreClosed` (`SessionClosed`). The invariant `TranslibInv` says of each request
  what `pc` implies: in which phases a transaction is open and in which its DB object
  is as NewDB made it (`Progress`), that until it is over a CVL
  session is open just in a transaction, and which requests may return in one
  (`Sessions`), when there is an answer (`Answers`), and that a request between its lock and its return has the
  mutex (`Locked`). `SessionClosed` alone says nothing of a request under way.
* `RequestsWriteValidated` (`WrittenIsValidated`), by the lemmas of `DBTxSending`.
* `SiblingsAreUndisturbed` (`SiblingsUndisturbed`): by `Locked`, when a request
  commits the others of its process have not started or are over, and watch nothing.
* `AloneReadsStay` (`AloneReadsHold`), by the invariant `ReadsHold`: with one
  process and no lost connection, *every* read of *every* request holds until the
  request ends. Between two EXECs only `DirectKeys` change (`StepReads`, from
  `Sending`), and at an EXEC no other request has read anything.
* `TranslibImplementsConfigStore` (`ImplementsConfigStore`): a lemma for each kind of
  abstract step (`StagesImplements`, `FailImplements`, `CommitImplements`, ...), then
  one case per action. That EXEC runs exactly what was staged is `WholeQueue`, from
  `Sending`; that a command outside MULTI needs a lost connection is the last
  conjunct of `Sending`; that an answer "ok" finds nothing left to discard is in
  `Answers`.

For subscriptions (`SubscribeProofs`), any number of them, of databases and
paths, and any number of changes and faults:

* `TypeCorrect`: `Spec => []TypeOK`, with `InRange`: a path is sent only if
  nInfoArr has it.
* `MapsAreRight`: the invariant `IInv`. Per subscription it says how far the
  databases are (`Stages`); that nInfoArr has the paths of the databases appended
  and the maps those of the databases begun, so that a cleanup, which goes by
  nInfoArr, leaves nothing in the maps (`Maps`); that the first values go out
  in order and syncDone means that all but the one in hand were sent (`First`);
  that the client has what the cache has (`Sent`); and that without a
  fault a value that is not current has a notification (`Fresh`). `Exclusive`
  says that who is in startSubscribe has `sMutex`, which keeps handlers
  out of half-made subscriptions.
* `NoChangeIsLost` (`NothingMissed`), `SyncMeansComplete` (`SyncIsComplete`) and
  `StoppedIsQuiet` (`QuietAfterStop`) follow from it.

For CVL sessions (`CvlSessionProofs`), any number of entries, rows, tables, fields
and items, from `CvlAssumption`. Every call is first shown to have one of three
outcomes, `Barred`, `Rejected` or `Accepted` (`Steps`), and each invariant is
proved of these.

* `CvlTypeCorrect` (`CvlTypeOK`), with `RowsFit`: rows have the fields of their
  tables.
* `ReferencesAreKept` (`ReferencesHold`). The invariant says of keys nobody asked
  about that `after` is `store` (`Untouched`); while only rows were asked about,
  that what rows refer to in the tree or after the commit is in Redis
  (`RowsAnchored`); while only entries were, that an entry that goes is used
  by no row that the check can see (`GoneUnused`). Each is said row by row, so that a
  table with two leafs or a leaf-list spoils nothing for the others.
* `CountIsRight` (`CountIsExact`): the invariant `CountInv` relates the count to
  the cardinality of `after` for orderly sessions, and gives that an unread
  count means no entry came or went.
* `LegalIsNotRefused` (`LegalIsAccepted`): for each outcome that refuses, the item
  breaks a key, a limit or a reference of `after`; `Smooth` says what the
  cache, the tree and `after` have in common in the sessions the property is about.

For host accounts (`HostAccountsProofs`), any users, pids, uids, groups and failures,
from `HostAssumption`:

* `HostTypeCorrect` (`HostTypeOK`), `OnlyConfirmedArePermanent`
  (`PermanentByConfirm`), and `SessionsHaveAccounts` (`SessionHasAccount`), which
  rests on `CallsMatch`: a live call is that of the process of its pid, for its user, at
  the point where the process waits for it. So a confirmation handled late
  cannot let another process in.
* `RolesAreGranted` (`RolesAsGranted`), whatever lists are granted.
* `CollisionsAreResolved` (`CollisionIsResolved`): a refusal comes from the handler
  of the call of that process (`RefusedByHandler`), and where a candidate is unused
  there is a first one (`LeastOne`, from `WFMin` and the well-foundedness of the
  naturals), which the handler tries.

Only model-checked: the liveness properties `Answered`, `Converges` and `StaleGoes`,
which are out of this prover's reach. The expected violations are runs by nature.

## 5. Not modelled

Of subscriptions: the unlocked read of cleanupMap against a write (a race of Go
maps, which ends the process), the slice header of the cache read by the handler of an
error while another writes it (a data race, which may give the length of one value
and the bytes of the other), the client's queue ordered by wall clock time,
two Subscribe calls with one stop channel, and the database connections for
reading, which are never closed
(translib.go:859, a leak of connections).

Of CVL: must and when expressions, custom validation and syntax (libyang decides
them, on data this model has not), leafrefs with predicates or to one of several
tables, leaf-lists of several items, tables that refer to tables that refer to others, several new items in
one call, and the dependency functions `SortDepTables`, `GetDepTables` and
`GetDepDataForDelete`, which are functions of the YANG models and of Redis without
state of their own. Writers other than the transaction: CVL reads Redis through
a connection of its own, so a reference may come or go between its check and
EXEC, which `DBTx` shows no WATCH prevents for tables nobody watches.

Of the host accounts: passwords, certificates and home directories, groupadd and
groupdel (the code answers "Not implemented"), the reserved uid ranges, which shorten
the list of candidates, reload of the configuration, and programs other than
hamd that change `/etc/passwd`.

`common_app.go`, the other app modules and the transformer translate requests by
the annotations of YANG models; towards the database they are the arbitrary
calls of `Translib`. REST authentication compares times with one secret that
is made at the start, and the statistics are counters under one mutex: there is no
interaction of steps in them. YANG models, generated bindings, the CLI, host
services, build files and request parsing are data without protocol. The
JavaScript in the repository (`src/tools/swagger_codegen/ui-dist`) is a vendored,
minified Swagger UI for browsing the REST documentation, no part of the framework's
own logic.

Left open: the verdict of `CvlSession` in place of the arbitrary one of `DBTx`.
