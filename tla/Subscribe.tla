------------------------------ MODULE Subscribe ------------------------------
(***************************************************************************)
(* On-change subscriptions: src/translib/subscribe.go over db/subscribe.go *)
(* For each database a subscription needs, SubscribeDB makes a connection  *)
(* and a goroutine that waits for keyspace notifications; each of them     *)
(* makes notificationHandler read the path again and, when it changed,     *)
(* queue the new value for the client.  The maps the handler looks         *)
(* everything up in are shared by all subscriptions, under sMutex.         *)
(*                                                                         *)
(* sMutex is held by startSubscribe over many steps, by the handler and by *)
(* the stop handler for one step each.  The handler of a connection error  *)
(* does not take it: it reads the cache in one step and sends what it read *)
(* in another, and anything may happen in between.                         *)
(***************************************************************************)
EXTENDS Naturals, Sequences, FiniteSets

CONSTANTS Sub,        \* subscriptions
          Db,         \* databases
          Path,       \* YANG paths, of which a subscription asks for each once
          Wanted,     \* dbNotificationMap of each subscription
          Payload,    \* what a path may read as
          Empty,      \* "{}", which a failed read counts as
          None,       \* nothing read or sent yet
          NoSub,      \* the holder of an unlocked sMutex
          MaxChanges, \* bound: changes of the databases
          MaxFaults   \* bound: connection losses and failed reads

PathsAt(s, d) == {Wanted[s][d][i] : i \in DOMAIN Wanted[s][d]}
PathsOf(s)    == UNION {PathsAt(s, d) : d \in Db}
DbsOf(s)      == {d \in Db : Wanted[s][d] # <<>>}

ASSUME SubscribeAssumption ==
  /\ Wanted \in [Sub -> [Db -> Seq(Path)]]
  /\ \A s \in Sub : \A d, e \in Db : d # e => PathsAt(s, d) \cap PathsAt(s, e) = {}
  /\ Empty \in Payload /\ None \notin Payload
  /\ NoSub \notin Sub
  /\ MaxChanges \in Nat /\ MaxFaults \in Nat

VARIABLES content,   \* what each path reads as now
          holder,    \* who is in startSubscribe with sMutex
          pc,        \* where each subscription is
          cur,       \* the database startDBSubscribe is at
          mapped,    \* the paths of it that nMap and sMap have
          sDBs,      \* its databases in cleanupMap, which are sInfo.sDBs
          arr,       \* sInfo.nInfoArr
          sent,      \* how many of them startSubscribe has sent
          syncDone,  \* sInfo.syncDone
          cache,     \* nInfo.cache of each path
          conn,      \* state of the subscription's connections
          sCIP,      \* d.sCIP: UnsubscribeDB was called
          pending,   \* the paths with a notification not yet handled
          stop,      \* the client has signalled the stop channel
          view,      \* what the client was last sent of each path
          synced,    \* it was sent SyncComplete
          told,      \* it was sent IsTerminated
          had,       \* history: all it was sent of each path, with None
          notice,    \* what the handler of an error has read and not sent
          panicked,  \* nInfoArr[0] of an empty array: the process is gone
          changes, faults   \* counters for the bounds

setupVars  == <<holder, pc, cur, sDBs, arr, sent, syncDone>>
clientVars == <<view, synced, told, had>>
vars == <<content, setupVars, mapped, cache, conn, sCIP, pending, stop,
          clientVars, notice, panicked, changes, faults>>

Notice   == [val : Payload \cup {None}, sync : BOOLEAN]
NoNotice == [val |-> None, sync |-> FALSE]

TypeOK ==
  /\ content \in [Path -> Payload]
  /\ holder \in Sub \cup {NoSub}
  /\ pc \in [Sub -> {"new", "listen", "opened", "recorded", "read", "send",
                     "active", "failed", "stopped"}]
  /\ cur \in [Sub -> SUBSET Db]
  /\ mapped \in [Sub -> SUBSET Path]
  /\ sDBs \in [Sub -> SUBSET Db]
  /\ arr \in [Sub -> Seq(Path)]
  /\ sent \in [Sub -> Nat]
  /\ syncDone \in [Sub -> BOOLEAN]
  /\ cache \in [Sub -> [Path -> Payload \cup {None}]]
  /\ conn \in [Sub -> [Db -> {"none", "open", "closed", "error", "notice",
                            "done"}]]
  /\ sCIP \in [Sub -> [Db -> BOOLEAN]]
  /\ pending \in [Sub -> SUBSET Path]
  /\ stop \in [Sub -> BOOLEAN]
  /\ view \in [Sub -> [Path -> Payload \cup {None}]]
  /\ synced \in [Sub -> BOOLEAN]
  /\ told \in [Sub -> BOOLEAN]
  /\ had \in [Sub -> [Path -> SUBSET (Payload \cup {None})]]
  /\ notice \in [Sub -> [Db -> Notice]]
  /\ panicked \in BOOLEAN
  /\ changes \in Nat /\ faults \in Nat

Init ==
  /\ content \in [Path -> Payload]
  /\ holder = NoSub
  /\ pc = [s \in Sub |-> "new"]
  /\ cur = [s \in Sub |-> {}]
  /\ mapped = [s \in Sub |-> {}]
  /\ sDBs = [s \in Sub |-> {}]
  /\ arr = [s \in Sub |-> <<>>]
  /\ sent = [s \in Sub |-> 0]
  /\ syncDone = [s \in Sub |-> FALSE]
  /\ cache = [s \in Sub |-> [p \in Path |-> None]]
  /\ conn = [s \in Sub |-> [d \in Db |-> "none"]]
  /\ sCIP = [s \in Sub |-> [d \in Db |-> FALSE]]
  /\ pending = [s \in Sub |-> {}]
  /\ stop = [s \in Sub |-> FALSE]
  /\ view = [s \in Sub |-> [p \in Path |-> None]]
  /\ synced = [s \in Sub |-> FALSE]
  /\ told = [s \in Sub |-> FALSE]
  /\ had = [s \in Sub |-> [p \in Path |-> {None}]]
  /\ notice = [s \in Sub |-> [d \in Db |-> NoNotice]]
  /\ panicked = FALSE
  /\ changes = 0 /\ faults = 0

Goto(s, from, to) == pc[s] = from /\ pc' = [pc EXCEPT ![s] = to]

-----------------------------------------------------------------------------
(* The databases and the client.                                           *)

(* Redis publishes the notification with the change: every connection that *)
(* has subscribed by then gets it.                                         *)
Change(p, v) ==
  /\ changes < MaxChanges
  /\ changes' = changes + 1
  /\ content' = [content EXCEPT ![p] = v]
  /\ pending' = [s \in Sub |->
       IF \E d \in Db : p \in PathsAt(s, d) /\ conn[s][d] = "open"
       THEN pending[s] \cup {p} ELSE pending[s]]
  /\ UNCHANGED <<setupVars, mapped, cache, conn, sCIP, stop, clientVars,
                 notice, panicked, faults>>

(* A lost connection loses notifications that were on their way.  go-redis *)
(* subscribes again, or gives up and closes the channel.                   *)
LoseConnection(s, d) ==
  /\ faults < MaxFaults /\ conn[s][d] = "open"
  /\ faults' = faults + 1
  /\ \E st \in {"open", "closed"} : conn' = [conn EXCEPT ![s][d] = st]
  /\ \E P \in SUBSET (pending[s] \cap PathsAt(s, d)) :
       pending' = [pending EXCEPT ![s] = @ \ P]
  /\ UNCHANGED <<content, setupVars, mapped, cache, sCIP, stop, clientVars,
                 notice, panicked, changes>>

Stop(s) ==
  /\ ~stop[s]
  /\ stop' = [stop EXCEPT ![s] = TRUE]
  /\ UNCHANGED <<content, setupVars, mapped, cache, conn, sCIP, pending,
                 clientVars, notice, panicked, changes, faults>>

(* getJson gives what the path reads as, or fails.                         *)
Reads(p, v) ==
  \/ v = content[p] /\ UNCHANGED faults
  \/ v = Empty /\ faults < MaxFaults /\ faults' = faults + 1

-----------------------------------------------------------------------------
(* sendNotification and cleanup.                                           *)

Send(s, p, v, sync, terminated) ==
  /\ view' = [view EXCEPT ![s][p] = v]
  /\ had' = [had EXCEPT ![s][p] = @ \cup {v}]
  /\ synced' = [synced EXCEPT ![s] = @ \/ sync]
  /\ told' = [told EXCEPT ![s] = @ \/ terminated]

(* As if nMap and sMap kept the paths.                                     *)
cleanup_keepsMaps(s) ==
  /\ sCIP' = [sCIP EXCEPT ![s] = [d \in Db |-> @[d] \/ d \in sDBs[s]]]
  /\ conn' = [conn EXCEPT ![s] = [d \in Db |->
       IF d \in sDBs[s] /\ @[d] = "open" THEN "closed" ELSE @[d]]]
  /\ UNCHANGED mapped

cleanup(s) ==
  /\ sCIP' = [sCIP EXCEPT ![s] = [d \in Db |-> @[d] \/ d \in sDBs[s]]]
  /\ conn' = [conn EXCEPT ![s] = [d \in Db |->
       IF d \in sDBs[s] /\ @[d] = "open" THEN "closed" ELSE @[d]]]
  /\ mapped' = [mapped EXCEPT ![s] = @ \ {arr[s][i] : i \in DOMAIN arr[s]}]

-----------------------------------------------------------------------------
(* startSubscribe, with sMutex.                                            *)

Begin(s) ==
  /\ Goto(s, "new", "listen")
  /\ holder = NoSub /\ holder' = s
  /\ UNCHANGED <<content, cur, sDBs, arr, sent, syncDone, mapped, cache, conn,
                 sCIP, pending, stop, clientVars, notice, panicked, changes,
                 faults>>

(* startDBSubscribe: the paths go into nMap and sMap, then SubscribeDB     *)
(* waits for the confirmation and starts the goroutine.                    *)
Listen(s, d) ==
  /\ Goto(s, "listen", "opened")
  /\ d \in DbsOf(s) \ sDBs[s]
  /\ cur' = [cur EXCEPT ![s] = {d}]
  /\ mapped' = [mapped EXCEPT ![s] = @ \cup PathsAt(s, d)]
  /\ conn' = [conn EXCEPT ![s][d] = "open"]
  /\ UNCHANGED <<content, holder, sDBs, arr, sent, syncDone, cache, sCIP,
                 pending, stop, clientVars, notice, panicked, changes,
                 faults>>

(* SubscribeDB fails: the entries of this database are taken out again and *)
(* those before are cleaned up.                                            *)
ListenFails(s) ==
  /\ Goto(s, "listen", "failed")
  /\ DbsOf(s) \ sDBs[s] # {}
  /\ cleanup(s)
  /\ holder' = NoSub
  /\ UNCHANGED <<content, cur, sDBs, arr, sent, syncDone, cache, pending,
                 stop, clientVars, notice, panicked, changes, faults>>

(* sInfo.sDBs and cleanupMap.                                              *)
Record(s) ==
  /\ Goto(s, "opened", "recorded")
  /\ sDBs' = [sDBs EXCEPT ![s] = @ \cup cur[s]]
  /\ UNCHANGED <<content, holder, cur, arr, sent, syncDone, mapped, cache,
                 conn, sCIP, pending, stop, clientVars, notice, panicked,
                 changes, faults>>

(* sInfo.nInfoArr, and on to the next database or to the first values.     *)
AppendInfo(s) ==
  /\ Goto(s, "recorded", IF DbsOf(s) \subseteq sDBs[s] THEN "read" ELSE "listen")
  /\ \E d \in cur[s] : arr' = [arr EXCEPT ![s] = @ \o Wanted[s][d]]
  /\ UNCHANGED <<content, holder, cur, sDBs, sent, syncDone, mapped, cache,
                 conn, sCIP, pending, stop, clientVars, notice, panicked,
                 changes, faults>>

(* As if syncDone were set one path too early.                             *)
ReadFirst_early(s) ==
  /\ sent[s] < Len(arr[s])
  /\ Goto(s, "read", "send")
  /\ \E v \in Payload : /\ Reads(arr[s][sent[s] + 1], v)
                        /\ cache' = [cache EXCEPT ![s][arr[s][sent[s] + 1]] = v]
  /\ syncDone' = [syncDone EXCEPT ![s] = sent[s] + 2 >= Len(arr[s])]
  /\ UNCHANGED <<content, holder, cur, sDBs, arr, sent, mapped, conn, sCIP,
                 pending, stop, clientVars, notice, panicked, changes>>

(* updateCache; syncDone is set with the last path.                        *)
ReadFirst(s) ==
  /\ sent[s] < Len(arr[s])
  /\ Goto(s, "read", "send")
  /\ \E v \in Payload : /\ Reads(arr[s][sent[s] + 1], v)
                        /\ cache' = [cache EXCEPT ![s][arr[s][sent[s] + 1]] = v]
  /\ syncDone' = [syncDone EXCEPT ![s] = sent[s] + 1 = Len(arr[s])]
  /\ UNCHANGED <<content, holder, cur, sDBs, arr, sent, mapped, conn, sCIP,
                 pending, stop, clientVars, notice, panicked, changes>>

SendFirst(s) ==
  /\ Goto(s, "send", "read")
  /\ sent' = [sent EXCEPT ![s] = @ + 1]
  /\ LET p == arr[s][sent[s] + 1] IN Send(s, p, cache[s][p], syncDone[s], FALSE)
  /\ UNCHANGED <<content, holder, cur, sDBs, arr, syncDone, mapped, cache,
                 conn, sCIP, pending, stop, notice, panicked, changes,
                 faults>>

(* As if sMutex were not given back.                                       *)
Subscribed_keepsMutex(s) ==
  /\ sent[s] = Len(arr[s])
  /\ \/ Goto(s, "read", "active")
     \/ Goto(s, "listen", "active") /\ DbsOf(s) = {}
  /\ UNCHANGED <<content, holder, cur, sDBs, arr, sent, syncDone, mapped,
                 cache, conn, sCIP, pending, stop, clientVars, notice,
                 panicked, changes, faults>>

(* The stop handler is started and sMutex given back.                      *)
Subscribed(s) ==
  /\ sent[s] = Len(arr[s])
  /\ \/ Goto(s, "read", "active")
     \/ Goto(s, "listen", "active") /\ DbsOf(s) = {}
  /\ holder' = NoSub
  /\ UNCHANGED <<content, cur, sDBs, arr, sent, syncDone, mapped, cache, conn,
                 sCIP, pending, stop, clientVars, notice, panicked, changes,
                 faults>>

-----------------------------------------------------------------------------
(* The goroutines: notifications, the end of the channel, the stop.        *)

(* As if the new value were sent without being kept.                       *)
Handle_noCache(s, p) ==
  /\ holder = NoSub /\ p \in pending[s]
  /\ pending' = [pending EXCEPT ![s] = @ \ {p}]
  /\ \/ /\ p \in mapped[s]
        /\ \E v \in Payload :
             /\ Reads(p, v)
             /\ \/ v = cache[s][p] /\ UNCHANGED clientVars
                \/ v # cache[s][p] /\ Send(s, p, v, syncDone[s], FALSE)
     \/ p \notin mapped[s] /\ UNCHANGED <<clientVars, faults>>
  /\ UNCHANGED <<content, setupVars, mapped, cache, conn, sCIP, stop, notice,
                 panicked, changes>>

(* notificationHandler for a change, on the goroutine of the database of p *)
(* (isCacheChanged, sendNotification).  The notifications of a path that   *)
(* wait are taken as one: each of them reads the path as it is by then.    *)
Handle(s, p) ==
  /\ holder = NoSub /\ p \in pending[s]
  /\ pending' = [pending EXCEPT ![s] = @ \ {p}]
  /\ \/ /\ p \in mapped[s]
        /\ \E v \in Payload :
             /\ Reads(p, v)
             /\ cache' = [cache EXCEPT ![s][p] = v]
             /\ \/ v = cache[s][p] /\ UNCHANGED clientVars
                \/ v # cache[s][p] /\ Send(s, p, v, syncDone[s], FALSE)
     \/ p \notin mapped[s] /\ UNCHANGED <<cache, clientVars, faults>>
  /\ UNCHANGED <<content, setupVars, mapped, conn, sCIP, stop, notice,
                 panicked, changes>>

(* The channel is closed and empty: d.sCIP tells a stop from an error.     *)
ChannelEnds(s, d) ==
  /\ conn[s][d] = "closed" /\ pending[s] \cap PathsAt(s, d) = {}
  /\ conn' = [conn EXCEPT ![s][d] = IF sCIP[s][d] THEN "done" ELSE "error"]
  /\ UNCHANGED <<content, setupVars, mapped, cache, sCIP, pending, stop,
                 clientVars, notice, panicked, changes, faults>>

(* notificationHandler for SEventErr, without sMutex: what it finds in     *)
(* cleanupMap, in nInfoArr[0] and in its cache.                            *)
ErrorReads(s, d) ==
  /\ conn[s][d] = "error"
  /\ \/ /\ d \in sDBs[s] /\ arr[s] # <<>>
        /\ conn' = [conn EXCEPT ![s][d] = "notice"]
        /\ notice' = [notice EXCEPT ![s][d] =
                        [val |-> cache[s][arr[s][1]], sync |-> syncDone[s]]]
        /\ UNCHANGED panicked
     \/ /\ d \in sDBs[s] /\ arr[s] = <<>>
        /\ panicked' = TRUE
        /\ UNCHANGED <<conn, notice>>
     \/ /\ d \notin sDBs[s]
        /\ conn' = [conn EXCEPT ![s][d] = "done"]
        /\ UNCHANGED <<notice, panicked>>
  /\ UNCHANGED <<content, setupVars, mapped, cache, sCIP, pending, stop,
                 clientVars, changes, faults>>

(* Its q.Put.  syncDone was read after the value, at some point until now. *)
ErrorSends(s, d) ==
  /\ conn[s][d] = "notice"
  /\ conn' = [conn EXCEPT ![s][d] = "done"]
  /\ \E sync \in {notice[s][d].sync, syncDone[s]} :
       Send(s, arr[s][1], notice[s][d].val, sync, TRUE)
  /\ notice' = [notice EXCEPT ![s][d] = NoNotice]
  /\ UNCHANGED <<content, setupVars, mapped, cache, sCIP, pending, stop,
                 panicked, changes, faults>>

StopHandler(s) ==
  /\ holder = NoSub /\ stop[s]
  /\ Goto(s, "active", "stopped")
  /\ cleanup(s)
  /\ UNCHANGED <<content, holder, cur, sDBs, arr, sent, syncDone, cache,
                 pending, stop, clientVars, notice, panicked, changes,
                 faults>>

-----------------------------------------------------------------------------
Setup(s) ==
  \/ \E d \in Db : Listen(s, d)
  \/ Record(s) \/ AppendInfo(s) \/ ReadFirst(s) \/ SendFirst(s)
  \/ Subscribed(s)

Receiver(s, d) ==
  \/ \E p \in PathsAt(s, d) : Handle(s, p)
  \/ ChannelEnds(s, d) \/ ErrorReads(s, d) \/ ErrorSends(s, d)

Next ==
  /\ ~panicked
  /\ \/ \E p \in Path, v \in Payload : Change(p, v)
     \/ \E s \in Sub :
          \/ Begin(s) \/ Setup(s) \/ ListenFails(s)
          \/ Stop(s) \/ StopHandler(s)
          \/ \E d \in Db : Receiver(s, d) \/ LoseConnection(s, d)

Spec == Init /\ [][Next]_vars

(* Goroutines run, and sMutex is given to those who wait for it.           *)
Fairness ==
  \A s \in Sub :
    /\ WF_vars(~panicked /\ Setup(s))
    /\ SF_vars(~panicked /\ StopHandler(s))
    /\ \A d \in Db : SF_vars(~panicked /\ Receiver(s, d))

FairSpec == Spec /\ Fairness

-----------------------------------------------------------------------------
(* Properties.                                                             *)

(* While a subscription is up, what the client has of a path is what the   *)
(* path reads as, or a notification is still to be handled: subscribing    *)
(* before the first read, and comparing with the value that was sent,      *)
(* leaves no window for a change to be lost in.  A failed read, and a lost *)
(* connection that go-redis repairs, do lose changes.                      *)
NothingMissed ==
  \A s \in Sub : (pc[s] = "active" /\ faults = 0) =>
    \A p \in PathsOf(s) : view[s][p] = content[p] \/ p \in pending[s]

(* SyncComplete means that every path has been sent, however the first     *)
(* values, the notifications and the databases interleave, unless an error *)
(* ended the subscription.                                                 *)
SyncIsComplete ==
  \A s \in Sub : synced[s] /\ ~told[s] =>
    \A p \in PathsOf(s) : view[s][p] # None

(* A client that stopped, or whose subscription failed, is sent no         *)
(* SyncComplete any more, and no value but the notice of a connection that *)
(* broke, although notifications are still in the channels then.  The      *)
(* notice has a value the client was sent before, or none; as its handler  *)
(* takes no mutex, this may be an older one than the client has.           *)
QuietAfterStop ==
  [][\A s \in Sub : pc[s] \in {"stopped", "failed"} =>
       /\ synced'[s] = synced[s]
       /\ \/ view'[s] = view[s]
          \/ /\ \E d \in Db : conn[s][d] = "notice" /\ conn'[s][d] = "done"
             /\ \A p \in Path : view'[s][p] \in had[s][p]]_vars

(* When the databases stay as they are, the client of a subscription that  *)
(* is up gets to know how they are.                                        *)
Converges ==
  \A s \in Sub :
    <>[](pc[s] = "active" /\ faults = 0 =>
           \A p \in PathsOf(s) : view[s][p] = content[p])
=============================================================================
