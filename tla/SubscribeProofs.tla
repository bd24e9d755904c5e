--------------------------- MODULE SubscribeProofs ---------------------------
(***************************************************************************)
(* What a subscription promises, proved for any number of subscriptions,   *)
(* databases and paths.                                                    *)
(***************************************************************************)
EXTENDS Subscribe, TLAPS

(* The paths of a subscription are paths.                                  *)
LEMMA PathsArePaths ==
  ASSUME NEW s \in Sub, NEW d \in Db
  PROVE  /\ Wanted[s][d] \in Seq(Path)
         /\ PathsAt(s, d) \subseteq Path
<1>1. Wanted[s][d] \in Seq(Path)
  BY SubscribeAssumption
<1>2. \A w \in Seq(Path) : \A i \in DOMAIN w : w[i] \in Path
  OBVIOUS
<1>3. \A i \in DOMAIN Wanted[s][d] : Wanted[s][d][i] \in Path
  BY <1>1, <1>2
<1>4. PathsAt(s, d) \subseteq Path
  BY <1>3 DEF PathsAt
<1> QED
  BY <1>1, <1>4

-----------------------------------------------------------------------------
(* Types.                                                                  *)

(* A value is sent only of a path there is.                                *)
InRange ==
  \A s \in Sub :
    /\ pc[s] = "send" => sent[s] < Len(arr[s])
    /\ \A d \in Db : conn[s][d] = "notice" => arr[s] # <<>>

(* The program starts type correct.                                        *)
LEMMA TypeInit == Init => TypeOK /\ InRange
<1>1. Init => TypeOK
  <2> SUFFICES ASSUME Init PROVE TypeOK
    OBVIOUS
  <2>1. arr \in [Sub -> Seq(Path)]
    BY DEF Init
  <2>2. /\ mapped \in [Sub -> SUBSET Path] /\ pending \in [Sub -> SUBSET Path]
        /\ cur \in [Sub -> SUBSET Db] /\ sDBs \in [Sub -> SUBSET Db]
    BY DEF Init
  <2>3. had \in [Sub -> [Path -> SUBSET (Payload \cup {None})]]
    BY DEF Init
  <2>4. notice \in [Sub -> [Db -> Notice]]
    <3>1. NoNotice \in Notice
      BY DEF Notice, NoNotice
    <3> QED
      BY <3>1 DEF Init
  <2> QED
    BY <2>1, <2>2, <2>3, <2>4 DEF Init, TypeOK
<1>2. Init => InRange
  BY DEF Init, InRange
<1> QED
  BY <1>1, <1>2

(* What a send changes.                                                    *)
ClientTypes ==
  /\ view \in [Sub -> [Path -> Payload \cup {None}]]
  /\ synced \in [Sub -> BOOLEAN]
  /\ told \in [Sub -> BOOLEAN]
  /\ had \in [Sub -> [Path -> SUBSET (Payload \cup {None})]]

(* Every step keeps the types.                                             *)
LEMMA TypeNext == TypeOK /\ InRange /\ [Next]_vars => TypeOK'
<1> SUFFICES ASSUME TypeOK, InRange, [Next]_vars PROVE TypeOK'
  OBVIOUS
<1> USE SubscribeAssumption
<1>1. ASSUME NEW p \in Path, NEW v \in Payload, Change(p, v) PROVE TypeOK'
  BY <1>1 DEF TypeOK, Change, setupVars, clientVars
<1>2. ASSUME NEW s \in Sub, Begin(s) PROVE TypeOK'
  BY <1>2 DEF TypeOK, Begin, Goto, clientVars
<1>3. ASSUME NEW s \in Sub, NEW d \in Db, Listen(s, d) PROVE TypeOK'
  BY <1>3, PathsArePaths DEF TypeOK, Listen, Goto, clientVars
<1>4. ASSUME NEW s \in Sub, ListenFails(s) PROVE TypeOK'
  BY <1>4 DEF TypeOK, ListenFails, Goto, cleanup, clientVars
<1>5. ASSUME NEW s \in Sub, Record(s) PROVE TypeOK'
  BY <1>5 DEF TypeOK, Record, Goto, clientVars
<1>6. ASSUME NEW s \in Sub, AppendInfo(s) PROVE TypeOK'
  <2>1. PICK d \in cur[s] : arr' = [arr EXCEPT ![s] = @ \o Wanted[s][d]]
    BY <1>6 DEF AppendInfo
  <2>2. arr[s] \o Wanted[s][d] \in Seq(Path)
    BY <2>1, PathsArePaths DEF TypeOK
  <2>3. arr' \in [Sub -> Seq(Path)]
    BY <2>1, <2>2 DEF TypeOK
  <2> QED
    BY <1>6, <2>3 DEF TypeOK, AppendInfo, Goto, clientVars
<1>7. ASSUME NEW s \in Sub, ReadFirst(s) PROVE TypeOK'
  <2> DEFINE p == arr[s][sent[s] + 1]
  <2>1. p \in Path
    BY <1>7 DEF TypeOK, ReadFirst
  <2>2. PICK v \in Payload : Reads(p, v) /\ cache' = [cache EXCEPT ![s][p] = v]
    BY <1>7 DEF ReadFirst
  <2>3. cache' \in [Sub -> [Path -> Payload \cup {None}]] /\ faults' \in Nat
    BY <2>1, <2>2 DEF TypeOK, Reads
  <2>4. syncDone' \in [Sub -> BOOLEAN] /\ pc' = [pc EXCEPT ![s] = "send"]
    BY <1>7 DEF TypeOK, ReadFirst, Goto
  <2> QED
    BY <1>7, <2>3, <2>4 DEF TypeOK, ReadFirst, clientVars
<1>8. ASSUME NEW s \in Sub, SendFirst(s) PROVE TypeOK'
  <2> DEFINE p == arr[s][sent[s] + 1]
  <2>1. p \in Path
    BY <1>8 DEF TypeOK, InRange, SendFirst, Goto
  <2>2. cache[s][p] \in Payload \cup {None}
    BY <2>1 DEF TypeOK
  <2>3. Send(s, p, cache[s][p], syncDone[s], FALSE) /\ syncDone[s] \in BOOLEAN
    BY <1>8 DEF TypeOK, SendFirst
  <2>4. ClientTypes'
    BY <2>1, <2>2, <2>3 DEF TypeOK, Send, ClientTypes
  <2>5. sent' \in [Sub -> Nat]
    BY <1>8 DEF TypeOK, SendFirst
  <2> QED
    BY <1>8, <2>4, <2>5 DEF TypeOK, ClientTypes, SendFirst, Goto
<1>9. ASSUME NEW s \in Sub, Subscribed(s) PROVE TypeOK'
  BY <1>9 DEF TypeOK, Subscribed, Goto, clientVars
<1>10. ASSUME NEW s \in Sub, NEW p \in Path, Handle(s, p) PROVE TypeOK'
  <2>1. CASE p \notin mapped[s]
    BY <1>10, <2>1 DEF TypeOK, Handle, setupVars, clientVars
  <2>2. CASE p \in mapped[s]
    <3>1. PICK v \in Payload :
            /\ Reads(p, v)
            /\ cache' = [cache EXCEPT ![s][p] = v]
            /\ \/ v = cache[s][p] /\ UNCHANGED clientVars
               \/ v # cache[s][p] /\ Send(s, p, v, syncDone[s], FALSE)
      BY <1>10, <2>2 DEF Handle
    <3>2. cache' \in [Sub -> [Path -> Payload \cup {None}]] /\ faults' \in Nat
      BY <3>1 DEF TypeOK, Reads
    <3>3. ClientTypes'
      <4>1. CASE UNCHANGED clientVars
        BY <4>1 DEF TypeOK, ClientTypes, clientVars
      <4>2. CASE Send(s, p, v, syncDone[s], FALSE)
        <5>1. syncDone[s] \in BOOLEAN
          BY DEF TypeOK
        <5> QED
          BY <4>2, <5>1 DEF TypeOK, Send, ClientTypes
      <4> QED
        BY <3>1, <4>1, <4>2
    <3>4. pending' \in [Sub -> SUBSET Path]
      BY <1>10 DEF TypeOK, Handle
    <3> QED
      BY <1>10, <3>2, <3>3, <3>4 DEF TypeOK, ClientTypes, Handle, setupVars
  <2> QED
    BY <2>1, <2>2
<1>11. ASSUME NEW s \in Sub, NEW d \in Db, ChannelEnds(s, d) PROVE TypeOK'
  BY <1>11 DEF TypeOK, ChannelEnds, setupVars, clientVars
<1>12. ASSUME NEW s \in Sub, NEW d \in Db, ErrorReads(s, d) PROVE TypeOK'
  <2>1. conn' \in [Sub -> [Db -> {"none", "open", "closed", "error", "notice",
                                 "done"}]]
    <3>1. \E st \in {"error", "notice", "done"} : conn' = [conn EXCEPT ![s][d] = st]
      BY <1>12 DEF TypeOK, ErrorReads
    <3> QED
      BY <3>1 DEF TypeOK
  <2>2. notice' \in [Sub -> [Db -> Notice]]
    <3>1. CASE arr[s] # <<>>
      <4>1. arr[s][1] \in Path
        BY <3>1 DEF TypeOK
      <4> DEFINE n == [val |-> cache[s][arr[s][1]], sync |-> syncDone[s]]
      <4>2. n \in Notice
        BY <4>1 DEF TypeOK, Notice
      <4>3. \/ notice' = notice
            \/ notice' = [notice EXCEPT ![s][d] = n]
        BY <1>12, <3>1 DEF ErrorReads
      <4>4. notice \in [Sub -> [Db -> Notice]]
        BY DEF TypeOK
      <4> HIDE DEF n
      <4>5. CASE notice' = notice
        BY <4>4, <4>5
      <4>6. CASE notice' = [notice EXCEPT ![s][d] = n]
        BY <4>2, <4>4, <4>6
      <4> QED
        BY <4>3, <4>5, <4>6
    <3>2. CASE arr[s] = <<>>
      <4>1. notice' = notice
        BY <1>12, <3>2 DEF ErrorReads
      <4> QED
        BY <4>1 DEF TypeOK
    <3> QED
      BY <3>1, <3>2
  <2>3. panicked' \in BOOLEAN
    BY <1>12 DEF TypeOK, ErrorReads
  <2> QED
    BY <1>12, <2>1, <2>2, <2>3 DEF TypeOK, ErrorReads, setupVars, clientVars
<1>13. ASSUME NEW s \in Sub, NEW d \in Db, ErrorSends(s, d) PROVE TypeOK'
  <2>1. arr[s][1] \in Path /\ notice[s][d] \in Notice
    BY <1>13 DEF TypeOK, InRange, ErrorSends
  <2>2. PICK sync \in {notice[s][d].sync, syncDone[s]} :
          Send(s, arr[s][1], notice[s][d].val, sync, TRUE)
    BY <1>13 DEF ErrorSends
  <2>3. sync \in BOOLEAN /\ notice[s][d].val \in Payload \cup {None}
    BY <2>1 DEF TypeOK, Notice
  <2>4. ClientTypes'
    BY <2>1, <2>2, <2>3 DEF TypeOK, Send, ClientTypes
  <2>5. notice' \in [Sub -> [Db -> Notice]]
    BY <1>13 DEF TypeOK, ErrorSends, NoNotice, Notice
  <2>6. conn' \in [Sub -> [Db -> {"none", "open", "closed", "error", "notice",
                                 "done"}]]
    BY <1>13 DEF TypeOK, ErrorSends
  <2> QED
    BY <1>13, <2>4, <2>5, <2>6 DEF TypeOK, ClientTypes, ErrorSends, setupVars
<1>14. ASSUME NEW s \in Sub, StopHandler(s) PROVE TypeOK'
  BY <1>14 DEF TypeOK, StopHandler, Goto, cleanup, clientVars
<1>15. ASSUME NEW s \in Sub, Stop(s) PROVE TypeOK'
  BY <1>15 DEF TypeOK, Stop, setupVars, clientVars
<1>16. ASSUME NEW s \in Sub, NEW d \in Db, LoseConnection(s, d) PROVE TypeOK'
  BY <1>16 DEF TypeOK, LoseConnection, setupVars, clientVars
<1>17. CASE UNCHANGED vars
  BY <1>17 DEF TypeOK, vars, setupVars, clientVars
<1> QED
  BY <1>1, <1>2, <1>3, <1>4, <1>5, <1>6, <1>7, <1>8, <1>9, <1>10, <1>11,
     <1>12, <1>13, <1>14, <1>15, <1>16, <1>17,
     PathsArePaths
     DEF Next, Setup, Receiver

(* Every step keeps the path to be sent within nInfoArr.                   *)
LEMMA RangeNext == TypeOK /\ InRange /\ [Next]_vars => InRange'
<1> SUFFICES ASSUME TypeOK, InRange, [Next]_vars, NEW t \in Sub
             PROVE  /\ pc[t]' = "send" => sent[t]' < Len(arr[t])'
                    /\ \A d \in Db : conn[t][d]' = "notice" => arr[t]' # <<>>
  BY DEF InRange
<1>1. pc[t]' = "send" => sent[t]' < Len(arr[t])'
  <2> SUFFICES ASSUME pc[t]' = "send" PROVE sent[t]' < Len(arr[t])'
    OBVIOUS
  <2>1. CASE UNCHANGED <<pc, sent, arr>>
    BY <2>1 DEF InRange
  <2>2. ASSUME NEW s \in Sub, ReadFirst(s) PROVE sent[t]' < Len(arr[t])'
    BY <2>2 DEF TypeOK, InRange, ReadFirst, Goto
  <2>3. ASSUME NEW s \in Sub, AppendInfo(s) PROVE sent[t]' < Len(arr[t])'
    BY <2>3 DEF TypeOK, InRange, AppendInfo, Goto
  <2>4. ASSUME NEW s \in Sub, SendFirst(s) PROVE sent[t]' < Len(arr[t])'
    BY <2>4 DEF TypeOK, InRange, SendFirst, Goto
  <2>5. ASSUME NEW s \in Sub,
               \/ Begin(s) \/ ListenFails(s) \/ Record(s) \/ Subscribed(s)
               \/ StopHandler(s) \/ \E d \in Db : Listen(s, d)
        PROVE sent[t]' < Len(arr[t])'
    BY <2>5 DEF TypeOK, InRange, Begin, ListenFails, Record, Subscribed,
                StopHandler, Listen, Goto
  <2>6. ASSUME NEW s \in Sub,
               Stop(s) \/ \E d \in Db : Receiver(s, d) \/ LoseConnection(s, d)
        PROVE  UNCHANGED <<pc, sent, arr>>
    BY <2>6 DEF Receiver, Stop, LoseConnection, Handle, ChannelEnds, ErrorReads,
                ErrorSends, setupVars
  <2>7. ASSUME NEW p \in Path, NEW v \in Payload, Change(p, v)
        PROVE  UNCHANGED <<pc, sent, arr>>
    BY <2>7 DEF Change, setupVars
  <2> QED
    BY <2>1, <2>2, <2>3, <2>4, <2>5, <2>6, <2>7 DEF Next, Setup, vars, setupVars
<1>2. ASSUME NEW d \in Db, conn[t][d]' = "notice" PROVE arr[t]' # <<>>
  <2>1. CASE UNCHANGED <<conn, arr>>
    BY <1>2, <2>1 DEF InRange
  <2>2. ASSUME NEW s \in Sub, AppendInfo(s) PROVE arr[t]' # <<>>
    <3>1. PICK e \in cur[s] : arr' = [arr EXCEPT ![s] = @ \o Wanted[s][e]]
      BY <2>2 DEF AppendInfo
    <3>2. Wanted[s][e] \in Seq(Path) /\ arr[s] \in Seq(Path) /\ arr[t] # <<>>
      BY <1>2, <2>2, <3>1, PathsArePaths DEF AppendInfo, InRange, TypeOK
    <3>3. arr[s] # <<>> => arr[s] \o Wanted[s][e] # <<>>
      BY <3>2
    <3> QED
      BY <3>1, <3>2, <3>3 DEF TypeOK
  <2>3. ASSUME NEW s \in Sub, NEW e \in Db, ErrorReads(s, e)
        PROVE  arr[t]' # <<>>
    <3>1. arr' = arr
      BY <2>3 DEF ErrorReads, setupVars
    <3>2. CASE arr[s] # <<>>
      <4>1. t # s => conn'[t] = conn[t]
        BY <2>3 DEF TypeOK, ErrorReads
      <4> QED
        BY <1>2, <3>1, <3>2, <4>1 DEF InRange
    <3>3. CASE arr[s] = <<>>
      <4>1. conn' = conn \/ conn' = [conn EXCEPT ![s][e] = "done"]
        BY <2>3, <3>3 DEF ErrorReads
      <4>2. CASE conn' = conn
        BY <1>2, <3>1, <4>2 DEF InRange
      <4>3. CASE conn' = [conn EXCEPT ![s][e] = "done"]
        <5>1. conn'[t][d] = "notice" => conn[t][d] = "notice"
          BY <4>3 DEF TypeOK
        <5> QED
          BY <1>2, <3>1, <5>1 DEF InRange
      <4> QED
        BY <4>1, <4>2, <4>3
    <3> QED
      BY <3>2, <3>3
  <2>4. ASSUME NEW s \in Sub, NEW e \in Db,
               \/ Listen(s, e) \/ ChannelEnds(s, e) \/ ErrorSends(s, e)
               \/ LoseConnection(s, e)
        PROVE  arr[t]' # <<>>
    <3>1. arr' = arr
      BY <2>4 DEF Listen, ChannelEnds, ErrorSends, LoseConnection, setupVars
    <3>2. \E st \in {"open", "closed", "error", "done"} :
            conn' = [conn EXCEPT ![s][e] = st]
      BY <2>4 DEF Listen, ChannelEnds, ErrorSends, LoseConnection
    <3>3. conn'[t][d] = "notice" => conn[t][d] = "notice"
      BY <3>2 DEF TypeOK
    <3> QED
      BY <1>2, <3>1, <3>3 DEF InRange
  <2>5. ASSUME NEW s \in Sub, ListenFails(s) \/ StopHandler(s)
        PROVE  arr[t]' # <<>>
    <3>1. arr' = arr /\ cleanup(s)
      BY <2>5 DEF ListenFails, StopHandler
    <3>2. conn'[t][d] = "notice" => conn[t][d] = "notice"
      BY <3>1 DEF cleanup, TypeOK
    <3> QED
      BY <1>2, <3>1, <3>2 DEF InRange
  <2>6. ASSUME NEW s \in Sub,
               \/ Begin(s) \/ Record(s) \/ ReadFirst(s) \/ SendFirst(s)
               \/ Subscribed(s) \/ Stop(s) \/ \E p \in Path : Handle(s, p)
        PROVE  UNCHANGED <<conn, arr>>
    BY <2>6 DEF Begin, Record, ReadFirst, SendFirst, Subscribed, Stop, Handle,
                setupVars
  <2>7. ASSUME NEW p \in Path, NEW v \in Payload, Change(p, v)
        PROVE  UNCHANGED <<conn, arr>>
    BY <2>7 DEF Change, setupVars
  <2> QED
    BY <2>1, <2>2, <2>3, <2>4, <2>5, <2>6, <2>7, PathsArePaths
       DEF Next, Setup, Receiver, vars, setupVars
<1> QED
  BY <1>1, <1>2

(* Every reachable state is type correct.                                  *)
THEOREM TypeCorrect == Spec => []TypeOK
  BY TypeInit, TypeNext, RangeNext, PTL DEF Spec

-----------------------------------------------------------------------------
(* The invariant.                                                          *)

SetUp == {"listen", "opened", "recorded", "read", "send"}
Live  == SetUp \cup {"active"}
Full  == {"read", "send", "active", "stopped"}

Elements(q) == {q[i] : i \in DOMAIN q}

Infos(s) == Elements(arr[s])

(* The databases it subscribed to, and those whose paths it appended.      *)
Begun(s) == sDBs[s] \cup cur[s]
Added(s) == IF pc[s] = "recorded" THEN sDBs[s] \ cur[s] ELSE sDBs[s]

(* Who sets a subscription up has sMutex.                                  *)
Exclusive == \A s \in Sub : pc[s] \in SetUp => holder = s

(* How far startSubscribe is with the databases.                           *)
Stages(s) ==
  /\ cur[s] \cup sDBs[s] \subseteq DbsOf(s)
  /\ \A d, e \in cur[s] : d = e
  /\ pc[s] \in {"opened", "recorded"} => cur[s] # {}
  /\ pc[s] = "opened" => cur[s] \cap sDBs[s] = {}
  /\ pc[s] # "opened" => cur[s] \subseteq sDBs[s]
  /\ pc[s] = "new" => sDBs[s] = {}
  /\ pc[s] \in Full => DbsOf(s) \subseteq sDBs[s]

(* nInfoArr has the paths of the databases that were appended, and the     *)
(* maps those of the databases that were begun, until the cleanup.         *)
Maps(s) ==
  /\ \A p \in Path : p \in Infos(s) <=> \E d \in Added(s) : p \in PathsAt(s, d)
  /\ pc[s] \in Live =>
       \A p \in Path : p \in mapped[s] <=> \E d \in Begun(s) : p \in PathsAt(s, d)
  /\ pc[s] \notin Live => mapped[s] = {}

(* The first values go out one by one, and SyncComplete with the last.     *)
First(s) ==
  /\ sent[s] <= Len(arr[s])
  /\ pc[s] \notin Full => sent[s] = 0
  /\ pc[s] \in {"active", "stopped"} => sent[s] = Len(arr[s])
  /\ pc[s] = "new" => ~told[s]
  /\ told[s] \/ \A i \in 1..sent[s] : view[s][arr[s][i]] # None
  /\ pc[s] = "send" => cache[s][arr[s][sent[s] + 1]] # None
  /\ syncDone[s] => pc[s] \in Full /\ sent[s] + 1 >= Len(arr[s])
  /\ (syncDone[s] /\ pc[s] # "send") => (sent[s] = Len(arr[s]) /\ synced[s])
  /\ (synced[s] /\ ~told[s]) => (syncDone[s] /\ pc[s] # "send")

(* The value that is to be sent next has not been sent perhaps.            *)
ToSend(s, p) == pc[s] = "send" /\ p = arr[s][sent[s] + 1]

(* The client has what the cache has, until the notice of an error brings  *)
(* an older value.                                                         *)
Sent(s) ==
  \A p \in Path :
    /\ cache[s][p] # None => p \in Infos(s)
    /\ told[s] \/ view[s][p] = cache[s][p] \/ ToSend(s, p)
    /\ cache[s][p] \in had[s][p] \/ ToSend(s, p)
    /\ view[s][p] \in had[s][p]

(* What the handler of an error has read was sent before, or is the value  *)
(* that is to be sent next.                                                *)
Noticed(s) ==
  \A d \in Db : conn[s][d] = "notice" =>
    /\ d \in sDBs[s] /\ arr[s] # <<>>
    /\ \/ notice[s][d].val \in had[s][arr[s][1]]
       \/ ToSend(s, arr[s][1]) /\ notice[s][d].val = cache[s][arr[s][1]]
    /\ notice[s][d].sync => syncDone[s]

(* Without faults a connection that was opened is open, and a value that   *)
(* is not the current one has a notification that waits.                   *)
Fresh(s) ==
  (faults = 0 /\ pc[s] \in Live) =>
    /\ ~told[s]
    /\ \A d \in Begun(s) : conn[s][d] = "open"
    /\ \A p \in Path : cache[s][p] = None \/ cache[s][p] = content[p] \/ p \in pending[s]

PInv(s) ==
  Stages(s) /\ Maps(s) /\ First(s) /\ Sent(s) /\ Noticed(s) /\ Fresh(s)

IInv == InRange /\ Exclusive /\ \A s \in Sub : PInv(s)

-----------------------------------------------------------------------------
(* The initial state, and what does not concern a subscription.            *)

(* A subscription that has not begun has nothing anywhere.                 *)
LEMMA InvInit == Init => IInv
<1> SUFFICES ASSUME Init PROVE IInv
  OBVIOUS
<1>1. InRange /\ Exclusive
  BY DEF Init, InRange, Exclusive, SetUp
<1>2. ASSUME NEW s \in Sub PROVE PInv(s)
  <2>1. Infos(s) = {} /\ Len(arr[s]) = 0
    BY DEF Init, Infos, Elements
  <2>2. Stages(s)
    BY DEF Init, Stages, Full
  <2>3. Maps(s)
    BY <2>1 DEF Init, Maps, Added, Live, SetUp
  <2>4. First(s)
    BY <2>1 DEF Init, First, Full
  <2>5. Sent(s) /\ Noticed(s) /\ Fresh(s)
    BY DEF Init, Sent, Noticed, Fresh, Live, SetUp
  <2> QED
    BY <2>2, <2>3, <2>4, <2>5 DEF PInv
<1> QED
  BY <1>1, <1>2 DEF IInv

(* A subscription keeps its invariant in a step that leaves its state and  *)
(* the contents alone.                                                     *)
LEMMA Frame ==
  ASSUME TypeOK, NEW t \in Sub, PInv(t),
         pc'[t] = pc[t], cur'[t] = cur[t], sDBs'[t] = sDBs[t],
         arr'[t] = arr[t], sent'[t] = sent[t], syncDone'[t] = syncDone[t],
         mapped'[t] = mapped[t], cache'[t] = cache[t], conn'[t] = conn[t],
         pending'[t] = pending[t], view'[t] = view[t],
         synced'[t] = synced[t], told'[t] = told[t], had'[t] = had[t],
         notice'[t] = notice[t],
         content' = content, faults' \in {faults, faults + 1}
  PROVE  PInv(t)'
<1>1. Infos(t)' = Infos(t) /\ Added(t)' = Added(t) /\ Begun(t)' = Begun(t)
  BY DEF Infos, Added, Begun
<1>2. Stages(t)'
  BY DEF PInv, Stages
<1>3. Maps(t)'
  BY <1>1 DEF PInv, Maps
<1>4. First(t)'
  BY DEF PInv, First
<1>5. Sent(t)' /\ Noticed(t)'
  BY <1>1 DEF PInv, Sent, Noticed, ToSend
<1>6. Fresh(t)'
  BY <1>1 DEF PInv, Fresh, TypeOK
<1> QED
  BY <1>2, <1>3, <1>4, <1>5, <1>6 DEF PInv

(* sMutex is given to one at a time and kept until startSubscribe returns. *)
LEMMA ExclusiveNext == TypeOK /\ Exclusive /\ [Next]_vars => Exclusive'
<1> SUFFICES ASSUME TypeOK, Exclusive, [Next]_vars PROVE Exclusive'
  OBVIOUS
<1> USE SubscribeAssumption DEF TypeOK, Exclusive, SetUp, Goto
<1>1. CASE UNCHANGED <<pc, holder>>
  BY <1>1
<1>2. ASSUME NEW s \in Sub, Begin(s) PROVE Exclusive'
  BY <1>2 DEF Begin
<1>3. ASSUME NEW s \in Sub, ListenFails(s) PROVE Exclusive'
  BY <1>3 DEF ListenFails
<1>4. ASSUME NEW s \in Sub, Subscribed(s) PROVE Exclusive'
  BY <1>4 DEF Subscribed
<1>5. ASSUME NEW s \in Sub, StopHandler(s) PROVE Exclusive'
  BY <1>5 DEF StopHandler
<1>6. ASSUME NEW s \in Sub,
             \/ Record(s) \/ AppendInfo(s) \/ ReadFirst(s) \/ SendFirst(s)
             \/ \E d \in Db : Listen(s, d)
      PROVE Exclusive'
  BY <1>6 DEF Record, AppendInfo, ReadFirst, SendFirst, Listen
<1>7. ASSUME NEW s \in Sub,
             Stop(s) \/ \E d \in Db : Receiver(s, d) \/ LoseConnection(s, d)
      PROVE  UNCHANGED <<pc, holder>>
  BY <1>7 DEF Receiver, Stop, LoseConnection, Handle, ChannelEnds, ErrorReads,
              ErrorSends, setupVars
<1>8. ASSUME NEW p \in Path, NEW v \in Payload, Change(p, v)
      PROVE  UNCHANGED <<pc, holder>>
  BY <1>8 DEF Change, setupVars
<1> QED
  BY <1>1, <1>2, <1>3, <1>4, <1>5, <1>6, <1>7, <1>8
     DEF Next, Setup, vars, setupVars

-----------------------------------------------------------------------------
(* startSubscribe.                                                         *)

(* startSubscribe gets sMutex.                                             *)
LEMMA BeginKeeps ==
  ASSUME TypeOK, IInv, NEW s \in Sub, Begin(s), NEW t \in Sub
  PROVE  PInv(t)'
<1>1. CASE t # s
  BY <1>1, Frame DEF IInv, TypeOK, Begin, Goto, clientVars
<1>2. CASE t = s
  <2>1. /\ pc[t] = "new" /\ pc'[t] = "listen"
        /\ UNCHANGED <<content, cur, sDBs, arr, sent, syncDone, mapped, cache,
                       conn, pending, view, synced, told, had, notice, faults>>
    BY <1>2 DEF Begin, Goto, TypeOK, clientVars
  <2>2. PInv(t)
    BY DEF IInv
  <2>3. Infos(t)' = Infos(t) /\ Added(t) = {} /\ Added(t)' = {} /\ Begun(t)' = {}
    BY <2>1, <2>2 DEF Infos, Added, Begun, PInv, Stages
  <2>4. Stages(t)'
    BY <2>1, <2>2 DEF PInv, Stages, Full
  <2>5. Maps(t)'
    BY <2>1, <2>2, <2>3 DEF PInv, Maps, Live, SetUp
  <2>6. First(t)'
    BY <2>1, <2>2 DEF PInv, First, Full
  <2>7. told[t] = FALSE
    BY <2>1, <2>2 DEF PInv, First, TypeOK
  <2>8. Sent(t)' /\ Noticed(t)' /\ Fresh(t)'
    BY <2>1, <2>2, <2>3, <2>7 DEF PInv, Maps, Sent, Noticed, ToSend, Fresh
  <2> QED
    BY <2>4, <2>5, <2>6, <2>8 DEF PInv
<1> QED
  BY <1>1, <1>2

(* A database is subscribed to: its paths are in the maps and not yet in   *)
(* nInfoArr.                                                               *)
LEMMA ListenKeeps ==
  ASSUME TypeOK, IInv, NEW s \in Sub, NEW d \in Db, Listen(s, d), NEW t \in Sub
  PROVE  PInv(t)'
<1>1. CASE t # s
  BY <1>1, Frame DEF IInv, TypeOK, Listen, Goto, clientVars
<1>2. CASE t = s
  <2>1. /\ pc[t] = "listen" /\ pc'[t] = "opened"
        /\ d \in DbsOf(t) \ sDBs[t] /\ cur'[t] = {d}
        /\ mapped'[t] = mapped[t] \cup PathsAt(t, d)
        /\ conn'[t] = [conn[t] EXCEPT ![d] = "open"]
        /\ UNCHANGED <<content, sDBs, arr, sent, syncDone, cache, pending,
                       view, synced, told, had, notice, faults>>
    BY <1>2 DEF Listen, Goto, TypeOK, clientVars
  <2>2. PInv(t) /\ cur[t] \subseteq sDBs[t]
    BY <2>1 DEF IInv, PInv, Stages
  <2>3. /\ Infos(t)' = Infos(t)
        /\ Added(t) = sDBs[t] /\ Added(t)' = sDBs[t]
        /\ Begun(t) = sDBs[t] /\ Begun(t)' = sDBs[t] \cup {d}
    BY <2>1, <2>2 DEF Infos, Added, Begun
  <2>4. Stages(t)'
    BY <2>1, <2>2 DEF PInv, Stages, Full
  <2>5. Maps(t)'
    BY <2>1, <2>2, <2>3 DEF PInv, Maps, Live, SetUp, PathsAt
  <2>6. First(t)'
    BY <2>1, <2>2 DEF PInv, First, Full
  <2>7. Sent(t)' /\ Noticed(t)'
    BY <2>1, <2>2, <2>3 DEF PInv, Sent, Noticed, ToSend, TypeOK
  <2>8. Fresh(t)'
    BY <2>1, <2>2, <2>3 DEF PInv, Fresh, Live, SetUp, TypeOK
  <2> QED
    BY <2>4, <2>5, <2>6, <2>7, <2>8 DEF PInv
<1> QED
  BY <1>1, <1>2

(* The cleanup empties the maps of a subscription whose databases have all *)
(* been recorded and appended.                                             *)
LEMMA CleanupEmpties ==
  ASSUME TypeOK, NEW s \in Sub, PInv(s), pc[s] \in {"listen", "active"},
         cleanup(s)
  PROVE  mapped'[s] = {}
<1>1. Added(s) = sDBs[s] /\ Begun(s) = sDBs[s]
  BY DEF PInv, Stages, Added, Begun
<1>2. \A p \in Path : p \in mapped[s] <=> p \in Infos(s)
  BY <1>1 DEF PInv, Maps, Live, SetUp
<1>3. mapped'[s] = mapped[s] \ Infos(s) /\ mapped[s] \subseteq Path
  BY DEF cleanup, TypeOK, Infos, Elements
<1> QED
  BY <1>2, <1>3

(* A subscription that fails leaves nothing in the maps.                   *)
LEMMA ListenFailsKeeps ==
  ASSUME TypeOK, IInv, NEW s \in Sub, ListenFails(s), NEW t \in Sub
  PROVE  PInv(t)'
<1>1. CASE t # s
  BY <1>1, Frame DEF IInv, TypeOK, ListenFails, cleanup, Goto, clientVars
<1>2. CASE t = s
  <2>1. /\ pc[t] = "listen" /\ pc'[t] = "failed"
        /\ UNCHANGED <<content, cur, sDBs, arr, sent, syncDone, cache, pending,
                       view, synced, told, had, notice, faults>>
    BY <1>2 DEF ListenFails, Goto, TypeOK, clientVars
  <2>2. PInv(t)
    BY DEF IInv
  <2>3. mapped'[t] = {}
    BY <1>2, <2>1, <2>2, CleanupEmpties DEF ListenFails
  <2>4. Infos(t)' = Infos(t) /\ Added(t)' = Added(t)
    BY <2>1 DEF Infos, Added
  <2>5. Stages(t)'
    BY <2>1, <2>2 DEF PInv, Stages, Full
  <2>6. Maps(t)'
    BY <2>1, <2>2, <2>3, <2>4 DEF PInv, Maps, Live, SetUp
  <2>7. First(t)'
    BY <2>1, <2>2 DEF PInv, First, Full
  <2>8. \A d \in Db : conn'[t][d] = "notice" => conn[t][d] = "notice"
    BY <1>2 DEF ListenFails, cleanup, TypeOK
  <2>9. Sent(t)' /\ Noticed(t)' /\ Fresh(t)'
    BY <2>1, <2>2, <2>4, <2>8
       DEF PInv, Sent, Noticed, ToSend, Fresh, Live, SetUp
  <2> QED
    BY <2>5, <2>6, <2>7, <2>9 DEF PInv
<1> QED
  BY <1>1, <1>2

(* The database is recorded, its paths are appended next.                  *)
LEMMA RecordKeeps ==
  ASSUME TypeOK, IInv, NEW s \in Sub, Record(s), NEW t \in Sub
  PROVE  PInv(t)'
<1>1. CASE t # s
  BY <1>1, Frame DEF IInv, TypeOK, Record, Goto, clientVars
<1>2. CASE t = s
  <2>1. /\ pc[t] = "opened" /\ pc'[t] = "recorded"
        /\ sDBs'[t] = sDBs[t] \cup cur[t]
        /\ UNCHANGED <<content, cur, arr, sent, syncDone, mapped, cache, conn,
                       pending, view, synced, told, had, notice, faults>>
    BY <1>2 DEF Record, Goto, TypeOK, clientVars
  <2>2. PInv(t) /\ cur[t] \cap sDBs[t] = {}
    BY <2>1 DEF IInv, PInv, Stages
  <2>3. Infos(t)' = Infos(t) /\ Added(t)' = Added(t) /\ Begun(t)' = Begun(t)
    BY <2>1, <2>2 DEF Infos, Added, Begun
  <2>4. Stages(t)'
    BY <2>1, <2>2 DEF PInv, Stages, Full
  <2>5. Maps(t)'
    BY <2>1, <2>2, <2>3 DEF PInv, Maps, Live, SetUp
  <2>6. First(t)'
    BY <2>1, <2>2 DEF PInv, First, Full
  <2>7. Sent(t)' /\ Noticed(t)' /\ Fresh(t)'
    BY <2>1, <2>2, <2>3 DEF PInv, Sent, Noticed, ToSend, Fresh, Live, SetUp
  <2> QED
    BY <2>4, <2>5, <2>6, <2>7 DEF PInv
<1> QED
  BY <1>1, <1>2

(* What a concatenation has is what its parts have.                        *)
LEMMA ConcatElements ==
  ASSUME NEW a \in Seq(Path), NEW b \in Seq(Path)
  PROVE  Elements(a \o b) = Elements(a) \cup Elements(b)
<1>1. /\ DOMAIN a = 1..Len(a) /\ DOMAIN b = 1..Len(b)
      /\ DOMAIN (a \o b) = 1..(Len(a) + Len(b))
      /\ Len(a) \in Nat /\ Len(b) \in Nat
  OBVIOUS
<1>2. \A i \in 1..Len(a) : (a \o b)[i] = a[i]
  OBVIOUS
<1>3. \A i \in 1..Len(b) : /\ (a \o b)[Len(a) + i] = b[i]
                           /\ Len(a) + i \in 1..(Len(a) + Len(b))
  OBVIOUS
<1>4. \A i \in 1..(Len(a) + Len(b)) :
        i \in 1..Len(a) \/ (i - Len(a) \in 1..Len(b) /\ i = Len(a) + (i - Len(a)))
  BY <1>1
<1>5. ASSUME NEW i \in 1..(Len(a) + Len(b))
      PROVE  \/ i \in 1..Len(a) /\ (a \o b)[i] = a[i]
             \/ \E j \in 1..Len(b) : (a \o b)[i] = b[j]
  BY <1>2, <1>3, <1>4
<1>6. \A i \in 1..Len(a) : i \in 1..(Len(a) + Len(b))
  BY <1>1
<1> QED
  <2> DEFINE c == a \o b
  <2>1. \A x \in Elements(c) : x \in Elements(a) \cup Elements(b)
    BY <1>1, <1>5 DEF Elements
  <2>2. \A x \in Elements(a) : x \in Elements(c)
    BY <1>1, <1>2, <1>6 DEF Elements
  <2>3. \A x \in Elements(b) : x \in Elements(c)
    BY <1>1, <1>3 DEF Elements
  <2> QED
    BY <2>1, <2>2, <2>3

(* The paths of the database are appended.                                 *)
LEMMA AppendInfoKeeps ==
  ASSUME TypeOK, IInv, NEW s \in Sub, AppendInfo(s), NEW t \in Sub
  PROVE  PInv(t)'
<1>1. CASE t # s
  BY <1>1, Frame DEF IInv, TypeOK, AppendInfo, Goto, clientVars
<1>2. CASE t = s
  <2>1. PICK d \in cur[t] : arr'[t] = arr[t] \o Wanted[t][d]
    BY <1>2 DEF AppendInfo, TypeOK
  <2>2. /\ pc[t] = "recorded"
        /\ pc'[t] = IF DbsOf(t) \subseteq sDBs[t] THEN "read" ELSE "listen"
        /\ UNCHANGED <<content, cur, sDBs, sent, syncDone, mapped, cache, conn,
                       pending, view, synced, told, had, notice, faults>>
    BY <1>2 DEF AppendInfo, Goto, TypeOK, clientVars
  <2>3. PInv(t) /\ d \in Db /\ cur[t] = {d} /\ d \in sDBs[t]
    <3>1. PInv(t)
      BY DEF IInv
    <3>2. cur[t] \subseteq Db
      BY DEF TypeOK
    <3> QED
      BY <2>1, <2>2, <3>1, <3>2 DEF PInv, Stages
  <2>4. arr[t] \in Seq(Path) /\ Wanted[t][d] \in Seq(Path) /\ arr'[t] \in Seq(Path)
    BY <2>1, <2>3, PathsArePaths DEF TypeOK
  <2>5. \A p \in Path : p \in Infos(t)' <=> p \in Infos(t) \/ p \in PathsAt(t, d)
    <3>1. Elements(arr'[t]) = Elements(arr[t]) \cup Elements(Wanted[t][d])
      BY <2>1, <2>4, ConcatElements
    <3>2. PathsAt(t, d) = Elements(Wanted[t][d])
      BY DEF PathsAt, Elements
    <3> QED
      BY <3>1, <3>2 DEF Infos
  <2>6. /\ Added(t) = sDBs[t] \ {d} /\ Added(t)' = sDBs[t]
        /\ Begun(t)' = Begun(t)
    BY <2>2, <2>3 DEF Added, Begun
  <2>7. Stages(t)'
    BY <2>2, <2>3 DEF PInv, Stages, Full
  <2>8. Maps(t)'
    BY <2>2, <2>3, <2>5, <2>6 DEF PInv, Maps, Live, SetUp
  <2>9. First(t)'
    <3>1. sent[t] = 0 /\ ~syncDone[t] /\ Len(arr'[t]) \in Nat
      BY <2>2, <2>3, <2>4 DEF PInv, First, Full, TypeOK
    <3> QED
      BY <2>2, <2>3, <3>1 DEF PInv, First, Full
  <2>10. Sent(t)' /\ Fresh(t)'
    <3>1. pc'[t] \in {"read", "listen"}
      BY <2>2
    <3>2. Sent(t)'
      BY <2>2, <2>3, <2>5, <3>1 DEF PInv, Sent, ToSend
    <3>3. Fresh(t)'
      BY <2>2, <2>3, <2>6 DEF PInv, Fresh, Live, SetUp
    <3> QED
      BY <3>2, <3>3
  <2>11. Noticed(t)'
    <3>1. ASSUME arr[t] # <<>>
          PROVE  arr'[t] # <<>> /\ arr'[t][1] = arr[t][1]
      <4> DEFINE a == arr[t]
                 w == Wanted[t][d]
      <4>1. a \in Seq(Path) /\ w \in Seq(Path) /\ a # <<>>
        BY <2>4, <3>1
      <4> HIDE DEF a, w
      <4>2. a \o w # <<>> /\ (a \o w)[1] = a[1]
        BY <4>1
      <4> QED
        BY <2>1, <4>2 DEF a, w
    <3> QED
      BY <2>2, <2>3, <3>1 DEF PInv, Noticed, ToSend
  <2> QED
    BY <2>7, <2>8, <2>9, <2>10, <2>11 DEF PInv
<1> QED
  BY <1>1, <1>2

(* A first value is read; with the last one, syncDone is set.              *)
LEMMA ReadFirstKeeps ==
  ASSUME TypeOK, IInv, NEW s \in Sub, ReadFirst(s), NEW t \in Sub
  PROVE  PInv(t)'
<1>1. CASE t # s
  BY <1>1, Frame DEF IInv, TypeOK, ReadFirst, Reads, Goto, clientVars
<1>2. CASE t = s
  <2> DEFINE q == arr[t][sent[t] + 1]
  <2>1. PICK v \in Payload : Reads(q, v) /\ cache'[t] = [cache[t] EXCEPT ![q] = v]
    BY <1>2 DEF ReadFirst, TypeOK
  <2>2. /\ pc[t] = "read" /\ pc'[t] = "send" /\ sent[t] < Len(arr[t])
        /\ syncDone'[t] = (sent[t] + 1 = Len(arr[t]))
        /\ UNCHANGED <<content, cur, sDBs, arr, sent, mapped, conn, pending,
                       view, synced, told, had, notice>>
    BY <1>2 DEF ReadFirst, Goto, TypeOK, clientVars
  <2>3. PInv(t) /\ q \in Path /\ v # None
    BY <2>2, SubscribeAssumption DEF IInv, TypeOK
  <2>4. q \in Infos(t) /\ sent[t] \in Nat /\ Len(arr[t]) \in Nat
    BY <2>2 DEF Infos, Elements, TypeOK
  <2>5. Infos(t)' = Infos(t) /\ Added(t)' = Added(t) /\ Begun(t)' = Begun(t)
    BY <2>2 DEF Infos, Added, Begun
  <2>6. cache'[t][q] = v /\ \A p \in Path \ {q} : cache'[t][p] = cache[t][p]
    BY <2>1, <2>3 DEF TypeOK
  <2>7. Stages(t)'
    BY <2>2, <2>3 DEF PInv, Stages, Full
  <2>8. Maps(t)'
    BY <2>2, <2>3, <2>5 DEF PInv, Maps, Live, SetUp
  <2>9. First(t)'
    <3>1. ~(synced[t] /\ ~told[t])
      BY <2>2, <2>3 DEF PInv, First
    <3>2. syncDone'[t] => sent[t] + 1 >= Len(arr[t])
      <4>1. syncDone'[t] => sent[t] + 1 = Len(arr[t])
        BY <2>2, Zenon
      <4> QED
        BY <2>4, <4>1
    <3>3. /\ sent[t] <= Len(arr[t])
          /\ told[t] \/ \A i \in 1..sent[t] : view[t][arr[t][i]] # None
      BY <2>3 DEF PInv, First
    <3>4. /\ sent'[t] <= Len(arr'[t])
          /\ told'[t] \/ \A i \in 1..sent'[t] : view'[t][arr'[t][i]] # None
      BY <2>2, <3>3
    <3>5. cache'[t][arr'[t][sent'[t] + 1]] # None
      BY <2>2, <2>3, <2>6
    <3>6. syncDone'[t] => sent'[t] + 1 >= Len(arr'[t])
      BY <2>2, <3>2
    <3>7. ~(synced'[t] /\ ~told'[t])
      BY <2>2, <3>1
    <3>8. pc'[t] = "send" /\ pc'[t] \in Full /\ pc'[t] \notin {"active", "stopped"}
          /\ pc'[t] # "new"
      BY <2>2 DEF Full
    <3> QED
      BY <3>4, <3>5, <3>6, <3>7, <3>8 DEF First
  <2>10. Sent(t)'
    BY <2>2, <2>3, <2>4, <2>5, <2>6 DEF PInv, Sent, ToSend
  <2>11. Noticed(t)'
    <3>1. ~syncDone[t]
      BY <2>2, <2>3, <2>4 DEF PInv, First
    <3> QED
      BY <2>2, <2>3, <3>1 DEF PInv, Noticed, ToSend
  <2>12. Fresh(t)'
    BY <2>1, <2>2, <2>3, <2>5, <2>6 DEF PInv, Fresh, Reads, Live, SetUp, TypeOK
  <2> QED
    BY <2>7, <2>8, <2>9, <2>10, <2>11, <2>12 DEF PInv
<1> QED
  BY <1>1, <1>2

(* The value is sent, and counted.                                         *)
LEMMA SendFirstKeeps ==
  ASSUME TypeOK, IInv, NEW s \in Sub, SendFirst(s), NEW t \in Sub
  PROVE  PInv(t)'
<1>1. CASE t # s
  BY <1>1, Frame DEF IInv, TypeOK, SendFirst, Send, Goto
<1>2. CASE t = s
  <2> DEFINE q == arr[t][sent[t] + 1]
  <2>1. /\ pc[t] = "send" /\ pc'[t] = "read" /\ sent'[t] = sent[t] + 1
        /\ view'[t] = [view[t] EXCEPT ![q] = cache[t][q]]
        /\ had'[t] = [had[t] EXCEPT ![q] = @ \cup {cache[t][q]}]
        /\ synced'[t] = (synced[t] \/ syncDone[t]) /\ told'[t] = (told[t] \/ FALSE)
        /\ UNCHANGED <<content, cur, sDBs, arr, syncDone, mapped, cache, conn,
                       pending, notice, faults>>
    BY <1>2 DEF SendFirst, Send, Goto, TypeOK
  <2>2. PInv(t) /\ sent[t] < Len(arr[t])
    BY <2>1 DEF IInv, InRange
  <2>3. sent[t] \in Nat /\ Len(arr[t]) \in Nat /\ q \in Path /\ cache[t][q] # None
    BY <2>1, <2>2 DEF PInv, First, TypeOK
  <2>4. Infos(t)' = Infos(t) /\ Added(t)' = Added(t) /\ Begun(t)' = Begun(t)
    BY <2>1 DEF Infos, Added, Begun
  <2>5. /\ view'[t][q] = cache[t][q] /\ had'[t][q] = had[t][q] \cup {cache[t][q]}
        /\ \A p \in Path \ {q} : view'[t][p] = view[t][p] /\ had'[t][p] = had[t][p]
        /\ told'[t] = told[t]
    BY <2>1, <2>3 DEF TypeOK
  <2>6. Stages(t)'
    BY <2>1, <2>2 DEF PInv, Stages, Full
  <2>7. Maps(t)'
    BY <2>1, <2>2, <2>4 DEF PInv, Maps, Live, SetUp
  <2>8. First(t)'
    <3>1. told'[t] \/ \A i \in 1..sent'[t] : view'[t][arr[t][i]] # None
      <4>1. \A i \in 1..sent[t] :
              arr[t][i] \in Path /\ (told[t] \/ view[t][arr[t][i]] # None)
        BY <2>2, <2>3 DEF PInv, First, TypeOK
      <4>2. \A i \in 1..sent'[t] : i \in 1..sent[t] \/ i = sent[t] + 1
        BY <2>1, <2>3
      <4> QED
        BY <2>3, <2>5, <4>1, <4>2
    <3>2. syncDone[t] => sent'[t] = Len(arr[t])
      BY <2>1, <2>2, <2>3 DEF PInv, First
    <3>3. synced'[t] /\ ~told'[t] => syncDone[t]
      BY <2>1, <2>2 DEF PInv, First
    <3>4. syncDone[t] => synced'[t] /\ sent'[t] + 1 >= Len(arr[t])
      <4>1. syncDone[t] => synced'[t]
        BY <2>1, Zenon
      <4>2. syncDone[t] => sent'[t] + 1 >= Len(arr[t])
        BY <2>1, <2>3, <3>2
      <4> QED
        BY <4>1, <4>2
    <3>5. sent'[t] <= Len(arr[t])
      BY <2>1, <2>2, <2>3
    <3>6. /\ sent'[t] <= Len(arr'[t])
          /\ told'[t] \/ \A i \in 1..sent'[t] : view'[t][arr'[t][i]] # None
      BY <2>1, <3>1, <3>5
    <3>7. /\ syncDone'[t] => synced'[t]
          /\ syncDone'[t] => sent'[t] + 1 >= Len(arr'[t])
          /\ syncDone'[t] => sent'[t] = Len(arr'[t])
      BY <2>1, <3>2, <3>4
    <3>8. synced'[t] /\ ~told'[t] => syncDone'[t]
      BY <2>1, <3>3
    <3>9. /\ pc'[t] # "send" /\ pc'[t] # "new" /\ pc'[t] \in Full
          /\ pc'[t] \notin {"active", "stopped"}
      BY <2>1 DEF Full
    <3> QED
      BY <3>6, <3>7, <3>8, <3>9 DEF First
  <2>9. Sent(t)'
    BY <2>1, <2>2, <2>3, <2>4, <2>5 DEF PInv, Sent, ToSend
  <2>10. Noticed(t)'
    <3>1. arr[t] # <<>> => arr[t][1] \in Path
      BY DEF TypeOK
    <3> QED
      BY <2>1, <2>2, <2>5, <3>1 DEF PInv, Noticed, ToSend
  <2>11. Fresh(t)'
    BY <2>1, <2>2, <2>4, <2>5 DEF PInv, Fresh, Live, SetUp
  <2> QED
    BY <2>6, <2>7, <2>8, <2>9, <2>10, <2>11 DEF PInv
<1> QED
  BY <1>1, <1>2

(* The subscription is up: all its paths have been sent.                   *)
LEMMA SubscribedKeeps ==
  ASSUME TypeOK, IInv, NEW s \in Sub, Subscribed(s), NEW t \in Sub
  PROVE  PInv(t)'
<1>1. CASE t # s
  BY <1>1, Frame DEF IInv, TypeOK, Subscribed, Goto, clientVars
<1>2. CASE t = s
  <2>1. /\ pc[t] = "read" \/ (pc[t] = "listen" /\ DbsOf(t) = {})
        /\ pc'[t] = "active" /\ sent[t] = Len(arr[t])
        /\ UNCHANGED <<content, cur, sDBs, arr, sent, syncDone, mapped, cache,
                       conn, pending, view, synced, told, had, notice, faults>>
    BY <1>2 DEF Subscribed, Goto, TypeOK, clientVars
  <2>2. PInv(t)
    BY DEF IInv
  <2>3. Infos(t)' = Infos(t) /\ Added(t)' = Added(t) /\ Begun(t)' = Begun(t)
    BY <2>1 DEF Infos, Added, Begun
  <2>4. Stages(t)'
    BY <2>1, <2>2 DEF PInv, Stages, Full
  <2>5. Maps(t)'
    BY <2>1, <2>2, <2>3 DEF PInv, Maps, Live, SetUp
  <2>6. First(t)'
    BY <2>1, <2>2 DEF PInv, First, Full
  <2>7. Sent(t)' /\ Noticed(t)' /\ Fresh(t)'
    BY <2>1, <2>2, <2>3 DEF PInv, Sent, Noticed, ToSend, Fresh, Live, SetUp
  <2> QED
    BY <2>4, <2>5, <2>6, <2>7 DEF PInv
<1> QED
  BY <1>1, <1>2

-----------------------------------------------------------------------------
(* The goroutines.                                                         *)

(* A path that is in the maps while nobody has sMutex is one of a          *)
(* subscription that is up.                                                *)
LEMMA MappedIsActive ==
  ASSUME TypeOK, IInv, NEW s \in Sub, holder = NoSub, NEW p \in mapped[s]
  PROVE  pc[s] = "active" /\ p \in Infos(s)
<1>1. PInv(s) /\ p \in Path
  BY DEF IInv, TypeOK
<1>2. pc[s] \in Live
  BY <1>1 DEF PInv, Maps
<1>3. pc[s] = "active"
  BY <1>2, SubscribeAssumption DEF IInv, Exclusive, Live
<1>4. Begun(s) = sDBs[s] /\ Added(s) = sDBs[s]
  BY <1>1, <1>3 DEF PInv, Stages, Begun, Added
<1> QED
  BY <1>1, <1>2, <1>3, <1>4 DEF PInv, Maps

(* A notification is handled: what it read is the cache and has been sent. *)
LEMMA HandleKeeps ==
  ASSUME TypeOK, IInv, NEW s \in Sub, NEW p \in Path, Handle(s, p), NEW t \in Sub
  PROVE  PInv(t)'
<1>0. PInv(t) /\ pc' = pc /\ cur' = cur /\ sDBs' = sDBs /\ arr' = arr
      /\ sent' = sent /\ syncDone' = syncDone /\ mapped' = mapped
      /\ conn' = conn /\ content' = content /\ notice' = notice
  BY DEF IInv, Handle, setupVars
<1>1. CASE t # s
  <2>1. /\ cache'[t] = cache[t] /\ pending'[t] = pending[t]
        /\ view'[t] = view[t] /\ synced'[t] = synced[t] /\ told'[t] = told[t]
        /\ had'[t] = had[t] /\ faults' \in {faults, faults + 1}
    BY <1>1 DEF Handle, Send, Reads, TypeOK, clientVars
  <2> QED
    BY <1>0, <2>1, Frame
<1>2. CASE t = s /\ p \notin mapped[s]
  <2>1. /\ UNCHANGED <<cache, view, synced, told, had, faults>>
        /\ pending'[t] = pending[t] \ {p}
    BY <1>2 DEF Handle, TypeOK, clientVars
  <2>2. Infos(t)' = Infos(t) /\ Added(t)' = Added(t) /\ Begun(t)' = Begun(t)
    BY <1>0 DEF Infos, Added, Begun
  <2>3. Stages(t)' /\ First(t)'
    BY <1>0, <2>1 DEF PInv, Stages, First
  <2>4. Maps(t)' /\ Sent(t)' /\ Noticed(t)'
    BY <1>0, <2>1, <2>2 DEF PInv, Maps, Sent, Noticed, ToSend
  <2>5. Fresh(t)'
    <3>1. pc[t] \in Live => cache[t][p] = None
      <4>1. Added(t) \subseteq Begun(t)
        BY DEF Begun, Added
      <4> QED
        BY <1>0, <1>2, <4>1 DEF PInv, Maps, Sent
    <3> QED
      BY <1>0, <2>1, <2>2, <3>1 DEF PInv, Fresh
  <2> QED
    BY <2>3, <2>4, <2>5 DEF PInv
<1>3. CASE t = s /\ p \in mapped[s]
  <2>1. PICK v \in Payload :
          /\ Reads(p, v) /\ cache'[t] = [cache[t] EXCEPT ![p] = v]
          /\ \/ v = cache[t][p] /\ UNCHANGED clientVars
             \/ v # cache[t][p] /\ Send(t, p, v, syncDone[t], FALSE)
    BY <1>3 DEF Handle, TypeOK
  <2>2. pc[t] = "active" /\ p \in Infos(t) /\ v # None
    BY <1>3, MappedIsActive, SubscribeAssumption DEF Handle
  <2>3. pending'[t] = pending[t] \ {p}
    BY <1>3 DEF Handle, TypeOK
  <2>4. cache'[t][p] = v /\ \A q \in Path \ {p} : cache'[t][q] = cache[t][q]
    BY <2>1 DEF TypeOK
  <2>5. /\ told'[t] = told[t] /\ v \in had'[t][p] /\ view'[t][p] \in had'[t][p]
        /\ told[t] \/ view'[t][p] = v
        /\ \A q \in Path \ {p} : view'[t][q] = view[t][q]
        /\ \A q \in Path : had[t][q] \subseteq had'[t][q]
    <3>1. CASE v = cache[t][p] /\ UNCHANGED clientVars
      BY <1>0, <2>2, <3>1 DEF PInv, Sent, ToSend, clientVars
    <3>2. CASE Send(t, p, v, syncDone[t], FALSE)
      BY <3>2 DEF Send, TypeOK
    <3> QED
      BY <2>1, <3>1, <3>2
  <2>6. /\ synced[t] => synced'[t]
        /\ synced'[t] /\ ~told'[t] => syncDone[t]
    <3>1. synced[t] /\ ~told[t] => syncDone[t]
      BY <1>0 DEF PInv, First
    <3>2. CASE UNCHANGED clientVars
      BY <3>1, <3>2 DEF clientVars
    <3>3. CASE Send(t, p, v, syncDone[t], FALSE)
      <4>1. /\ synced'[t] = (synced[t] \/ syncDone[t])
            /\ told'[t] = (told[t] \/ FALSE)
        BY <3>3 DEF Send, TypeOK
      <4> QED
        <5>1. synced[t] => synced'[t]
          BY <4>1, Zenon
        <5>2. synced'[t] /\ ~told'[t] => (synced[t] \/ syncDone[t]) /\ ~told[t]
          BY <4>1, Zenon
        <5> QED
          BY <3>1, <5>1, <5>2
    <3> QED
      BY <2>1, <3>2, <3>3
  <2>7. Infos(t)' = Infos(t) /\ Added(t)' = Added(t) /\ Begun(t)' = Begun(t)
    BY <1>0 DEF Infos, Added, Begun
  <2>8. Stages(t)' /\ Maps(t)'
    BY <1>0, <2>7 DEF PInv, Stages, Maps
  <2>9. First(t)'
    <3>1. \A i \in 1..sent[t] :
            arr[t][i] \in Path /\ (told[t] \/ view[t][arr[t][i]] # None)
      BY <1>0 DEF PInv, First, TypeOK
    <3>2. told'[t] \/ \A i \in 1..sent[t] : view'[t][arr[t][i]] # None
      BY <2>2, <2>5, <3>1
    <3> QED
      BY <1>0, <2>2, <2>6, <3>2 DEF PInv, First
  <2>10. Sent(t)'
    BY <1>0, <2>2, <2>4, <2>5, <2>7 DEF PInv, Sent, ToSend
  <2>11. Noticed(t)'
    <3>1. arr[t] # <<>> => arr[t][1] \in Path
      BY DEF TypeOK
    <3> QED
      BY <1>0, <2>2, <2>5, <3>1 DEF PInv, Noticed, ToSend
  <2>12. Fresh(t)'
    <3>1. faults' = 0 => faults = 0 /\ v = content[p]
      BY <2>1 DEF Reads, TypeOK
    <3> QED
      BY <1>0, <2>3, <2>4, <2>5, <2>7, <3>1 DEF PInv, Fresh
  <2> QED
    BY <2>8, <2>9, <2>10, <2>11, <2>12 DEF PInv
<1> QED
  BY <1>1, <1>2, <1>3

(* A channel that ends was not open.                                       *)
LEMMA ChannelEndsKeeps ==
  ASSUME TypeOK, IInv, NEW s \in Sub, NEW d \in Db, ChannelEnds(s, d),
         NEW t \in Sub
  PROVE  PInv(t)'
<1>0. UNCHANGED <<content, pc, cur, sDBs, arr, sent, syncDone, mapped, cache,
                  pending, view, synced, told, had, notice, faults>>
  BY DEF ChannelEnds, setupVars, clientVars
<1>1. CASE t # s
  BY <1>0, <1>1, Frame DEF IInv, TypeOK, ChannelEnds
<1>2. CASE t = s
  <2>1. /\ conn[t][d] = "closed" /\ conn'[t][d] # "notice"
        /\ \A e \in Db \ {d} : conn'[t][e] = conn[t][e]
    BY <1>2 DEF ChannelEnds, TypeOK
  <2>2. PInv(t) /\ Begun(t) \subseteq Db
    BY DEF IInv, TypeOK, Begun
  <2>3. Infos(t)' = Infos(t) /\ Added(t)' = Added(t) /\ Begun(t)' = Begun(t)
    BY <1>0 DEF Infos, Added, Begun
  <2>4. Stages(t)' /\ Maps(t)' /\ First(t)' /\ Sent(t)'
    BY <1>0, <2>2, <2>3 DEF PInv, Stages, Maps, First, Sent, ToSend
  <2>5. Noticed(t)'
    BY <1>0, <2>1, <2>2 DEF PInv, Noticed, ToSend
  <2>6. Fresh(t)'
    BY <1>0, <2>1, <2>2, <2>3 DEF PInv, Fresh
  <2> QED
    BY <2>4, <2>5, <2>6 DEF PInv
<1> QED
  BY <1>1, <1>2

(* The handler of an error finds the database in cleanupMap and the value  *)
(* in the cache.                                                           *)
LEMMA ErrorReadsKeeps ==
  ASSUME TypeOK, IInv, NEW s \in Sub, NEW d \in Db, ErrorReads(s, d),
         NEW t \in Sub
  PROVE  PInv(t)'
<1>0. UNCHANGED <<content, pc, cur, sDBs, arr, sent, syncDone, mapped, cache,
                  pending, view, synced, told, had, faults>>
  BY DEF ErrorReads, setupVars, clientVars
<1>1. CASE t # s
  <2>1. conn'[t] = conn[t] /\ notice'[t] = notice[t]
    BY <1>1 DEF ErrorReads, TypeOK
  <2> QED
    BY <1>0, <2>1, Frame DEF IInv
<1>2. CASE t = s
  <2>1. conn[t][d] = "error" /\ \A e \in Db \ {d} : conn'[t][e] = conn[t][e]
    BY <1>2 DEF ErrorReads, TypeOK
  <2>2. PInv(t) /\ Begun(t) \subseteq Db
    BY DEF IInv, TypeOK, Begun
  <2>3. Infos(t)' = Infos(t) /\ Added(t)' = Added(t) /\ Begun(t)' = Begun(t)
    BY <1>0 DEF Infos, Added, Begun
  <2>4. Stages(t)' /\ Maps(t)' /\ First(t)' /\ Sent(t)'
    BY <1>0, <2>2, <2>3 DEF PInv, Stages, Maps, First, Sent, ToSend
  <2>5. Fresh(t)'
    BY <1>0, <2>1, <2>2, <2>3 DEF PInv, Fresh
  <2>6. \A e \in Db \ {d} : notice'[t][e] = notice[t][e]
    BY <1>2 DEF ErrorReads, TypeOK
  <2>7. ASSUME conn'[t][d] = "notice"
        PROVE  /\ d \in sDBs[t] /\ arr[t] # <<>>
               /\ notice'[t][d].val = cache[t][arr[t][1]]
               /\ notice'[t][d].sync = syncDone[t]
    BY <1>2, <2>1, <2>7 DEF ErrorReads, TypeOK
  <2>8. Noticed(t)'
    <3>1. arr[t] # <<>> => arr[t][1] \in Path
      BY DEF TypeOK
    <3> QED
      BY <1>0, <2>1, <2>2, <2>6, <2>7, <3>1 DEF PInv, Noticed, Sent, ToSend
  <2> QED
    BY <2>4, <2>5, <2>8 DEF PInv
<1> QED
  BY <1>1, <1>2

(* What it sends may be older than what the client has, and the client is  *)
(* told that the subscription is over.                                     *)
LEMMA ErrorSendsKeeps ==
  ASSUME TypeOK, IInv, NEW s \in Sub, NEW d \in Db, ErrorSends(s, d),
         NEW t \in Sub
  PROVE  PInv(t)'
<1>0. UNCHANGED <<content, pc, cur, sDBs, arr, sent, syncDone, mapped, cache,
                  pending, faults>>
  BY DEF ErrorSends, setupVars
<1>1. PICK sync \in {notice[s][d].sync, syncDone[s]} :
        Send(s, arr[s][1], notice[s][d].val, sync, TRUE)
  BY DEF ErrorSends
<1>2. CASE t # s
  <2>1. /\ conn'[t] = conn[t] /\ notice'[t] = notice[t] /\ view'[t] = view[t]
        /\ synced'[t] = synced[t] /\ told'[t] = told[t] /\ had'[t] = had[t]
    BY <1>1, <1>2 DEF ErrorSends, Send, TypeOK
  <2> QED
    BY <1>0, <2>1, Frame DEF IInv
<1>3. CASE t = s
  <2> DEFINE q == arr[t][1]
             v == notice[t][d].val
  <2>1. /\ conn[t][d] = "notice" /\ conn'[t][d] = "done"
        /\ \A e \in Db \ {d} : /\ conn'[t][e] = conn[t][e]
                                /\ notice'[t][e] = notice[t][e]
    BY <1>3 DEF ErrorSends, TypeOK
  <2>2. PInv(t) /\ Begun(t) \subseteq Db
    BY DEF IInv, TypeOK, Begun
  <2>3. /\ d \in sDBs[t] /\ arr[t] # <<>> /\ q \in Path
        /\ sync => syncDone[t]
    BY <1>1, <1>3, <2>1, <2>2 DEF PInv, Noticed, TypeOK
  <2>4. /\ view'[t] = [view[t] EXCEPT ![q] = v]
        /\ had'[t] = [had[t] EXCEPT ![q] = @ \cup {v}]
        /\ synced'[t] = (synced[t] \/ sync) /\ told'[t] = (told[t] \/ TRUE)
    BY <1>1, <1>3 DEF Send, TypeOK
  <2>5. /\ told'[t] /\ view'[t][q] = v /\ had'[t][q] = had[t][q] \cup {v}
        /\ \A p \in Path \ {q} : view'[t][p] = view[t][p] /\ had'[t][p] = had[t][p]
    <3>1. view[t] \in [Path -> Payload \cup {None}] /\ DOMAIN had[t] = Path
      BY DEF TypeOK
    <3>2. told'[t]
      BY <2>4, Zenon
    <3> HIDE DEF v
    <3> QED
      BY <2>3, <2>4, <3>1, <3>2
  <2>6. Infos(t)' = Infos(t) /\ Added(t)' = Added(t) /\ Begun(t)' = Begun(t)
    BY <1>0 DEF Infos, Added, Begun
  <2>7. Stages(t)' /\ Maps(t)'
    BY <1>0, <2>2, <2>6 DEF PInv, Stages, Maps
  <2>8. First(t)'
    <3>1. synced[t] => synced'[t]
      BY <2>4, Zenon
    <3>2. pc[t] # "new"
      BY <2>2, <2>3 DEF PInv, Stages
    <3> QED
      BY <1>0, <2>2, <2>5, <3>1, <3>2 DEF PInv, First
  <2>9. Sent(t)'
    BY <1>0, <2>2, <2>5, <2>6 DEF PInv, Sent, ToSend
  <2>10. Noticed(t)'
    BY <1>0, <2>1, <2>2, <2>3, <2>5 DEF PInv, Noticed, ToSend
  <2>11. Fresh(t)'
    <3>1. ~(faults = 0 /\ pc[t] \in Live)
      BY <2>1, <2>2, <2>3 DEF PInv, Fresh, Begun
    <3> QED
      BY <1>0, <3>1 DEF Fresh
  <2> QED
    BY <2>7, <2>8, <2>9, <2>10, <2>11 DEF PInv
<1> QED
  BY <1>2, <1>3

(* A stop empties the maps.                                                *)
LEMMA StopHandlerKeeps ==
  ASSUME TypeOK, IInv, NEW s \in Sub, StopHandler(s), NEW t \in Sub
  PROVE  PInv(t)'
<1>1. CASE t # s
  BY <1>1, Frame DEF IInv, TypeOK, StopHandler, cleanup, Goto, clientVars
<1>2. CASE t = s
  <2>1. /\ pc[t] = "active" /\ pc'[t] = "stopped"
        /\ UNCHANGED <<content, cur, sDBs, arr, sent, syncDone, cache, pending,
                       view, synced, told, had, notice, faults>>
    BY <1>2 DEF StopHandler, Goto, TypeOK, clientVars
  <2>2. PInv(t)
    BY DEF IInv
  <2>3. mapped'[t] = {}
    BY <1>2, <2>1, <2>2, CleanupEmpties DEF StopHandler
  <2>4. Infos(t)' = Infos(t) /\ Added(t)' = Added(t)
    BY <2>1 DEF Infos, Added
  <2>5. Stages(t)'
    BY <2>1, <2>2 DEF PInv, Stages, Full
  <2>6. Maps(t)'
    BY <2>1, <2>2, <2>3, <2>4 DEF PInv, Maps, Live, SetUp
  <2>7. First(t)'
    BY <2>1, <2>2 DEF PInv, First, Full
  <2>8. \A d \in Db : conn'[t][d] = "notice" => conn[t][d] = "notice"
    BY <1>2 DEF StopHandler, cleanup, TypeOK
  <2>9. Sent(t)' /\ Noticed(t)' /\ Fresh(t)'
    BY <2>1, <2>2, <2>4, <2>8
       DEF PInv, Sent, Noticed, ToSend, Fresh, Live, SetUp
  <2> QED
    BY <2>5, <2>6, <2>7, <2>9 DEF PInv
<1> QED
  BY <1>1, <1>2

-----------------------------------------------------------------------------
(* The databases and the client.                                           *)

(* A change of a path that was read leaves a notification.                 *)
LEMMA ChangeKeeps ==
  ASSUME TypeOK, IInv, NEW p \in Path, NEW v \in Payload, Change(p, v),
         NEW t \in Sub
  PROVE  PInv(t)'
<1>1. UNCHANGED <<pc, cur, sDBs, arr, sent, syncDone, mapped, cache, conn,
                  view, synced, told, had, notice, faults>>
  BY DEF Change, setupVars, clientVars
<1>2. PInv(t)
  BY DEF IInv
<1>3. Infos(t)' = Infos(t) /\ Added(t)' = Added(t) /\ Begun(t)' = Begun(t)
  BY <1>1 DEF Infos, Added, Begun
<1>4. Stages(t)' /\ Maps(t)' /\ First(t)' /\ Sent(t)' /\ Noticed(t)'
  BY <1>1, <1>2, <1>3 DEF PInv, Stages, Maps, First, Sent, Noticed, ToSend
<1>5. Fresh(t)'
  <2>1. content'[p] = v /\ \A q \in Path \ {p} : content'[q] = content[q]
    BY DEF Change, TypeOK
  <2>2. pending[t] \subseteq pending'[t]
    BY DEF Change, TypeOK
  <2>3. (\E d \in Db : p \in PathsAt(t, d) /\ conn[t][d] = "open") => p \in pending'[t]
    BY DEF Change
  <2>4. Added(t) \subseteq Begun(t) /\ Begun(t) \subseteq Db
    BY DEF Added, Begun, TypeOK
  <2>5. ASSUME faults = 0, pc[t] \in Live, cache[t][p] # None
        PROVE  p \in pending'[t]
    <3>1. PICK d \in Added(t) : p \in PathsAt(t, d)
      BY <1>2, <2>5 DEF PInv, Sent, Maps
    <3>2. conn[t][d] = "open" /\ d \in Db
      BY <1>2, <2>4, <2>5 DEF PInv, Fresh
    <3> QED
      BY <2>3, <3>1, <3>2
  <2> QED
    BY <1>1, <1>2, <1>3, <2>1, <2>2, <2>5 DEF PInv, Fresh
<1> QED
  BY <1>4, <1>5 DEF PInv

(* A lost connection is a fault.                                           *)
LEMMA LoseConnectionKeeps ==
  ASSUME TypeOK, IInv, NEW s \in Sub, NEW d \in Db, LoseConnection(s, d),
         NEW t \in Sub
  PROVE  PInv(t)'
<1>1. /\ UNCHANGED <<content, pc, cur, sDBs, arr, sent, syncDone, mapped,
                     cache, view, synced, told, had, notice>>
      /\ faults' # 0
  BY DEF LoseConnection, setupVars, clientVars, TypeOK
<1>2. PInv(t)
  BY DEF IInv
<1>3. Infos(t)' = Infos(t) /\ Added(t)' = Added(t) /\ Begun(t)' = Begun(t)
  BY <1>1 DEF Infos, Added, Begun
<1>4. Stages(t)' /\ Maps(t)' /\ First(t)' /\ Sent(t)'
  BY <1>1, <1>2, <1>3 DEF PInv, Stages, Maps, First, Sent, ToSend
<1>5. Noticed(t)'
  <2>1. \A e \in Db : conn'[t][e] = "notice" => conn[t][e] = "notice"
    BY DEF LoseConnection, TypeOK
  <2> QED
    BY <1>1, <1>2, <2>1 DEF PInv, Noticed, ToSend
<1>6. Fresh(t)'
  BY <1>1 DEF Fresh
<1> QED
  BY <1>4, <1>5, <1>6 DEF PInv

-----------------------------------------------------------------------------
(* The theorems.                                                           *)

(* Every step keeps the invariant.                                         *)
LEMMA InvNext == TypeOK /\ IInv /\ [Next]_vars => IInv'
<1> SUFFICES ASSUME TypeOK, IInv, [Next]_vars PROVE IInv'
  OBVIOUS
<1>1. InRange' /\ Exclusive'
  BY RangeNext, ExclusiveNext DEF IInv
<1>2. ASSUME NEW t \in Sub PROVE PInv(t)'
  <2>1. CASE UNCHANGED vars
    BY <2>1, Frame DEF IInv, vars, setupVars, clientVars
  <2>2. ASSUME NEW s \in Sub, Setup(s) PROVE PInv(t)'
    BY <2>2, ListenKeeps, RecordKeeps, AppendInfoKeeps, ReadFirstKeeps,
       SendFirstKeeps, SubscribedKeeps DEF Setup
  <2>3. ASSUME NEW s \in Sub, NEW d \in Db, Receiver(s, d) PROVE PInv(t)'
    BY <2>3, PathsArePaths, HandleKeeps, ChannelEndsKeeps, ErrorReadsKeeps,
       ErrorSendsKeeps DEF Receiver
  <2>4. ASSUME NEW s \in Sub, Stop(s) PROVE PInv(t)'
    BY <2>4, Frame DEF IInv, Stop, setupVars, clientVars
  <2> QED
    BY <2>1, <2>2, <2>3, <2>4, BeginKeeps, ListenFailsKeeps, StopHandlerKeeps,
       ChangeKeeps, LoseConnectionKeeps DEF Next
<1> QED
  BY <1>1, <1>2 DEF IInv

(* The maps, nInfoArr, the cache and what was sent belong together at      *)
(* every moment of a subscription.                                         *)
THEOREM MapsAreRight == Spec => []IInv
<1>1. Init => IInv
  BY InvInit
<1>2. TypeOK /\ IInv /\ [Next]_vars => IInv'
  BY InvNext
<1> QED
  BY <1>1, <1>2, TypeCorrect, PTL DEF Spec

(* nInfoArr of a subscription that has all its databases has its paths.    *)
LEMMA FullHasPaths ==
  ASSUME NEW s \in Sub, PInv(s), pc[s] \in Full, NEW p \in PathsOf(s)
  PROVE  p \in Path /\ p \in Infos(s)
<1>1. PICK d \in Db : p \in PathsAt(s, d)
  BY DEF PathsOf
<1>2. p \in Path
  BY <1>1, PathsArePaths
<1>3. d \in DbsOf(s)
  BY <1>1, SubscribeAssumption DEF PathsAt, DbsOf
<1>4. d \in Added(s)
  BY <1>3 DEF PInv, Stages, Added, Full
<1> QED
  BY <1>1, <1>2, <1>4 DEF PInv, Maps

(* Every path of nInfoArr has been sent when all have been counted.        *)
LEMMA AllSent ==
  ASSUME TypeOK, NEW s \in Sub, PInv(s), sent[s] = Len(arr[s]), ~told[s],
         NEW p \in Infos(s)
  PROVE  view[s][p] # None
<1>1. PICK i \in 1..Len(arr[s]) : p = arr[s][i]
  BY DEF Infos, Elements, TypeOK
<1> QED
  BY <1>1 DEF PInv, First

(* No change is lost while a subscription is up.                           *)
THEOREM NoChangeIsLost == Spec => []NothingMissed
<1>1. TypeOK /\ IInv => NothingMissed
  <2> SUFFICES ASSUME TypeOK, IInv, NEW s \in Sub, pc[s] = "active", faults = 0,
                      NEW p \in PathsOf(s)
               PROVE  view[s][p] = content[p] \/ p \in pending[s]
    BY DEF NothingMissed
  <2>1. PInv(s) /\ p \in Path /\ p \in Infos(s)
    BY FullHasPaths DEF IInv, Full
  <2>2. ~told[s] /\ view[s][p] # None
    BY <2>1, AllSent DEF PInv, First, Fresh, Live
  <2>3. view[s][p] = cache[s][p]
    BY <2>1, <2>2 DEF PInv, Sent, ToSend
  <2> QED
    BY <2>1, <2>2, <2>3 DEF PInv, Fresh, Live
<1> QED
  BY <1>1, TypeCorrect, MapsAreRight, PTL

(* SyncComplete comes when every path has been sent.                       *)
THEOREM SyncMeansComplete == Spec => []SyncIsComplete
<1>1. TypeOK /\ IInv => SyncIsComplete
  <2> SUFFICES ASSUME TypeOK, IInv, NEW s \in Sub, synced[s], ~told[s],
                      NEW p \in PathsOf(s)
               PROVE  view[s][p] # None
    BY DEF SyncIsComplete
  <2>1. PInv(s)
    BY DEF IInv
  <2>2. pc[s] \in Full /\ sent[s] = Len(arr[s])
    BY <2>1 DEF PInv, First
  <2> QED
    BY <2>1, <2>2, FullHasPaths, AllSent
<1> QED
  BY <1>1, TypeCorrect, MapsAreRight, PTL

(* A client that stopped gets no SyncComplete and no value but the notice  *)
(* of a connection that broke, which repeats one it had.                   *)
THEOREM StoppedIsQuiet == Spec => QuietAfterStop
<1> DEFINE Quiet(t) ==
             /\ synced'[t] = synced[t]
             /\ \/ view'[t] = view[t]
                \/ /\ \E d \in Db : conn[t][d] = "notice" /\ conn'[t][d] = "done"
                   /\ \A p \in Path : view'[t][p] \in had[t][p]
           Quiets == \A t \in Sub : pc[t] \in {"stopped", "failed"} => Quiet(t)
<1>1. TypeOK /\ IInv /\ [Next]_vars => [Quiets]_vars
  <2> SUFFICES ASSUME TypeOK, IInv, Next, NEW t \in Sub,
                      pc[t] \in {"stopped", "failed"}
               PROVE  Quiet(t)
    OBVIOUS
  <2>1. PInv(t)
    BY DEF IInv
  <2>2. CASE UNCHANGED clientVars
    BY <2>2 DEF clientVars
  <2>3. ASSUME NEW s \in Sub, SendFirst(s) PROVE Quiet(t)
    BY <2>3 DEF SendFirst, Send, Goto, TypeOK
  <2>4. ASSUME NEW s \in Sub, NEW p \in Path, Handle(s, p) PROVE Quiet(t)
    <3>1. CASE t = s
      <4>1. mapped[t] = {}
        BY <2>1 DEF PInv, Maps, Live, SetUp
      <4> QED
        BY <2>4, <3>1, <4>1 DEF Handle, clientVars
    <3>2. CASE t # s
      BY <2>4, <3>2 DEF Handle, Send, TypeOK, clientVars
    <3> QED
      BY <3>1, <3>2
  <2>5. ASSUME NEW s \in Sub, NEW d \in Db, ErrorSends(s, d) PROVE Quiet(t)
    <3>1. PICK sync \in {notice[s][d].sync, syncDone[s]} :
            Send(s, arr[s][1], notice[s][d].val, sync, TRUE)
      BY <2>5 DEF ErrorSends
    <3>2. CASE t # s
      BY <3>1, <3>2 DEF Send, TypeOK
    <3>3. CASE t = s
      <4> DEFINE q == arr[t][1]
                 v == notice[t][d].val
      <4>1. conn[t][d] = "notice" /\ conn'[t][d] = "done"
        BY <2>5, <3>3 DEF ErrorSends, TypeOK
      <4>2. q \in Path /\ v \in had[t][q] /\ (sync => syncDone[t])
        BY <2>1, <3>1, <3>3, <4>1 DEF PInv, Noticed, ToSend, TypeOK
      <4>3. /\ view'[t] = [view[t] EXCEPT ![q] = v]
            /\ synced'[t] = (synced[t] \/ sync)
        BY <3>1, <3>3 DEF Send, TypeOK
      <4>4. \A p \in Path : view'[t][p] \in had[t][p]
        BY <2>1, <4>2, <4>3 DEF PInv, Sent, TypeOK
      <4>5. synced'[t] = synced[t]
        <5>1. syncDone[t] => synced[t]
          BY <2>1 DEF PInv, First, Full
        <5>2. synced[t] \in BOOLEAN /\ (sync => synced[t])
          BY <4>2, <5>1 DEF TypeOK
        <5>3. CASE synced[t]
          BY <4>3, <5>2, <5>3
        <5>4. CASE ~synced[t]
          BY <4>3, <5>2, <5>4
        <5> QED
          BY <5>3, <5>4
      <4> QED
        BY <4>1, <4>4, <4>5
    <3> QED
      BY <3>2, <3>3
  <2>6. ASSUME NEW s \in Sub,
               \/ Begin(s) \/ ListenFails(s) \/ Record(s) \/ AppendInfo(s)
               \/ ReadFirst(s) \/ Subscribed(s) \/ Stop(s) \/ StopHandler(s)
               \/ \E d \in Db : \/ Listen(s, d) \/ LoseConnection(s, d)
                               \/ ChannelEnds(s, d) \/ ErrorReads(s, d)
        PROVE  UNCHANGED clientVars
    BY <2>6 DEF Begin, Listen, ListenFails, Record, AppendInfo, ReadFirst,
                Subscribed, Stop, StopHandler, LoseConnection, ChannelEnds,
                ErrorReads
  <2>7. ASSUME NEW p \in Path, NEW v \in Payload, Change(p, v)
        PROVE  UNCHANGED clientVars
    BY <2>7 DEF Change
  <2> HIDE DEF Quiet
  <2> QED
    BY <2>2, <2>3, <2>4, <2>5, <2>6, <2>7, PathsArePaths
       DEF Next, Setup, Receiver
<1>2. [Quiets]_vars => [\A s \in Sub : pc[s] \in {"stopped", "failed"} =>
       /\ synced'[s] = synced[s]
       /\ \/ view'[s] = view[s]
          \/ /\ \E d \in Db : conn[s][d] = "notice" /\ conn'[s][d] = "done"
             /\ \A p \in Path : view'[s][p] \in had[s][p]]_vars
  OBVIOUS
<1> QED
  BY <1>1, <1>2, TypeCorrect, MapsAreRight, PTL DEF Spec, QuietAfterStop
=============================================================================
