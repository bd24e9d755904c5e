----------------------------- MODULE CvlSession -----------------------------
(***************************************************************************)
(* A CVL validation session (src/cvl): one table whose entries others      *)
(* refer to by leafrefs, and the tables that refer to it, in the key of a  *)
(* row or in a field.                                                      *)
(*                                                                         *)
(* The client is a DB object inside a transaction: doCVL sends one new     *)
(* item at a time, after the items accepted before, and an application may *)
(* go on after a refusal.  The accepted items are what the transaction     *)
(* writes.  No other writer interferes: what happens when one does is the  *)
(* subject of DBTx.  The items have the right syntax, and no must or when  *)
(* expression and no custom validation applies to them.  The two items of  *)
(* SetEntry on an existing row are sent one after the other.               *)
(*                                                                         *)
(* A leafref may be the leaf of a key, a leaf, or a leaf-list.  Redis has  *)
(* a leaf-list f as a field "f@" with its items between commas; one item   *)
(* of each is modelled.                                                    *)
(***************************************************************************)
EXTENDS Integers, Sequences, FiniteSets

CONSTANTS Ent,       \* keys of the table that is referred to
          Row,       \* keys of the tables that refer to it
          Table,     \* those tables
          TableOf,   \* the table of a row
          Field,     \* fields that are leafrefs
          LeafList,  \* those of them that are leaf-lists
          FieldsOf,  \* those of each table
          Key,       \* the leaf of a key that is a leafref
          KeyRef,    \* the entry a row's key refers to, or None
          Matches,   \* the entries k for which the key matches *k*
          Contains,  \* the entries k for which the key contains |k
          None,      \* no reference
          Blank,     \* "", which SetEntry gives a field it deletes
          Absent,    \* no such row
          Unread,    \* the size of the table has not been read
          Limit,     \* max-elements of the table that is referred to
          Stores,    \* what Redis may hold at first
          Given,     \* the values the application gives a row
          MaxItems   \* bound: items in a session

Id     == Ent \cup Row
Value  == [Field -> Ent \cup {None}]
NoRefs == [f \in Field |-> None]
Store  == [Id -> Value \cup {Absent}]
Fields == [Field -> Ent \cup {None, Blank}]
Item   == [op : {"CREATE", "UPDATE"}, key : Id, data : Value]
          \cup [op : {"DELETE"}, key : Id, data : Fields]

(* A row has only the fields of its table.                                 *)
Fits(r, v) == \A f \in Field \ FieldsOf[TableOf[r]] : v[f] = None

ASSUME CvlAssumption ==
  /\ IsFiniteSet(Ent)
  /\ Ent \cap Row = {}
  /\ LeafList \subseteq Field
  /\ None \notin Ent /\ Blank \notin Ent \cup {None} /\ Absent \notin Value
  /\ Unread \notin Int
  /\ TableOf \in [Row -> Table]
  /\ FieldsOf \in [Table -> SUBSET Field] /\ Key \notin Field
  /\ KeyRef \in [Row -> Ent \cup {None}]
  /\ Matches \in [Row -> SUBSET Ent] /\ Contains \in [Row -> SUBSET Ent]
  /\ \A r \in Row : KeyRef[r] # None => KeyRef[r] \in Contains[r]
  /\ \A r \in Row : Contains[r] \subseteq Matches[r]
  /\ Limit \in Nat
  /\ Stores \subseteq Store
  /\ Given \in [Id -> SUBSET Value]
  /\ \A k \in Ent : Given[k] = {NoRefs}
  /\ \A r \in Row : \A v \in Given[r] : Fits(r, v)
  /\ \A s \in Stores, r \in Row : s[r] # Absent => Fits(r, s[r])
  /\ \A s \in Stores, k \in Ent : s[k] \in {NoRefs, Absent}

VARIABLES store,         \* Redis
          after,         \* Redis as the accepted items will leave it
          cfgData,       \* the accepted items, d.cvlEditConfigData
          requestCache,  \* the items of the session, by key
          tree,          \* c.yv.root: the rows of the YANG tree
          maxTableElem,  \* the count of Ent
          panicked,      \* the request ended in a panic
          refused        \* history: keys of refused items

session == <<cfgData, requestCache, tree, maxTableElem, panicked, refused>>
vars == <<store, after, session>>

CvlTypeOK ==
  /\ store \in Store /\ after \in Store
  /\ cfgData \subseteq Item
  /\ requestCache \in [Id -> Seq(Item)]
  /\ tree \in Store
  /\ maxTableElem \in Nat \cup {Unread}
  /\ panicked \in BOOLEAN
  /\ refused \subseteq Id

(* ValidationSessOpen.                                                     *)
Fresh ==
  /\ cfgData = {}
  /\ requestCache = [x \in Id |-> <<>>]
  /\ tree = [x \in Id |-> Absent]
  /\ maxTableElem = Unread
  /\ panicked = FALSE
  /\ refused = {}

Init == store \in Stores /\ after = store /\ Fresh

Present(s) == {x \in Id : s[x] # Absent}
Size(s)    == Cardinality(Ent \cap Present(s))

(* What the row r refers to when its fields are v.                         *)
KeyRefs(r)  == IF r \in Row THEN {KeyRef[r]} \ {None} ELSE {}
Refs(r, v)  == KeyRefs(r) \cup ({v[f] : f \in Field} \ {None})

(* The fields of old with those of new over them.                          *)
Over(old, new) ==
  IF old = Absent THEN new
  ELSE [f \in Field |-> IF new[f] # None THEN new[f] ELSE old[f]]

(* What the commands of an item do.                                        *)
Without(v, data) == [f \in Field |-> IF data[f] # None THEN None ELSE v[f]]
WrittenRow(s, i) ==
  IF i.op # "DELETE" THEN Over(s[i.key], i.data)
  ELSE IF i.data = NoRefs \/ s[i.key] = Absent THEN Absent
  ELSE Without(s[i.key], i.data)
Written(s, i) == [s EXCEPT ![i.key] = WrittenRow(s, i)]

-----------------------------------------------------------------------------
(* cvl_syntax.go: max-elements.                                            *)

CurSize == IF maxTableElem = Unread THEN Size(store) ELSE maxTableElem

Whole(i) == i.op = "DELETE" /\ i.data = NoRefs

(* As if the count could go below zero.                                    *)
CountDown_below(n) == n - 1

(* As if a DELETE did not lower the count.                                 *)
CountDown_not(n) == n

CountDown(n) == IF n > 0 THEN n - 1 ELSE n

(* The count with the item i.                                              *)
checkMaxElemConstraint(i) ==
  IF i.key \in Row THEN maxTableElem
  ELSE IF Whole(i) THEN CountDown(CurSize)
  ELSE IF i.op = "CREATE" THEN IF CurSize >= Limit THEN CurSize
                               ELSE CurSize + 1
  ELSE maxTableElem

TooMany(i) == i.op = "CREATE" /\ i.key \in Ent /\ CurSize >= Limit

-----------------------------------------------------------------------------
(* cvl_semantics.go: may an entry be deleted?                              *)

(* One leaf of each table that may refer to the entry; of several, the one *)
(* that comes first in the iteration of a map.                             *)
LeafRefs(t) ==
  FieldsOf[t] \cup (IF \E r \in Row : TableOf[r] = t /\ KeyRef[r] # None
                    THEN {Key} ELSE {})
findUsedAsLeafRef ==
  {p \in [Table -> Field \cup {Key}] : \A t \in Table : p[t] \in LeafRefs(t)}

(* The data of an item and the hashes of Redis have a leaf-list by another *)
(* name than the YANG model, so no value is found by it.                   *)
HasField(leaf) == leaf \in Field \ LeafList

(* An item accepted earlier deletes a row of t that refers to k.           *)
checkDeleteInRequestCache(t, leaf, k) ==
  \E i \in cfgData :
    /\ i.op = "DELETE"
    /\ \/ i.key \in Row /\ TableOf[i.key] = t /\ k \in Contains[i.key]
       \/ HasField(leaf) /\ i.data[leaf] = k

(* As if only the keys of the rows were searched.                          *)
find_key_noField(t, leaf, k) ==
  {r \in Row : TableOf[r] = t /\ store[r] # Absent /\ k \in Matches[r]}

(* The rows of t whose key or field holds k.                               *)
find_key(t, leaf, k) ==
  {r \in Row : /\ TableOf[r] = t /\ store[r] # Absent
               /\ \/ k \in Matches[r]
                  \/ HasField(leaf) /\ store[r][leaf] = k}

(* As if rows deleted in the same session counted.                         *)
checkDeleteConstraint_noCache(p, k) ==
  \A t \in Table : find_key(t, p[t], k) = {}

checkDeleteConstraint(p, k) ==
  \A t \in Table :
    checkDeleteInRequestCache(t, p[t], k) \/ find_key(t, p[t], k) = {}

-----------------------------------------------------------------------------
(* The YANG tree, and what the rows in it refer to.                        *)

(* cvl_cache.go: the row that an UPDATE or DELETE adds: the fields of the  *)
(* first CREATE or UPDATE of the session, those of an UPDATE over the row  *)
(* in Redis.                                                               *)
Earlier(asked) == {n \in DOMAIN asked : asked[n].op # "DELETE"}
fetchDataToTmpCache(x, asked) ==
  IF Earlier(asked) = {} THEN store[x]
  ELSE LET i == asked[CHOOSE n \in Earlier(asked) :
                        \A m \in Earlier(asked) : n <= m]
       IN  IF i.op = "CREATE" THEN i.data
           ELSE IF store[x] = Absent THEN Absent
           ELSE Over(store[x], i.data)

(* translateToYang, then validateSyntax: the row of i, merged into the     *)
(* tree.                                                                   *)
Merged(i, asked) ==
  LET row == Over(tree[i.key], IF i.op = "DELETE" THEN NoRefs ELSE i.data)
      dep == fetchDataToTmpCache(i.key, asked)
  IN  IF i.op = "CREATE" \/ dep = Absent THEN row ELSE Over(row, dep)

(* The only entry of the tree is returned whatever its key.                *)
Nodes == {x \in Ent : tree[x] # Absent}
findYangList(k) == IF Cardinality(Nodes) = 1 THEN Nodes ELSE Nodes \cap {k}

(* As if only Redis were asked.                                            *)
Found_inRedis(k) == store[k] # Absent

Found(k) ==
  store[k] # Absent \/ requestCache[k] # <<>> \/ findYangList(k) # {}

(* As if the key were not looked at.                                       *)
validateLeafRef_fields(r, v) == \A k \in Refs(r, v) \ KeyRefs(r) : Found(k)

validateLeafRef(r, v) == \A k \in Refs(r, v) : Found(k)

(* When several entries are searched and none has the key, the search goes *)
(* on behind the last one: a nil dereference.                              *)
Overruns(r, v) == Cardinality(Nodes) > 1 /\ ~validateLeafRef(r, v)

(* The row must exist, or not; a CREATE may follow a DELETE.               *)
KeyOK(i, asked) ==
  IF i.op = "CREATE"
  THEN store[i.key] = Absent \/ \E n \in DOMAIN asked : asked[n].op = "DELETE"
  ELSE store[i.key] # Absent

-----------------------------------------------------------------------------
(* ValidateEditConfig, and what doCVL and doWrite do with the answer.  The *)
(* item is cached before it is checked.  A panic ends the request: its DB  *)
(* is deleted, and AbortTx is the only step left.                          *)

Accept(i) ==
  /\ cfgData' = cfgData \cup {i}
  /\ after' = Written(after, i)
  /\ UNCHANGED refused
Refuse(i) ==
  refused' = refused \cup {i.key} /\ UNCHANGED <<cfgData, after>>

ValidateEditConfig(i, allowed) ==
  LET asked == Append(requestCache[i.key], i)
      row   == Merged(i, asked)
      ok    == KeyOK(i, asked)
               /\ (i.op # "DELETE" => validateLeafRef(i.key, row))
  IN  /\ ~panicked
      /\ panicked' = (/\ allowed /\ KeyOK(i, asked) /\ i.op # "DELETE"
                      /\ Overruns(i.key, row))
      /\ requestCache' = [requestCache EXCEPT ![i.key] = asked]
      /\ maxTableElem' = checkMaxElemConstraint(i)
      /\ tree' = IF allowed THEN [tree EXCEPT ![i.key] = row] ELSE tree
      /\ IF allowed /\ ok THEN Accept(i) ELSE Refuse(i)
      /\ UNCHANGED store

CreateEntry(x, v) ==
  LET i == [op |-> "CREATE", key |-> x, data |-> v]
  IN  ValidateEditConfig(i, ~TooMany(i))

ModEntry(x, v) == ValidateEditConfig([op |-> "UPDATE", key |-> x, data |-> v],
                                     TRUE)

DeleteEntry(x) ==
  \E p \in findUsedAsLeafRef :
    ValidateEditConfig([op |-> "DELETE", key |-> x, data |-> NoRefs],
                       x \in Ent => checkDeleteConstraint(p, x))

(* Fields that the row has, with their values, or without them when it is  *)
(* SetEntry that deletes those it was not given; no leafref refers to a    *)
(* field of a row.                                                         *)
DeleteEntryFields(r, F) ==
  /\ store[r] # Absent /\ F # {} /\ \A f \in F : store[r][f] # None
  /\ \E set \in BOOLEAN :
       ValidateEditConfig([op   |-> "DELETE", key |-> r,
                           data |-> [f \in Field |->
                                       IF f \notin F THEN None
                                       ELSE IF set THEN Blank ELSE store[r][f]]],
                          TRUE)

Opened ==
  /\ cfgData' = {} /\ refused' = {}
  /\ requestCache' = [x \in Id |-> <<>>]
  /\ tree' = [x \in Id |-> Absent]
  /\ maxTableElem' = Unread
  /\ panicked' = FALSE

(* The transaction is written and the next one opens a session.            *)
CommitTx == ~panicked /\ store' = after /\ UNCHANGED after /\ Opened

AbortTx  == after' = store /\ UNCHANGED store /\ Opened

(* Bound: the items of a session.                                          *)
Asked == UNION {{x} \X DOMAIN requestCache[x] : x \in Id}

Next ==
  \/ /\ Cardinality(Asked) < MaxItems
     /\ \/ \E x \in Id : \E v \in Given[x] : CreateEntry(x, v) \/ ModEntry(x, v)
        \/ \E x \in Id : DeleteEntry(x)
        \/ \E r \in Row : \E F \in SUBSET Field : DeleteEntryFields(r, F)
  \/ CommitTx
  \/ AbortTx

Spec == Init /\ [][Next]_vars

-----------------------------------------------------------------------------
(* Properties.                                                             *)

Holds(r, s) == s[r] # Absent => \A k \in Refs(r, s[r]) : s[k] # Absent
RefsHold(s) == \A r \in Row : Holds(r, s)

(* Each row is named once and no entry they refer to, or the other way     *)
(* round.                                                                  *)
RowsOnly ==
  /\ \A k \in Ent : requestCache[k] = <<>>
  /\ \A r \in Row : Len(requestCache[r]) <= 1
EntsOnly == \A r \in Row : requestCache[r] = <<>>

(* The leaf by which a row refers to entries is the only one of its table, *)
(* so that findUsedAsLeafRef finds it, and no leaf-list, so that find_key  *)
(* does.                                                                   *)
Seen(r) == \A l, m \in LeafRefs(TableOf[r]) : l = m /\ l \notin LeafList

(* A session that names each row once and no entry, items refused or not,  *)
(* leaves no reference to an entry that does not exist; one that names     *)
(* entries only, with any number of items for each, leaves none in a row   *)
(* that its checks can see.                                                *)
ReferencesHold ==
  \A r \in Row :
    Holds(r, store) /\ (RowsOnly \/ (EntsOnly /\ Seen(r))) => Holds(r, after)

Ops(k) == [n \in DOMAIN requestCache[k] |-> requestCache[k][n].op]

(* The items of k are accepted and come in an order in which each finds    *)
(* the row as the others leave it: UPDATEs, or a DELETE, a CREATE, or a    *)
(* DELETE and a CREATE.                                                    *)
Orderly(k) ==
  /\ k \notin refused
  /\ LET ops == Ops(k)
     IN  \/ \A n \in DOMAIN ops : ops[n] = "UPDATE"
         \/ ops \in {<<"CREATE">>, <<"DELETE">>, <<"DELETE", "CREATE">>}

(* In a session whose items for the table are orderly the count is that of *)
(* the rows there will be, and they stay within the limit.                 *)
CountIsExact ==
  (\A k \in Ent : Orderly(k)) =>
    /\ maxTableElem # Unread => maxTableElem = Size(after)
    /\ Size(store) <= Limit => Size(after) <= Limit

(* What the item may do to the rows the accepted items leave.              *)
Legal(i) ==
  LET s == Written(after, i)
  IN  /\ (i.op = "CREATE") <=> (after[i.key] = Absent)
      /\ RefsHold(s)
      /\ Size(s) <= Limit

(* The rows that name k, in their key or in a field, refer to it with      *)
(* their key.                                                              *)
NamedByKey(k) ==
  \A r \in Row :
    /\ store[r] # Absent
    /\ k \in Matches[r] \/ \E f \in Field \ LeafList : store[r][f] = k
    => KeyRef[r] = k

(* A refusal in a session where none was refused before and no key comes   *)
(* twice, except that an entry is made anew, is that of an illegal item.   *)
OnlyIllegalRefused ==
  \A x \in refused' \ refused :
    LET i == requestCache'[x][Len(requestCache'[x])]
    IN  /\ refused = {} /\ RefsHold(store)
        /\ \A y \in Id : /\ Len(requestCache'[y]) <= 1 \/ Ops(y) = <<"DELETE">>
                         /\ Orderly(y)
        /\ i.op # "CREATE" => requestCache[x] = <<>>
        /\ Whole(i) /\ x \in Ent => NamedByKey(x)
        => ~Legal(i)

(* Sessions build and take down an entry with its rows: no item is refused *)
(* that is legal after the items accepted before it.                       *)
LegalIsAccepted == [][OnlyIllegalRefused]_vars

(* "Return failure if none of the leafref exists" (validateLeafRef): when  *)
(* no item was refused, what is written refers to what will exist.         *)
NoDangling == RefsHold(store) /\ refused = {} => RefsHold(after)
=============================================================================
