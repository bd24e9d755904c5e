--------------------------- MODULE CvlSessionProofs ---------------------------
(***************************************************************************)
(* What a validation session promises, proved for any tables, rows and     *)
(* number of items.                                                        *)
(***************************************************************************)
EXTENDS CvlSession, FiniteSetTheorems, WellFoundedInduction, TLAPS

(* The call for the item i, by its outcome: accepted; refused when the     *)
(* tree is checked; refused before it gets there.                          *)
Asking(i) == Append(requestCache[i.key], i)
Passes(i) == /\ KeyOK(i, Asking(i))
             /\ i.op # "DELETE" => validateLeafRef(i.key, Merged(i, Asking(i)))
Asks(i)   == /\ requestCache' = [requestCache EXCEPT ![i.key] = Asking(i)]
             /\ maxTableElem' = checkMaxElemConstraint(i)
             /\ panicked' \in BOOLEAN
             /\ UNCHANGED store
Adds(i)   == tree' = [tree EXCEPT ![i.key] = Merged(i, Asking(i))]

Unused(k) == \E p \in findUsedAsLeafRef : checkDeleteConstraint(p, k)
InUse(k)  == \E p \in findUsedAsLeafRef : ~checkDeleteConstraint(p, k)

Barred(i)   == Asks(i) /\ UNCHANGED tree /\ Refuse(i) /\
               \/ i.op = "CREATE" /\ TooMany(i)
               \/ i.op = "DELETE" /\ i.key \in Ent /\ InUse(i.key)
Accepted(i) == Asks(i) /\ Adds(i) /\ Passes(i) /\ Accept(i)
                 /\ (i.op = "CREATE" => ~TooMany(i))
                 /\ (i.op = "DELETE" /\ i.key \in Ent => Unused(i.key))
Rejected(i) == Asks(i) /\ Adds(i) /\ ~Passes(i) /\ Refuse(i)

(* The items the application sends.                                        *)
Proper(i) == /\ i \in Item
             /\ i.key \in Ent => i.data = NoRefs
             /\ i.key \in Row => Fits(i.key, i.data)

LEMMA NoRefsIsValue == NoRefs \in Value
  BY DEF NoRefs, Value

LEMMA ValueIsFields == Value \subseteq Fields
  BY DEF Value, Fields

LEMMA ItemTypes ==
  ASSUME NEW i \in Item
  PROVE  /\ i.key \in Id /\ i.op \in {"CREATE", "UPDATE", "DELETE"}
         /\ i.data \in Fields
         /\ i.op # "DELETE" => i.data \in Value
  BY ValueIsFields DEF Item

LEMMA NoRefsFits == \A r \in Row : Fits(r, NoRefs)
  BY DEF Fits, NoRefs

(* A step is one of these, or the end of a session.                        *)
LEMMA Steps ==
  ASSUME Next, store \in Store, \A r \in Row : store[r] # Absent => Fits(r, store[r])
  PROVE  \/ \E i \in Item : Proper(i) /\ (Barred(i) \/ Accepted(i) \/ Rejected(i))
         \/ CommitTx
         \/ AbortTx
<1>1. ASSUME NEW x \in Id, NEW v \in Given[x], CreateEntry(x, v)
      PROVE  \E i \in Item : Proper(i) /\ (Barred(i) \/ Accepted(i) \/ Rejected(i))
  <2> DEFINE i == [op |-> "CREATE", key |-> x, data |-> v]
  <2>1. v \in Value
    BY CvlAssumption
  <2>2. Proper(i)
    BY <2>1, CvlAssumption DEF Proper, Item
  <2>3. i \in Item
    BY <2>2 DEF Proper
  <2>4. ValidateEditConfig(i, ~TooMany(i))
    BY <1>1 DEF CreateEntry
  <2>5. i.op = "CREATE"
    OBVIOUS
  <2> HIDE DEF i
  <2>6. Barred(i) \/ Accepted(i) \/ Rejected(i)
    BY <2>4, <2>5 DEF ValidateEditConfig, Barred, Accepted, Rejected, Asks, Adds,
                      Passes, Asking
  <2> QED
    BY <2>2, <2>3, <2>6
<1>2. ASSUME NEW x \in Id, NEW v \in Given[x], ModEntry(x, v)
      PROVE  \E i \in Item : Proper(i) /\ (Barred(i) \/ Accepted(i) \/ Rejected(i))
  <2> DEFINE i == [op |-> "UPDATE", key |-> x, data |-> v]
  <2>1. v \in Value
    BY CvlAssumption
  <2>2. Proper(i)
    BY <2>1, CvlAssumption DEF Proper, Item
  <2>3. i \in Item
    BY <2>2 DEF Proper
  <2>4. ValidateEditConfig(i, TRUE)
    BY <1>2 DEF ModEntry
  <2>5. i.op = "UPDATE"
    OBVIOUS
  <2> HIDE DEF i
  <2>6. Barred(i) \/ Accepted(i) \/ Rejected(i)
    BY <2>4, <2>5 DEF ValidateEditConfig, Barred, Accepted, Rejected, Asks, Adds,
                      Passes, Asking
  <2> QED
    BY <2>2, <2>3, <2>6
<1>3. ASSUME NEW x \in Id, DeleteEntry(x)
      PROVE  \E i \in Item : Proper(i) /\ (Barred(i) \/ Accepted(i) \/ Rejected(i))
  <2> DEFINE i == [op |-> "DELETE", key |-> x, data |-> NoRefs]
  <2>2. Proper(i)
    BY NoRefsIsValue, ValueIsFields, NoRefsFits DEF Proper, Item
  <2>3. i \in Item
    BY <2>2 DEF Proper
  <2>4. PICK p \in findUsedAsLeafRef :
          ValidateEditConfig(i, x \in Ent => checkDeleteConstraint(p, x))
    BY <1>3 DEF DeleteEntry
  <2>5. i.op = "DELETE" /\ i.key = x
    OBVIOUS
  <2> HIDE DEF i
  <2>6. CASE x \in Ent => checkDeleteConstraint(p, x)
    <3>1. i.key \in Ent => Unused(i.key)
      BY <2>5, <2>6 DEF Unused
    <3>2. Accepted(i) \/ Rejected(i)
      BY <2>4, <2>5, <2>6, <3>1 DEF ValidateEditConfig, Accepted, Rejected, Asks,
                                    Adds, Passes, Asking
    <3> QED
      BY <2>2, <2>3, <3>2
  <2>7. CASE x \in Ent /\ ~checkDeleteConstraint(p, x)
    <3>1. i.key \in Ent /\ InUse(i.key)
      BY <2>5, <2>7 DEF InUse
    <3>2. Barred(i)
      BY <2>4, <2>5, <2>7, <3>1 DEF ValidateEditConfig, Barred, Asks, Asking
    <3> QED
      BY <2>2, <2>3, <3>2
  <2> QED
    BY <2>6, <2>7
<1>4. ASSUME NEW r \in Row, NEW F \in SUBSET Field, DeleteEntryFields(r, F)
      PROVE  \E i \in Item : Proper(i) /\ (Barred(i) \/ Accepted(i) \/ Rejected(i))
  <2>0. PICK set \in BOOLEAN :
          ValidateEditConfig([op   |-> "DELETE", key |-> r,
                              data |-> [f \in Field |->
                                          IF f \notin F THEN None
                                          ELSE IF set THEN Blank ELSE store[r][f]]],
                             TRUE)
    BY <1>4 DEF DeleteEntryFields
  <2> DEFINE data == [f \in Field |-> IF f \notin F THEN None
                                     ELSE IF set THEN Blank ELSE store[r][f]]
             i == [op |-> "DELETE", key |-> r, data |-> data]
  <2>1. r \in Id /\ store[r] \in Value
    BY <1>4 DEF DeleteEntryFields, Store, Id
  <2>2. data \in Fields /\ Fits(r, data)
    BY <1>4, <2>1 DEF DeleteEntryFields, Value, Fields, Fits
  <2>3. Proper(i)
    BY <2>1, <2>2, CvlAssumption DEF Proper, Item
  <2>4. i \in Item
    BY <2>3 DEF Proper
  <2>5. ValidateEditConfig(i, TRUE)
    BY <2>0
  <2>6. i.op = "DELETE" /\ i.key \notin Ent
    BY CvlAssumption
  <2> HIDE DEF i
  <2>7. Barred(i) \/ Accepted(i) \/ Rejected(i)
    BY <2>5, <2>6 DEF ValidateEditConfig, Barred, Accepted, Rejected, Asks, Adds,
                      Passes, Asking
  <2> QED
    BY <2>3, <2>4, <2>7
<1> QED
  BY <1>1, <1>2, <1>3, <1>4 DEF Next

-----------------------------------------------------------------------------
(* Types.                                                                  *)

Row0 == Value \cup {Absent}

LEMMA OverTypes ==
  ASSUME NEW old \in Row0, NEW new \in Value
  PROVE  Over(old, new) \in Value
  BY DEF Over, Row0, Value

LEMMA WithoutTypes ==
  ASSUME NEW v \in Value, NEW data
  PROVE  Without(v, data) \in Value
  BY DEF Without, Value

LEMMA WrittenTypes ==
  ASSUME NEW s \in Store, NEW i \in Item
  PROVE  Written(s, i) \in Store /\ WrittenRow(s, i) \in Row0
<1>1. /\ i.key \in Id /\ s[i.key] \in Row0
      /\ i.op # "DELETE" => i.data \in Value
  BY ItemTypes DEF Store, Row0
<1>2. WrittenRow(s, i) \in Row0
  BY <1>1, OverTypes, WithoutTypes DEF WrittenRow, Row0
<1> QED
  BY <1>1, <1>2 DEF Written, Store, Row0

Below == {ss \in Nat \X Nat : ss[1] < ss[2]}

(* The first CREATE or UPDATE of a session is one.                         *)
LEMMA EarlierFirst ==
  ASSUME NEW asked \in Seq(Item), Earlier(asked) # {}
  PROVE  (CHOOSE n \in Earlier(asked) : \A m \in Earlier(asked) : n <= m)
           \in Earlier(asked)
<1>1. Earlier(asked) \subseteq Nat
  BY DEF Earlier
<1>2. IsWellFoundedOn(Below, Nat)
  BY NatLessThanWellFounded DEF OpToRel, Below
<1>3. PICK n \in Earlier(asked) : \A m \in Earlier(asked) : ~(<<m, n>> \in Below)
  BY <1>1, <1>2, WFMin
<1>4. ASSUME NEW m \in Earlier(asked) PROVE n <= m
  <2>1. n \in Nat /\ m \in Nat
    BY <1>1
  <2>2. m < n => <<m, n>> \in Below
    BY <2>1 DEF Below
  <2> QED
    BY <1>3, <2>1, <2>2
<1> QED
  BY <1>4

LEMMA MergedTypes ==
  ASSUME CvlTypeOK, NEW i \in Item, NEW asked \in Seq(Item)
  PROVE  /\ fetchDataToTmpCache(i.key, asked) \in Row0
         /\ Merged(i, asked) \in Value
<1>1. /\ i.key \in Id /\ store[i.key] \in Row0 /\ tree[i.key] \in Row0
      /\ i.op # "DELETE" => i.data \in Value
  BY ItemTypes DEF CvlTypeOK, Store, Row0
<1>2. fetchDataToTmpCache(i.key, asked) \in Row0
  <2>1. CASE Earlier(asked) = {}
    BY <1>1, <2>1 DEF fetchDataToTmpCache
  <2>2. CASE Earlier(asked) # {}
    <3> DEFINE n == CHOOSE n \in Earlier(asked) : \A m \in Earlier(asked) : n <= m
    <3>1. n \in DOMAIN asked /\ asked[n].op # "DELETE"
      BY <2>2, EarlierFirst DEF Earlier
    <3> HIDE DEF n
    <3>2. asked[n].data \in Value
      <4>1. asked[n] \in Item
        BY <3>1
      <4> QED
        BY <3>1, <4>1, ItemTypes
    <3>3. Over(store[i.key], asked[n].data) \in Value
      BY <1>1, <3>2, OverTypes
    <3> QED
      BY <1>1, <2>2, <3>2, <3>3 DEF fetchDataToTmpCache, Row0, n
  <2> QED
    BY <2>1, <2>2
<1>3. Over(tree[i.key], IF i.op = "DELETE" THEN NoRefs ELSE i.data) \in Value
  BY <1>1, OverTypes, NoRefsIsValue
<1>4. Merged(i, asked) \in Value
  <2> DEFINE row == Over(tree[i.key], IF i.op = "DELETE" THEN NoRefs ELSE i.data)
             dep == fetchDataToTmpCache(i.key, asked)
  <2>1. CASE i.op = "CREATE" \/ dep = Absent
    BY <1>3, <2>1 DEF Merged
  <2>2. CASE ~(i.op = "CREATE" \/ dep = Absent)
    <3>1. row \in Row0 /\ dep \in Value
      BY <1>2, <1>3, <2>2 DEF Row0
    <3>2. Over(row, dep) \in Value
      BY <3>1, OverTypes
    <3> QED
      BY <2>2, <3>2 DEF Merged
  <2> QED
    BY <2>1, <2>2
<1> QED
  BY <1>2, <1>4

LEMMA SizeTypes ==
  ASSUME NEW s
  PROVE  /\ IsFiniteSet(Ent \cap Present(s))
         /\ Size(s) \in Nat
<1>1. IsFiniteSet(Ent \cap Present(s))
  BY CvlAssumption, FS_Subset
<1> QED
  BY <1>1, FS_CardinalityType DEF Size

LEMMA CountTypes ==
  ASSUME CvlTypeOK, NEW i
  PROVE  CurSize \in Nat /\ checkMaxElemConstraint(i) \in Nat \cup {Unread}
<1>1. CurSize \in Nat
  BY SizeTypes DEF CurSize, CvlTypeOK
<1> QED
  BY <1>1 DEF checkMaxElemConstraint, CountDown, CvlTypeOK

LEMMA TypeInit == Init => CvlTypeOK
<1> SUFFICES ASSUME Init PROVE CvlTypeOK
  OBVIOUS
<1>1. panicked \in BOOLEAN
  BY DEF Init, Fresh
<1> QED
  BY <1>1, CvlAssumption DEF Init, Fresh, CvlTypeOK, Store

(* The rows in Redis, now and afterwards, have the fields of their tables. *)
RowsFit == \A r \in Row : /\ store[r] # Absent => Fits(r, store[r])
                          /\ after[r] # Absent => Fits(r, after[r])

LEMMA OutcomeTypes ==
  ASSUME CvlTypeOK, NEW i \in Item, Barred(i) \/ Accepted(i) \/ Rejected(i)
  PROVE  CvlTypeOK'
<1>1. i.key \in Id
  BY ItemTypes
<1>2. Asking(i) \in Seq(Item)
  BY <1>1 DEF Asking, CvlTypeOK
<1>3. requestCache' \in [Id -> Seq(Item)]
  BY <1>2 DEF Barred, Accepted, Rejected, Asks, CvlTypeOK
<1>4. /\ maxTableElem' \in Nat \cup {Unread} /\ store' \in Store
      /\ panicked' \in BOOLEAN
  BY CountTypes DEF Barred, Accepted, Rejected, Asks, CvlTypeOK
<1>5. tree' \in Store
  BY <1>2, MergedTypes DEF Barred, Accepted, Rejected, Adds, CvlTypeOK, Store
<1>6. after' \in Store /\ cfgData' \subseteq Item
  BY WrittenTypes DEF Barred, Accepted, Rejected, Accept, Refuse, CvlTypeOK
<1>7. refused' \subseteq Id
  BY <1>1 DEF Barred, Accepted, Rejected, Accept, Refuse, CvlTypeOK
<1> QED
  BY <1>3, <1>4, <1>5, <1>6, <1>7 DEF CvlTypeOK

LEMMA OpenedTypes ==
  ASSUME Opened
  PROVE  /\ cfgData' \subseteq Item /\ refused' \subseteq Id
         /\ requestCache' \in [Id -> Seq(Item)]
         /\ tree' \in Store
         /\ maxTableElem' \in Nat \cup {Unread}
         /\ panicked' \in BOOLEAN
<1>1. panicked' \in BOOLEAN
  BY DEF Opened
<1> QED
  BY <1>1 DEF Opened, Store

LEMMA WrittenFits ==
  ASSUME NEW s \in Store, NEW i, Proper(i),
         \A r \in Row : s[r] # Absent => Fits(r, s[r])
  PROVE  \A r \in Row : Written(s, i)[r] # Absent => Fits(r, Written(s, i)[r])
<1> SUFFICES ASSUME NEW r \in Row, Written(s, i)[r] # Absent
             PROVE  Fits(r, Written(s, i)[r])
  OBVIOUS
<1>1. /\ i \in Item /\ r \in Id /\ s[r] \in Row0
      /\ i.op # "DELETE" => i.data \in Value
  BY ItemTypes DEF Proper, Id, Store, Row0
<1>2. CASE r # i.key
  BY <1>1, <1>2 DEF Written, Store
<1>3. CASE r = i.key
  <2>1. Written(s, i)[r] = WrittenRow(s, i)
    BY <1>1, <1>3 DEF Written, Store
  <2>2. Fits(r, i.data)
    BY <1>3 DEF Proper
  <2>3. CASE i.op # "DELETE"
    BY <1>1, <1>3, <2>1, <2>2, <2>3 DEF WrittenRow, Over, Fits
  <2>4. CASE i.op = "DELETE"
    BY <1>1, <1>3, <2>1, <2>2, <2>4 DEF WrittenRow, Without, Fits
  <2> QED
    BY <2>3, <2>4
<1> QED
  BY <1>2, <1>3

(* The session's types, and that rows keep to the fields of their tables.  *)
LEMMA Typed == Spec => [](CvlTypeOK /\ RowsFit)
<1>1. Init => CvlTypeOK /\ RowsFit
  BY TypeInit, CvlAssumption DEF Init, RowsFit
<1>2. ASSUME CvlTypeOK, RowsFit, [Next]_vars PROVE CvlTypeOK' /\ RowsFit'
  <2>1. CASE UNCHANGED vars
    BY <1>2, <2>1 DEF vars, session, CvlTypeOK, RowsFit
  <2>2. ASSUME NEW i \in Item, Proper(i), Barred(i) \/ Accepted(i) \/ Rejected(i)
        PROVE  CvlTypeOK' /\ RowsFit'
    <3>1. CvlTypeOK'
      BY <1>2, <2>2, OutcomeTypes
    <3>2. store' = store /\ (after' = after \/ after' = Written(after, i))
      BY <2>2 DEF Barred, Accepted, Rejected, Asks, Accept, Refuse
    <3>3. \A r \in Row : Written(after, i)[r] # Absent => Fits(r, Written(after, i)[r])
      BY <1>2, <2>2, WrittenFits DEF CvlTypeOK, RowsFit
    <3>4. RowsFit'
      BY <1>2, <3>2, <3>3 DEF RowsFit
    <3> QED
      BY <3>1, <3>4
  <2>3. CASE CommitTx
    BY <1>2, <2>3, OpenedTypes DEF CommitTx, CvlTypeOK, RowsFit
  <2>4. CASE AbortTx
    BY <1>2, <2>4, OpenedTypes DEF AbortTx, CvlTypeOK, RowsFit
  <2> QED
    BY <1>2, <2>1, <2>2, <2>3, <2>4, Steps DEF CvlTypeOK, RowsFit
<1> QED
  BY <1>1, <1>2, PTL DEF Spec

(* Every variable keeps its type; in particular the count of a table is    *)
(* never negative.                                                         *)
THEOREM CvlTypeCorrect == Spec => []CvlTypeOK
  BY Typed, PTL

-----------------------------------------------------------------------------
(* References.                                                             *)

(* What no item of the session names is as it was.                         *)
Untouched ==
  \A x \in Id : requestCache[x] = <<>> =>
    /\ tree[x] = Absent /\ after[x] = store[x]
    /\ \A i \in cfgData : i.key # x

EntItems == \A i \in cfgData : i.key \in Ent => i.data = NoRefs

(* While only rows are named, those there will be refer to what Redis      *)
(* holds.                                                                  *)
RowsAnchored ==
  RowsOnly =>
    \A r \in Row : Holds(r, store) /\ after[r] # Absent =>
      \A k \in Refs(r, after[r]) : store[k] # Absent

(* While only entries are named, those that go are not referred to by rows *)
(* the checks can see.                                                     *)
GoneUnused ==
  EntsOnly =>
    \A k \in Ent : store[k] # Absent /\ after[k] = Absent =>
      \A r \in Row : Seen(r) /\ store[r] # Absent => k \notin Refs(r, store[r])

LEMMA OneMore ==
  ASSUME NEW S, NEW s \in Seq(S), NEW i \in S
  PROVE  /\ Append(s, i) \in Seq(S)
         /\ Len(Append(s, i)) = Len(s) + 1
         /\ Append(s, i) # <<>>
<1> DEFINE t == Append(s, i)
<1>1. t \in Seq(S) /\ Len(t) = Len(s) + 1 /\ Len(s) \in Nat
  OBVIOUS
<1> HIDE DEF t
<1>2. t = <<>> => Len(t) = 0
  OBVIOUS
<1>3. t # <<>>
  BY <1>1, <1>2
<1> QED
  BY <1>1, <1>3 DEF t

(* The calls change nothing but what they name.                            *)
LEMMA OthersStay ==
  ASSUME CvlTypeOK, NEW i \in Item, Barred(i) \/ Accepted(i) \/ Rejected(i)
  PROVE  /\ i.key \in Id
         /\ store' = store
         /\ Asking(i) \in Seq(Item) /\ Asking(i) # <<>>
         /\ Len(Asking(i)) = Len(requestCache[i.key]) + 1
         /\ requestCache'[i.key] = Asking(i)
         /\ \A x \in Id \ {i.key} : /\ requestCache'[x] = requestCache[x]
                                    /\ tree'[x] = tree[x]
                                    /\ after'[x] = after[x]
<1>1. i.key \in Id
  BY ItemTypes
<1>2. requestCache[i.key] \in Seq(Item)
  BY <1>1 DEF CvlTypeOK
<1>3. /\ Asking(i) \in Seq(Item) /\ Asking(i) # <<>>
      /\ Len(Asking(i)) = Len(requestCache[i.key]) + 1
  BY <1>2, OneMore DEF Asking
<1>4. /\ requestCache'[i.key] = Asking(i)
      /\ \A x \in Id \ {i.key} : requestCache'[x] = requestCache[x]
  BY <1>1 DEF Barred, Accepted, Rejected, Asks, CvlTypeOK
<1>5. \A x \in Id \ {i.key} : tree'[x] = tree[x]
  BY <1>1 DEF Barred, Accepted, Rejected, Adds, CvlTypeOK, Store
<1>6. \A x \in Id \ {i.key} : after'[x] = after[x]
  BY <1>1 DEF Barred, Accepted, Rejected, Accept, Refuse, Written, CvlTypeOK, Store
<1>7. store' = store
  BY DEF Barred, Accepted, Rejected, Asks
<1> QED
  BY <1>1, <1>3, <1>4, <1>5, <1>6, <1>7

LEMMA OneItem ==
  ASSUME CvlTypeOK, NEW i \in Item, requestCache[i.key] = <<>>
  PROVE  Asking(i) = <<i>>
  BY DEF Asking

(* The only row of the tree that a first item asks about is its own, as it *)
(* would leave it.                                                         *)
LEMMA FirstMerged ==
  ASSUME CvlTypeOK, Untouched, NEW i \in Item, i.op # "DELETE",
         requestCache[i.key] = <<>>, KeyOK(i, Asking(i))
  PROVE  /\ Merged(i, Asking(i)) = Over(store[i.key], i.data)
         /\ i.op = "CREATE" => store[i.key] = Absent
<1>1. i.key \in Id /\ i.data \in Value /\ store[i.key] \in Row0
  BY ItemTypes DEF CvlTypeOK, Store, Row0
<1>2. tree[i.key] = Absent
  BY <1>1 DEF Untouched
<1>3. Over(tree[i.key], i.data) = i.data
  BY <1>2 DEF Over
<1>4. Asking(i) = <<i>>
  BY OneItem
<1>5. CASE i.op = "CREATE"
  <2>1. store[i.key] = Absent
    BY <1>4, <1>5 DEF KeyOK
  <2> QED
    BY <1>3, <1>5, <2>1 DEF Merged, Over
<1>6. CASE i.op = "UPDATE"
  <2>1. store[i.key] # Absent /\ store[i.key] \in Value
    BY <1>1, <1>6 DEF KeyOK, Row0
  <2>2. Earlier(<<i>>) = {1}
    BY <1>6 DEF Earlier
  <2>3. (CHOOSE n \in Earlier(<<i>>) : \A m \in Earlier(<<i>>) : n <= m) = 1
    BY <2>2
  <2>4. fetchDataToTmpCache(i.key, <<i>>) = Over(store[i.key], i.data)
    BY <1>6, <2>1, <2>2, <2>3 DEF fetchDataToTmpCache
  <2>5. Over(store[i.key], i.data) \in Value
    BY <1>1, OverTypes
  <2>6. Over(i.data, Over(store[i.key], i.data)) = Over(store[i.key], i.data)
    BY <1>1, <2>1, <2>5, CvlAssumption DEF Over, Value
  <2>7. Over(store[i.key], i.data) # Absent
    BY <2>5, CvlAssumption
  <2> QED
    BY <1>3, <1>4, <1>6, <2>4, <2>6, <2>7 DEF Merged
<1> QED
  BY <1>5, <1>6, ItemTypes

(* With no entry named, an entry is found when Redis has it.               *)
LEMMA FoundInRedis ==
  ASSUME Untouched, \A k \in Ent : requestCache[k] = <<>>, NEW k \in Ent, Found(k)
  PROVE  store[k] # Absent
<1>1. Nodes = {}
  BY DEF Untouched, Id, Nodes
<1>2. findYangList(k) = {}
  BY <1>1 DEF findYangList
<1> QED
  BY <1>2 DEF Found

LEMMA RefsAreEntries ==
  ASSUME NEW r \in Id, NEW v \in Value
  PROVE  Refs(r, v) \subseteq Ent
  BY CvlAssumption DEF Refs, KeyRefs, Value

LEMMA WithoutRefs ==
  ASSUME NEW r, NEW v \in Value, NEW data
  PROVE  Refs(r, Without(v, data)) \subseteq Refs(r, v)
  BY DEF Refs, Without, Value

LEMMA UntouchedNext ==
  ASSUME CvlTypeOK, Untouched, NEW i \in Item,
         Barred(i) \/ Accepted(i) \/ Rejected(i)
  PROVE  Untouched'
<1> SUFFICES ASSUME NEW x \in Id, requestCache'[x] = <<>>
             PROVE  /\ tree'[x] = Absent /\ after'[x] = store'[x]
                    /\ \A j \in cfgData' : j.key # x
  BY DEF Untouched
<1>1. x # i.key
  BY OthersStay
<1>2. cfgData' \subseteq cfgData \cup {i}
  BY DEF Barred, Accepted, Rejected, Accept, Refuse
<1> QED
  BY <1>1, <1>2, OthersStay DEF Untouched

LEMMA EntItemsNext ==
  ASSUME EntItems, NEW i \in Item, Proper(i),
         Barred(i) \/ Accepted(i) \/ Rejected(i)
  PROVE  EntItems'
  BY DEF EntItems, Proper, Barred, Accepted, Rejected, Accept, Refuse

LEMMA RowsAnchoredNext ==
  ASSUME CvlTypeOK, Untouched, RowsAnchored, NEW i \in Item, Proper(i),
         Barred(i) \/ Accepted(i) \/ Rejected(i)
  PROVE  RowsAnchored'
<1> SUFFICES ASSUME RowsOnly', NEW r \in Row, Holds(r, store'), after'[r] # Absent,
                    NEW k \in Refs(r, after'[r])
             PROVE  store'[k] # Absent
  BY DEF RowsAnchored
<1>1. store' = store /\ i.key \in Id /\ r \in Id
  BY OthersStay DEF Id
<1>2. i.key \in Row /\ requestCache[i.key] = <<>>
  <2>1. i.key \notin Ent
    BY OthersStay DEF RowsOnly
  <2>2. i.key \in Row
    BY <1>1, <2>1 DEF Id
  <2>3. Len(requestCache[i.key]) + 1 <= 1
    BY <2>2, OthersStay DEF RowsOnly
  <2>4. requestCache[i.key] \in Seq(Item)
    BY <1>1 DEF CvlTypeOK
  <2> QED
    BY <2>2, <2>3, <2>4
<1>3. RowsOnly
  <2>1. \A k2 \in Ent : k2 \in Id \ {i.key}
    BY <1>2, CvlAssumption DEF Id
  <2>2. \A k2 \in Ent : requestCache[k2] = <<>>
    BY <2>1, OthersStay DEF RowsOnly
  <2>3. \A r2 \in Row : Len(requestCache[r2]) <= 1
    BY <1>2, OthersStay DEF RowsOnly, Id
  <2> QED
    BY <2>2, <2>3 DEF RowsOnly
<1>4. CASE after'[r] = after[r]
  BY <1>1, <1>3, <1>4 DEF RowsAnchored
<1>5. CASE after'[r] # after[r]
  <2>1. r = i.key
    BY <1>1, <1>5, OthersStay
  <2>2. Accepted(i)
    BY <1>5 DEF Barred, Rejected, Refuse
  <2>3. /\ after[r] = store[r] /\ store[r] \in Row0
        /\ i.op # "DELETE" => i.data \in Value
    BY <1>1, <1>2, <2>1, ItemTypes DEF Untouched, CvlTypeOK, Store, Row0
  <2>4. after'[r] = WrittenRow(after, i)
    BY <1>1, <2>1, <2>2 DEF Accepted, Accept, Written, CvlTypeOK, Store
  <2>5. CASE i.op = "DELETE"
    <3>1. store[r] \in Value /\ after'[r] = Without(store[r], i.data)
      BY <2>1, <2>3, <2>4, <2>5 DEF WrittenRow, Row0
    <3>2. k \in Refs(r, store[r])
      BY <2>3, <3>1, WithoutRefs
    <3> QED
      BY <1>1, <3>1, <3>2, CvlAssumption DEF Holds
  <2>6. CASE i.op # "DELETE"
    <3>1. KeyOK(i, Asking(i)) /\ validateLeafRef(i.key, Merged(i, Asking(i)))
      BY <2>2, <2>6 DEF Accepted, Passes
    <3>2. Merged(i, Asking(i)) = Over(store[r], i.data)
      BY <1>2, <2>1, <2>6, <3>1, FirstMerged
    <3>3. after'[r] = Over(store[r], i.data)
      BY <2>1, <2>3, <2>4, <2>6 DEF WrittenRow
    <3>4. Over(store[r], i.data) \in Value
      BY <2>3, <2>6, OverTypes
    <3>5. k \in Ent
      BY <1>1, <3>3, <3>4, RefsAreEntries
    <3>6. Found(k)
      BY <2>1, <3>1, <3>2, <3>3 DEF validateLeafRef
    <3> QED
      BY <1>1, <1>3, <3>5, <3>6, FoundInRedis DEF RowsOnly
  <2> QED
    BY <2>5, <2>6
<1> QED
  BY <1>4, <1>5

(* A row of Redis that refers to k is found, when it refers to entries by  *)
(* one leaf only, which is no leaf-list.                                   *)
LEMMA ReferrerFound ==
  ASSUME CvlTypeOK, RowsFit, NEW p \in findUsedAsLeafRef,
         NEW r \in Row, Seen(r), store[r] # Absent, NEW k \in Ent, k \in Refs(r, store[r])
  PROVE  r \in find_key(TableOf[r], p[TableOf[r]], k)
<1>1. TableOf[r] \in Table /\ p[TableOf[r]] \in LeafRefs(TableOf[r])
  BY CvlAssumption DEF findUsedAsLeafRef
<1>2. CASE KeyRef[r] = k
  <2>1. k \in Matches[r]
    BY <1>2, CvlAssumption
  <2> QED
    BY <2>1 DEF find_key
<1>3. CASE KeyRef[r] # k
  <2>1. PICK f \in Field : store[r][f] = k
    BY <1>3 DEF Refs, KeyRefs
  <2>2. f \in FieldsOf[TableOf[r]]
    BY <2>1, CvlAssumption DEF RowsFit, Fits
  <2>3. f \in LeafRefs(TableOf[r])
    BY <2>2 DEF LeafRefs
  <2>4. f = p[TableOf[r]] /\ f \notin LeafList
    BY <1>1, <2>3 DEF Seen
  <2> QED
    BY <2>1, <2>4 DEF find_key, HasField
<1> QED
  BY <1>2, <1>3

LEMMA GoneUnusedNext ==
  ASSUME CvlTypeOK, RowsFit, Untouched, EntItems, GoneUnused,
         NEW i \in Item, Proper(i), Barred(i) \/ Accepted(i) \/ Rejected(i)
  PROVE  GoneUnused'
<1> SUFFICES ASSUME EntsOnly', NEW k \in Ent, store'[k] # Absent, after'[k] = Absent,
                    NEW r \in Row, Seen(r), store'[r] # Absent
             PROVE  k \notin Refs(r, store'[r])
  BY DEF GoneUnused, Seen, LeafRefs
<1>1. store' = store /\ i.key \in Id /\ k \in Id
  BY OthersStay DEF Id
<1>2. i.key \in Ent
  BY <1>1, OthersStay DEF EntsOnly, Id
<1>3. EntsOnly
  <2>1. \A r2 \in Row : r2 \in Id \ {i.key}
    BY <1>2, CvlAssumption DEF Id
  <2> QED
    BY <2>1, OthersStay DEF EntsOnly
<1>4. CASE after'[k] = after[k]
  BY <1>1, <1>3, <1>4 DEF GoneUnused
<1>5. CASE after'[k] # after[k]
  <2>1. k = i.key
    BY <1>1, <1>5, OthersStay
  <2>2. Accepted(i)
    BY <1>5 DEF Barred, Rejected, Refuse
  <2>3. /\ after'[k] = WrittenRow(after, i) /\ after[k] \in Row0
        /\ i.op # "DELETE" => i.data \in Value
    BY <1>1, <2>1, <2>2, ItemTypes DEF Accepted, Accept, Written, CvlTypeOK, Store, Row0
  <2>4. i.op = "DELETE"
    BY <2>1, <2>3, OverTypes, CvlAssumption DEF WrittenRow
  <2>5. PICK p \in findUsedAsLeafRef : checkDeleteConstraint(p, k)
    BY <1>2, <2>1, <2>2, <2>4 DEF Accepted, Unused
  <2>6. TableOf[r] \in Table
    BY CvlAssumption
  <2>7. ~checkDeleteInRequestCache(TableOf[r], p[TableOf[r]], k)
    <3>1. \A j \in cfgData : j.key \in Ent
      BY <1>3, ItemTypes DEF Untouched, EntsOnly, CvlTypeOK, Id
    <3>2. \A j \in cfgData : j.key \notin Row /\ j.data = NoRefs
      BY <3>1, CvlAssumption DEF EntItems
    <3>3. \A f \in Field : NoRefs[f] # k
      BY CvlAssumption DEF NoRefs
    <3> QED
      BY <3>2, <3>3 DEF checkDeleteInRequestCache, HasField
  <2>8. find_key(TableOf[r], p[TableOf[r]], k) = {}
    BY <2>5, <2>6, <2>7 DEF checkDeleteConstraint
  <2> QED
    BY <1>1, <2>8, ReferrerFound
<1> QED
  BY <1>4, <1>5

RefInv == Untouched /\ EntItems /\ RowsAnchored /\ GoneUnused

LEMMA RefInit == Init => RefInv
  BY CvlAssumption
     DEF Init, Fresh, RefInv, Untouched, EntItems, RowsAnchored, GoneUnused, Holds

(* A new session has named nothing yet.                                    *)
LEMMA RefOpened ==
  ASSUME Opened, after' = store'
  PROVE  RefInv'
<1>1. Untouched' /\ EntItems'
  BY DEF Opened, Untouched, EntItems
<1>2. RowsAnchored'
  BY DEF RowsAnchored, Holds
<1>3. GoneUnused'
  BY DEF GoneUnused
<1> QED
  BY <1>1, <1>2, <1>3 DEF RefInv

LEMMA RefNext ==
  ASSUME CvlTypeOK, RowsFit, RefInv, [Next]_vars
  PROVE  RefInv'
<1>1. CASE UNCHANGED vars
  BY <1>1 DEF vars, session, RefInv, Untouched, EntItems, RowsAnchored, RowsOnly,
              Holds, GoneUnused, EntsOnly, Seen
<1>2. ASSUME NEW i \in Item, Proper(i), Barred(i) \/ Accepted(i) \/ Rejected(i)
      PROVE  RefInv'
  BY <1>2, UntouchedNext, EntItemsNext, RowsAnchoredNext, GoneUnusedNext DEF RefInv
<1>3. CASE CommitTx
  BY <1>3, RefOpened DEF CommitTx
<1>4. CASE AbortTx
  BY <1>4, RefOpened DEF AbortTx
<1> QED
  BY <1>1, <1>2, <1>3, <1>4, Steps DEF CvlTypeOK, RowsFit

LEMMA RefCorrect == Spec => [](CvlTypeOK /\ RefInv)
<1>1. CvlTypeOK /\ RowsFit /\ RefInv /\ [Next]_vars => RefInv'
  BY RefNext
<1> QED
  BY <1>1, RefInit, Typed, PTL DEF Spec

(* A session that stays on one side of the leafrefs leaves none without    *)
(* its entry, in any row when it names rows, in a row that its checks can  *)
(* see when it deletes entries.                                            *)
THEOREM ReferencesAreKept == Spec => []ReferencesHold
<1>1. CvlTypeOK /\ RefInv => ReferencesHold
  <2> SUFFICES ASSUME CvlTypeOK, RefInv, NEW r \in Row, Holds(r, store),
                      RowsOnly \/ (EntsOnly /\ Seen(r)),
                      after[r] # Absent, NEW k \in Refs(r, after[r])
               PROVE  after[k] # Absent
    BY DEF ReferencesHold, Holds
  <2>1. r \in Id /\ after[r] \in Value
    BY DEF CvlTypeOK, Store, Id
  <2>2. k \in Ent /\ k \in Id
    BY <2>1, RefsAreEntries DEF Id
  <2>3. CASE RowsOnly
    BY <2>2, <2>3 DEF RefInv, RowsAnchored, Untouched, RowsOnly
  <2>4. CASE EntsOnly /\ Seen(r)
    <3>1. after[r] = store[r]
      BY <2>1, <2>4 DEF RefInv, Untouched, EntsOnly
    <3>2. store[k] # Absent
      BY <3>1 DEF Holds
    <3> QED
      BY <2>2, <2>4, <3>1, <3>2 DEF RefInv, GoneUnused
  <2> QED
    BY <2>3, <2>4
<1> QED
  BY <1>1, RefCorrect, PTL

-----------------------------------------------------------------------------
(* The number of entries.                                                  *)

OpsOf(s) == [n \in DOMAIN s |-> s[n].op]

AllUpdates(s) == \A n \in DOMAIN s : s[n].op = "UPDATE"
MakesAnew(s)  == OpsOf(s) \in {<<"CREATE">>, <<"DELETE", "CREATE">>}
Removes(s)    == OpsOf(s) = <<"DELETE">>

LEMMA OrderlyIs ==
  ASSUME NEW k
  PROVE  Orderly(k) <=>
           k \notin refused /\ (\/ AllUpdates(requestCache[k])
                                \/ MakesAnew(requestCache[k])
                                \/ Removes(requestCache[k]))
  BY DEF Orderly, Ops, OpsOf, AllUpdates, MakesAnew, Removes

LEMMA OpsLength ==
  ASSUME NEW s \in Seq(Item)
  PROVE  /\ Removes(s) => Len(s) = 1 /\ s[1].op = "DELETE"
         /\ OpsOf(s) = <<"CREATE">> => Len(s) = 1 /\ s[1].op = "CREATE"
         /\ OpsOf(s) = <<"DELETE", "CREATE">> =>
              Len(s) = 2 /\ s[1].op = "DELETE" /\ s[2].op = "CREATE"
<1> DEFINE o == OpsOf(s)
<1>1. Len(s) \in Nat /\ DOMAIN o = 1..Len(s) /\ \A n \in 1..Len(s) : o[n] = s[n].op
  BY DEF OpsOf
<1>2. o \in Seq({"CREATE", "UPDATE", "DELETE"})
  <2>1. \A n \in 1..Len(s) : s[n] \in Item
    OBVIOUS
  <2>2. \A n \in 1..Len(s) : s[n].op \in {"CREATE", "UPDATE", "DELETE"}
    BY <2>1 DEF Item
  <2> QED
    BY <1>1, <2>2 DEF OpsOf
<1>3. Len(o) = Len(s)
  BY <1>1, <1>2
<1> HIDE DEF o
<1>4. o = <<"DELETE">> => Len(o) = 1 /\ o[1] = "DELETE"
  OBVIOUS
<1>5. o = <<"CREATE">> => Len(o) = 1 /\ o[1] = "CREATE"
  OBVIOUS
<1>6. o = <<"DELETE", "CREATE">> => Len(o) = 2 /\ o[1] = "DELETE" /\ o[2] = "CREATE"
  OBVIOUS
<1>7. /\ o = <<"DELETE">> => Len(s) = 1 /\ s[1].op = "DELETE"
      /\ o = <<"CREATE">> => Len(s) = 1 /\ s[1].op = "CREATE"
      /\ o = <<"DELETE", "CREATE">> =>
           Len(s) = 2 /\ s[1].op = "DELETE" /\ s[2].op = "CREATE"
  BY <1>1, <1>3, <1>4, <1>5, <1>6
<1> QED
  BY <1>7 DEF o, Removes

(* What came before an orderly item was orderly, and what it left.         *)
LEMMA OrderlyBefore ==
  ASSUME NEW s \in Seq(Item), NEW i \in Item
  PROVE  /\ AllUpdates(Append(s, i)) => AllUpdates(s) /\ i.op = "UPDATE"
         /\ Removes(Append(s, i)) => s = <<>> /\ i.op = "DELETE"
         /\ MakesAnew(Append(s, i)) => (s = <<>> \/ Removes(s)) /\ i.op = "CREATE"
<1> DEFINE t == Append(s, i)
<1>1. /\ Len(s) \in Nat /\ DOMAIN s = 1..Len(s)
      /\ t \in Seq(Item) /\ Len(t) = Len(s) + 1 /\ DOMAIN t = 1..(Len(s) + 1)
      /\ t[Len(s) + 1] = i
      /\ \A n \in 1..Len(s) : t[n] = s[n]
  OBVIOUS
<1> HIDE DEF t
<1>2. AllUpdates(t) => AllUpdates(s) /\ i.op = "UPDATE"
  BY <1>1 DEF AllUpdates
<1>3. Len(s) = 0 => s = <<>>
  OBVIOUS
<1>4. ASSUME Removes(t) PROVE s = <<>> /\ i.op = "DELETE"
  BY <1>1, <1>3, <1>4, OpsLength
<1>5. ASSUME OpsOf(t) = <<"CREATE">> PROVE s = <<>> /\ i.op = "CREATE"
  BY <1>1, <1>3, <1>5, OpsLength
<1>6. ASSUME OpsOf(t) = <<"DELETE", "CREATE">> PROVE Removes(s) /\ i.op = "CREATE"
  <2>1. Len(t) = 2 /\ t[1].op = "DELETE" /\ t[2].op = "CREATE"
    BY <1>1, <1>6, OpsLength
  <2>2. Len(s) = 1 /\ s[1].op = "DELETE" /\ i.op = "CREATE"
    BY <1>1, <2>1
  <2>3. OpsOf(s) = <<"DELETE">>
    BY <1>1, <2>2 DEF OpsOf
  <2> QED
    BY <2>2, <2>3 DEF Removes
<1> QED
  BY <1>2, <1>4, <1>5, <1>6 DEF t, MakesAnew

(* What the orderly items for an entry leave of it.                        *)
LeavesEnt(k) ==
  LET s == requestCache[k]
  IN  k \notin refused =>
        /\ AllUpdates(s) => (after[k] # Absent <=> store[k] # Absent)
        /\ Removes(s) => store[k] # Absent /\ after[k] = Absent
        /\ MakesAnew(s) => after[k] # Absent

UnreadIsUpdates ==
  maxTableElem = Unread => \A k \in Ent : AllUpdates(requestCache[k])

CountInv == (\A k \in Ent : LeavesEnt(k)) /\ UnreadIsUpdates /\ CountIsExact

(* One entry more or less.                                                 *)
LEMMA OneMoreEnt ==
  ASSUME NEW s \in Store, NEW t \in Store, NEW k \in Ent,
         s[k] = Absent, t[k] # Absent, \A x \in Ent \ {k} : t[x] = s[x]
  PROVE  Size(t) = Size(s) + 1
<1> DEFINE S == Ent \cap Present(s)
           T == Ent \cap Present(t)
<1>1. T = S \cup {k} /\ k \notin S
  BY DEF Present, Id
<1>2. IsFiniteSet(S)
  BY SizeTypes
<1>3. Cardinality(S \cup {k}) = Cardinality(S) + 1
  BY <1>1, <1>2, FS_AddElement
<1> QED
  BY <1>1, <1>3 DEF Size

LEMMA SameEnts ==
  ASSUME NEW s \in Store, NEW t \in Store,
         \A x \in Ent : s[x] # Absent <=> t[x] # Absent
  PROVE  Size(t) = Size(s)
<1>1. Ent \cap Present(t) = Ent \cap Present(s)
  BY DEF Present, Id
<1> QED
  BY <1>1 DEF Size

(* The orderly items so far make the count, read or not, the right one.    *)
LEMMA CurSizeIsExact ==
  ASSUME CvlTypeOK, CountInv, \A k \in Ent : Orderly(k)
  PROVE  CurSize = Size(after)
<1>1. CASE maxTableElem # Unread
  BY <1>1 DEF CountInv, CountIsExact, CurSize
<1>2. CASE maxTableElem = Unread
  <2>1. \A k \in Ent : after[k] # Absent <=> store[k] # Absent
    BY <1>2, OrderlyIs DEF CountInv, UnreadIsUpdates, LeavesEnt
  <2>2. Size(after) = Size(store)
    BY <2>1, SameEnts DEF CvlTypeOK
  <2> QED
    BY <1>2, <2>2 DEF CurSize
<1> QED
  BY <1>1, <1>2

(* A call that does not refuse its item was accepted, and says so.         *)
LEMMA NotRefused ==
  ASSUME NEW i \in Item, Barred(i) \/ Accepted(i) \/ Rejected(i)
  PROVE  /\ refused \subseteq refused'
         /\ i.key \notin refused' => Accepted(i)
  BY DEF Barred, Accepted, Rejected, Accept, Refuse

LEMMA LeavesEntNext ==
  ASSUME CvlTypeOK, CountInv, NEW i \in Item, Proper(i),
         Barred(i) \/ Accepted(i) \/ Rejected(i), NEW k \in Ent
  PROVE  LeavesEnt(k)'
<1> DEFINE s == requestCache[k]
           t == requestCache'[k]
<1>1. k \in Id /\ store' = store
  BY OthersStay DEF Id
<1>2. CASE k # i.key
  <2>1. t = s /\ after'[k] = after[k]
    BY <1>1, <1>2, OthersStay
  <2> QED
    BY <1>1, <2>1, NotRefused DEF CountInv, LeavesEnt
<1>3. CASE k = i.key
  <2> SUFFICES ASSUME k \notin refused'
               PROVE  /\ AllUpdates(t) => (after'[k] # Absent <=> store[k] # Absent)
                      /\ Removes(t) => store[k] # Absent /\ after'[k] = Absent
                      /\ MakesAnew(t) => after'[k] # Absent
    BY <1>1 DEF LeavesEnt
  <2>1. s \in Seq(Item) /\ t = Append(s, i)
    BY <1>1, <1>3, OthersStay DEF CvlTypeOK, Asking
  <2>2. Accepted(i)
    BY <1>3, NotRefused
  <2>3. /\ KeyOK(i, Asking(i)) /\ after[k] \in Row0
        /\ i.op # "DELETE" => i.data \in Value
    BY <1>1, <2>2, ItemTypes DEF Accepted, Passes, CvlTypeOK, Store, Row0
  <2>4. after'[k] = WrittenRow(after, i)
    BY <1>1, <1>3, <2>2 DEF Accepted, Accept, Written, CvlTypeOK, Store
  <2>5. ASSUME i.op # "DELETE" PROVE after'[k] # Absent
    BY <1>3, <2>3, <2>4, <2>5, OverTypes, CvlAssumption DEF WrittenRow
  <2>6. ASSUME i.op = "DELETE" PROVE after'[k] = Absent
    BY <1>3, <2>4, <2>6 DEF WrittenRow, Proper
  <2>7. ASSUME i.op # "CREATE" PROVE store[k] # Absent
    BY <1>3, <2>3, <2>7 DEF KeyOK
  <2> HIDE DEF s, t
  <2>8. /\ AllUpdates(t) => AllUpdates(s) /\ i.op = "UPDATE"
        /\ Removes(t) => s = <<>> /\ i.op = "DELETE"
        /\ MakesAnew(t) => (s = <<>> \/ Removes(s)) /\ i.op = "CREATE"
    BY <2>1, OrderlyBefore
  <2> QED
    BY <2>5, <2>6, <2>7, <2>8
<1> QED
  BY <1>2, <1>3

LEMMA UnreadNext ==
  ASSUME CvlTypeOK, UnreadIsUpdates, NEW i \in Item, Proper(i),
         Barred(i) \/ Accepted(i) \/ Rejected(i)
  PROVE  UnreadIsUpdates'
<1> SUFFICES ASSUME maxTableElem' = Unread, NEW k \in Ent
             PROVE  AllUpdates(requestCache'[k])
  BY DEF UnreadIsUpdates
<1>1. maxTableElem' = checkMaxElemConstraint(i)
  BY DEF Barred, Accepted, Rejected, Asks
<1>2. CurSize \in Nat /\ Unread \notin Nat
  BY CountTypes, CvlAssumption
<1>3. maxTableElem = Unread /\ (i.key \in Ent => i.op = "UPDATE")
  <2>1. CASE i.key \in Row
    BY <1>1, <2>1, CvlAssumption DEF checkMaxElemConstraint
  <2>2. CASE i.key \in Ent
    <3>1. i.key \notin Row
      BY <2>2, CvlAssumption
    <3>2. CountDown(CurSize) \in Nat
      BY <1>2 DEF CountDown
    <3>3. ~Whole(i) /\ i.op # "CREATE"
      BY <1>1, <1>2, <3>1, <3>2 DEF checkMaxElemConstraint
    <3>4. i.op = "UPDATE"
      BY <2>2, <3>3, ItemTypes DEF Whole, Proper
    <3> QED
      BY <1>1, <3>1, <3>3, <3>4 DEF checkMaxElemConstraint
  <2> QED
    BY <2>1, <2>2, ItemTypes DEF Id
<1>4. AllUpdates(requestCache[k])
  BY <1>3 DEF UnreadIsUpdates
<1>5. CASE k # i.key
  BY <1>4, <1>5, OthersStay DEF Id
<1>6. CASE k = i.key
  <2>1. requestCache[k] \in Seq(Item) /\ requestCache'[k] = Append(requestCache[k], i)
    BY <1>6, OthersStay DEF CvlTypeOK, Asking, Id
  <2>2. ASSUME NEW n \in DOMAIN Append(requestCache[k], i)
        PROVE  Append(requestCache[k], i)[n].op = "UPDATE"
    <3>1. CASE n \in DOMAIN requestCache[k]
      BY <1>4, <2>1, <3>1 DEF AllUpdates
    <3>2. CASE n = Len(requestCache[k]) + 1
      BY <1>3, <1>6, <2>1, <3>2
    <3> QED
      BY <2>1, <3>1, <3>2
  <2> QED
    BY <2>1, <2>2 DEF AllUpdates
<1> QED
  BY <1>5, <1>6

(* The items before an orderly one are orderly.                            *)
LEMMA WereOrderly ==
  ASSUME CvlTypeOK, NEW i \in Item, Barred(i) \/ Accepted(i) \/ Rejected(i),
         \A k \in Ent : Orderly(k)', NEW k \in Ent
  PROVE  Orderly(k)
<1>1. k \in Id /\ k \notin refused'
  BY OrderlyIs DEF Id, Orderly
<1>2. k \notin refused
  BY <1>1, NotRefused
<1> DEFINE s == requestCache[k]
           t == requestCache'[k]
<1>3. AllUpdates(t) \/ MakesAnew(t) \/ Removes(t)
  BY DEF Orderly, Ops, OpsOf, AllUpdates, MakesAnew, Removes
<1>4. CASE k # i.key
  BY <1>1, <1>2, <1>3, <1>4, OthersStay, OrderlyIs
<1>5. CASE k = i.key
  <2>1. s \in Seq(Item) /\ t = Append(s, i)
    BY <1>1, <1>5, OthersStay DEF CvlTypeOK, Asking
  <2>2. AllUpdates(s) \/ s = <<>> \/ Removes(s)
    BY <1>3, <2>1, OrderlyBefore
  <2>3. s = <<>> => AllUpdates(s)
    BY DEF AllUpdates
  <2> QED
    BY <1>2, <2>2, <2>3, OrderlyIs
<1> QED
  BY <1>4, <1>5

LEMMA CountNext ==
  ASSUME CvlTypeOK, Untouched, CountInv, NEW i \in Item, Proper(i),
         Barred(i) \/ Accepted(i) \/ Rejected(i)
  PROVE  CountInv'
<1>1. \A k \in Ent : LeavesEnt(k)'
  BY LeavesEntNext
<1>2. UnreadIsUpdates'
  BY UnreadNext DEF CountInv
<1>3. CountIsExact'
  <2> SUFFICES ASSUME \A k \in Ent : Orderly(k)'
               PROVE  /\ maxTableElem' # Unread => maxTableElem' = Size(after')
                      /\ Size(store') <= Limit => Size(after') <= Limit
    BY DEF CountIsExact
  <2>1. \A k \in Ent : Orderly(k)
    BY WereOrderly
  <2>2. /\ maxTableElem # Unread => maxTableElem = Size(after)
        /\ Size(store) <= Limit => Size(after) <= Limit
        /\ CurSize = Size(after)
    BY <2>1, CurSizeIsExact DEF CountInv, CountIsExact
  <2>3. store' = store /\ maxTableElem' = checkMaxElemConstraint(i) /\ after' \in Store
    BY OutcomeTypes DEF Barred, Accepted, Rejected, Asks, CvlTypeOK
  <2>4. CASE i.key \in Row
    <3>1. maxTableElem' = maxTableElem
      BY <2>3, <2>4 DEF checkMaxElemConstraint
    <3>2. \A x \in Ent : after[x] = after'[x]
      BY <2>4, OthersStay, CvlAssumption DEF Id
    <3>3. Size(after') = Size(after)
      BY <2>3, <3>2, SameEnts DEF CvlTypeOK
    <3> QED
      BY <2>2, <2>3, <3>1, <3>3
  <2>5. CASE i.key \in Ent
    <3> DEFINE k == i.key
               s == requestCache[k]
    <3>1. k \in Id /\ k \notin Row /\ k \notin refused'
      BY <2>5, CvlAssumption DEF Id, Orderly
    <3>2. Accepted(i)
      BY <3>1, NotRefused
    <3>3. s \in Seq(Item) /\ requestCache'[k] = Append(s, i)
      BY <3>1, OthersStay DEF CvlTypeOK, Asking
    <3>4. \/ AllUpdates(requestCache'[k]) \/ MakesAnew(requestCache'[k])
          \/ Removes(requestCache'[k])
      BY <2>5 DEF Orderly, Ops, OpsOf, AllUpdates, MakesAnew, Removes
    <3>5. LeavesEnt(k) /\ LeavesEnt(k)' /\ k \notin refused
      BY <1>1, <2>5, <3>1, NotRefused DEF CountInv
    <3>6. \A x \in Ent \ {k} : after'[x] = after[x]
      BY OthersStay DEF Id
    <3>7. Size(after) \in Nat /\ Size(after') \in Nat /\ Size(store) \in Nat /\ Limit \in Nat
      BY SizeTypes, CvlAssumption
    <3>8. CASE AllUpdates(requestCache'[k])
      <4>1. AllUpdates(s) /\ i.op = "UPDATE"
        BY <3>3, <3>8, OrderlyBefore
      <4>2. maxTableElem' = maxTableElem
        BY <2>3, <3>1, <4>1 DEF checkMaxElemConstraint, Whole
      <4>3. after'[k] # Absent <=> after[k] # Absent
        BY <2>3, <3>1, <3>5, <3>8, <4>1 DEF LeavesEnt
      <4>4. Size(after') = Size(after)
        BY <2>3, <3>6, <4>3, SameEnts DEF CvlTypeOK
      <4> QED
        BY <2>2, <2>3, <4>2, <4>4
    <3>9. CASE Removes(requestCache'[k])
      <4>1. s = <<>> /\ i.op = "DELETE"
        BY <3>3, <3>9, OrderlyBefore
      <4>2. store[k] # Absent /\ after'[k] = Absent /\ after[k] = store[k]
        BY <2>3, <3>1, <3>5, <3>9, <4>1 DEF LeavesEnt, Untouched
      <4>3. Size(after) = Size(after') + 1
        BY <2>3, <2>5, <3>6, <4>2, OneMoreEnt DEF CvlTypeOK
      <4>4. Whole(i)
        BY <2>5, <4>1 DEF Whole, Proper
      <4>5. maxTableElem' = CountDown(CurSize)
        BY <2>3, <3>1, <4>4 DEF checkMaxElemConstraint
      <4>6. maxTableElem' = Size(after')
        BY <2>2, <3>7, <4>3, <4>5 DEF CountDown
      <4> QED
        BY <2>2, <2>3, <3>7, <4>3, <4>6
    <3>10. CASE MakesAnew(requestCache'[k])
      <4>1. (s = <<>> \/ Removes(s)) /\ i.op = "CREATE"
        BY <3>3, <3>10, OrderlyBefore
      <4>2. after[k] = Absent
        <5>1. CASE Removes(s)
          BY <3>5, <5>1 DEF LeavesEnt
        <5>2. CASE s = <<>>
          <6>1. Asking(i) = <<i>>
            BY <5>2, OneItem
          <6>2. store[k] = Absent
            BY <3>2, <4>1, <6>1 DEF Accepted, Passes, KeyOK
          <6> QED
            BY <3>1, <5>2, <6>2 DEF Untouched
        <5> QED
          BY <4>1, <5>1, <5>2
      <4>3. after'[k] # Absent
        BY <3>1, <3>5, <3>10 DEF LeavesEnt
      <4>4. Size(after') = Size(after) + 1
        BY <2>3, <2>5, <3>6, <4>2, <4>3, OneMoreEnt DEF CvlTypeOK
      <4>5. ~(CurSize >= Limit)
        BY <2>5, <3>2, <4>1 DEF Accepted, TooMany
      <4>6. maxTableElem' = CurSize + 1
        BY <2>3, <3>1, <4>1, <4>5 DEF checkMaxElemConstraint, Whole
      <4> QED
        BY <2>2, <2>3, <3>7, <4>4, <4>5, <4>6
    <3> QED
      BY <3>4, <3>8, <3>9, <3>10
  <2> QED
    BY <2>4, <2>5, ItemTypes DEF Id
<1> QED
  BY <1>1, <1>2, <1>3 DEF CountInv

LEMMA NoneNamed ==
  ASSUME NEW s, s = <<>>
  PROVE  AllUpdates(s) /\ ~Removes(s) /\ ~MakesAnew(s)
<1>1. OpsOf(s) = <<>>
  BY DEF OpsOf
<1> QED
  BY <1>1 DEF AllUpdates, Removes, MakesAnew

LEMMA CountInit == Init => CountInv
<1> SUFFICES ASSUME Init PROVE CountInv
  OBVIOUS
<1>1. \A k \in Ent : requestCache[k] = <<>> /\ k \in Id
  BY DEF Init, Fresh, Id
<1>2. after = store /\ maxTableElem = Unread
  BY DEF Init, Fresh
<1> QED
  BY <1>1, <1>2, NoneNamed DEF CountInv, LeavesEnt, UnreadIsUpdates, CountIsExact

LEMMA CountOpened ==
  ASSUME Opened, after' = store'
  PROVE  CountInv'
<1>1. \A k \in Ent : requestCache'[k] = <<>> /\ k \in Id
  BY DEF Opened, Id
<1>2. maxTableElem' = Unread
  BY DEF Opened
<1> QED
  BY <1>1, <1>2, NoneNamed DEF CountInv, LeavesEnt, UnreadIsUpdates, CountIsExact

LEMMA CountStep ==
  ASSUME CvlTypeOK, RowsFit, Untouched, CountInv, [Next]_vars
  PROVE  CountInv'
<1>1. CASE UNCHANGED vars
  BY <1>1 DEF vars, session, CountInv, LeavesEnt, UnreadIsUpdates, CountIsExact,
              Orderly, Ops
<1>2. ASSUME NEW i \in Item, Proper(i), Barred(i) \/ Accepted(i) \/ Rejected(i)
      PROVE  CountInv'
  BY <1>2, CountNext
<1>3. CASE CommitTx
  BY <1>3, CountOpened DEF CommitTx
<1>4. CASE AbortTx
  BY <1>4, CountOpened DEF AbortTx
<1> QED
  BY <1>1, <1>2, <1>3, <1>4, Steps DEF CvlTypeOK, RowsFit

LEMMA NamedNext ==
  ASSUME CvlTypeOK, RowsFit, Untouched, [Next]_vars
  PROVE  Untouched'
<1>1. CASE UNCHANGED vars
  BY <1>1 DEF vars, session, Untouched
<1>2. CASE CommitTx
  BY <1>2 DEF CommitTx, Opened, Untouched
<1>3. CASE AbortTx
  BY <1>3 DEF AbortTx, Opened, Untouched
<1> QED
  BY <1>1, <1>2, <1>3, Steps, UntouchedNext DEF CvlTypeOK, RowsFit

LEMMA CountCorrect == Spec => [](CvlTypeOK /\ RowsFit /\ Untouched /\ CountInv)
<1>1. Init => Untouched
  BY DEF Init, Fresh, Untouched
<1> QED
  BY <1>1, CountInit, CountStep, NamedNext, Typed, PTL DEF Spec

(* When the items for the table come in order, the count max-elements is   *)
(* checked with is that of the entries there will be.                      *)
THEOREM CountIsRight == Spec => []CountIsExact
<1>1. CountInv => CountIsExact
  BY DEF CountInv
<1> QED
  BY <1>1, CountCorrect, PTL

-----------------------------------------------------------------------------
(* Refusals.                                                               *)

(* Entries refer to nothing.                                               *)
EntsPlain ==
  \A k \in Ent : store[k] \in {NoRefs, Absent} /\ after[k] \in {NoRefs, Absent}

(* While nothing was refused: what the cache holds was accepted, and what  *)
(* became of the rows named once.                                          *)
Smooth ==
  refused = {} =>
    \A x \in Id :
      LET s == requestCache[x]
      IN  /\ \A n \in DOMAIN s : s[n] \in cfgData /\ s[n].key = x
          /\ Len(s) = 1 /\ s[1].op # "DELETE" => after[x] # Absent
          /\ Len(s) = 1 /\ s[1].op = "DELETE" => store[x] # Absent /\ tree[x] = store[x]

LEMMA PlainNext ==
  ASSUME CvlTypeOK, EntsPlain, NEW i \in Item, Proper(i),
         Barred(i) \/ Accepted(i) \/ Rejected(i)
  PROVE  EntsPlain'
<1> SUFFICES ASSUME NEW k \in Ent
             PROVE  store'[k] \in {NoRefs, Absent} /\ after'[k] \in {NoRefs, Absent}
  BY DEF EntsPlain
<1>1. store' = store /\ k \in Id
  BY OthersStay DEF Id
<1>2. CASE after'[k] = after[k]
  BY <1>1, <1>2 DEF EntsPlain
<1>3. CASE after'[k] # after[k]
  <2>1. k = i.key /\ i.data = NoRefs
    BY <1>1, <1>3, OthersStay DEF Proper
  <2>2. after'[k] = WrittenRow(after, i)
    BY <1>1, <1>3, <2>1 DEF Barred, Accepted, Rejected, Refuse, Accept, Written,
                            CvlTypeOK, Store
  <2>3. after[k] \in {NoRefs, Absent}
    BY DEF EntsPlain
  <2>4. Over(after[k], NoRefs) = NoRefs
    BY <2>3 DEF Over, NoRefs
  <2> QED
    BY <1>1, <2>1, <2>2, <2>4 DEF WrittenRow, EntsPlain
<1> QED
  BY <1>2, <1>3

(* A first DELETE puts the row of Redis in the tree.                       *)
LEMMA FirstDelete ==
  ASSUME CvlTypeOK, Untouched, NEW i \in Item, i.op = "DELETE",
         requestCache[i.key] = <<>>, store[i.key] # Absent
  PROVE  Merged(i, Asking(i)) = store[i.key]
<1>1. i.key \in Id /\ store[i.key] \in Value /\ tree[i.key] = Absent
  BY ItemTypes DEF CvlTypeOK, Store, Untouched
<1>2. Asking(i) = <<i>> /\ Earlier(<<i>>) = {}
  BY OneItem DEF Earlier
<1>3. fetchDataToTmpCache(i.key, <<i>>) = store[i.key]
  BY <1>2 DEF fetchDataToTmpCache
<1>4. Over(Absent, NoRefs) = NoRefs
  BY DEF Over
<1>5. Over(NoRefs, store[i.key]) = store[i.key]
  BY <1>1, NoRefsIsValue, CvlAssumption DEF Over, NoRefs, Value
<1> QED
  BY <1>1, <1>2, <1>3, <1>4, <1>5 DEF Merged

LEMMA SmoothNext ==
  ASSUME CvlTypeOK, Untouched, Smooth, NEW i \in Item, Proper(i),
         Barred(i) \/ Accepted(i) \/ Rejected(i)
  PROVE  Smooth'
<1> SUFFICES ASSUME refused' = {}, NEW x \in Id
             PROVE  LET s == requestCache'[x]
                    IN  /\ \A n \in DOMAIN s : s[n] \in cfgData' /\ s[n].key = x
                        /\ Len(s) = 1 /\ s[1].op # "DELETE" => after'[x] # Absent
                        /\ Len(s) = 1 /\ s[1].op = "DELETE" =>
                             store'[x] # Absent /\ tree'[x] = store'[x]
  BY DEF Smooth
<1>1. Accepted(i) /\ refused = {} /\ store' = store
  BY NotRefused, OthersStay
<1>2. cfgData' = cfgData \cup {i}
  BY <1>1 DEF Accepted, Accept
<1>3. CASE x # i.key
  <2>1. requestCache'[x] = requestCache[x] /\ tree'[x] = tree[x] /\ after'[x] = after[x]
    BY <1>3, OthersStay
  <2> QED
    BY <1>1, <1>2, <2>1 DEF Smooth
<1>4. CASE x = i.key
  <2> DEFINE s == requestCache[x]
             t == Append(s, i)
  <2>1. s \in Seq(Item) /\ requestCache'[x] = t
    BY <1>4, OthersStay DEF CvlTypeOK, Asking
  <2>2. \A n \in DOMAIN s : s[n] \in cfgData /\ s[n].key = x
    BY <1>1 DEF Smooth
  <2>3. ASSUME NEW n \in DOMAIN t PROVE t[n] \in cfgData' /\ t[n].key = x
    <3>1. CASE n \in DOMAIN s
      BY <1>2, <2>1, <2>2, <3>1
    <3>2. CASE n = Len(s) + 1
      BY <1>2, <1>4, <2>1, <3>2
    <3> QED
      BY <2>1, <3>1, <3>2
  <2>4. ASSUME Len(t) = 1
        PROVE  /\ t[1] = i
               /\ i.op # "DELETE" => after'[x] # Absent
               /\ i.op = "DELETE" => store[x] # Absent /\ tree'[x] = store[x]
    <3>1. s = <<>> /\ t[1] = i /\ Asking(i) = <<i>>
      BY <1>4, <2>1, <2>4, OneItem
    <3>2. after[x] \in Row0 /\ (i.op # "DELETE" => i.data \in Value)
      BY ItemTypes DEF CvlTypeOK, Store, Row0
    <3>3. after'[x] = WrittenRow(after, i) /\ tree'[x] = Merged(i, Asking(i))
      BY <1>1, <1>4 DEF Accepted, Accept, Adds, Written, CvlTypeOK, Store
    <3>4. ASSUME i.op # "DELETE" PROVE after'[x] # Absent
      BY <1>4, <3>2, <3>3, <3>4, OverTypes, CvlAssumption DEF WrittenRow
    <3>5. ASSUME i.op = "DELETE" PROVE store[x] # Absent /\ tree'[x] = store[x]
      <4>1. store[x] # Absent
        BY <1>1, <1>4, <3>5 DEF Accepted, Passes, KeyOK
      <4> QED
        BY <1>4, <3>1, <3>3, <3>5, <4>1, FirstDelete
    <3> QED
      BY <3>1, <3>4, <3>5
  <2> HIDE DEF t, s
  <2> QED
    BY <1>1, <2>1, <2>3, <2>4
<1> QED
  BY <1>3, <1>4

RefusalInv == Untouched /\ CountInv /\ EntsPlain /\ Smooth

LEMMA RefusalCorrect == Spec => [](CvlTypeOK /\ RowsFit /\ RefusalInv)
<1>1. Init => EntsPlain /\ Smooth
  BY CvlAssumption DEF Init, Fresh, EntsPlain, Smooth
<1>2. ASSUME CvlTypeOK, RowsFit, RefusalInv, [Next]_vars
      PROVE  EntsPlain' /\ Smooth'
  <2>1. CASE UNCHANGED vars
    BY <1>2, <2>1 DEF vars, session, RefusalInv, EntsPlain, Smooth
  <2>2. CASE CommitTx
    BY <1>2, <2>2 DEF CommitTx, Opened, RefusalInv, EntsPlain, Smooth
  <2>3. CASE AbortTx
    BY <1>2, <2>3 DEF AbortTx, Opened, RefusalInv, EntsPlain, Smooth
  <2>4. ASSUME NEW i \in Item, Proper(i), Barred(i) \/ Accepted(i) \/ Rejected(i)
        PROVE  EntsPlain' /\ Smooth'
    BY <1>2, <2>4, PlainNext, SmoothNext DEF RefusalInv
  <2> QED
    BY <1>2, <2>1, <2>2, <2>3, <2>4, Steps DEF CvlTypeOK, RowsFit
<1>3. CvlTypeOK /\ RowsFit /\ RefusalInv /\ [Next]_vars => EntsPlain' /\ Smooth'
  BY <1>2
<1>4. Spec => [](EntsPlain /\ Smooth)
  <2>1. CvlTypeOK /\ RowsFit /\ Untouched /\ CountInv /\ EntsPlain /\ Smooth /\ [Next]_vars
          => EntsPlain' /\ Smooth'
    BY <1>3 DEF RefusalInv
  <2> QED
    BY <1>1, <2>1, CountCorrect, PTL DEF Spec
<1>5. Untouched /\ CountInv /\ EntsPlain /\ Smooth => RefusalInv
  BY DEF RefusalInv
<1> QED
  BY <1>4, <1>5, CountCorrect, PTL

(* What Legal asks, row by row.                                            *)
LEMMA LegalKeeps ==
  ASSUME CvlTypeOK, NEW i \in Item, Legal(i), NEW r \in Row,
         Written(after, i)[r] # Absent, NEW k \in Refs(r, Written(after, i)[r])
  PROVE  /\ k \in Ent
         /\ Written(after, i)[k] # Absent
<1>1. Written(after, i) \in Store /\ r \in Id
  BY WrittenTypes DEF CvlTypeOK, Id
<1>2. Written(after, i)[r] \in Value
  BY <1>1 DEF Store
<1> QED
  BY <1>1, <1>2, RefsAreEntries DEF Legal, RefsHold, Holds

LEMMA RefusedIsIllegal ==
  ASSUME CvlTypeOK, RefusalInv, NEW i \in Item, Proper(i),
         Barred(i) \/ Rejected(i),
         refused = {}, RefsHold(store),
         \A y \in Id : Len(requestCache'[y]) <= 1 \/ Ops(y) = <<"DELETE">>,
         \A k \in Ent : Orderly(k),
         i.op # "CREATE" => requestCache[i.key] = <<>>,
         Whole(i) /\ i.key \in Ent => NamedByKey(i.key),
         Legal(i)
  PROVE  FALSE
<1> DEFINE x == i.key
           w == Written(after, i)
<1> USE DEF RefusalInv
<1>1. /\ x \in Id /\ i.op \in {"CREATE", "UPDATE", "DELETE"}
      /\ i.op # "DELETE" => i.data \in Value
  BY ItemTypes
<1>2. /\ w \in Store /\ w[x] = WrittenRow(after, i)
      /\ \A y \in Id \ {x} : w[y] = after[y]
  BY <1>1, WrittenTypes DEF Written, CvlTypeOK, Store
<1>3. /\ (i.op = "CREATE") <=> (after[x] = Absent)
      /\ Size(w) <= Limit
  BY DEF Legal
<1>4. \A y \in Id : requestCache[y] \in Seq(Item) /\ Len(requestCache[y]) \in {0, 1}
  <2> SUFFICES ASSUME NEW y \in Id
               PROVE  requestCache[y] \in Seq(Item) /\ Len(requestCache[y]) \in {0, 1}
    OBVIOUS
  <2>1. requestCache[y] \in Seq(Item) /\ Len(requestCache[y]) \in Nat
    BY DEF CvlTypeOK
  <2>2. Len(requestCache[y]) <= Len(requestCache'[y]) /\ Len(requestCache'[y]) \in Nat
    BY <2>1, OthersStay
  <2>3. Ops(y) = <<"DELETE">> => Len(requestCache[y]) = 1
    BY <2>1, OpsLength DEF Ops, OpsOf, Removes
  <2>4. Len(requestCache'[y]) <= 1 \/ Len(requestCache[y]) = 1
    BY <2>3
  <2>5. \A m, n \in Nat : m <= n /\ (n <= 1 \/ m = 1) => m \in {0, 1}
    OBVIOUS
  <2> QED
    BY <2>1, <2>2, <2>4, <2>5
<1>5. \A y \in Id : Len(requestCache[y]) = 0 => requestCache[y] = <<>> /\ after[y] = store[y]
  BY <1>4 DEF Untouched
<1>6. \A k \in Ent : ~Found(k) => after[k] = Absent /\ store[k] = Absent
  <2> SUFFICES ASSUME NEW k \in Ent, ~Found(k) PROVE after[k] = Absent /\ store[k] = Absent
    OBVIOUS
  <2>1. requestCache[k] = <<>> /\ store[k] = Absent
    BY DEF Found
  <2> QED
    BY <2>1 DEF Untouched, Id
<1>7. CASE i.op = "CREATE" /\ TooMany(i)
  <2>1. x \in Ent /\ CurSize >= Limit
    BY <1>7 DEF TooMany
  <2>2. CurSize = Size(after) /\ Size(after) \in Nat /\ Size(w) \in Nat /\ Limit \in Nat
    BY CurSizeIsExact, SizeTypes, CvlAssumption
  <2>3. after[x] = Absent /\ w[x] # Absent
    <3>1. Over(Absent, i.data) = i.data /\ i.data # Absent
      BY <1>1, <1>7, CvlAssumption DEF Over
    <3> QED
      BY <1>2, <1>3, <1>7, <3>1 DEF WrittenRow
  <2>4. Size(w) = Size(after) + 1
    BY <1>2, <2>1, <2>3, OneMoreEnt DEF CvlTypeOK, Id
  <2> QED
    BY <1>3, <2>1, <2>2, <2>4
<1>8. CASE i.op = "DELETE" /\ x \in Ent /\ InUse(x)
  <2>1. Whole(i) /\ NamedByKey(x)
    BY <1>8 DEF Whole, Proper
  <2>2. w[x] = Absent
    BY <1>2, <1>8 DEF WrittenRow, Proper
  <2>3. PICK p \in findUsedAsLeafRef, t \in Table :
          ~checkDeleteInRequestCache(t, p[t], x) /\ find_key(t, p[t], x) # {}
    BY <1>8 DEF InUse, checkDeleteConstraint
  <2>4. PICK r \in Row : /\ TableOf[r] = t /\ store[r] # Absent
                         /\ x \in Matches[r] \/ \E f \in Field \ LeafList : store[r][f] = x
    BY <2>3 DEF find_key, HasField
  <2>5. KeyRef[r] = x
    BY <2>1, <2>4 DEF NamedByKey
  <2>6. r \in Id /\ r # x /\ x # None
    BY <1>8, CvlAssumption DEF Id
  <2>7. after[r] = Absent
    <3>1. x \in Refs(r, w[r])
      BY <2>5, <2>6 DEF Refs, KeyRefs
    <3>2. w[r] = Absent
      BY <2>2, <3>1, LegalKeeps
    <3> QED
      BY <1>2, <2>6, <3>2
  <2>8. Len(requestCache[r]) = 1
    BY <1>4, <1>5, <2>4, <2>6, <2>7
  <2>9. requestCache[r][1] \in cfgData /\ requestCache[r][1].key = r
        /\ requestCache[r][1].op = "DELETE"
    BY <1>4, <2>6, <2>7, <2>8 DEF Smooth
  <2>10. x \in Contains[r]
    BY <2>5, <2>6, CvlAssumption
  <2> QED
    BY <2>3, <2>4, <2>9, <2>10 DEF checkDeleteInRequestCache
<1>9. CASE ~KeyOK(i, Asking(i))
  <2>1. CASE i.op = "CREATE"
    <3>1. store[x] # Absent /\ \A n \in DOMAIN Asking(i) : Asking(i)[n].op # "DELETE"
      BY <1>9, <2>1 DEF KeyOK
    <3>2. Len(requestCache[x]) = 1
      BY <1>1, <1>3, <1>4, <1>5, <2>1, <3>1
    <3>3. 1 \in DOMAIN Asking(i) /\ Asking(i)[1] = requestCache[x][1]
      BY <1>1, <1>4, <3>2 DEF Asking
    <3> QED
      BY <1>1, <1>3, <2>1, <3>1, <3>2, <3>3 DEF Smooth
  <2>2. CASE i.op # "CREATE"
    BY <1>1, <1>3, <1>9, <2>2 DEF KeyOK, Untouched
  <2> QED
    BY <2>1, <2>2
<1>10. CASE /\ KeyOK(i, Asking(i)) /\ i.op # "DELETE"
            /\ ~validateLeafRef(x, Merged(i, Asking(i)))
  <2>1. PICK k \in Refs(x, Merged(i, Asking(i))) : ~Found(k)
    BY <1>10 DEF validateLeafRef
  <2>2. Merged(i, Asking(i)) \in Value
    <3>1. Asking(i) \in Seq(Item)
      BY OthersStay
    <3> QED
      BY <3>1, MergedTypes
  <2>3. k \in Ent /\ k \in Id /\ after[k] = Absent /\ store[k] = Absent
    BY <1>1, <1>6, <2>1, <2>2, RefsAreEntries DEF Id
  <2>4. \/ Merged(i, Asking(i)) = w[x]
        \/ /\ Merged(i, Asking(i)) = Over(store[x], i.data)
           /\ w[x] = i.data /\ store[x] \in Value /\ i.op = "CREATE"
    <3>1. CASE requestCache[x] = <<>>
      <4>1. Merged(i, Asking(i)) = Over(store[x], i.data) /\ after[x] = store[x]
        BY <1>1, <1>10, <3>1, FirstMerged DEF Untouched
      <4> QED
        BY <1>2, <1>10, <4>1 DEF WrittenRow
    <3>2. CASE requestCache[x] # <<>>
      <4>1. i.op = "CREATE" /\ after[x] = Absent
        BY <1>3, <3>2
      <4>2. Len(requestCache[x]) = 1
        BY <1>1, <1>4, <1>5, <3>2
      <4>3. store[x] # Absent /\ tree[x] = store[x]
        BY <1>1, <4>1, <4>2 DEF Smooth
      <4>4. Merged(i, Asking(i)) = Over(store[x], i.data)
        BY <4>1, <4>3 DEF Merged
      <4>5. w[x] = i.data
        BY <1>2, <4>1 DEF WrittenRow, Over
      <4> QED
        BY <1>1, <4>1, <4>3, <4>4, <4>5 DEF CvlTypeOK, Store
    <3> QED
      BY <3>1, <3>2
  <2>5. w[x] \in Value /\ w[x] # Absent
    BY <1>1, <1>10, <2>2, <2>4, CvlAssumption
  <2>6. x \in Row
    <3> SUFFICES ASSUME x \in Ent PROVE FALSE
      BY <1>1 DEF Id
    <3>1. i.data = NoRefs /\ store[x] \in {NoRefs, Absent} /\ after[x] \in {NoRefs, Absent}
      BY DEF Proper, EntsPlain
    <3>2. \A old \in {NoRefs, Absent} : Over(old, NoRefs) = NoRefs
      BY DEF Over, NoRefs
    <3>3. Merged(i, Asking(i)) = NoRefs
      BY <1>2, <1>10, <2>4, <3>1, <3>2 DEF WrittenRow
    <3>4. Refs(x, NoRefs) = {}
      BY CvlAssumption DEF Refs, KeyRefs, NoRefs
    <3> QED
      BY <2>1, <3>3, <3>4
  <2>7. k \in Refs(x, w[x])
    <3>1. CASE Merged(i, Asking(i)) = w[x]
      BY <2>1, <3>1
    <3>2. CASE /\ Merged(i, Asking(i)) = Over(store[x], i.data)
               /\ w[x] = i.data /\ store[x] \in Value
      <4>1. k \notin Refs(x, store[x])
        BY <2>3, <2>6, <3>2, CvlAssumption DEF RefsHold, Holds
      <4>2. Refs(x, Over(store[x], i.data)) \subseteq Refs(x, store[x]) \cup Refs(x, i.data)
        BY <3>2, CvlAssumption DEF Refs, Over
      <4> QED
        BY <2>1, <3>2, <4>1, <4>2
    <3> QED
      BY <2>4, <3>1, <3>2
  <2>8. k # x /\ w[k] = Absent
    BY <1>2, <2>3, <2>6, CvlAssumption
  <2> QED
    BY <2>5, <2>6, <2>7, <2>8, LegalKeeps
<1> QED
  BY <1>7, <1>8, <1>9, <1>10 DEF Barred, Rejected, Passes

(* An application is refused nothing that is legal: while it builds and    *)
(* takes down entries with their rows and nothing was refused before.      *)
THEOREM LegalIsNotRefused == Spec => LegalIsAccepted
<1>1. CvlTypeOK /\ RowsFit /\ RefusalInv /\ [Next]_vars => [OnlyIllegalRefused]_vars
  <2> SUFFICES ASSUME CvlTypeOK, RowsFit, RefusalInv, Next, NEW x \in refused' \ refused,
                      refused = {}, RefsHold(store),
                      \A y \in Id : /\ Len(requestCache'[y]) <= 1 \/ Ops(y) = <<"DELETE">>
                                    /\ Orderly(y),
                      LET i == requestCache'[x][Len(requestCache'[x])]
                      IN  /\ i.op # "CREATE" => requestCache[x] = <<>>
                          /\ Whole(i) /\ x \in Ent => NamedByKey(x)
                          /\ Legal(i)
               PROVE  FALSE
    BY DEF OnlyIllegalRefused
  <2>1. ~CommitTx /\ ~AbortTx
    BY DEF CommitTx, AbortTx, Opened
  <2>2. PICK i \in Item : Proper(i) /\ (Barred(i) \/ Accepted(i) \/ Rejected(i))
    BY <2>1, Steps DEF CvlTypeOK, RowsFit
  <2>3. ~Accepted(i) /\ x = i.key
    BY <2>2 DEF Barred, Accepted, Rejected, Accept, Refuse
  <2>4. requestCache'[x][Len(requestCache'[x])] = i
    <3>1. requestCache[x] \in Seq(Item) /\ requestCache'[x] = Append(requestCache[x], i)
      BY <2>2, <2>3, OthersStay DEF CvlTypeOK, Asking
    <3> QED
      BY <3>1
  <2>5. \A k \in Ent : Orderly(k)
    BY DEF Id
  <2> QED
    BY <2>2, <2>3, <2>4, <2>5, RefusedIsIllegal
<1> QED
  BY <1>1, RefusalCorrect, PTL DEF Spec, LegalIsAccepted
=============================================================================
