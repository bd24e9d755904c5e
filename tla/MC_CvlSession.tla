--------------------------- MODULE MC_CvlSession ---------------------------
(***************************************************************************)
(* Two entries, the name of the first being the beginning of that of the   *)
(* second (Vlan1, Vlan10), a row that refers to the second in its key, a   *)
(* row that may refer to either in a field, and one that may in either of  *)
(* two fields, of which one is a leaf-list.                                *)
(***************************************************************************)
EXTENDS CvlSession

CONSTANTS v1, v10, member, rule, acl, members, rules, acls, f, g, ports

MCTableOf  == [r \in Row |-> CASE r = member -> members
                             [] r = rule   -> rules
                             [] r = acl    -> acls]
MCFieldsOf == [t \in Table |-> CASE t = members -> {}
                               [] t = rules   -> {f}
                               [] t = acls    -> {g, ports}]
MCKeyRef   == [r \in Row |-> IF r = member THEN v10 ELSE None]
MCNames    == [r \in Row |-> IF r = member THEN {v1, v10} ELSE {}]
MCGiven    == [x \in Id |->
                 CASE x = rule -> {v \in Value : Fits(x, v)}
                   [] x = acl  -> {[NoRefs EXCEPT ![g] = v10, ![ports] = v1],
                                   [NoRefs EXCEPT ![ports] = v10]}
                   [] OTHER    -> {NoRefs}]
MCStored   == UNION {MCGiven[x] : x \in Id} \cup {Absent}
MCStores   == {s \in [Id -> MCStored] :
                 /\ \A x \in Present(s) : s[x] \in MCGiven[x]
                 /\ RefsHold(s)}
MCEmpty    == {[x \in Id |-> Absent]}
=============================================================================
