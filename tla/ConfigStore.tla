---------------------------- MODULE ConfigStore ----------------------------
(***************************************************************************)
(* What translib.go promises about a Set or Bulk request, without the      *)
(* connections, the WATCHes and the locks: a request stages commands where *)
(* nobody sees them, and then either all of them take effect at one        *)
(* instant and it is answered "ok", or none ever does and it is answered   *)
(* "fail", or dropped without an answer ("panic").  Daemons that do not    *)
(* use translib change the keys of DirectKeys, one entry at a time, at any *)
(* moment.                                                                 *)
(*                                                                         *)
(* Where connections may break, "fail" promises less: commands of the      *)
(* request may have taken effect on their own, or all of them at once.     *)
(* "ok" and "panic" promise the same.                                      *)
(***************************************************************************)
EXTENDS Entries

CONSTANTS Request,     \* Set and Bulk requests
          DirectKeys,  \* keys also written by other daemons
          Lossy        \* whether connections may break

VARIABLES store,   \* CONFIG_DB
          staged,  \* the commands of each request
          torn,    \* requests under way that were written in part
          answer   \* what each was answered: "none" until then

vars == <<store, staged, torn, answer>>

TypeOK ==
  /\ store \in [Key -> Entry]
  /\ staged \in [Request -> Seq(Cmd)]
  /\ torn \subseteq Request
  /\ answer \in [Request -> {"none", "ok", "fail", "panic"}]

Init ==
  /\ store \in InitialStores
  /\ staged = [r \in Request |-> <<>>]
  /\ torn = {}
  /\ answer = [r \in Request |-> "none"]

Extends(s, t) == Len(s) <= Len(t) /\ SubSeq(t, 1, Len(s)) = s

Stage(r) ==
  /\ answer[r] = "none"
  /\ staged'[r] \in Seq(Cmd) /\ Extends(staged[r], staged'[r])
  /\ staged' = [staged EXCEPT ![r] = staged'[r]]
  /\ UNCHANGED <<store, torn, answer>>

Commit(r) ==
  /\ answer[r] = "none" /\ r \notin torn
  /\ store' = Effect(store, staged[r])
  /\ staged' = [staged EXCEPT ![r] = <<>>]
  /\ answer' = [answer EXCEPT ![r] = "ok"]
  /\ UNCHANGED torn

Fail(r) ==
  /\ answer[r] = "none"
  /\ \/ staged' = [staged EXCEPT ![r] = <<>>]
     \/ UNCHANGED staged
  /\ \/ answer' = [answer EXCEPT ![r] = "fail"]
     \/ r \notin torn /\ answer' = [answer EXCEPT ![r] = "panic"]
  /\ torn' = torn \ {r}
  /\ UNCHANGED store

Discard(r) ==
  /\ answer[r] \in {"fail", "panic"}
  /\ staged' = [staged EXCEPT ![r] = <<>>]
  /\ UNCHANGED <<store, torn, answer>>

(* A command takes effect on its own.                                      *)
Tear(r) ==
  /\ answer[r] = "none"
  /\ \E i \in DOMAIN staged[r] : store' = Effect(store, <<staged[r][i]>>)
  /\ torn' = torn \cup {r}
  /\ UNCHANGED <<staged, answer>>

(* All of them do, and nobody is told.                                     *)
CommitUnknown(r) ==
  /\ answer[r] = "none" /\ r \notin torn
  /\ store' = Effect(store, staged[r])
  /\ staged' = [staged EXCEPT ![r] = <<>>]
  /\ answer' = [answer EXCEPT ![r] = "fail"]
  /\ UNCHANGED torn

External ==
  /\ \E k \in DirectKeys : store' = [store EXCEPT ![k] = store'[k]] /\ store'[k] \in Entry
  /\ UNCHANGED <<staged, torn, answer>>

Next ==
  \/ \E r \in Request : Stage(r) \/ Commit(r) \/ Fail(r) \/ Discard(r)
  \/ Lossy /\ \E r \in Request : Tear(r) \/ CommitUnknown(r)
  \/ External

Spec == Init /\ [][Next]_vars
=============================================================================
