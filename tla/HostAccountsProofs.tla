------------------------- MODULE HostAccountsProofs -------------------------
(***************************************************************************)
(* What the account daemon promises, proved for any number of users,       *)
(* processes, uids and roles.                                              *)
(***************************************************************************)
EXTENDS HostAccounts, WellFoundedInduction, TLAPS

(* A process waits for the answer of each call it is there for, and has at *)
(* most one.                                                               *)
CallsMatch ==
  /\ \A c \in calls : c.op = "user_confirm" => c.roles \in Grants
  /\ \A c \in calls : c.live =>
       /\ login[c.pid].user = c.user
       /\ login[c.pid].at =
            (IF c.op = "user_confirm" THEN "confirm" ELSE "ask")
  /\ \A c, d \in calls : c.live /\ d.live /\ c.pid = d.pid => c = d

LoginsHaveUsers == \A p \in Pid : Alive(p) => login[p].user \in User

IInv == HostTypeOK /\ LoginsHaveUsers /\ CallsMatch /\ SessionHasAccount

-----------------------------------------------------------------------------
(* Types.                                                                  *)

(* The roles and the groups that come with them are groups.                *)
LEMMA FullRolesAreGroups ==
  ASSUME NEW R \in SUBSET Group
  PROVE  get_full_roles(R) \in SUBSET Group
<1>1. \A r \in R : Implied[r] \in SUBSET Group
  BY HostAssumption
<1> QED
  BY <1>1 DEF get_full_roles

(* The comments hamd writes.                                               *)
LEMMA GecosWritten ==
  /\ <<>> \in Gecos /\ <<CONFIRMED_USER_MAGIC_STRING>> \in Gecos
  /\ \A p \in Pid : Comment(p) \in Gecos
  BY DEF Gecos

(* Of them only those with a pid begin like those of unconfirmed users.    *)
LEMMA MagicStrings ==
  /\ ~startswith(<<>>, UNCONFIRMED_USER_MAGIC_STRING)
  /\ ~startswith(<<CONFIRMED_USER_MAGIC_STRING>>, UNCONFIRMED_USER_MAGIC_STRING)
  BY DEF startswith, CONFIRMED_USER_MAGIC_STRING, UNCONFIRMED_USER_MAGIC_STRING

(* What remains when users are removed.                                    *)
LEMMA RemovedTypes ==
  ASSUME HostTypeOK, NEW K
  PROVE  rm_unconfirmed_users(K) \in [User -> Account \cup {NoAccount}]
  BY DEF HostTypeOK, rm_unconfirmed_users

(* A handler counts its faults.                                            *)
LEMMA FaultTypes ==
  ASSUME HostTypeOK, NEW bad, Faulty(bad)
  PROVE  faults' \in 0..MaxFaults
  BY HostAssumption DEF HostTypeOK, Faulty

(* An answer moves the caller.                                             *)
LEMMA ReplyTypes ==
  ASSUME HostTypeOK, NEW c \in calls,
         NEW at \in {"none", "lookup", "ask", "reread", "auth", "confirm",
                     "in", "denied"},
         Reply(c, at)
  PROVE  /\ calls' \subseteq Call
         /\ login' \in [Pid -> [user : User \cup {Nobody},
                                at : {"none", "lookup", "ask", "reread", "auth",
                                      "confirm", "in", "denied"}]]
<1>1. c \in Call /\ calls \subseteq Call
  BY DEF HostTypeOK
<1> QED
  BY <1>1 DEF HostTypeOK, Reply, Call

(* Every step keeps the types.                                             *)
LEMMA TypeNext == HostTypeOK /\ LoginsHaveUsers /\ [Next]_vars => HostTypeOK'
<1> SUFFICES ASSUME HostTypeOK, LoginsHaveUsers, [Next]_vars PROVE HostTypeOK'
  OBVIOUS
<1>1. ASSUME on_poll_timeout PROVE HostTypeOK'
  BY <1>1, RemovedTypes, FaultTypes DEF HostTypeOK, on_poll_timeout
<1>2. ASSUME NEW c \in calls, add_unconfirmed_user(c) PROVE HostTypeOK'
  <2>1. c \in Call
    BY DEF HostTypeOK
  <2>2. PICK K \in SUBSET Removable :
          LET u  == c.user
              pw == rm_unconfirmed_users(K)
          IN  \/ /\ \E uid \in Tried(u, pw) : Added(u, pw, SAC(c.pid, uid))
                 /\ Faulty(K # {})
                 /\ Reply(c, "reread")
              \/ /\ \/ Tried(u, pw) \subseteq Used(pw) /\ Faulty(K # {})
                    \/ pw[u] # NoAccount /\ Faulty(K # {})
                    \/ Tried(u, pw) # {} /\ Faulty(TRUE)
                 /\ passwd' = pw
                 /\ Reply(c, "denied")
    BY <1>2 DEF add_unconfirmed_user
  <2> DEFINE pw == rm_unconfirmed_users(K)
  <2>3. pw \in [User -> Account \cup {NoAccount}]
    BY RemovedTypes
  <2>4. faults' \in 0..MaxFaults
    BY <2>2, FaultTypes
  <2>5. /\ calls' \subseteq Call
        /\ login' \in [Pid -> [user : User \cup {Nobody},
                               at : {"none", "lookup", "ask", "reread", "auth",
                                     "confirm", "in", "denied"}]]
    BY <2>2, ReplyTypes
  <2>6. passwd' \in [User -> Account \cup {NoAccount}]
    <3>1. ASSUME NEW uid \in Tried(c.user, pw),
                 Added(c.user, pw, SAC(c.pid, uid))
          PROVE  passwd' \in [User -> Account \cup {NoAccount}]
      <4>1. uid \in Uid
        <5>1. Candidates[c.user] \in Seq(Uid)
          BY <2>1, HostAssumption DEF Call
        <5>2. PICK i \in DOMAIN Candidates[c.user] : uid = Candidates[c.user][i]
          BY <3>1 DEF Tried, Free
        <5> QED
          BY <5>1, <5>2
      <4>2. SAC(c.pid, uid) \in Account
        BY <2>1, <4>1, GecosWritten DEF SAC, Account, Call
      <4> QED
        BY <2>3, <3>1, <4>2 DEF Added
    <3> QED
      BY <2>2, <2>3, <3>1
  <2> QED
    BY <1>2, <2>4, <2>5, <2>6 DEF HostTypeOK, add_unconfirmed_user
<1>3. ASSUME NEW c \in calls, user_confirm(c) PROVE HostTypeOK'
  <2> DEFINE u == c.user
             R == get_full_roles(c.roles)
  <2>1. c \in Call /\ u \in User
    BY DEF HostTypeOK, Call
  <2>2. R \in SUBSET Group
    BY <2>1, FullRolesAreGroups DEF Call
  <2>3. faults' \in 0..MaxFaults
    BY <1>3, FaultTypes DEF user_confirm
  <2>4. /\ calls' \subseteq Call
        /\ login' \in [Pid -> [user : User \cup {Nobody},
                               at : {"none", "lookup", "ask", "reread", "auth",
                                     "confirm", "in", "denied"}]]
    BY <1>3, ReplyTypes DEF user_confirm
  <2>5. passwd' \in [User -> Account \cup {NoAccount}]
    <3>1. CASE UNCHANGED passwd
      BY <3>1 DEF HostTypeOK
    <3>2. CASE Exists(u) /\ passwd' = [passwd EXCEPT ![u].granted = R]
      <4>1. passwd[u] \in Account
        BY <2>1, <3>2 DEF HostTypeOK, Exists
      <4>2. [passwd[u] EXCEPT !.granted = R] \in Account
        BY <2>2, <4>1 DEF Account
      <4> QED
        BY <3>2, <4>2 DEF HostTypeOK
    <3>3. CASE Exists(u) /\ passwd' = [passwd EXCEPT ![u] = Confirmed(@, R)]
      <4>1. passwd[u] \in Account
        BY <2>1, <3>3 DEF HostTypeOK, Exists
      <4>2. Confirmed(passwd[u], R) \in Account
        BY <2>2, <4>1, GecosWritten DEF Account, Confirmed
      <4> QED
        BY <3>3, <4>2 DEF HostTypeOK
    <3> QED
      BY <1>3, <3>1, <3>2, <3>3 DEF user_confirm, Permanent, Unconfirmed
  <2> QED
    BY <1>3, <2>1, <2>3, <2>4, <2>5 DEF HostTypeOK, user_confirm, Call
<1>4. ASSUME NEW u \in Managed, userdel(u) PROVE HostTypeOK'
  BY <1>4, FaultTypes DEF HostTypeOK, userdel
<1>5. ASSUME NEW u \in Managed, NEW R \in Assigned, useradd(u, R)
      PROVE  HostTypeOK'
  <2> DEFINE full == get_full_roles(R)
  <2>1. R \in SUBSET Group /\ full \in SUBSET Group
    BY FullRolesAreGroups, HostAssumption
  <2>2. ASSUME NEW uid \in Uid, NEW g \in (IF R = {} THEN {Own} ELSE R)
        PROVE  [uid |-> uid, gecos |-> <<>>, primary |-> g, groups |-> full,
                granted |-> full] \in Account
    BY <2>1, GecosWritten DEF Account
  <2>3. passwd' \in [User -> Account \cup {NoAccount}]
    BY <1>5, <2>2 DEF HostTypeOK, useradd, Added
  <2>4. faults' \in 0..MaxFaults
    BY <1>5, FaultTypes DEF useradd
  <2> QED
    BY <1>5, <2>3, <2>4 DEF HostTypeOK, useradd
<1>6. ASSUME NEW u \in Managed, NEW R \in Assigned, set_roles(u, R)
      PROVE  HostTypeOK'
  <2> DEFINE full == get_full_roles(R)
  <2>1. full \in SUBSET Group /\ u \in User
    BY FullRolesAreGroups, HostAssumption
  <2>2. passwd[u] \in Account
    BY <1>6, <2>1 DEF HostTypeOK, set_roles, Exists
  <2>3. [passwd[u] EXCEPT !.groups = full, !.granted = full] \in Account
    BY <2>1, <2>2 DEF Account
  <2>4. passwd' = [passwd EXCEPT
                     ![u] = [passwd[u] EXCEPT !.groups = full, !.granted = full]]
    BY <1>6 DEF set_roles
  <2> QED
    BY <1>6, <2>3, <2>4 DEF HostTypeOK, set_roles
<1>7. ASSUME NEW p \in Pid, NEW u \in User, Start(p, u) PROVE HostTypeOK'
  BY <1>7, HostAssumption DEF HostTypeOK, Start
<1>8. ASSUME NEW p \in Pid, NEW op \in {"add_unconfirmed_user", "user_confirm"},
             NEW R \in SUBSET Group, Alive(p), Send(p, op, R)
      PROVE  calls' \subseteq Call
  <2>1. login[p].user \in User
    BY <1>8 DEF LoginsHaveUsers
  <2>2. [op |-> op, user |-> login[p].user, pid |-> p, roles |-> R,
         live |-> TRUE] \in Call
    BY <2>1 DEF Call
  <2> QED
    BY <1>8, <2>2 DEF HostTypeOK, Send
<1>9. ASSUME NEW p \in Pid, getpwnam_r(p) PROVE HostTypeOK'
  <2>1. calls' \subseteq Call
    <3>1. CASE UNCHANGED calls
      BY <3>1 DEF HostTypeOK
    <3>2. CASE Send(p, "add_unconfirmed_user", {})
      BY <1>8, <1>9, <3>2 DEF getpwnam_r, Alive
    <3> QED
      BY <1>9, <3>1, <3>2 DEF getpwnam_r
  <2> QED
    BY <1>9, <2>1 DEF HostTypeOK, getpwnam_r, Goto
<1>10. ASSUME NEW p \in Pid, Reread(p) PROVE HostTypeOK'
  BY <1>10 DEF HostTypeOK, Reread, Goto
<1>11. ASSUME NEW p \in Pid, NEW R \in Grants, sac_user_confirm(p, R)
       PROVE  HostTypeOK'
  <2>1. calls' \subseteq Call
    BY <1>8, <1>11, HostAssumption DEF sac_user_confirm, Alive
  <2> QED
    BY <1>11, <2>1 DEF HostTypeOK, sac_user_confirm, Goto
<1>12. ASSUME NEW p \in Pid, Exit(p) PROVE HostTypeOK'
  <2>1. \A c \in Call : [c EXCEPT !.live = FALSE] \in Call
    BY DEF Call
  <2>2. calls' \subseteq Call
    BY <1>12, <2>1 DEF HostTypeOK, Exit
  <2> QED
    BY <1>12, <2>2 DEF HostTypeOK, Exit, NoLogin
<1>13. CASE UNCHANGED vars
  BY <1>13 DEF HostTypeOK, vars, hostVars
<1> QED
  BY <1>1, <1>2, <1>3, <1>4, <1>5, <1>6, <1>7, <1>9, <1>10, <1>11, <1>12, <1>13
     DEF Next, Hamd, Process

-----------------------------------------------------------------------------
(* Calls.                                                                  *)

(* An answer is given to the one process that waits for it.                *)
LEMMA ReplyKeeps ==
  ASSUME HostTypeOK, LoginsHaveUsers, CallsMatch, NEW c \in calls,
         NEW at \in {"reread", "in", "denied"}, Reply(c, at)
  PROVE  LoginsHaveUsers' /\ CallsMatch'
<1>1. c \in Call /\ calls \subseteq Call
  BY DEF HostTypeOK
<1>2. /\ calls' = calls \ {c}
      /\ login' = IF c.live THEN [login EXCEPT ![c.pid].at = at] ELSE login
  BY DEF Reply
<1>3. LoginsHaveUsers'
  <2> SUFFICES ASSUME NEW p \in Pid, login'[p].at # "none"
               PROVE  login'[p].user \in User
    BY DEF LoginsHaveUsers, Alive
  <2>1. CASE c.live /\ p = c.pid
    <3>1. login[p].at # "none"
      BY <2>1 DEF CallsMatch
    <3> QED
      BY <1>2, <2>1, <3>1 DEF LoginsHaveUsers, Alive, HostTypeOK
  <2>2. CASE ~(c.live /\ p = c.pid)
    BY <1>2, <2>2 DEF LoginsHaveUsers, Alive, HostTypeOK
  <2> QED
    BY <2>1, <2>2
<1>4. ASSUME NEW d \in calls', d.live PROVE login'[d.pid] = login[d.pid]
  <2>1. d \in Call /\ d # c
    BY <1>1, <1>2
  <2>2. c.live => c.pid # d.pid
    BY <1>2, <1>4, <2>1 DEF CallsMatch
  <2> QED
    BY <1>1, <1>2, <2>1, <2>2 DEF HostTypeOK, Call
<1>5. CallsMatch'
  BY <1>2, <1>4 DEF CallsMatch
<1> QED
  BY <1>3, <1>5

(* A process that sends a call has no other.                               *)
LEMMA SendKeeps ==
  ASSUME HostTypeOK, CallsMatch, NEW p \in Pid,
         NEW op \in {"add_unconfirmed_user", "user_confirm"}, NEW R,
         op = "user_confirm" => R \in Grants,
         login[p].at \notin {"ask", "confirm"}, Send(p, op, R),
         Goto(p, IF op = "user_confirm" THEN "confirm" ELSE "ask")
  PROVE  CallsMatch'
<1> DEFINE new == [op |-> op, user |-> login[p].user, pid |-> p, roles |-> R,
                   live |-> TRUE]
<1>1. calls' = calls \cup {new}
  BY DEF Send
<1>2. \A c \in calls : c.live => c.pid # p
  BY DEF CallsMatch
<1>3. \A c \in calls : c.live => login'[c.pid] = login[c.pid]
  BY <1>2 DEF HostTypeOK, Call, Goto
<1>4. /\ login'[p].user = login[p].user
      /\ login'[p].at = (IF op = "user_confirm" THEN "confirm" ELSE "ask")
  BY DEF HostTypeOK, Goto
<1>5. /\ new.op = op /\ new.roles = R /\ new.live
      /\ new.pid = p /\ new.user = login[p].user
  OBVIOUS
<1> HIDE DEF new
<1>6. \A c \in calls' : c.op = "user_confirm" => c.roles \in Grants
  BY <1>1, <1>5 DEF CallsMatch
<1>7. \A c \in calls' : c.live =>
        /\ login'[c.pid].user = c.user
        /\ login'[c.pid].at =
             (IF c.op = "user_confirm" THEN "confirm" ELSE "ask")
  BY <1>1, <1>3, <1>4, <1>5 DEF CallsMatch
<1>8. \A c, d \in calls' : c.live /\ d.live /\ c.pid = d.pid => c = d
  BY <1>1, <1>2, <1>5 DEF CallsMatch
<1> QED
  BY <1>6, <1>7, <1>8 DEF CallsMatch

(* Every step keeps calls and processes together.                          *)
LEMMA CallsNext ==
  HostTypeOK /\ LoginsHaveUsers /\ CallsMatch /\ [Next]_vars
    => LoginsHaveUsers' /\ CallsMatch'
<1> SUFFICES ASSUME HostTypeOK, LoginsHaveUsers, CallsMatch, [Next]_vars
             PROVE  LoginsHaveUsers' /\ CallsMatch'
  OBVIOUS
<1>1. ASSUME UNCHANGED <<login, calls>> PROVE LoginsHaveUsers' /\ CallsMatch'
  BY <1>1 DEF LoginsHaveUsers, CallsMatch, Alive
<1>2. ASSUME NEW c \in calls, add_unconfirmed_user(c) \/ user_confirm(c)
      PROVE  LoginsHaveUsers' /\ CallsMatch'
  BY <1>2, ReplyKeeps DEF add_unconfirmed_user, user_confirm
<1>3. ASSUME NEW p \in Pid, NEW u \in User, Start(p, u)
      PROVE  LoginsHaveUsers' /\ CallsMatch'
  <2>1. \A c \in calls : c.live => c.pid # p
    BY <1>3 DEF CallsMatch, Start, NoLogin
  <2>2. CallsMatch'
    BY <1>3, <2>1 DEF CallsMatch, Start, HostTypeOK, Call
  <2> QED
    BY <1>3, <2>2 DEF LoginsHaveUsers, Start, Alive, HostTypeOK
<1>4. ASSUME NEW p \in Pid, NEW at, Goto(p, at), Alive(p)
      PROVE  LoginsHaveUsers'
  BY <1>4 DEF LoginsHaveUsers, Alive, Goto, HostTypeOK
<1>5. ASSUME NEW p \in Pid, NEW at, Goto(p, at), UNCHANGED calls,
             login[p].at \notin {"ask", "confirm"}
      PROVE  CallsMatch'
  <2>1. \A c \in calls : c.live => c.pid # p
    BY <1>5 DEF CallsMatch
  <2> QED
    BY <1>5, <2>1 DEF CallsMatch, Goto, HostTypeOK, Call
<1>6. ASSUME NEW p \in Pid, getpwnam_r(p) PROVE LoginsHaveUsers' /\ CallsMatch'
  <2>1. login[p].at = "lookup" /\ Alive(p)
    BY <1>6 DEF getpwnam_r, Alive
  <2>2. CASE Goto(p, "auth") /\ UNCHANGED calls
    BY <1>4, <1>5, <2>1, <2>2
  <2>3. CASE Goto(p, "ask") /\ Send(p, "add_unconfirmed_user", {})
    BY <1>4, <2>1, <2>3, SendKeeps
  <2> QED
    BY <1>6, <2>2, <2>3 DEF getpwnam_r
<1>7. ASSUME NEW p \in Pid, Reread(p) PROVE LoginsHaveUsers' /\ CallsMatch'
  BY <1>4, <1>5, <1>7 DEF Reread, Alive
<1>8. ASSUME NEW p \in Pid, NEW R \in Grants, sac_user_confirm(p, R)
      PROVE  LoginsHaveUsers' /\ CallsMatch'
  <2>1. login[p].at = "auth" /\ Alive(p)
    BY <1>8 DEF sac_user_confirm, Alive
  <2>2. Goto(p, "confirm") /\ Send(p, "user_confirm", R)
    BY <1>8 DEF sac_user_confirm
  <2> QED
    BY <1>4, <2>1, <2>2, SendKeeps
<1>9. ASSUME NEW p \in Pid, Exit(p) PROVE LoginsHaveUsers' /\ CallsMatch'
  <2>1. LoginsHaveUsers'
    BY <1>9 DEF LoginsHaveUsers, Exit, Alive, NoLogin, HostTypeOK
  <2> DEFINE mine == {c \in calls : c.pid = p /\ c.live}
             left == {[c EXCEPT !.live = FALSE] : c \in mine}
  <2>2. calls' = (calls \ mine) \cup left
    BY <1>9 DEF Exit
  <2>3. \A d \in left : /\ ~d.live
                        /\ d.op = "user_confirm" => d.roles \in Grants
    BY DEF CallsMatch, HostTypeOK, Call
  <2>4. \A d \in calls \ mine : d.live => login'[d.pid] = login[d.pid]
    BY <1>9 DEF Exit, HostTypeOK, Call
  <2>5. CallsMatch'
    BY <2>2, <2>3, <2>4 DEF CallsMatch
  <2> QED
    BY <2>1, <2>5
<1> QED
  BY <1>1, <1>2, <1>3, <1>6, <1>7, <1>8, <1>9
     DEF Next, Hamd, Process, on_poll_timeout, userdel, useradd, set_roles,
         vars, hostVars

-----------------------------------------------------------------------------
(* Sessions.                                                               *)

(* An account is an entry.                                                 *)
LEMMA AccountExists ==
  ASSUME NEW pw, NEW u \in User, pw[u] \in Account
  PROVE  pw[u] # NoAccount
  BY AccountAssumption

(* A confirmed account is permanent.                                       *)
LEMMA ConfirmedIsPermanent ==
  ASSUME HostTypeOK', NEW u \in User, NEW a \in Account, NEW R,
         passwd'[u] = Confirmed(a, R), Confirmed(a, R) \in Account
  PROVE  Permanent(u)'
<1>1. passwd'[u].gecos = <<CONFIRMED_USER_MAGIC_STRING>>
  BY DEF Confirmed, Account
<1>2. passwd'[u] # NoAccount
  BY AccountAssumption
<1> QED
  BY <1>1, <1>2, MagicStrings DEF Permanent, Unconfirmed, Exists

(* What removing unconfirmed users leaves.                                 *)
LEMMA PermanentStays ==
  ASSUME HostTypeOK, NEW K, NEW u \in User, Permanent(u)
  PROVE  rm_unconfirmed_users(K)[u] = passwd[u]
  BY DEF rm_unconfirmed_users, Removable, Permanent

(* user_confirm writes an account, and a permanent one.                    *)
LEMMA ConfirmWrites ==
  ASSUME HostTypeOK, HostTypeOK', NEW c \in calls, user_confirm(c)
  PROVE  /\ \A u \in User : Permanent(u) => Permanent(u)'
         /\ c.live /\ login'[c.pid].at = "in" => Permanent(c.user)'
<1> DEFINE w == c.user
           R == get_full_roles(c.roles)
<1>1. c \in Call /\ w \in User /\ R \in SUBSET Group
  BY FullRolesAreGroups DEF HostTypeOK, Call
<1>2. CASE UNCHANGED passwd /\ Reply(c, "denied")
  <2>1. c.live => login'[c.pid].at = "denied"
    BY <1>1, <1>2 DEF Reply, HostTypeOK, Call
  <2> QED
    BY <1>2, <2>1 DEF Permanent, Unconfirmed, Exists
<1>3. CASE Permanent(w) /\ passwd' = [passwd EXCEPT ![w].granted = R]
  <2>1. passwd[w] \in Account
    BY <1>1, <1>3 DEF HostTypeOK, Permanent, Exists
  <2>2. passwd'[w] \in Account /\ passwd'[w].gecos = passwd[w].gecos
    <3>1. passwd'[w] = [passwd[w] EXCEPT !.granted = R]
      BY <1>1, <1>3 DEF HostTypeOK
    <3> QED
      BY <1>1, <2>1, <3>1 DEF Account
  <2>3. Permanent(w)'
    BY <1>3, <2>2, AccountAssumption DEF Permanent, Unconfirmed, Exists
  <2>4. \A u \in User \ {w} : passwd'[u] = passwd[u]
    BY <1>3 DEF HostTypeOK
  <2> QED
    BY <2>3, <2>4 DEF Permanent, Unconfirmed, Exists
<1>4. CASE Exists(w) /\ passwd' = [passwd EXCEPT ![w] = Confirmed(@, R)]
  <2>1. passwd[w] \in Account
    BY <1>1, <1>4 DEF HostTypeOK, Exists
  <2>2. Confirmed(passwd[w], R) \in Account
    BY <1>1, <2>1, GecosWritten DEF Account, Confirmed
  <2>3. passwd'[w] = Confirmed(passwd[w], R)
    BY <1>1, <1>4 DEF HostTypeOK
  <2>4. Permanent(w)'
    BY <1>1, <2>1, <2>2, <2>3, ConfirmedIsPermanent
  <2>5. \A u \in User \ {w} : passwd'[u] = passwd[u]
    BY <1>4 DEF HostTypeOK
  <2> QED
    BY <2>4, <2>5 DEF Permanent, Unconfirmed, Exists
<1> QED
  BY <1>2, <1>3, <1>4 DEF user_confirm, Permanent, Unconfirmed

(* Steps that take no account away keep what a process is promised.        *)
LEMMA PermanentKeeps ==
  ASSUME SessionHasAccount,
         \A u \in User : Permanent(u) => Permanent(u)',
         LoginsHaveUsers,
         \A p \in Pid : /\ login'[p].at = "in" => login'[p] = login[p]
                        /\ p \in expelled /\ login'[p].at = "in" => p \in expelled'
  PROVE  SessionHasAccount'
<1> SUFFICES ASSUME NEW p \in Pid, login'[p].at = "in"
             PROVE  Permanent(login[p].user)' \/ p \in expelled'
  BY DEF SessionHasAccount, Permanent, Unconfirmed, Exists
<1>1. login[p].user \in User
  BY DEF LoginsHaveUsers, Alive
<1>2. Permanent(login[p].user) \/ p \in expelled
  BY DEF SessionHasAccount
<1> QED
  BY <1>1, <1>2 DEF Permanent, Unconfirmed, Exists

(* Every step keeps the promise.                                           *)
LEMMA SessionNext == IInv /\ HostTypeOK' /\ [Next]_vars => SessionHasAccount'
<1> SUFFICES ASSUME IInv, HostTypeOK', [Next]_vars PROVE SessionHasAccount'
  OBVIOUS
<1> USE DEF IInv
<1>1. CASE UNCHANGED vars
  BY <1>1 DEF SessionHasAccount, Permanent, Unconfirmed, Exists, vars, hostVars
<1>2. ASSUME on_poll_timeout PROVE SessionHasAccount'
  <2>1. \A u \in User : Permanent(u) => passwd'[u] = passwd[u]
    BY <1>2, PermanentStays DEF on_poll_timeout
  <2>2. \A u \in User : Permanent(u) => Permanent(u)'
    BY <2>1 DEF Permanent, Unconfirmed, Exists
  <2> QED
    BY <1>2, <2>2, PermanentKeeps DEF on_poll_timeout
<1>3. ASSUME NEW c \in calls, add_unconfirmed_user(c) PROVE SessionHasAccount'
  <2>1. c \in Call
    BY DEF HostTypeOK
  <2>2. PICK K \in SUBSET Removable :
          LET u  == c.user
              pw == rm_unconfirmed_users(K)
          IN  \/ \E uid \in Tried(u, pw) : Added(u, pw, SAC(c.pid, uid))
              \/ passwd' = pw
    BY <1>3 DEF add_unconfirmed_user
  <2> DEFINE pw == rm_unconfirmed_users(K)
  <2>3. ASSUME NEW u \in User, Permanent(u) PROVE passwd'[u] = passwd[u]
    <3>1. pw[u] = passwd[u] /\ pw[u] # NoAccount
      BY <2>3, PermanentStays DEF Permanent, Exists
    <3>2. CASE passwd' = pw
      BY <3>1, <3>2
    <3>3. ASSUME NEW a, Added(c.user, pw, a) PROVE passwd'[u] = passwd[u]
      <4>1. pw \in [User -> Account \cup {NoAccount}]
        BY RemovedTypes
      <4> QED
        BY <3>1, <3>3, <4>1 DEF Added
    <3> QED
      BY <2>2, <3>2, <3>3
  <2>4. \A u \in User : Permanent(u) => Permanent(u)'
    BY <2>3 DEF Permanent, Unconfirmed, Exists
  <2>5. PICK at \in {"reread", "denied"} : Reply(c, at)
    BY <1>3 DEF add_unconfirmed_user
  <2>6. \A p \in Pid : login'[p].at = "in" => login'[p] = login[p]
    BY <2>1, <2>5 DEF Reply, HostTypeOK, Call
  <2> QED
    BY <1>3, <2>4, <2>6, PermanentKeeps DEF add_unconfirmed_user
<1>4. ASSUME NEW c \in calls, user_confirm(c) PROVE SessionHasAccount'
  <2>1. c \in Call
    BY DEF HostTypeOK
  <2>2. /\ \A u \in User : Permanent(u) => Permanent(u)'
        /\ c.live /\ login'[c.pid].at = "in" => Permanent(c.user)'
    BY <1>4, ConfirmWrites
  <2>3. PICK at \in {"in", "denied"} : Reply(c, at)
    BY <1>4 DEF user_confirm
  <2>4. \A p \in Pid : login'[p].user = login[p].user
    BY <2>1, <2>3 DEF Reply, HostTypeOK, Call
  <2>5. ASSUME NEW u \in User, NEW p \in Pid, login[p].user = u, Permanent(u)'
        PROVE  Permanent(login[p].user)'
    <3>1. login'[p].user = u
      BY <2>4, <2>5
    <3> QED
      BY <2>5, <3>1 DEF Permanent, Unconfirmed, Exists
  <2> SUFFICES ASSUME NEW p \in Pid, login'[p].at = "in"
               PROVE  Permanent(login[p].user)' \/ p \in expelled'
    BY DEF SessionHasAccount
  <2>6. CASE c.live /\ p = c.pid
    <3>1. login[p].user = c.user /\ c.user \in User
      BY <2>1, <2>6 DEF CallsMatch, Call
    <3>2. Permanent(c.user)'
      BY <2>2, <2>6
    <3> QED
      BY <2>5, <3>1, <3>2
  <2>7. CASE ~(c.live /\ p = c.pid)
    <3>1. login'[p] = login[p]
      BY <2>1, <2>3, <2>7 DEF Reply, HostTypeOK, Call
    <3>2. Permanent(login[p].user) \/ p \in expelled
      BY <3>1 DEF SessionHasAccount
    <3>3. p \in expelled => p \in expelled'
      BY <1>4, <2>7 DEF user_confirm
    <3>4. login[p].user \in User
      BY <3>1 DEF LoginsHaveUsers, Alive
    <3>5. ASSUME NEW u \in User, u = login[p].user, Permanent(u)
          PROVE  Permanent(login[p].user)'
      BY <2>2, <2>5, <3>5
    <3> QED
      BY <3>2, <3>3, <3>4, <3>5
  <2> QED
    BY <2>6, <2>7
<1>5. ASSUME NEW u \in Managed, userdel(u) PROVE SessionHasAccount'
  <2> SUFFICES ASSUME NEW p \in Pid, login[p].at = "in"
               PROVE  Permanent(login[p].user)' \/ p \in expelled'
    BY <1>5 DEF SessionHasAccount, userdel, Permanent, Unconfirmed, Exists
  <2>1. login[p].user \in User /\ u \in User
    BY HostAssumption DEF LoginsHaveUsers, Alive
  <2>2. Permanent(login[p].user) \/ p \in expelled
    BY DEF SessionHasAccount
  <2>3. CASE login[p].user = u \/ p \in expelled
    BY <1>5, <2>2, <2>3 DEF userdel, Permanent, Unconfirmed, Exists
  <2>4. CASE login[p].user # u /\ p \notin expelled
    <3>1. passwd'[login[p].user] = passwd[login[p].user]
      BY <1>5, <2>1, <2>4 DEF userdel, HostTypeOK
    <3> QED
      BY <1>5, <2>2, <2>4, <3>1 DEF userdel, Permanent, Unconfirmed, Exists
  <2> QED
    BY <2>3, <2>4
<1>6. ASSUME NEW u \in Managed, NEW R \in Assigned, useradd(u, R)
      PROVE  SessionHasAccount'
  <2>1. \A w \in User : Permanent(w) => passwd'[w] = passwd[w]
    BY <1>6, HostAssumption DEF useradd, Added, HostTypeOK, Permanent, Exists
  <2>2. \A w \in User : Permanent(w) => Permanent(w)'
    BY <2>1 DEF Permanent, Unconfirmed, Exists
  <2> QED
    BY <1>6, <2>2, PermanentKeeps DEF useradd
<1>7. ASSUME NEW u \in Managed, NEW R \in Assigned, set_roles(u, R)
      PROVE  SessionHasAccount'
  <2> DEFINE a == [passwd[u] EXCEPT !.groups = get_full_roles(R),
                                    !.granted = get_full_roles(R)]
  <2>1. u \in User /\ passwd' = [passwd EXCEPT ![u] = a]
    <3>1. u \in User
      BY HostAssumption
    <3>2. passwd' = [passwd EXCEPT ![u].groups = get_full_roles(R),
                                   ![u].granted = get_full_roles(R)]
      BY <1>7 DEF set_roles
    <3> QED
      BY <3>1, <3>2 DEF HostTypeOK
  <2>2. passwd[u] \in Account
    BY <1>7, <2>1 DEF set_roles, Exists, HostTypeOK
  <2>3. passwd'[u] = a /\ a.gecos = passwd[u].gecos
    BY <2>1, <2>2 DEF HostTypeOK, Account
  <2>4. a \in Account
    <3>1. get_full_roles(R) \in SUBSET Group
      BY FullRolesAreGroups, HostAssumption
    <3> QED
      BY <2>2, <3>1 DEF Account
  <2>5. \A w \in User : Permanent(w) => Permanent(w)'
    <3>1. Permanent(u) => Permanent(u)'
      BY <2>3, <2>4, AccountAssumption DEF Permanent, Unconfirmed, Exists
    <3>2. \A w \in User \ {u} : passwd'[w] = passwd[w]
      BY <2>1 DEF HostTypeOK
    <3> QED
      BY <3>1, <3>2 DEF Permanent, Unconfirmed, Exists
  <2> QED
    BY <1>7, <2>5, PermanentKeeps DEF set_roles
<1>8. ASSUME NEW p \in Pid, NEW u \in User, Start(p, u) PROVE SessionHasAccount'
  <2>1. \A q \in Pid : login'[q].at = "in" => login'[q] = login[q]
    BY <1>8 DEF Start, HostTypeOK
  <2>2. \A w \in User : Permanent(w) => Permanent(w)'
    BY <1>8 DEF Start, Permanent, Unconfirmed, Exists
  <2> QED
    BY <1>8, <2>1, <2>2, PermanentKeeps DEF Start
<1>9. ASSUME NEW p \in Pid, NEW at, Goto(p, at), at # "in",
             UNCHANGED <<passwd, expelled>>
      PROVE  SessionHasAccount'
  <2>1. \A q \in Pid : login'[q].at = "in" => login'[q] = login[q]
    BY <1>9 DEF Goto, HostTypeOK
  <2>2. \A w \in User : Permanent(w) => Permanent(w)'
    BY <1>9 DEF Permanent, Unconfirmed, Exists
  <2> QED
    BY <1>9, <2>1, <2>2, PermanentKeeps
<1>10. ASSUME NEW p \in Pid, getpwnam_r(p) \/ Reread(p) PROVE SessionHasAccount'
  BY <1>9, <1>10 DEF getpwnam_r, Reread
<1>11. ASSUME NEW p \in Pid, NEW R \in Grants, sac_user_confirm(p, R)
       PROVE  SessionHasAccount'
  BY <1>9, <1>11 DEF sac_user_confirm
<1>12. ASSUME NEW p \in Pid, Exit(p) PROVE SessionHasAccount'
  <2>1. /\ login' = [login EXCEPT ![p] = NoLogin]
        /\ expelled' = expelled \ {p} /\ UNCHANGED passwd
    BY <1>12 DEF Exit
  <2>2. \A q \in Pid : login'[q].at = "in" => login'[q] = login[q] /\ q # p
    BY <2>1 DEF HostTypeOK, NoLogin
  <2>3. \A w \in User : Permanent(w) => Permanent(w)'
    BY <2>1 DEF Permanent, Unconfirmed, Exists
  <2> QED
    BY <2>1, <2>2, <2>3, PermanentKeeps
<1> QED
  BY <1>1, <1>2, <1>3, <1>4, <1>5, <1>6, <1>7, <1>8, <1>10, <1>11, <1>12
     DEF Next, Hamd, Process

(* The daemon starts without accounts, processes and calls.                *)
LEMMA InvInit == Init => IInv
<1> SUFFICES ASSUME Init PROVE IInv
  OBVIOUS
<1>1. HostTypeOK
  BY HostAssumption DEF Init, HostTypeOK, NoLogin
<1> QED
  BY <1>1 DEF Init, IInv, LoginsHaveUsers, CallsMatch, SessionHasAccount, Alive,
              NoLogin

LEMMA InvNext == IInv /\ [Next]_vars => IInv'
  BY TypeNext, CallsNext, SessionNext DEF IInv

LEMMA InvHolds == Spec => []IInv
  BY InvInit, InvNext, PTL DEF Spec

(* Accounts, processes and calls always have their types.                  *)
THEOREM HostTypeCorrect == Spec => []HostTypeOK
<1>1. IInv => HostTypeOK
  BY DEF IInv
<1> QED
  BY <1>1, InvHolds, PTL

(* Whoever was let in has a permanent account until the session ends or    *)
(* userdel takes it away.                                                  *)
THEOREM SessionsHaveAccounts == Spec => []SessionHasAccount
<1>1. IInv => SessionHasAccount
  BY DEF IInv
<1> QED
  BY <1>1, InvHolds, PTL

-----------------------------------------------------------------------------
(* Permanence.                                                             *)

(* An account becomes permanent only by the user_confirm that follows      *)
(* authentication, or is made by useradd.                                  *)
THEOREM OnlyConfirmedArePermanent == Spec => PermanentByConfirm
<1> DEFINE Confirms(u) == \E c \in calls \ calls' : c.op = "user_confirm" /\ c.user = u
           Made(u) == ~Exists(u) /\ passwd'[u].gecos = <<>>
<1>1. IInv /\ [Next]_vars =>
        [\A u \in User : ~Permanent(u) /\ Permanent(u)' =>
           \/ \E c \in calls \ calls' : c.op = "user_confirm" /\ c.user = u
           \/ ~Exists(u) /\ passwd'[u].gecos = <<>>]_vars
  <2> SUFFICES ASSUME IInv, Next, NEW u \in User, ~Permanent(u), Permanent(u)'
               PROVE  Confirms(u) \/ Made(u)
    OBVIOUS
  <2> USE DEF IInv
  <2>1. CASE passwd'[u] = passwd[u] \/ passwd'[u] = NoAccount
    BY <2>1 DEF Permanent, Unconfirmed, Exists
  <2>2. ASSUME on_poll_timeout PROVE Confirms(u) \/ Made(u)
    BY <2>1, <2>2 DEF on_poll_timeout, rm_unconfirmed_users
  <2>3. ASSUME NEW c \in calls, add_unconfirmed_user(c)
        PROVE  Confirms(u) \/ Made(u)
    <3>1. PICK K \in SUBSET Removable :
            LET w  == c.user
                pw == rm_unconfirmed_users(K)
            IN  \/ \E uid \in Tried(w, pw) : Added(w, pw, SAC(c.pid, uid))
                \/ passwd' = pw
      BY <2>3 DEF add_unconfirmed_user
    <3> DEFINE pw == rm_unconfirmed_users(K)
    <3>2. pw \in [User -> Account \cup {NoAccount}]
          /\ (pw[u] = passwd[u] \/ pw[u] = NoAccount)
      BY RemovedTypes DEF rm_unconfirmed_users
    <3>3. ASSUME NEW uid \in Tried(c.user, pw),
                 Added(c.user, pw, SAC(c.pid, uid)), u = c.user
          PROVE  FALSE
      <4>1. passwd'[u] = SAC(c.pid, uid)
        BY <3>2, <3>3 DEF Added
      <4>2. passwd'[u].gecos = Comment(c.pid)
        BY <4>1 DEF SAC
      <4>3. startswith(Comment(c.pid), UNCONFIRMED_USER_MAGIC_STRING)
        BY DEF startswith, Comment
      <4> QED
        BY <4>2, <4>3 DEF Permanent, Unconfirmed, Exists
    <3>4. ASSUME NEW uid \in Tried(c.user, pw),
                 Added(c.user, pw, SAC(c.pid, uid)), u # c.user
          PROVE  passwd'[u] = pw[u]
      BY <3>2, <3>4 DEF Added
    <3> QED
      BY <2>1, <3>1, <3>2, <3>3, <3>4
  <2>4. ASSUME NEW c \in calls, user_confirm(c) PROVE Confirms(u) \/ Made(u)
    <3>1. CASE c.user = u
      BY <2>4, <3>1 DEF user_confirm, Reply
    <3>2. CASE c.user # u
      <4>1. passwd'[u] = passwd[u]
        BY <2>4, <3>2 DEF user_confirm, HostTypeOK
      <4> QED
        BY <2>1, <4>1
    <3> QED
      BY <3>1, <3>2
  <2>5. ASSUME NEW w \in Managed, userdel(w) PROVE Confirms(u) \/ Made(u)
    BY <2>1, <2>5 DEF userdel, HostTypeOK
  <2>6. ASSUME NEW w \in Managed, NEW R \in Assigned, useradd(w, R)
        PROVE  Confirms(u) \/ Made(u)
    <3>1. CASE u = w /\ passwd' # passwd
      BY <2>6, <3>1 DEF useradd, Added, Exists, HostTypeOK
    <3>2. CASE u # w \/ passwd' = passwd
      BY <2>1, <2>6, <3>2 DEF useradd, Added, HostTypeOK
    <3> QED
      BY <3>1, <3>2
  <2>7. ASSUME NEW w \in Managed, NEW R \in Assigned, set_roles(w, R)
        PROVE  Confirms(u) \/ Made(u)
    <3>1. CASE u = w
      <4>1. passwd[u] \in Account
        BY <2>7, <3>1 DEF set_roles, Exists, HostTypeOK
      <4>2. passwd'[u].gecos = passwd[u].gecos
        BY <2>7, <3>1, <4>1 DEF set_roles, HostTypeOK, Account
      <4>3. Exists(u)
        BY <2>7, <3>1 DEF set_roles
      <4>4. Unconfirmed(u)
        BY <4>3 DEF Permanent
      <4>5. Unconfirmed(u)' \/ ~Exists(u)'
        BY <4>2, <4>4 DEF Unconfirmed, Exists
      <4> QED
        BY <4>5 DEF Permanent
    <3>2. CASE u # w
      BY <2>1, <2>7, <3>2 DEF set_roles, HostTypeOK
    <3> QED
      BY <3>1, <3>2
  <2>8. ASSUME NEW p \in Pid, Process(p) PROVE Confirms(u) \/ Made(u)
    <3>1. UNCHANGED passwd
      BY <2>8 DEF Process, Start, getpwnam_r, Reread, sac_user_confirm, Exit
    <3> QED
      BY <2>1, <3>1
  <2> QED
    BY <2>2, <2>3, <2>4, <2>5, <2>6, <2>7, <2>8 DEF Next, Hamd
<1> QED
  BY <1>1, InvHolds, PTL DEF Spec, PermanentByConfirm

-----------------------------------------------------------------------------
(* Roles.                                                                  *)

RolesOf(a) ==
  a.granted # {} => /\ a.groups \subseteq a.granted \cup {a.primary}
                    /\ a.granted \cap Known \subseteq Effective(a, a.groups)

(* The handlers that write groups write those they are given.              *)
LEMMA RolesNext ==
  ASSUME IInv, RolesAsGranted, [Next]_vars
  PROVE  RolesAsGranted'
<1> USE DEF IInv
<1> SUFFICES ASSUME NEW u \in User, passwd'[u] # NoAccount
             PROVE  RolesOf(passwd'[u])
  BY DEF RolesAsGranted, Exists, RolesOf, Effective
<1>1. CASE passwd'[u] = passwd[u]
  BY <1>1 DEF RolesAsGranted, RolesOf, Exists
<1>2. ASSUME on_poll_timeout PROVE RolesOf(passwd'[u])
  BY <1>1, <1>2 DEF on_poll_timeout, rm_unconfirmed_users
<1>3. ASSUME NEW c \in calls, add_unconfirmed_user(c) PROVE RolesOf(passwd'[u])
  <2>1. PICK K \in SUBSET Removable :
          LET w  == c.user
              pw == rm_unconfirmed_users(K)
          IN  \/ \E uid \in Tried(w, pw) : Added(w, pw, SAC(c.pid, uid))
              \/ passwd' = pw
    BY <1>3 DEF add_unconfirmed_user
  <2> DEFINE pw == rm_unconfirmed_users(K)
  <2>2. pw \in [User -> Account \cup {NoAccount}]
        /\ (pw[u] = passwd[u] \/ pw[u] = NoAccount)
    BY RemovedTypes DEF rm_unconfirmed_users
  <2>3. ASSUME NEW uid, Added(c.user, pw, SAC(c.pid, uid))
        PROVE  passwd'[u] = pw[u] \/ passwd'[u] = SAC(c.pid, uid)
    BY <2>2, <2>3 DEF Added
  <2>4. ASSUME NEW uid PROVE RolesOf(SAC(c.pid, uid))
    BY DEF RolesOf, Effective, SAC
  <2> QED
    BY <1>1, <2>1, <2>2, <2>3, <2>4
<1>4. ASSUME NEW c \in calls, user_confirm(c) PROVE RolesOf(passwd'[u])
  <2> DEFINE R == get_full_roles(c.roles)
             a == passwd[u]
  <2>1. CASE c.user # u \/ UNCHANGED passwd
    BY <1>1, <1>4, <2>1 DEF user_confirm, HostTypeOK
  <2>2. R \in SUBSET Group
    BY FullRolesAreGroups DEF HostTypeOK, Call
  <2>3. CASE /\ c.user = u /\ Permanent(u) /\ ~must_update_roles(u, R)
             /\ passwd' = [passwd EXCEPT ![u].granted = R]
    <3>1. a \in Account
      BY <2>3 DEF HostTypeOK, Permanent, Exists
    <3>2. passwd'[u] = [a EXCEPT !.granted = R]
      BY <2>3 DEF HostTypeOK
    <3>3. /\ passwd'[u].groups = a.groups /\ passwd'[u].primary = a.primary
          /\ passwd'[u].granted = R
      BY <3>1, <3>2 DEF Account
    <3> QED
      BY <2>3, <3>3 DEF must_update_roles, RolesOf, Effective
  <2>4. CASE /\ c.user = u /\ Exists(u)
             /\ passwd' = [passwd EXCEPT ![u] = Confirmed(@, R)]
    <3>1. a \in Account
      BY <2>4 DEF HostTypeOK, Exists
    <3>2. passwd'[u] = Confirmed(a, R)
      BY <2>4 DEF HostTypeOK
    <3>3. /\ passwd'[u].granted = R
          /\ R # {} => passwd'[u].groups = R
      BY <3>1, <3>2 DEF Confirmed, Account
    <3> QED
      BY <3>3 DEF RolesOf, Effective
  <2> QED
    BY <1>4, <2>1, <2>3, <2>4 DEF user_confirm, Permanent, Unconfirmed
<1>5. ASSUME NEW w \in Managed, userdel(w) PROVE RolesOf(passwd'[u])
  BY <1>1, <1>5 DEF userdel, HostTypeOK
<1>6. ASSUME NEW w \in Managed, NEW R \in Assigned, useradd(w, R)
      PROVE  RolesOf(passwd'[u])
  <2>1. passwd'[u] = passwd[u] \/ passwd'[u].groups = passwd'[u].granted
    BY <1>6 DEF useradd, Added, HostTypeOK
  <2> QED
    BY <1>1, <2>1 DEF RolesOf, Effective
<1>7. ASSUME NEW w \in Managed, NEW R \in Assigned, set_roles(w, R)
      PROVE  RolesOf(passwd'[u])
  <2>1. CASE u # w
    BY <1>1, <1>7, <2>1 DEF set_roles, HostTypeOK
  <2>2. CASE u = w
    <3>1. passwd[u] \in Account
      BY <1>7, <2>2 DEF set_roles, Exists, HostTypeOK
    <3>2. /\ passwd'[u].groups = get_full_roles(R)
          /\ passwd'[u].granted = get_full_roles(R)
      BY <1>7, <2>2, <3>1 DEF set_roles, HostTypeOK, Account
    <3> QED
      BY <3>2 DEF RolesOf, Effective
  <2> QED
    BY <2>1, <2>2
<1>8. CASE UNCHANGED passwd
  BY <1>1, <1>8
<1> QED
  BY <1>2, <1>3, <1>4, <1>5, <1>6, <1>7, <1>8
     DEF Next, Hamd, Process, Start, getpwnam_r, Reread, sac_user_confirm, Exit,
         vars, hostVars

(* Of an earlier grant nothing is left and of the last one no group is     *)
(* missing, unless it named no role: then user_confirm leaves the groups   *)
(* alone.                                                                  *)
THEOREM RolesAreGranted == Spec => []RolesAsGranted
<1>1. Init => RolesAsGranted
  BY DEF Init, RolesAsGranted, Exists
<1>2. IInv /\ RolesAsGranted /\ [Next]_vars => RolesAsGranted'
  BY RolesNext
<1> QED
  BY <1>1, <1>2, InvHolds, PTL DEF Spec

-----------------------------------------------------------------------------
(* Colliding uids.                                                         *)

Below == {ss \in Nat \X Nat : ss[1] < ss[2]}

LEMMA LeastOne ==
  ASSUME NEW F \in SUBSET Nat, F # {}
  PROVE  \E j \in F : \A k \in F : j <= k
<1>1. IsWellFoundedOn(Below, Nat)
  BY NatLessThanWellFounded DEF Below, OpToRel
<1>2. PICK j \in F : \A k \in F : <<k, j>> \notin Below
  BY <1>1, WFMin
<1>3. ASSUME NEW k \in F
      PROVE  j <= k
  <2>1. <<k, j>> \in Nat \X Nat
    OBVIOUS
  <2>2. ~(k < j)
    BY <1>2, <2>1 DEF Below
  <2> QED
    BY <2>2
<1> QED
  BY <1>3

(* Some candidate is tried, unless all are in use.                         *)
LEMMA FreeIsTried ==
  ASSUME NEW u \in User, NEW pw, NEW i \in DOMAIN Candidates[u],
         Candidates[u][i] \notin Used(pw)
  PROVE  ~(Tried(u, pw) \subseteq Used(pw))
<1>1. Free(u, pw) \in SUBSET Nat /\ Free(u, pw) # {}
  <2>1. Candidates[u] \in Seq(Uid)
    BY HostAssumption
  <2> QED
    BY <2>1 DEF Free
<1>2. PICK j \in Free(u, pw) : \A k \in Free(u, pw) : j <= k
  BY <1>1, LeastOne
<1>3. Candidates[u][j] \in Tried(u, pw)
  BY <1>2 DEF Tried
<1>4. Candidates[u][j] \notin Used(pw)
  BY <1>2 DEF Free
<1> QED
  BY <1>3, <1>4

(* A process that waits for add_unconfirmed_user and is refused in a step  *)
(* is refused by the handler of its call.                                  *)
LEMMA RefusedByHandler ==
  ASSUME HostTypeOK, CallsMatch, Next, NEW c \in calls,
         c.op = "add_unconfirmed_user", c.live,
         login[c.pid].at = "ask", login'[c.pid].at = "denied"
  PROVE  add_unconfirmed_user(c)
<1>0. c.pid \in Pid
  BY DEF HostTypeOK, Call
<1>1. ASSUME NEW d \in calls, NEW at, Reply(d, at)
      PROVE  d = c
  <2>1. d.live /\ d.pid = c.pid
    BY <1>0, <1>1 DEF Reply, HostTypeOK, Call
  <2> QED
    BY <2>1 DEF CallsMatch
<1>2. ASSUME NEW d \in calls, add_unconfirmed_user(d)
      PROVE  d = c
  BY <1>1, <1>2 DEF add_unconfirmed_user
<1>3. ASSUME NEW d \in calls, user_confirm(d)
      PROVE  d = c
  BY <1>1, <1>3 DEF user_confirm
<1>4. ASSUME NEW p \in Pid, Process(p)
      PROVE  FALSE
  BY <1>0, <1>4 DEF Process, Start, getpwnam_r, Reread, sac_user_confirm, Exit, Goto,
                    NoLogin, HostTypeOK
<1>5. ~UNCHANGED login
  OBVIOUS
<1> QED
  BY <1>2, <1>3, <1>4, <1>5
  DEF Next, Hamd, on_poll_timeout, userdel, useradd, set_roles, user_confirm

(* add_unconfirmed_user refuses a login only when it has an account, when  *)
(* all the candidates are in use, or when a command fails: one colliding   *)
(* hash is not enough (hamd.cpp, add_unconfirmed_user).                    *)
THEOREM CollisionsAreResolved == Spec => CollisionIsResolved
<1>1. IInv /\ [Next]_vars =>
        [\A c \in calls :
           /\ c.op = "add_unconfirmed_user" /\ c.live
           /\ login'[c.pid].at = "denied" /\ login[c.pid].at = "ask"
           /\ UNCHANGED faults
           => \/ passwd'[c.user] # NoAccount
              \/ \A i \in DOMAIN Candidates[c.user] :
                   Candidates[c.user][i] \in Used(passwd')]_vars
  <2> SUFFICES ASSUME HostTypeOK, CallsMatch, Next, NEW c \in calls,
                      c.op = "add_unconfirmed_user", c.live, UNCHANGED faults,
                      login[c.pid].at = "ask", login'[c.pid].at = "denied",
                      passwd'[c.user] = NoAccount,
                      NEW i \in DOMAIN Candidates[c.user]
               PROVE  Candidates[c.user][i] \in Used(passwd')
    BY DEF IInv
  <2>1. add_unconfirmed_user(c) /\ c.user \in User /\ c.pid \in Pid
    BY RefusedByHandler DEF HostTypeOK, Call
  <2>2. \A bad : Faulty(bad) => ~bad
    BY DEF Faulty, HostTypeOK
  <2>3. ~Reply(c, "reread")
    BY <2>1 DEF Reply, HostTypeOK
  <2>4. Tried(c.user, passwd') \subseteq Used(passwd')
    BY <2>1, <2>2, <2>3 DEF add_unconfirmed_user
  <2> QED
    BY <2>1, <2>4, FreeIsTried
<1> QED
  BY <1>1, InvHolds, PTL DEF Spec, CollisionIsResolved
=============================================================================
