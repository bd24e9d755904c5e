---------------------------- MODULE HostAccounts ----------------------------
(***************************************************************************)
(* The host account daemon src/ham/hamd/hamd.cpp and the login processes   *)
(* that call it through src/ham/libnss_sac and src/ham/libham: accounts    *)
(* made for a login that is not yet authenticated, made permanent when a   *)
(* RADIUS or TACACS+ server accepts it, and removed when it never was.     *)
(*                                                                         *)
(* hamd runs one handler at a time on its GLib main loop, and a handler    *)
(* waits for the commands it starts, so a handler is one step.  A login    *)
(* process may end at any moment; a D-Bus call it has sent is handled all  *)
(* the same, and its pid may be given to another process.  A command       *)
(* (useradd, usermod, userdel, certgen) may fail for reasons of its own,   *)
(* besides those its arguments give, in at most MaxFaults handlers.        *)
(* Passwords, certificates and home directories are left out.              *)
(***************************************************************************)
EXTENDS Naturals, Sequences

CONSTANTS User,        \* login names
          Managed,     \* those administrators add, change and delete
          Pid,         \* process ids
          Uid,         \* user ids
          Group,       \* group names; a role is the name of a group
          Known,       \* the groups of /etc/group
          Implied,     \* the internal groups that come with a role
          Grants,      \* lists of roles the servers grant
          Assigned,    \* lists of roles administrators assign
          Candidates,  \* uids the hashes of a login and its variants give
          NoAccount,   \* no entry in /etc/passwd
          Own,         \* the primary group named after its user
          Nobody,      \* the user of a process that is not a login
          MaxFaults,   \* bound: handlers in which commands fail
          MaxLogins    \* bound: login processes

ASSUME HostAssumption ==
  /\ Managed \subseteq User
  /\ Known \subseteq Group
  /\ Implied \in [Group -> SUBSET Group]
  /\ Grants \subseteq SUBSET Group /\ Assigned \subseteq SUBSET Group
  /\ Candidates \in [User -> Seq(Uid)]
  /\ Own \notin Group
  /\ Nobody \notin User
  /\ MaxFaults \in Nat /\ MaxLogins \in Nat

VARIABLES passwd,    \* the entry of each user in /etc/passwd and /etc/group
          login,     \* the processes that log users in
          calls,     \* D-Bus calls hamd has not handled
          faults,    \* handlers in which commands failed so far
          started,   \* login processes so far
          expelled   \* history: processes whose user was deleted since they
                     \* were last let in or refused

hostVars == <<passwd, login, calls, faults, started>>
vars == <<hostVars, expelled>>

(* The GECOS field, in words.                                              *)
UNCONFIRMED_USER_MAGIC_STRING == "Unconfirmed SAC user"
CONFIRMED_USER_MAGIC_STRING   == "SAC user"

Comment(p) == <<UNCONFIRMED_USER_MAGIC_STRING, " ", p>>
Gecos == {Comment(p) : p \in Pid} \cup {<<>>, <<CONFIRMED_USER_MAGIC_STRING>>}

Account == [uid : Uid, gecos : Gecos, primary : Group \cup {Own},
            groups : SUBSET Group,
            granted : SUBSET Group]  \* history: the roles last granted
ASSUME AccountAssumption == NoAccount \notin Account

Call == [op : {"add_unconfirmed_user", "user_confirm"}, user : User,
         pid : Pid, roles : SUBSET Group, live : BOOLEAN]

HostTypeOK ==
  /\ passwd \in [User -> Account \cup {NoAccount}]
  /\ login \in [Pid -> [user : User \cup {Nobody},
                        at : {"none", "lookup", "ask", "reread", "auth",
                              "confirm", "in", "denied"}]]
  /\ calls \subseteq Call
  /\ faults \in 0..MaxFaults /\ started \in 0..MaxLogins
  /\ expelled \subseteq Pid

NoLogin == [user |-> Nobody, at |-> "none"]

(* The administrator's accounts and those of the system are left out of    *)
(* Init: useradd may make them.                                            *)
Init ==
  /\ passwd = [u \in User |-> NoAccount]
  /\ login = [p \in Pid |-> NoLogin]
  /\ calls = {}
  /\ faults = 0 /\ started = 0
  /\ expelled = {}

Exists(u)    == passwd[u] # NoAccount
Alive(p)     == login[p].at # "none"
Used(pw)     == {pw[u].uid : u \in {v \in User : pw[v] # NoAccount}}
Goto(p, at)  == login' = [login EXCEPT ![p].at = at]

Faulty(bad)  == IF bad THEN faults < MaxFaults /\ faults' = faults + 1
                ELSE UNCHANGED faults

-----------------------------------------------------------------------------
(* rm_unconfirmed_users.                                                   *)

startswith(gecos, magic) == gecos # <<>> /\ gecos[1] = magic

(* What startswith returns: the rest of the string.                        *)
pid_p(gecos) == Tail(gecos)

(* In /proc, which has a directory named by the pid of each process.       *)
g_file_test(path) == path \in {<<p>> : p \in {q \in Pid : Alive(q)}}

Unconfirmed(u) ==
  Exists(u) /\ startswith(passwd[u].gecos, UNCONFIRMED_USER_MAGIC_STRING)
Permanent(u) == Exists(u) /\ ~Unconfirmed(u)

(* As if the entries of confirmed users, whose GECOS ends the same way,    *)
(* were tested too.                                                        *)
Removable_anySAC ==
  {u \in User : /\ Exists(u) /\ passwd[u].gecos # <<>>
                /\ ~g_file_test(pid_p(passwd[u].gecos))}

(* As if the test were the other way round.                                *)
Removable_alive ==
  {u \in User : Unconfirmed(u) /\ g_file_test(pid_p(passwd[u].gecos))}

Removable ==
  {u \in User : Unconfirmed(u) /\ ~g_file_test(pid_p(passwd[u].gecos))}

(* userdel fails for the users in K.                                       *)
rm_unconfirmed_users(K) ==
  [u \in User |-> IF u \in Removable \ K THEN NoAccount ELSE passwd[u]]

on_poll_timeout ==
  /\ \E K \in SUBSET Removable :
       Faulty(K # {}) /\ passwd' = rm_unconfirmed_users(K)
  /\ UNCHANGED <<login, calls, started, expelled>>

-----------------------------------------------------------------------------
(* The D-Bus interface of the login processes.                             *)

(* The caller goes on with the answer, if it is still there.               *)
Reply(c, at) ==
  /\ calls' = calls \ {c}
  /\ login' = IF c.live THEN [login EXCEPT ![c.pid].at = at] ELSE login

(* As if a candidate were not looked up before useradd is given it.        *)
Free_unchecked(u, pw) == DOMAIN Candidates[u]

(* The tries of add_unconfirmed_user that find an unused uid.              *)
Free(u, pw) == {i \in DOMAIN Candidates[u] : Candidates[u][i] \notin Used(pw)}

(* useradd refuses a login or a uid that is in use.                        *)
Added(u, pw, account) ==
  /\ pw[u] = NoAccount /\ account.uid \notin Used(pw)
  /\ passwd' = [pw EXCEPT ![u] = account]

(* As if the account were made for good.                                   *)
SAC_confirmed(p, uid) ==
  [uid |-> uid, gecos |-> <<CONFIRMED_USER_MAGIC_STRING>>, primary |-> Own,
   groups |-> {}, granted |-> {}]

SAC(p, uid) ==
  [uid |-> uid, gecos |-> Comment(p), primary |-> Own, groups |-> {},
   granted |-> {}]

(* Only the first unused candidate is tried.                               *)
Tried(u, pw) ==
  {Candidates[u][i] : i \in {j \in Free(u, pw) :
                               \A k \in Free(u, pw) : j <= k}}

add_unconfirmed_user(c) ==
  /\ c \in calls /\ c.op = "add_unconfirmed_user"
  /\ \E K \in SUBSET Removable :
       LET u  == c.user
           pw == rm_unconfirmed_users(K)
       IN  \/ /\ \E uid \in Tried(u, pw) : Added(u, pw, SAC(c.pid, uid))
              /\ Faulty(K # {})
              /\ Reply(c, "reread")
           \/ /\ \/ Tried(u, pw) \subseteq Used(pw) /\ Faulty(K # {})
                 \/ pw[u] # NoAccount /\ Faulty(K # {})
                 \/ Tried(u, pw) # {} /\ Faulty(TRUE)
              /\ passwd' = pw
              /\ Reply(c, "denied")
  /\ UNCHANGED <<started, expelled>>

get_full_roles(R)   == R \cup UNION {Implied[r] : r \in R}
Effective(a, R)     == R \cup {a.primary}

(* As if only missing roles called for an update.                          *)
must_update_roles_grow(u, R) ==
  ~(Effective(passwd[u], R \cap Known) \subseteq
      Effective(passwd[u], passwd[u].groups))

(* A role without a group is left out of the comparison.                   *)
must_update_roles(u, R) ==
  Effective(passwd[u], passwd[u].groups) #
    Effective(passwd[u], R \cap Known)

(* As if the pid were kept in the comment.                                 *)
Confirmed_keepsPid(a, R) ==
  [a EXCEPT !.gecos = <<CONFIRMED_USER_MAGIC_STRING>> \o
                        (IF @ = <<>> THEN <<>> ELSE Tail(@)),
            !.groups = IF R = {} THEN @ ELSE R,
            !.granted = R]

(* usermod with the roles R; without roles it is not told about groups.    *)
Confirmed(a, R) ==
  [a EXCEPT !.gecos = <<CONFIRMED_USER_MAGIC_STRING>>,
            !.groups = IF R = {} THEN @ ELSE R,
            !.granted = R]

(* A failing certgen is reported, but the user stays confirmed.            *)
user_confirm(c) ==
  LET u == c.user
      R == get_full_roles(c.roles)
  IN  /\ c \in calls /\ c.op = "user_confirm"
      /\ \/ ~Exists(u) /\ Faulty(FALSE) /\ Reply(c, "denied")
            /\ UNCHANGED passwd
         \/ /\ Permanent(u) /\ ~must_update_roles(u, R)
            /\ Faulty(FALSE) /\ Reply(c, "in")
            /\ passwd' = [passwd EXCEPT ![u].granted = R]
         \/ /\ Unconfirmed(u) \/ (Exists(u) /\ must_update_roles(u, R))
            /\ \/ /\ Faulty(R \subseteq Known)
                  /\ Reply(c, "denied")
                  /\ UNCHANGED passwd
               \/ /\ R \subseteq Known
                  /\ passwd' = [passwd EXCEPT ![u] = Confirmed(@, R)]
                  /\ \/ Faulty(FALSE) /\ Reply(c, "in")
                     \/ Faulty(TRUE) /\ Reply(c, "denied")
      /\ expelled' = IF c.live THEN expelled \ {c.pid} ELSE expelled
      /\ UNCHANGED started

-----------------------------------------------------------------------------
(* The D-Bus interface of the management framework.                        *)

(* The first role is the primary group.  When certgen fails the user is    *)
(* deleted again, if userdel can.                                          *)
useradd(u, R) ==
  /\ \/ /\ get_full_roles(R) \subseteq Known
        /\ \E uid \in Uid, g \in (IF R = {} THEN {Own} ELSE R) :
             Added(u, passwd, [uid |-> uid, gecos |-> <<>>, primary |-> g,
                               groups |-> get_full_roles(R),
                               granted |-> get_full_roles(R)])
        /\ \E bad \in BOOLEAN : Faulty(bad)
     \/ /\ Faulty(Used(passwd) # Uid /\ ~Exists(u) /\
                  get_full_roles(R) \subseteq Known)
        /\ UNCHANGED passwd
  /\ UNCHANGED <<login, calls, started, expelled>>

userdel(u) ==
  /\ Exists(u)
  /\ \/ /\ passwd' = [passwd EXCEPT ![u] = NoAccount]
        /\ expelled' = expelled \cup {p \in Pid : login[p].user = u}
        /\ UNCHANGED faults
     \/ Faulty(TRUE) /\ UNCHANGED <<passwd, expelled>>
  /\ UNCHANGED <<login, calls, started>>

(* A usermod that fails changes nothing.                                   *)
set_roles(u, R) ==
  /\ Exists(u) /\ get_full_roles(R) \subseteq Known
  /\ passwd' = [passwd EXCEPT ![u].groups = get_full_roles(R),
                       ![u].granted = get_full_roles(R)]
  /\ UNCHANGED <<login, calls, started, faults, expelled>>

-----------------------------------------------------------------------------
(* A login process: sshd, login or su with libnss_sac and the PAM module.  *)

Send(p, op, R) ==
  calls' = calls \cup {[op |-> op, user |-> login[p].user, pid |-> p,
                        roles |-> R, live |-> TRUE]}

Start(p, u) ==
  /\ login[p] = NoLogin /\ started < MaxLogins
  /\ started' = started + 1
  /\ login' = [login EXCEPT ![p] = [user |-> u, at |-> "lookup"]]
  /\ UNCHANGED <<passwd, calls, faults, expelled>>

(* _nss_sac_getpwnam_r reads /etc/passwd itself, before and after it asks  *)
(* hamd.                                                                   *)
getpwnam_r(p) ==
  /\ login[p].at = "lookup"
  /\ IF Exists(login[p].user) THEN Goto(p, "auth") /\ UNCHANGED calls
     ELSE Goto(p, "ask") /\ Send(p, "add_unconfirmed_user", {})
  /\ UNCHANGED <<passwd, faults, started, expelled>>

Reread(p) ==
  /\ login[p].at = "reread"
  /\ Goto(p, IF Exists(login[p].user) THEN "auth" ELSE "denied")
  /\ UNCHANGED <<passwd, calls, faults, started, expelled>>

(* The server accepts the user and PAM calls sac_user_confirm.             *)
sac_user_confirm(p, R) ==
  /\ login[p].at = "auth"
  /\ Goto(p, "confirm") /\ Send(p, "user_confirm", R)
  /\ UNCHANGED <<passwd, faults, started, expelled>>

(* The process ends: refused, tired of waiting, killed, or logged out.     *)
(* Bound: of the calls it leaves behind no two are the same.               *)
Exit(p) ==
  /\ Alive(p)
  /\ login' = [login EXCEPT ![p] = NoLogin]
  /\ LET mine == {c \in calls : c.pid = p /\ c.live}
         left == {[c EXCEPT !.live = FALSE] : c \in mine}
     IN  left \cap calls = {} /\ calls' = (calls \ mine) \cup left
  /\ expelled' = expelled \ {p}
  /\ UNCHANGED <<passwd, faults, started>>

-----------------------------------------------------------------------------
Hamd ==
  \/ on_poll_timeout
  \/ \E c \in calls : add_unconfirmed_user(c) \/ user_confirm(c)
  \/ \E u \in Managed : userdel(u)
  \/ \E u \in Managed, R \in Assigned : useradd(u, R) \/ set_roles(u, R)

Process(p) ==
  \/ \E u \in User : Start(p, u)
  \/ getpwnam_r(p)
  \/ Reread(p)
  \/ \E R \in Grants : sac_user_confirm(p, R)
  \/ Exit(p)

Next == Hamd \/ \E p \in Pid : Process(p)
Spec == Init /\ [][Next]_vars

(* The main loop dispatches the timer when it is due.                      *)
FairSpec == Spec /\ WF_vars(on_poll_timeout)

-----------------------------------------------------------------------------
(* Properties.                                                             *)

(* A session that user_confirm let in has a permanent account for as long  *)
(* as it lasts, whatever other logins, polls and role changes happen,      *)
(* unless userdel took the account away.                                   *)
SessionHasAccount ==
  \A p \in Pid : login[p].at = "in" =>
    Permanent(login[p].user) \/ p \in expelled

(* Credentials do not become permanent until the user has passed           *)
(* authentication: only by a user_confirm, which PAM sends then.  An       *)
(* account that is permanent from the start was made by useradd.           *)
PermanentByConfirm ==
  [][\A u \in User : ~Permanent(u) /\ Permanent(u)' =>
       \/ \E c \in calls \ calls' : c.op = "user_confirm" /\ c.user = u
       \/ ~Exists(u) /\ passwd'[u].gecos = <<>>]_vars

(* Of an earlier grant nothing is left, and no group of the last one is    *)
(* missing, when it named roles at all: whether user_confirm let the user  *)
(* in after a comparison that changed nothing or after a usermod, whatever *)
(* useradd and set_roles did before.  `granted' is the whole of what was   *)
(* granted: a role that is no group of /etc/group may be missing, for the  *)
(* comparison leaves it out, and a server that grants none takes nothing   *)
(* away.                                                                   *)
RolesAsGranted ==
  \A u \in User : Exists(u) /\ passwd[u].granted # {} =>
    LET a == passwd[u] IN
      /\ a.groups \subseteq a.granted \cup {a.primary}
      /\ a.granted \cap Known \subseteq Effective(a, a.groups)

(* A login whose hash collides with another user's uid is given another    *)
(* candidate: it is refused only when its account exists already, all      *)
(* candidates are in use, or a command failed.                             *)
CollisionIsResolved ==
  [][\A c \in calls :
       /\ c.op = "add_unconfirmed_user" /\ c.live
       /\ login'[c.pid].at = "denied" /\ login[c.pid].at = "ask"
       /\ UNCHANGED faults
       => \/ passwd'[c.user] # NoAccount
          \/ \A i \in DOMAIN Candidates[c.user] :
               Candidates[c.user][i] \in Used(passwd')]_vars

(* An account that was never confirmed and whose process has gone does not *)
(* stay.                                                                   *)
Stale(u) == \E p \in Pid : /\ Exists(u) /\ passwd[u].gecos = Comment(p)
                           /\ ~Alive(p)
StaleGoes == \A u \in User : Stale(u) ~> ~Stale(u)

(* The account a login was given is not taken away as long as its process  *)
(* exists, except by userdel ("the PID does not exist anymore",            *)
(* rm_unconfirmed_users).                                                  *)
LoginKeepsAccount ==
  [][\A p \in Pid, u \in User :
       /\ Exists(u) /\ passwd[u].gecos = Comment(p)
       /\ login[p].user = u /\ login'[p].user = u /\ p \notin expelled'
       => passwd'[u] # NoAccount /\ passwd'[u].uid = passwd[u].uid]_vars
=============================================================================
