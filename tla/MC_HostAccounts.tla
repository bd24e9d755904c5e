-------------------------- MODULE MC_HostAccounts --------------------------
(***************************************************************************)
(* Two users whose first candidate is the same uid, two pids, a role that  *)
(* implies another group, and a role without a group.  A server grants     *)
(* nothing, docker, or admin and the role without a group.                 *)
(***************************************************************************)
EXTENDS HostAccounts

CONSTANTS u1, u2, x1, x2, admin, docker, guest

MCCandidates == [u \in User |-> IF u = u1 THEN <<x1, x2>> ELSE <<x1>>]
MCImplied == [g \in Group |-> IF g = admin THEN {docker} ELSE {}]
MCGrants == {{}, {docker}, {admin, guest}}
MCAssigned == {{admin}}
=============================================================================
