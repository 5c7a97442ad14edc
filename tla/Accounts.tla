------------------------------ MODULE Accounts ------------------------------
(***************************************************************************)
(* What administrators do to user accounts: assigning roles, deactivating, *)
(* activating (rbac/users.service.ts), offboarding and restoring employees *)
(* (employees/employees.service.ts), and the activation an accepted invite *)
(* brings (auth/auth.service.ts).                                          *)
(*                                                                         *)
(* The three handlers that take power away from a user first read him, ask *)
(* ensureNotLastSuperAdmin (two queries), and commit by id afterwards, so  *)
(* each is a chain of actions between which other requests run.  activate  *)
(* and restore also read first, but what they write does not depend on it: *)
(* a late write is the same write, and each is one action.                 *)
(***************************************************************************)
EXTENDS UserTable

CONSTANTS
    Admins,     \* requests of administrators that run concurrently
    Staff       \* users linked to an employee row

ASSUME StaffAssumption == Staff \subseteq Users

VARIABLES
    employed,    \* users whose employee row is not soft-deleted
    requests,    \* admin requests in flight: what each does, to whom, where it is
    deactivated  \* history: users last reported as deactivated by POST deactivate

accountVars == <<users, employed, requests, deactivated>>

Kind    == {"assign", "deactivate", "offboard"}
Request == [kind: Kind, user: Users, at: {"isSuper", "count", "commit", "revoke"}]

AccountsInit ==
    /\ UsersInit
    /\ employed = Staff
    /\ requests = << >>
    /\ deactivated = {}

Await(a, at) == requests' = [requests EXCEPT ![a].at = at]
Finish(a)    == requests' = Drop(requests, a)
At(a, at)    == a \in DOMAIN requests /\ requests[a].at = at

-----------------------------------------------------------------------------
(* The first read of each handler, with the checks made on it.             *)

Eligible(kind, u) ==
    \/ kind = "assign"
    \/ /\ kind = "deactivate"
       /\ users[u].status # "disabled"
       /\ \E actor \in Users : actor # u
    \/ /\ kind = "offboard"
       /\ u \in employed

Begin(a, kind, u) ==
    /\ a \notin DOMAIN requests
    /\ Eligible(kind, u)
    /\ requests' = Put(requests, a, [kind |-> kind, user |-> u, at |-> "isSuper"])
    /\ UNCHANGED <<users, employed, deactivated>>

(* deactivate answers "disabled" at once when the user already is.         *)
AlreadyDisabled(u) ==
    /\ users[u].status = "disabled"
    /\ \E actor \in Users : actor # u
    /\ deactivated' = deactivated \union {u}
    /\ UNCHANGED <<users, employed, requests>>

-----------------------------------------------------------------------------
(* ensureNotLastSuperAdmin: is he a super admin, and if so, the only one?  *)

CheckSuper(a) ==
    /\ At(a, "isSuper")
    /\ Await(a, IF users[requests[a].user].super THEN "count" ELSE "commit")
    /\ UNCHANGED <<users, employed, deactivated>>

\* mutant: the guard refuses only when no active super admin is left
TooFewZero == Cardinality(ActiveSuperAdmins) < 1

TooFew == Cardinality(ActiveSuperAdmins) <= 1

CountSupers(a) ==
    /\ At(a, "count")
    /\ IF TooFew THEN Finish(a) ELSE Await(a, "commit")
    /\ UNCHANGED <<users, employed, deactivated>>

-----------------------------------------------------------------------------
(* The commits.                                                            *)

(* All roles are replaced by one that is not super_admin.                  *)
CommitAssign(a) ==
    /\ At(a, "commit") /\ requests[a].kind = "assign"
    /\ users' = [users EXCEPT ![requests[a].user].super = FALSE]
    /\ Finish(a)
    /\ UNCHANGED <<employed, deactivated>>

CommitDeactivate(a) ==
    /\ At(a, "commit") /\ requests[a].kind = "deactivate"
    /\ SetStatus(requests[a].user, "disabled")
    /\ Await(a, "revoke")
    /\ UNCHANGED <<employed, deactivated>>

(* The refresh tokens are revoked by a statement of its own.               *)
FinishDeactivate(a) ==
    /\ At(a, "revoke")
    /\ deactivated' = deactivated \union {requests[a].user}
    /\ Finish(a)
    /\ UNCHANGED <<users, employed>>

CommitOffboard(a) ==
    /\ At(a, "commit") /\ requests[a].kind = "offboard"
    /\ employed' = employed \ {requests[a].user}
    /\ SetStatus(requests[a].user, "disabled")
    /\ Finish(a)
    /\ UNCHANGED deactivated

(* A statement fails or the process dies: what was committed stays.        *)
Fail(a) ==
    /\ a \in DOMAIN requests
    /\ Finish(a)
    /\ UNCHANGED <<users, employed, deactivated>>

-----------------------------------------------------------------------------
(* Giving access (back).                                                   *)

Activate(u) ==
    /\ users[u].status # "active"
    /\ SetStatus(u, "active")
    /\ deactivated' = deactivated \ {u}
    /\ UNCHANGED <<employed, requests>>

RestoreEmployee(u, reactivateUser) ==
    /\ u \in Staff \ employed
    /\ employed' = employed \union {u}
    /\ IF reactivateUser /\ users[u].status = "disabled"
       THEN SetStatus(u, "active") /\ deactivated' = deactivated \ {u}
       ELSE UNCHANGED <<users, deactivated>>
    /\ UNCHANGED requests

(* An invite may name the e-mail of any user, whatever his status.         *)
AcceptInvite(u) ==
    /\ SetStatus(u, "active")
    /\ deactivated' = deactivated \ {u}
    /\ UNCHANGED <<employed, requests>>

(* The steps that touch nothing but accounts.                              *)
AccountsOnly ==
    \/ \E u \in Users :
          \/ AlreadyDisabled(u)
          \/ Activate(u)
          \/ \E b \in BOOLEAN : RestoreEmployee(u, b)
    \/ \E a \in Admins :
          \/ \E u \in Users, kind \in Kind : Begin(a, kind, u)
          \/ CheckSuper(a)
          \/ CountSupers(a)
          \/ CommitAssign(a)
          \/ CommitDeactivate(a)

AccountsNext ==
    \/ AccountsOnly
    \/ \E u \in Users : AcceptInvite(u)
    \/ \E a \in Admins : FinishDeactivate(a) \/ CommitOffboard(a) \/ Fail(a)

AccountsSpec == AccountsInit /\ [][AccountsNext]_accountVars

-----------------------------------------------------------------------------
AccountsTypeOK ==
    /\ users \in [Users -> User]
    /\ employed \subseteq Staff
    /\ DOMAIN requests \subseteq Admins
    /\ \A a \in DOMAIN requests : requests[a] \in Request
    /\ deactivated \subseteq Users

(* The organisation always keeps an active super admin: the lockout that   *)
(* ensureNotLastSuperAdmin (users.service.ts:234-270) exists to prevent.   *)
AdminRemains == ActiveSuperAdmins # {}
=============================================================================
