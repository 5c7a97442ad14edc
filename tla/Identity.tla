------------------------------ MODULE Identity ------------------------------
(***************************************************************************)
(* Accounts and sessions together.  They share the users table, and three  *)
(* account handlers reach into the sessions: deactivate revokes the tokens *)
(* of the user it disabled, offboarding does not, and an accepted invite   *)
(* signs the user in.                                                      *)
(***************************************************************************)
EXTENDS Accounts, Sessions

VARIABLE alone   \* whether handlers run one at a time and to their end

vars == <<users, employed, requests, deactivated,
          tokens, links, calls, resets, burnt, strays>>

Init == AccountsInit /\ SessionsInit

AdminStep == AccountsOnly /\ UNCHANGED sessionVars

Deactivated(a) == FinishDeactivate(a) /\ RevokeSessions(requests[a].user)

Offboarded(a) == CommitOffboard(a) /\ LeaveSessions(requests[a].user)

Joined(c, u) == AcceptInvite(u) /\ OpenSession(c, u)

AuthStep == CallStep /\ UNCHANGED <<users, employed, requests, deactivated>>

Failed(a) ==
    /\ Fail(a)
    /\ IF At(a, "revoke") THEN LeaveSessions(requests[a].user)
       ELSE UNCHANGED sessionVars

Aborted(c) == Abort(c) /\ UNCHANGED <<users, employed, requests, deactivated>>

(* Steps of handlers that run to their end.                                *)
NextReliable ==
    \/ AdminStep
    \/ AuthStep
    \/ \E a \in Admins : Deactivated(a) \/ Offboarded(a)
    \/ \E c \in Clients, u \in Users : Joined(c, u)

Next ==
    \/ NextReliable
    \/ \E a \in Admins : Failed(a)
    \/ \E c \in Clients : Aborted(c)

Spec == Init /\ [][Next]_vars

(* One handler at a time, of an administrator or of /auth: while one is in *)
(* flight every step is its own.                                           *)
AtRest == DOMAIN requests = {} /\ DOMAIN calls = {}

OneHandler ==
    /\ \A a, b \in DOMAIN requests : a = b
    /\ \A c, d \in DOMAIN calls : c = d
    /\ DOMAIN requests = {} \/ DOMAIN calls = {}

NextAlone ==
    /\ NextReliable
    /\ OneHandler'
    /\ AtRest \/ <<requests, calls>>' # <<requests, calls>>

(* Handlers alone, or in any interleaving.                                 *)
SpecEither ==
    /\ Init /\ alone \in BOOLEAN
    /\ [][(IF alone THEN NextAlone ELSE Next) /\ UNCHANGED alone]_<<vars, alone>>

(* Nobody is offboarded.                                                   *)
NobodyLeaves == employed' = employed /\ \A a \in DOMAIN requests' : requests'[a].kind # "offboard"

-----------------------------------------------------------------------------
TypeOK == AccountsTypeOK /\ SessionsTypeOK

Revoking(u) == \E a \in DOMAIN requests : At(a, "revoke") /\ requests[a].user = u

(* A user whose deactivation was reported done has no token left that      *)
(* /auth/refresh would take (deactivate, users.service.ts:180-193).        *)
DeactivatedIsSignedOut ==
    \A u \in deactivated :
        users[u].status = "disabled" => Revoking(u) \/ LiveOf(u) = {}

(* A disabled user, however he came to be, has no working session.         *)
DisabledIsSignedOut ==
    \A u \in Users :
        users[u].status = "disabled" => Revoking(u) \/ LiveOf(u) = {}

(* What the users page tells who is about to deactivate a user: "Existing  *)
(* sessions are not currently revoked." (apps/admin, settings/users/       *)
(* page.tsx:418), though deactivate revokes them (users.service.ts:        *)
(* 185-193).                                                               *)
DeactivationSparesSessions ==
    [][\A a \in Admins : Deactivated(a) => LiveTokens \subseteq LiveTokens']_vars

(* With everything overlapping, the working sessions of a disabled user    *)
(* are those an offboarding or a broken-off deactivation left him, and     *)
(* those issued by a sign-in or a rotation that read before he was         *)
(* disabled and wrote after.                                               *)
DisabledLeavesStrays ==
    \A u \in Users :
        users[u].status = "disabled" => Revoking(u) \/ LiveOf(u) \subseteq strays

(* Handlers that run alone keep every promise about sessions without       *)
(* exception: a chain has one live token (rotateRefresh), a reset link is  *)
(* used once (resetPassword) and, as long as nobody is offboarded, who was *)
(* deactivated is signed out (deactivate).                                 *)
OneLiveIfAlone   == alone => OneLivePerChain
ResetOnceIfAlone == alone => ResetUsedOnce
SignedOutIfAlone == alone => DeactivatedIsSignedOut
=============================================================================
