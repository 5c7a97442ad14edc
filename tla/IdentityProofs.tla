--------------------------- MODULE IdentityProofs ---------------------------
(***************************************************************************)
(* What holds of accounts, of sessions, and of both when they change       *)
(* together, for any users, founders, admin requests, clients, tokens and  *)
(* links.  A step of Identity is a step of Accounts or leaves them alone,  *)
(* so that what is proved of Accounts carries over, and what it does to    *)
(* the sessions is among the steps accounted for there.                    *)
(***************************************************************************)
EXTENDS Identity, FiniteSetTheorems, TLAPS

-----------------------------------------------------------------------------
(* Accounts.                                                               *)

(* One step keeps the types.                                               *)
LEMMA AccountsTypeStep ==
  AccountsTypeOK /\ [AccountsNext]_accountVars => AccountsTypeOK'
<1> SUFFICES ASSUME AccountsTypeOK, [AccountsNext]_accountVars
             PROVE  AccountsTypeOK'
  OBVIOUS
<1> USE DEF AccountsTypeOK
<1>1. ASSUME NEW u \in Users, AlreadyDisabled(u) \/ Activate(u) \/ AcceptInvite(u)
      PROVE  AccountsTypeOK'
  BY <1>1 DEF AlreadyDisabled, Activate, AcceptInvite, SetStatus, User, UserStatus
<1>2. ASSUME NEW u \in Users, NEW b \in BOOLEAN, RestoreEmployee(u, b)
      PROVE  AccountsTypeOK'
  BY <1>2 DEF RestoreEmployee, SetStatus, User, UserStatus
<1>3. ASSUME NEW a \in Admins, NEW u \in Users, NEW kind \in Kind, Begin(a, kind, u)
      PROVE  AccountsTypeOK'
  BY <1>3 DEF Begin, Put, Request
<1>4. ASSUME NEW a \in Admins, CheckSuper(a)
      PROVE  AccountsTypeOK'
  BY <1>4 DEF CheckSuper, At, Await, Request
<1>5. ASSUME NEW a \in Admins, CountSupers(a)
      PROVE  AccountsTypeOK'
  BY <1>5 DEF CountSupers, At, Await, Finish, Drop, Restrict, Request
<1>6. ASSUME NEW a \in Admins, CommitAssign(a)
      PROVE  AccountsTypeOK'
  BY <1>6 DEF CommitAssign, At, Finish, Drop, Restrict, Request, User
<1>7. ASSUME NEW a \in Admins, CommitDeactivate(a)
      PROVE  AccountsTypeOK'
  BY <1>7 DEF CommitDeactivate, At, Await, SetStatus, Request, User, UserStatus
<1>8. ASSUME NEW a \in Admins, FinishDeactivate(a)
      PROVE  AccountsTypeOK'
  BY <1>8 DEF FinishDeactivate, At, Finish, Drop, Restrict, Request
<1>9. ASSUME NEW a \in Admins, CommitOffboard(a)
      PROVE  AccountsTypeOK'
  BY <1>9 DEF CommitOffboard, At, Finish, Drop, Restrict, SetStatus, Request,
              User, UserStatus
<1>10. ASSUME NEW a \in Admins, Fail(a)
       PROVE  AccountsTypeOK'
  BY <1>10 DEF Fail, Finish, Drop, Restrict, Request
<1>11. CASE UNCHANGED accountVars
  BY <1>11 DEF accountVars
<1> QED
  BY <1>1, <1>2, <1>3, <1>4, <1>5, <1>6, <1>7, <1>8, <1>9, <1>10, <1>11
     DEF AccountsNext, AccountsOnly

(* Every variable of Accounts keeps its type, whatever the interleaving.   *)
THEOREM AccountsTypeCorrect == AccountsSpec => []AccountsTypeOK
<1>1. AccountsInit => AccountsTypeOK
  BY DEF AccountsInit, UsersInit, AccountsTypeOK
<1> QED
  BY <1>1, AccountsTypeStep, PTL DEF AccountsSpec

-----------------------------------------------------------------------------
(* What a passed guard is worth when nothing can come between it and the   *)
(* commit: somebody else is an active super admin.                         *)
Covered ==
    \A a \in DOMAIN requests :
        At(a, "commit") /\ users[requests[a].user].super
            => ActiveSuperAdmins \ {requests[a].user} # {}

(* Two of the counted are needed for the guard to let a request through.   *)
LEMMA NotTheOnlyOne ==
  ASSUME UsersAssumption, ~TooFew, NEW u
  PROVE  ActiveSuperAdmins \ {u} # {}
<1>1. SUFFICES ASSUME ActiveSuperAdmins \subseteq {u}
               PROVE  FALSE
  OBVIOUS
<1>2. IsFiniteSet({u}) /\ Cardinality({u}) = 1
  BY FS_Singleton
<1>3. /\ IsFiniteSet(ActiveSuperAdmins)
      /\ Cardinality(ActiveSuperAdmins) <= Cardinality({u})
  BY <1>1, <1>2, FS_Subset
<1> QED
  BY <1>2, <1>3, FS_CardinalityType DEF TooFew

(* Requests of one administrator at a time, and somebody to keep.          *)
OneAtATime == \A a, b \in Admins : a = b

AloneInv == AccountsTypeOK /\ AdminRemains /\ Covered

(* Served one at a time, admin requests never take the last active super   *)
(* admin away, however many there were at the start (users.service.ts:     *)
(* 234-270, its three callers, and the failures between their statements). *)
THEOREM GuardedAlone ==
  ASSUME UsersAssumption, OneAtATime, Founders # {}
  PROVE  AccountsSpec => []AdminRemains
<1>1. AccountsInit => AloneInv
  BY DEF AccountsInit, UsersInit, AloneInv, AccountsTypeOK, AdminRemains, Covered,
         At, SuperAdmins, ActiveSuperAdmins
<1>2. AloneInv /\ [AccountsNext]_accountVars => AloneInv'
  <2> SUFFICES ASSUME AloneInv, [AccountsNext]_accountVars
               PROVE  AdminRemains' /\ Covered'
    BY AccountsTypeStep DEF AloneInv
  <2> USE DEF AloneInv, AdminRemains
  <2>1. ASSUME UNCHANGED users
        PROVE  ActiveSuperAdmins' = ActiveSuperAdmins
    BY <2>1 DEF ActiveSuperAdmins, SuperAdmins
  <2>2. ASSUME NEW u \in Users, SetStatus(u, "active")
        PROVE  /\ ActiveSuperAdmins \subseteq ActiveSuperAdmins'
               /\ \A v \in Users : users'[v].super = users[v].super
    BY <2>2 DEF SetStatus, ActiveSuperAdmins, SuperAdmins, AccountsTypeOK, User
  <2>3. ASSUME UNCHANGED requests,
               ActiveSuperAdmins \subseteq ActiveSuperAdmins',
               \A v \in Users : users'[v].super = users[v].super
        PROVE  AdminRemains' /\ Covered'
    BY <2>3 DEF Covered, At, AccountsTypeOK, Request
  <2>4. ASSUME NEW u \in Users, AlreadyDisabled(u)
        PROVE  AdminRemains' /\ Covered'
    BY <2>1, <2>3, <2>4 DEF AlreadyDisabled
  <2>5. ASSUME NEW u \in Users, Activate(u) \/ AcceptInvite(u)
        PROVE  AdminRemains' /\ Covered'
    BY <2>2, <2>3, <2>5 DEF Activate, AcceptInvite
  <2>6. ASSUME NEW u \in Users, NEW b \in BOOLEAN, RestoreEmployee(u, b)
        PROVE  AdminRemains' /\ Covered'
    BY <2>1, <2>2, <2>3, <2>6 DEF RestoreEmployee
  <2>7. ASSUME NEW a \in Admins, NEW u \in Users, NEW kind \in Kind, Begin(a, kind, u)
        PROVE  AdminRemains' /\ Covered'
    BY <2>1, <2>7 DEF Begin, Covered, At, Put
  <2>8. ASSUME NEW a \in Admins, CheckSuper(a)
        PROVE  AdminRemains' /\ Covered'
    BY <2>1, <2>8 DEF CheckSuper, Covered, At, Await, AccountsTypeOK, Request
  <2>9. ASSUME NEW a \in Admins, CountSupers(a)
        PROVE  AdminRemains' /\ Covered'
    <3>1. CASE TooFew
      BY <2>1, <2>9, <3>1 DEF CountSupers, Covered, At, Finish, Drop, Restrict
    <3>2. CASE ~TooFew
      <4>1. \A u : ActiveSuperAdmins \ {u} # {}
        BY <3>2, NotTheOnlyOne
      <4> QED
        BY <2>1, <2>9, <3>2, <4>1 DEF CountSupers, Covered
    <3> QED
      BY <3>1, <3>2
  <2>10. ASSUME NEW a \in Admins, FinishDeactivate(a) \/ Fail(a)
         PROVE  AdminRemains' /\ Covered'
    BY <2>1, <2>10 DEF FinishDeactivate, Fail, Covered, At, Finish, Drop, Restrict
  <2>11. ASSUME NEW a \in Admins, CommitAssign(a) \/ CommitDeactivate(a) \/ CommitOffboard(a)
         PROVE  AdminRemains' /\ Covered'
    <3> DEFINE u == requests[a].user
    <3>1. a \in DOMAIN requests /\ u \in Users /\ At(a, "commit")
      BY <2>11 DEF CommitAssign, CommitDeactivate, CommitOffboard, At, AccountsTypeOK, Request
    <3>2. DOMAIN requests = {a}
      BY <3>1 DEF AccountsTypeOK, OneAtATime
    <3>3. \A v \in Users \ {u} : users'[v] = users[v]
      BY <2>11, <3>1 DEF CommitAssign, CommitDeactivate, CommitOffboard, SetStatus,
                          AccountsTypeOK
    <3>4. AdminRemains'
      <4>1. PICK v \in ActiveSuperAdmins : v # u \/ ~users[u].super
        BY <3>1 DEF Covered
      <4>2. v # u /\ v \in Users
        BY <4>1 DEF ActiveSuperAdmins, SuperAdmins
      <4>3. v \in ActiveSuperAdmins'
        BY <3>3, <4>1, <4>2 DEF ActiveSuperAdmins, SuperAdmins
      <4> QED
        BY <4>3
    <3>5. \A b \in DOMAIN requests' : requests'[b].at = "revoke"
      BY <2>11, <3>1, <3>2 DEF CommitAssign, CommitDeactivate, CommitOffboard,
                                Finish, Await, Drop, Restrict, AccountsTypeOK, Request
    <3>6. Covered'
      BY <3>5 DEF Covered, At
    <3> QED
      BY <3>4, <3>6
  <2>12. CASE UNCHANGED accountVars
    BY <2>1, <2>3, <2>12 DEF accountVars
  <2> QED
    BY <2>4, <2>5, <2>6, <2>7, <2>8, <2>9, <2>10, <2>11, <2>12
       DEF AccountsNext, AccountsOnly
<1> QED
  BY <1>1, <1>2, PTL DEF AccountsSpec, AloneInv

-----------------------------------------------------------------------------
(* The only super admin an organisation is founded with.                   *)
FounderInv(f) ==
    /\ AccountsTypeOK
    /\ ActiveSuperAdmins = {f}
    /\ SuperAdmins = {f}
    /\ \A a \in DOMAIN requests : requests[a].at \in {"commit", "revoke"}
                                    => requests[a].user # f

(* An organisation founded with one super admin, as sign-up does, keeps    *)
(* him under any overlap of admin requests: the guard never lets a request *)
(* about him through, and nobody else is ever counted with him.            *)
THEOREM FounderStays ==
  ASSUME NEW f \in Users, Founders = {f}
  PROVE  AccountsSpec => []AdminRemains
<1>1. AccountsInit => FounderInv(f)
  BY DEF AccountsInit, UsersInit, FounderInv, AccountsTypeOK, SuperAdmins, ActiveSuperAdmins
<1>2. FounderInv(f) /\ [AccountsNext]_accountVars => FounderInv(f)'
  <2> SUFFICES ASSUME FounderInv(f), [AccountsNext]_accountVars
               PROVE  FounderInv(f)'
    OBVIOUS
  <2> USE DEF FounderInv
  <2>0. AccountsTypeOK'
    BY AccountsTypeStep
  <2> HIDE DEF FounderInv
  <2> DEFINE Kept    == ActiveSuperAdmins' = {f} /\ SuperAdmins' = {f}
             Spared  == \A a \in DOMAIN requests : requests[a].at \in {"commit", "revoke"}
                                                     => requests[a].user # f
  <2>1. ASSUME UNCHANGED users
        PROVE  Kept
    BY <2>1 DEF ActiveSuperAdmins, SuperAdmins, FounderInv
  <2>2. ASSUME NEW u \in Users, SetStatus(u, "active")
        PROVE  Kept
    BY <2>2 DEF SetStatus, ActiveSuperAdmins, SuperAdmins, AccountsTypeOK, User, FounderInv
  <2>3. ASSUME NEW u \in Users \ {f}, \A v \in Users \ {u} : users'[v] = users[v],
               users'[u].super => users[u].super
        PROVE  Kept
    BY <2>3 DEF ActiveSuperAdmins, SuperAdmins, FounderInv
  <2>4. ASSUME NEW u \in Users, AlreadyDisabled(u) \/ Activate(u) \/ AcceptInvite(u)
        PROVE  Kept /\ Spared'
    BY <2>1, <2>2, <2>4 DEF AlreadyDisabled, Activate, AcceptInvite, FounderInv
  <2>5. ASSUME NEW u \in Users, NEW b \in BOOLEAN, RestoreEmployee(u, b)
        PROVE  Kept /\ Spared'
    BY <2>1, <2>2, <2>5 DEF RestoreEmployee, FounderInv
  <2>6. ASSUME NEW a \in Admins, NEW u \in Users, NEW kind \in Kind, Begin(a, kind, u)
        PROVE  Kept /\ Spared'
    BY <2>1, <2>6 DEF Begin, Put, FounderInv
  <2>7. ASSUME NEW a \in Admins, CheckSuper(a)
        PROVE  Kept /\ Spared'
    BY <2>1, <2>7 DEF CheckSuper, At, Await, AccountsTypeOK, Request, SuperAdmins, FounderInv
  <2>8. ASSUME NEW a \in Admins, CountSupers(a)
        PROVE  Kept /\ Spared'
    <3>1. TooFew
      BY FS_Singleton DEF TooFew, FounderInv
    <3> QED
      BY <2>1, <2>8, <3>1 DEF CountSupers, At, Finish, Drop, Restrict, FounderInv
  <2>9. ASSUME NEW a \in Admins, FinishDeactivate(a) \/ Fail(a)
        PROVE  Kept /\ Spared'
    BY <2>1, <2>9 DEF FinishDeactivate, Fail, Finish, Drop, Restrict, FounderInv
  <2>10. ASSUME NEW a \in Admins, CommitAssign(a) \/ CommitDeactivate(a) \/ CommitOffboard(a)
         PROVE  Kept /\ Spared'
    <3> DEFINE u == requests[a].user
    <3>1. a \in DOMAIN requests /\ u \in Users \ {f}
      BY <2>10 DEF CommitAssign, CommitDeactivate, CommitOffboard, At, AccountsTypeOK,
                    Request, FounderInv
    <3>2. /\ \A v \in Users \ {u} : users'[v] = users[v]
          /\ users'[u].super => users[u].super
      BY <2>10, <3>1 DEF CommitAssign, CommitDeactivate, CommitOffboard, SetStatus,
                          AccountsTypeOK, User, FounderInv
    <3>3. Spared'
      BY <2>10, <3>1 DEF CommitAssign, CommitDeactivate, CommitOffboard, At, Finish,
                          Await, Drop, Restrict, AccountsTypeOK, Request, FounderInv
    <3> QED
      BY <2>3, <3>1, <3>2, <3>3
  <2>11. ASSUME UNCHANGED accountVars
         PROVE  Kept /\ Spared'
    BY <2>1, <2>11 DEF accountVars, FounderInv
  <2>12. Kept /\ Spared'
    BY <2>4, <2>5, <2>6, <2>7, <2>8, <2>9, <2>10, <2>11 DEF AccountsNext, AccountsOnly
  <2> QED
    BY <2>0, <2>12 DEF FounderInv
<1>3. FounderInv(f) => AdminRemains
  BY DEF FounderInv, AdminRemains
<1> QED
  BY <1>1, <1>2, <1>3, PTL DEF AccountsSpec

-----------------------------------------------------------------------------
(* Sessions, with the steps by which account handlers reach into them.     *)

(* Every step that can change the sessions, whoever takes it.              *)
SessionStep ==
    \/ SessionsNext
    \/ \E c \in Clients, u \in Users : OpenSession(c, u)
    \/ \E u \in Users : RevokeSessions(u) \/ LeaveSessions(u)
    \/ UNCHANGED sessionVars

(* Calls in flight name rows that exist.                                   *)
Refs ==
    \A c \in DOMAIN calls :
        /\ Doing(c, "rotate") => calls[c].token \in DOMAIN tokens
        /\ Doing(c, "walk") => /\ calls[c].token \in DOMAIN tokens
                               /\ calls[c].seen \union calls[c].queue \subseteq DOMAIN tokens
        /\ Doing(c, "reset") => calls[c].link \in DOMAIN links

Typed == SessionsTypeOK /\ Refs

(* The kind of a call tells which record it is.                            *)
LEMMA WalkingType ==
  ASSUME SessionsTypeOK, NEW c, Doing(c, "walk")
  PROVE  c \in DOMAIN calls /\ calls[c] \in Walk
BY DEF SessionsTypeOK, Doing, Signin, Rotate, Walk, Reset

(* Revoking leaves everything of a row but "live".                         *)
LEMMA RevokedRows ==
  ASSUME SessionsTypeOK, NEW ts, tokens' = Revoked(ts)
  PROVE  /\ DOMAIN tokens' = DOMAIN tokens
         /\ \A t \in DOMAIN tokens :
              /\ tokens'[t] \in Token
              /\ tokens'[t].user = tokens[t].user
              /\ tokens'[t].parent = tokens[t].parent
              /\ tokens'[t].line = tokens[t].line
              /\ tokens'[t].since = tokens[t].since
              /\ tokens'[t].live <=> tokens[t].live /\ t \notin ts
<1>1. DOMAIN tokens' = DOMAIN tokens
  BY DEF Revoked
<1>2. ASSUME NEW t \in DOMAIN tokens
      PROVE  /\ tokens'[t] \in Token
             /\ tokens'[t].user = tokens[t].user
             /\ tokens'[t].parent = tokens[t].parent
             /\ tokens'[t].line = tokens[t].line
             /\ tokens'[t].since = tokens[t].since
             /\ tokens'[t].live <=> tokens[t].live /\ t \notin ts
  <2>1. tokens'[t] = [tokens[t] EXCEPT !.live = @ /\ t \notin ts]
    BY DEF Revoked
  <2>2. tokens[t] \in Token
    BY DEF SessionsTypeOK
  <2> QED
    BY <2>1, <2>2 DEF Token
<1> QED
  BY <1>1, <1>2

(* Every variable keeps its type and calls keep naming rows that exist.    *)
LEMMA TypedStep ==
  Typed /\ SessionStep => Typed'
<1> SUFFICES ASSUME Typed, SessionStep
             PROVE  Typed'
  OBVIOUS
<1> USE DEF Typed, SessionsTypeOK, Refs, Doing
<1> DEFINE Call == Signin \union Rotate \union Walk \union Reset
<1>1. ASSUME NEW c \in Clients, NEW u \in Users, OpenSession(c, u)
      PROVE  Typed'
  BY <1>1 DEF OpenSession, Put, Signin
<1>2. ASSUME NEW c \in Clients, NEW t \in TokenIds, SigninIssue(c, t)
      PROVE  Typed'
  BY <1>2 DEF SigninIssue, Put, Drop, Restrict, Signin, Rotate, Walk, Reset, Token
<1>3. ASSUME NEW c \in Clients, NEW t \in TokenIds, RefreshRead(c, t)
      PROVE  Typed'
  BY <1>3 DEF RefreshRead, Put, Rotate, Walk
<1>4. ASSUME NEW c \in Clients, NEW t \in TokenIds, RotateIssue(c, t)
      PROVE  Typed'
  BY <1>4 DEF RotateIssue, Put, Signin, Rotate, Walk, Reset, Token
<1>5. ASSUME NEW c \in Clients, RotateRetire(c)
      PROVE  Typed'
  <2>1. DOMAIN tokens' = DOMAIN tokens /\ \A t \in DOMAIN tokens : tokens'[t] \in Token
    BY <1>5, RevokedRows DEF RotateRetire
  <2>2. DOMAIN calls' = DOMAIN calls \ {c} /\ \A d \in DOMAIN calls' : calls'[d] = calls[d]
    BY <1>5 DEF RotateRetire, Drop, Restrict
  <2>3. UNCHANGED <<links, resets, burnt, strays>>
    BY <1>5 DEF RotateRetire
  <2> QED
    BY <2>1, <2>2, <2>3
<1>6. ASSUME NEW c \in Clients, NEW t \in TokenIds, WalkVisit(c, t)
      PROVE  Typed'
  <2> DEFINE seen  == calls[c].seen \union {t}
             queue == (calls[c].queue \union Children(t)) \ {t}
  <2>1. c \in DOMAIN calls /\ calls[c] \in Walk
    BY <1>6, WalkingType DEF WalkVisit
  <2>2. calls' = [calls EXCEPT ![c].seen = seen, ![c].queue = queue]
    BY <1>6 DEF WalkVisit
  <2>3. /\ DOMAIN calls' = DOMAIN calls
        /\ \A d \in DOMAIN calls \ {c} : calls'[d] = calls[d]
        /\ calls'[c] = [kind |-> "walk", token |-> calls[c].token,
                       seen |-> seen, queue |-> queue]
    BY <2>1, <2>2 DEF Walk
  <2>4. seen \union queue \subseteq DOMAIN tokens
    BY <1>6 DEF WalkVisit, Children
  <2>5. calls'[c] \in Walk
    BY <2>1, <2>3, <2>4 DEF Walk
  <2>6. Refs'
    BY <1>6, <2>3, <2>4 DEF WalkVisit
  <2> QED
    BY <1>6, <2>3, <2>5, <2>6 DEF WalkVisit
<1>7. ASSUME NEW c \in Clients, WalkRevoke(c)
      PROVE  Typed'
  <2>1. c \in DOMAIN calls /\ calls[c] \in Walk
    BY <1>7, WalkingType DEF WalkRevoke
  <2>2. calls[c].token \in DOMAIN tokens
    BY <1>7, <2>1 DEF WalkRevoke, Walk
  <2> QED
    BY <1>7, <2>2, RevokedRows DEF WalkRevoke, Drop, Restrict
<1>8. ASSUME NEW t \in TokenIds, Logout(t)
      PROVE  Typed'
  BY <1>8, RevokedRows DEF Logout
<1>9. ASSUME NEW u \in Users, NEW r \in ResetIds, ForgotPassword(u, r)
      PROVE  Typed'
  BY <1>9 DEF ForgotPassword, Put, Link
<1>10. ASSUME NEW c \in Clients, NEW r \in ResetIds, ResetRead(c, r)
       PROVE  Typed'
  BY <1>10 DEF ResetRead, Put, Reset
<1>11. ASSUME NEW c \in Clients, ResetCommit(c)
       PROVE  Typed'
  <2> DEFINE r == calls[c].link
             u == links[r].user
  <2>1. c \in DOMAIN calls /\ r \in DOMAIN links /\ links[r] \in Link /\ u \in Users
    BY <1>11 DEF ResetCommit, Link
  <2>2. DOMAIN tokens' = DOMAIN tokens /\ \A t \in DOMAIN tokens : tokens'[t] \in Token
    BY <1>11, RevokedRows DEF ResetCommit
  <2>3. DOMAIN calls' = DOMAIN calls \ {c} /\ \A d \in DOMAIN calls' : calls'[d] = calls[d]
    BY <1>11 DEF ResetCommit, Drop, Restrict
  <2>4. links' = [links EXCEPT ![r].uses = @ + 1] /\ resets' = [resets EXCEPT ![u] = @ + 1]
    BY <1>11 DEF ResetCommit
  <2>5. UNCHANGED <<burnt, strays>>
    BY <1>11 DEF ResetCommit
  <2> HIDE DEF r, u
  <2>6. DOMAIN links' = DOMAIN links /\ \A x \in DOMAIN links : links'[x] \in Link
    BY <2>1, <2>4 DEF Link
  <2>7. resets' \in [Users -> Nat]
    BY <2>1, <2>4
  <2> QED
    BY <2>2, <2>3, <2>5, <2>6, <2>7
<1>12. ASSUME NEW u \in Users, RevokeSessions(u)
       PROVE  Typed'
  BY <1>12, RevokedRows DEF RevokeSessions
<1>13. ASSUME NEW u \in Users, LeaveSessions(u)
       PROVE  Typed'
  BY <1>13 DEF LeaveSessions, LiveOf, LiveTokens
<1>14. ASSUME UNCHANGED sessionVars
       PROVE  Typed'
  BY <1>14 DEF sessionVars
<1>15. ASSUME NEW c \in Clients, NEW u \in Users, SigninRead(c, u)
       PROVE  Typed'
  BY <1>1, <1>15 DEF SigninRead
<1>16. ASSUME NEW c \in Clients, Abort(c)
       PROVE  Typed'
  BY <1>16 DEF Abort, Drop, Restrict
<1> QED
  BY <1>1, <1>2, <1>3, <1>4, <1>5, <1>6, <1>7, <1>8, <1>9, <1>10, <1>11, <1>12,
     <1>13, <1>14, <1>15, <1>16
     DEF SessionStep, SessionsNext, CallStep

-----------------------------------------------------------------------------
(* What a step can do to the table of tokens.                              *)

IssuedRoot(t) ==
    /\ t \in TokenIds \ DOMAIN tokens
    /\ \E row : /\ tokens' = Put(tokens, t, row)
                /\ row.parent = NoToken /\ row.line = {}

IssuedChild(t, p) ==
    /\ t \in TokenIds \ DOMAIN tokens
    /\ p \in DOMAIN tokens
    /\ \E row : /\ tokens' = Put(tokens, t, row)
                /\ row.parent = p /\ row.line = tokens[p].line \union {p}

LEMMA StepShape ==
  ASSUME Typed, SessionStep
  PROVE  \/ UNCHANGED tokens
         \/ \E ts : tokens' = Revoked(ts)
         \/ \E t : IssuedRoot(t) \/ \E p : IssuedChild(t, p)
<1>1. ASSUME NEW c \in Clients, NEW t \in TokenIds, SigninIssue(c, t)
      PROVE  IssuedRoot(t)
  BY <1>1 DEF SigninIssue, IssuedRoot
<1>2. ASSUME NEW c \in Clients, NEW t \in TokenIds, RotateIssue(c, t)
      PROVE  IssuedChild(t, calls[c].token)
  BY <1>2 DEF RotateIssue, IssuedChild, Typed, Refs, Doing
<1>3. ASSUME NEW c \in Clients,
             RotateRetire(c) \/ WalkRevoke(c) \/ ResetCommit(c)
      PROVE  \E ts : tokens' = Revoked(ts)
  BY <1>3 DEF RotateRetire, WalkRevoke, ResetCommit
<1>4. ASSUME NEW t \in TokenIds, Logout(t)
      PROVE  \E ts : tokens' = Revoked(ts)
  BY <1>4 DEF Logout
<1>5. ASSUME NEW u \in Users, RevokeSessions(u)
      PROVE  \E ts : tokens' = Revoked(ts)
  BY <1>5 DEF RevokeSessions
<1>6. ASSUME NEW c \in Clients, NEW u \in Users, SigninRead(c, u) \/ OpenSession(c, u)
      PROVE  UNCHANGED tokens
  BY <1>6 DEF SigninRead, OpenSession
<1>7. ASSUME NEW c \in Clients, NEW t \in TokenIds, RefreshRead(c, t) \/ WalkVisit(c, t)
      PROVE  UNCHANGED tokens
  BY <1>7 DEF RefreshRead, WalkVisit
<1>8. ASSUME NEW c \in Clients, NEW r \in ResetIds, ResetRead(c, r)
      PROVE  UNCHANGED tokens
  BY <1>8 DEF ResetRead
<1>9. ASSUME NEW u \in Users, NEW r \in ResetIds, ForgotPassword(u, r)
      PROVE  UNCHANGED tokens
  BY <1>9 DEF ForgotPassword
<1>10. ASSUME NEW u \in Users, LeaveSessions(u)
       PROVE  UNCHANGED tokens
  BY <1>10 DEF LeaveSessions
<1>11. ASSUME UNCHANGED sessionVars
       PROVE  UNCHANGED tokens
  BY <1>11 DEF sessionVars
<1>12. ASSUME NEW c \in Clients, Abort(c)
       PROVE  UNCHANGED tokens
  BY <1>12 DEF Abort
<1> QED
  BY <1>1, <1>2, <1>3, <1>4, <1>5, <1>6, <1>7, <1>8, <1>9, <1>10, <1>11, <1>12
     DEF SessionStep, SessionsNext, CallStep

(* Tokens form chains: a parent is an ancestor, nothing is its own         *)
(* ancestor, and below every ancestor of a token there is a next one.      *)
Forest ==
    \A t \in DOMAIN tokens :
        /\ t \notin tokens[t].line
        /\ tokens[t].line \subseteq DOMAIN tokens
        /\ tokens[t].parent \in tokens[t].line \union {NoToken}
        /\ \A q \in tokens[t].line :
              tokens[t].parent = q \/ \E x \in tokens[t].line : tokens[x].parent = q

LEMMA ForestStep ==
  ASSUME SessionsAssumption, Typed, Forest, SessionStep
  PROVE  Forest'
<1>1. ASSUME UNCHANGED tokens
      PROVE  Forest'
  BY <1>1 DEF Forest
<1>2. ASSUME NEW ts, tokens' = Revoked(ts)
      PROVE  Forest'
  BY <1>2, RevokedRows DEF Forest, Typed
<1>3. ASSUME NEW t, IssuedRoot(t)
      PROVE  Forest'
  BY <1>3 DEF IssuedRoot, Forest, Put
<1>4. ASSUME NEW t, NEW p, IssuedChild(t, p)
      PROVE  Forest'
  <2>1. /\ DOMAIN tokens' = DOMAIN tokens \union {t}
        /\ \A x \in DOMAIN tokens : tokens'[x] = tokens[x]
        /\ tokens'[t].parent = p
        /\ tokens'[t].line = tokens[p].line \union {p}
        /\ t \notin DOMAIN tokens
        /\ p \in DOMAIN tokens
    BY <1>4 DEF IssuedChild, Put
  <2>2. ASSUME NEW q \in tokens'[t].line, q # p
        PROVE  \E x \in tokens'[t].line : tokens'[x].parent = q
    <3>1. q \in tokens[p].line
      BY <2>1, <2>2
    <3>2. PICK x \in tokens[p].line \union {p} : tokens[x].parent = q
      BY <2>1, <3>1 DEF Forest
    <3> QED
      BY <2>1, <3>2 DEF Forest
  <2> QED
    BY <2>1, <2>2 DEF Forest
<1> QED
  BY <1>1, <1>2, <1>3, <1>4, StepShape

-----------------------------------------------------------------------------
(* A walk under way misses no descendant but those inserted behind it.     *)
Reaches(c, t) ==
    \/ t \in calls[c].seen \union calls[c].queue
    \/ calls[c].queue \cap tokens[t].line # {}

WalksReach ==
    \A c \in DOMAIN calls : Doing(c, "walk") =>
        /\ calls[c].token \in calls[c].seen \union calls[c].queue
        /\ \A t \in DOMAIN tokens \ strays :
              calls[c].token \in tokens[t].line => Reaches(c, t)

(* Walks that go on unchanged still reach what they did.                   *)
LEMMA WalksKept ==
  ASSUME Typed, WalksReach, strays \subseteq strays',
         UNCHANGED tokens \/ \E ts : tokens' = Revoked(ts),
         \A c \in DOMAIN calls' :
            Doing(c, "walk")' => c \in DOMAIN calls /\ calls'[c] = calls[c]
  PROVE  WalksReach'
<1>1. /\ DOMAIN tokens' = DOMAIN tokens
      /\ \A t \in DOMAIN tokens : tokens'[t].line = tokens[t].line
  BY RevokedRows DEF Typed
<1>2. ASSUME NEW c \in DOMAIN calls', Doing(c, "walk")'
      PROVE  /\ calls'[c].token \in calls'[c].seen \union calls'[c].queue
             /\ \A t \in DOMAIN tokens' \ strays' :
                  calls'[c].token \in tokens'[t].line => Reaches(c, t)'
  <2>1. c \in DOMAIN calls /\ calls'[c] = calls[c] /\ Doing(c, "walk")
    BY <1>2 DEF Doing
  <2> QED
    BY <1>1, <2>1 DEF WalksReach, Reaches
<1> QED
  BY <1>2 DEF WalksReach

LEMMA WalksReachStep ==
  ASSUME SessionsAssumption, Typed, Forest, WalksReach, SessionStep
  PROVE  WalksReach'
<1> DEFINE Same == \A c \in DOMAIN calls' :
                      Doing(c, "walk")' => c \in DOMAIN calls /\ calls'[c] = calls[c]
<1>1. ASSUME NEW c \in Clients, NEW u \in Users, SigninRead(c, u) \/ OpenSession(c, u)
      PROVE  WalksReach'
  <2>1. Same /\ UNCHANGED <<tokens, strays>>
    BY <1>1 DEF SigninRead, OpenSession, Put, Doing
  <2> QED
    BY <2>1, WalksKept
<1>2. ASSUME NEW c \in Clients, NEW t \in TokenIds, SigninIssue(c, t)
      PROVE  WalksReach'
  <2>1. /\ DOMAIN tokens' = DOMAIN tokens \union {t}
        /\ \A x \in DOMAIN tokens : tokens'[x] = tokens[x]
        /\ tokens'[t].line = {}
        /\ strays \subseteq strays'
    BY <1>2 DEF SigninIssue, Put
  <2>2. Same
    BY <1>2 DEF SigninIssue, Drop, Restrict, Doing
  <2> QED
    BY <2>1, <2>2 DEF WalksReach, Reaches, Doing
<1>3. ASSUME NEW c \in Clients, NEW t \in TokenIds, RefreshRead(c, t)
      PROVE  WalksReach'
  <2>1. /\ \A d \in DOMAIN calls' : d = c \/ (d \in DOMAIN calls /\ calls'[d] = calls[d])
        /\ UNCHANGED <<tokens, strays>>
    BY <1>3 DEF RefreshRead, Put
  <2>2. Doing(c, "walk")' => /\ calls'[c].token = t
                            /\ calls'[c].queue = {t}
    BY <1>3 DEF RefreshRead, Put, Doing
  <2> QED
    BY <2>1, <2>2 DEF WalksReach, Reaches, Doing
<1>4. ASSUME NEW c \in Clients, NEW t \in TokenIds, RotateIssue(c, t)
      PROVE  WalksReach'
  <2> DEFINE p == calls[c].token
  <2>1. /\ DOMAIN tokens' = DOMAIN tokens \union {t}
        /\ \A x \in DOMAIN tokens : tokens'[x] = tokens[x]
        /\ tokens'[t].line = tokens[p].line \union {p}
        /\ strays \subseteq strays'
        /\ p \in DOMAIN tokens
        /\ t \notin DOMAIN tokens
    BY <1>4 DEF RotateIssue, Put, Typed, Refs, Doing
  <2>2. t \in strays' \/ (p \notin strays /\ ~WalkedPast(p))
    BY <1>4 DEF RotateIssue
  <2>3. Same
    BY <1>4 DEF RotateIssue, Doing
  <2>4. ASSUME NEW d \in DOMAIN calls, Doing(d, "walk"), t \notin strays',
               calls[d].token \in tokens'[t].line
        PROVE  calls[d].queue \cap tokens'[t].line # {}
    <3>1. p \notin calls[d].seen
      BY <2>2, <2>4 DEF WalkedPast
    <3>2. CASE calls[d].token = p
      BY <2>1, <2>4, <3>1, <3>2 DEF WalksReach
    <3>3. CASE calls[d].token \in tokens[p].line
      <4>1. Reaches(d, p)
        BY <2>1, <2>2, <2>4, <3>3 DEF WalksReach
      <4> QED
        BY <2>1, <3>1, <4>1 DEF Reaches
    <3> QED
      BY <2>1, <2>4, <3>2, <3>3
  <2>5. ASSUME NEW d \in DOMAIN calls', Doing(d, "walk")'
        PROVE  /\ calls'[d].token \in calls'[d].seen \union calls'[d].queue
               /\ \A x \in DOMAIN tokens' \ strays' :
                     calls'[d].token \in tokens'[x].line => Reaches(d, x)'
    <3>1. d \in DOMAIN calls /\ calls'[d] = calls[d] /\ Doing(d, "walk")
      BY <2>3, <2>5 DEF Doing
    <3>2. calls[d].token \in calls[d].seen \union calls[d].queue
      BY <3>1 DEF WalksReach
    <3>3. ASSUME NEW x \in DOMAIN tokens' \ strays', calls'[d].token \in tokens'[x].line
          PROVE  Reaches(d, x)'
      <4>1. CASE x = t
        BY <2>4, <3>1, <3>3, <4>1 DEF Reaches
      <4>2. CASE x # t
        BY <2>1, <3>1, <3>3, <4>2 DEF WalksReach, Reaches
      <4> QED
        BY <4>1, <4>2
    <3> QED
      BY <3>1, <3>2, <3>3
  <2> QED
    BY <2>5 DEF WalksReach
<1>5. ASSUME NEW c \in Clients, NEW q \in TokenIds, WalkVisit(c, q)
      PROVE  WalksReach'
  <2> DEFINE seen  == calls[c].seen \union {q}
             queue == (calls[c].queue \union Children(q)) \ {q}
  <2>1. c \in DOMAIN calls /\ calls[c] \in Walk /\ Doing(c, "walk")
    BY <1>5, WalkingType DEF WalkVisit, Typed
  <2>2. calls' = [calls EXCEPT ![c].seen = seen, ![c].queue = queue]
    BY <1>5 DEF WalkVisit
  <2>3. /\ DOMAIN calls' = DOMAIN calls
        /\ \A d \in DOMAIN calls \ {c} : calls'[d] = calls[d]
        /\ calls'[c] = [kind |-> "walk", token |-> calls[c].token,
                       seen |-> seen, queue |-> queue]
    BY <2>1, <2>2 DEF Walk
  <2>4. UNCHANGED <<tokens, strays>> /\ q \in calls[c].queue
    BY <1>5 DEF WalkVisit
  <2>5. ASSUME NEW t \in DOMAIN tokens, q \in tokens[t].line
        PROVE  t \in seen \union queue \/ queue \cap tokens[t].line # {}
    <3>1. q \in DOMAIN tokens /\ tokens[q].parent # q
      <4>1. q \in TokenIds /\ q \in DOMAIN tokens
        BY <2>1, <2>4 DEF Typed, Refs, SessionsTypeOK
      <4> QED
        BY <4>1, SessionsAssumption DEF Forest
    <3>2. CASE tokens[t].parent = q
      BY <3>2 DEF Children
    <3>3. CASE \E x \in tokens[t].line : tokens[x].parent = q
      <4>1. PICK x \in tokens[t].line : tokens[x].parent = q
        BY <3>3
      <4>2. x \in Children(q) /\ x # q
        BY <3>1, <4>1 DEF Children, Forest
      <4> QED
        BY <4>1, <4>2
    <3> QED
      BY <2>5, <3>2, <3>3 DEF Forest
  <2>6. calls[c].token \in seen \union queue
    BY <2>1 DEF WalksReach
  <2>7. ASSUME NEW t \in DOMAIN tokens \ strays, calls[c].token \in tokens[t].line
        PROVE  t \in seen \union queue \/ queue \cap tokens[t].line # {}
    <3>1. Reaches(c, t)
      BY <2>1, <2>7 DEF WalksReach
    <3> QED
      BY <2>5, <3>1 DEF Reaches
  <2> QED
    BY <2>1, <2>3, <2>4, <2>6, <2>7 DEF WalksReach, Reaches, Doing
<1>6. ASSUME NEW c \in Clients, RotateRetire(c) \/ WalkRevoke(c) \/ ResetCommit(c)
      PROVE  WalksReach'
  <2>1. Same
    BY <1>6 DEF RotateRetire, WalkRevoke, ResetCommit, Drop, Restrict, Doing
  <2>2. UNCHANGED strays /\ \E ts : tokens' = Revoked(ts)
    BY <1>6 DEF RotateRetire, WalkRevoke, ResetCommit
  <2> QED
    BY <2>1, <2>2, WalksKept
<1>7. ASSUME NEW t \in TokenIds, Logout(t)
      PROVE  WalksReach'
  <2>1. Same /\ UNCHANGED strays /\ \E ts : tokens' = Revoked(ts)
    BY <1>7 DEF Logout, Doing
  <2> QED
    BY <2>1, WalksKept
<1>8. ASSUME NEW u \in Users, RevokeSessions(u)
      PROVE  WalksReach'
  <2>1. Same /\ UNCHANGED strays /\ \E ts : tokens' = Revoked(ts)
    BY <1>8 DEF RevokeSessions, Doing
  <2> QED
    BY <2>1, WalksKept
<1>9. ASSUME NEW u \in Users, LeaveSessions(u)
      PROVE  WalksReach'
  <2>1. Same /\ strays \subseteq strays' /\ UNCHANGED tokens
    BY <1>9 DEF LeaveSessions, Doing
  <2> QED
    BY <2>1, WalksKept
<1>10. ASSUME NEW c \in Clients, NEW r \in ResetIds, ResetRead(c, r)
       PROVE  WalksReach'
  <2>1. Same /\ UNCHANGED <<tokens, strays>>
    BY <1>10 DEF ResetRead, Put, Doing
  <2> QED
    BY <2>1, WalksKept
<1>11. ASSUME NEW u \in Users, NEW r \in ResetIds, ForgotPassword(u, r)
       PROVE  WalksReach'
  <2>1. Same /\ UNCHANGED <<tokens, strays>>
    BY <1>11 DEF ForgotPassword, Doing
  <2> QED
    BY <2>1, WalksKept
<1>12. ASSUME UNCHANGED sessionVars
       PROVE  WalksReach'
  <2>1. Same /\ UNCHANGED <<tokens, strays>>
    BY <1>12 DEF sessionVars, Doing
  <2> QED
    BY <2>1, WalksKept
<1>13. ASSUME NEW c \in Clients, Abort(c)
       PROVE  WalksReach'
  <2>1. Same /\ UNCHANGED <<tokens, strays>>
    BY <1>13 DEF Abort, Drop, Restrict, Doing
  <2> QED
    BY <2>1, WalksKept
<1> QED
  BY <1>1, <1>2, <1>3, <1>4, <1>5, <1>6, <1>7, <1>8, <1>9, <1>10, <1>11, <1>12, <1>13
     DEF SessionStep, SessionsNext, CallStep

-----------------------------------------------------------------------------
(* The chains that were answered for, and the sessions a reset ended.      *)
LEMMA ReuseStep ==
  ASSUME Typed, Forest, WalksReach, ReuseLeavesStrays, SessionStep
  PROVE  ReuseLeavesStrays'
<1>1. ASSUME UNCHANGED <<tokens, burnt>>, strays \subseteq strays'
      PROVE  ReuseLeavesStrays'
  BY <1>1 DEF ReuseLeavesStrays, LiveTokens, Burnt
<1>2. ASSUME NEW ts, tokens' = Revoked(ts), UNCHANGED <<burnt, strays>>
      PROVE  ReuseLeavesStrays'
  BY <1>2, RevokedRows DEF ReuseLeavesStrays, LiveTokens, Burnt, Typed
<1>3. ASSUME NEW c \in Clients, NEW t \in TokenIds, SigninIssue(c, t)
      PROVE  ReuseLeavesStrays'
  <2>1. /\ DOMAIN tokens' = DOMAIN tokens \union {t}
        /\ \A x \in DOMAIN tokens : tokens'[x] = tokens[x]
        /\ tokens'[t].line = {}
        /\ strays \subseteq strays'
        /\ burnt' = burnt
        /\ t \notin DOMAIN tokens
    BY <1>3 DEF SigninIssue, Put
  <2> QED
    BY <2>1 DEF ReuseLeavesStrays, LiveTokens, Burnt, Typed, SessionsTypeOK
<1>4. ASSUME NEW c \in Clients, NEW t \in TokenIds, RotateIssue(c, t)
      PROVE  ReuseLeavesStrays'
  <2> DEFINE p == calls[c].token
  <2>1. /\ DOMAIN tokens' = DOMAIN tokens \union {t}
        /\ \A x \in DOMAIN tokens : tokens'[x] = tokens[x]
        /\ tokens'[t].line = tokens[p].line \union {p}
        /\ strays \subseteq strays'
        /\ burnt' = burnt
        /\ p \in DOMAIN tokens
        /\ t \notin DOMAIN tokens
    BY <1>4 DEF RotateIssue, Put, Typed, Refs, Doing
  <2>2. t \in strays' \/ p \in LiveTokens \ strays
    BY <1>4, <2>1 DEF RotateIssue, LiveTokens
  <2>3. t \notin burnt
    BY <2>1 DEF Typed, SessionsTypeOK
  <2>4. t \notin strays' => ~Burnt(t)'
    BY <2>1, <2>2, <2>3 DEF ReuseLeavesStrays, Burnt
  <2>5. ASSUME NEW x \in LiveTokens' \ strays', x # t
        PROVE  ~Burnt(x)'
    BY <2>1, <2>5 DEF ReuseLeavesStrays, LiveTokens, Burnt
  <2> QED
    BY <2>4, <2>5 DEF ReuseLeavesStrays
<1>5. ASSUME NEW c \in Clients, WalkRevoke(c)
      PROVE  ReuseLeavesStrays'
  <2>1. /\ tokens' = Revoked(calls[c].seen)
        /\ burnt' = burnt \union {calls[c].token}
        /\ strays' = strays
        /\ c \in DOMAIN calls /\ Doing(c, "walk") /\ calls[c].queue = {}
    BY <1>5 DEF WalkRevoke, Doing
  <2>2. ASSUME NEW t \in LiveTokens' \ strays'
        PROVE  ~Burnt(t)'
    <3>1. /\ t \in LiveTokens \ strays /\ t \notin calls[c].seen
          /\ tokens'[t].line = tokens[t].line
      BY <2>1, <2>2, RevokedRows DEF LiveTokens, Typed
    <3>2. calls[c].token \notin tokens[t].line /\ calls[c].token # t
      BY <2>1, <3>1 DEF WalksReach, Reaches, LiveTokens
    <3> QED
      BY <2>1, <3>1, <3>2 DEF ReuseLeavesStrays, Burnt
  <2> QED
    BY <2>2 DEF ReuseLeavesStrays
<1>6. ASSUME NEW c \in Clients, RotateRetire(c) \/ ResetCommit(c)
      PROVE  ReuseLeavesStrays'
  BY <1>2, <1>6 DEF RotateRetire, ResetCommit
<1>7. ASSUME NEW t \in TokenIds, Logout(t)
      PROVE  ReuseLeavesStrays'
  BY <1>2, <1>7 DEF Logout
<1>8. ASSUME NEW u \in Users, RevokeSessions(u)
      PROVE  ReuseLeavesStrays'
  BY <1>2, <1>8 DEF RevokeSessions
<1>9. ASSUME NEW u \in Users, LeaveSessions(u)
      PROVE  ReuseLeavesStrays'
  BY <1>1, <1>9 DEF LeaveSessions
<1>10. ASSUME NEW c \in Clients, NEW u \in Users, SigninRead(c, u) \/ OpenSession(c, u)
       PROVE  ReuseLeavesStrays'
  BY <1>1, <1>10 DEF SigninRead, OpenSession
<1>11. ASSUME NEW c \in Clients, NEW t \in TokenIds, RefreshRead(c, t) \/ WalkVisit(c, t)
       PROVE  ReuseLeavesStrays'
  BY <1>1, <1>11 DEF RefreshRead, WalkVisit
<1>12. ASSUME NEW c \in Clients, NEW r \in ResetIds, ResetRead(c, r)
       PROVE  ReuseLeavesStrays'
  BY <1>1, <1>12 DEF ResetRead
<1>13. ASSUME NEW u \in Users, NEW r \in ResetIds, ForgotPassword(u, r)
       PROVE  ReuseLeavesStrays'
  BY <1>1, <1>13 DEF ForgotPassword
<1>14. ASSUME UNCHANGED sessionVars
       PROVE  ReuseLeavesStrays'
  BY <1>1, <1>14 DEF sessionVars
<1>15. ASSUME NEW c \in Clients, Abort(c)
       PROVE  ReuseLeavesStrays'
  BY <1>1, <1>15 DEF Abort
<1> QED
  BY <1>3, <1>4, <1>5, <1>6, <1>7, <1>8, <1>9, <1>10, <1>11, <1>12, <1>13, <1>14, <1>15
     DEF SessionStep, SessionsNext, CallStep

LEMMA ResetStep ==
  ASSUME Typed, ResetLeavesStrays, SessionStep
  PROVE  ResetLeavesStrays'
<1>1. ASSUME UNCHANGED <<tokens, resets>>, strays \subseteq strays'
      PROVE  ResetLeavesStrays'
  BY <1>1 DEF ResetLeavesStrays, LiveTokens
<1>2. ASSUME NEW ts, tokens' = Revoked(ts), UNCHANGED <<resets, strays>>
      PROVE  ResetLeavesStrays'
  BY <1>2, RevokedRows DEF ResetLeavesStrays, LiveTokens, Typed
<1>3. ASSUME NEW c \in Clients, NEW t \in TokenIds, SigninIssue(c, t)
      PROVE  ResetLeavesStrays'
  <2>1. /\ DOMAIN tokens' = DOMAIN tokens \union {t}
        /\ \A x \in DOMAIN tokens : tokens'[x] = tokens[x]
        /\ strays \subseteq strays'
        /\ resets' = resets
        /\ t \in strays' \/ tokens'[t].since = resets[tokens'[t].user]
    BY <1>3 DEF SigninIssue, Put
  <2> QED
    BY <2>1 DEF ResetLeavesStrays, LiveTokens
<1>4. ASSUME NEW c \in Clients, NEW t \in TokenIds, RotateIssue(c, t)
      PROVE  ResetLeavesStrays'
  <2> DEFINE p == calls[c].token
  <2>1. /\ DOMAIN tokens' = DOMAIN tokens \union {t}
        /\ \A x \in DOMAIN tokens : tokens'[x] = tokens[x]
        /\ tokens'[t].user = tokens[p].user /\ tokens'[t].since = tokens[p].since
        /\ strays \subseteq strays'
        /\ resets' = resets
        /\ p \in DOMAIN tokens
    BY <1>4 DEF RotateIssue, Put, Typed, Refs, Doing
  <2>2. t \in strays' \/ p \in LiveTokens \ strays
    BY <1>4, <2>1 DEF RotateIssue, LiveTokens
  <2> QED
    BY <2>1, <2>2 DEF ResetLeavesStrays, LiveTokens
<1>5. ASSUME NEW c \in Clients, ResetCommit(c)
      PROVE  ResetLeavesStrays'
  <2> DEFINE u == links[calls[c].link].user
  <2>1. /\ tokens' = Revoked(LiveOf(u))
        /\ \A v \in Users \ {u} : resets'[v] = resets[v]
        /\ strays' = strays
    BY <1>5 DEF ResetCommit, Typed, SessionsTypeOK
  <2>2. ASSUME NEW t \in LiveTokens' \ strays'
        PROVE  tokens'[t].since = resets'[tokens'[t].user]
    <3>1. /\ t \in LiveTokens \ strays /\ t \notin LiveOf(u)
          /\ tokens'[t].user = tokens[t].user
          /\ tokens'[t].since = tokens[t].since
          /\ tokens[t].user \in Users
      BY <2>1, <2>2, RevokedRows DEF LiveTokens, Typed, SessionsTypeOK, Token
    <3> QED
      BY <2>1, <3>1 DEF ResetLeavesStrays, LiveOf
  <2> QED
    BY <2>2 DEF ResetLeavesStrays
<1>6. ASSUME NEW c \in Clients, RotateRetire(c) \/ WalkRevoke(c)
      PROVE  ResetLeavesStrays'
  BY <1>2, <1>6 DEF RotateRetire, WalkRevoke
<1>7. ASSUME NEW t \in TokenIds, Logout(t)
      PROVE  ResetLeavesStrays'
  BY <1>2, <1>7 DEF Logout
<1>8. ASSUME NEW u \in Users, RevokeSessions(u)
      PROVE  ResetLeavesStrays'
  BY <1>2, <1>8 DEF RevokeSessions
<1>9. ASSUME NEW u \in Users, LeaveSessions(u)
      PROVE  ResetLeavesStrays'
  BY <1>1, <1>9 DEF LeaveSessions
<1>10. ASSUME NEW c \in Clients, NEW u \in Users, SigninRead(c, u) \/ OpenSession(c, u)
       PROVE  ResetLeavesStrays'
  BY <1>1, <1>10 DEF SigninRead, OpenSession
<1>11. ASSUME NEW c \in Clients, NEW t \in TokenIds, RefreshRead(c, t) \/ WalkVisit(c, t)
       PROVE  ResetLeavesStrays'
  BY <1>1, <1>11 DEF RefreshRead, WalkVisit
<1>12. ASSUME NEW c \in Clients, NEW r \in ResetIds, ResetRead(c, r)
       PROVE  ResetLeavesStrays'
  BY <1>1, <1>12 DEF ResetRead
<1>13. ASSUME NEW u \in Users, NEW r \in ResetIds, ForgotPassword(u, r)
       PROVE  ResetLeavesStrays'
  BY <1>1, <1>13 DEF ForgotPassword
<1>14. ASSUME UNCHANGED sessionVars
       PROVE  ResetLeavesStrays'
  BY <1>1, <1>14 DEF sessionVars
<1>15. ASSUME NEW c \in Clients, Abort(c)
       PROVE  ResetLeavesStrays'
  BY <1>1, <1>15 DEF Abort
<1> QED
  BY <1>3, <1>4, <1>5, <1>6, <1>7, <1>8, <1>9, <1>10, <1>11, <1>12, <1>13, <1>14, <1>15
     DEF SessionStep, SessionsNext, CallStep

(* Only a sign-in and a rotation make tokens live, and strays stay strays. *)
LEMMA IssueStep ==
  ASSUME Typed, SessionStep
  PROVE  /\ strays \subseteq strays'
         /\ \/ \A u : LiveOf(u)' \subseteq LiveOf(u)
            \/ \E c \in Clients, t \in TokenIds : SigninIssue(c, t) \/ RotateIssue(c, t)
<1> DEFINE Fewer == strays \subseteq strays' /\ \A u : LiveOf(u)' \subseteq LiveOf(u)
<1>1. ASSUME UNCHANGED tokens, strays \subseteq strays'
      PROVE  Fewer
  BY <1>1 DEF LiveOf, LiveTokens
<1>2. ASSUME NEW ts, tokens' = Revoked(ts), UNCHANGED strays
      PROVE  Fewer
  BY <1>2, RevokedRows DEF LiveOf, LiveTokens, Typed
<1>3. ASSUME NEW c \in Clients, NEW t \in TokenIds, SigninIssue(c, t) \/ RotateIssue(c, t)
      PROVE  strays \subseteq strays'
  BY <1>3 DEF SigninIssue, RotateIssue
<1>4. ASSUME NEW c \in Clients, RotateRetire(c) \/ WalkRevoke(c) \/ ResetCommit(c)
      PROVE  Fewer
  BY <1>2, <1>4 DEF RotateRetire, WalkRevoke, ResetCommit
<1>5. ASSUME NEW t \in TokenIds, Logout(t)
      PROVE  Fewer
  BY <1>2, <1>5 DEF Logout
<1>6. ASSUME NEW u \in Users, RevokeSessions(u)
      PROVE  Fewer
  BY <1>2, <1>6 DEF RevokeSessions
<1>7. ASSUME NEW u \in Users, LeaveSessions(u)
      PROVE  Fewer
  BY <1>1, <1>7 DEF LeaveSessions
<1>8. ASSUME NEW c \in Clients, NEW u \in Users, SigninRead(c, u) \/ OpenSession(c, u)
      PROVE  Fewer
  BY <1>1, <1>8 DEF SigninRead, OpenSession
<1>9. ASSUME NEW c \in Clients, NEW t \in TokenIds, RefreshRead(c, t) \/ WalkVisit(c, t)
      PROVE  Fewer
  BY <1>1, <1>9 DEF RefreshRead, WalkVisit
<1>10. ASSUME NEW c \in Clients, NEW r \in ResetIds, ResetRead(c, r)
       PROVE  Fewer
  BY <1>1, <1>10 DEF ResetRead
<1>11. ASSUME NEW u \in Users, NEW r \in ResetIds, ForgotPassword(u, r)
       PROVE  Fewer
  BY <1>1, <1>11 DEF ForgotPassword
<1>12. ASSUME UNCHANGED sessionVars
       PROVE  Fewer
  BY <1>1, <1>12 DEF sessionVars
<1>13. ASSUME NEW c \in Clients, Abort(c)
       PROVE  Fewer
  BY <1>1, <1>13 DEF Abort
<1> QED
  BY <1>3, <1>4, <1>5, <1>6, <1>7, <1>8, <1>9, <1>10, <1>11, <1>12, <1>13
     DEF SessionStep, SessionsNext, CallStep

-----------------------------------------------------------------------------
(* All that is inductive about sessions.                                   *)
SessionsInv == Typed /\ Forest /\ WalksReach /\ ReuseLeavesStrays /\ ResetLeavesStrays

LEMMA SessionsInvInit == SessionsInit => SessionsInv
BY DEF SessionsInit, SessionsInv, Typed, SessionsTypeOK, Refs, Forest, WalksReach,
       ReuseLeavesStrays, ResetLeavesStrays, LiveTokens

LEMMA SessionsInvStep ==
  ASSUME SessionsAssumption, SessionsInv, SessionStep
  PROVE  SessionsInv'
BY TypedStep, ForestStep, WalksReachStep, ReuseStep, ResetStep DEF SessionsInv

(* Every variable of Sessions keeps its type, whatever the interleaving.   *)
THEOREM SessionsTypeCorrect == SessionsSpec => []SessionsTypeOK
<1>1. SessionsInv /\ [SessionsNext /\ UNCHANGED users]_<<users, sessionVars>> => SessionsInv'
  BY SessionsAssumption, SessionsInvStep DEF SessionStep
<1>2. SessionsInv => SessionsTypeOK
  BY DEF SessionsInv, Typed
<1> QED
  BY <1>1, <1>2, SessionsInvInit, PTL DEF SessionsSpec, SignedOut

(* However refreshes, sign-ins, walks, logouts and resets overlap, a token *)
(* that survives the answer to a reuse was inserted behind the walk or     *)
(* from a row already revoked, or comes from one that was (rotate and      *)
(* revokeChain, tokens.service.ts:107-181).                                *)
THEOREM ReuseEscapes == SessionsSpec => []ReuseLeavesStrays
<1>1. SessionsInv /\ [SessionsNext /\ UNCHANGED users]_<<users, sessionVars>> => SessionsInv'
  BY SessionsAssumption, SessionsInvStep DEF SessionStep
<1>2. SessionsInv => ReuseLeavesStrays
  BY DEF SessionsInv
<1> QED
  BY <1>1, <1>2, SessionsInvInit, PTL DEF SessionsSpec, SignedOut

-----------------------------------------------------------------------------
(* Accounts and sessions together.                                         *)

LEMMA NextIsBoth ==
  ASSUME TypeOK, [Next]_vars
  PROVE  [AccountsNext]_accountVars /\ SessionStep
<1>1. ASSUME AdminStep
      PROVE  AccountsNext /\ SessionStep
  BY <1>1 DEF AdminStep, AccountsNext, SessionStep
<1>2. ASSUME AuthStep
      PROVE  UNCHANGED accountVars /\ SessionStep
  BY <1>2 DEF AuthStep, accountVars, SessionStep, SessionsNext
<1>3. ASSUME NEW a \in Admins, Deactivated(a) \/ Offboarded(a)
      PROVE  AccountsNext /\ SessionStep
  <2>1. requests[a].user \in Users
    BY <1>3 DEF Deactivated, Offboarded, FinishDeactivate, CommitOffboard, At,
                TypeOK, AccountsTypeOK, Request
  <2> QED
    BY <1>3, <2>1 DEF Deactivated, Offboarded, AccountsNext, SessionStep
<1>4. ASSUME NEW a \in Admins, Failed(a)
      PROVE  AccountsNext /\ SessionStep
  <2>1. requests[a].user \in Users
    BY <1>4 DEF Failed, Fail, TypeOK, AccountsTypeOK, Request
  <2> QED
    BY <1>4, <2>1 DEF Failed, AccountsNext, SessionStep
<1>5. ASSUME NEW c \in Clients, NEW u \in Users, Joined(c, u)
      PROVE  AccountsNext /\ SessionStep
  BY <1>5 DEF Joined, AccountsNext, SessionStep
<1>6. ASSUME UNCHANGED vars
      PROVE  UNCHANGED accountVars /\ SessionStep
  BY <1>6 DEF vars, accountVars, sessionVars, SessionStep
<1>7. ASSUME NEW c \in Clients, Aborted(c)
      PROVE  UNCHANGED accountVars /\ SessionStep
  BY <1>7 DEF Aborted, accountVars, SessionStep, SessionsNext
<1> QED
  BY <1>1, <1>2, <1>3, <1>4, <1>5, <1>6, <1>7 DEF Next, NextReliable

(* The part of the invariant that ties the two together.                   *)
IdentityInv == TypeOK /\ SessionsInv /\ DisabledLeavesStrays

LEMMA IdentityInvInit == Init => IdentityInv
<1>1. Init => AccountsTypeOK
  BY DEF Init, AccountsInit, UsersInit, AccountsTypeOK
<1>2. Init => SessionsInv /\ SessionsTypeOK
  BY SessionsInvInit DEF Init, SessionsInv, Typed
<1>3. Init => DisabledLeavesStrays
  BY DEF Init, SessionsInit, DisabledLeavesStrays, LiveOf, LiveTokens
<1> QED
  BY <1>1, <1>2, <1>3 DEF IdentityInv, TypeOK

(* An account step that disables a user without ending his sessions is on  *)
(* its way to revoke them.                                                 *)
LEMMA AdminKeepsRevoking ==
  ASSUME AccountsTypeOK, AccountsOnly, NEW u \in Users
  PROVE  /\ Revoking(u) => Revoking(u)'
         /\ users'[u].status = "disabled" => users[u].status = "disabled" \/ Revoking(u)'
<1> USE DEF Revoking, At, AccountsTypeOK
<1> DEFINE Goal == /\ Revoking(u) => Revoking(u)'
                   /\ users'[u].status = "disabled"
                        => users[u].status = "disabled" \/ Revoking(u)'
<1>1. ASSUME NEW v \in Users, AlreadyDisabled(v) \/ Activate(v)
      PROVE  Goal
  BY <1>1 DEF AlreadyDisabled, Activate, SetStatus, User
<1>2. ASSUME NEW v \in Users, NEW b \in BOOLEAN, RestoreEmployee(v, b)
      PROVE  Goal
  BY <1>2 DEF RestoreEmployee, SetStatus, User
<1>3. ASSUME NEW a \in Admins, NEW v \in Users, NEW kind \in Kind, Begin(a, kind, v)
      PROVE  Goal
  BY <1>3 DEF Begin, Put
<1>4. ASSUME NEW a \in Admins, CheckSuper(a)
      PROVE  Goal
  <2>1. /\ UNCHANGED users
        /\ DOMAIN requests' = DOMAIN requests
        /\ \A d \in DOMAIN requests \ {a} : requests'[d] = requests[d]
        /\ requests[a].at # "revoke"
    BY <1>4 DEF CheckSuper, Await
  <2> QED
    BY <2>1
<1>5. ASSUME NEW a \in Admins, CountSupers(a)
      PROVE  Goal
  <2>1. /\ UNCHANGED users
        /\ DOMAIN requests \ {a} \subseteq DOMAIN requests'
        /\ \A d \in DOMAIN requests \ {a} : requests'[d] = requests[d]
        /\ requests[a].at # "revoke"
    BY <1>5 DEF CountSupers, Await, Finish, Drop, Restrict
  <2> QED
    BY <2>1
<1>6. ASSUME NEW a \in Admins, CommitAssign(a)
      PROVE  Goal
  <2>1. /\ users'[u].status = users[u].status
        /\ DOMAIN requests \ {a} \subseteq DOMAIN requests'
        /\ \A d \in DOMAIN requests \ {a} : requests'[d] = requests[d]
        /\ requests[a].at # "revoke"
    BY <1>6 DEF CommitAssign, Finish, Drop, Restrict, User
  <2> QED
    BY <2>1
<1>7. ASSUME NEW a \in Admins, CommitDeactivate(a)
      PROVE  Goal
  <2>1. /\ a \in DOMAIN requests
        /\ DOMAIN requests' = DOMAIN requests
        /\ \A d \in DOMAIN requests \ {a} : requests'[d] = requests[d]
        /\ requests'[a].at = "revoke" /\ requests'[a].user = requests[a].user
        /\ requests[a].at # "revoke"
    BY <1>7 DEF CommitDeactivate, Await, Request
  <2>2. u # requests[a].user => users'[u] = users[u]
    BY <1>7 DEF CommitDeactivate, SetStatus
  <2> QED
    BY <2>1, <2>2
<1> QED
  BY <1>1, <1>2, <1>3, <1>4, <1>5, <1>6, <1>7 DEF AccountsOnly

(* No step gives a disabled user a session that is not a stray.            *)
LEMMA DisabledStep ==
  ASSUME IdentityInv, [Next]_vars
  PROVE  DisabledLeavesStrays'
<1> USE DEF IdentityInv
<1> DEFINE Safe(u) == users[u].status = "disabled" => Revoking(u) \/ LiveOf(u) \subseteq strays
<1>0. SessionStep /\ Typed /\ \A u \in Users : Safe(u)
  BY NextIsBoth DEF SessionsInv, DisabledLeavesStrays
<1>1. ASSUME AdminStep, NEW u \in Users
      PROVE  Safe(u)'
  <2>1. LiveOf(u)' = LiveOf(u) /\ strays' = strays
    BY <1>1 DEF AdminStep, sessionVars, LiveOf, LiveTokens
  <2> QED
    BY <1>0, <1>1, <2>1, AdminKeepsRevoking DEF AdminStep, TypeOK
<1>2. ASSUME AuthStep, NEW u \in Users
      PROVE  Safe(u)'
  <2>1. UNCHANGED <<users, requests>> /\ (Revoking(u)' <=> Revoking(u))
    BY <1>2 DEF AuthStep, Revoking, At
  <2>2. strays \subseteq strays'
    BY <1>0, IssueStep
  <2>3. CASE LiveOf(u)' \subseteq LiveOf(u)
    BY <1>0, <2>1, <2>2, <2>3
  <2>4. ASSUME NEW c \in Clients, NEW t \in TokenIds, SigninIssue(c, t)
        PROVE  Safe(u)'
    <3>1. /\ LiveOf(u)' \subseteq LiveOf(u) \union {t}
          /\ t \in LiveOf(u)' => u = calls[c].user
      BY <2>4 DEF SigninIssue, Put, LiveOf, LiveTokens
    <3>2. u = calls[c].user /\ users[u].status = "disabled" => t \in strays'
      BY <2>4 DEF SigninIssue
    <3> QED
      BY <1>0, <2>1, <2>2, <3>1, <3>2
  <2>5. ASSUME NEW c \in Clients, NEW t \in TokenIds, RotateIssue(c, t)
        PROVE  Safe(u)'
    <3> DEFINE p == calls[c].token
    <3>1. p \in DOMAIN tokens
      BY <1>0, <2>5 DEF RotateIssue, Typed, Refs, Doing
    <3>2. /\ LiveOf(u)' \subseteq LiveOf(u) \union {t}
          /\ t \in LiveOf(u)' => u = tokens[p].user
      BY <2>5, <3>1 DEF RotateIssue, Put, LiveOf, LiveTokens
    <3>3. t \in strays' \/ (p \in LiveTokens /\ p \notin strays)
      BY <2>5, <3>1 DEF RotateIssue, LiveTokens
    <3> QED
      BY <1>0, <2>1, <2>2, <3>2, <3>3 DEF LiveOf
  <2> QED
    BY <1>0, <2>3, <2>4, <2>5, IssueStep
<1>3. ASSUME NEW a \in Admins, Deactivated(a), NEW u \in Users
      PROVE  Safe(u)'
  <2>1. UNCHANGED <<users, strays>> /\ tokens' = Revoked(LiveOf(requests[a].user))
    BY <1>3 DEF Deactivated, FinishDeactivate, RevokeSessions
  <2>2. LiveOf(u)' \subseteq LiveOf(u) \ LiveOf(requests[a].user)
    BY <1>0, <2>1, RevokedRows DEF LiveOf, LiveTokens, Typed
  <2>3. u # requests[a].user => (Revoking(u) => Revoking(u)')
    BY <1>3 DEF Deactivated, FinishDeactivate, Finish, Drop, Restrict, Revoking, At
  <2> QED
    BY <1>0, <2>1, <2>2, <2>3
<1>4. ASSUME NEW a \in Admins, Offboarded(a), NEW u \in Users
      PROVE  Safe(u)'
  <2>1. /\ strays' = strays \union LiveOf(requests[a].user)
        /\ LiveOf(u)' = LiveOf(u)
    BY <1>4 DEF Offboarded, LeaveSessions, LiveOf, LiveTokens
  <2>2. u # requests[a].user => users'[u] = users[u]
    BY <1>4 DEF Offboarded, CommitOffboard, SetStatus, TypeOK, AccountsTypeOK
  <2>3. Revoking(u) => Revoking(u)'
    BY <1>4 DEF Offboarded, CommitOffboard, Finish, Drop, Restrict, Revoking, At
  <2> QED
    BY <1>0, <2>1, <2>2, <2>3
<1>5. ASSUME NEW a \in Admins, Failed(a), NEW u \in Users
      PROVE  Safe(u)'
  <2>1. UNCHANGED users /\ LiveOf(u)' = LiveOf(u) /\ strays \subseteq strays'
    BY <1>5 DEF Failed, Fail, LeaveSessions, sessionVars, LiveOf, LiveTokens
  <2>2. Revoking(u) => Revoking(u)' \/ (At(a, "revoke") /\ requests[a].user = u)
    BY <1>5 DEF Failed, Fail, Finish, Drop, Restrict, Revoking, At
  <2>3. At(a, "revoke") /\ requests[a].user = u => LiveOf(u) \subseteq strays'
    BY <1>5 DEF Failed, LeaveSessions
  <2> QED
    BY <1>0, <2>1, <2>2, <2>3
<1>6. ASSUME NEW c \in Clients, NEW v \in Users, Joined(c, v), NEW u \in Users
      PROVE  Safe(u)'
  <2>1. users'[u].status = "disabled" => users[u].status = "disabled"
    BY <1>6 DEF Joined, AcceptInvite, SetStatus, TypeOK, AccountsTypeOK, User
  <2>2. LiveOf(u)' = LiveOf(u) /\ strays' = strays
    BY <1>6 DEF Joined, OpenSession, LiveOf, LiveTokens
  <2>3. Revoking(u)' <=> Revoking(u)
    BY <1>6 DEF Joined, AcceptInvite, Revoking, At
  <2> QED
    BY <1>0, <2>1, <2>2, <2>3
<1>7. ASSUME UNCHANGED vars, NEW u \in Users
      PROVE  Safe(u)'
  <2>1. (Revoking(u)' <=> Revoking(u)) /\ LiveOf(u)' = LiveOf(u) /\ UNCHANGED <<users, strays>>
    BY <1>7 DEF vars, Revoking, At, LiveOf, LiveTokens
  <2> QED
    BY <1>0, <2>1
<1>8. ASSUME NEW c \in Clients, Aborted(c), NEW u \in Users
      PROVE  Safe(u)'
  <2>1. (Revoking(u)' <=> Revoking(u)) /\ LiveOf(u)' = LiveOf(u) /\ UNCHANGED <<users, strays>>
    BY <1>8 DEF Aborted, Abort, Revoking, At, LiveOf, LiveTokens
  <2> QED
    BY <1>0, <2>1
<1>9. \A u \in Users : Safe(u)'
  BY <1>1, <1>2, <1>3, <1>4, <1>5, <1>6, <1>7, <1>8 DEF Next, NextReliable
<1> QED
  BY <1>9 DEF DisabledLeavesStrays

LEMMA IdentityInvStep == IdentityInv /\ [Next]_vars => IdentityInv'
<1> SUFFICES ASSUME IdentityInv, [Next]_vars
             PROVE  IdentityInv'
  OBVIOUS
<1>1. [AccountsNext]_accountVars /\ SessionStep
  BY NextIsBoth DEF IdentityInv
<1>2. AccountsTypeOK'
  BY <1>1, AccountsTypeStep DEF IdentityInv, TypeOK
<1>3. SessionsInv' /\ SessionsTypeOK'
  BY <1>1, SessionsAssumption, SessionsInvStep DEF IdentityInv, SessionsInv, Typed
<1> QED
  BY <1>2, <1>3, DisabledStep DEF IdentityInv, TypeOK

-----------------------------------------------------------------------------
(* Every variable keeps its type when accounts and sessions interleave.    *)
THEOREM TypeCorrect == Spec => []TypeOK
<1>1. IdentityInv => TypeOK
  BY DEF IdentityInv
<1> QED
  BY <1>1, IdentityInvInit, IdentityInvStep, PTL DEF Spec

(* However everything overlaps and whatever fails half way, the sessions   *)
(* of a disabled user are those an offboarding or a broken-off             *)
(* deactivation left, and those a sign-in or a rotation issued from what   *)
(* it had read before (deactivate, users.service.ts:180-193; remove,       *)
(* employees.service.ts:214-230).                                          *)
THEOREM DisabledEscapes == Spec => []DisabledLeavesStrays
<1>1. IdentityInv => DisabledLeavesStrays
  BY DEF IdentityInv
<1> QED
  BY <1>1, IdentityInvInit, IdentityInvStep, PTL DEF Spec

(* However everything overlaps and whatever fails half way, the sessions   *)
(* that outlive a password reset are those a sign-in or a rotation issued  *)
(* from what it had read before it (resetPassword, auth.service.ts:        *)
(* 455-459).                                                               *)
THEOREM ResetEscapes == Spec => []ResetLeavesStrays
<1>1. IdentityInv => ResetLeavesStrays
  BY DEF IdentityInv, SessionsInv
<1> QED
  BY <1>1, IdentityInvInit, IdentityInvStep, PTL DEF Spec

(* Identity implements Accounts: composing accounts with sessions adds no  *)
(* account behaviour, so GuardedAlone and FounderStays hold of it too.     *)
THEOREM IdentityImplementsAccounts == Spec => AccountsSpec
<1>1. Init => AccountsInit
  BY DEF Init
<1>2. IdentityInv /\ [Next]_vars => [AccountsNext]_accountVars
  BY NextIsBoth DEF IdentityInv
<1> QED
  BY <1>1, <1>2, IdentityInvInit, IdentityInvStep, PTL DEF Spec, AccountsSpec

-----------------------------------------------------------------------------
(* One handler at a time.  Between the steps of a handler nothing moves,   *)
(* so what it has read still holds when it writes; and the one token that  *)
(* is live beside its own child is the one a rotation is about to retire.  *)

Retiring(t) == \E c \in DOMAIN calls : Doing(c, "rotate") /\ calls[c].at = "retire" /\ calls[c].token = t

Newest == \A s, t \in LiveTokens : Related(s, t) => s = t \/ Retiring(s) \/ Retiring(t)

StillTrue(c) ==
    /\ Doing(c, "signin") => users[calls[c].user].status = "active"
    /\ Doing(c, "rotate") /\ calls[c].at = "issue" => tokens[calls[c].token].live
    /\ Doing(c, "reset") => links[calls[c].link].uses = 0

SerialInv == OneHandler /\ (\A c \in DOMAIN calls : StillTrue(c)) /\ ResetUsedOnce /\ Newest

(* While a handler of an administrator moves, no call to /auth is in       *)
(* flight.                                                                 *)
LEMMA NoCallMeanwhile ==
  ASSUME SerialInv, NextAlone,
         AdminStep \/ (\E a \in Admins : Deactivated(a) \/ Offboarded(a))
  PROVE  DOMAIN calls = {} /\ calls' = calls
<1> USE DEF SerialInv, OneHandler
<1>1. CASE AdminStep
  <2>1. calls' = calls
    BY <1>1 DEF AdminStep, sessionVars
  <2>2. CASE AtRest
    BY <2>1, <2>2 DEF AtRest
  <2>3. CASE ~AtRest
    <3>1. requests' # requests
      BY <2>1, <2>3 DEF NextAlone
    <3>2. ASSUME NEW a \in Admins, NEW kind, NEW u, Begin(a, kind, u) PROVE a \in DOMAIN requests'
      BY <3>2 DEF Begin, Put
    <3>3. ASSUME NEW a \in Admins, CheckSuper(a) \/ CountSupers(a) \/ CommitAssign(a) \/ CommitDeactivate(a)
          PROVE  a \in DOMAIN requests
      BY <3>3 DEF CheckSuper, CountSupers, CommitAssign, CommitDeactivate, At
    <3>4. DOMAIN requests # {} \/ DOMAIN requests' # {}
      BY <1>1, <3>1, <3>2, <3>3 DEF AdminStep, AccountsOnly, AlreadyDisabled, Activate, RestoreEmployee
    <3> QED BY <2>1, <3>4 DEF NextAlone
  <2> QED BY <2>2, <2>3
<1>2. ASSUME NEW a \in Admins, Deactivated(a) \/ Offboarded(a)
      PROVE  DOMAIN calls = {} /\ calls' = calls
  <2>1. a \in DOMAIN requests
    BY <1>2 DEF Deactivated, Offboarded, FinishDeactivate, CommitOffboard, At
  <2>2. calls' = calls
    BY <1>2 DEF Deactivated, Offboarded, RevokeSessions, LeaveSessions
  <2> QED BY <2>1, <2>2
<1> QED BY <1>1, <1>2

(* The newest of each chain stays so when what retires is revoked.         *)
LEMMA NewestRevoked ==
  ASSUME SessionsTypeOK, Newest, NEW ts, tokens' = Revoked(ts), \A t : Retiring(t) => t \in ts
  PROVE  Newest'
<1>1. \A t \in LiveTokens' : t \in LiveTokens /\ t \notin ts /\ tokens'[t].line = tokens[t].line
  BY RevokedRows DEF LiveTokens
<1> QED BY <1>1 DEF Newest, Related

(* A handler alone comes to no call but its own.                           *)
LEMMA OnlyCall ==
  ASSUME SerialInv, NextAlone, NEW c \in Clients
  PROVE  /\ c \in DOMAIN calls => DOMAIN calls = {c} /\ DOMAIN requests = {}
         /\ c \in DOMAIN calls' => DOMAIN calls' = {c} /\ DOMAIN requests' = {}
BY DEF SerialInv, NextAlone, OneHandler

LEMMA OpenSerial ==
  ASSUME SerialInv, NextAlone, NEW c \in Clients, NEW u \in Users, OpenSession(c, u),
         users'[u].status = "active"
  PROVE  SerialInv'
<1>1. /\ calls' = Put(calls, c, [kind |-> "signin", user |-> u, since |-> resets[u]])
      /\ UNCHANGED <<tokens, links>>
  BY DEF OpenSession
<1>2. DOMAIN calls' = DOMAIN calls \union {c} /\ c \notin DOMAIN calls
      /\ calls'[c].kind = "signin" /\ calls'[c].user = u
  BY <1>1 DEF OpenSession, Put
<1>3. DOMAIN calls' = {c} /\ DOMAIN calls = {}
  BY <1>2, OnlyCall
<1>4. \A d \in DOMAIN calls' : StillTrue(d)'
  BY <1>2, <1>3 DEF StillTrue, Doing
<1>5. ResetUsedOnce'
  BY <1>1 DEF SerialInv, ResetUsedOnce
<1>6. Newest'
  BY <1>1, <1>3 DEF SerialInv, Newest, Retiring, LiveTokens, Related
<1> QED BY <1>4, <1>5, <1>6 DEF SerialInv, NextAlone

(* What opens any other call reads what is so.                             *)
LEMMA ReadSerial ==
  ASSUME SerialInv, NextAlone, NEW c \in Clients, UNCHANGED <<tokens, links>>,
         c \notin DOMAIN calls, NEW call, calls' = Put(calls, c, call), 
         call.kind \in {"rotate", "walk", "reset"},
         call.kind = "rotate" => call.at = "issue" /\ tokens[call.token].live,
         call.kind = "reset" => links[call.link].uses = 0
  PROVE  SerialInv'
<1>1. DOMAIN calls' = DOMAIN calls \union {c} /\ calls'[c] = call
  BY DEF Put
<1>2. DOMAIN calls' = {c} /\ DOMAIN calls = {}
  BY <1>1, OnlyCall
<1>3. \A d \in DOMAIN calls' : StillTrue(d)'
  BY <1>1, <1>2 DEF StillTrue, Doing
<1>4. ResetUsedOnce'
  BY DEF SerialInv, ResetUsedOnce
<1>5. Newest'
  BY <1>1, <1>2 DEF SerialInv, Newest, Retiring, Doing, LiveTokens, Related
<1> QED BY <1>3, <1>4, <1>5 DEF SerialInv, NextAlone

(* A step that opens no call and revokes, if anything, what retires.       *)
LEMMA CloseSerial ==
  ASSUME SerialInv, NextAlone, SessionsTypeOK, DOMAIN calls' = {}, ResetUsedOnce',
         NEW ts, tokens' = Revoked(ts), \A t : Retiring(t) => t \in ts
  PROVE  SerialInv'
<1>1. Newest'
  BY NewestRevoked DEF SerialInv
<1> QED
  BY <1>1 DEF SerialInv, NextAlone

LEMMA RestSerial ==
  ASSUME SerialInv, NextAlone, DOMAIN calls = {}, UNCHANGED <<tokens, calls>>, ResetUsedOnce'
  PROVE  SerialInv'
BY DEF SerialInv, NextAlone, Newest, Retiring, LiveTokens, Related

(* A sign-in starts a chain of its own.                                    *)
LEMMA SigninSerial ==
  ASSUME Typed, Forest, SerialInv, NextAlone,
         NEW c \in Clients, NEW t \in TokenIds, SigninIssue(c, t)
  PROVE  SerialInv'
<1>1. DOMAIN calls = {c} /\ Doing(c, "signin")
  BY OnlyCall DEF SigninIssue, Doing
<1>2. DOMAIN calls' = {} /\ links' = links
  BY <1>1 DEF SigninIssue, Drop, Restrict
<1>3. /\ DOMAIN tokens' = DOMAIN tokens \union {t} /\ t \notin DOMAIN tokens
      /\ \A x \in DOMAIN tokens : tokens'[x] = tokens[x]
      /\ tokens'[t].line = {}
  BY DEF SigninIssue, Put
<1>4. ~\E x : Retiring(x)
  BY <1>1 DEF Retiring, Doing
<1>5. \A x \in DOMAIN tokens : ~Related(x, t)' /\ ~Related(t, x)'
  BY <1>3 DEF Related, Forest
<1>6. \A x, y \in DOMAIN tokens : Related(x, y)' <=> Related(x, y)
  BY <1>3 DEF Related
<1>7. \A x \in LiveTokens' : x = t \/ x \in LiveTokens
  BY <1>3 DEF LiveTokens
<1>8. Newest'
  BY <1>4, <1>5, <1>6, <1>7 DEF Newest, SerialInv, LiveTokens
<1>9. ResetUsedOnce'
  BY <1>2 DEF SerialInv, ResetUsedOnce
<1> QED
  BY <1>2, <1>8, <1>9 DEF SerialInv, NextAlone

(* A rotation adds to its chain, and what it adds to is to retire: nothing *)
(* else of the chain was live.                                             *)
LEMMA RotateSerial ==
  ASSUME Typed, Forest, SerialInv, NextAlone,
         NEW c \in Clients, NEW t \in TokenIds, RotateIssue(c, t)
  PROVE  SerialInv'
<1> DEFINE p == calls[c].token
<1>1. DOMAIN calls = {c} /\ Doing(c, "rotate") /\ calls[c].at = "issue"
  BY OnlyCall DEF RotateIssue, Doing
<1>2. /\ DOMAIN calls' = {c} /\ links' = links
      /\ calls'[c].kind = "rotate" /\ calls'[c].at = "retire" /\ calls'[c].token = p
  BY <1>1 DEF RotateIssue, Doing, Typed, SessionsTypeOK, Signin, Rotate, Walk, Reset
<1>3. /\ DOMAIN tokens' = DOMAIN tokens \union {t} /\ t \notin DOMAIN tokens
      /\ \A x \in DOMAIN tokens : tokens'[x] = tokens[x]
      /\ tokens'[t].line = tokens[p].line \union {p}
  BY DEF RotateIssue, Put
<1>4. p \in LiveTokens /\ Retiring(p)'
  BY <1>1, <1>2 DEF SerialInv, StillTrue, LiveTokens, Typed, Refs, Retiring, Doing
<1>5. ~\E x : Retiring(x)
  BY <1>1 DEF Retiring, Doing
<1> HIDE DEF p
<1>6. ASSUME NEW x \in LiveTokens, Related(x, t)' \/ Related(t, x)'
      PROVE  x = p
  <2>1. x \in DOMAIN tokens /\ p \in DOMAIN tokens
    BY <1>4 DEF LiveTokens
  <2>2. t \notin tokens[x].line \union {x} /\ t \notin tokens[p].line \union {p}
    BY <1>3, <2>1 DEF Forest
  <2>3. Related(x, p)
    BY <1>3, <1>6, <2>1, <2>2 DEF Related
  <2> QED
    BY <1>4, <1>5, <2>3 DEF SerialInv, Newest
<1>7. \A x, y \in DOMAIN tokens : Related(x, y)' <=> Related(x, y)
  BY <1>3 DEF Related
<1>8. \A x \in LiveTokens' : x = t \/ x \in LiveTokens
  BY <1>3 DEF LiveTokens
<1>9. Newest'
  <2>1. ASSUME NEW x \in LiveTokens', NEW y \in LiveTokens', Related(x, y)', x # y
        PROVE  Retiring(x)' \/ Retiring(y)'
    <3>1. CASE x = t \/ y = t
      <4>1. PICK z \in LiveTokens : z = x \/ z = y
        BY <1>8, <2>1, <3>1
      <4>2. Related(z, t)' \/ Related(t, z)'
        BY <1>3, <2>1, <3>1, <4>1 DEF Related, LiveTokens
      <4>3. z = p
        BY <1>6, <4>1, <4>2
      <4> QED
        BY <1>2, <4>1, <4>3 DEF Retiring, Doing
    <3>2. CASE x # t /\ y # t
      <4>1. x \in LiveTokens /\ y \in LiveTokens
        BY <1>8, <2>1, <3>2
      <4>2. Related(x, y)
        BY <1>7, <2>1, <4>1 DEF LiveTokens
      <4> QED
        BY <1>5, <2>1, <4>1, <4>2 DEF Newest, SerialInv
    <3> QED
      BY <3>1, <3>2
  <2> QED
    BY <2>1 DEF Newest
<1>10. ResetUsedOnce'
  BY <1>2 DEF SerialInv, ResetUsedOnce
<1>11. \A d \in DOMAIN calls' : StillTrue(d)'
  BY <1>2 DEF StillTrue, Doing
<1> QED
  BY <1>9, <1>10, <1>11 DEF SerialInv, NextAlone

(* A reset finds its link as it read it.                                   *)
LEMMA ResetSerial ==
  ASSUME Typed, SerialInv, NextAlone, NEW c \in Clients, ResetCommit(c)
  PROVE  SerialInv'
<1> DEFINE r == calls[c].link
<1>1. DOMAIN calls = {c} /\ Doing(c, "reset")
  BY OnlyCall DEF ResetCommit, Doing
<1>2. DOMAIN calls' = {} /\ ~\E x : Retiring(x)
  BY <1>1 DEF ResetCommit, Drop, Restrict, Retiring, Doing
<1>3. r \in DOMAIN links /\ links[r] \in Link /\ links[r].uses = 0
  BY <1>1 DEF Typed, Refs, SessionsTypeOK, SerialInv, StillTrue
<1>4. links' = [links EXCEPT ![r].uses = @ + 1]
  BY DEF ResetCommit
<1> HIDE DEF r
<1>5. /\ DOMAIN links' = DOMAIN links /\ links'[r].uses = 1
      /\ \A x \in DOMAIN links \ {r} : links'[x] = links[x]
  BY <1>3, <1>4 DEF Link
<1>6. ResetUsedOnce'
  BY <1>5 DEF SerialInv, ResetUsedOnce
<1>7. \E ts : tokens' = Revoked(ts)
  BY DEF ResetCommit
<1> QED
  BY <1>2, <1>6, <1>7, CloseSerial DEF Typed

LEMMA SerialStep ==
  ASSUME IdentityInv, SerialInv, NextAlone
  PROVE  SerialInv'
<1>0. Typed /\ Forest /\ SessionsTypeOK /\ AccountsTypeOK
  BY DEF IdentityInv, SessionsInv, TypeOK
<1>1. ASSUME UNCHANGED links
      PROVE  ResetUsedOnce'
  BY <1>1 DEF SerialInv, ResetUsedOnce
<1>2. ASSUME AdminStep
      PROVE  SerialInv'
  <2>1. DOMAIN calls = {}
    BY <1>2, NoCallMeanwhile
  <2>2. UNCHANGED <<tokens, links, calls>>
    BY <1>2 DEF AdminStep, sessionVars
  <2> QED
    BY <1>1, <2>1, <2>2, RestSerial
<1>3. ASSUME NEW a \in Admins, Deactivated(a) \/ Offboarded(a)
      PROVE  SerialInv'
  <2>1. DOMAIN calls = {} /\ calls' = calls
    BY <1>3, NoCallMeanwhile
  <2>2. /\ UNCHANGED links
        /\ UNCHANGED tokens \/ tokens' = Revoked(LiveOf(requests[a].user))
    BY <1>3 DEF Deactivated, Offboarded, RevokeSessions, LeaveSessions
  <2>3. ~\E t : Retiring(t)
    BY <2>1 DEF Retiring
  <2> QED
    BY <1>0, <1>1, <2>1, <2>2, <2>3, RestSerial, CloseSerial
<1>4. ASSUME NEW c \in Clients, NEW u \in Users, Joined(c, u)
      PROVE  SerialInv'
  <2>1. users'[u].status = "active"
    BY <1>0, <1>4 DEF Joined, AcceptInvite, SetStatus, AccountsTypeOK, User
  <2> QED
    BY <1>4, <2>1, OpenSerial DEF Joined
<1>5. ASSUME AuthStep
      PROVE  SerialInv'
  <2>0. users' = users /\ requests' = requests
    BY <1>5 DEF AuthStep
  <2>1. ASSUME NEW c \in Clients, NEW u \in Users, SigninRead(c, u)
        PROVE  SerialInv'
    BY <2>0, <2>1, OpenSerial DEF SigninRead
  <2>2. ASSUME NEW c \in Clients, NEW t \in TokenIds, RefreshRead(c, t)
        PROVE  SerialInv'
    <3> DEFINE call == IF tokens[t].live
                       THEN [kind |-> "rotate", token |-> t, at |-> "issue"]
                       ELSE [kind |-> "walk", token |-> t, seen |-> {}, queue |-> {t}]
    <3>1. /\ UNCHANGED <<tokens, links>> /\ c \notin DOMAIN calls
          /\ calls' = Put(calls, c, call)
      BY <2>2 DEF RefreshRead
    <3>2. /\ call.kind \in {"rotate", "walk", "reset"} /\ call.kind # "reset"
          /\ call.kind = "rotate" => call.at = "issue" /\ tokens[call.token].live
      OBVIOUS
    <3> HIDE DEF call
    <3> QED
      BY <3>1, <3>2, ReadSerial
  <2>3. ASSUME NEW c \in Clients, NEW r \in ResetIds, ResetRead(c, r)
        PROVE  SerialInv'
    <3> DEFINE call == [kind |-> "reset", link |-> r]
    <3>1. /\ UNCHANGED <<tokens, links>> /\ c \notin DOMAIN calls
          /\ calls' = Put(calls, c, call)
          /\ links[call.link].uses = 0
      BY <2>3 DEF ResetRead
    <3>2. call.kind \in {"rotate", "walk", "reset"} /\ call.kind # "rotate"
      OBVIOUS
    <3> HIDE DEF call
    <3> QED
      BY <3>1, <3>2, ReadSerial
  <2>4. ASSUME NEW c \in Clients, NEW t \in TokenIds, WalkVisit(c, t)
        PROVE  SerialInv'
    <3>1. DOMAIN calls = {c} /\ Doing(c, "walk") /\ calls[c] \in Walk
      BY <1>0, <2>4, OnlyCall, WalkingType DEF WalkVisit
    <3>2. UNCHANGED <<tokens, links>> /\ DOMAIN calls' = {c} /\ calls'[c].kind = "walk"
      BY <2>4, <3>1 DEF WalkVisit, Walk
    <3>3. (\A d \in DOMAIN calls' : StillTrue(d)') /\ Newest'
      BY <3>1, <3>2 DEF StillTrue, Doing, SerialInv, Newest, Retiring, LiveTokens, Related
    <3> QED
      BY <1>1, <3>2, <3>3 DEF SerialInv, NextAlone
  <2>5. ASSUME NEW c \in Clients, WalkRevoke(c)
        PROVE  SerialInv'
    <3>1. DOMAIN calls = {c} /\ Doing(c, "walk")
      BY <2>5, OnlyCall DEF WalkRevoke, Doing
    <3>2. /\ UNCHANGED links /\ DOMAIN calls' = {} /\ tokens' = Revoked(calls[c].seen)
          /\ ~\E t : Retiring(t)
      BY <2>5, <3>1 DEF WalkRevoke, Drop, Restrict, Retiring, Doing
    <3> QED
      BY <1>0, <1>1, <3>2, CloseSerial
  <2>6. ASSUME NEW c \in Clients, RotateRetire(c)
        PROVE  SerialInv'
    <3>1. DOMAIN calls = {c}
      BY <2>6, OnlyCall DEF RotateRetire, Doing
    <3>2. /\ UNCHANGED links /\ DOMAIN calls' = {} /\ tokens' = Revoked({calls[c].token})
          /\ \A t : Retiring(t) => t \in {calls[c].token}
      BY <2>6, <3>1 DEF RotateRetire, Drop, Restrict, Retiring, Doing
    <3> QED
      BY <1>0, <1>1, <3>2, CloseSerial
  <2>7. ASSUME NEW t \in TokenIds, Logout(t)
        PROVE  SerialInv'
    <3>1. UNCHANGED <<links, calls>> /\ tokens' = Revoked({t})
      BY <2>7 DEF Logout
    <3>2. DOMAIN calls = {} /\ DOMAIN calls' = {} /\ ~\E x : Retiring(x)
      BY <2>0, <3>1 DEF NextAlone, AtRest, Retiring
    <3> QED
      BY <1>0, <1>1, <3>1, <3>2, CloseSerial
  <2>8. ASSUME NEW u \in Users, NEW r \in ResetIds, ForgotPassword(u, r)
        PROVE  SerialInv'
    <3>1. UNCHANGED <<tokens, calls>>
      BY <2>8 DEF ForgotPassword
    <3>2. DOMAIN calls = {}
      BY <2>0, <3>1 DEF NextAlone, AtRest
    <3>3. ResetUsedOnce'
      BY <2>8 DEF ForgotPassword, Put, SerialInv, ResetUsedOnce
    <3> QED
      BY <3>1, <3>2, <3>3, RestSerial
  <2> QED
    BY <1>0, <1>5, <2>1, <2>2, <2>3, <2>4, <2>5, <2>6, <2>7, <2>8,
       SigninSerial, RotateSerial, ResetSerial
       DEF AuthStep, CallStep
<1> QED
  BY <1>2, <1>3, <1>4, <1>5 DEF NextAlone, NextReliable

-----------------------------------------------------------------------------
EitherInv == IdentityInv /\ (alone => SerialInv)

EitherStep == (IF alone THEN NextAlone ELSE Next) /\ UNCHANGED alone

LEMMA EitherInvInit == Init => EitherInv
<1> SUFFICES ASSUME Init PROVE SerialInv
  BY IdentityInvInit DEF EitherInv
<1>1. DOMAIN requests = {} /\ DOMAIN calls = {} /\ DOMAIN links = {} /\ LiveTokens = {}
  BY DEF Init, AccountsInit, SessionsInit, LiveTokens
<1> QED
  BY <1>1 DEF SerialInv, OneHandler, ResetUsedOnce, Newest

LEMMA EitherIsNext == [EitherStep]_<<vars, alone>> => [Next]_vars /\ alone' = alone
BY DEF EitherStep, NextAlone, Next

LEMMA SerialStutter ==
  ASSUME SerialInv, UNCHANGED vars
  PROVE  SerialInv'
<1>1. UNCHANGED <<users, requests, tokens, links, calls>>
  BY DEF vars
<1> QED
  BY <1>1 DEF SerialInv, OneHandler, StillTrue, Doing, ResetUsedOnce, Newest, Retiring,
              LiveTokens, Related

LEMMA EitherInvStep == EitherInv /\ [EitherStep]_<<vars, alone>> => EitherInv'
<1> SUFFICES ASSUME EitherInv, [EitherStep]_<<vars, alone>> PROVE EitherInv'
  OBVIOUS
<1>1. IdentityInv' /\ alone' = alone
  BY EitherIsNext, IdentityInvStep DEF EitherInv
<1>2. ASSUME alone PROVE SerialInv'
  BY <1>2, SerialStep, SerialStutter DEF EitherInv, EitherStep
<1> QED
  BY <1>1, <1>2 DEF EitherInv

THEOREM HandlersInvariant == SpecEither => []EitherInv
BY EitherInvInit, EitherInvStep, PTL DEF SpecEither, EitherStep

(* When handlers run alone a session has one live token between them: what *)
(* rotateRefresh stores before it retires the parent is the only exception *)
(* while it runs (rotate, tokens.service.ts:102-152).                      *)
THEOREM OneLiveHolds == SpecEither => []OneLiveIfAlone
<1>1. EitherInv => OneLiveIfAlone
  BY DEF EitherInv, OneLiveIfAlone, OneLivePerChain, Quiet, SerialInv, Newest, Retiring
<1> QED
  BY <1>1, HandlersInvariant, PTL

(* When handlers run alone a reset link changes the password once          *)
(* (resetPassword, auth.service.ts:436-459).                               *)
THEOREM ResetOnceHolds == SpecEither => []ResetOnceIfAlone
<1>1. EitherInv => ResetOnceIfAlone
  BY DEF EitherInv, ResetOnceIfAlone, SerialInv
<1> QED
  BY <1>1, HandlersInvariant, PTL

-----------------------------------------------------------------------------
(* A disabled user of an organisation nobody leaves.                       *)
AllStay == \A a \in DOMAIN requests : requests[a].kind # "offboard"

LEMMA SignedOutStep ==
  ASSUME IdentityInv, SerialInv, AllStay, DisabledIsSignedOut, NextAlone
  PROVE  DisabledIsSignedOut'
<1> DEFINE Safe(u) == users[u].status = "disabled" => Revoking(u) \/ LiveOf(u) = {}
<1>0. /\ Typed /\ SessionsTypeOK /\ AccountsTypeOK /\ SessionStep
      /\ \A u \in Users : Safe(u)
  BY NextIsBoth DEF IdentityInv, SessionsInv, TypeOK, NextAlone, Next, DisabledIsSignedOut
<1>1. ASSUME AdminStep, NEW u \in Users
      PROVE  Safe(u)'
  <2>1. LiveOf(u)' = LiveOf(u)
    BY <1>1 DEF AdminStep, sessionVars, LiveOf, LiveTokens
  <2> QED
    BY <1>0, <1>1, <2>1, AdminKeepsRevoking DEF AdminStep
<1>2. ASSUME AuthStep, NEW u \in Users
      PROVE  Safe(u)'
  <2>1. UNCHANGED <<users, requests>> /\ (Revoking(u)' <=> Revoking(u))
    BY <1>2 DEF AuthStep, Revoking, At
  <2>2. CASE LiveOf(u)' \subseteq LiveOf(u)
    BY <1>0, <2>1, <2>2
  <2>3. ASSUME NEW c \in Clients, NEW t \in TokenIds, SigninIssue(c, t)
        PROVE  Safe(u)'
    <3>1. /\ LiveOf(u)' \subseteq LiveOf(u) \union {t}
          /\ t \in LiveOf(u)' => u = calls[c].user
      BY <2>3 DEF SigninIssue, Put, LiveOf, LiveTokens
    <3>2. users[calls[c].user].status = "active"
      BY <2>3 DEF SigninIssue, SerialInv, StillTrue, Doing
    <3> QED
      BY <1>0, <2>1, <3>1, <3>2
  <2>4. ASSUME NEW c \in Clients, NEW t \in TokenIds, RotateIssue(c, t)
        PROVE  Safe(u)'
    <3> DEFINE p == calls[c].token
    <3>1. p \in DOMAIN tokens /\ tokens[p].live /\ DOMAIN requests = {}
      BY <1>0, <2>4, OnlyCall DEF RotateIssue, Typed, Refs, Doing, SerialInv, StillTrue
    <3>2. /\ LiveOf(u)' \subseteq LiveOf(u) \union {t}
          /\ t \in LiveOf(u)' => u = tokens[p].user
      BY <2>4, <3>1 DEF RotateIssue, Put, LiveOf, LiveTokens
    <3>3. ~Revoking(u) /\ (u = tokens[p].user => p \in LiveOf(u))
      BY <3>1 DEF Revoking, LiveOf, LiveTokens
    <3> QED
      BY <1>0, <2>1, <3>2, <3>3
  <2> QED
    BY <1>0, <2>2, <2>3, <2>4, IssueStep
<1>3. ASSUME NEW a \in Admins, Deactivated(a), NEW u \in Users
      PROVE  Safe(u)'
  <2>1. UNCHANGED users /\ tokens' = Revoked(LiveOf(requests[a].user))
    BY <1>3 DEF Deactivated, FinishDeactivate, RevokeSessions
  <2>2. LiveOf(u)' \subseteq LiveOf(u) \ LiveOf(requests[a].user)
    BY <1>0, <2>1, RevokedRows DEF LiveOf, LiveTokens
  <2>3. u # requests[a].user => (Revoking(u) => Revoking(u)')
    BY <1>3 DEF Deactivated, FinishDeactivate, Finish, Drop, Restrict, Revoking, At
  <2> QED
    BY <1>0, <2>1, <2>2, <2>3
<1>4. ASSUME NEW a \in Admins, Offboarded(a)
      PROVE  FALSE
  BY <1>4 DEF Offboarded, CommitOffboard, At, AllStay
<1>5. ASSUME NEW c \in Clients, NEW v \in Users, Joined(c, v), NEW u \in Users
      PROVE  Safe(u)'
  <2>1. users'[u].status = "disabled" => users[u].status = "disabled"
    BY <1>0, <1>5 DEF Joined, AcceptInvite, SetStatus, AccountsTypeOK, User
  <2>2. LiveOf(u)' = LiveOf(u) /\ (Revoking(u)' <=> Revoking(u))
    BY <1>5 DEF Joined, AcceptInvite, OpenSession, LiveOf, LiveTokens, Revoking, At
  <2> QED
    BY <1>0, <2>1, <2>2
<1>6. \A u \in Users : Safe(u)'
  BY <1>1, <1>2, <1>3, <1>4, <1>5 DEF NextAlone, NextReliable
<1> QED
  BY <1>6 DEF DisabledIsSignedOut

(* When handlers run alone and nobody is offboarded, a deactivated user    *)
(* has no working session (deactivate, users.service.ts:180-193).          *)
THEOREM SignedOutHolds ==
  SpecEither /\ [][NobodyLeaves]_<<vars, alone>> => []SignedOutIfAlone
<1> DEFINE Inv == EitherInv /\ AllStay /\ (alone => DisabledIsSignedOut)
<1>1. Init => Inv
  BY EitherInvInit DEF Init, AccountsInit, SessionsInit, AllStay, DisabledIsSignedOut,
                       LiveOf, LiveTokens
<1>2. Inv /\ [EitherStep]_<<vars, alone>> /\ [NobodyLeaves]_<<vars, alone>> => Inv'
  <2> SUFFICES ASSUME Inv, [EitherStep]_<<vars, alone>>, [NobodyLeaves]_<<vars, alone>>
               PROVE  Inv'
    OBVIOUS
  <2>1. EitherInv' /\ alone' = alone
    BY EitherInvStep, EitherIsNext
  <2>2. AllStay'
    BY DEF NobodyLeaves, AllStay, vars
  <2>3. ASSUME alone PROVE DisabledIsSignedOut'
    <3>1. CASE NextAlone
      BY <2>3, <3>1, SignedOutStep DEF EitherInv
    <3>2. CASE UNCHANGED vars
      <4>1. UNCHANGED <<users, requests, tokens>>
        BY <3>2 DEF vars
      <4> QED
        BY <2>3, <4>1 DEF DisabledIsSignedOut, Revoking, At, LiveOf, LiveTokens
    <3> QED
      BY <2>3, <3>1, <3>2 DEF EitherStep
  <2> QED
    BY <2>1, <2>2, <2>3
<1>3. Inv => SignedOutIfAlone
  <2> SUFFICES ASSUME Inv, alone PROVE DeactivatedIsSignedOut
    BY DEF SignedOutIfAlone
  <2>1. deactivated \subseteq Users
    BY DEF EitherInv, IdentityInv, TypeOK, AccountsTypeOK
  <2> QED
    BY <2>1 DEF DeactivatedIsSignedOut, DisabledIsSignedOut
<1> QED
  BY <1>1, <1>2, <1>3, PTL DEF SpecEither, EitherStep
=============================================================================
