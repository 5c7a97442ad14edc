------------------------------ MODULE Sessions ------------------------------
(***************************************************************************)
(* Refresh tokens and password resets (auth/tokens.service.ts and the      *)
(* sign-in, refresh, logout and reset handlers of auth/auth.service.ts).   *)
(*                                                                         *)
(* A session is a chain of refresh tokens linked by parent_id.  Sign-in,   *)
(* rotation, the walk of a burnt chain and a reset are each a sequence of  *)
(* statements outside any transaction (the last of a reset is one), and    *)
(* each statement is an action.  An expired token, challenge or link is    *)
(* refused without a write, so expiry is simply the call not being made.   *)
(***************************************************************************)
EXTENDS UserTable

CONSTANTS
    Clients,    \* calls to /auth that run concurrently
    TokenIds,   \* identities of refresh tokens; bounds how many are issued
    ResetIds,   \* identities of password reset links; bounds how many are sent
    NoToken     \* the parent of the first token of a session

ASSUME SessionsAssumption == NoToken \notin TokenIds

VARIABLES
    tokens,     \* the refresh token rows that exist
    links,      \* the password reset rows that exist
    calls,      \* calls in flight: what each has read so far
    resets,     \* history: how many resets of each user have committed
    burnt,      \* history: tokens whose reuse was detected and answered
    strays      \* history: tokens issued or left alive past what should end them

sessionVars == <<tokens, links, calls, resets, burnt, strays>>

(* "line" is the set of ancestors, what following parent_id to the root    *)
(* would collect; "since" the number of resets when the session was opened *)
Token == [user: Users, parent: TokenIds \union {NoToken}, line: SUBSET TokenIds,
          live: BOOLEAN, since: Nat]
Link  == [user: Users, uses: Nat]

Signin == [kind: {"signin"}, user: Users, since: Nat]
Rotate == [kind: {"rotate"}, token: TokenIds, at: {"issue", "retire"}]
Walk   == [kind: {"walk"}, token: TokenIds, seen: SUBSET TokenIds, queue: SUBSET TokenIds]
Reset  == [kind: {"reset"}, link: ResetIds]

Doing(c, kind) == c \in DOMAIN calls /\ calls[c].kind = kind

LiveTokens  == {t \in DOMAIN tokens : tokens[t].live}
LiveOf(u)   == {t \in LiveTokens : tokens[t].user = u}
Children(t) == {x \in DOMAIN tokens : tokens[x].parent = t}

Revoked(ts) == [t \in DOMAIN tokens |-> [tokens[t] EXCEPT !.live = @ /\ t \notin ts]]

SessionsInit ==
    /\ tokens = << >>
    /\ links = << >>
    /\ calls = << >>
    /\ resets = [u \in Users |-> 0]
    /\ burnt = {}
    /\ strays = {}

-----------------------------------------------------------------------------
(* Sign-in: the user is read and his password verified (a second factor    *)
(* only widens the gap), then finalizeSignin issues a token unconditionally *)

OpenSession(c, u) ==
    /\ c \notin DOMAIN calls
    /\ calls' = Put(calls, c, [kind |-> "signin", user |-> u, since |-> resets[u]])
    /\ UNCHANGED <<tokens, links, resets, burnt, strays>>

SigninRead(c, u) ==
    /\ users[u].status = "active"
    /\ OpenSession(c, u)

SigninIssue(c, t) ==
    /\ Doing(c, "signin")
    /\ t \in TokenIds \ DOMAIN tokens
    /\ LET u == calls[c].user IN
       /\ tokens' = Put(tokens, t, [user |-> u, parent |-> NoToken, line |-> {},
                                    live |-> TRUE, since |-> calls[c].since])
       /\ strays' = IF users[u].status = "active" /\ calls[c].since = resets[u]
                    THEN strays ELSE strays \union {t}
    /\ calls' = Drop(calls, c)
    /\ UNCHANGED <<links, resets, burnt>>

-----------------------------------------------------------------------------
(* Refresh: a live token is exchanged for a child, a dead one is taken as  *)
(* stolen.  The child is stored before the parent is revoked.              *)

\* mutant: a revoked token is exchanged like a live one
RefreshReadAny(c, t) ==
    /\ c \notin DOMAIN calls
    /\ t \in DOMAIN tokens
    /\ calls' = Put(calls, c, [kind |-> "rotate", token |-> t, at |-> "issue"])
    /\ UNCHANGED <<tokens, links, resets, burnt, strays>>

RefreshRead(c, t) ==
    /\ c \notin DOMAIN calls
    /\ t \in DOMAIN tokens
    /\ calls' = Put(calls, c,
           IF tokens[t].live
           THEN [kind |-> "rotate", token |-> t, at |-> "issue"]
           ELSE [kind |-> "walk", token |-> t, seen |-> {}, queue |-> {t}])
    /\ UNCHANGED <<tokens, links, resets, burnt, strays>>

(* A walk that has read the children of t will not find one added later.   *)
WalkedPast(t) == \E c \in DOMAIN calls : Doing(c, "walk") /\ t \in calls[c].seen

RotateIssue(c, t) ==
    /\ Doing(c, "rotate") /\ calls[c].at = "issue"
    /\ t \in TokenIds \ DOMAIN tokens
    /\ LET p == calls[c].token IN
       /\ tokens' = Put(tokens, t, [user |-> tokens[p].user, parent |-> p,
                                    line |-> tokens[p].line \union {p},
                                    live |-> TRUE, since |-> tokens[p].since])
       /\ strays' = IF tokens[p].live /\ p \notin strays /\ ~WalkedPast(p)
                    THEN strays ELSE strays \union {t}
    /\ calls' = [calls EXCEPT ![c].at = "retire"]
    /\ UNCHANGED <<links, resets, burnt>>

RotateRetire(c) ==
    /\ Doing(c, "rotate") /\ calls[c].at = "retire"
    /\ tokens' = Revoked({calls[c].token})
    /\ calls' = Drop(calls, c)
    /\ UNCHANGED <<links, resets, burnt, strays>>

(* revokeChain: one query for the children of each token, in the order     *)
(* they come, then one statement that revokes every token seen.            *)
WalkVisit(c, t) ==
    /\ Doing(c, "walk")
    /\ t \in calls[c].queue
    /\ calls' = [calls EXCEPT ![c].seen  = @ \union {t},
                              ![c].queue = (@ \union Children(t)) \ {t}]
    /\ UNCHANGED <<tokens, links, resets, burnt, strays>>

\* mutant: only the token presented is revoked, not its descendants
WalkRevokeRoot(c) ==
    /\ Doing(c, "walk") /\ calls[c].queue = {}
    /\ tokens' = Revoked({calls[c].token})
    /\ burnt' = burnt \union {calls[c].token}
    /\ calls' = Drop(calls, c)
    /\ UNCHANGED <<links, resets, strays>>

WalkRevoke(c) ==
    /\ Doing(c, "walk") /\ calls[c].queue = {}
    /\ tokens' = Revoked(calls[c].seen)
    /\ burnt' = burnt \union {calls[c].token}
    /\ calls' = Drop(calls, c)
    /\ UNCHANGED <<links, resets, strays>>

Logout(t) ==
    /\ t \in LiveTokens
    /\ tokens' = Revoked({t})
    /\ UNCHANGED <<links, calls, resets, burnt, strays>>

-----------------------------------------------------------------------------
(* Forgotten passwords.                                                    *)

ForgotPassword(u, r) ==
    /\ users[u].status = "active"
    /\ r \in ResetIds \ DOMAIN links
    /\ links' = Put(links, r, [user |-> u, uses |-> 0])
    /\ UNCHANGED <<tokens, calls, resets, burnt, strays>>

\* mutant: a link that has been used is accepted again
ResetReadAny(c, r) ==
    /\ c \notin DOMAIN calls
    /\ r \in DOMAIN links
    /\ calls' = Put(calls, c, [kind |-> "reset", link |-> r])
    /\ UNCHANGED <<tokens, links, resets, burnt, strays>>

ResetRead(c, r) ==
    /\ c \notin DOMAIN calls
    /\ r \in DOMAIN links /\ links[r].uses = 0
    /\ calls' = Put(calls, c, [kind |-> "reset", link |-> r])
    /\ UNCHANGED <<tokens, links, resets, burnt, strays>>

\* mutant: the new password is stored but the sessions are left alone
ResetCommitOnly(c) ==
    /\ Doing(c, "reset")
    /\ LET r == calls[c].link
           u == links[r].user
       IN  /\ links' = [links EXCEPT ![r].uses = @ + 1]
           /\ resets' = [resets EXCEPT ![u] = @ + 1]
    /\ calls' = Drop(calls, c)
    /\ UNCHANGED <<tokens, burnt, strays>>

ResetCommit(c) ==
    /\ Doing(c, "reset")
    /\ LET r == calls[c].link
           u == links[r].user
       IN  /\ links' = [links EXCEPT ![r].uses = @ + 1]
           /\ resets' = [resets EXCEPT ![u] = @ + 1]
           /\ tokens' = Revoked(LiveOf(u))
    /\ calls' = Drop(calls, c)
    /\ UNCHANGED <<burnt, strays>>

-----------------------------------------------------------------------------
(* What account handlers do to the sessions of a user: deactivate revokes  *)
(* them; offboarding, and a deactivation that stops half way, let them be. *)

\* mutant: deactivating a user leaves his refresh tokens alone
RevokeNone(u) == u \in Users /\ UNCHANGED sessionVars

RevokeSessions(u) ==
    /\ tokens' = Revoked(LiveOf(u))
    /\ UNCHANGED <<links, calls, resets, burnt, strays>>

LeaveSessions(u) ==
    /\ strays' = strays \union LiveOf(u)
    /\ UNCHANGED <<tokens, links, calls, resets, burnt>>

(* A statement fails or the process dies: what was committed stays.        *)
Abort(c) ==
    /\ c \in DOMAIN calls
    /\ calls' = Drop(calls, c)
    /\ UNCHANGED <<tokens, links, resets, burnt, strays>>

(* Steps of calls that run to their end.                                   *)
CallStep ==
    \/ \E c \in Clients, u \in Users : SigninRead(c, u)
    \/ \E c \in Clients, t \in TokenIds :
          \/ SigninIssue(c, t)
          \/ RefreshRead(c, t)
          \/ RotateIssue(c, t)
          \/ WalkVisit(c, t)
    \/ \E c \in Clients, r \in ResetIds : ResetRead(c, r)
    \/ \E c \in Clients : RotateRetire(c) \/ WalkRevoke(c) \/ ResetCommit(c)
    \/ \E t \in TokenIds : Logout(t)
    \/ \E u \in Users, r \in ResetIds : ForgotPassword(u, r)

SessionsNext == CallStep \/ \E c \in Clients : Abort(c)

(* Sessions of users whose accounts nobody touches.                        *)
SignedOut == UsersInit /\ SessionsInit

SessionsSpec ==
    /\ SignedOut
    /\ [][SessionsNext /\ UNCHANGED users]_<<users, sessionVars>>

-----------------------------------------------------------------------------
SessionsTypeOK ==
    /\ DOMAIN tokens \subseteq TokenIds
    /\ \A t \in DOMAIN tokens : tokens[t] \in Token
    /\ DOMAIN links \subseteq ResetIds
    /\ \A r \in DOMAIN links : links[r] \in Link
    /\ DOMAIN calls \subseteq Clients
    /\ \A c \in DOMAIN calls : calls[c] \in Signin \union Rotate \union Walk \union Reset
    /\ resets \in [Users -> Nat]
    /\ burnt \subseteq DOMAIN tokens
    /\ strays \subseteq DOMAIN tokens

Quiet == DOMAIN calls = {}

(* A session is one chain of which only the newest token works: between    *)
(* calls no two live tokens are ancestor and descendant, or siblings, so   *)
(* logging out the token a browser holds ends its session (rotate,         *)
(* tokens.service.ts:102-152).                                             *)
Related(s, t)   == (tokens[s].line \union {s}) \cap (tokens[t].line \union {t}) # {}
OneLivePerChain == Quiet => \A s, t \in LiveTokens : Related(s, t) => s = t

(* A password reset link changes the password once.                        *)
ResetUsedOnce == \A r \in DOMAIN links : links[r].uses <= 1

Burnt(t) == (tokens[t].line \union {t}) \cap burnt # {}

(* Once a reuse has been answered no descendant of the token is accepted   *)
(* (rotate's reuse branch and revokeChain, tokens.service.ts:102-127,      *)
(* 163-181): with calls overlapping in every way, the only tokens that     *)
(* survive are descendants of one inserted behind the walk or from a row   *)
(* already revoked.                                                        *)
ReuseLeavesStrays == \A t \in LiveTokens \ strays : ~Burnt(t)

(* A session opened before a password reset does not outlive it            *)
(* (resetPassword, auth.service.ts:455-459): with calls overlapping in     *)
(* every way, the only tokens that survive come from a sign-in or a        *)
(* rotation that read before it and wrote after it.                        *)
ResetLeavesStrays ==
    \A t \in LiveTokens \ strays : tokens[t].since = resets[tokens[t].user]
=============================================================================
