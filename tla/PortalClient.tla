---------------------------- MODULE PortalClient ----------------------------
(***************************************************************************)
(* The portals' fetch client (packages/ui/src/api/client.ts) and what they *)
(* do when a session ends (providers/query-provider.tsx,                   *)
(* auth/session-gate.tsx), against the refresh of the API                  *)
(* (auth/tokens.service.ts, guards/csrf.guard.ts): one browser whose tabs  *)
(* share the cookies and nothing else.                                     *)
(*                                                                         *)
(* A refresh token and the csrf token set with it go by one number, the    *)
(* order of issue; 0 is none.  A call is numbered as it starts.            *)
(***************************************************************************)
EXTENDS Naturals, Sequences, SequencesExt

CONSTANTS
    Tabs,       \* browser tabs of one portal
    MaxCalls    \* bounds the calls to the API

ASSUME PortalClientAssumption == MaxCalls \in Nat

VARIABLES
    rows,       \* the refresh tokens the API issued, oldest first
    jar,        \* the cookies: the newest token received, is the access token fresh
    readable,   \* portal and API share a domain: scripts can read sf_csrf
    tabs,       \* the page of each tab with its csrfCache and csrfRequests
    calls,      \* the calls made so far, oldest first
    excuses     \* history: what has happened that may cost a call its session

clientVars == <<rows, jar, readable, tabs, calls, excuses>>

Issued == 1 .. Len(rows)

Row  == [live: BOOLEAN, line: SUBSET Nat]
Kind == {"read", "write", "me"}
Goal == {"first", "refresh", "retry"}
At   == {"csrf", "wait", "send", "sent", "renewed", "received", "done"}
End  == {"none", "ok", "expired", "forbidden", "gone"}
Call == [tab: Tabs, kind: Kind, goal: Goal, at: At, csrf: Nat, token: Nat, end: End]

(* asking and leaving hold, plus one, the cookie a GET /auth/csrf or a     *)
(* POST /auth/logout under way was sent with.                              *)
Tab == [page: {"app", "signin"}, cache: Nat, asking: Nat, leaving: Nat]

Fresh     == [page |-> "signin", cache |-> 0, asking |-> 0, leaving |-> 0]
CallsOf(t) == {c \in DOMAIN calls : calls[c].tab = t /\ calls[c].at # "done"}
LiveRows  == {r \in Issued : rows[r].live}
Revoked(rs) == [r \in Issued |-> [rows[r] EXCEPT !.live = @ /\ r \notin rs]]
Chain(r)  == {x \in Issued : r = x \/ r \in rows[x].line}

ClientInit ==
    /\ rows = <<[live |-> TRUE, line |-> {}]>>
    /\ jar = [token |-> 1, fresh |-> TRUE]
    /\ readable \in BOOLEAN
    /\ tabs = [t \in Tabs |-> [Fresh EXCEPT !.page = "app"]]
    /\ calls = << >>
    /\ excuses = {}

Child(r) == [live |-> TRUE, line |-> rows[r].line \union {r}]

Excused(cond, why) == IF cond THEN {why} ELSE {}

-----------------------------------------------------------------------------
(* call and resolveCsrf.                                                   *)

Begin(t, kind) ==
    /\ Len(calls) < MaxCalls
    /\ tabs[t].page = "app" /\ tabs[t].leaving = 0
    /\ calls' = Append(calls,
           [tab |-> t, kind |-> kind, goal |-> "first",
            at |-> IF kind = "write" THEN "csrf" ELSE "send",
            csrf |-> 0, token |-> 0, end |-> "none"])
    /\ UNCHANGED <<rows, jar, readable, tabs, excuses>>

Known(t) == IF readable /\ jar.token # 0 THEN jar.token ELSE tabs[t].cache

(* Between the new cookies and the code that looks at them.                *)
Renewing(t) == \E c \in CallsOf(t) : calls[c].at = "received"

(* The cookie if it can be read, the cached token, the answer under way,   *)
(* or a new request.                                                       *)
Resolve(c) ==
    /\ calls[c].at = "csrf"
    /\ LET t == calls[c].tab IN
       IF Known(t) # 0
       THEN /\ calls' = [calls EXCEPT ![c].at = "send", ![c].csrf = Known(t)]
            /\ tabs' = [tabs EXCEPT ![t].cache = Known(t)]
            /\ excuses' = excuses \union Excused(Known(t) # jar.token /\ Renewing(t), "outdated")
       ELSE /\ calls' = [calls EXCEPT ![c].at = "wait"]
            /\ tabs' = [tabs EXCEPT ![t].asking = IF @ = 0 THEN jar.token + 1 ELSE @]
            /\ UNCHANGED excuses
    /\ UNCHANGED <<rows, jar, readable>>

(* Every waiting call of the tab goes on, with a token or without.         *)
Told(t, token) ==
    [c \in DOMAIN calls |->
        IF calls[c].tab = t /\ calls[c].at = "wait"
        THEN [calls[c] EXCEPT !.at = "send", !.csrf = token] ELSE calls[c]]

CsrfAnswer(t) ==
    /\ tabs[t].asking # 0
    /\ LET token == tabs[t].asking - 1 IN
       /\ tabs' = [tabs EXCEPT ![t].asking = 0,
                               ![t].cache = IF token # 0 THEN token ELSE @]
       /\ calls' = Told(t, token)
    /\ UNCHANGED <<rows, jar, readable, excuses>>

\* mutant: a request that failed is not forgotten, and nobody is told
CsrfFailsSilent(t) ==
    /\ tabs[t].asking # 0
    /\ "network" \notin excuses
    /\ excuses' = excuses \union {"network"}
    /\ tabs' = [tabs EXCEPT ![t].asking = 0]
    /\ UNCHANGED <<rows, jar, readable, calls>>

CsrfFails(t) ==
    /\ tabs[t].asking # 0
    /\ "network" \notin excuses
    /\ excuses' = excuses \union {"network"}
    /\ tabs' = [tabs EXCEPT ![t].asking = 0]
    /\ calls' = Told(t, 0)
    /\ UNCHANGED <<rows, jar, readable>>

CsrfMatches(c) == calls[c].csrf # 0 /\ calls[c].csrf = jar.token

Ended(c, end) == [calls[c] EXCEPT !.goal = "first", !.at = "done", !.csrf = 0, !.token = 0,
                                  !.end = end]

Finish(c, end) == calls' = [calls EXCEPT ![c] = Ended(c, end)]

GoToSignIn(t) ==
    /\ tabs' = [tabs EXCEPT ![t] = Fresh]
    /\ calls' = [c \in DOMAIN calls |-> IF c \in CallsOf(t) THEN Ended(c, "gone") ELSE calls[c]]

(* What a 401 that reaches the caller does: a probe of the session makes   *)
(* SessionGate go to the sign-in page, anything else signs out first, once *)
(* for the whole page.                                                     *)
Leaving(c) == tabs[calls[c].tab].leaving # 0 \/ tabs[calls[c].tab].page = "signin"

Expire(c) ==
    IF Leaving(c)
    THEN Finish(c, "expired") /\ UNCHANGED tabs
    ELSE IF calls[c].kind = "me"
    THEN GoToSignIn(calls[c].tab)
    ELSE /\ Finish(c, "expired")
         /\ tabs' = [tabs EXCEPT ![calls[c].tab].leaving = jar.token + 1]

Leave(t) ==
    /\ tabs[t].leaving # 0
    /\ rows' = Revoked({tabs[t].leaving - 1})
    /\ jar' = [token |-> 0, fresh |-> FALSE]
    /\ excuses' = excuses \union {"ended"}
    /\ GoToSignIn(t)
    /\ UNCHANGED readable

(* The request itself: JwtAuthGuard first, then CsrfGuard.                 *)
Request(c) ==
    /\ calls[c].at = "send" /\ calls[c].goal \in {"first", "retry"}
    /\ IF ~jar.fresh
       THEN IF calls[c].goal = "first"
            THEN /\ calls' = [calls EXCEPT ![c].goal = "refresh", ![c].at = "csrf"]
                 /\ UNCHANGED tabs
            ELSE Expire(c)
       ELSE /\ Finish(c, IF calls[c].kind = "write" /\ ~CsrfMatches(c)
                         THEN "forbidden" ELSE "ok")
            /\ UNCHANGED tabs
    /\ UNCHANGED <<rows, jar, readable, excuses>>

-----------------------------------------------------------------------------
(* refreshOnce and TokensService.rotate.                                   *)

Refreshing == {c \in DOMAIN calls : calls[c].at \in {"sent", "renewed"}}

(* The cookies go out as they are now; two refreshes under way may carry   *)
(* the same token.  A csrf token that is not the cookie's is turned down.  *)
RefreshSend(c) ==
    /\ calls[c].at = "send" /\ calls[c].goal = "refresh"
    /\ IF CsrfMatches(c)
       THEN /\ calls' = [calls EXCEPT ![c].at = "sent", ![c].token = jar.token]
            /\ UNCHANGED tabs
            /\ excuses' = excuses \union Excused(Refreshing # {}, "overlap")
       ELSE Expire(c) /\ UNCHANGED excuses
    /\ UNCHANGED <<rows, jar, readable>>

(* One at a time: Sessions has the statements of rotate and revokeChain    *)
(* one by one.                                                             *)
Refresh(c) ==
    /\ calls[c].at = "sent"
    /\ IF rows[calls[c].token].live
       THEN /\ rows' = Append(Revoked({calls[c].token}), Child(calls[c].token))
            /\ calls' = [calls EXCEPT ![c].at = "renewed", ![c].token = Len(rows) + 1]
            /\ UNCHANGED tabs
       ELSE rows' = Revoked(Chain(calls[c].token)) /\ Expire(c)
    /\ UNCHANGED <<jar, readable, excuses>>

(* New cookies outdate what another tab, a call about to be sent or a      *)
(* csrf request under way has in hand.                                     *)
Outdates(t) ==
    \/ \E u \in Tabs \ {t} : ~readable /\ tabs[u].cache # 0
    \/ \E u \in Tabs : tabs[u].asking # 0
    \/ \E d \in DOMAIN calls : calls[d].at = "send" /\ calls[d].csrf # 0

SetCookies(t, token) ==
    /\ jar' = [token |-> token, fresh |-> TRUE]
    /\ excuses' = excuses \union Excused(Outdates(t), "outdated")

Receive(c) ==
    /\ calls[c].at = "renewed"
    /\ SetCookies(calls[c].tab, calls[c].token)
    /\ calls' = [calls EXCEPT ![c].at = "received", ![c].csrf = 0, ![c].token = 0]
    /\ UNCHANGED <<rows, readable, tabs>>

\* mutant: the cached csrf token outlives the refresh
ContinueCached(c) ==
    /\ calls[c].at = "received"
    /\ calls' = [calls EXCEPT ![c].goal = "retry",
                              ![c].at = IF calls[c].kind = "write" THEN "csrf" ELSE "send"]
    /\ UNCHANGED <<rows, jar, readable, tabs, excuses>>

(* invalidateCsrf, then the call once more.                               *)
Continue(c) ==
    /\ calls[c].at = "received"
    /\ calls' = [calls EXCEPT ![c].goal = "retry",
                              ![c].at = IF calls[c].kind = "write" THEN "csrf" ELSE "send"]
    /\ tabs' = [tabs EXCEPT ![calls[c].tab].cache = 0]
    /\ UNCHANGED <<rows, jar, readable, excuses>>

(* A refresh that gets no answer; what the API did with it stays.          *)
RefreshFails(c) ==
    /\ c \in Refreshing
    /\ "network" \notin excuses
    /\ excuses' = excuses \union {"network"}
    /\ Expire(c)
    /\ UNCHANGED <<rows, jar, readable>>

-----------------------------------------------------------------------------
(* The session.  An access token outlives the retry it was renewed for.    *)

AccessExpires ==
    /\ jar.fresh
    /\ \A c \in DOMAIN calls : calls[c].at # "received" /\
                               (calls[c].goal = "retry" => calls[c].at = "done")
    /\ jar' = [jar EXCEPT !.fresh = FALSE]
    /\ UNCHANGED <<rows, readable, tabs, calls, excuses>>

(* The refresh token runs out, or the account is disabled.                 *)
SessionEnds ==
    /\ "ended" \notin excuses
    /\ rows' = Revoked(Issued)
    /\ excuses' = excuses \union {"ended"}
    /\ UNCHANGED <<jar, readable, tabs, calls>>

SignOut(t) ==
    /\ tabs[t].page = "app" /\ tabs[t].leaving = 0
    /\ rows' = Revoked({jar.token})
    /\ jar' = [token |-> 0, fresh |-> FALSE]
    /\ tabs' = [tabs EXCEPT ![t].page = "signin", ![t].cache = 0]
    /\ excuses' = excuses \union {"ended"}
    /\ UNCHANGED <<readable, calls>>

SignIn(t) ==
    /\ tabs[t].page = "signin"
    /\ Len(rows) <= MaxCalls
    /\ rows' = Append(rows, [live |-> TRUE, line |-> {}])
    /\ SetCookies(t, Len(rows) + 1)
    /\ tabs' = [tabs EXCEPT ![t].page = "app", ![t].cache = 0]
    /\ UNCHANGED <<readable, calls>>

(* Steps the browser and the API take by themselves.                       *)
CallProceeds(c) ==
    \/ Resolve(c) \/ Request(c)
    \/ RefreshSend(c) \/ Refresh(c) \/ Receive(c) \/ Continue(c)

TabProceeds(t) == CsrfAnswer(t) \/ CsrfFails(t) \/ Leave(t)

ClientNext ==
    \/ \E t \in Tabs :
          \/ TabProceeds(t)
          \/ SignOut(t)
          \/ SignIn(t)
          \/ \E kind \in Kind : Begin(t, kind)
    \/ \E c \in DOMAIN calls : CallProceeds(c) \/ RefreshFails(c)
    \/ AccessExpires
    \/ SessionEnds

Proceed ==
    \/ \E t \in Tabs : TabProceeds(t)
    \/ \E c \in DOMAIN calls : CallProceeds(c)

(* Requests are answered and promises continued, in any order.             *)
ClientFairness == WF_clientVars(Proceed)

ClientSpec == ClientInit /\ [][ClientNext]_clientVars /\ ClientFairness

-----------------------------------------------------------------------------
ClientTypeOK ==
    /\ \A r \in Issued : rows[r] \in Row
    /\ jar \in [token: 0 .. Len(rows), fresh: BOOLEAN]
    /\ readable \in BOOLEAN
    /\ tabs \in [Tabs -> Tab]
    /\ Len(calls) <= MaxCalls
    /\ \A c \in DOMAIN calls : calls[c] \in Call
    /\ excuses \subseteq {"ended", "overlap", "outdated", "network"}

(* A call outlives its access token without anybody noticing: it is only   *)
(* refused after the session ended, the network failed, two refreshes ran  *)
(* at once or new cookies outdated what it had in hand ("attempts ONE      *)
(* refresh via POST /auth/refresh, then retries the original request",     *)
(* client.ts:8-9).                                                         *)
Transparent ==
    excuses = {} => \A c \in DOMAIN calls : calls[c].end \in {"none", "ok"}

(* Every call comes to an end: nobody waits for a csrf token that is not   *)
(* coming (csrfRequests, client.ts:72-91).                                 *)
CallsEnd ==
    \A c \in 1 .. MaxCalls :
        (c \in DOMAIN calls /\ calls[c].at # "done") ~>
        (c \in DOMAIN calls /\ calls[c].at = "done")
=============================================================================
