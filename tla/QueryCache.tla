----------------------------- MODULE QueryCache -----------------------------
(***************************************************************************)
(* One view of one portal in the query cache of a browser tab              *)
(* (packages/ui/src/providers/query-provider.tsx, packages/ui/src/api),    *)
(* while the tab's mutations and everybody else change what it shows.      *)
(* Each change makes a new version of it.  Fetching, joining a fetch,      *)
(* cancelling one and marking data stale are the query library's; the keys *)
(* a mutation makes stale, what it puts into the cache and which views     *)
(* poll are the portals' (module QueryKeys).                               *)
(***************************************************************************)
EXTENDS Integers, Tables, QueryKeys

CONSTANTS
    Sends,          \* the mutations a tab may have under way together
    MaxVersion,     \* bounds the changes of what the view shows
    MaxFailures     \* bounds the fetches that fail

ASSUME QueryCacheAssumption == MaxVersion \in Nat /\ MaxFailures \in Nat

VARIABLES
    portal,     \* the portal the tab shows
    view,       \* the view followed: its name
    effects,    \* what the mutations of the portal mean to it
    version,    \* what the API would answer now
    shown,      \* what the cache holds of it, -1: nothing
    stale,      \* the cache knows it may be out of date
    open,       \* a page that uses the view is mounted and in front
    fetch,      \* its query under way: Idle, Asked, or the version read
    sends,      \* the mutations under way
    failures,   \* how many fetches have failed
    promised    \* history: the version a settled mutation made a mounted page
                \* owe the reader

cacheVars == <<portal, view, effects, version, shown, stale, open, fetch, sends, failures, promised>>

Nothing  == -1
Idle     == -2
Asked    == -1
Version  == 0 .. MaxVersion

(* What a mutation means to a view; those that mean nothing to it are left *)
(* out.                                                                    *)
EffectOf(name, hook, on, of) ==
    [changes   |-> Changes(hook, of),
     refreshes |-> Refreshes(hook, of),
     puts      |-> of.key \in hook.puts,
     owed      |-> <<name, on>> \notin LeftStale]

EffectsOn(hooks, on, of) ==
    {effect \in {EffectOf(name, hooks[name], on, of) : name \in DOMAIN hooks} :
        effect.changes \/ effect.refreshes}

Effect == [changes: BOOLEAN, refreshes: BOOLEAN, puts: BOOLEAN, owed: BOOLEAN]
Send   == [effect: Effect, answer: {Nothing} \union Version]

(* What the keys owe the views: a mutation that is not left out makes      *)
(* stale what it changes, and one that only puts its answer into a view,   *)
(* where an older answer may come last, is left out, as is every other     *)
(* that changes the view.                                                  *)
Promises(effect) == effect.changes /\ effect.owed

Covered(some) ==
    \A effect \in some :
        /\ Promises(effect) => effect.refreshes
        /\ effect.puts /\ ~effect.refreshes => \A other \in some : ~Promises(other)

KeysCover ==
    \A on \in DOMAIN Views : \A of \in DOMAIN Views[on] :
        Covered(EffectsOn(Hooks[on], of, Views[on][of]))

(* A fact about the tables of QueryKeys, which TLC computes.               *)
ASSUME KeysAssumption == KeysCover

CacheTypeOK ==
    /\ portal \in DOMAIN Views /\ view \in DOMAIN Views[portal]
    /\ effects \subseteq Effect
    /\ version \in Version /\ shown \in {Nothing} \union Version /\ promised \in Version
    /\ stale \in BOOLEAN /\ open \in BOOLEAN
    /\ fetch \in {Idle, Asked} \union Version
    /\ DOMAIN sends \subseteq Sends /\ \A s \in DOMAIN sends : sends[s] \in Send
    /\ failures \in 0 .. MaxFailures

CacheInit ==
    /\ portal \in DOMAIN Views
    /\ view \in DOMAIN Views[portal]
    /\ effects = EffectsOn(Hooks[portal], view, Views[portal][view])
    /\ version = 0 /\ shown = Nothing /\ stale = FALSE /\ open = FALSE
    /\ fetch = Idle /\ sends = << >> /\ failures = 0 /\ promised = 0

-----------------------------------------------------------------------------
(* A page mounts and unmounts; time passes; the window is focused.         *)

Mount ==
    /\ ~open /\ open' = TRUE
    /\ fetch' = IF fetch = Idle /\ (shown = Nothing \/ stale) THEN Asked ELSE fetch
    /\ UNCHANGED <<portal, view, effects, version, shown, stale, sends, failures, promised>>

Unmount ==
    /\ open /\ open' = FALSE
    /\ UNCHANGED <<portal, view, effects, version, shown, stale, fetch, sends, failures, promised>>

\* staleTime runs out.
Ages ==
    /\ shown # Nothing /\ ~stale /\ stale' = TRUE
    /\ UNCHANGED <<portal, view, effects, version, shown, open, fetch, sends, failures, promised>>

\* gcTime runs out on a view no page uses.
Forget ==
    /\ ~open /\ fetch = Idle /\ shown # Nothing
    /\ shown' = Nothing /\ stale' = FALSE
    /\ UNCHANGED <<portal, view, effects, version, open, fetch, sends, failures, promised>>

\* refetchOnWindowFocus, or a Retry button after a failure.
Refetch ==
    /\ open /\ (stale \/ shown = Nothing) /\ fetch = Idle /\ fetch' = Asked
    /\ UNCHANGED <<portal, view, effects, version, shown, stale, open, sends, failures, promised>>

\* mutant: only data known to be stale is polled
PollStale ==
    /\ open /\ view \in Polled /\ fetch = Idle /\ stale /\ fetch' = Asked
    /\ UNCHANGED <<portal, view, effects, version, shown, stale, open, sends, failures, promised>>

\* refetchInterval, on the views that have one.
Poll ==
    /\ open /\ view \in Polled /\ fetch = Idle /\ fetch' = Asked
    /\ UNCHANGED <<portal, view, effects, version, shown, stale, open, sends, failures, promised>>

-----------------------------------------------------------------------------
(* A query is served, answers, or fails.                                   *)

Serve ==
    /\ fetch = Asked /\ fetch' = version
    /\ UNCHANGED <<portal, view, effects, version, shown, stale, open, sends, failures, promised>>

Arrive ==
    /\ fetch \in Version
    /\ shown' = fetch /\ stale' = FALSE /\ fetch' = Idle
    /\ UNCHANGED <<portal, view, effects, version, open, sends, failures, promised>>

Fail ==
    /\ fetch # Idle /\ failures < MaxFailures
    /\ fetch' = Idle /\ failures' = failures + 1
    /\ UNCHANGED <<portal, view, effects, version, shown, stale, open, sends, promised>>

-----------------------------------------------------------------------------
(* Mutations of this tab, changes made elsewhere, the end of the session.  *)

Mutate(s) ==
    \E effect \in effects :
        /\ s \notin DOMAIN sends
        /\ sends' = Put(sends, s, [effect |-> effect, answer |-> Nothing])
        /\ UNCHANGED <<portal, view, effects, version, shown, stale, open, fetch, failures, promised>>

Commit(s) ==
    /\ s \in DOMAIN sends /\ sends[s].answer = Nothing
    /\ sends[s].effect.changes => version < MaxVersion
    /\ version' = IF sends[s].effect.changes THEN version + 1 ELSE version
    /\ sends' = [sends EXCEPT ![s].answer = version']
    /\ UNCHANGED <<portal, view, effects, shown, stale, open, fetch, failures, promised>>

\* mutant: invalidateQueries with cancelRefetch: false
RestartsIdle(s) == sends[s].effect.refreshes /\ open /\ fetch = Idle

(* onSuccess: the answer is put into the cache, the keys are made stale;   *)
(* a view in use is fetched anew, a fetch under way given up for it, but   *)
(* the first fetch of a view is left to finish and its answer taken.       *)
Restarts(s) == sends[s].effect.refreshes /\ open /\ (fetch = Idle \/ shown # Nothing)

Settle(s) ==
    LET send   == sends[s]
        effect == send.effect
    IN  /\ s \in DOMAIN sends /\ send.answer # Nothing
        /\ sends' = [x \in DOMAIN sends \ {s} |-> sends[x]]
        /\ shown' = IF effect.puts THEN send.answer ELSE shown
        /\ stale' = IF effect.refreshes THEN shown' # Nothing
                    ELSE IF effect.puts THEN FALSE ELSE stale
        /\ fetch' = IF Restarts(s) THEN Asked ELSE fetch
        /\ promised' = IF /\ effect.changes /\ effect.owed
                          /\ fetch = Idle \/ (open /\ shown # Nothing)
                          /\ promised < send.answer
                       THEN send.answer ELSE promised
        /\ UNCHANGED <<portal, view, effects, version, open, failures>>

\* The API refuses a mutation: a toast, and nothing else.
Refuse(s) ==
    /\ s \in DOMAIN sends /\ sends[s].answer = Nothing
    /\ sends' = [x \in DOMAIN sends \ {s} |-> sends[x]]
    /\ UNCHANGED <<portal, view, effects, version, shown, stale, open, fetch, failures, promised>>

ChangeElsewhere ==
    /\ version < MaxVersion /\ version' = version + 1
    /\ UNCHANGED <<portal, view, effects, shown, stale, open, fetch, sends, failures, promised>>

(* useSignOut and handleSessionExpiry clear the cache and leave the page.  *)
ClearCache ==
    /\ shown' = Nothing /\ stale' = FALSE /\ open' = FALSE
    /\ fetch' = Idle /\ sends' = << >>
    /\ UNCHANGED <<portal, view, effects, version, failures, promised>>

CacheNext ==
    \/ Mount \/ Unmount \/ Ages \/ Forget \/ Refetch \/ Poll
    \/ Serve \/ Arrive \/ Fail
    \/ \E s \in Sends : Mutate(s) \/ Commit(s) \/ Settle(s) \/ Refuse(s)
    \/ ChangeElsewhere \/ ClearCache

(* The interval of a polled view comes round while its page is in front,   *)
(* and what the browser asked is answered: no one clicks so fast that each *)
(* answer is given up for a newer question.                                *)
CacheFairness == WF_cacheVars(Poll) /\ WF_cacheVars(Serve) /\ SF_cacheVars(Arrive)

CacheSpec == CacheInit /\ [][CacheNext]_cacheVars /\ CacheFairness

-----------------------------------------------------------------------------
(* A page never shows as fresh what a mutation of its own tab has changed  *)
(* and answered: either it shows the change, or it is fetching, or it      *)
(* knows it is stale (the invalidateQueries of every onSuccess).  Not      *)
(* promised: the pairs of LeftStale, and a mutation that settles during    *)
(* the first fetch of the view or a fetch that outlived its page.          *)
NothingStale ==
    open /\ fetch = Idle /\ ~stale /\ shown # Nothing => shown >= promised

(* A dashboard or badge left open catches up with the API, whoever made    *)
(* the change (refetchInterval, dashboard.ts:27, notifications.ts:74).     *)
Recovers == view \in Polled => []<>(~open \/ shown = version)
=============================================================================
