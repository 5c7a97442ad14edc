------------------------------ MODULE MCPortal ------------------------------
(* The client that calls the API and the cache of what it answered: each   *)
(* behaviour moves one of them and leaves the other as it began.           *)
EXTENDS PortalClient, QueryCache, FiniteSets
CONSTANTS ta, tb

(* One excuse is followed as far as it goes, a session that ended and its  *)
(* third token with one call under way.  Tabs differ by name only: the     *)
(* first call is of the first one.                                         *)
OneAtATime ==
    /\ Cardinality(excuses') <= 1
    /\ "ended" \in excuses' /\ Len(rows') > 2 =>
           Cardinality({c \in DOMAIN calls' : calls'[c].at # "done"}) <= 1
    /\ calls' # << >> => calls'[1].tab = ta

(* Where the client starts while only the cache moves.                     *)
OnlyCache == ClientInit /\ ~readable /\ UNCHANGED clientVars
(* The client is followed beside one view of the cache only.               *)
OnlyCalls ==
    /\ view = "employeeDashboard" /\ version = 0 /\ shown = Nothing /\ ~open
    /\ fetch = Idle /\ sends = << >> /\ failures = 0
    /\ UNCHANGED cacheVars

(* Two mutations meet on the views some of them also put answers into.     *)
Meets == 2 \in DOMAIN sends' => view \in {"session", "organization", "documents"}

AtRest == ClientInit /\ CacheInit

SpecApart ==
    /\ AtRest
    /\ [][ \/ ClientNext /\ OneAtATime /\ OnlyCalls
           \/ CacheNext /\ Meets /\ OnlyCache ]_<<clientVars, cacheVars>>
    /\ ClientFairness /\ CacheFairness
=============================================================================
