---------------------------- MODULE PortalProofs ----------------------------
(***************************************************************************)
(* The fetch client never loses a call to an expired access token unless   *)
(* something happened that excuses it, and the query cache shows nothing   *)
(* as fresh that a mutation of its own tab outdated: for any number of     *)
(* tabs, calls, mutations under way, versions and failures.                *)
(***************************************************************************)
EXTENDS PortalClient, QueryCache, TLAPS

-----------------------------------------------------------------------------
(* The cache.  A promise is only made when the fetch under way is given up *)
(* or there is none, so what a fetch has read is never older; and what is  *)
(* not known to be stale came from such a fetch.                           *)

CacheTypes ==
    /\ version \in Nat /\ promised \in Nat
    /\ shown \in {Nothing} \union Nat /\ fetch \in {Idle, Asked} \union Nat
    /\ stale \in BOOLEAN /\ open \in BOOLEAN
    /\ \A s \in DOMAIN sends : sends[s].effect \in effects /\ sends[s].answer \in {Nothing} \union Nat

Unpromised   == (\A effect \in effects : ~Promises(effect)) => promised = 0
NoneAhead    == promised <= version /\ \A s \in DOMAIN sends : sends[s].answer <= version
FetchKeeps   == fetch \in Nat => promised <= fetch
FreshKeeps   == shown # Nothing /\ ~stale => promised <= shown

CacheInv == CacheTypes /\ Covered(effects) /\ Unpromised /\ NoneAhead /\ FetchKeeps /\ FreshKeeps

-----------------------------------------------------------------------------
(* The client.  As long as nothing has happened that may cost a call its   *)
(* session, the jar holds a token, live unless a refresh is about to bring *)
(* its successor; whoever has a csrf token in hand has that of the jar;    *)
(* and a call that has refreshed finds the access token fresh.             *)

ClientTypes ==
    /\ rows \in Seq(Row)
    /\ jar \in [token: Nat, fresh: BOOLEAN] /\ jar.token <= Len(rows)
    /\ readable \in BOOLEAN
    /\ tabs \in [Tabs -> Tab]
    /\ calls \in Seq(Call)
    /\ \A c \in Refreshing : calls[c].token \in Issued

CallStands(call) ==
    /\ call.end \in {"none", "ok"}
    /\ call.at = "send" => call.csrf \in {0, jar.token}
    /\ call.at = "send" /\ (call.goal = "refresh" \/ call.kind = "write") => call.csrf # 0
    /\ call.at = "received" => call.csrf = 0
    /\ call.at = "received" \/ (call.goal = "retry" /\ call.at # "done") => jar.fresh
    /\ call.at = "sent" => call.token = jar.token
    /\ call.at = "renewed" => call.token \in Issued /\ rows[call.token].live

CallsStand == \A c \in DOMAIN calls : CallStands(calls[c])

OneRefresh == \A c, d \in Refreshing : c = d

TokenLives ==
    /\ jar.token # 0
    /\ (\A c \in DOMAIN calls : calls[c].at # "renewed") => rows[jar.token].live

TabStands(t) ==
    /\ tabs[t].page = "app" /\ tabs[t].leaving = 0
    /\ tabs[t].asking \in {0, jar.token + 1}
    /\ readable \/ Renewing(t) \/ tabs[t].cache \in {0, jar.token}

TabsStand == \A t \in Tabs : TabStands(t)

Undisturbed == CallsStand /\ OneRefresh /\ TokenLives /\ TabsStand

Calm == excuses = {} => Undisturbed

ClientInv == ClientTypes /\ Calm

-----------------------------------------------------------------------------
LEMMA CacheInitially == CacheInit => CacheInv
<1> SUFFICES ASSUME CacheInit PROVE CacheInv
  OBVIOUS
<1>1. DOMAIN sends = {}
  BY DEF CacheInit
<1>2. CacheTypes
  <2>1. version = 0 /\ promised = 0 /\ shown = Nothing /\ fetch = Idle
    BY Zenon DEF CacheInit
  <2>2. stale \in BOOLEAN /\ open \in BOOLEAN
    BY Zenon DEF CacheInit
  <2> QED BY <1>1, <2>1, <2>2 DEF CacheTypes
<1>3. Covered(effects)
  BY KeysAssumption, Zenon DEF CacheInit, KeysCover
<1>4. NoneAhead /\ Unpromised
  <2>1. version = 0 /\ promised = 0
    BY Zenon DEF CacheInit
  <2> QED BY <1>1, <2>1 DEF NoneAhead, Unpromised
<1>5. fetch = Idle /\ shown = Nothing
  BY Zenon DEF CacheInit
<1>6. FetchKeeps /\ FreshKeeps
  BY <1>5 DEF FetchKeeps, FreshKeeps, Idle
<1> QED BY <1>2, <1>3, <1>4, <1>6 DEF CacheInv

(* What moves nothing but whether the view is in use, known to be stale,   *)
(* asked for or forgotten.                                                 *)
LEMMA CacheRests ==
    ASSUME CacheInv, UNCHANGED <<effects, version, sends, promised>>,
           stale' \in BOOLEAN, open' \in BOOLEAN,
           shown' \in {shown, Nothing}, shown' = Nothing \/ stale' \/ stale' = stale,
           fetch' \in {fetch, Idle, Asked}
    PROVE  CacheInv'
<1>1. CacheTypes'
  BY DEF CacheInv, CacheTypes
<1>2. Covered(effects)' /\ Unpromised' /\ NoneAhead'
  BY DEF CacheInv, Covered, Unpromised, NoneAhead, Promises
<1>3. FetchKeeps'
  BY DEF CacheInv, FetchKeeps, Idle, Asked
<1>4. FreshKeeps'
  BY DEF CacheInv, FreshKeeps
<1> QED BY <1>1, <1>2, <1>3, <1>4 DEF CacheInv

LEMMA ServeStays == ASSUME CacheInv, Serve PROVE CacheInv'
<1>1. version \in Nat /\ promised \in Nat /\ promised <= version
  BY DEF CacheInv, CacheTypes, NoneAhead
<1>2. CacheTypes'
  BY DEF CacheInv, CacheTypes, Serve
<1>3. Covered(effects)' /\ Unpromised' /\ NoneAhead' /\ FreshKeeps'
  BY DEF CacheInv, Covered, Unpromised, NoneAhead, Promises, FreshKeeps, Serve
<1>4. FetchKeeps'
  BY <1>1 DEF FetchKeeps, Serve
<1> QED BY <1>2, <1>3, <1>4 DEF CacheInv

(* An answer arrives: what it read is no older than any promise.           *)
LEMMA ArriveStays == ASSUME CacheInv, Arrive PROVE CacheInv'
<1>1. fetch \in Nat /\ promised <= fetch /\ promised \in Nat
  BY QueryCacheAssumption DEF CacheInv, CacheTypes, FetchKeeps, Arrive, Version
<1>2. CacheTypes'
  BY <1>1 DEF CacheInv, CacheTypes, Arrive
<1>3. Covered(effects)' /\ Unpromised' /\ NoneAhead'
  BY DEF CacheInv, Covered, Unpromised, NoneAhead, Promises, Arrive
<1>4. FetchKeeps'
  BY DEF FetchKeeps, Idle, Arrive
<1>5. FreshKeeps'
  BY <1>1 DEF FreshKeeps, Arrive
<1> QED BY <1>2, <1>3, <1>4, <1>5 DEF CacheInv

(* More versions make nothing older than it was.                           *)
LEMMA VersionGoesUp ==
    ASSUME CacheInv, version' \in Nat, version <= version',
           UNCHANGED <<effects, shown, stale, open, fetch, promised>>,
           \A s \in DOMAIN sends' : /\ sends'[s].effect \in effects
                                    /\ sends'[s].answer \in {Nothing} \union Nat
                                    /\ sends'[s].answer <= version'
    PROVE  CacheInv'
<1>1. version \in Nat /\ promised \in Nat /\ promised <= version
  BY DEF CacheInv, CacheTypes, NoneAhead
<1>2. CacheTypes'
  BY DEF CacheInv, CacheTypes
<1>3. Covered(effects)' /\ Unpromised' /\ FetchKeeps' /\ FreshKeeps'
  BY DEF CacheInv, Covered, Unpromised, Promises, FetchKeeps, FreshKeeps
<1>4. NoneAhead'
  BY <1>1 DEF NoneAhead
<1> QED BY <1>2, <1>3, <1>4 DEF CacheInv

LEMMA MutateStays == ASSUME CacheInv, NEW s, Mutate(s) PROVE CacheInv'
<1>1. PICK effect \in effects :
        /\ sends' = Put(sends, s, [effect |-> effect, answer |-> Nothing])
        /\ UNCHANGED <<effects, version, shown, stale, open, fetch, promised>>
  BY DEF Mutate
<1>2. \A x \in DOMAIN sends' : sends'[x] = [effect |-> effect, answer |-> Nothing]
                               \/ (x \in DOMAIN sends /\ sends'[x] = sends[x])
  BY <1>1 DEF Put
<1>3. version \in Nat /\ \A x \in DOMAIN sends : /\ sends[x].effect \in effects
                                                /\ sends[x].answer \in {Nothing} \union Nat
                                                /\ sends[x].answer <= version
  BY DEF CacheInv, CacheTypes, NoneAhead
<1>4. \A x \in DOMAIN sends' : /\ sends'[x].effect \in effects
                               /\ sends'[x].answer \in {Nothing} \union Nat
                               /\ sends'[x].answer <= version'
  BY <1>1, <1>2, <1>3 DEF Nothing
<1> QED BY <1>1, <1>3, <1>4, VersionGoesUp

LEMMA CommitStays == ASSUME CacheInv, NEW s, Commit(s) PROVE CacheInv'
<1>1. version \in Nat /\ \A x \in DOMAIN sends : /\ sends[x].effect \in effects
                                                /\ sends[x].answer \in {Nothing} \union Nat
                                                /\ sends[x].answer <= version
  BY DEF CacheInv, CacheTypes, NoneAhead
<1>2. version' \in Nat /\ version <= version'
  BY <1>1 DEF Commit
<1>3. DOMAIN sends' = DOMAIN sends /\ \A x \in DOMAIN sends :
        sends'[x] = IF x = s THEN [sends[s] EXCEPT !.answer = version'] ELSE sends[x]
  BY DEF Commit
<1>4. \A x \in DOMAIN sends : /\ sends'[x].effect = sends[x].effect
                              /\ sends'[x].answer \in {version', sends[x].answer}
  BY <1>3 DEF Commit
<1>5. UNCHANGED <<effects, shown, stale, open, fetch, promised>>
  BY DEF Commit
<1>6. \A x \in DOMAIN sends' : /\ sends'[x].effect \in effects
                               /\ sends'[x].answer \in {Nothing} \union Nat
                               /\ sends'[x].answer <= version'
  BY <1>1, <1>2, <1>3, <1>4 DEF Nothing
<1> QED BY <1>2, <1>5, <1>6, VersionGoesUp

LEMMA RefuseStays == ASSUME CacheInv, NEW s, Refuse(s) PROVE CacheInv'
<1>1. version \in Nat /\ \A x \in DOMAIN sends : /\ sends[x].effect \in effects
                                                /\ sends[x].answer \in {Nothing} \union Nat
                                                /\ sends[x].answer <= version
  BY DEF CacheInv, CacheTypes, NoneAhead
<1>2. UNCHANGED <<effects, version, shown, stale, open, fetch, promised>>
  BY DEF Refuse
<1>3. DOMAIN sends' \subseteq DOMAIN sends /\ \A x \in DOMAIN sends' : sends'[x] = sends[x]
  BY DEF Refuse
<1> QED BY <1>1, <1>2, <1>3, VersionGoesUp

(* A mutation settles.  If it promises, the view is stale from now on, and *)
(* no fetch is under way that read before; if it puts its answer in and    *)
(* leaves it at that, nothing was ever promised.                           *)
LEMMA SettleStays == ASSUME CacheInv, NEW s, Settle(s) PROVE CacheInv'
<1> DEFINE effect == sends[s].effect
           answer == sends[s].answer
           raised == Promises(effect) /\ promised < answer
                       /\ (fetch = Idle \/ (open /\ shown # Nothing))
<1>1. /\ s \in DOMAIN sends /\ answer # Nothing
      /\ sends' = [x \in DOMAIN sends \ {s} |-> sends[x]]
      /\ shown' = IF effect.puts THEN answer ELSE shown
      /\ stale' = IF effect.refreshes THEN shown' # Nothing
                  ELSE IF effect.puts THEN FALSE ELSE stale
      /\ fetch' = IF effect.refreshes /\ open /\ (fetch = Idle \/ shown # Nothing) THEN Asked ELSE fetch
      /\ UNCHANGED <<effects, version, open>>
  BY DEF Settle, Restarts
<1>2. promised' = IF raised THEN answer ELSE promised
  BY DEF Settle, Promises
<1>3. effect \in effects /\ answer \in Nat /\ answer <= version
  BY <1>1 DEF CacheInv, CacheTypes, NoneAhead
<1>4. version \in Nat /\ promised \in Nat /\ promised <= version
  BY DEF CacheInv, CacheTypes, NoneAhead
<1>5. raised => effect.refreshes
  BY <1>3 DEF CacheInv, Covered
<1>6. effect.puts /\ ~effect.refreshes => promised = 0 /\ ~raised
  BY <1>3 DEF CacheInv, Covered, Unpromised
<1>7. promised' \in Nat /\ promised' <= version
  BY <1>2, <1>3, <1>4
<1>8. DOMAIN sends' \subseteq DOMAIN sends /\ \A x \in DOMAIN sends' : sends'[x] = sends[x]
  BY <1>1
<1> HIDE DEF effect, answer, raised
<1>9. CacheTypes'
  <2>1. shown' \in {Nothing} \union Nat /\ fetch' \in {Idle, Asked} \union Nat
    BY <1>1, <1>3 DEF CacheInv, CacheTypes
  <2>2. stale' \in BOOLEAN /\ open' \in BOOLEAN
    BY <1>1 DEF CacheInv, CacheTypes
  <2>3. \A x \in DOMAIN sends' : sends'[x].effect \in effects' /\ sends'[x].answer \in {Nothing} \union Nat
    BY <1>1, <1>8 DEF CacheInv, CacheTypes
  <2>4. version' \in Nat
    BY <1>1, <1>4
  <2> QED BY <1>7, <2>1, <2>2, <2>3, <2>4 DEF CacheTypes
<1>10. Covered(effects)'
  BY <1>1 DEF CacheInv, Covered, Promises
<1>11. Unpromised'
  <2>1. raised => Promises(effect)
    BY DEF raised
  <2> QED BY <1>1, <1>2, <1>3, <2>1 DEF CacheInv, Unpromised, Promises
<1>12. NoneAhead'
  BY <1>1, <1>7, <1>8 DEF CacheInv, NoneAhead
<1>13. FetchKeeps'
  <2>1. CASE raised
    <3>1. fetch' \in {Idle, Asked}
      BY <1>1, <1>5, <2>1 DEF raised
    <3> QED BY <3>1 DEF FetchKeeps, Idle, Asked
  <2>2. CASE ~raised
    BY <1>1, <1>2, <2>2 DEF CacheInv, FetchKeeps, Asked
  <2> QED BY <2>1, <2>2
<1>14. FreshKeeps'
  <2>1. CASE effect.refreshes
    BY <1>1, <2>1 DEF FreshKeeps
  <2>2. CASE ~effect.refreshes /\ effect.puts
    BY <1>1, <1>2, <1>3, <1>6, <2>2 DEF FreshKeeps
  <2>3. CASE ~effect.refreshes /\ ~effect.puts
    BY <1>1, <1>2, <1>5, <2>3 DEF CacheInv, FreshKeeps
  <2> QED BY <2>1, <2>2, <2>3
<1> QED BY <1>9, <1>10, <1>11, <1>12, <1>13, <1>14 DEF CacheInv

LEMMA ClearStays == ASSUME CacheInv, ClearCache PROVE CacheInv'
<1>1. /\ shown' = Nothing /\ stale' = FALSE /\ open' = FALSE /\ fetch' = Idle
      /\ DOMAIN sends' = {} /\ UNCHANGED <<effects, version, promised>>
  BY DEF ClearCache
<1>2. CacheTypes'
  BY <1>1 DEF CacheInv, CacheTypes
<1>3. Covered(effects)' /\ Unpromised' /\ NoneAhead'
  BY <1>1 DEF CacheInv, Covered, Unpromised, NoneAhead, Promises
<1>4. FetchKeeps' /\ FreshKeeps'
  BY <1>1 DEF FetchKeeps, FreshKeeps, Idle
<1> QED BY <1>2, <1>3, <1>4 DEF CacheInv

THEOREM CacheInvariant == CacheSpec => []CacheInv
<1>1. CacheInv /\ [CacheNext]_cacheVars => CacheInv'
  <2> SUFFICES ASSUME CacheInv, [CacheNext]_cacheVars PROVE CacheInv'
    OBVIOUS
  <2> USE DEF CacheInv, CacheTypes
  <2>1. CASE Mount \/ Unmount
    BY <2>1, CacheRests DEF Mount, Unmount
  <2>2. CASE Ages \/ Forget
    BY <2>2, CacheRests DEF Ages, Forget
  <2>3. CASE Refetch \/ Poll
    BY <2>3, CacheRests DEF Refetch, Poll
  <2>4. CASE Serve \/ Arrive
    BY <2>4, ServeStays, ArriveStays
  <2>5. CASE Fail
    BY <2>5, CacheRests DEF Fail
  <2>6. ASSUME NEW s \in Sends, Mutate(s) \/ Commit(s) \/ Settle(s) \/ Refuse(s)
        PROVE  CacheInv'
    BY <2>6, MutateStays, CommitStays, SettleStays, RefuseStays
  <2>7. CASE ChangeElsewhere
    <3>1. version' = version + 1 /\ UNCHANGED <<effects, shown, stale, open, fetch, sends, promised>>
      BY <2>7 DEF ChangeElsewhere
    <3>2. version \in Nat /\ \A x \in DOMAIN sends : /\ sends[x].effect \in effects
                                                    /\ sends[x].answer \in {Nothing} \union Nat
                                                    /\ sends[x].answer <= version
      BY DEF NoneAhead
    <3>3. \A x \in DOMAIN sends : sends[x].answer <= version + 1
      BY <3>2 DEF Nothing
    <3> QED BY <3>1, <3>2, <3>3, VersionGoesUp
  <2>8. CASE ClearCache
    BY <2>8, ClearStays
  <2>9. CASE UNCHANGED cacheVars
    BY <2>9, CacheRests DEF cacheVars
  <2> QED BY <2>1, <2>2, <2>3, <2>4, <2>5, <2>6, <2>7, <2>8, <2>9 DEF CacheNext
<1> QED BY <1>1, CacheInitially, PTL DEF CacheSpec

(* What a mutation of the tab has changed and answered is not shown as it  *)
(* was before (the invalidateQueries of every onSuccess).                  *)
THEOREM NothingStaleHolds == CacheSpec => []NothingStale
<1>1. CacheInv => NothingStale
  BY DEF CacheInv, CacheTypes, FreshKeeps, NothingStale, Nothing
<1> QED BY <1>1, CacheInvariant, PTL

-----------------------------------------------------------------------------
(* What the client's steps do to its sequences and records.                *)

LEMMA IsSeq ==
    ASSUME NEW S, NEW n \in Nat, NEW f \in [1 .. n -> S]
    PROVE  f \in Seq(S) /\ Len(f) = n /\ DOMAIN f = 1 .. n
OBVIOUS

LEMMA Indices ==
    ASSUME ClientTypes
    PROVE  /\ Len(rows) \in Nat /\ Issued = DOMAIN rows /\ Len(calls) \in Nat
           /\ DOMAIN calls = 1 .. Len(calls)
           /\ \A c \in DOMAIN calls : calls[c] \in Call
           /\ \A r \in Issued : rows[r] \in Row
           /\ \A t \in Tabs : tabs[t] \in Tab
BY DEF ClientTypes, Issued

(* One call moves.                                                         *)
LEMMA CallMoves ==
    ASSUME ClientTypes, NEW c \in DOMAIN calls, NEW call \in Call,
           calls' = [calls EXCEPT ![c] = call]
    PROVE  /\ calls' \in Seq(Call) /\ DOMAIN calls' = DOMAIN calls /\ calls'[c] = call
           /\ \A d \in DOMAIN calls : d # c => calls'[d] = calls[d]
BY DEF ClientTypes

LEMMA TabMoves ==
    ASSUME ClientTypes, NEW t \in Tabs, NEW tab \in Tab, tabs' = [tabs EXCEPT ![t] = tab]
    PROVE  /\ tabs' \in [Tabs -> Tab] /\ tabs'[t] = tab
           /\ \A u \in Tabs : u # t => tabs'[u] = tabs[u]
BY DEF ClientTypes

LEMMA RevokedRows ==
    ASSUME ClientTypes, NEW rs
    PROVE  /\ Revoked(rs) \in Seq(Row) /\ Len(Revoked(rs)) = Len(rows)
           /\ \A r \in Issued : /\ Revoked(rs)[r].live = (rows[r].live /\ r \notin rs)
                                 /\ Revoked(rs)[r].line = rows[r].line
<1>1. \A r \in Issued : rows[r] \in Row
  BY Indices
<1>2. \A r \in Issued : /\ [rows[r] EXCEPT !.live = @ /\ r \notin rs] \in Row
                        /\ [rows[r] EXCEPT !.live = @ /\ r \notin rs].live = (rows[r].live /\ r \notin rs)
                        /\ [rows[r] EXCEPT !.live = @ /\ r \notin rs].line = rows[r].line
  BY <1>1 DEF Row
<1> DEFINE row(r) == [rows[r] EXCEPT !.live = @ /\ r \notin rs]
<1>3. Revoked(rs) = [r \in Issued |-> row(r)]
  BY DEF Revoked
<1> HIDE DEF row
<1>4. \A r \in Issued : Revoked(rs)[r] = row(r)
  BY <1>3
<1>5. Len(rows) \in Nat /\ Issued = 1 .. Len(rows)
  BY Indices DEF Issued
<1>6. \A r \in Issued : row(r) \in Row
  BY <1>2 DEF row
<1>7. Revoked(rs) \in [1 .. Len(rows) -> Row]
  BY <1>3, <1>5, <1>6
<1>8. Revoked(rs) \in Seq(Row) /\ Len(Revoked(rs)) = Len(rows)
  BY <1>5, <1>7, IsSeq
<1>9. \A r \in Issued : row(r).live = (rows[r].live /\ r \notin rs) /\ row(r).line = rows[r].line
  BY <1>2 DEF row
<1> QED BY <1>4, <1>8, <1>9

(* A call ends.                                                            *)
LEMMA EndsRight ==
    ASSUME ClientTypes, NEW c \in DOMAIN calls, NEW end \in End
    PROVE  /\ Ended(c, end) \in Call
           /\ Ended(c, end).tab = calls[c].tab /\ Ended(c, end).at = "done"
           /\ Ended(c, end).goal = "first" /\ Ended(c, end).end = end
<1>1. calls[c] \in Call
  BY Indices
<1> QED BY <1>1 DEF Ended, Call, Goal, At

(* Every call of a tab ends, or goes on with a token.                      *)
LEMMA AllEnd ==
    ASSUME ClientTypes, NEW t \in Tabs, GoToSignIn(t)
    PROVE  /\ calls' \in Seq(Call) /\ DOMAIN calls' = DOMAIN calls
           /\ tabs' \in [Tabs -> Tab]
           /\ \A c \in DOMAIN calls : calls'[c] \in {calls[c], Ended(c, "gone")}
<1>1. \A c \in DOMAIN calls : calls[c] \in Call /\ Ended(c, "gone") \in Call
  BY Indices, EndsRight DEF End
<1>2. calls' = [c \in DOMAIN calls |-> IF c \in CallsOf(t) THEN Ended(c, "gone") ELSE calls[c]]
  BY DEF GoToSignIn
<1>3. calls' \in [1 .. Len(calls) -> Call]
  BY <1>1, <1>2, Indices
<1>4. calls' \in Seq(Call) /\ DOMAIN calls' = DOMAIN calls
  BY <1>3, IsSeq, Indices
<1>5. tabs' \in [Tabs -> Tab]
  <2>1. Fresh \in Tab
    BY DEF Fresh, Tab
  <2>2. tabs' = [tabs EXCEPT ![t] = Fresh]
    BY DEF GoToSignIn
  <2> QED BY <2>1, <2>2, TabMoves
<1> QED BY <1>2, <1>4, <1>5

LEMMA ToldRight ==
    ASSUME ClientTypes, NEW t \in Tabs, NEW token \in Nat, calls' = Told(t, token)
    PROVE  /\ calls' \in Seq(Call) /\ DOMAIN calls' = DOMAIN calls
           /\ \A c \in DOMAIN calls :
                 IF calls[c].tab = t /\ calls[c].at = "wait"
                 THEN /\ calls'[c].at = "send" /\ calls'[c].csrf = token
                      /\ calls'[c].tab = calls[c].tab /\ calls'[c].kind = calls[c].kind
                      /\ calls'[c].goal = calls[c].goal /\ calls'[c].end = calls[c].end
                      /\ calls'[c].token = calls[c].token
                 ELSE calls'[c] = calls[c]
<1> DEFINE call(c) == [calls[c] EXCEPT !.at = "send", !.csrf = token]
<1>1. \A c \in DOMAIN calls : calls[c] \in Call
  BY Indices
<1>2. \A c \in DOMAIN calls : /\ call(c) \in Call
                              /\ call(c).at = "send" /\ call(c).csrf = token
                              /\ call(c).tab = calls[c].tab /\ call(c).kind = calls[c].kind
                              /\ call(c).goal = calls[c].goal /\ call(c).end = calls[c].end
                              /\ call(c).token = calls[c].token
  BY <1>1 DEF Call, At
<1>3. calls' = [c \in DOMAIN calls |->
                  IF calls[c].tab = t /\ calls[c].at = "wait" THEN call(c) ELSE calls[c]]
  BY DEF Told
<1> HIDE DEF call
<1>4. calls' \in [1 .. Len(calls) -> Call]
  BY <1>1, <1>2, <1>3, Indices
<1>5. calls' \in Seq(Call) /\ DOMAIN calls' = DOMAIN calls
  BY <1>4, IsSeq, Indices
<1> QED BY <1>2, <1>3, <1>5

(* The session of a call is over for good.                                 *)
LEMMA Expires ==
    ASSUME ClientTypes, NEW c \in DOMAIN calls, Expire(c)
    PROVE  /\ calls' \in Seq(Call) /\ DOMAIN calls' = DOMAIN calls
           /\ tabs' \in [Tabs -> Tab]
           /\ \A d \in DOMAIN calls : calls'[d] = calls[d] \/ calls'[d].at = "done"
<1>1. Ended(c, "expired") \in Call /\ Ended(c, "expired").at = "done"
  BY EndsRight DEF End
<1>2. ASSUME Finish(c, "expired")
      PROVE  /\ calls' \in Seq(Call) /\ DOMAIN calls' = DOMAIN calls
             /\ \A d \in DOMAIN calls : calls'[d] = calls[d] \/ calls'[d].at = "done"
  BY <1>1, <1>2, CallMoves DEF Finish
<1>3. calls[c].tab \in Tabs
  BY Indices DEF Call
<1>4. CASE Leaving(c)
  BY <1>2, <1>4 DEF Expire, ClientTypes
<1>5. CASE ~Leaving(c) /\ calls[c].kind = "me"
  <2>1. GoToSignIn(calls[c].tab)
    BY <1>5 DEF Expire
  <2>2. \A d \in DOMAIN calls : Ended(d, "gone").at = "done"
    BY EndsRight DEF End
  <2> QED BY <1>3, <2>1, <2>2, AllEnd
<1>6. CASE ~Leaving(c) /\ calls[c].kind # "me"
  <2>1. Finish(c, "expired") /\ tabs' = [tabs EXCEPT ![calls[c].tab].leaving = jar.token + 1]
    BY <1>6 DEF Expire
  <2>2. jar.token + 1 \in Nat /\ tabs[calls[c].tab] \in Tab
    BY <1>3 DEF ClientTypes
  <2>3. [tabs[calls[c].tab] EXCEPT !.leaving = jar.token + 1] \in Tab
    BY <2>2 DEF Tab
  <2>4. tabs' \in [Tabs -> Tab]
    BY <1>3, <2>1, <2>3 DEF ClientTypes
  <2> QED BY <1>2, <2>1, <2>4
<1> QED BY <1>4, <1>5, <1>6

(* Types stand when no call is refreshing that was not before.             *)
LEMMA TypesStand ==
    ASSUME ClientTypes, rows' \in Seq(Row), Len(rows) <= Len(rows'),
           jar' \in [token: Nat, fresh: BOOLEAN], jar'.token <= Len(rows'),
           UNCHANGED readable, tabs' \in [Tabs -> Tab], calls' \in Seq(Call),
           \A c \in DOMAIN calls' :
              \/ c \in DOMAIN calls /\ calls'[c] = calls[c]
              \/ calls'[c].at \notin {"sent", "renewed"}
    PROVE  ClientTypes'
<1>1. Len(rows) \in Nat /\ Len(rows') \in Nat
  BY DEF ClientTypes
<1>2. \A c \in Refreshing' : calls'[c].token \in Issued'
  BY <1>1 DEF ClientTypes, Refreshing, Issued
<1> QED BY <1>2 DEF ClientTypes

LEMMA BeginTyped == ASSUME ClientTypes, NEW t \in Tabs, NEW kind \in Kind, Begin(t, kind)
                    PROVE  ClientTypes'
<1> DEFINE call == [tab |-> t, kind |-> kind, goal |-> "first",
                    at |-> IF kind = "write" THEN "csrf" ELSE "send",
                    csrf |-> 0, token |-> 0, end |-> "none"]
<1>1. call \in Call /\ call.at \notin {"sent", "renewed"}
  BY DEF Call, Goal, At, End
<1>2. calls' = Append(calls, call) /\ UNCHANGED <<rows, jar, readable, tabs>>
  BY DEF Begin
<1> HIDE DEF call
<1>3. calls' \in Seq(Call) /\ \A c \in DOMAIN calls' :
         \/ c \in DOMAIN calls /\ calls'[c] = calls[c]
         \/ calls'[c] = call
  BY <1>1, <1>2 DEF ClientTypes
<1>4. /\ rows' \in Seq(Row) /\ Len(rows) <= Len(rows') /\ tabs' \in [Tabs -> Tab]
      /\ jar' \in [token: Nat, fresh: BOOLEAN] /\ jar'.token <= Len(rows')
  BY <1>2 DEF ClientTypes
<1> QED BY <1>1, <1>2, <1>3, <1>4, TypesStand

LEMMA ResolveTyped == ASSUME ClientTypes, NEW c \in DOMAIN calls, Resolve(c) PROVE ClientTypes'
<1> DEFINE t == calls[c].tab
<1>1. /\ rows' \in Seq(Row) /\ Len(rows) <= Len(rows')
      /\ jar' \in [token: Nat, fresh: BOOLEAN] /\ jar'.token <= Len(rows')
      /\ UNCHANGED readable
  BY DEF ClientTypes, Resolve
<1>2. calls[c] \in Call /\ t \in Tabs /\ tabs[t] \in Tab /\ jar.token \in Nat
  BY Indices DEF ClientTypes, Call
<1>3. Known(t) \in Nat
  BY <1>2 DEF Known, Tab
<1>4. CASE Known(t) # 0
  <2>1. [calls[c] EXCEPT !.at = "send", !.csrf = Known(t)] \in Call
        /\ [calls[c] EXCEPT !.at = "send", !.csrf = Known(t)].at = "send"
    BY <1>2, <1>3 DEF Call, At
  <2>2. calls' = [calls EXCEPT ![c] = [calls[c] EXCEPT !.at = "send", !.csrf = Known(t)]]
    BY <1>4 DEF Resolve
  <2>3. [tabs[t] EXCEPT !.cache = Known(t)] \in Tab
    BY <1>2, <1>3 DEF Tab
  <2>4. tabs' = [tabs EXCEPT ![t] = [tabs[t] EXCEPT !.cache = Known(t)]]
    BY <1>4 DEF Resolve
  <2>5. tabs' \in [Tabs -> Tab]
    BY <1>2, <2>3, <2>4, TabMoves
  <2> QED BY <1>1, <2>1, <2>2, <2>5, CallMoves, TypesStand
<1>5. CASE Known(t) = 0
  <2>1. [calls[c] EXCEPT !.at = "wait"] \in Call /\ [calls[c] EXCEPT !.at = "wait"].at = "wait"
    BY <1>2 DEF Call, At
  <2>2. calls' = [calls EXCEPT ![c] = [calls[c] EXCEPT !.at = "wait"]]
    BY <1>5 DEF Resolve
  <2>3. [tabs[t] EXCEPT !.asking = IF @ = 0 THEN jar.token + 1 ELSE @] \in Tab
    BY <1>2 DEF Tab
  <2>4. tabs' = [tabs EXCEPT ![t] = [tabs[t] EXCEPT !.asking = IF @ = 0 THEN jar.token + 1 ELSE @]]
    BY <1>5 DEF Resolve
  <2>5. tabs' \in [Tabs -> Tab]
    BY <1>2, <2>3, <2>4, TabMoves
  <2> QED BY <1>1, <2>1, <2>2, <2>5, CallMoves, TypesStand
<1> QED BY <1>4, <1>5

LEMMA ToldTyped ==
    ASSUME ClientTypes, NEW t \in Tabs, CsrfAnswer(t) \/ CsrfFails(t)
    PROVE  ClientTypes'
<1>1. /\ rows' \in Seq(Row) /\ Len(rows) <= Len(rows')
      /\ jar' \in [token: Nat, fresh: BOOLEAN] /\ jar'.token <= Len(rows')
      /\ UNCHANGED readable
  BY DEF ClientTypes, CsrfAnswer, CsrfFails
<1>2. tabs[t] \in Tab /\ tabs[t].asking \in Nat /\ tabs[t].asking # 0
  BY DEF ClientTypes, Tab, CsrfAnswer, CsrfFails
<1>3. PICK token \in Nat, cache \in Nat :
        /\ calls' = Told(t, token)
        /\ tabs' = [tabs EXCEPT ![t] = [tabs[t] EXCEPT !.asking = 0, !.cache = cache]]
  <2>1. CASE CsrfAnswer(t)
    <3> DEFINE token == tabs[t].asking - 1
               cache == IF token # 0 THEN token ELSE tabs[t].cache
    <3>1. token \in Nat /\ cache \in Nat
      BY <1>2 DEF Tab
    <3>2. calls' = Told(t, token)
      BY <2>1 DEF CsrfAnswer
    <3>3. tabs' = [tabs EXCEPT ![t] = [tabs[t] EXCEPT !.asking = 0, !.cache = cache]]
      BY <2>1 DEF CsrfAnswer
    <3> QED BY <3>1, <3>2, <3>3
  <2>2. CASE CsrfFails(t)
    <3>1. tabs' = [tabs EXCEPT ![t] = [tabs[t] EXCEPT !.asking = 0, !.cache = tabs[t].cache]]
      BY <1>2, <2>2 DEF CsrfFails, ClientTypes, Tab
    <3> QED BY <1>2, <2>2, <3>1 DEF CsrfFails, Tab
  <2> QED BY <2>1, <2>2
<1>4. [tabs[t] EXCEPT !.asking = 0, !.cache = cache] \in Tab
  BY <1>2 DEF Tab
<1>5. tabs' \in [Tabs -> Tab]
  BY <1>3, <1>4, TabMoves
<1>6. /\ calls' \in Seq(Call) /\ DOMAIN calls' = DOMAIN calls
      /\ \A c \in DOMAIN calls : calls'[c] = calls[c] \/ calls'[c].at = "send"
  BY <1>3, ToldRight
<1> QED BY <1>1, <1>5, <1>6, TypesStand

LEMMA LeaveTyped == ASSUME ClientTypes, NEW t \in Tabs, Leave(t) PROVE ClientTypes'
<1>1. /\ rows' = Revoked({tabs[t].leaving - 1}) /\ jar' = [token |-> 0, fresh |-> FALSE]
      /\ GoToSignIn(t) /\ UNCHANGED readable
  BY DEF Leave
<1>2. rows' \in Seq(Row) /\ Len(rows') = Len(rows) /\ Len(rows) \in Nat
  BY <1>1, RevokedRows, Indices
<1>3. jar' \in [token: Nat, fresh: BOOLEAN] /\ jar'.token <= Len(rows')
  BY <1>1, <1>2
<1>4. \A c \in DOMAIN calls : Ended(c, "gone").at = "done"
  BY EndsRight DEF End
<1>5. /\ calls' \in Seq(Call) /\ DOMAIN calls' = DOMAIN calls /\ tabs' \in [Tabs -> Tab]
      /\ \A c \in DOMAIN calls : calls'[c] = calls[c] \/ calls'[c].at = "done"
  BY <1>1, <1>4, AllEnd
<1> QED BY <1>1, <1>2, <1>3, <1>5, TypesStand

LEMMA RequestTyped == ASSUME ClientTypes, NEW c \in DOMAIN calls, Request(c) PROVE ClientTypes'
<1>1. /\ rows' \in Seq(Row) /\ Len(rows) <= Len(rows')
      /\ jar' \in [token: Nat, fresh: BOOLEAN] /\ jar'.token <= Len(rows')
      /\ UNCHANGED readable /\ tabs \in [Tabs -> Tab] /\ calls[c] \in Call
  BY Indices DEF ClientTypes, Request
<1>2. CASE calls' = [calls EXCEPT ![c].goal = "refresh", ![c].at = "csrf"] /\ UNCHANGED tabs
  <2>1. [calls[c] EXCEPT !.goal = "refresh", !.at = "csrf"] \in Call
        /\ [calls[c] EXCEPT !.goal = "refresh", !.at = "csrf"].at = "csrf"
    BY <1>1 DEF Call, Goal, At
  <2>2. calls' = [calls EXCEPT ![c] = [calls[c] EXCEPT !.goal = "refresh", !.at = "csrf"]]
    BY <1>2
  <2> QED BY <1>1, <1>2, <2>1, <2>2, CallMoves, TypesStand
<1>3. CASE Expire(c)
  BY <1>1, <1>3, Expires, TypesStand
<1>4. CASE UNCHANGED tabs /\ \E end \in {"ok", "forbidden"} : Finish(c, end)
  <2>1. PICK end \in End : calls' = [calls EXCEPT ![c] = Ended(c, end)]
    BY <1>4 DEF Finish, End
  <2> QED BY <1>1, <1>4, <2>1, EndsRight, CallMoves, TypesStand
<1> QED BY <1>2, <1>3, <1>4 DEF Request

LEMMA RefreshSendTyped ==
    ASSUME ClientTypes, NEW c \in DOMAIN calls, RefreshSend(c) PROVE ClientTypes'
<1>1. UNCHANGED <<rows, jar, readable>> /\ calls[c] \in Call /\ jar.token \in Nat
      /\ Len(rows) \in Nat
  BY Indices DEF RefreshSend, ClientTypes
<1>2. CASE CsrfMatches(c)
  <2> DEFINE call == [calls[c] EXCEPT !.at = "sent", !.token = jar.token]
  <2>1. call \in Call /\ call.token = jar.token
    BY <1>1 DEF Call, At
  <2>2. calls' = [calls EXCEPT ![c] = call] /\ UNCHANGED tabs
    BY <1>2 DEF RefreshSend
  <2>3. jar.token \in Issued
    BY <1>1, <1>2 DEF CsrfMatches, ClientTypes, Issued
  <2> HIDE DEF call
  <2>4. \A d \in Refreshing' : calls'[d].token \in Issued'
    BY <1>1, <2>1, <2>2, <2>3, CallMoves DEF ClientTypes, Refreshing, Issued
  <2> QED BY <1>1, <2>1, <2>2, <2>4, CallMoves DEF ClientTypes
<1>3. CASE ~CsrfMatches(c)
  <2>1. Expire(c)
    BY <1>3 DEF RefreshSend
  <2>2. /\ rows' \in Seq(Row) /\ Len(rows) <= Len(rows')
        /\ jar' \in [token: Nat, fresh: BOOLEAN] /\ jar'.token <= Len(rows')
    BY <1>1 DEF ClientTypes
  <2> QED BY <1>1, <2>1, <2>2, Expires, TypesStand
<1> QED BY <1>2, <1>3

(* The API rotates a token: it and its successor, the rest as it was.      *)
LEMMA Rotates ==
    ASSUME ClientTypes, NEW r \in Issued, rows' = Append(Revoked({r}), Child(r))
    PROVE  /\ rows' \in Seq(Row) /\ Len(rows') = Len(rows) + 1 /\ Len(rows) \in Nat
           /\ rows'[Len(rows) + 1].live
           /\ \A x \in Issued : rows'[x].live = (rows[x].live /\ x # r)
<1>1. Revoked({r}) \in Seq(Row) /\ Len(Revoked({r})) = Len(rows) /\ Len(rows) \in Nat
  BY RevokedRows, Indices
<1>2. rows[r] \in Row /\ r \in Nat
  BY Indices DEF Issued
<1>3. Child(r) \in Row /\ Child(r).live
  BY <1>2 DEF Child, Row
<1>4. /\ rows' \in Seq(Row) /\ Len(rows') = Len(rows) + 1
      /\ rows'[Len(rows) + 1] = Child(r)
      /\ \A x \in Issued : rows'[x] = Revoked({r})[x]
  <2> DEFINE q == Revoked({r})
             e == Child(r)
  <2>1. q \in Seq(Row) /\ Len(q) = Len(rows) /\ e \in Row /\ rows' = Append(q, e)
    BY <1>1, <1>3
  <2> HIDE DEF q, e
  <2>2. /\ rows' \in Seq(Row) /\ Len(rows') = Len(q) + 1 /\ rows'[Len(q) + 1] = e
        /\ \A i \in 1 .. Len(q) : rows'[i] = q[i]
    <3>1. /\ Append(q, e) \in Seq(Row) /\ Len(Append(q, e)) = Len(q) + 1
          /\ Append(q, e)[Len(q) + 1] = e
          /\ \A i \in 1 .. Len(q) : Append(q, e)[i] = q[i]
      BY <2>1
    <3> QED BY <2>1, <3>1, Zenon
  <2> QED BY <2>1, <2>2 DEF q, e, Issued
<1>5. \A x \in Issued : Revoked({r})[x].live = (rows[x].live /\ x \notin {r})
  BY RevokedRows
<1>6. \A x \in Issued : rows'[x].live = (rows[x].live /\ x # r)
  BY <1>4, <1>5, Zenon
<1> QED BY <1>1, <1>3, <1>4, <1>6, Zenon

LEMMA RefreshTyped == ASSUME ClientTypes, NEW c \in DOMAIN calls, Refresh(c) PROVE ClientTypes'
<1>1. /\ calls[c].at = "sent" /\ UNCHANGED <<jar, readable>>
      /\ calls[c] \in Call /\ jar.token \in Nat /\ Len(rows) \in Nat
  BY Indices DEF Refresh, ClientTypes
<1>2. calls[c].token \in Issued
  BY <1>1 DEF ClientTypes, Refreshing
<1>3. CASE rows[calls[c].token].live
  <2> DEFINE next == Len(rows) + 1
             call == [calls[c] EXCEPT !.at = "renewed", !.token = next]
  <2>0. next \in Nat
    BY <1>1
  <2> HIDE DEF next
  <2>1. call \in Call /\ call.token = next
    BY <1>1, <2>0 DEF Call, At
  <2>2. /\ calls' = [calls EXCEPT ![c] = call] /\ UNCHANGED tabs
        /\ rows' = Append(Revoked({calls[c].token}), Child(calls[c].token))
    BY <1>3 DEF Refresh, next
  <2>3. rows' \in Seq(Row) /\ Len(rows') = Len(rows) + 1
    BY <1>2, <2>2, Rotates
  <2> HIDE DEF call
  <2>4. \A d \in Refreshing' : calls'[d].token \in Issued'
    BY <1>1, <2>1, <2>2, <2>3, CallMoves DEF ClientTypes, Refreshing, Issued, next
  <2>5. jar'.token <= Len(rows')
    BY <1>1, <2>3 DEF ClientTypes
  <2> QED BY <1>1, <2>1, <2>2, <2>3, <2>4, <2>5, CallMoves DEF ClientTypes
<1>4. CASE ~rows[calls[c].token].live
  <2>1. rows' = Revoked(Chain(calls[c].token)) /\ Expire(c)
    BY <1>4 DEF Refresh
  <2>2. rows' \in Seq(Row) /\ Len(rows') = Len(rows)
    BY <2>1, RevokedRows
  <2>3. jar' \in [token: Nat, fresh: BOOLEAN] /\ jar'.token <= Len(rows')
    BY <1>1, <2>2 DEF ClientTypes
  <2> QED BY <1>1, <2>1, <2>2, <2>3, Expires, TypesStand
<1> QED BY <1>3, <1>4

LEMMA ReceiveTyped == ASSUME ClientTypes, NEW c \in DOMAIN calls, Receive(c) PROVE ClientTypes'
<1> DEFINE call == [calls[c] EXCEPT !.at = "received", !.csrf = 0, !.token = 0]
<1>1. /\ calls[c].at = "renewed" /\ UNCHANGED <<rows, readable, tabs>>
      /\ calls' = [calls EXCEPT ![c] = call]
      /\ jar' = [token |-> calls[c].token, fresh |-> TRUE]
      /\ calls[c] \in Call
  BY Indices DEF Receive, SetCookies
<1>2. calls[c].token \in Issued
  BY <1>1 DEF ClientTypes, Refreshing
<1>3. call \in Call /\ call.at = "received"
  BY <1>1 DEF Call, At
<1>4. /\ rows' \in Seq(Row) /\ Len(rows) <= Len(rows') /\ tabs' \in [Tabs -> Tab]
      /\ jar' \in [token: Nat, fresh: BOOLEAN] /\ jar'.token <= Len(rows')
  BY <1>1, <1>2 DEF ClientTypes, Issued
<1> HIDE DEF call
<1> QED BY <1>1, <1>3, <1>4, CallMoves, TypesStand

LEMMA ContinueTyped == ASSUME ClientTypes, NEW c \in DOMAIN calls, Continue(c) PROVE ClientTypes'
<1> DEFINE at == IF calls[c].kind = "write" THEN "csrf" ELSE "send"
           call == [calls[c] EXCEPT !.goal = "retry", !.at = at]
           t == calls[c].tab
<1>1. /\ UNCHANGED <<rows, jar, readable>> /\ calls' = [calls EXCEPT ![c] = call]
      /\ tabs' = [tabs EXCEPT ![t] = [tabs[t] EXCEPT !.cache = 0]]
      /\ calls[c] \in Call
  BY Indices DEF Continue
<1>2. call \in Call /\ call.at \notin {"sent", "renewed"}
  BY <1>1 DEF Call, At, Goal
<1>3. t \in Tabs /\ [tabs[t] EXCEPT !.cache = 0] \in Tab
  <2> HIDE DEF call
  <2>1. t \in Tabs /\ tabs[t] \in Tab
    BY <1>1 DEF ClientTypes, Call
  <2> HIDE DEF t
  <2> QED
    BY <2>1 DEF Tab
<1>4. tabs' \in [Tabs -> Tab]
  BY <1>1, <1>3, TabMoves
<1>5. /\ rows' \in Seq(Row) /\ Len(rows) <= Len(rows')
      /\ jar' \in [token: Nat, fresh: BOOLEAN] /\ jar'.token <= Len(rows')
  BY <1>1 DEF ClientTypes
<1> HIDE DEF call
<1> QED BY <1>1, <1>2, <1>4, <1>5, CallMoves, TypesStand

LEMMA SessionTyped ==
    ASSUME ClientTypes, AccessExpires \/ SessionEnds \/ (\E t \in Tabs : SignOut(t))
    PROVE  ClientTypes'
<1>1. UNCHANGED <<readable, calls>>
  BY DEF AccessExpires, SessionEnds, SignOut
<1>2. rows' \in Seq(Row) /\ Len(rows') = Len(rows) /\ Len(rows) \in Nat
  <2>1. rows' = rows \/ \E rs : rows' = Revoked(rs)
    BY DEF AccessExpires, SessionEnds, SignOut
  <2> QED BY <2>1, RevokedRows, Indices DEF ClientTypes
<1>3. jar' \in [token: Nat, fresh: BOOLEAN] /\ jar'.token <= Len(rows')
  <2>1. jar' \in {jar, [jar EXCEPT !.fresh = FALSE], [token |-> 0, fresh |-> FALSE]}
    BY DEF AccessExpires, SessionEnds, SignOut
  <2>2. jar \in [token: Nat, fresh: BOOLEAN] /\ jar.token <= Len(rows)
    BY DEF ClientTypes
  <2>3. CASE jar' = [token |-> 0, fresh |-> FALSE]
    BY <1>2, <2>3
  <2>4. CASE jar' \in {jar, [jar EXCEPT !.fresh = FALSE]}
    BY <1>2, <2>2, <2>4
  <2> QED BY <2>1, <2>3, <2>4
<1>4. tabs' \in [Tabs -> Tab]
  <2>1. CASE tabs' = tabs
    BY <2>1 DEF ClientTypes
  <2>2. ASSUME NEW t \in Tabs, SignOut(t) PROVE tabs' \in [Tabs -> Tab]
    <3>1. tabs' = [tabs EXCEPT ![t] = [tabs[t] EXCEPT !.page = "signin", !.cache = 0]]
      BY <2>2 DEF SignOut
    <3>2. [tabs[t] EXCEPT !.page = "signin", !.cache = 0] \in Tab
      BY DEF ClientTypes, Tab
    <3> QED BY <3>1, <3>2, TabMoves
  <2> QED BY <2>1, <2>2 DEF AccessExpires, SessionEnds
<1>5. calls' \in Seq(Call) /\ \A c \in DOMAIN calls' : c \in DOMAIN calls /\ calls'[c] = calls[c]
  BY <1>1 DEF ClientTypes
<1> QED BY <1>1, <1>2, <1>3, <1>4, <1>5, TypesStand

LEMMA SignInTyped == ASSUME ClientTypes, NEW t \in Tabs, SignIn(t) PROVE ClientTypes'
<1> DEFINE row == [live |-> TRUE, line |-> {}]
<1>1. /\ rows' = Append(rows, row) /\ jar' = [token |-> Len(rows) + 1, fresh |-> TRUE]
      /\ tabs' = [tabs EXCEPT ![t] = [tabs[t] EXCEPT !.page = "app", !.cache = 0]]
      /\ UNCHANGED <<readable, calls>>
  BY DEF SignIn, SetCookies
<1>2. row \in Row
  BY DEF Row
<1>3. [tabs[t] EXCEPT !.page = "app", !.cache = 0] \in Tab
  BY DEF ClientTypes, Tab
<1>4. tabs' \in [Tabs -> Tab]
  BY <1>1, <1>3, TabMoves
<1>5. rows' \in Seq(Row) /\ Len(rows') = Len(rows) + 1 /\ Len(rows) \in Nat
  BY <1>1, <1>2 DEF ClientTypes
<1>6. jar' \in [token: Nat, fresh: BOOLEAN] /\ jar'.token <= Len(rows')
  BY <1>1, <1>5
<1>7. calls' \in Seq(Call) /\ \A c \in DOMAIN calls' : c \in DOMAIN calls /\ calls'[c] = calls[c]
  BY <1>1 DEF ClientTypes
<1> QED BY <1>1, <1>4, <1>5, <1>6, <1>7, TypesStand

LEMMA RefreshFailsTyped ==
    ASSUME ClientTypes, NEW c \in DOMAIN calls, RefreshFails(c) PROVE ClientTypes'
<1>1. Expire(c) /\ UNCHANGED <<rows, jar, readable>>
  BY DEF RefreshFails
<1>2. /\ rows' \in Seq(Row) /\ Len(rows) <= Len(rows')
      /\ jar' \in [token: Nat, fresh: BOOLEAN] /\ jar'.token <= Len(rows')
  BY <1>1 DEF ClientTypes
<1> QED BY <1>1, <1>2, Expires, TypesStand

LEMMA ClientInitially == ClientInit => ClientInv
<1> SUFFICES ASSUME ClientInit PROVE ClientInv
  OBVIOUS
<1> DEFINE row == [live |-> TRUE, line |-> {}]
<1>1. rows = <<row>> /\ jar = [token |-> 1, fresh |-> TRUE] /\ calls = << >>
  BY Zenon DEF ClientInit
<1>2. row \in Row /\ row.live
  BY DEF Row
<1> HIDE DEF row
<1>3. rows \in Seq(Row) /\ Len(rows) = 1 /\ rows[1].live
  BY <1>1, <1>2
<1>4. jar \in [token: Nat, fresh: BOOLEAN] /\ jar.token = 1 /\ jar.token <= Len(rows)
  BY <1>1, <1>3
<1>5. calls \in Seq(Call) /\ DOMAIN calls = {}
  BY <1>1
<1>6. readable \in BOOLEAN
  BY Zenon DEF ClientInit
<1>7. /\ tabs \in [Tabs -> Tab]
      /\ \A t \in Tabs : /\ tabs[t].page = "app" /\ tabs[t].leaving = 0
                         /\ tabs[t].asking = 0 /\ tabs[t].cache = 0
  <2>1. tabs = [t \in Tabs |-> [Fresh EXCEPT !.page = "app"]]
    BY Zenon DEF ClientInit
  <2> QED BY <2>1 DEF Fresh, Tab
<1>8. ClientTypes
  BY <1>3, <1>4, <1>5, <1>6, <1>7 DEF ClientTypes, Refreshing
<1>9. Undisturbed
  BY <1>3, <1>4, <1>5, <1>7
  DEF Undisturbed, CallsStand, OneRefresh, Refreshing, TokenLives, TabsStand, TabStands
<1> QED BY <1>8, <1>9 DEF ClientInv, Calm

-----------------------------------------------------------------------------
(* As long as nothing that excuses it has happened, each step leaves the   *)
(* calls, the token and the tabs as they must be.                          *)

LEMMA Standing ==
    ASSUME ClientTypes, Undisturbed, NEW c \in DOMAIN calls
    PROVE  /\ calls[c] \in Call /\ calls[c].tab \in Tabs /\ CallStands(calls[c])
           /\ TabStands(calls[c].tab) /\ tabs[calls[c].tab] \in Tab
           /\ jar.token \in Nat /\ jar.token # 0
<1>1. calls[c] \in Call /\ calls[c].tab \in Tabs
  BY Indices DEF Call
<1> QED BY <1>1 DEF Undisturbed, CallsStand, TabsStand, TokenLives, ClientTypes

LEMMA BeginStands ==
    ASSUME ClientTypes, Undisturbed, NEW t \in Tabs, NEW kind \in Kind, Begin(t, kind)
    PROVE  Undisturbed'
<1> DEFINE call == [tab |-> t, kind |-> kind, goal |-> "first",
                    at |-> IF kind = "write" THEN "csrf" ELSE "send",
                    csrf |-> 0, token |-> 0, end |-> "none"]
<1>1. calls' = Append(calls, call) /\ UNCHANGED <<rows, jar, readable, tabs>>
  BY DEF Begin
<1>2. /\ call.at \in {"csrf", "send"} /\ call.end = "none" /\ call.csrf = 0 /\ call.goal = "first"
      /\ call.kind = kind /\ (call.at = "send" => kind # "write")
  OBVIOUS
<1> HIDE DEF call
<1>3. /\ DOMAIN calls \subseteq DOMAIN calls' /\ \A c \in DOMAIN calls : calls'[c] = calls[c]
      /\ \A c \in DOMAIN calls' : c \in DOMAIN calls \/ calls'[c] = call
  BY <1>1 DEF ClientTypes
<1>4. CallsStand'
  BY <1>1, <1>2, <1>3 DEF Undisturbed, CallsStand, CallStands, Issued
<1>5. OneRefresh'
  BY <1>2, <1>3 DEF Undisturbed, OneRefresh, Refreshing
<1>6. TokenLives'
  BY <1>1, <1>3 DEF Undisturbed, TokenLives
<1>7. TabsStand'
  BY <1>1, <1>3 DEF Undisturbed, TabsStand, TabStands, Renewing, CallsOf
<1> QED BY <1>4, <1>5, <1>6, <1>7 DEF Undisturbed

LEMMA ResolveStands ==
    ASSUME ClientTypes, Undisturbed, NEW c \in DOMAIN calls, Resolve(c), excuses' = {}
    PROVE  Undisturbed'
<1>0. PICK t \in Tabs : t = calls[c].tab
  BY Standing
<1>1. /\ calls[c] \in Call /\ CallStands(calls[c]) /\ TabStands(t)
      /\ tabs[t] \in Tab /\ jar.token \in Nat /\ jar.token # 0
  BY <1>0, Standing
<1>2. calls[c].at = "csrf" /\ UNCHANGED <<rows, jar, readable>>
  BY DEF Resolve
<1>3. PICK call \in Call, tab \in Tab :
        /\ calls' = [calls EXCEPT ![c] = call] /\ tabs' = [tabs EXCEPT ![t] = tab]
        /\ call.at \in {"send", "wait"} /\ (call.at = "send" => call.csrf = jar.token)
        /\ call.tab = t /\ call.goal = calls[c].goal /\ call.end = calls[c].end
        /\ tab.page = tabs[t].page /\ tab.leaving = tabs[t].leaving
        /\ tab.cache \in {tabs[t].cache, jar.token}
        /\ tab.asking \in {tabs[t].asking, jar.token + 1}
  <2>1. CASE Known(t) # 0
    <3> DEFINE call == [calls[c] EXCEPT !.at = "send", !.csrf = jar.token]
               tab == [tabs[t] EXCEPT !.cache = jar.token]
    <3>1. excuses' = excuses \union Excused(Known(t) # jar.token /\ Renewing(t), "outdated")
      BY <1>0, <2>1 DEF Resolve
    <3>2. Known(t) # jar.token /\ Renewing(t) => FALSE
      BY <3>1 DEF Excused
    <3>3. Known(t) = jar.token
      BY <1>1, <2>1, <3>2 DEF Known, TabStands
    <3>4. calls' = [calls EXCEPT ![c] = call] /\ tabs' = [tabs EXCEPT ![t] = tab]
      BY <1>0, <2>1, <3>3 DEF Resolve
    <3>5. /\ call \in Call /\ call.at = "send" /\ call.csrf = jar.token
          /\ call.tab = t /\ call.goal = calls[c].goal /\ call.end = calls[c].end
      BY <1>0, <1>1 DEF Call, At
    <3>6. /\ tab \in Tab /\ tab.page = tabs[t].page /\ tab.leaving = tabs[t].leaving
          /\ tab.cache = jar.token /\ tab.asking = tabs[t].asking
      BY <1>1 DEF Tab
    <3> HIDE DEF call, tab
    <3> QED BY <3>4, <3>5, <3>6
  <2>2. CASE Known(t) = 0
    <3> DEFINE asked == IF tabs[t].asking = 0 THEN jar.token + 1 ELSE tabs[t].asking
               call == [calls[c] EXCEPT !.at = "wait"]
               tab == [tabs[t] EXCEPT !.asking = asked]
    <3>1. calls' = [calls EXCEPT ![c] = call] /\ tabs' = [tabs EXCEPT ![t] = tab]
      BY <1>0, <2>2 DEF Resolve
    <3>2. /\ call \in Call /\ call.at = "wait"
          /\ call.tab = t /\ call.goal = calls[c].goal /\ call.end = calls[c].end
      BY <1>0, <1>1 DEF Call, At
    <3>3. asked \in Nat /\ asked \in {tabs[t].asking, jar.token + 1}
      BY <1>1 DEF Tab
    <3> HIDE DEF asked
    <3>4. /\ tab \in Tab /\ tab.page = tabs[t].page /\ tab.leaving = tabs[t].leaving
          /\ tab.cache = tabs[t].cache /\ tab.asking = asked
      BY <1>1, <3>3 DEF Tab
    <3> HIDE DEF call, tab
    <3> QED BY <3>1, <3>2, <3>3, <3>4
  <2> QED BY <2>1, <2>2
<1>4. /\ DOMAIN calls' = DOMAIN calls /\ calls'[c] = call
      /\ \A d \in DOMAIN calls : d # c => calls'[d] = calls[d]
  BY <1>3, CallMoves
<1>5. tabs'[t] = tab /\ \A u \in Tabs : u # t => tabs'[u] = tabs[u]
  BY <1>1, <1>3, TabMoves
<1>6. CallsStand'
  BY <1>1, <1>2, <1>3, <1>4 DEF Undisturbed, CallsStand, CallStands, Issued
<1>7. OneRefresh'
  BY <1>2, <1>3, <1>4 DEF Undisturbed, OneRefresh, Refreshing
<1>8. TokenLives'
  BY <1>2, <1>4 DEF Undisturbed, TokenLives
<1>9. TabsStand'
  <2>1. \A u \in Tabs : Renewing(u) => Renewing(u)'
    BY <1>2, <1>4 DEF Renewing, CallsOf
  <2>2. TabStands(t)'
    BY <1>1, <1>2, <1>3, <1>5, <2>1 DEF TabStands
  <2>3. \A u \in Tabs : u # t => TabStands(u)'
    BY <1>2, <1>5, <2>1 DEF Undisturbed, TabsStand, TabStands
  <2> QED BY <2>2, <2>3 DEF TabsStand
<1> QED BY <1>6, <1>7, <1>8, <1>9 DEF Undisturbed

LEMMA AnswerStands ==
    ASSUME ClientTypes, Undisturbed, NEW t \in Tabs, CsrfAnswer(t) PROVE Undisturbed'
<1> DEFINE tab == [tabs[t] EXCEPT !.asking = 0, !.cache = jar.token]
<1>1. jar.token \in Nat /\ jar.token # 0 /\ tabs[t] \in Tab /\ TabStands(t)
  BY DEF ClientTypes, Undisturbed, TokenLives, TabsStand
<1>2. tabs[t].asking - 1 = jar.token /\ UNCHANGED <<rows, jar, readable>>
  BY <1>1 DEF CsrfAnswer, TabStands
<1>3. calls' = Told(t, jar.token) /\ tabs' = [tabs EXCEPT ![t] = tab]
  BY <1>1, <1>2 DEF CsrfAnswer
<1>4. tab \in Tab /\ tab.page = tabs[t].page /\ tab.leaving = tabs[t].leaving
      /\ tab.asking = 0 /\ tab.cache = jar.token
  BY <1>1 DEF Tab
<1> HIDE DEF tab
<1>5. tabs'[t] = tab /\ \A u \in Tabs : u # t => tabs'[u] = tabs[u]
  BY <1>3, <1>4, TabMoves
<1>6. /\ DOMAIN calls' = DOMAIN calls
      /\ \A c \in DOMAIN calls :
            IF calls[c].tab = t /\ calls[c].at = "wait"
            THEN /\ calls'[c].at = "send" /\ calls'[c].csrf = jar.token
                 /\ calls'[c].tab = calls[c].tab /\ calls'[c].goal = calls[c].goal
                 /\ calls'[c].end = calls[c].end
            ELSE calls'[c] = calls[c]
  BY <1>1, <1>3, ToldRight
<1>7. CallsStand'
  BY <1>1, <1>2, <1>6 DEF Undisturbed, CallsStand, CallStands, Issued
<1>8. OneRefresh'
  BY <1>6 DEF Undisturbed, OneRefresh, Refreshing
<1>9. TokenLives'
  BY <1>2, <1>6 DEF Undisturbed, TokenLives
<1>10. TabsStand'
  <2>1. \A u \in Tabs : Renewing(u) => Renewing(u)'
    BY <1>6 DEF Renewing, CallsOf
  <2>2. TabStands(t)'
    BY <1>1, <1>2, <1>4, <1>5 DEF TabStands
  <2>3. \A u \in Tabs : u # t => TabStands(u)'
    BY <1>2, <1>5, <2>1 DEF Undisturbed, TabsStand, TabStands
  <2> QED BY <2>2, <2>3 DEF TabsStand
<1> QED BY <1>7, <1>8, <1>9, <1>10 DEF Undisturbed

(* One call moves, not to or from a refresh, and the rest stays.           *)
LEMMA OneStands ==
    ASSUME ClientTypes, Undisturbed, UNCHANGED <<rows, jar, readable, tabs>>,
           NEW c \in DOMAIN calls, NEW call \in Call, calls' = [calls EXCEPT ![c] = call],
           calls[c].at \notin {"sent", "renewed", "received"},
           call.at \notin {"sent", "renewed", "received"}, CallStands(call)
    PROVE  Undisturbed'
<1>1. /\ DOMAIN calls' = DOMAIN calls /\ calls'[c] = call
      /\ \A d \in DOMAIN calls : d # c => calls'[d] = calls[d]
  BY CallMoves
<1>2. CallsStand'
  BY <1>1 DEF Undisturbed, CallsStand, CallStands, Issued
<1>3. OneRefresh'
  BY <1>1 DEF Undisturbed, OneRefresh, Refreshing
<1>4. TokenLives'
  BY <1>1 DEF Undisturbed, TokenLives
<1>5. TabsStand'
  <2>1. \A u \in Tabs : Renewing(u) => Renewing(u)'
    BY <1>1 DEF Renewing, CallsOf
  <2> QED BY <2>1 DEF Undisturbed, TabsStand, TabStands
<1> QED BY <1>2, <1>3, <1>4, <1>5 DEF Undisturbed

LEMMA RequestStands ==
    ASSUME ClientTypes, Undisturbed, NEW c \in DOMAIN calls, Request(c) PROVE Undisturbed'
<1>1. /\ calls[c] \in Call /\ CallStands(calls[c]) /\ jar.token \in Nat /\ jar.token # 0
      /\ calls[c].at = "send" /\ UNCHANGED <<rows, jar, readable>>
  BY Standing DEF Request
<1>2. CASE ~jar.fresh
  <2> DEFINE call == [calls[c] EXCEPT !.goal = "refresh", !.at = "csrf"]
  <2>1. calls[c].goal = "first"
    BY <1>1, <1>2 DEF CallStands, Request
  <2>2. calls' = [calls EXCEPT ![c] = call] /\ UNCHANGED tabs
    BY <1>2, <2>1 DEF Request
  <2>3. call \in Call /\ call.at = "csrf" /\ call.goal = "refresh" /\ call.end = calls[c].end
    BY <1>1 DEF Call, At, Goal
  <2> HIDE DEF call
  <2>4. CallStands(call)
    BY <1>1, <2>3 DEF CallStands
  <2> QED BY <1>1, <2>2, <2>3, <2>4, OneStands
<1>3. CASE jar.fresh
  <2> DEFINE call == Ended(c, "ok")
  <2>1. calls[c].kind = "write" => CsrfMatches(c)
    BY <1>1 DEF CallStands, CsrfMatches
  <2>2. calls' = [calls EXCEPT ![c] = call] /\ UNCHANGED tabs
    BY <1>3, <2>1 DEF Request, Finish
  <2>3. call \in Call /\ call.at = "done" /\ call.goal = "first" /\ call.end = "ok"
    BY EndsRight DEF End
  <2> HIDE DEF call
  <2>4. CallStands(call)
    BY <2>3 DEF CallStands
  <2> QED BY <1>1, <2>2, <2>3, <2>4, OneStands
<1> QED BY <1>2, <1>3

LEMMA RefreshSendStands ==
    ASSUME ClientTypes, Undisturbed, NEW c \in DOMAIN calls, RefreshSend(c), excuses' = {}
    PROVE  Undisturbed'
<1> DEFINE call == [calls[c] EXCEPT !.at = "sent", !.token = jar.token]
<1>1. /\ calls[c] \in Call /\ CallStands(calls[c]) /\ jar.token \in Nat /\ jar.token # 0
      /\ calls[c].at = "send" /\ calls[c].goal = "refresh" /\ UNCHANGED <<rows, jar, readable>>
  BY Standing DEF RefreshSend
<1>2. CsrfMatches(c)
  BY <1>1 DEF CallStands, CsrfMatches
<1>3. /\ calls' = [calls EXCEPT ![c] = call] /\ UNCHANGED tabs
      /\ excuses' = excuses \union Excused(Refreshing # {}, "overlap")
  BY <1>2 DEF RefreshSend
<1>4. Refreshing = {}
  BY <1>3 DEF Excused
<1>5. /\ call \in Call /\ call.at = "sent" /\ call.token = jar.token
      /\ call.goal = "refresh" /\ call.end = calls[c].end
  BY <1>1 DEF Call, At
<1> HIDE DEF call
<1>6. /\ DOMAIN calls' = DOMAIN calls /\ calls'[c] = call
      /\ \A d \in DOMAIN calls : d # c => calls'[d] = calls[d]
  BY <1>3, <1>5, CallMoves
<1>7. CallsStand'
  BY <1>1, <1>5, <1>6 DEF Undisturbed, CallsStand, CallStands, Issued
<1>8. OneRefresh'
  BY <1>4, <1>6 DEF OneRefresh, Refreshing
<1>9. TokenLives'
  BY <1>1, <1>4, <1>6 DEF Undisturbed, TokenLives, Refreshing
<1>10. TabsStand'
  <2>1. \A u \in Tabs : Renewing(u) => Renewing(u)'
    BY <1>1, <1>6 DEF Renewing, CallsOf
  <2> QED BY <1>1, <1>3, <2>1 DEF Undisturbed, TabsStand, TabStands
<1> QED BY <1>7, <1>8, <1>9, <1>10 DEF Undisturbed

(* The token sent is live, as no refresh is ahead of this one.             *)
LEMMA RefreshStands ==
    ASSUME ClientTypes, Undisturbed, NEW c \in DOMAIN calls, Refresh(c) PROVE Undisturbed'
<1> DEFINE next == Len(rows) + 1
           call == [calls[c] EXCEPT !.at = "renewed", !.token = next]
<1>1. /\ calls[c] \in Call /\ CallStands(calls[c]) /\ jar.token \in Nat /\ jar.token # 0
      /\ calls[c].at = "sent" /\ UNCHANGED <<jar, readable>> /\ Len(rows) \in Nat
  BY Standing, Indices DEF Refresh
<1>2. calls[c].token = jar.token /\ jar.token \in Issued
  BY <1>1 DEF CallStands, ClientTypes, Refreshing
<1>3. c \in Refreshing /\ \A d \in DOMAIN calls : d # c => calls[d].at \notin {"sent", "renewed"}
  BY <1>1 DEF Undisturbed, OneRefresh, Refreshing
<1>4. rows[jar.token].live
  BY <1>1, <1>3 DEF Undisturbed, TokenLives
<1>5. /\ calls' = [calls EXCEPT ![c] = call] /\ UNCHANGED tabs
      /\ rows' = Append(Revoked({jar.token}), Child(jar.token))
  BY <1>2, <1>4 DEF Refresh
<1>6. Len(rows') = next /\ rows'[next].live /\ next \in Nat /\ next \in Issued'
  <2>1. Len(rows') = next /\ rows'[next].live
    BY <1>2, <1>5, Rotates
  <2> QED BY <1>1, <2>1 DEF Issued
<1> HIDE DEF next
<1>7. /\ call \in Call /\ call.at = "renewed" /\ call.token = next
      /\ call.goal = calls[c].goal /\ call.end = calls[c].end
  BY <1>1, <1>6 DEF Call, At
<1> HIDE DEF call
<1>8. /\ DOMAIN calls' = DOMAIN calls /\ calls'[c] = call
      /\ \A d \in DOMAIN calls : d # c => calls'[d] = calls[d]
  BY <1>5, <1>7, CallMoves
<1>9. CallsStand'
  <2>1. CallStands(calls[c])'
    BY <1>1, <1>6, <1>7, <1>8 DEF CallStands
  <2>2. \A d \in DOMAIN calls : d # c => CallStands(calls[d])'
    BY <1>1, <1>3, <1>8 DEF Undisturbed, CallsStand, CallStands
  <2> QED BY <1>8, <2>1, <2>2 DEF CallsStand
<1>10. OneRefresh'
  BY <1>3, <1>8 DEF OneRefresh, Refreshing
<1>11. TokenLives'
  BY <1>1, <1>7, <1>8 DEF TokenLives
<1>12. TabsStand'
  <2>1. \A u \in Tabs : Renewing(u) => Renewing(u)'
    BY <1>1, <1>8 DEF Renewing, CallsOf
  <2> QED BY <1>1, <1>5, <2>1 DEF Undisturbed, TabsStand, TabStands
<1> QED BY <1>9, <1>10, <1>11, <1>12 DEF Undisturbed

(* The new cookies outdate nothing, and the token they bring is live.      *)
LEMMA ReceiveStands ==
    ASSUME ClientTypes, Undisturbed, NEW c \in DOMAIN calls, Receive(c), excuses' = {}
    PROVE  Undisturbed'
<1> DEFINE call == [calls[c] EXCEPT !.at = "received", !.csrf = 0, !.token = 0]
<1>0. PICK t \in Tabs : t = calls[c].tab
  BY Standing
<1>1. /\ calls[c] \in Call /\ CallStands(calls[c]) /\ calls[c].at = "renewed"
      /\ UNCHANGED <<rows, readable, tabs>> /\ calls' = [calls EXCEPT ![c] = call]
      /\ jar' = [token |-> calls[c].token, fresh |-> TRUE]
      /\ excuses' = excuses \union Excused(Outdates(t), "outdated")
  BY <1>0, Standing DEF Receive, SetCookies
<1>2. ~Outdates(t)
  BY <1>1 DEF Excused
<1>3. calls[c].token \in Issued /\ rows[calls[c].token].live
  BY <1>1 DEF CallStands
<1>4. jar'.token = calls[c].token /\ jar'.fresh /\ jar'.token # 0
  BY <1>1, <1>3 DEF Issued
<1>5. \A d \in DOMAIN calls : d # c => calls[d].at \notin {"sent", "renewed"}
  BY <1>1 DEF Undisturbed, OneRefresh, Refreshing
<1>6. /\ call \in Call /\ call.at = "received" /\ call.csrf = 0 /\ call.tab = t
      /\ call.goal = calls[c].goal /\ call.end = calls[c].end
  BY <1>0, <1>1 DEF Call, At
<1> HIDE DEF call
<1>7. /\ DOMAIN calls' = DOMAIN calls /\ calls'[c] = call
      /\ \A d \in DOMAIN calls : d # c => calls'[d] = calls[d]
  BY <1>1, <1>6, CallMoves
<1>8. CallsStand'
  <2>1. CallStands(calls[c])'
    BY <1>1, <1>4, <1>6, <1>7 DEF CallStands
  <2>2. \A d \in DOMAIN calls : d # c => CallStands(calls[d])'
    BY <1>2, <1>4, <1>5, <1>7 DEF Undisturbed, CallsStand, CallStands, Outdates
  <2> QED BY <1>7, <2>1, <2>2 DEF CallsStand
<1>9. OneRefresh'
  BY <1>5, <1>6, <1>7 DEF OneRefresh, Refreshing
<1>10. TokenLives'
  BY <1>1, <1>3, <1>4 DEF TokenLives
<1>11. TabsStand'
  <2>1. Renewing(t)'
    BY <1>6, <1>7 DEF Renewing, CallsOf
  <2>2. \A u \in Tabs : tabs[u].asking = 0 /\ (u # t => readable \/ tabs[u].cache = 0)
    BY <1>2 DEF Outdates
  <2> QED BY <1>1, <2>1, <2>2 DEF Undisturbed, TabsStand, TabStands
<1> QED BY <1>8, <1>9, <1>10, <1>11 DEF Undisturbed

LEMMA ContinueStands ==
    ASSUME ClientTypes, Undisturbed, NEW c \in DOMAIN calls, Continue(c) PROVE Undisturbed'
<1> DEFINE at == IF calls[c].kind = "write" THEN "csrf" ELSE "send"
           call == [calls[c] EXCEPT !.goal = "retry", !.at = at]
<1>0. PICK t \in Tabs : t = calls[c].tab
  BY Standing
<1> DEFINE tab == [tabs[t] EXCEPT !.cache = 0]
<1>1. /\ calls[c] \in Call /\ CallStands(calls[c]) /\ calls[c].at = "received"
      /\ UNCHANGED <<rows, jar, readable>> /\ calls' = [calls EXCEPT ![c] = call]
      /\ tabs' = [tabs EXCEPT ![t] = tab]
  BY <1>0, Standing DEF Continue
<1>2. jar.fresh /\ calls[c].csrf = 0
  BY <1>1 DEF CallStands
<1>3. at \in {"csrf", "send"} /\ (at = "send" => calls[c].kind # "write")
  OBVIOUS
<1> HIDE DEF at
<1>4. /\ call \in Call /\ call.at = at /\ call.csrf = calls[c].csrf /\ call.tab = t
      /\ call.goal = "retry" /\ call.end = calls[c].end /\ call.kind = calls[c].kind
  BY <1>0, <1>1, <1>3 DEF Call, At, Goal
<1>5. tab \in Tab /\ tab.page = tabs[t].page /\ tab.leaving = tabs[t].leaving
      /\ tab.asking = tabs[t].asking /\ tab.cache = 0
  BY DEF ClientTypes, Tab
<1> HIDE DEF call, tab
<1>6. /\ DOMAIN calls' = DOMAIN calls /\ calls'[c] = call
      /\ \A d \in DOMAIN calls : d # c => calls'[d] = calls[d]
  BY <1>1, <1>4, CallMoves
<1>7. tabs'[t] = tab /\ \A u \in Tabs : u # t => tabs'[u] = tabs[u]
  BY <1>1, <1>5, TabMoves
<1>8. CallsStand'
  <2>1. CallStands(calls[c])'
    BY <1>1, <1>2, <1>3, <1>4, <1>6 DEF CallStands
  <2>2. \A d \in DOMAIN calls : d # c => CallStands(calls[d])'
    BY <1>1, <1>6 DEF Undisturbed, CallsStand, CallStands, Issued
  <2> QED BY <1>6, <2>1, <2>2 DEF CallsStand
<1>9. OneRefresh'
  BY <1>3, <1>4, <1>6 DEF Undisturbed, OneRefresh, Refreshing
<1>10. TokenLives'
  BY <1>1, <1>6 DEF Undisturbed, TokenLives
<1>11. TabsStand'
  <2>1. \A u \in Tabs : u # t /\ Renewing(u) => Renewing(u)'
    BY <1>0, <1>6 DEF Renewing, CallsOf
  <2>2. TabStands(t)'
    BY <1>1, <1>5, <1>7 DEF Undisturbed, TabsStand, TabStands
  <2>3. \A u \in Tabs : u # t => TabStands(u)'
    BY <1>1, <1>7, <2>1 DEF Undisturbed, TabsStand, TabStands
  <2> QED BY <2>2, <2>3 DEF TabsStand
<1> QED BY <1>8, <1>9, <1>10, <1>11 DEF Undisturbed

LEMMA AccessExpiresStands == ASSUME ClientTypes, Undisturbed, AccessExpires PROVE Undisturbed'
<1>1. /\ UNCHANGED <<rows, readable, tabs, calls>> /\ jar' = [jar EXCEPT !.fresh = FALSE]
      /\ \A c \in DOMAIN calls : calls[c].at # "received" /\
                                 (calls[c].goal = "retry" => calls[c].at = "done")
  BY DEF AccessExpires
<1>2. jar'.token = jar.token
  BY <1>1 DEF ClientTypes
<1>3. CallsStand'
  BY <1>1, <1>2 DEF Undisturbed, CallsStand, CallStands, Issued
<1>4. OneRefresh' /\ TokenLives' /\ TabsStand'
  BY <1>1, <1>2
  DEF Undisturbed, OneRefresh, Refreshing, TokenLives, TabsStand, TabStands, Renewing, CallsOf
<1> QED BY <1>3, <1>4 DEF Undisturbed

THEOREM ClientInvariant == ClientSpec => []ClientInv
<1>1. ClientInv /\ [ClientNext]_clientVars => ClientInv'
  <2> SUFFICES ASSUME ClientInv, [ClientNext]_clientVars PROVE ClientTypes' /\ Calm'
    BY DEF ClientInv
  <2>0. ClientTypes /\ Calm
    BY DEF ClientInv
  <2>1. ASSUME NEW t \in Tabs, NEW kind \in Kind, Begin(t, kind) PROVE ClientTypes' /\ Calm'
    <3>1. excuses' = excuses
      BY <2>1 DEF Begin
    <3> QED BY <2>0, <2>1, <3>1, BeginTyped, BeginStands DEF Calm
  <2>2. ASSUME NEW t \in Tabs, CsrfAnswer(t) PROVE ClientTypes' /\ Calm'
    <3>1. excuses' = excuses
      BY <2>2 DEF CsrfAnswer
    <3> QED BY <2>0, <2>2, <3>1, ToldTyped, AnswerStands DEF Calm
  <2>3. ASSUME NEW t \in Tabs, CsrfFails(t) \/ Leave(t) \/ SignOut(t) PROVE ClientTypes' /\ Calm'
    <3>1. excuses' # {}
      BY <2>3 DEF CsrfFails, Leave, SignOut
    <3> QED BY <2>0, <2>3, <3>1, ToldTyped, LeaveTyped, SessionTyped DEF Calm
  <2>4. ASSUME NEW t \in Tabs, SignIn(t) PROVE ClientTypes' /\ Calm'
    <3>1. excuses' = {} => excuses = {} /\ tabs[t].page # "app"
      BY <2>4 DEF SignIn, SetCookies
    <3>2. excuses' # {}
      BY <2>0, <3>1 DEF Calm, Undisturbed, TabsStand, TabStands
    <3> QED BY <2>0, <2>4, <3>2, SignInTyped DEF Calm
  <2>5. ASSUME NEW c \in DOMAIN calls, CallProceeds(c) PROVE ClientTypes' /\ Calm'
    <3>1. ClientTypes'
      BY <2>0, <2>5, ResolveTyped, RequestTyped, RefreshSendTyped, RefreshTyped, ReceiveTyped,
         ContinueTyped DEF CallProceeds
    <3>2. ASSUME excuses' = {} PROVE excuses = {}
      BY <2>5, <3>2 DEF CallProceeds, Resolve, Request, RefreshSend, Refresh, Receive, SetCookies,
                        Continue
    <3>3. ASSUME excuses' = {} PROVE Undisturbed'
      <4>1. Undisturbed
        BY <2>0, <3>2, <3>3 DEF Calm
      <4> QED BY <2>0, <2>5, <3>3, <4>1, ResolveStands, RequestStands, RefreshSendStands,
                 RefreshStands, ReceiveStands, ContinueStands DEF CallProceeds
    <3> QED BY <3>1, <3>3 DEF Calm
  <2>6. ASSUME NEW c \in DOMAIN calls, RefreshFails(c) PROVE ClientTypes' /\ Calm'
    <3>1. excuses' # {}
      BY <2>6 DEF RefreshFails
    <3> QED BY <2>0, <2>6, <3>1, RefreshFailsTyped DEF Calm
  <2>7. CASE AccessExpires
    <3>1. excuses' = excuses
      BY <2>7 DEF AccessExpires
    <3> QED BY <2>0, <2>7, <3>1, SessionTyped, AccessExpiresStands DEF Calm
  <2>8. CASE SessionEnds
    <3>1. excuses' # {}
      BY <2>8 DEF SessionEnds
    <3> QED BY <2>0, <2>8, <3>1, SessionTyped DEF Calm
  <2>9. CASE UNCHANGED clientVars
    <3>1. UNCHANGED <<rows, jar, readable, tabs, calls, excuses>>
      BY <2>9 DEF clientVars
    <3>2. ClientTypes'
      BY <2>0, <3>1 DEF ClientTypes, Refreshing, Issued
    <3>3. Calm'
      BY <2>0, <3>1 DEF Calm, Undisturbed, CallsStand, CallStands, OneRefresh, Refreshing,
                        TokenLives, TabsStand, TabStands, Renewing, CallsOf, Issued
    <3> QED BY <3>2, <3>3
  <2> QED BY <2>1, <2>2, <2>3, <2>4, <2>5, <2>6, <2>7, <2>8, <2>9 DEF ClientNext, TabProceeds
<1> QED BY <1>1, ClientInitially, PTL DEF ClientSpec

(* A call outlives its access token without anybody noticing, unless the   *)
(* session ended, the network failed, two refreshes ran at once or new     *)
(* cookies outdated what it had in hand (client.ts:8-9).                   *)
THEOREM TransparentHolds == ClientSpec => []Transparent
<1>1. ClientInv => Transparent
  BY DEF ClientInv, Calm, Undisturbed, CallsStand, CallStands, Transparent
<1> QED BY <1>1, ClientInvariant, PTL
=============================================================================
