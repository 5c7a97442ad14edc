------------------------------- MODULE Leave -------------------------------
(***************************************************************************)
(* Leave types, balances and requests of one organisation                  *)
(* (leave/leave-types, leave-balances and leave-requests services).        *)
(*                                                                         *)
(* Every handler of the API reads and checks OUTSIDE its transaction and   *)
(* then commits.  A handler is therefore a sequence of actions, one for    *)
(* each statement whose result is used later, and handlers of different    *)
(* callers interleave between them.  A transaction is one action: it locks *)
(* the request row first and moves balances by atomic increments.          *)
(***************************************************************************)
EXTENDS LeaveRules, Sequences, Tables

CONSTANTS
    Employees,      \* employees of the organisation
    Types,          \* identities of leave types
    RequestIds,     \* identities of leave requests; bounds how many are made
    Applicants,     \* callers of POST /leave/requests that run concurrently
    Deciders,       \* callers of approve, reject and cancel that run concurrently
    Year,           \* the cycle year of each day a request may start on
    Asks,           \* the ranges and half-day flags that are asked for
    HolidaySets,    \* the holidays a calendar lookup may answer
    Configs,        \* the settings a leave type may be given
    Grants          \* the totals HR may adjust a balance row to

Years   == {Year[d] : d \in DOMAIN Year}
Keys    == Employees \X Types \X Years
Accrual == {"none", "annual", "monthly", "quarterly"}
Config  == [accrual: Accrual, amount: Nat, approval: BOOLEAN, min: Nat, max: Nat]
Ask     == [start: DOMAIN Year, end: Int, halfStart: BOOLEAN, halfEnd: BOOLEAN]

ASSUME LeaveAssumption ==
    /\ DOMAIN Year \subseteq Int
    /\ Asks \subseteq Ask
    /\ \A h \in HolidaySets : h \subseteq Int
    /\ Configs \subseteq Config
    /\ Grants \subseteq Int
    /\ IsFiniteSet(RequestIds)

VARIABLES
    types,      \* leave types: state (absent, live, archived) and settings
    balance,    \* the balance rows that exist
    requests,   \* the request rows that exist
    approvals,  \* the decisions in the approval rows of each request, in order
    applying,   \* applications in flight: what each has read so far
    deciding,   \* decisions and cancellations in flight: the row each has read
    stale,      \* history: requests some commit decided on an outdated status
    unseen      \* history: <<r, s>> where s was created after the overlap check of r

vars == <<types, balance, requests, approvals, applying, deciding, stale, unseen>>

TypeState     == {"absent", "live", "archived"}
Status        == {"pending", "approved", "rejected", "cancelled"}
Active        == {"pending", "approved"}
LeaveType     == [state: TypeState, config: Configs]
Balance       == [granted: Int, used: Int, pending: Int]
Request       == [emp: Employees, type: Types, start: DOMAIN Year, end: Int,
                  units: Nat, status: Status, reserved: BOOLEAN]
Application   == [at: {"overlap", "ensure", "balance", "create"},
                  emp: Employees, type: Types, start: DOMAIN Year, end: Int,
                  units: Nat, config: Configs, row: BOOLEAN, seen: SUBSET RequestIds]
Decision      == [req: RequestIds, verdict: {"approved", "rejected", "cancelled"},
                  seen: Active]

Key(q) == <<q.emp, q.type, Year[q.start]>>

Created == DOMAIN requests
Live    == {t \in Types : types[t].state = "live"}

Init ==
    /\ types \in [Types -> {[state |-> "absent", config |-> c] : c \in Configs}]
    /\ balance = << >>
    /\ requests = << >>
    /\ approvals = << >>
    /\ applying = << >>
    /\ deciding = << >>
    /\ stale = {}
    /\ unseen = {}

-----------------------------------------------------------------------------
(* Leave types: create, update, archive, restore.                          *)

CreateType(t, c) ==
    /\ types[t].state = "absent"
    /\ types' = [types EXCEPT ![t] = [state |-> "live", config |-> c]]
    /\ UNCHANGED <<balance, requests, approvals, applying, deciding, stale, unseen>>

UpdateType(t, c) ==
    /\ types[t].state = "live"
    /\ types' = [types EXCEPT ![t].config = c]
    /\ UNCHANGED <<balance, requests, approvals, applying, deciding, stale, unseen>>

RemoveType(t) ==
    /\ types[t].state = "live"
    /\ types' = [types EXCEPT ![t].state = "archived"]
    /\ UNCHANGED <<balance, requests, approvals, applying, deciding, stale, unseen>>

RestoreType(t) ==
    /\ types[t].state = "archived"
    /\ types' = [types EXCEPT ![t].state = "live"]
    /\ UNCHANGED <<balance, requests, approvals, applying, deciding, stale, unseen>>

-----------------------------------------------------------------------------
(* Balances.                                                               *)

OpeningBalance(t) ==
    [granted |-> IF types[t].config.accrual = "annual"
                 THEN types[t].config.amount ELSE 0,
     used    |-> 0,
     pending |-> 0]

(* createMany with skipDuplicates: rows that exist keep what they hold.    *)
EnsureBalancesForCycle(e, y) ==
    balance' = [k \in DOMAIN balance \union ({e} \X Live \X {y}) |->
                   IF k \in DOMAIN balance THEN balance[k] ELSE OpeningBalance(k[2])]

ViewBalances(e, y) ==
    /\ EnsureBalancesForCycle(e, y)
    /\ UNCHANGED <<types, requests, approvals, applying, deciding, stale, unseen>>

(* An absolute write of the granted part; used and pending are untouched.  *)
AdjustBalance(k, g) ==
    /\ k \in DOMAIN balance
    /\ balance' = [balance EXCEPT ![k].granted = g]
    /\ UNCHANGED <<types, requests, approvals, applying, deciding, stale, unseen>>

-----------------------------------------------------------------------------
(* Applying for leave: five steps, one for each thing read or written.     *)

WithinBounds(units, c) == units > 0 /\ units >= c.min /\ units <= c.max

ApplyReadType(a, e, t, ask, holidays) ==
    LET c     == types[t].config
        units == ComputeUnits(ask.start, ask.end, ask.halfStart, ask.halfEnd, holidays)
    IN  /\ a \notin DOMAIN applying
        /\ types[t].state = "live"
        /\ WithinBounds(units, c)
        /\ applying' = Put(applying, a,
               [at |-> "overlap", emp |-> e, type |-> t, start |-> ask.start,
                end |-> ask.end, units |-> units, config |-> c, row |-> FALSE, seen |-> {}])
        /\ UNCHANGED <<types, balance, requests, approvals, deciding, stale, unseen>>

OverlapsApproved(q) ==   \* mutant: requests still pending are overlooked
    \E r \in Created : /\ requests[r].emp = q.emp
                       /\ requests[r].status = "approved"
                       /\ RangesOverlap(requests[r], q)

OverlapsActive(q) ==
    \E r \in Created : /\ requests[r].emp = q.emp
                       /\ requests[r].status \in Active
                       /\ RangesOverlap(requests[r], q)

ApplyCheckOverlap(a) ==
    /\ a \in DOMAIN applying
    /\ applying[a].at = "overlap"
    /\ applying' = IF OverlapsActive(applying[a])
                   THEN Drop(applying, a)
                   ELSE [applying EXCEPT ![a].at = "ensure", ![a].seen = Created]
    /\ UNCHANGED <<types, balance, requests, approvals, deciding, stale, unseen>>

ApplyEnsureBalance(a) ==
    /\ a \in DOMAIN applying
    /\ applying[a].at = "ensure"
    /\ EnsureBalancesForCycle(applying[a].emp, Year[applying[a].start])
    /\ applying' = [applying EXCEPT ![a].at = "balance"]
    /\ UNCHANGED <<types, requests, approvals, deciding, stale, unseen>>

(* Whether the balance row that was read refuses the application.          *)
Insufficient(q) ==
    /\ Key(q) \in DOMAIN balance
    /\ q.config.accrual # "none"
    /\ AvailableBalance(balance[Key(q)]) < q.units

ApplyCheckBalance(a) ==
    /\ a \in DOMAIN applying
    /\ applying[a].at = "balance"
    /\ applying' = IF Insufficient(applying[a])
                   THEN Drop(applying, a)
                   ELSE [applying EXCEPT ![a].at = "create",
                                         ![a].row = Key(applying[a]) \in DOMAIN balance]
    /\ UNCHANGED <<types, balance, requests, approvals, deciding, stale, unseen>>

ApplyCreate(a, r) ==
    /\ a \in DOMAIN applying
    /\ applying[a].at = "create"
    /\ r \in RequestIds \ Created
    /\ LET q      == applying[a]
           status == IF q.config.approval THEN "pending" ELSE "approved"
       IN  /\ requests' = Put(requests, r,
                  [emp |-> q.emp, type |-> q.type, start |-> q.start, end |-> q.end,
                   units |-> q.units, status |-> status, reserved |-> q.row])
           /\ balance' = CASE ~q.row -> balance
                           [] q.row /\ status = "approved" ->
                                [balance EXCEPT ![Key(q)].used = @ + q.units]
                           [] OTHER ->
                                [balance EXCEPT ![Key(q)].pending = @ + q.units]
    /\ approvals' = Put(approvals, r, << >>)
    /\ applying' = Drop(applying, a)
    /\ unseen' = unseen \union {<<r, s>> : s \in Created \ applying[a].seen}
    /\ UNCHANGED <<types, deciding, stale>>

-----------------------------------------------------------------------------
(* Approving, rejecting and cancelling: read the row, then commit.         *)

DecideRead(d, r, verdict) ==
    /\ d \notin DOMAIN deciding
    /\ r \in Created
    /\ requests[r].status = "pending"
    /\ verdict \in {"approved", "rejected"}
    /\ deciding' = Put(deciding, d, [req |-> r, verdict |-> verdict, seen |-> "pending"])
    /\ UNCHANGED <<types, balance, requests, approvals, applying, stale, unseen>>

CancelReadOpen(d, r) ==   \* mutant: only cancelled requests are refused
    /\ d \notin DOMAIN deciding
    /\ r \in Created
    /\ requests[r].status # "cancelled"
    /\ deciding' = Put(deciding, d, [req |-> r, verdict |-> "cancelled",
                                     seen |-> requests[r].status])
    /\ UNCHANGED <<types, balance, requests, approvals, applying, stale, unseen>>

CancelRead(d, r) ==
    /\ d \notin DOMAIN deciding
    /\ r \in Created
    /\ requests[r].status \in Active
    /\ deciding' = Put(deciding, d, [req |-> r, verdict |-> "cancelled",
                                     seen |-> requests[r].status])
    /\ UNCHANGED <<types, balance, requests, approvals, applying, stale, unseen>>

MovedPending(b, verdict, seen, units) ==   \* mutant: cancel always releases pending
    IF verdict = "approved" THEN [b EXCEPT !.pending = @ - units, !.used = @ + units]
    ELSE [b EXCEPT !.pending = @ - units]

(* The balance moves by what the handler read, not by what the row says.   *)
Moved(b, verdict, seen, units) ==
    CASE verdict = "approved" -> [b EXCEPT !.pending = @ - units, !.used = @ + units]
      [] verdict # "approved" /\ seen = "pending" -> [b EXCEPT !.pending = @ - units]
      [] OTHER -> [b EXCEPT !.used = @ - units]

MoveBalance(k, verdict, seen, units) ==
    balance' = IF k \in DOMAIN balance
               THEN [balance EXCEPT ![k] = Moved(@, verdict, seen, units)]
               ELSE balance

NoteStale(d) ==
    stale' = IF requests[deciding[d].req].status = deciding[d].seen
             THEN stale ELSE stale \union {deciding[d].req}

DecideCommit(d) ==
    /\ d \in DOMAIN deciding
    /\ deciding[d].verdict # "cancelled"
    /\ LET r == deciding[d].req
           v == deciding[d].verdict
       IN  /\ requests' = [requests EXCEPT ![r].status = v]
           /\ approvals' = [approvals EXCEPT ![r] = Append(@, v)]
           /\ MoveBalance(Key(requests[r]), v, deciding[d].seen, requests[r].units)
    /\ NoteStale(d)
    /\ deciding' = Drop(deciding, d)
    /\ UNCHANGED <<types, applying, unseen>>

CancelCommit(d) ==
    /\ d \in DOMAIN deciding
    /\ deciding[d].verdict = "cancelled"
    /\ LET r == deciding[d].req
       IN  /\ requests' = [requests EXCEPT ![r].status = "cancelled"]
           /\ MoveBalance(Key(requests[r]), "cancelled", deciding[d].seen, requests[r].units)
    /\ NoteStale(d)
    /\ deciding' = Drop(deciding, d)
    /\ UNCHANGED <<types, approvals, applying, unseen>>

-----------------------------------------------------------------------------
Next ==
    \/ \E t \in Types, c \in Configs : CreateType(t, c) \/ UpdateType(t, c)
    \/ \E t \in Types : RemoveType(t) \/ RestoreType(t)
    \/ \E e \in Employees, y \in Years : ViewBalances(e, y)
    \/ \E k \in Keys, g \in Grants : AdjustBalance(k, g)
    \/ \E a \in Applicants, e \in Employees, t \in Types, ask \in Asks,
          h \in HolidaySets : ApplyReadType(a, e, t, ask, h)
    \/ \E a \in Applicants : \/ ApplyCheckOverlap(a)
                             \/ ApplyEnsureBalance(a)
                             \/ ApplyCheckBalance(a)
    \/ \E a \in Applicants, r \in RequestIds : ApplyCreate(a, r)
    \/ \E d \in Deciders, r \in RequestIds, v \in {"approved", "rejected"} :
          DecideRead(d, r, v)
    \/ \E d \in Deciders, r \in RequestIds : CancelRead(d, r)
    \/ \E d \in Deciders : DecideCommit(d) \/ CancelCommit(d)

Spec == Init /\ [][Next]_vars

-----------------------------------------------------------------------------
(* Every variable holds values of the shape the tables and handlers give.  *)
TypeOK ==
    /\ types \in [Types -> LeaveType]
    /\ DOMAIN balance \subseteq Keys
    /\ \A k \in DOMAIN balance : balance[k] \in Balance
    /\ Created \subseteq RequestIds
    /\ \A r \in Created : requests[r] \in Request
    /\ DOMAIN approvals = Created
    /\ \A r \in Created : approvals[r] \in Seq({"approved", "rejected"})
    /\ DOMAIN applying \subseteq Applicants
    /\ \A a \in DOMAIN applying : applying[a] \in Application
    /\ DOMAIN deciding \subseteq Deciders
    /\ \A d \in DOMAIN deciding :
          /\ deciding[d] \in Decision
          /\ deciding[d].req \in Created
          /\ deciding[d].verdict # "cancelled" => deciding[d].seen = "pending"
    /\ stale \subseteq Created
    /\ unseen \subseteq Created \X Created

(* The half days of the requests R of a table q, each tagged with its      *)
(* request, so that counting them adds up the units.                       *)
HalfDays(q, R) == UNION {{r} \X (1 .. q[r].units) : r \in R}
Units(q, R)    == Cardinality(HalfDays(q, R))

Rows(q, k, status) == {r \in DOMAIN q : Key(q[r]) = k /\ q[r].status = status}

(* A balance row agrees with the requests that are charged to it.          *)
Reconciled(k) ==
    /\ balance[k].pending = Units(requests, Rows(requests, k, "pending"))
    /\ balance[k].used = Units(requests, Rows(requests, k, "approved"))

(* Neither decided on an outdated row nor created without a balance row.   *)
Sound(k) ==
    \A r \in Created : Key(requests[r]) = k => requests[r].reserved /\ r \notin stale

(* The balance algebra of apply, decide and cancel: pending is the sum of  *)
(* the pending requests and used the sum of the approved ones, however     *)
(* many handlers interleave, unless a request of that row was decided on   *)
(* an outdated status or created without a balance row to reserve from.    *)
BalanceAlgebra ==
    \A k \in DOMAIN balance : Sound(k) => Reconciled(k)

(* The same algebra with no exception for outdated reads: apply reserves   *)
(* into pending, approve moves pending to used, reject and cancel release. *)
(* It needs decisions that do not overlap in time.                         *)
LedgerReconciles ==
    \A k \in DOMAIN balance :
        (\A r \in Created : Key(requests[r]) = k => requests[r].reserved) => Reconciled(k)

(* The overlap check of apply keeps an employee from having two pending or *)
(* approved requests that share a day, however many applications and       *)
(* decisions interleave.  It fails for two requests of which one was       *)
(* created while the other was between its check and its insert, and for   *)
(* one that a commit on an outdated status brought back, and for no other. *)
NoOverlap ==
    \A r, s \in Created \ stale :
        /\ r # s /\ <<r, s>> \notin unseen /\ <<s, r>> \notin unseen
        /\ requests[r].emp = requests[s].emp
        /\ requests[r].status \in Active /\ requests[s].status \in Active
        => ~RangesOverlap(requests[r], requests[s])

(* Two requests charged to a balance row did not see each other.           *)
Raced(k) ==
    \E pair \in unseen : Key(requests[pair[1]]) = k /\ Key(requests[pair[2]]) = k

(* The balance check of apply: leave of an accruing type is never promised *)
(* beyond what was granted, however many applications and decisions        *)
(* interleave.  It fails only where two requests charged to the row were   *)
(* created one within the other's checks (and where HR lowers a total or   *)
(* sets a type to be counted, which the instances do not).                 *)
NoOverdraft ==
    \A k \in DOMAIN balance :
        types[k[2]].config.accrual # "none" /\ ~Raced(k)
        => AvailableBalance(balance[k]) >= 0

(* Rejected and cancelled are final, and nothing returns to pending: only  *)
(* a commit on an outdated status can move a request out of them.          *)
TerminalIsFinal ==
    [][\A r \in Created :
          r \notin stale' /\ requests'[r].status # requests[r].status
          => <<requests[r].status, requests'[r].status>> \in
                 {<<"pending", "approved">>, <<"pending", "rejected">>,
                  <<"pending", "cancelled">>, <<"approved", "cancelled">>}]_vars
=============================================================================
