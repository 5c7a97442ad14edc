---------------------------- MODULE LeaveProofs ----------------------------
(***************************************************************************)
(* Theorems about Leave, for any employees, types, callers and ranges.     *)
(* First what counting half days does when a request is added to a set;    *)
(* then the type invariant; then the balance algebra.                      *)
(***************************************************************************)
EXTENDS Leave, FiniteSetTheorems, TLAPS

-----------------------------------------------------------------------------
(* Sets of half days.                                                      *)

(* The half days of finitely many requests are finite in number.           *)
LEMMA HalfDaysFinite ==
    ASSUME NEW q, NEW R, IsFiniteSet(R), \A r \in R : q[r].units \in Nat
    PROVE  IsFiniteSet(HalfDays(q, R)) /\ Units(q, R) \in Nat
<1> DEFINE Blocks == {{r} \X (1 .. q[r].units) : r \in R}
           block == [r \in R |-> {r} \X (1 .. q[r].units)]
<1>1. block \in Surjection(R, Blocks)
  BY DEF Surjection
<1>2. IsFiniteSet(Blocks)
  BY <1>1, FS_Surjection
<1>3. ASSUME NEW r \in R PROVE IsFiniteSet({r} \X (1 .. q[r].units))
  <2>1. IsFiniteSet(1 .. q[r].units)
    BY FS_Interval
  <2> QED
    BY <2>1, FS_Singleton, FS_Product
<1>4. \A B \in Blocks : IsFiniteSet(B)
  BY <1>3
<1>5. IsFiniteSet(HalfDays(q, R))
  BY <1>2, <1>4, FS_UNION DEF HalfDays
<1> QED
  BY <1>5, FS_CardinalityType DEF Units

(* Adding a request to a set adds its units to the count.                  *)
LEMMA UnitsAdd ==
    ASSUME NEW q, NEW R, IsFiniteSet(R), NEW x, x \notin R,
           \A r \in R \union {x} : q[r].units \in Nat
    PROVE  Units(q, R \union {x}) = Units(q, R) + q[x].units
<1> DEFINE Block == {x} \X (1 .. q[x].units)
<1>1. HalfDays(q, R \union {x}) = HalfDays(q, R) \union Block
  BY DEF HalfDays
<1>2. HalfDays(q, R) \intersect Block = {}
  BY DEF HalfDays
<1>3. IsFiniteSet(HalfDays(q, R)) /\ Cardinality(HalfDays(q, R)) \in Nat
  BY HalfDaysFinite DEF Units
<1>4. IsFiniteSet(Block) /\ Cardinality(Block) = q[x].units
  <2>1. q[x].units \in Nat
    OBVIOUS
  <2>2. IsFiniteSet(1 .. q[x].units) /\ Cardinality(1 .. q[x].units) = q[x].units
    <3>1. q[x].units \in Int /\ 1 \in Int
      BY <2>1
    <3>2. /\ IsFiniteSet(1 .. q[x].units)
          /\ Cardinality(1 .. q[x].units)
               = IF 1 > q[x].units THEN 0 ELSE q[x].units - 1 + 1
      BY <3>1, FS_Interval, Zenon
    <3> QED
      BY <2>1, <3>2
  <2>3. IsFiniteSet({x}) /\ Cardinality({x}) = 1
    BY FS_Singleton
  <2>4. /\ IsFiniteSet({x} \X (1 .. q[x].units))
        /\ Cardinality({x} \X (1 .. q[x].units))
             = Cardinality({x}) * Cardinality(1 .. q[x].units)
    BY <2>2, <2>3, FS_Product, Zenon
  <2>5. Cardinality({x} \X (1 .. q[x].units)) = 1 * q[x].units
    BY <2>2, <2>3, <2>4, Zenon
  <2>6. 1 * q[x].units = q[x].units
    BY <2>1
  <2> QED
    BY <2>4, <2>5, <2>6, Zenon
<1>5. Cardinality(HalfDays(q, R) \union Block)
        = Cardinality(HalfDays(q, R)) + Cardinality(Block)
                                      - Cardinality(HalfDays(q, R) \intersect Block)
  BY <1>3, <1>4, FS_Union
<1>6. Cardinality(HalfDays(q, R) \intersect Block) = 0
  BY <1>2, FS_EmptySet
<1>7. Units(q, R \union {x}) = Cardinality(HalfDays(q, R) \union Block)
  BY <1>1, Zenon DEF Units
<1> HIDE DEF Block
<1>8. q[x].units \in Nat
  OBVIOUS
<1>9. Cardinality(HalfDays(q, R) \union Block) = Cardinality(HalfDays(q, R)) + q[x].units
  BY <1>3, <1>4, <1>5, <1>6, <1>8
<1> QED
  BY <1>7, <1>9, Zenon DEF Units

(* The count depends on nothing but the units of the requests counted.     *)
LEMMA UnitsSame ==
    ASSUME NEW p, NEW q, NEW R, \A r \in R : p[r].units = q[r].units
    PROVE  Units(p, R) = Units(q, R)
BY DEF Units, HalfDays

(* No request, no units.                                                   *)
LEMMA UnitsNone == \A q : Units(q, {}) = 0
BY FS_EmptySet DEF Units, HalfDays
-----------------------------------------------------------------------------
(* computeUnits yields a whole number of half days.                        *)
LEMMA ComputeUnitsType ==
    ASSUME NEW start \in Int, NEW end \in Int, NEW hs \in BOOLEAN, NEW he \in BOOLEAN,
           NEW holidays
    PROVE  ComputeUnits(start, end, hs, he, holidays) \in Int
<1> DEFINE working == (start .. end) \ holidays
<1>1. IsFiniteSet(working) /\ Cardinality(working) \in Nat
  <2>1. IsFiniteSet(start .. end)
    BY FS_Interval
  <2> QED
    BY <2>1, FS_Subset, FS_CardinalityType
<1>2. \A b \in BOOLEAN : Half(b) \in Int
  BY DEF Half
<1> QED
  BY <1>1, <1>2 DEF ComputeUnits, DaysInclusive, Half

-----------------------------------------------------------------------------
(* The type invariant.                                                     *)

(* Opening the balances of a cycle adds rows of the right shape and keeps  *)
(* every row there was.                                                    *)
LEMMA EnsureLemma ==
    ASSUME LeaveAssumption, TypeOK, NEW e \in Employees, NEW y \in Years,
           EnsureBalancesForCycle(e, y)
    PROVE  /\ DOMAIN balance \subseteq DOMAIN balance'
           /\ \A k \in DOMAIN balance : balance'[k] = balance[k]
           /\ DOMAIN balance' \subseteq Keys
           /\ \A k \in DOMAIN balance' \ DOMAIN balance :
                 balance'[k] \in Balance /\ balance'[k].used = 0 /\ balance'[k].pending = 0
<1>1. \A t \in Live : OpeningBalance(t) \in Balance
                       /\ OpeningBalance(t).used = 0 /\ OpeningBalance(t).pending = 0
  BY DEF OpeningBalance, Live, TypeOK, LeaveType, Balance, Config, LeaveAssumption
<1>2. {e} \X Live \X {y} \subseteq Keys
  BY DEF Keys, Live
<1>3. \A k \in {e} \X Live \X {y} : k[2] \in Live
  OBVIOUS
<1> QED
  BY <1>1, <1>2, <1>3 DEF TypeOK, EnsureBalancesForCycle

LEMMA TypeInit == LeaveAssumption /\ Init => TypeOK
BY DEF Init, TypeOK, LeaveType, TypeState, Created, LeaveAssumption

LEMMA TypeLeaveTypes ==
    ASSUME LeaveAssumption, TypeOK, NEW t \in Types, NEW c \in Configs,
           CreateType(t, c) \/ UpdateType(t, c) \/ RemoveType(t) \/ RestoreType(t)
    PROVE  TypeOK'
<1>1. types' \in [Types -> LeaveType]
  BY DEF TypeOK, LeaveType, TypeState, CreateType, UpdateType, RemoveType, RestoreType
<1>2. UNCHANGED <<balance, requests, approvals, applying, deciding, stale, unseen>>
  BY DEF CreateType, UpdateType, RemoveType, RestoreType
<1> QED
  BY <1>1, <1>2 DEF TypeOK, Created

LEMMA TypeBalances ==
    ASSUME LeaveAssumption, TypeOK
    PROVE  /\ \A e \in Employees, y \in Years : ViewBalances(e, y) => TypeOK'
           /\ \A k \in Keys, g \in Grants : AdjustBalance(k, g) => TypeOK'
<1>1. ASSUME NEW e \in Employees, NEW y \in Years, ViewBalances(e, y)
      PROVE  TypeOK'
  <2>1. EnsureBalancesForCycle(e, y)
    BY <1>1 DEF ViewBalances
  <2>2. DOMAIN balance' \subseteq Keys /\ \A k \in DOMAIN balance' : balance'[k] \in Balance
    BY <2>1, EnsureLemma DEF TypeOK
  <2> QED
    BY <1>1, <2>2 DEF TypeOK, Created, ViewBalances
<1>2. ASSUME NEW k \in Keys, NEW g \in Grants, AdjustBalance(k, g)
      PROVE  TypeOK'
  <2>1. DOMAIN balance' = DOMAIN balance
    BY <1>2 DEF AdjustBalance
  <2>2. \A j \in DOMAIN balance : balance'[j] = IF j = k THEN [balance[j] EXCEPT !.granted = g]
                                                      ELSE balance[j]
    BY <1>2 DEF AdjustBalance
  <2>3. g \in Int
    BY DEF LeaveAssumption
  <2>4. \A j \in DOMAIN balance : balance'[j] \in Balance
    <3>1. ASSUME NEW b \in Balance
          PROVE  [b EXCEPT !.granted = g] \in Balance
      BY <2>3 DEF Balance
    <3>2. \A j \in DOMAIN balance : balance[j] \in Balance
      BY DEF TypeOK
    <3> QED
      BY <2>2, <3>1, <3>2
  <2> QED
    BY <1>2, <2>1, <2>4 DEF TypeOK, Created, AdjustBalance
<1> QED
  BY <1>1, <1>2

LEMMA TypeApplyReadType ==
    ASSUME LeaveAssumption, TypeOK, NEW a \in Applicants, NEW e \in Employees,
           NEW t \in Types, NEW ask \in Asks, NEW h \in HolidaySets,
           ApplyReadType(a, e, t, ask, h)
    PROVE  TypeOK'
<1> DEFINE units == ComputeUnits(ask.start, ask.end, ask.halfStart, ask.halfEnd, h)
           draft == [at |-> "overlap", emp |-> e, type |-> t, start |-> ask.start,
                   end |-> ask.end, units |-> units, config |-> types[t].config,
                   row |-> FALSE, seen |-> {}]
<1>1. /\ ask.start \in DOMAIN Year /\ ask.start \in Int /\ ask.end \in Int
      /\ ask.halfStart \in BOOLEAN /\ ask.halfEnd \in BOOLEAN
  BY DEF LeaveAssumption, Ask
<1>2. units \in Int
  BY <1>1, ComputeUnitsType
<1> HIDE DEF units
<1>3. units \in Nat
  BY <1>2 DEF ApplyReadType, WithinBounds, units
<1>4. types[t].config \in Configs
  BY DEF TypeOK, LeaveType
<1>5. draft \in Application
  BY <1>1, <1>3, <1>4 DEF Application
<1>6. applying' = Put(applying, a, draft)
  BY DEF ApplyReadType, units
<1>7. /\ DOMAIN applying' \subseteq Applicants
      /\ \A b \in DOMAIN applying' : applying'[b] \in Application
  <2> HIDE DEF draft
  <2>1. /\ DOMAIN applying' = DOMAIN applying \union {a}
        /\ applying'[a] = draft
        /\ \A b \in DOMAIN applying \ {a} : applying'[b] = applying[b]
    <3>1. /\ DOMAIN Put(applying, a, draft) = DOMAIN applying \union {a}
          /\ Put(applying, a, draft)[a] = draft
          /\ \A b \in DOMAIN applying \ {a} : Put(applying, a, draft)[b] = applying[b]
      BY DEF Put
    <3> QED
      BY <1>6, <3>1
  <2> QED
    BY <1>5, <2>1 DEF TypeOK
<1> QED
  BY <1>7 DEF TypeOK, Created, ApplyReadType

LEMMA TypeApplyChecks ==
    ASSUME LeaveAssumption, TypeOK, NEW a \in Applicants,
           ApplyCheckOverlap(a) \/ ApplyEnsureBalance(a) \/ ApplyCheckBalance(a)
    PROVE  TypeOK'
<1>1. /\ DOMAIN applying' \subseteq Applicants
      /\ \A b \in DOMAIN applying' : applying'[b] \in Application
  <2>1. a \in DOMAIN applying /\ applying[a] \in Application
    BY DEF TypeOK, ApplyCheckOverlap, ApplyEnsureBalance, ApplyCheckBalance
  <2>2. CASE applying' = Drop(applying, a)
    <3>1. /\ DOMAIN applying' = DOMAIN applying \ {a}
          /\ \A b \in DOMAIN applying \ {a} : applying'[b] = applying[b]
      BY <2>2 DEF Drop, Restrict
    <3> QED
      BY <3>1 DEF TypeOK
  <2>3. CASE applying' # Drop(applying, a)
    <3>1. \E step \in {"ensure", "balance", "create"}, row \in BOOLEAN, seen \in SUBSET RequestIds :
             applying' = [applying EXCEPT ![a].at = step, ![a].row = row, ![a].seen = seen]
      <4>1. ApplyCheckOverlap(a) =>
               applying' = [applying EXCEPT ![a].at = "ensure", ![a].row = @, ![a].seen = Created]
        BY <2>1, <2>3 DEF ApplyCheckOverlap, Application
      <4>2. ApplyEnsureBalance(a) =>
               applying' = [applying EXCEPT ![a].at = "balance", ![a].row = @, ![a].seen = @]
        BY <2>1 DEF ApplyEnsureBalance, Application
      <4>3. ApplyCheckBalance(a) =>
               applying' = [applying EXCEPT ![a].at = "create",
                                            ![a].row = Key(applying[a]) \in DOMAIN balance,
                                            ![a].seen = @]
        BY <2>1, <2>3 DEF ApplyCheckBalance, Application
      <4>4. /\ applying[a].row \in BOOLEAN /\ (Key(applying[a]) \in DOMAIN balance) \in BOOLEAN
            /\ applying[a].seen \in SUBSET RequestIds /\ Created \in SUBSET RequestIds
        BY <2>1 DEF Application, TypeOK
      <4> QED
        BY <4>1, <4>2, <4>3, <4>4
    <3>2. PICK step \in {"ensure", "balance", "create"}, row \in BOOLEAN, seen \in SUBSET RequestIds :
             applying' = [applying EXCEPT ![a].at = step, ![a].row = row, ![a].seen = seen]
      BY <3>1
    <3>3. applying'[a] \in Application
      BY <2>1, <3>2 DEF Application
    <3>4. /\ DOMAIN applying' = DOMAIN applying
          /\ \A b \in DOMAIN applying \ {a} : applying'[b] = applying[b]
      BY <3>2
    <3> QED
      BY <3>3, <3>4 DEF TypeOK
  <2> QED
    BY <2>2, <2>3
<1>2. DOMAIN balance' \subseteq Keys /\ \A k \in DOMAIN balance' : balance'[k] \in Balance
  <2>1. CASE ApplyEnsureBalance(a)
    <3>1. applying[a].emp \in Employees /\ Year[applying[a].start] \in Years
      BY <2>1 DEF ApplyEnsureBalance, TypeOK, Application, Years
    <3> QED
      BY <2>1, <3>1, EnsureLemma DEF ApplyEnsureBalance, TypeOK
  <2>2. CASE balance' = balance
    BY <2>2 DEF TypeOK
  <2> QED
    BY <2>1, <2>2 DEF ApplyCheckOverlap, ApplyCheckBalance
<1>3. UNCHANGED <<types, requests, approvals, deciding, stale, unseen>>
  BY DEF ApplyCheckOverlap, ApplyEnsureBalance, ApplyCheckBalance
<1> QED
  BY <1>1, <1>2, <1>3 DEF TypeOK, Created

LEMMA TypeApplyCreate ==
    ASSUME LeaveAssumption, TypeOK, NEW a \in Applicants, NEW r \in RequestIds,
           ApplyCreate(a, r)
    PROVE  TypeOK'
<1> DEFINE q == applying[a]
           status == IF q.config.approval THEN "pending" ELSE "approved"
           made == [emp |-> q.emp, type |-> q.type, start |-> q.start, end |-> q.end,
                    units |-> q.units, status |-> status, reserved |-> q.row]
<1>1. a \in DOMAIN applying /\ q \in Application
  BY DEF ApplyCreate, TypeOK
<1>2. made \in Request
  BY <1>1 DEF Application, Request, Status
<1>3. requests' = Put(requests, r, made) /\ approvals' = Put(approvals, r, << >>)
  BY DEF ApplyCreate
<1>4. DOMAIN balance' = DOMAIN balance /\ \A k \in DOMAIN balance' : balance'[k] \in Balance
  <2>1. q.units \in Int
    BY <1>1 DEF Application
  <2>2. \/ balance' = balance
        \/ balance' = [balance EXCEPT ![Key(q)].used = @ + q.units]
        \/ balance' = [balance EXCEPT ![Key(q)].pending = @ + q.units]
    BY DEF ApplyCreate
  <2>3. ASSUME NEW b \in Balance
        PROVE  /\ [b EXCEPT !.used = @ + q.units] \in Balance
               /\ [b EXCEPT !.pending = @ + q.units] \in Balance
    BY <2>1 DEF Balance
  <2> HIDE DEF q
  <2>4. DOMAIN balance' = DOMAIN balance
    BY <2>2
  <2>5. ASSUME NEW k \in DOMAIN balance
        PROVE  \/ balance'[k] = balance[k]
               \/ balance'[k] = [balance[k] EXCEPT !.used = @ + q.units]
               \/ balance'[k] = [balance[k] EXCEPT !.pending = @ + q.units]
    BY <2>2
  <2>6. ASSUME NEW k \in DOMAIN balance
        PROVE  balance'[k] \in Balance
    <3>1. balance[k] \in Balance
      BY DEF TypeOK
    <3>2. /\ [balance[k] EXCEPT !.used = @ + q.units] \in Balance
          /\ [balance[k] EXCEPT !.pending = @ + q.units] \in Balance
      BY <2>3, <3>1
    <3> QED
      BY <2>5, <3>1, <3>2
  <2> QED
    BY <2>4, <2>6
<1> HIDE DEF made
<1>5. /\ DOMAIN requests' = DOMAIN requests \union {r}
      /\ \A x \in DOMAIN requests' : requests'[x] \in Request
  BY <1>2, <1>3 DEF Put, TypeOK, Created
<1>6. /\ DOMAIN approvals' = DOMAIN approvals \union {r}
      /\ \A x \in DOMAIN approvals' : approvals'[x] \in Seq({"approved", "rejected"})
  BY <1>3 DEF Put, TypeOK, Created
<1>7. /\ DOMAIN applying' \subseteq Applicants
      /\ \A b \in DOMAIN applying' : applying'[b] \in Application
  BY DEF ApplyCreate, Drop, Restrict, TypeOK
<1>8. unseen' \subseteq Created' \X Created'
  <2>1. unseen' = unseen \union {<<r, s>> : s \in Created \ applying[a].seen}
    BY DEF ApplyCreate
  <2> QED
    BY <1>5, <2>1 DEF TypeOK, Created
<1> QED
  BY <1>4, <1>5, <1>6, <1>7, <1>8 DEF TypeOK, Created, ApplyCreate

LEMMA TypeRead ==
    ASSUME LeaveAssumption, TypeOK, NEW d \in Deciders, NEW r \in RequestIds,
           \/ \E v \in {"approved", "rejected"} : DecideRead(d, r, v)
           \/ CancelRead(d, r)
    PROVE  TypeOK'
<1>1. PICK verdict \in {"approved", "rejected", "cancelled"}, seen \in Active :
         /\ deciding' = Put(deciding, d, [req |-> r, verdict |-> verdict, seen |-> seen])
         /\ verdict # "cancelled" => seen = "pending"
  BY DEF DecideRead, CancelRead, Active
<1>2. r \in Created
  BY DEF DecideRead, CancelRead
<1>3. /\ DOMAIN deciding' \subseteq Deciders
      /\ \A e \in DOMAIN deciding' :
            /\ deciding'[e] \in Decision
            /\ deciding'[e].req \in Created
            /\ deciding'[e].verdict # "cancelled" => deciding'[e].seen = "pending"
  BY <1>1, <1>2 DEF Put, TypeOK, Decision
<1>4. UNCHANGED <<types, balance, requests, approvals, applying, stale, unseen>>
  BY DEF DecideRead, CancelRead
<1> QED
  BY <1>3, <1>4 DEF TypeOK, Created

(* What a commit does to the row of the balance it moves.                  *)
LEMMA MovedType ==
    ASSUME NEW b \in Balance, NEW units \in Nat, NEW seen \in Active, NEW v
    PROVE  Moved(b, v, seen, units) \in Balance
<1>1. b.pending - units \in Int /\ b.used + units \in Int /\ b.used - units \in Int
  BY DEF Balance
<1>2. /\ [b EXCEPT !.pending = b.pending - units, !.used = b.used + units] \in Balance
      /\ [b EXCEPT !.pending = b.pending - units] \in Balance
      /\ [b EXCEPT !.used = b.used - units] \in Balance
  BY <1>1 DEF Balance
<1> QED
  BY <1>2 DEF Moved

LEMMA TypeCommit ==
    ASSUME LeaveAssumption, TypeOK, NEW d \in Deciders,
           DecideCommit(d) \/ CancelCommit(d)
    PROVE  TypeOK'
<1> DEFINE r == deciding[d].req
           v == deciding[d].verdict
           seen == deciding[d].seen
<1>1. /\ d \in DOMAIN deciding
      /\ r \in Created /\ v \in Status /\ seen \in Active
      /\ requests[r] \in Request /\ requests[r].units \in Nat
  BY DEF DecideCommit, CancelCommit, TypeOK, Decision, Request, Status
<1>2. requests' = [requests EXCEPT ![r].status = v]
  BY DEF DecideCommit, CancelCommit
<1>3. MoveBalance(Key(requests[r]), v, seen, requests[r].units)
  BY DEF DecideCommit, CancelCommit
<1>4. /\ DOMAIN deciding' = DOMAIN deciding \ {d}
      /\ \A e \in DOMAIN deciding' : deciding'[e] = deciding[e]
  BY DEF DecideCommit, CancelCommit, Drop, Restrict
<1>5. NoteStale(d) /\ UNCHANGED <<types, applying>>
  BY DEF DecideCommit, CancelCommit
<1>6. /\ DOMAIN approvals' = DOMAIN approvals
      /\ \A x \in DOMAIN approvals : approvals'[x] \in Seq({"approved", "rejected"})
  <2>1. CASE CancelCommit(d)
    BY <2>1 DEF CancelCommit, TypeOK
  <2>2. CASE DecideCommit(d)
    <3>1. v \in {"approved", "rejected"}
      BY <2>2 DEF DecideCommit, TypeOK, Decision
    <3>2. approvals[r] \in Seq({"approved", "rejected"})
      BY <1>1 DEF TypeOK
    <3>3. Append(approvals[r], v) \in Seq({"approved", "rejected"})
      BY <3>1, <3>2
    <3>4. approvals' = [approvals EXCEPT ![r] = Append(@, v)]
      BY <2>2 DEF DecideCommit
    <3> HIDE DEF r, v
    <3> QED
      BY <3>3, <3>4 DEF TypeOK
  <2> QED
    BY <2>1, <2>2
<1> HIDE DEF r, v, seen
<1>7. DOMAIN requests' = DOMAIN requests /\ \A x \in DOMAIN requests : requests'[x] \in Request
  BY <1>1, <1>2 DEF TypeOK, Created, Request
<1>8. DOMAIN balance' = DOMAIN balance /\ \A k \in DOMAIN balance : balance'[k] \in Balance
  BY <1>1, <1>3, MovedType DEF MoveBalance, TypeOK
<1>9. stale' \subseteq Created
  BY <1>1, <1>5 DEF NoteStale, TypeOK, r
<1>10. unseen' = unseen
  BY DEF DecideCommit, CancelCommit
<1> QED
  BY <1>4, <1>5, <1>6, <1>7, <1>8, <1>9, <1>10 DEF TypeOK, Created

LEMMA TypeNext == LeaveAssumption /\ TypeOK /\ [Next]_vars => TypeOK'
<1> SUFFICES ASSUME LeaveAssumption, TypeOK, [Next]_vars
             PROVE  TypeOK'
  OBVIOUS
<1>1. CASE UNCHANGED vars
  BY <1>1 DEF vars, TypeOK, Created
<1>2. ASSUME NEW t \in Types, NEW c \in Configs, CreateType(t, c) \/ UpdateType(t, c)
      PROVE  TypeOK'
  BY <1>2, TypeLeaveTypes
<1>3. ASSUME NEW t \in Types, RemoveType(t) \/ RestoreType(t)
      PROVE  TypeOK'
  <2>1. types[t].config \in Configs
    BY DEF TypeOK, LeaveType
  <2> QED
    BY <1>3, <2>1, TypeLeaveTypes
<1>4. ASSUME NEW a \in Applicants, NEW e \in Employees, NEW t \in Types,
             NEW ask \in Asks, NEW h \in HolidaySets, ApplyReadType(a, e, t, ask, h)
      PROVE  TypeOK'
  BY <1>4, TypeApplyReadType
<1>5. ASSUME NEW d \in Deciders, NEW r \in RequestIds,
             \/ \E v \in {"approved", "rejected"} : DecideRead(d, r, v)
             \/ CancelRead(d, r)
      PROVE  TypeOK'
  BY <1>5, TypeRead
<1>6. ASSUME NEW a \in Applicants,
             \/ ApplyCheckOverlap(a) \/ ApplyEnsureBalance(a) \/ ApplyCheckBalance(a)
             \/ \E r \in RequestIds : ApplyCreate(a, r)
      PROVE  TypeOK'
  BY <1>6, TypeApplyChecks, TypeApplyCreate
<1>7. ASSUME NEW d \in Deciders, DecideCommit(d) \/ CancelCommit(d)
      PROVE  TypeOK'
  BY <1>7, TypeCommit
<1> QED
  BY <1>1, <1>2, <1>3, <1>4, <1>5, <1>6, <1>7, TypeBalances DEF Next

(* Whatever the callers do, tables and handlers keep their shape.          *)
THEOREM TypeCorrect == Spec => []TypeOK
BY LeaveAssumption, TypeInit, TypeNext, PTL DEF Spec

-----------------------------------------------------------------------------
(* The balance algebra.  It is inductive together with the fact that what  *)
(* is reserved, or about to be, is reserved in a row that exists: a row    *)
(* that is opened later can then start from zero.                          *)

LedgerInv ==
    /\ \A r \in Created : requests[r].reserved => Key(requests[r]) \in DOMAIN balance
    /\ \A a \in DOMAIN applying : applying[a].row => Key(applying[a]) \in DOMAIN balance
    /\ BalanceAlgebra

LEMMA RowsFinite ==
    ASSUME LeaveAssumption, TypeOK, NEW k, NEW status
    PROVE  /\ IsFiniteSet(Rows(requests, k, status))
           /\ \A r \in Rows(requests, k, status) : requests[r].units \in Nat
<1>1. Rows(requests, k, status) \subseteq RequestIds
  BY DEF Rows, TypeOK, Created
<1>2. IsFiniteSet(Rows(requests, k, status))
  BY <1>1, FS_Subset DEF LeaveAssumption
<1> QED
  BY <1>2 DEF Rows, TypeOK, Created, Request

LEMMA LedgerInit == Init => LedgerInv
BY DEF Init, LedgerInv, BalanceAlgebra, Created

(* A step that leaves the requests alone, moves no units and opens new     *)
(* rows at zero keeps the ledger.                                          *)
LEMMA LedgerKept ==
    ASSUME TypeOK, LedgerInv, UNCHANGED <<requests, stale>>,
           DOMAIN balance \subseteq DOMAIN balance',
           \A k \in DOMAIN balance : /\ balance'[k].used = balance[k].used
                                     /\ balance'[k].pending = balance[k].pending,
           \A k \in DOMAIN balance' \ DOMAIN balance : /\ balance'[k].used = 0
                                                       /\ balance'[k].pending = 0,
           \A a \in DOMAIN applying' :
              applying'[a].row => Key(applying'[a]) \in DOMAIN balance'
    PROVE  LedgerInv'
<1>1. \A r \in Created' : requests'[r].reserved => Key(requests'[r]) \in DOMAIN balance'
  BY DEF LedgerInv, Created
<1>2. ASSUME NEW k \in DOMAIN balance', Sound(k)'
      PROVE  Reconciled(k)'
  <2>1. Sound(k)
    BY <1>2 DEF Sound, Created
  <2>2. CASE k \in DOMAIN balance
    <3>1. Reconciled(k)
      BY <2>1, <2>2 DEF LedgerInv, BalanceAlgebra
    <3> QED
      BY <2>2, <3>1 DEF Reconciled
  <2>3. CASE k \notin DOMAIN balance
    <3>1. \A status : Rows(requests, k, status) = {}
      BY <2>1, <2>3 DEF LedgerInv, Sound, Rows, Created
    <3>2. \A status : Units(requests, Rows(requests, k, status)) = 0
      BY <3>1, UnitsNone
    <3>3. balance'[k].pending = 0 /\ balance'[k].used = 0
      BY <2>3
    <3> QED
      BY <3>2, <3>3 DEF Reconciled
  <2> QED
    BY <2>2, <2>3
<1> QED
  BY <1>1, <1>2 DEF LedgerInv, BalanceAlgebra

LEMMA LedgerBalances ==
    ASSUME LeaveAssumption, TypeOK, LedgerInv
    PROVE  /\ \A e \in Employees, y \in Years : ViewBalances(e, y) => LedgerInv'
           /\ \A k \in Keys, g \in Grants : AdjustBalance(k, g) => LedgerInv'
<1>1. ASSUME NEW e \in Employees, NEW y \in Years, ViewBalances(e, y)
      PROVE  LedgerInv'
  <2>1. EnsureBalancesForCycle(e, y) /\ UNCHANGED <<requests, applying, stale>>
    BY <1>1 DEF ViewBalances
  <2>2. /\ DOMAIN balance \subseteq DOMAIN balance'
        /\ \A k \in DOMAIN balance : balance'[k] = balance[k]
        /\ \A k \in DOMAIN balance' \ DOMAIN balance :
              balance'[k].used = 0 /\ balance'[k].pending = 0
    BY <2>1, EnsureLemma
  <2>3. \A a \in DOMAIN applying' :
           applying'[a].row => Key(applying'[a]) \in DOMAIN balance'
    BY <2>1, <2>2 DEF LedgerInv
  <2> QED
    BY <2>1, <2>2, <2>3, LedgerKept
<1>2. ASSUME NEW k \in Keys, NEW g \in Grants, AdjustBalance(k, g)
      PROVE  LedgerInv'
  <2>1. /\ DOMAIN balance' = DOMAIN balance
        /\ \A j \in DOMAIN balance : /\ balance'[j].used = balance[j].used
                                      /\ balance'[j].pending = balance[j].pending
    BY <1>2 DEF AdjustBalance, TypeOK, Balance
  <2>2. UNCHANGED <<requests, applying, stale>>
    BY <1>2 DEF AdjustBalance
  <2>3. \A a \in DOMAIN applying' :
           applying'[a].row => Key(applying'[a]) \in DOMAIN balance'
    BY <2>1, <2>2 DEF LedgerInv
  <2> QED
    BY <2>1, <2>2, <2>3, LedgerKept
<1> QED
  BY <1>1, <1>2

LEMMA LedgerApplyReads ==
    ASSUME LeaveAssumption, TypeOK, LedgerInv, NEW a \in Applicants,
           \/ \E e \in Employees, t \in Types, ask \in Asks, h \in HolidaySets :
                 ApplyReadType(a, e, t, ask, h)
           \/ ApplyCheckOverlap(a)
           \/ ApplyCheckBalance(a)
    PROVE  LedgerInv'
<1>1. UNCHANGED <<balance, requests, stale>>
  BY DEF ApplyReadType, ApplyCheckOverlap, ApplyCheckBalance
<1>2. ASSUME NEW b \in DOMAIN applying', applying'[b].row
      PROVE  Key(applying'[b]) \in DOMAIN balance'
  <2>1. CASE b \in DOMAIN applying /\ applying'[b] = applying[b]
    BY <1>1, <1>2, <2>1 DEF LedgerInv
  <2>2. CASE \E e \in Employees, t \in Types, ask \in Asks, h \in HolidaySets :
                 ApplyReadType(a, e, t, ask, h)
    BY <1>2, <2>1, <2>2 DEF ApplyReadType, Put
  <2>3. CASE ApplyCheckOverlap(a)
    <3>1. a \in DOMAIN applying /\ applying[a] \in Application
      BY <2>3 DEF ApplyCheckOverlap, TypeOK
    <3>2. \/ applying' = Drop(applying, a)
          \/ applying' = [applying EXCEPT ![a].at = "ensure", ![a].seen = Created]
      BY <2>3 DEF ApplyCheckOverlap
    <3>3. b \in DOMAIN applying
      BY <3>2 DEF Drop, Restrict
    <3>4. applying'[b].row = applying[b].row /\ Key(applying'[b]) = Key(applying[b])
      BY <3>1, <3>2, <3>3 DEF Drop, Restrict, Key, Application
    <3> QED
      BY <1>1, <1>2, <3>3, <3>4 DEF LedgerInv
  <2>4. CASE ApplyCheckBalance(a)
    <3>1. a \in DOMAIN applying /\ applying[a] \in Application
      BY <2>4 DEF ApplyCheckBalance, TypeOK
    <3>2. \/ applying' = Drop(applying, a)
          \/ applying' = [applying EXCEPT ![a].at = "create",
                                ![a].row = Key(applying[a]) \in DOMAIN balance]
      BY <2>4 DEF ApplyCheckBalance
    <3>3. b \in DOMAIN applying /\ (b # a => applying'[b] = applying[b])
      BY <3>2 DEF Drop, Restrict
    <3>4. CASE b = a
      <4>1. applying' = [applying EXCEPT ![a].at = "create",
                              ![a].row = Key(applying[a]) \in DOMAIN balance]
        BY <3>2, <3>4 DEF Drop, Restrict
      <4>2. /\ applying'[a].row = (Key(applying[a]) \in DOMAIN balance)
            /\ Key(applying'[a]) = Key(applying[a])
        BY <3>1, <4>1 DEF Application, Key
      <4> QED
        BY <1>1, <1>2, <3>4, <4>2
    <3> QED
      BY <2>1, <3>3, <3>4
  <2> QED
    BY <2>2, <2>3, <2>4
<1> QED
  BY <1>1, <1>2, LedgerKept

LEMMA LedgerApplyEnsure ==
    ASSUME LeaveAssumption, TypeOK, LedgerInv, NEW a \in Applicants, ApplyEnsureBalance(a)
    PROVE  LedgerInv'
<1>1. a \in DOMAIN applying /\ applying[a] \in Application
  BY DEF ApplyEnsureBalance, TypeOK
<1>2. applying[a].emp \in Employees /\ Year[applying[a].start] \in Years
  BY <1>1 DEF Application, Years
<1>3. /\ DOMAIN balance \subseteq DOMAIN balance'
      /\ \A k \in DOMAIN balance : balance'[k] = balance[k]
      /\ \A k \in DOMAIN balance' \ DOMAIN balance :
            balance'[k].used = 0 /\ balance'[k].pending = 0
  BY <1>2, EnsureLemma DEF ApplyEnsureBalance
<1>4. applying' = [applying EXCEPT ![a].at = "balance"] /\ UNCHANGED <<requests, stale>>
  BY DEF ApplyEnsureBalance
<1>5. \A b \in DOMAIN applying' :
         applying'[b].row = applying[b].row /\ Key(applying'[b]) = Key(applying[b])
  BY <1>1, <1>4 DEF Application, Key
<1>6. \A b \in DOMAIN applying' :
         applying'[b].row => Key(applying'[b]) \in DOMAIN balance'
  BY <1>3, <1>4, <1>5 DEF LedgerInv
<1> QED
  BY <1>3, <1>4, <1>6, LedgerKept

(* Requests and balances of other keys are not touched by a commit.        *)
LEMMA LedgerElsewhere ==
    ASSUME NEW k \in DOMAIN balance, Sound(k) => Reconciled(k), Sound(k)',
           DOMAIN requests \subseteq DOMAIN requests', stale \subseteq stale',
           balance'[k] = balance[k],
           \A x \in DOMAIN requests : requests'[x].units = requests[x].units
                                     /\ Key(requests'[x]) = Key(requests[x])
                                     /\ requests'[x].reserved = requests[x].reserved,
           \A status : Rows(requests', k, status) = Rows(requests, k, status)
    PROVE  Reconciled(k)'
<1>1. Sound(k)
  BY DEF Sound, Created
<1>2. \A status : Units(requests', Rows(requests, k, status))
                  = Units(requests, Rows(requests, k, status))
  BY UnitsSame DEF Rows
<1> QED
  BY <1>1, <1>2 DEF Reconciled

LEMMA LedgerApplyCreate ==
    ASSUME LeaveAssumption, TypeOK, LedgerInv, NEW a \in Applicants,
           NEW r \in RequestIds, ApplyCreate(a, r)
    PROVE  LedgerInv'
<1> DEFINE q == applying[a]
           status == IF q.config.approval THEN "pending" ELSE "approved"
           made == [emp |-> q.emp, type |-> q.type, start |-> q.start, end |-> q.end,
                    units |-> q.units, status |-> status, reserved |-> q.row]
           home == Key(q)
<1>1. a \in DOMAIN applying /\ q \in Application /\ r \notin DOMAIN requests
  BY DEF ApplyCreate, TypeOK, Created
<1>2. requests' = Put(requests, r, made) /\ stale' = stale /\ r \notin stale
  BY <1>1 DEF ApplyCreate, TypeOK, Created
<1>3. Key(made) = home /\ made.units = q.units /\ made.status = status
      /\ made.reserved = q.row /\ q.units \in Nat
  BY <1>1 DEF Key, Application
<1>4. /\ q.row => home \in DOMAIN balance
      /\ ~q.row => balance' = balance
      /\ q.row /\ status = "approved" =>
            balance' = [balance EXCEPT ![home].used = @ + q.units]
      /\ q.row /\ status = "pending" =>
            balance' = [balance EXCEPT ![home].pending = @ + q.units]
  BY <1>1 DEF ApplyCreate, LedgerInv
<1>5. status \in {"pending", "approved"}
  OBVIOUS
<1> HIDE DEF made, home, status, q
<1>6. /\ DOMAIN requests' = DOMAIN requests \union {r}
      /\ requests'[r] = made
      /\ \A x \in DOMAIN requests : requests'[x] = requests[x]
  BY <1>1, <1>2 DEF Put
<1>7. DOMAIN balance' = DOMAIN balance
  BY <1>4, <1>5
<1>8. \A x \in Created' : requests'[x].reserved => Key(requests'[x]) \in DOMAIN balance'
  BY <1>3, <1>4, <1>6, <1>7 DEF LedgerInv, Created
<1>9. \A b \in DOMAIN applying' : applying'[b].row => Key(applying'[b]) \in DOMAIN balance'
  BY <1>7 DEF LedgerInv, ApplyCreate, Drop, Restrict
<1>10. ASSUME NEW k \in DOMAIN balance', Sound(k)'
       PROVE  Reconciled(k)'
  <2>1. k \in DOMAIN balance /\ Sound(k)
    BY <1>2, <1>6, <1>7, <1>10 DEF Sound, Created
  <2>2. Reconciled(k)
    BY <2>1 DEF LedgerInv, BalanceAlgebra
  <2>3. CASE k # home
    <3>1. \A s : Rows(requests', k, s) = Rows(requests, k, s)
      BY <1>3, <1>6, <2>3 DEF Rows
    <3>2. balance'[k] = balance[k]
      BY <1>4, <1>5, <2>1, <2>3
    <3> QED
      BY <1>2, <1>6, <1>10, <2>1, <2>2, <3>1, <3>2, LedgerElsewhere
  <2>4. CASE k = home
    <3> DEFINE R(s) == Rows(requests, home, s)
    <3>1. q.row
      BY <1>3, <1>6, <1>10, <2>4 DEF Sound, Created
    <3>2. \A s : r \notin R(s)
      BY <1>1 DEF Rows
    <3>3. \A s : R(s) \subseteq DOMAIN requests
      BY DEF Rows
    <3>4. Rows(requests', home, status) = R(status) \union {r}
      BY <1>3, <1>6 DEF Rows
    <3>5. \A s : s # status => Rows(requests', home, s) = R(s)
      BY <1>3, <1>6 DEF Rows
    <3>6. \A s : IsFiniteSet(R(s)) /\ \A x \in R(s) : requests[x].units \in Nat
      BY RowsFinite
    <3> HIDE DEF R
    <3>7. \A s : Units(requests', R(s)) = Units(requests, R(s)) /\ Units(requests, R(s)) \in Nat
      BY <1>6, <3>3, <3>6, UnitsSame, HalfDaysFinite
    <3>8. Units(requests', R(status) \union {r}) = Units(requests', R(status)) + requests'[r].units
      BY <1>3, <1>6, <3>2, <3>3, <3>6, UnitsAdd
    <3>9. /\ Units(requests', Rows(requests', home, status)) = Units(requests, R(status)) + q.units
          /\ \A s : s # status =>
                Units(requests', Rows(requests', home, s)) = Units(requests, R(s))
      BY <1>3, <1>6, <3>4, <3>5, <3>7, <3>8
    <3>10. /\ balance[home].pending = Units(requests, R("pending"))
           /\ balance[home].used = Units(requests, R("approved"))
      BY <2>2, <2>4 DEF Reconciled, R
    <3>11. balance[home] \in Balance
      BY <2>1, <2>4 DEF TypeOK
    <3>12. CASE status = "approved"
      <4>1. balance'[home] = [balance[home] EXCEPT !.used = @ + q.units]
        BY <1>4, <2>1, <2>4, <3>1, <3>12
      <4>2. /\ balance'[home].used = balance[home].used + q.units
            /\ balance'[home].pending = balance[home].pending
        BY <3>11, <4>1 DEF Balance
      <4> QED
        BY <2>4, <3>9, <3>10, <3>12, <4>2 DEF Reconciled
    <3>13. CASE status = "pending"
      <4>1. balance'[home] = [balance[home] EXCEPT !.pending = @ + q.units]
        BY <1>4, <2>1, <2>4, <3>1, <3>13
      <4>2. /\ balance'[home].pending = balance[home].pending + q.units
            /\ balance'[home].used = balance[home].used
        BY <3>11, <4>1 DEF Balance
      <4> QED
        BY <2>4, <3>9, <3>10, <3>13, <4>2 DEF Reconciled
    <3> QED
      BY <1>5, <3>12, <3>13
  <2> QED
    BY <2>3, <2>4
<1> QED
  BY <1>8, <1>9, <1>10 DEF LedgerInv, BalanceAlgebra

LEMMA LedgerCommit ==
    ASSUME LeaveAssumption, TypeOK, LedgerInv, NEW d \in Deciders,
           DecideCommit(d) \/ CancelCommit(d)
    PROVE  LedgerInv'
<1> DEFINE r == deciding[d].req
           v == deciding[d].verdict
           seen == deciding[d].seen
           home == Key(requests[r])
           n == requests[r].units
<1>1. /\ d \in DOMAIN deciding /\ r \in DOMAIN requests /\ seen \in Active
      /\ v \in {"approved", "rejected", "cancelled"}
      /\ v # "cancelled" => seen = "pending"
      /\ requests[r] \in Request /\ n \in Nat
  BY DEF DecideCommit, CancelCommit, TypeOK, Decision, Request, Created
<1>2. /\ requests' = [requests EXCEPT ![r].status = v]
      /\ applying' = applying
  BY DEF DecideCommit, CancelCommit
<1>3. balance' = IF home \in DOMAIN balance
                 THEN [balance EXCEPT ![home] = Moved(@, v, seen, n)] ELSE balance
  BY DEF DecideCommit, CancelCommit, MoveBalance
<1>4. stale' = IF requests[r].status = seen THEN stale ELSE stale \union {r}
  BY DEF DecideCommit, CancelCommit, NoteStale
<1> HIDE DEF r, v, seen, home
<1>5. /\ DOMAIN requests' = DOMAIN requests
      /\ requests'[r].status = v
      /\ \A x \in DOMAIN requests : x # r => requests'[x] = requests[x]
      /\ \A x \in DOMAIN requests : /\ requests'[x].units = requests[x].units
                                    /\ Key(requests'[x]) = Key(requests[x])
                                    /\ requests'[x].reserved = requests[x].reserved
  BY <1>1, <1>2 DEF Request, Key
<1>6. DOMAIN balance' = DOMAIN balance
  BY <1>3
<1>7. \A x \in Created' : requests'[x].reserved => Key(requests'[x]) \in DOMAIN balance'
  BY <1>5, <1>6 DEF LedgerInv, Created
<1>8. \A b \in DOMAIN applying' : applying'[b].row => Key(applying'[b]) \in DOMAIN balance'
  BY <1>2, <1>6 DEF LedgerInv
<1>9. ASSUME NEW k \in DOMAIN balance', Sound(k)'
      PROVE  Reconciled(k)'
  <2>1. k \in DOMAIN balance /\ Sound(k)
    BY <1>4, <1>5, <1>6, <1>9 DEF Sound, Created
  <2>2. Reconciled(k)
    BY <2>1 DEF LedgerInv, BalanceAlgebra
  <2>3. CASE k # home
    <3>1. \A s : Rows(requests', k, s) = Rows(requests, k, s)
      BY <1>1, <1>5, <2>3 DEF Rows, home
    <3>2. balance'[k] = balance[k]
      BY <1>3, <2>1, <2>3
    <3> QED
      BY <1>4, <1>5, <1>9, <2>1, <2>2, <3>1, <3>2, LedgerElsewhere
  <2>4. CASE k = home
    <3> DEFINE R(s) == Rows(requests, home, s)
               S(s) == Rows(requests', home, s)
    <3>1. requests[r].status = seen
      BY <1>1, <1>4, <1>5, <1>9, <2>4 DEF Sound, Created, home
    <3>2. /\ r \in R(seen) /\ \A s : s # seen => r \notin R(s)
          /\ r \in S(v)    /\ \A s : s # v => r \notin S(s)
          /\ \A s : S(s) \ {r} = R(s) \ {r}
      BY <1>1, <1>5, <3>1 DEF Rows, home
    <3>3. \A s : IsFiniteSet(R(s)) /\ R(s) \subseteq DOMAIN requests
                /\ \A x \in R(s) : requests[x].units \in Nat
      BY RowsFinite DEF Rows
    <3> HIDE DEF R, S
    <3>4. \A s : /\ IsFiniteSet(R(s) \ {r})
                 /\ \A x \in R(s) \ {r} : requests[x].units \in Nat
                 /\ Units(requests, R(s) \ {r}) \in Nat
      <4>1. TAKE s
      <4>2. IsFiniteSet(R(s) \ {r})
        BY <3>3, FS_Subset
      <4> QED
        BY <3>3, <4>2, HalfDaysFinite
    <3>5. \A s : Units(requests', R(s) \ {r}) = Units(requests, R(s) \ {r})
      <4>1. \A s : \A x \in R(s) \ {r} : requests'[x].units = requests[x].units
        BY <1>5, <3>3
      <4> QED
        BY <4>1, UnitsSame
    <3>6. \A s : Units(requests, (R(s) \ {r}) \union {r}) = Units(requests, R(s) \ {r}) + n
      <4>1. \A s : \A x \in (R(s) \ {r}) \union {r} : requests[x].units \in Nat
        BY <1>1, <3>4
      <4> QED
        BY <3>4, <4>1, UnitsAdd
    <3>7. \A s : Units(requests', (R(s) \ {r}) \union {r}) = Units(requests', R(s) \ {r}) + n
      <4>1. requests'[r].units = n
        BY <1>1, <1>5
      <4>2. \A s : \A x \in (R(s) \ {r}) \union {r} : requests'[x].units \in Nat
        BY <1>1, <1>5, <3>3, <3>4, <4>1
      <4>3. \A s : Units(requests', (R(s) \ {r}) \union {r})
                     = Units(requests', R(s) \ {r}) + requests'[r].units
        BY <3>4, <4>2, UnitsAdd
      <4> QED
        BY <4>1, <4>3
    <3>8. \A s : Units(requests, R(s)) = Units(requests, R(s) \ {r})
                                       + (IF s = seen THEN n ELSE 0)
      <4>1. R(seen) = (R(seen) \ {r}) \union {r}
        BY <3>2
      <4>2. \A s : s # seen => R(s) = R(s) \ {r}
        BY <3>2
      <4>3. Units(requests, R(seen)) = Units(requests, R(seen) \ {r}) + n
        BY <3>6, <4>1, Zenon
      <4>4. TAKE s
      <4>5. CASE s = seen
        <5>1. Units(requests, R(s)) = Units(requests, R(s) \ {r}) + n
          BY <4>3, <4>5, Zenon
        <5> QED
          BY <1>1, <3>4, <4>5, <5>1
      <4>6. CASE s # seen
        <5>1. Units(requests, R(s)) = Units(requests, R(s) \ {r})
          BY <4>2, <4>6, Zenon
        <5>2. Units(requests, R(s) \ {r}) \in Nat
          BY <3>4, Zenon
        <5> QED
          BY <1>1, <4>6, <5>1, <5>2
      <4> QED
        BY <4>5, <4>6, Zenon
    <3>9. \A s : Units(requests', S(s)) = Units(requests, R(s) \ {r})
                                        + (IF s = v THEN n ELSE 0)
      <4>1. S(v) = (R(v) \ {r}) \union {r}
        BY <3>2
      <4>2. \A s : s # v => S(s) = R(s) \ {r}
        BY <3>2
      <4>3. Units(requests', S(v)) = Units(requests', R(v) \ {r}) + n
        BY <3>7, <4>1, Zenon
      <4>4. TAKE s
      <4>5. CASE s = v
        <5>1. Units(requests', S(s)) = Units(requests', R(s) \ {r}) + n
          BY <4>3, <4>5, Zenon
        <5>2. Units(requests', R(s) \ {r}) = Units(requests, R(s) \ {r})
          BY <3>5
        <5> QED
          BY <1>1, <3>4, <4>5, <5>1, <5>2
      <4>6. CASE s # v
        <5>1. Units(requests', S(s)) = Units(requests', R(s) \ {r})
          BY <4>2, <4>6, Zenon
        <5>2. Units(requests', R(s) \ {r}) = Units(requests, R(s) \ {r})
          BY <3>5
        <5>3. Units(requests, R(s) \ {r}) \in Nat
          BY <3>4, Zenon
        <5> QED
          BY <1>1, <4>6, <5>1, <5>2, <5>3
      <4> QED
        BY <4>5, <4>6, Zenon
    <3>10. /\ balance[home].pending = Units(requests, R("pending"))
           /\ balance[home].used = Units(requests, R("approved"))
      BY <2>2, <2>4 DEF Reconciled, R
    <3>11. /\ balance[home] \in Balance
           /\ balance'[home] = Moved(balance[home], v, seen, n)
      BY <1>3, <2>1, <2>4 DEF TypeOK
    <3>12. /\ balance'[home].pending = Units(requests', S("pending"))
           /\ balance'[home].used = Units(requests', S("approved"))
      <4> DEFINE P == Units(requests, R("pending") \ {r})
                 A == Units(requests, R("approved") \ {r})
      <4>1. P \in Nat /\ A \in Nat
        BY <3>4
      <4>2. /\ balance[home].pending = P + (IF seen = "pending" THEN n ELSE 0)
            /\ balance[home].used = A + (IF seen = "approved" THEN n ELSE 0)
        BY <3>8, <3>10
      <4>3. /\ Units(requests', S("pending")) = P + (IF v = "pending" THEN n ELSE 0)
            /\ Units(requests', S("approved")) = A + (IF v = "approved" THEN n ELSE 0)
        BY <3>9
      <4> HIDE DEF P, A
      <4>4. CASE v = "approved"
        <5>1. /\ balance'[home].pending = balance[home].pending - n
              /\ balance'[home].used = balance[home].used + n
          BY <3>11, <4>4 DEF Moved, Balance
        <5> QED
          BY <1>1, <4>1, <4>2, <4>3, <4>4, <5>1
      <4>5. CASE v # "approved" /\ seen = "pending"
        <5>1. /\ balance'[home].pending = balance[home].pending - n
              /\ balance'[home].used = balance[home].used
          BY <3>11, <4>5 DEF Moved, Balance
        <5> QED
          BY <1>1, <4>1, <4>2, <4>3, <4>5, <5>1
      <4>6. CASE v # "approved" /\ seen = "approved"
        <5>1. /\ balance'[home].pending = balance[home].pending
              /\ balance'[home].used = balance[home].used - n
          BY <3>11, <4>6 DEF Moved, Balance
        <5> QED
          BY <1>1, <4>1, <4>2, <4>3, <4>6, <5>1
      <4> QED
        BY <1>1, <4>4, <4>5, <4>6 DEF Active
    <3> QED
      BY <2>4, <3>12 DEF Reconciled, S
  <2> QED
    BY <2>3, <2>4
<1> QED
  BY <1>7, <1>8, <1>9 DEF LedgerInv, BalanceAlgebra

LEMMA LedgerNext == LeaveAssumption /\ TypeOK /\ LedgerInv /\ [Next]_vars => LedgerInv'
<1> SUFFICES ASSUME LeaveAssumption, TypeOK, LedgerInv, [Next]_vars
             PROVE  LedgerInv'
  OBVIOUS
<1>1. CASE UNCHANGED <<balance, requests, applying, stale>>
  <2>1. \A a \in DOMAIN applying' : applying'[a].row => Key(applying'[a]) \in DOMAIN balance'
    BY <1>1 DEF LedgerInv
  <2> QED
    BY <1>1, <2>1, LedgerKept
<1>2. ASSUME NEW t \in Types,
             \/ \E c \in Configs : CreateType(t, c) \/ UpdateType(t, c)
             \/ RemoveType(t) \/ RestoreType(t)
      PROVE  LedgerInv'
  <2>1. UNCHANGED <<balance, requests, applying, stale>>
    BY <1>2 DEF CreateType, UpdateType, RemoveType, RestoreType
  <2> QED
    BY <1>1, <2>1
<1>3. ASSUME NEW d \in Deciders, NEW r \in RequestIds,
             \/ \E v \in {"approved", "rejected"} : DecideRead(d, r, v)
             \/ CancelRead(d, r)
      PROVE  LedgerInv'
  <2>1. UNCHANGED <<balance, requests, applying, stale>>
    BY <1>3 DEF DecideRead, CancelRead
  <2> QED
    BY <1>1, <2>1
<1>4. ASSUME NEW a \in Applicants,
             \/ \E e \in Employees, t \in Types, ask \in Asks, h \in HolidaySets :
                   ApplyReadType(a, e, t, ask, h)
             \/ ApplyCheckOverlap(a) \/ ApplyEnsureBalance(a) \/ ApplyCheckBalance(a)
             \/ \E r \in RequestIds : ApplyCreate(a, r)
      PROVE  LedgerInv'
  BY <1>4, LedgerApplyReads, LedgerApplyEnsure, LedgerApplyCreate
<1>5. ASSUME NEW d \in Deciders, DecideCommit(d) \/ CancelCommit(d)
      PROVE  LedgerInv'
  BY <1>5, LedgerCommit
<1>6. CASE UNCHANGED vars
  BY <1>1, <1>6 DEF vars
<1> QED
  BY <1>2, <1>3, <1>4, <1>5, <1>6, LedgerBalances DEF Next

(* However many handlers interleave, a balance row whose requests were all *)
(* reserved and never decided on an outdated status adds up.               *)
THEOREM BalanceAlgebraHolds == Spec => []BalanceAlgebra
<1>1. LedgerInv => BalanceAlgebra
  BY DEF LedgerInv
<1> QED
  BY <1>1, LeaveAssumption, TypeInit, TypeNext, LedgerInit, LedgerNext, PTL DEF Spec

-----------------------------------------------------------------------------
(* One decision in flight at a time.                                       *)

OneDecider == \E d : Deciders = {d}

(* What the only decision in flight read is still what the row says.       *)
FreshInv ==
    /\ stale = {}
    /\ \A d \in DOMAIN deciding : requests[deciding[d].req].status = deciding[d].seen

LEMMA FreshNext ==
    ASSUME TypeOK, FreshInv, OneDecider, [Next]_vars
    PROVE  FreshInv'
<1>1. CASE UNCHANGED <<requests, deciding, stale>>
  BY <1>1 DEF FreshInv
<1>2. ASSUME NEW a \in Applicants, NEW r \in RequestIds, ApplyCreate(a, r)
      PROVE  FreshInv'
  <2>1. /\ UNCHANGED <<deciding, stale>>
        /\ \A x \in DOMAIN requests : requests'[x] = requests[x]
    BY <1>2 DEF ApplyCreate, Put, Created
  <2> QED
    BY <2>1 DEF FreshInv, TypeOK, Created
<1>3. ASSUME NEW d \in Deciders, NEW r \in RequestIds,
             \/ \E v \in {"approved", "rejected"} : DecideRead(d, r, v)
             \/ CancelRead(d, r)
      PROVE  FreshInv'
  <2>1. PICK v : deciding' = Put(deciding, d, [req |-> r, verdict |-> v,
                                               seen |-> requests[r].status])
    BY <1>3 DEF DecideRead, CancelRead
  <2>2. UNCHANGED <<requests, stale>>
    BY <1>3 DEF DecideRead, CancelRead
  <2> QED
    BY <2>1, <2>2 DEF FreshInv, Put
<1>4. ASSUME NEW d \in Deciders, DecideCommit(d) \/ CancelCommit(d)
      PROVE  FreshInv'
  <2>1. d \in DOMAIN deciding /\ DOMAIN deciding' = DOMAIN deciding \ {d}
    BY <1>4 DEF DecideCommit, CancelCommit, Drop, Restrict
  <2>2. DOMAIN deciding' = {}
    BY <2>1 DEF OneDecider, TypeOK
  <2>3. stale' = {}
    BY <1>4, <2>1 DEF DecideCommit, CancelCommit, NoteStale, FreshInv
  <2> QED
    BY <2>2, <2>3 DEF FreshInv
<1>5. ASSUME \/ UNCHANGED vars
             \/ \E t \in Types, c \in Configs : CreateType(t, c) \/ UpdateType(t, c)
             \/ \E t \in Types : RemoveType(t) \/ RestoreType(t)
      PROVE  FreshInv'
  BY <1>1, <1>5 DEF vars, CreateType, UpdateType, RemoveType, RestoreType
<1>6. ASSUME \/ \E e \in Employees, y \in Years : ViewBalances(e, y)
             \/ \E k \in Keys, g \in Grants : AdjustBalance(k, g)
      PROVE  FreshInv'
  BY <1>1, <1>6 DEF ViewBalances, AdjustBalance
<1>7. ASSUME NEW a \in Applicants,
             \/ \E e \in Employees, t \in Types, ask \in Asks, h \in HolidaySets :
                   ApplyReadType(a, e, t, ask, h)
             \/ ApplyCheckOverlap(a) \/ ApplyEnsureBalance(a) \/ ApplyCheckBalance(a)
      PROVE  FreshInv'
  <2>1. UNCHANGED <<requests, deciding, stale>>
    BY <1>7 DEF ApplyReadType, ApplyCheckOverlap, ApplyEnsureBalance, ApplyCheckBalance
  <2> QED
    BY <2>1, <1>1
<1> QED
  BY <1>2, <1>3, <1>4, <1>5, <1>6, <1>7 DEF Next

(* If decisions and cancellations run one at a time, every balance row all *)
(* of whose requests were reserved adds up, whoever applies meanwhile.     *)
THEOREM LedgerHoldsWithOneDecider ==
    ASSUME OneDecider
    PROVE  Spec => []LedgerReconciles
<1>1. Init => FreshInv
  BY DEF Init, FreshInv
<1>2. TypeOK /\ FreshInv /\ [Next]_vars => FreshInv'
  BY FreshNext
<1>3. FreshInv /\ BalanceAlgebra => LedgerReconciles
  BY DEF FreshInv, BalanceAlgebra, LedgerReconciles, Sound
<1> QED
  BY <1>1, <1>2, <1>3, TypeCorrect, BalanceAlgebraHolds, PTL DEF Spec

-----------------------------------------------------------------------------
(* What the checks of an application are worth.                            *)

(* What the overlap check found still holds of the requests it saw, those  *)
(* a commit on an outdated status brought back apart.                      *)
StillFree(q) ==
    \A r \in q.seen \ stale :
        requests[r].emp = q.emp /\ requests[r].status \in Active
        => ~RangesOverlap(requests[r], q)

FreeWhenChecked ==
    \A a \in DOMAIN applying :
        /\ applying[a].seen \subseteq Created
        /\ applying[a].at # "overlap" => StillFree(applying[a])

ApartInv == NoOverlap /\ FreeWhenChecked

(* A new request finds the days free of all requests its check saw.        *)
LEMMA ApartCreate ==
    ASSUME TypeOK, ApartInv, NEW a \in Applicants, NEW n \in RequestIds,
           ApplyCreate(a, n)
    PROVE  ApartInv'
<1> DEFINE q == applying[a]
           made == [emp |-> q.emp, type |-> q.type, start |-> q.start, end |-> q.end,
                    units |-> q.units,
                    status |-> IF q.config.approval THEN "pending" ELSE "approved",
                    reserved |-> q.row]
<1>1. /\ a \in DOMAIN applying /\ n \notin Created /\ StillFree(q) /\ q.seen \subseteq Created
      /\ requests' = Put(requests, n, made)
      /\ applying' = Drop(applying, a)
      /\ stale' = stale
      /\ unseen' = unseen \union {<<n, s>> : s \in Created \ q.seen}
  BY DEF ApplyCreate, ApartInv, FreeWhenChecked
<1>2. made.emp = q.emp /\ made.start = q.start /\ made.end = q.end
  OBVIOUS
<1> HIDE DEF q, made
<1>3. /\ DOMAIN requests' = DOMAIN requests \union {n}
      /\ requests'[n] = made
      /\ \A r \in DOMAIN requests : requests'[r] = requests[r]
  BY <1>1 DEF Put, Created
<1>4. ASSUME NEW r \in Created \ stale, <<n, r>> \notin unseen',
             requests[r].emp = made.emp, requests[r].status \in Active
      PROVE  ~RangesOverlap(requests[r], made) /\ ~RangesOverlap(made, requests[r])
  <2>1. r \in q.seen \ stale
    BY <1>1, <1>4
  <2>2. ~RangesOverlap(requests[r], q)
    BY <1>1, <1>2, <1>4, <2>1 DEF StillFree
  <2> QED
    BY <1>2, <2>2 DEF RangesOverlap
<1>5. ASSUME NEW r \in Created' \ stale', NEW s \in Created' \ stale',
             r # s, <<r, s>> \notin unseen', <<s, r>> \notin unseen',
             requests'[r].emp = requests'[s].emp,
             requests'[r].status \in Active, requests'[s].status \in Active
      PROVE  ~RangesOverlap(requests'[r], requests'[s])
  <2>1. CASE r \in Created /\ s \in Created
    BY <1>1, <1>3, <1>5, <2>1 DEF ApartInv, NoOverlap, Created
  <2>2. CASE r = n /\ s \in Created
    BY <1>1, <1>3, <1>4, <1>5, <2>2 DEF Created
  <2>3. CASE s = n /\ r \in Created
    BY <1>1, <1>3, <1>4, <1>5, <2>3 DEF Created
  <2> QED
    BY <1>3, <1>5, <2>1, <2>2, <2>3 DEF Created
<1>6. NoOverlap'
  BY <1>5 DEF NoOverlap
<1>7. FreeWhenChecked'
  <2>1. \A b \in DOMAIN applying' : b \in DOMAIN applying /\ applying'[b] = applying[b]
    BY <1>1 DEF Drop, Restrict
  <2>2. ASSUME NEW b \in DOMAIN applying
        PROVE  /\ applying[b].seen \subseteq Created' /\ n \notin applying[b].seen
               /\ \A r \in applying[b].seen : requests'[r] = requests[r]
    BY <1>1, <1>3 DEF ApartInv, FreeWhenChecked, Created
  <2> QED
    BY <1>1, <2>1, <2>2 DEF ApartInv, FreeWhenChecked, StillFree
<1> QED
  BY <1>6, <1>7 DEF ApartInv

(* A commit makes a request active only where it notes it in stale.        *)
LEMMA ApartCommit ==
    ASSUME TypeOK, ApartInv, NEW d \in Deciders, DecideCommit(d) \/ CancelCommit(d)
    PROVE  ApartInv'
<1> DEFINE r == deciding[d].req
           v == deciding[d].verdict
<1>1. /\ d \in DOMAIN deciding /\ r \in DOMAIN requests /\ requests[r] \in Request
      /\ deciding[d].seen \in Active
      /\ requests' = [requests EXCEPT ![r].status = v]
      /\ stale' = IF requests[r].status = deciding[d].seen THEN stale ELSE stale \union {r}
      /\ applying' = applying /\ unseen' = unseen
  BY DEF DecideCommit, CancelCommit, NoteStale, TypeOK, Decision, Created
<1> HIDE DEF r, v
<1>2. /\ DOMAIN requests' = DOMAIN requests
      /\ \A x \in DOMAIN requests : /\ requests'[x].emp = requests[x].emp
                                    /\ requests'[x].start = requests[x].start
                                    /\ requests'[x].end = requests[x].end
      /\ \A x \in DOMAIN requests \ {r} : requests'[x].status = requests[x].status
  BY <1>1 DEF Request
<1>3. stale \subseteq stale' /\ (r \notin stale' => requests[r].status \in Active)
  BY <1>1
<1>4. \A x \in Created' \ stale' :
         /\ x \in Created \ stale
         /\ requests'[x].status \in Active => requests[x].status \in Active
  BY <1>2, <1>3 DEF Created
<1>5. \A x \in DOMAIN requests :
         /\ \A q : RangesOverlap(requests'[x], q) <=> RangesOverlap(requests[x], q)
         /\ \A y \in DOMAIN requests :
               RangesOverlap(requests'[x], requests'[y])
                 <=> RangesOverlap(requests[x], requests[y])
  BY <1>2 DEF RangesOverlap
<1>6. NoOverlap'
  BY <1>1, <1>2, <1>4, <1>5 DEF NoOverlap, ApartInv, Created
<1>7. FreeWhenChecked'
  <2>1. ASSUME NEW a \in DOMAIN applying, applying[a].at # "overlap",
               NEW x \in applying[a].seen \ stale', requests'[x].emp = applying[a].emp,
               requests'[x].status \in Active
        PROVE  ~RangesOverlap(requests'[x], applying[a])
    <3>1. StillFree(applying[a]) /\ applying[a].seen \subseteq Created
      BY <2>1 DEF ApartInv, FreeWhenChecked
    <3> QED
      BY <1>2, <1>4, <1>5, <2>1, <3>1 DEF StillFree, Created
  <2> QED
    BY <1>1, <1>2, <2>1 DEF FreeWhenChecked, StillFree, Created, ApartInv
<1> QED
  BY <1>6, <1>7 DEF ApartInv

(* The other steps of an application, and every step that touches neither. *)
LEMMA ApartElsewhere ==
    ASSUME TypeOK, ApartInv, UNCHANGED <<requests, stale, unseen>>,
           \/ UNCHANGED applying
           \/ \E a \in Applicants :
                 \/ \E e \in Employees, t \in Types, ask \in Asks, h \in HolidaySets :
                       ApplyReadType(a, e, t, ask, h)
                 \/ ApplyCheckOverlap(a) \/ ApplyEnsureBalance(a) \/ ApplyCheckBalance(a)
    PROVE  ApartInv'
<1>1. NoOverlap'
  BY DEF ApartInv, NoOverlap, Created
<1>0. ASSUME NEW b \in DOMAIN applying' PROVE applying'[b].seen \subseteq Created
  <2>1. ASSUME NEW a \in Applicants, NEW e \in Employees, NEW t \in Types, NEW ask \in Asks,
               NEW h \in HolidaySets, ApplyReadType(a, e, t, ask, h)
        PROVE  applying'[b].seen \subseteq Created
    <3>1. CASE b = a
      BY <2>1, <3>1 DEF ApplyReadType, Put
    <3>2. CASE b # a
      <4>1. b \in DOMAIN applying /\ applying'[b] = applying[b]
        BY <1>0, <2>1, <3>2 DEF ApplyReadType, Put
      <4> QED
        BY <4>1 DEF ApartInv, FreeWhenChecked
    <3> QED
      BY <3>1, <3>2
  <2>2. ASSUME NEW a \in Applicants,
               ApplyCheckOverlap(a) \/ ApplyEnsureBalance(a) \/ ApplyCheckBalance(a)
        PROVE  applying'[b].seen \subseteq Created
    <3>1. a \in DOMAIN applying /\ applying[a] \in Application
      BY <2>2 DEF ApplyCheckOverlap, ApplyEnsureBalance, ApplyCheckBalance, TypeOK
    <3>2. CASE applying' = Drop(applying, a)
      <4>1. b \in DOMAIN applying /\ applying'[b] = applying[b]
        BY <1>0, <3>2 DEF Drop, Restrict
      <4> QED
        BY <4>1 DEF ApartInv, FreeWhenChecked
    <3>3. CASE applying' # Drop(applying, a)
      <4>1. \/ applying' = [applying EXCEPT ![a].at = "ensure", ![a].seen = Created]
            \/ \E step, row : applying' = [applying EXCEPT ![a].at = step, ![a].row = row]
            \/ applying' = [applying EXCEPT ![a].at = "balance"]
        BY <2>2, <3>3 DEF ApplyCheckOverlap, ApplyEnsureBalance, ApplyCheckBalance
      <4>2. ASSUME NEW f, applying' = [applying EXCEPT ![a] = f],
                   f.seen = applying[a].seen \/ f.seen = Created
            PROVE  b \in DOMAIN applying /\ (applying'[b].seen = applying[b].seen \/ applying'[b].seen = Created)
        BY <1>0, <3>1, <4>2
      <4>3. CASE applying' = [applying EXCEPT ![a].at = "ensure", ![a].seen = Created]
        <5> DEFINE f == [applying[a] EXCEPT !.at = "ensure", !.seen = Created]
        <5>1. applying' = [applying EXCEPT ![a] = f] /\ f.seen = Created
          BY <3>1, <4>3 DEF Application
        <5> QED
          BY <4>2, <5>1 DEF ApartInv, FreeWhenChecked
      <4>4. CASE \E step, row : applying' = [applying EXCEPT ![a].at = step, ![a].row = row]
        <5>1. PICK step, row : applying' = [applying EXCEPT ![a].at = step, ![a].row = row]
          BY <4>4
        <5> DEFINE f == [applying[a] EXCEPT !.at = step, !.row = row]
        <5>2. applying' = [applying EXCEPT ![a] = f] /\ f.seen = applying[a].seen
          BY <3>1, <5>1 DEF Application
        <5> QED
          BY <4>2, <5>2 DEF ApartInv, FreeWhenChecked
      <4>5. CASE applying' = [applying EXCEPT ![a].at = "balance"]
        <5> DEFINE f == [applying[a] EXCEPT !.at = "balance"]
        <5>1. applying' = [applying EXCEPT ![a] = f] /\ f.seen = applying[a].seen
          BY <3>1, <4>5 DEF Application
        <5> QED
          BY <4>2, <5>1 DEF ApartInv, FreeWhenChecked
      <4> QED
        BY <4>1, <4>3, <4>4, <4>5
    <3> QED
      BY <3>2, <3>3
  <2>3. CASE UNCHANGED applying
    BY <1>0, <2>3 DEF ApartInv, FreeWhenChecked
  <2> QED
    BY <2>1, <2>2, <2>3
<1>2. ASSUME NEW b \in DOMAIN applying', applying'[b].at # "overlap"
      PROVE  /\ b \in DOMAIN applying
             /\ applying'[b].emp = applying[b].emp
             /\ applying'[b].start = applying[b].start
             /\ applying'[b].end = applying[b].end
             /\ \/ applying[b].at # "overlap" /\ applying'[b].seen = applying[b].seen
                \/ ~OverlapsActive(applying[b]) /\ applying'[b].seen = Created
  <2>1. CASE UNCHANGED applying
    BY <1>2, <2>1
  <2>2. ASSUME NEW a \in Applicants, NEW e \in Employees, NEW t \in Types, NEW ask \in Asks,
               NEW h \in HolidaySets, ApplyReadType(a, e, t, ask, h)
        PROVE  b \in DOMAIN applying /\ applying'[b] = applying[b]
    BY <1>2, <2>2 DEF ApplyReadType, Put
  <2>3. ASSUME NEW a \in Applicants, applying' = Drop(applying, a)
        PROVE  b \in DOMAIN applying /\ applying'[b] = applying[b]
    BY <1>2, <2>3 DEF Drop, Restrict
  <2>4. ASSUME NEW a \in Applicants, a \in DOMAIN applying, NEW step, NEW row,
               \/ applying' = [applying EXCEPT ![a].at = step]
               \/ applying' = [applying EXCEPT ![a].at = step, ![a].row = row]
        PROVE  /\ b \in DOMAIN applying
               /\ applying'[b].emp = applying[b].emp
               /\ applying'[b].start = applying[b].start
               /\ applying'[b].end = applying[b].end
               /\ b # a => applying'[b] = applying[b]
               /\ applying'[b].seen = applying[b].seen
    BY <1>2, <2>4 DEF TypeOK, Application
  <2>13. ASSUME NEW a \in Applicants, a \in DOMAIN applying,
                applying' = [applying EXCEPT ![a].at = "ensure", ![a].seen = Created]
         PROVE  /\ b \in DOMAIN applying
                /\ applying'[b].emp = applying[b].emp
                /\ applying'[b].start = applying[b].start
                /\ applying'[b].end = applying[b].end
                /\ applying'[b].seen = IF b = a THEN Created ELSE applying[b].seen
                /\ b # a => applying'[b] = applying[b]
    BY <1>2, <2>13 DEF TypeOK, Application
  <2>5. ASSUME NEW a \in Applicants, ApplyCheckOverlap(a)
        PROVE  \/ applying' = Drop(applying, a)
               \/ /\ applying' = [applying EXCEPT ![a].at = "ensure", ![a].seen = Created]
                  /\ ~OverlapsActive(applying[a])
    BY <2>5 DEF ApplyCheckOverlap
  <2>6. ASSUME NEW a \in Applicants, ApplyEnsureBalance(a)
        PROVE  /\ applying' = [applying EXCEPT ![a].at = "balance"]
               /\ applying[a].at # "overlap"
    BY <2>6 DEF ApplyEnsureBalance
  <2>7. ASSUME NEW a \in Applicants, ApplyCheckBalance(a)
        PROVE  \/ applying' = Drop(applying, a)
               \/ /\ applying' = [applying EXCEPT ![a].at = "create",
                                        ![a].row = Key(applying[a]) \in DOMAIN balance]
                  /\ applying[a].at # "overlap"
    BY <2>7 DEF ApplyCheckBalance
  <2>8. ASSUME NEW a \in Applicants,
               ApplyCheckOverlap(a) \/ ApplyEnsureBalance(a) \/ ApplyCheckBalance(a)
        PROVE  a \in DOMAIN applying
    BY <2>8 DEF ApplyCheckOverlap, ApplyEnsureBalance, ApplyCheckBalance
  <2>9. CASE \E a \in Applicants, e \in Employees, t \in Types, ask \in Asks, h \in HolidaySets :
                ApplyReadType(a, e, t, ask, h)
    BY <1>2, <2>2, <2>9
  <2>10. CASE \E a \in Applicants : ApplyCheckOverlap(a)
    BY <1>2, <2>3, <2>5, <2>8, <2>10, <2>13
  <2>11. CASE \E a \in Applicants : ApplyEnsureBalance(a)
    BY <1>2, <2>4, <2>6, <2>8, <2>11
  <2>12. CASE \E a \in Applicants : ApplyCheckBalance(a)
    <3>1. PICK a \in Applicants : ApplyCheckBalance(a)
      BY <2>12
    <3>2. CASE applying' = Drop(applying, a)
      BY <1>2, <2>3, <3>2
    <3>3. CASE applying' # Drop(applying, a)
      <4>1. PICK row : applying' = [applying EXCEPT ![a].at = "create", ![a].row = row]
        BY <2>7, <3>1, <3>3
      <4>2. a \in DOMAIN applying /\ applying[a].at # "overlap"
        BY <2>7, <2>8, <3>1, <3>3
      <4> QED
        BY <1>2, <2>4, <4>1, <4>2
    <3> QED
      BY <3>2, <3>3
  <2> QED
    BY <2>1, <2>9, <2>10, <2>11, <2>12
<1>3. ASSUME NEW b \in DOMAIN applying', applying'[b].at # "overlap",
             NEW x \in applying'[b].seen \ stale, requests[x].emp = applying'[b].emp,
             requests[x].status \in Active
      PROVE  ~RangesOverlap(requests[x], applying'[b])
  <2>1. ~RangesOverlap(requests[x], applying[b])
    BY <1>2, <1>3 DEF ApartInv, FreeWhenChecked, StillFree, OverlapsActive
  <2> QED
    BY <1>2, <1>3, <2>1 DEF RangesOverlap
<1>4. FreeWhenChecked'
  BY <1>0, <1>3 DEF FreeWhenChecked, StillFree, Created
<1> QED
  BY <1>1, <1>4 DEF ApartInv

LEMMA ApartNext ==
    ASSUME TypeOK, ApartInv, [Next]_vars
    PROVE  ApartInv'
<1>1. CASE UNCHANGED <<requests, stale, unseen, applying>>
  BY <1>1, ApartElsewhere
<1>2. ASSUME \/ UNCHANGED vars
             \/ \E t \in Types, c \in Configs : CreateType(t, c) \/ UpdateType(t, c)
             \/ \E t \in Types : RemoveType(t) \/ RestoreType(t)
      PROVE  ApartInv'
  BY <1>1, <1>2 DEF vars, CreateType, UpdateType, RemoveType, RestoreType
<1>3. ASSUME \/ \E e \in Employees, y \in Years : ViewBalances(e, y)
             \/ \E k \in Keys, g \in Grants : AdjustBalance(k, g)
      PROVE  ApartInv'
  BY <1>1, <1>3 DEF ViewBalances, AdjustBalance
<1>4. ASSUME NEW d \in Deciders, NEW r \in RequestIds,
             \/ \E v \in {"approved", "rejected"} : DecideRead(d, r, v)
             \/ CancelRead(d, r)
      PROVE  ApartInv'
  BY <1>1, <1>4 DEF DecideRead, CancelRead
<1>5. ASSUME NEW a \in Applicants,
             \/ \E e \in Employees, t \in Types, ask \in Asks, h \in HolidaySets :
                   ApplyReadType(a, e, t, ask, h)
             \/ ApplyCheckOverlap(a) \/ ApplyEnsureBalance(a) \/ ApplyCheckBalance(a)
      PROVE  ApartInv'
  <2>1. UNCHANGED <<requests, stale, unseen>>
    BY <1>5 DEF ApplyReadType, ApplyCheckOverlap, ApplyEnsureBalance, ApplyCheckBalance
  <2> QED
    BY <1>5, <2>1, ApartElsewhere
<1> QED
  BY <1>2, <1>3, <1>4, <1>5, ApartCreate, ApartCommit DEF Next

(* Whatever applications and decisions interleave, two pending or approved *)
(* requests of an employee share a day only if one was created between the *)
(* other's check and its insert, or if a commit on an outdated status      *)
(* brought one back.                                                       *)
THEOREM NoOverlapHolds == Spec => []NoOverlap
<1>1. Init => ApartInv
  BY DEF Init, ApartInv, NoOverlap, FreeWhenChecked, Created
<1>2. TypeOK /\ ApartInv /\ [Next]_vars => ApartInv'
  BY ApartNext
<1>3. ApartInv => NoOverlap
  BY DEF ApartInv
<1> QED
  BY <1>1, <1>2, <1>3, TypeCorrect, PTL DEF Spec

-----------------------------------------------------------------------------
(* Who moves a status, and from where.                                     *)

(* Rejected and cancelled are final unless a commit acts on an outdated    *)
(* status, which it then leaves in stale.                                  *)
THEOREM TerminalIsFinalHolds == Spec => TerminalIsFinal
<1> DEFINE Final ==
        \A r \in Created :
           r \notin stale' /\ requests'[r].status # requests[r].status
           => <<requests[r].status, requests'[r].status>> \in
                  {<<"pending", "approved">>, <<"pending", "rejected">>,
                   <<"pending", "cancelled">>, <<"approved", "cancelled">>}
<1>1. TypeOK /\ [Next]_vars => [Final]_vars
  <2> SUFFICES ASSUME TypeOK, Next PROVE Final
    BY Zenon
  <2>1. CASE \A r \in Created : requests'[r] = requests[r]
    BY <2>1
  <2>2. ASSUME NEW d \in Deciders, DecideCommit(d) \/ CancelCommit(d)
        PROVE  Final
    <3> DEFINE q == deciding[d].req
               v == deciding[d].verdict
    <3>1. /\ q \in DOMAIN requests /\ deciding[d].seen \in Active
          /\ v \in {"approved", "rejected", "cancelled"}
          /\ v # "cancelled" => deciding[d].seen = "pending"
          /\ requests' = [requests EXCEPT ![q].status = v]
          /\ stale' = IF requests[q].status = deciding[d].seen THEN stale ELSE stale \union {q}
      BY <2>2 DEF DecideCommit, CancelCommit, NoteStale, TypeOK, Decision, Created
    <3> HIDE DEF q, v
    <3>2. \A r \in DOMAIN requests : requests'[r] = IF r = q THEN [requests[r] EXCEPT !.status = v]
                                                             ELSE requests[r]
      BY <3>1
    <3>3. requests[q] \in Request
      BY <3>1 DEF TypeOK, Created
    <3>4. requests'[q].status = v
      BY <3>1, <3>2, <3>3 DEF Request
    <3>5. q \notin stale' => requests[q].status = deciding[d].seen
      BY <3>1
    <3> QED
      BY <3>1, <3>2, <3>4, <3>5 DEF Active, Created
  <2>3. ASSUME NEW a \in Applicants, NEW r \in RequestIds, ApplyCreate(a, r)
        PROVE  Final
    <3>1. \A x \in Created : requests'[x] = requests[x]
      BY <2>3 DEF ApplyCreate, Put, Created
    <3> QED
      BY <3>1
  <2>4. ASSUME UNCHANGED requests PROVE Final
    BY <2>1, <2>4
  <2>5. ASSUME \/ \E t \in Types, c \in Configs : CreateType(t, c) \/ UpdateType(t, c)
               \/ \E t \in Types : RemoveType(t) \/ RestoreType(t)
               \/ \E e \in Employees, y \in Years : ViewBalances(e, y)
               \/ \E k \in Keys, g \in Grants : AdjustBalance(k, g)
        PROVE  Final
    BY <2>4, <2>5 DEF CreateType, UpdateType, RemoveType, RestoreType, ViewBalances, AdjustBalance
  <2>6. ASSUME \/ \E a \in Applicants, e \in Employees, t \in Types, ask \in Asks,
                    h \in HolidaySets : ApplyReadType(a, e, t, ask, h)
               \/ \E a \in Applicants : \/ ApplyCheckOverlap(a)
                                        \/ ApplyEnsureBalance(a)
                                        \/ ApplyCheckBalance(a)
        PROVE  Final
    BY <2>4, <2>6 DEF ApplyReadType, ApplyCheckOverlap, ApplyEnsureBalance, ApplyCheckBalance
  <2>7. ASSUME \/ \E d \in Deciders, r \in RequestIds, v \in {"approved", "rejected"} :
                    DecideRead(d, r, v)
               \/ \E d \in Deciders, r \in RequestIds : CancelRead(d, r)
        PROVE  Final
    BY <2>4, <2>7 DEF DecideRead, CancelRead
  <2> QED
    BY <2>2, <2>3, <2>5, <2>6, <2>7 DEF Next
<1> QED
  BY <1>1, TypeCorrect, PTL DEF Spec, TerminalIsFinal

-----------------------------------------------------------------------------
(* What the balance check is worth.                                        *)

(* HR never lowers the total of a balance row.                             *)
TotalsKept == \A k \in DOMAIN balance : balance'[k].granted >= balance[k].granted

(* No update turns a type that is not counted into one that is.            *)
KindsKept ==
    \A t \in Types : types[t].state # "absent" =>
        (types'[t].config.accrual = "none" <=> types[t].config.accrual = "none")

(* An application is about a type that was created, and goes by the kind   *)
(* the type still is.                                                      *)
KnownType(q) ==
    /\ types[q.type].state # "absent"
    /\ q.config.accrual = "none" <=> types[q.type].config.accrual = "none"

(* A request charged to the same row was created since the overlap check.  *)
Overtaken(q) == \E s \in Created \ q.seen : Key(requests[s]) = Key(q)

(* What the balance check found still covers what is asked for.            *)
Covered(q) ==
    /\ q.seen \subseteq Created
    /\ q.at = "create" /\ q.row /\ q.config.accrual # "none"
       => /\ Key(q) \in DOMAIN balance
          /\ AvailableBalance(balance[Key(q)]) >= q.units \/ Overtaken(q)

(* The requests stay charged to the rows they are charged to.              *)
KeysKept ==
    /\ unseen' = unseen /\ Created' = Created
    /\ \A r \in Created : Key(requests'[r]) = Key(requests[r])

DraftInv ==
    /\ NoOverdraft
    /\ \A k \in DOMAIN balance : types[k[2]].state # "absent"
    /\ \A a \in DOMAIN applying : KnownType(applying[a]) /\ Covered(applying[a])

(* A step that takes nothing from any row.                                 *)
LEMMA DraftKept ==
    ASSUME TypeOK, TypeOK', DraftInv, KindsKept, KeysKept,
           \A t \in Types : types[t].state # "absent" => types'[t].state # "absent",
           DOMAIN balance \subseteq DOMAIN balance',
           \A k \in DOMAIN balance :
              AvailableBalance(balance'[k]) >= AvailableBalance(balance[k]),
           \A k \in DOMAIN balance' \ DOMAIN balance :
              AvailableBalance(balance'[k]) >= 0 /\ types'[k[2]].state # "absent",
           \A a \in DOMAIN applying' : KnownType(applying'[a]) /\ Covered(applying'[a])
    PROVE  DraftInv'
<1>1. \A k \in DOMAIN balance : /\ k[2] \in Types
                                /\ AvailableBalance(balance[k]) \in Int
                                /\ AvailableBalance(balance'[k]) \in Int
  BY DEF TypeOK, Keys, Balance, AvailableBalance
<1>2. \A a \in DOMAIN applying' : applying'[a].type \in Types /\ applying'[a].units \in Nat
  BY DEF TypeOK, Application
<1>0. ASSUME NEW k PROVE Raced(k)' <=> Raced(k)
  <2>1. \A pair \in unseen : pair[1] \in Created /\ pair[2] \in Created
    BY DEF TypeOK
  <2> QED
    BY <2>1 DEF Raced, KeysKept
<1>3. NoOverdraft'
  <2>1. ASSUME NEW k \in DOMAIN balance', types'[k[2]].config.accrual # "none", ~Raced(k)'
        PROVE  AvailableBalance(balance'[k]) >= 0
    <3>1. CASE k \in DOMAIN balance
      <4>1. types[k[2]].config.accrual # "none" /\ ~Raced(k)
        BY <1>0, <1>1, <2>1, <3>1 DEF DraftInv, KindsKept
      <4>2. AvailableBalance(balance[k]) >= 0
        BY <3>1, <4>1 DEF DraftInv, NoOverdraft
      <4>3. AvailableBalance(balance'[k]) >= AvailableBalance(balance[k])
        BY <3>1
      <4> QED
        BY <1>1, <3>1, <4>2, <4>3
    <3> QED
      BY <3>1
  <2> QED
    BY <2>1 DEF NoOverdraft, AvailableBalance
<1>4. \A k \in DOMAIN balance' : types'[k[2]].state # "absent"
  BY <1>1 DEF DraftInv
<1>5. \A a \in DOMAIN applying' :
         LET q == applying'[a] IN
         /\ types'[q.type].state # "absent"
         /\ q.config.accrual = "none" <=> types'[q.type].config.accrual = "none"
  BY <1>2 DEF KnownType, KindsKept
<1>6. ASSUME NEW a \in DOMAIN applying', applying'[a].at = "create", applying'[a].row,
             applying'[a].config.accrual # "none", ~Overtaken(applying'[a])
      PROVE  AvailableBalance(balance'[Key(applying'[a])]) >= applying'[a].units
  <2>1. /\ Key(applying'[a]) \in DOMAIN balance
        /\ AvailableBalance(balance[Key(applying'[a])]) >= applying'[a].units
    BY <1>6 DEF Covered
  <2>2. AvailableBalance(balance'[Key(applying'[a])])
          >= AvailableBalance(balance[Key(applying'[a])])
    BY <2>1
  <2> QED
    BY <1>1, <1>2, <2>1, <2>2
<1>7. ASSUME NEW a \in DOMAIN applying' PROVE KnownType(applying[a])' /\ Covered(applying[a])'
  <2> DEFINE q == applying'[a]
  <2>1. Covered(q) /\ q.seen \subseteq Created'
    BY <1>7 DEF Covered, KeysKept
  <2>2. Overtaken(q) => \E s \in Created' \ q.seen : Key(requests'[s]) = Key(q)
    BY DEF Overtaken, KeysKept
  <2>3. q.at = "create" /\ q.row /\ q.config.accrual # "none"
          => /\ Key(q) \in DOMAIN balance'
             /\ \/ AvailableBalance(balance'[Key(q)]) >= q.units
                \/ \E s \in Created' \ q.seen : Key(requests'[s]) = Key(q)
    BY <1>6, <2>1, <2>2 DEF Covered
  <2> QED
    BY <1>5, <2>1, <2>3 DEF KnownType, Covered, Overtaken, Key, AvailableBalance
<1> QED
  BY <1>3, <1>4, <1>7 DEF DraftInv

LEMMA DraftLeaveTypes ==
    ASSUME TypeOK, TypeOK', DraftInv, KindsKept, NEW t \in Types, NEW c \in Configs,
           CreateType(t, c) \/ UpdateType(t, c) \/ RemoveType(t) \/ RestoreType(t)
    PROVE  DraftInv'
<1>1. UNCHANGED <<balance, applying>> /\ KeysKept
  BY DEF CreateType, UpdateType, RemoveType, RestoreType, KeysKept, Created
<1>2. \A u \in Types : types[u].state # "absent" => types'[u].state # "absent"
  BY DEF CreateType, UpdateType, RemoveType, RestoreType, TypeOK, LeaveType
<1>3. \A k \in DOMAIN balance : AvailableBalance(balance[k]) \in Int
  BY DEF TypeOK, Balance, AvailableBalance
<1> QED
  BY <1>1, <1>2, <1>3, DraftKept DEF DraftInv

(* A row that is opened holds what the type grants.                        *)
LEMMA DraftOpened ==
    ASSUME LeaveAssumption, TypeOK, NEW e \in Employees, NEW y \in Years,
           EnsureBalancesForCycle(e, y), UNCHANGED types
    PROVE  /\ DOMAIN balance \subseteq DOMAIN balance'
           /\ \A k \in DOMAIN balance :
                 AvailableBalance(balance'[k]) >= AvailableBalance(balance[k])
           /\ \A k \in DOMAIN balance' \ DOMAIN balance :
                 AvailableBalance(balance'[k]) >= 0 /\ types'[k[2]].state # "absent"
<1>1. \A t \in Live : /\ OpeningBalance(t).granted \in Nat
                       /\ OpeningBalance(t).used = 0 /\ OpeningBalance(t).pending = 0
  BY DEF OpeningBalance, Live, TypeOK, LeaveType, Config, LeaveAssumption
<1>2. \A t \in Live : AvailableBalance(OpeningBalance(t)) >= 0
  BY <1>1 DEF AvailableBalance
<1>3. /\ DOMAIN balance' = DOMAIN balance \union ({e} \X Live \X {y})
      /\ \A k \in DOMAIN balance : balance'[k] = balance[k]
      /\ \A k \in DOMAIN balance' \ DOMAIN balance : balance'[k] = OpeningBalance(k[2])
  BY DEF EnsureBalancesForCycle
<1>4. \A k \in DOMAIN balance : AvailableBalance(balance[k]) \in Int
  BY DEF TypeOK, Balance, AvailableBalance
<1>5. \A k \in {e} \X Live \X {y} : k[2] \in Live
  OBVIOUS
<1>6. \A k \in DOMAIN balance' \ DOMAIN balance :
         AvailableBalance(balance'[k]) >= 0 /\ types'[k[2]].state # "absent"
  BY <1>2, <1>3, <1>5 DEF Live
<1>7. \A k \in DOMAIN balance :
         AvailableBalance(balance'[k]) >= AvailableBalance(balance[k])
  BY <1>3, <1>4
<1> QED
  BY <1>3, <1>6, <1>7

LEMMA DraftBalances ==
    ASSUME LeaveAssumption, TypeOK, TypeOK', DraftInv, TotalsKept,
           UNCHANGED <<types, applying, requests, unseen>>,
           \/ \E e \in Employees, y \in Years : EnsureBalancesForCycle(e, y)
           \/ \E k \in Keys, g \in Grants : AdjustBalance(k, g)
    PROVE  DraftInv'
<1>1. KindsKept /\ KeysKept
  BY DEF KindsKept, KeysKept, Created
<1>2. ASSUME NEW e \in Employees, NEW y \in Years, EnsureBalancesForCycle(e, y)
      PROVE  DraftInv'
  BY <1>1, <1>2, DraftOpened, DraftKept DEF DraftInv
<1>3. ASSUME NEW k \in Keys, NEW g \in Grants, AdjustBalance(k, g)
      PROVE  DraftInv'
  <2>1. DOMAIN balance' = DOMAIN balance
    BY <1>3 DEF AdjustBalance
  <2>2. ASSUME NEW j \in DOMAIN balance
        PROVE  AvailableBalance(balance'[j]) >= AvailableBalance(balance[j])
    <3>1. balance[j] \in Balance /\ balance'[j] \in Balance
      BY <2>1 DEF TypeOK
    <3>2. balance'[j].used = balance[j].used /\ balance'[j].pending = balance[j].pending
      BY <1>3, <3>1 DEF AdjustBalance, Balance
    <3>3. balance'[j].granted >= balance[j].granted
      BY DEF TotalsKept
    <3> QED
      BY <3>1, <3>2, <3>3 DEF Balance, AvailableBalance
  <2> QED
    BY <1>1, <2>1, <2>2, DraftKept DEF DraftInv
<1> QED
  BY <1>2, <1>3

(* A decision releases units or moves them from pending to used.           *)
LEMMA DraftCommit ==
    ASSUME TypeOK, TypeOK', DraftInv, NEW d \in Deciders, DecideCommit(d) \/ CancelCommit(d)
    PROVE  DraftInv'
<1> DEFINE r == deciding[d].req
           v == deciding[d].verdict
           seen == deciding[d].seen
           home == Key(requests[r])
           n == requests[r].units
<1>1. d \in DOMAIN deciding /\ r \in DOMAIN requests /\ n \in Nat
  BY DEF DecideCommit, CancelCommit, TypeOK, Request, Created
<1>2. balance' = IF home \in DOMAIN balance
                 THEN [balance EXCEPT ![home] = Moved(@, v, seen, n)] ELSE balance
  BY DEF DecideCommit, CancelCommit, MoveBalance
<1>3. UNCHANGED <<types, applying>>
  BY DEF DecideCommit, CancelCommit
<1> HIDE DEF r, v, seen, home, n
<1>4. ASSUME NEW b \in Balance
      PROVE  AvailableBalance(Moved(b, v, seen, n)) >= AvailableBalance(b)
  <2> DEFINE w == Moved(b, v, seen, n)
  <2>1. b.granted \in Int /\ b.used \in Int /\ b.pending \in Int
    BY DEF Balance
  <2>2. CASE v = "approved"
    <3>1. w.granted = b.granted /\ w.used = b.used + n /\ w.pending = b.pending - n
      BY <2>2 DEF Moved, Balance
    <3> QED
      BY <1>1, <2>1, <3>1 DEF AvailableBalance
  <2>3. CASE v # "approved" /\ seen = "pending"
    <3>1. w.granted = b.granted /\ w.used = b.used /\ w.pending = b.pending - n
      BY <2>3 DEF Moved, Balance
    <3> QED
      BY <1>1, <2>1, <3>1 DEF AvailableBalance
  <2>4. CASE v # "approved" /\ seen # "pending"
    <3>1. w.granted = b.granted /\ w.used = b.used - n /\ w.pending = b.pending
      BY <2>4 DEF Moved, Balance
    <3> QED
      BY <1>1, <2>1, <3>1 DEF AvailableBalance
  <2> QED
    BY <2>2, <2>3, <2>4
<1>5. \A k \in DOMAIN balance :
         AvailableBalance(balance'[k]) >= AvailableBalance(balance[k])
  <2>1. TAKE k \in DOMAIN balance
  <2>2. balance[k] \in Balance /\ AvailableBalance(balance[k]) \in Int
    BY DEF TypeOK, Balance, AvailableBalance
  <2>3. balance'[k] = balance[k] \/ balance'[k] = Moved(balance[k], v, seen, n)
    BY <1>2
  <2> QED
    BY <1>4, <2>2, <2>3
<1>6. KindsKept /\ DOMAIN balance' = DOMAIN balance
  BY <1>2, <1>3 DEF KindsKept
<1>7. KeysKept
  <2>1. requests' = [requests EXCEPT ![r].status = v] /\ unseen' = unseen
    BY DEF DecideCommit, CancelCommit, r, v
  <2>2. requests[r] \in Request
    BY <1>1 DEF TypeOK, Created
  <2> QED
    BY <1>1, <2>1, <2>2 DEF KeysKept, Key, Created, Request
<1> QED
  BY <1>3, <1>5, <1>6, <1>7, DraftKept DEF DraftInv

(* The steps of an application before it commits.                          *)
LEMMA DraftApplying ==
    ASSUME TypeOK, DraftInv, NEW a \in Applicants,
           \/ \E e \in Employees, t \in Types, ask \in Asks, h \in HolidaySets :
                 ApplyReadType(a, e, t, ask, h)
           \/ ApplyCheckOverlap(a) \/ ApplyEnsureBalance(a) \/ ApplyCheckBalance(a)
    PROVE  \A b \in DOMAIN applying' : KnownType(applying'[b]) /\ Covered(applying'[b])
<1> USE DEF DraftInv
<1>1. ASSUME NEW e \in Employees, NEW t \in Types, NEW ask \in Asks, NEW h \in HolidaySets,
             ApplyReadType(a, e, t, ask, h), NEW b \in DOMAIN applying'
      PROVE  KnownType(applying'[b]) /\ Covered(applying'[b])
  <2>1. CASE b = a
    BY <1>1, <2>1 DEF ApplyReadType, Put, KnownType, Covered
  <2>2. CASE b # a
    <3>1. b \in DOMAIN applying /\ applying'[b] = applying[b]
      BY <1>1, <2>2 DEF ApplyReadType, Put
    <3> QED
      BY <3>1
  <2> QED
    BY <2>1, <2>2
<1>2. ASSUME applying' = Drop(applying, a), NEW b \in DOMAIN applying'
      PROVE  KnownType(applying'[b]) /\ Covered(applying'[b])
  <2>1. b \in DOMAIN applying /\ applying'[b] = applying[b]
    BY <1>2 DEF Drop, Restrict
  <2> QED
    BY <2>1
<1>3. ASSUME a \in DOMAIN applying, NEW step \in {"ensure", "balance"},
             \/ applying' = [applying EXCEPT ![a].at = step]
             \/ applying' = [applying EXCEPT ![a].at = step, ![a].seen = Created],
             NEW b \in DOMAIN applying'
      PROVE  KnownType(applying'[b]) /\ Covered(applying'[b])
  <2>1. CASE b = a
    <3>1. applying[a] \in Application /\ KnownType(applying[a])
      BY <1>3 DEF TypeOK
    <3>2. /\ applying'[b].type = applying[a].type
          /\ applying'[b].config = applying[a].config
          /\ applying'[b].at = step
          /\ applying'[b].seen = applying[b].seen \/ applying'[b].seen = Created
      BY <1>3, <2>1, <3>1 DEF Application
    <3> QED
      BY <1>3, <2>1, <3>1, <3>2 DEF KnownType, Covered
  <2>2. CASE b # a
    <3>1. b \in DOMAIN applying /\ applying'[b] = applying[b]
      BY <1>3, <2>2
    <3> QED
      BY <3>1
  <2> QED
    BY <2>1, <2>2
<1>4. ASSUME ApplyCheckBalance(a), ~Insufficient(applying[a]), NEW b \in DOMAIN applying'
      PROVE  KnownType(applying'[b]) /\ Covered(applying'[b])
  <2>1. /\ a \in DOMAIN applying
        /\ applying' = [applying EXCEPT ![a].at = "create",
                                        ![a].row = Key(applying[a]) \in DOMAIN balance]
    BY <1>4 DEF ApplyCheckBalance
  <2>2. CASE b = a
    <3>1. applying[a] \in Application /\ KnownType(applying[a])
      BY <2>1 DEF TypeOK
    <3>2. /\ applying'[b].emp = applying[a].emp
          /\ applying'[b].type = applying[a].type
          /\ applying'[b].start = applying[a].start
          /\ applying'[b].units = applying[a].units
          /\ applying'[b].config = applying[a].config
          /\ applying'[b].seen = applying[a].seen
          /\ applying'[b].row <=> Key(applying[a]) \in DOMAIN balance
      BY <2>1, <2>2, <3>1 DEF Application
    <3>3. Key(applying'[b]) = Key(applying[a])
      BY <3>2 DEF Key
    <3>4. KnownType(applying'[b])
      BY <3>1, <3>2 DEF KnownType
    <3>5. ASSUME Key(applying[a]) \in DOMAIN balance, applying[a].config.accrual # "none"
          PROVE  AvailableBalance(balance[Key(applying[a])]) >= applying[a].units
      <4>1. ~(AvailableBalance(balance[Key(applying[a])]) < applying[a].units)
        BY <1>4, <3>5 DEF Insufficient
      <4>2. /\ AvailableBalance(balance[Key(applying[a])]) \in Int
            /\ applying[a].units \in Int
        BY <3>1, <3>5 DEF TypeOK, Balance, AvailableBalance, Application
      <4> QED
        BY <4>1, <4>2
    <3>6. Covered(applying'[b])
      BY <2>1, <3>2, <3>3, <3>5 DEF Covered
    <3> QED
      BY <3>4, <3>6
  <2>3. CASE b # a
    <3>1. b \in DOMAIN applying /\ applying'[b] = applying[b]
      BY <2>1, <2>3
    <3> QED
      BY <3>1
  <2> QED
    BY <2>2, <2>3
<1>5. CASE \E e \in Employees, t \in Types, ask \in Asks, h \in HolidaySets :
              ApplyReadType(a, e, t, ask, h)
  BY <1>1, <1>5
<1>6. CASE ApplyCheckOverlap(a)
  <2>1. /\ a \in DOMAIN applying
        /\ \/ applying' = Drop(applying, a)
           \/ applying' = [applying EXCEPT ![a].at = "ensure", ![a].seen = Created]
    BY <1>6 DEF ApplyCheckOverlap
  <2> QED
    BY <1>2, <1>3, <2>1
<1>7. CASE ApplyEnsureBalance(a)
  BY <1>3, <1>7 DEF ApplyEnsureBalance
<1>8. CASE ApplyCheckBalance(a)
  <2>1. Insufficient(applying[a]) => applying' = Drop(applying, a)
    BY <1>8 DEF ApplyCheckBalance
  <2> QED
    BY <1>2, <1>4, <1>8, <2>1
<1> QED
  BY <1>5, <1>6, <1>7, <1>8

LEMMA DraftApplyReads ==
    ASSUME LeaveAssumption, TypeOK, TypeOK', DraftInv, NEW a \in Applicants,
           \/ \E e \in Employees, t \in Types, ask \in Asks, h \in HolidaySets :
                 ApplyReadType(a, e, t, ask, h)
           \/ ApplyCheckOverlap(a) \/ ApplyEnsureBalance(a) \/ ApplyCheckBalance(a)
    PROVE  DraftInv'
<1>1. KindsKept /\ KeysKept /\ UNCHANGED types
  BY DEF ApplyReadType, ApplyCheckOverlap, ApplyEnsureBalance, ApplyCheckBalance, KindsKept, KeysKept, Created
<1>2. /\ DOMAIN balance \subseteq DOMAIN balance'
      /\ \A k \in DOMAIN balance :
            AvailableBalance(balance'[k]) >= AvailableBalance(balance[k])
      /\ \A k \in DOMAIN balance' \ DOMAIN balance :
            AvailableBalance(balance'[k]) >= 0 /\ types'[k[2]].state # "absent"
  <2>1. CASE UNCHANGED balance
    <3>1. \A k \in DOMAIN balance : AvailableBalance(balance[k]) \in Int
      BY DEF TypeOK, Balance, AvailableBalance
    <3> QED
      BY <2>1, <3>1
  <2>2. CASE ApplyEnsureBalance(a)
    <3>1. applying[a].emp \in Employees /\ Year[applying[a].start] \in Years
      BY <2>2 DEF ApplyEnsureBalance, TypeOK, Application, Years
    <3>2. EnsureBalancesForCycle(applying[a].emp, Year[applying[a].start])
      BY <2>2 DEF ApplyEnsureBalance
    <3> QED
      BY <1>1, <3>1, <3>2, DraftOpened
  <2> QED
    BY <2>1, <2>2 DEF ApplyReadType, ApplyCheckOverlap, ApplyCheckBalance
<1>3. \A b \in DOMAIN applying' : KnownType(applying'[b]) /\ Covered(applying'[b])
  BY DraftApplying
<1> QED
  BY <1>1, <1>2, <1>3, DraftKept

(* The commit takes what the check found, or some other took it before,    *)
(* and who waits for the same row has been overtaken now.                  *)
LEMMA DraftCreate ==
    ASSUME TypeOK, TypeOK', DraftInv, NEW a \in Applicants, NEW r \in RequestIds,
           ApplyCreate(a, r)
    PROVE  DraftInv'
<1> DEFINE q == applying[a]
           made == [emp |-> q.emp, type |-> q.type, start |-> q.start, end |-> q.end,
                    units |-> q.units,
                    status |-> IF q.config.approval THEN "pending" ELSE "approved",
                    reserved |-> q.row]
<1>1. /\ a \in DOMAIN applying /\ q.at = "create" /\ types' = types
      /\ r \notin Created /\ requests' = Put(requests, r, made)
      /\ applying' = Drop(applying, a)
      /\ unseen' = unseen \union {<<r, s>> : s \in Created \ q.seen}
      /\ \/ balance' = balance
         \/ q.row /\ balance' = [balance EXCEPT ![Key(q)].used = @ + q.units]
         \/ q.row /\ balance' = [balance EXCEPT ![Key(q)].pending = @ + q.units]
  BY DEF ApplyCreate
<1>2. /\ q.units \in Nat /\ KnownType(q) /\ Covered(q) /\ Key(q)[2] = q.type
  BY <1>1 DEF DraftInv, TypeOK, Application, Key
<1>3. Key(made) = Key(q)
  BY DEF Key
<1> HIDE DEF q, made
<1>4. /\ Created' = Created \union {r} /\ Key(requests'[r]) = Key(q)
      /\ \A s \in Created : requests'[s] = requests[s]
  BY <1>1, <1>3 DEF Put, Created
<1>5. DOMAIN balance' = DOMAIN balance
  BY <1>1
<1>6. ASSUME NEW k, Raced(k) PROVE Raced(k)'
  <2>1. \A pair \in unseen : pair[1] \in Created /\ pair[2] \in Created
    BY DEF TypeOK
  <2> QED
    BY <1>1, <1>4, <1>6, <2>1 DEF Raced, Key
<1>7. ASSUME Overtaken(q), NEW k, k = Key(q) PROVE Raced(k)'
  <2>1. PICK s \in Created \ q.seen : Key(requests[s]) = Key(q)
    BY <1>7 DEF Overtaken
  <2>2. <<r, s>> \in unseen' /\ Key(requests'[s]) = Key(q)
    BY <1>1, <1>4, <2>1
  <2>3. \E pair \in unseen' : Key(requests'[pair[1]]) = k /\ Key(requests'[pair[2]]) = k
    BY <1>4, <1>7, <2>2
  <2> QED
    BY <2>3 DEF Raced, Key
<1>8. ASSUME NEW k \in DOMAIN balance, types[k[2]].config.accrual # "none", ~Raced(k)'
      PROVE  AvailableBalance(balance'[k]) >= 0
  <2>1. balance[k] \in Balance /\ AvailableBalance(balance[k]) >= 0
    BY <1>6, <1>8 DEF DraftInv, NoOverdraft, TypeOK
  <2>2. CASE balance'[k] = balance[k]
    BY <2>1, <2>2
  <2>3. CASE /\ k = Key(q) /\ q.row
             /\ \/ balance'[k] = [balance[k] EXCEPT !.used = @ + q.units]
                \/ balance'[k] = [balance[k] EXCEPT !.pending = @ + q.units]
    <3>0. ~Overtaken(q)
      BY <1>7, <1>8, <2>3
    <3>1. AvailableBalance(balance[k]) >= q.units
      BY <1>1, <1>2, <1>8, <2>3, <3>0 DEF KnownType, Covered
    <3>2. /\ balance'[k].granted = balance[k].granted
          /\ \/ /\ balance'[k].used = balance[k].used + q.units
                /\ balance'[k].pending = balance[k].pending
             \/ /\ balance'[k].used = balance[k].used
                /\ balance'[k].pending = balance[k].pending + q.units
      BY <2>1, <2>3 DEF Balance
    <3> QED
      BY <1>2, <2>1, <3>1, <3>2 DEF Balance, AvailableBalance
  <2> QED
    BY <1>1, <2>2, <2>3
<1>9. NoOverdraft'
  BY <1>1, <1>5, <1>8 DEF NoOverdraft, AvailableBalance
<1>10. ASSUME NEW b \in DOMAIN applying' PROVE KnownType(applying[b])' /\ Covered(applying[b])'
  <2> DEFINE w == applying[b]
  <2>1. b \in DOMAIN applying /\ applying'[b] = w
    BY <1>1, <1>10 DEF Drop, Restrict
  <2>2. KnownType(w) /\ Covered(w)
    BY <2>1 DEF DraftInv
  <2> HIDE DEF w
  <2>3. Key(w) = <<w.emp, w.type, Year[w.start]>>
    BY DEF Key
  <2>4. /\ w.seen \subseteq Created' /\ r \notin w.seen
    BY <1>1, <1>4, <2>2 DEF Covered
  <2>5. ASSUME w.at = "create", w.row, w.config.accrual # "none"
        PROVE  /\ Key(w) \in DOMAIN balance'
               /\ \/ AvailableBalance(balance'[Key(w)]) >= w.units
                  \/ \E s \in Created' \ w.seen : Key(requests'[s]) = Key(w)
    <3>1. CASE Key(w) = Key(q)
      BY <1>4, <1>5, <2>2, <2>4, <2>5, <3>1 DEF Covered
    <3>2. CASE Key(w) # Key(q)
      <4>1. Key(w) \in DOMAIN balance /\ balance'[Key(w)] = balance[Key(w)]
        BY <1>1, <2>2, <2>5, <3>2 DEF Covered
      <4>2. Overtaken(w) => \E s \in Created' \ w.seen : Key(requests'[s]) = Key(w)
        BY <1>4 DEF Overtaken
      <4> QED
        BY <1>5, <2>2, <2>5, <4>1, <4>2 DEF Covered
    <3> QED
      BY <3>1, <3>2
  <2> QED
    BY <1>1, <2>1, <2>2, <2>4, <2>5 DEF KnownType, Covered, Overtaken, Key, AvailableBalance
<1> QED
  BY <1>1, <1>5, <1>9, <1>10 DEF DraftInv

LEMMA DraftNext ==
    ASSUME LeaveAssumption, TypeOK, TypeOK', DraftInv, [Next]_vars,
           [TotalsKept /\ KindsKept]_vars
    PROVE  DraftInv'
<1>1. ASSUME UNCHANGED <<types, balance, applying, requests, unseen>>
      PROVE  DraftInv'
  BY <1>1 DEF DraftInv, NoOverdraft, AvailableBalance, Raced, KnownType, Covered, Overtaken, Created, Key
<1>2. CASE UNCHANGED vars
  BY <1>1, <1>2 DEF vars
<1>3. CASE TotalsKept /\ KindsKept /\ Next
  <2>1. ASSUME NEW t \in Types, NEW c \in Configs,
               CreateType(t, c) \/ UpdateType(t, c) \/ RemoveType(t) \/ RestoreType(t)
        PROVE  DraftInv'
    BY <1>3, <2>1, DraftLeaveTypes
  <2>2. ASSUME NEW t \in Types, RemoveType(t) \/ RestoreType(t)
        PROVE  DraftInv'
    BY <1>3, <2>2, <2>1 DEF TypeOK, LeaveType
  <2>3. ASSUME \/ \E e \in Employees, y \in Years : ViewBalances(e, y)
               \/ \E k \in Keys, g \in Grants : AdjustBalance(k, g)
        PROVE  DraftInv'
    BY <1>3, <2>3, DraftBalances DEF ViewBalances, AdjustBalance
  <2>4. ASSUME NEW d \in Deciders, NEW r \in RequestIds,
               \/ \E v \in {"approved", "rejected"} : DecideRead(d, r, v)
               \/ CancelRead(d, r)
        PROVE  DraftInv'
    BY <1>1, <2>4 DEF DecideRead, CancelRead
  <2>5. ASSUME NEW d \in Deciders, DecideCommit(d) \/ CancelCommit(d)
        PROVE  DraftInv'
    BY <2>5, DraftCommit
  <2>6. ASSUME NEW a \in Applicants,
               \/ \E e \in Employees, t \in Types, ask \in Asks, h \in HolidaySets :
                     ApplyReadType(a, e, t, ask, h)
               \/ ApplyCheckOverlap(a) \/ ApplyEnsureBalance(a) \/ ApplyCheckBalance(a)
               \/ \E r \in RequestIds : ApplyCreate(a, r)
        PROVE  DraftInv'
    BY <2>6, DraftApplyReads, DraftCreate
  <2> QED
    BY <1>3, <2>1, <2>2, <2>3, <2>4, <2>5, <2>6 DEF Next
<1> QED
  BY <1>2, <1>3

(* If HR does not lower a total and no type in use begins to be counted,   *)
(* leave of an accruing type is never promised beyond what was granted but *)
(* where two requests charged to the row did not see each other, however   *)
(* many applications and decisions interleave.                             *)
THEOREM NoOverdraftHolds == Spec /\ [][TotalsKept /\ KindsKept]_vars => []NoOverdraft
<1>1. Init => DraftInv
  BY DEF Init, DraftInv, NoOverdraft
<1>2. LeaveAssumption /\ TypeOK /\ TypeOK' /\ DraftInv /\ [Next]_vars
        /\ [TotalsKept /\ KindsKept]_vars => DraftInv'
  BY DraftNext
<1>3. DraftInv => NoOverdraft
  BY DEF DraftInv
<1> QED
  BY <1>1, <1>2, <1>3, LeaveAssumption, TypeCorrect, PTL DEF Spec

=============================================================================
