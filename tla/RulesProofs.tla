----------------------------- MODULE RulesProofs -----------------------------
(***************************************************************************)
(* What the screens and seeds rest on, for every input and any bound: the  *)
(* pure rules of leave, readers, reach, time and dashboards compute what   *)
(* they promise, the pages offer what is accepted, and the seeds converge. *)
(***************************************************************************)
EXTENDS MCScreens, FiniteSetTheorems, SequenceTheorems, WellFoundedInduction, TLAPS

-----------------------------------------------------------------------------
(* Induction without a predicate parameter: over sets of numbers and over  *)
(* sets of finite sets.                                                    *)

LEMMA LeastSet ==
    ASSUME NEW S, NEW T, T \subseteq FiniteSubsetsOf(S), T # {}
    PROVE  \E x \in T : \A y \in T : y \subseteq x => y = x
<1> DEFINE R == StrictSubsetOrdering(S)
<1>1. IsWellFoundedOn(R, FiniteSubsetsOf(S))
  BY FS_StrictSubsetOrderingWellFounded
<1>2. \E x \in T : \A y \in T : <<y, x>> \notin R
  <2> HIDE DEF R
  <2> QED
    BY <1>1, WFMin
<1> QED
  BY <1>2 DEF StrictSubsetOrdering, FiniteSubsetsOf

LEMMA LeastNumber ==
    ASSUME NEW T \in SUBSET Nat, T # {}
    PROVE  \E n \in T : \A m \in T : n <= m
<1> DEFINE D == {1 .. n : n \in T}
<1>1. PICK x \in D : \A y \in D : y \subseteq x => y = x
  <2>1. D \subseteq FiniteSubsetsOf(Nat)
    BY FS_Interval DEF FiniteSubsetsOf
  <2>2. D # {}
    OBVIOUS
  <2> HIDE DEF D
  <2> QED
    BY <2>1, <2>2, LeastSet
<1>2. PICK n \in T : x = 1 .. n
  OBVIOUS
<1>3. ASSUME NEW m \in T, m < n PROVE FALSE
  <2>1. 1 .. m \subseteq 1 .. n /\ 1 .. m # 1 .. n
    BY <1>3
  <2> QED
    BY <2>1, <1>1, <1>2
<1> QED
  BY <1>3

LEMMA EveryNumber ==
    ASSUME NEW T, 0 \in T, \A n \in Nat : n \in T => n + 1 \in T
    PROVE  Nat \subseteq T
<1> SUFFICES ASSUME Nat \ T # {} PROVE FALSE
  OBVIOUS
<1>1. PICK n \in Nat \ T : \A m \in Nat \ T : n <= m
  BY LeastNumber
<1>2. n - 1 \in Nat /\ n - 1 \in T
  BY <1>1
<1> QED
  BY <1>2

LEMMA LeastSubset ==
    ASSUME NEW S, IsFiniteSet(S), NEW T \in SUBSET SUBSET S, T # {}
    PROVE  \E x \in T : \A y \in T : y \subseteq x => y = x
<1>1. T \subseteq FiniteSubsetsOf(S)
  BY FS_Subset DEF FiniteSubsetsOf
<1> QED
  BY <1>1, LeastSet

LEMMA EveryFiniteSet ==
    ASSUME NEW S, IsFiniteSet(S), NEW Good, {} \in Good,
           \A P \in SUBSET S, x \in S : P \in Good /\ x \notin P => P \union {x} \in Good
    PROVE  S \in Good
<1> DEFINE Missing == {P \in SUBSET S : P \notin Good}
<1>1. ASSUME Missing # {} PROVE FALSE
  <2>1. PICK P \in Missing : \A y \in Missing : y \subseteq P => y = P
    <3>1. Missing \in SUBSET SUBSET S
      OBVIOUS
    <3> HIDE DEF Missing
    <3> QED
      BY <1>1, <3>1, LeastSubset
  <2>2. PICK x \in P : TRUE
    BY <2>1
  <2>3. P \ {x} \in Good /\ (P \ {x}) \union {x} = P
    BY <2>1, <2>2
  <2> QED
    BY <2>2, <2>3, <2>1
<1> QED
  BY <1>1

-----------------------------------------------------------------------------
(* Tenants. *)

RowsOf(keys, orgs) == [key: keys, org: orgs, mark: BOOLEAN]

QueriesOf(models, keys, orgs) ==
    [model: models, op: Operations, where: [key: keys, org: orgs], data: [key: keys, org: orgs]]

Owned(table, org) == {entry \in table : entry.org = org}

LEMMA OwnMatches ==
    ASSUME NEW table, NEW where, NEW org, where.org = org, org # Unbound
    PROVE  /\ Matched(table, where) = Matched(Owned(table, org), where)
           /\ Matched(table, where) \subseteq Owned(table, org)
BY DEF Matched, Owned

LEMMA ReadsRewritten ==
    ASSUME NEW q, NEW org, Scoped(q, org), q.op \in Reads \union Mutates
    PROVE  AllOperations(q, org) = [q EXCEPT !.where = WithTenantWhere(@, org)]
BY DEF AllOperations, Reads, Mutates, Creates

LEMMA ReadsExecuted ==
    ASSUME NEW q, NEW table, q.op \in Reads
    PROVE  Execute(q, table) = [read |-> Matched(table, q.where), table |-> table]
BY DEF Execute, Reads, Mutates, Creates

Marked(entries) == {[entry EXCEPT !.mark = TRUE] : entry \in entries}

LEMMA UpdateExecuted ==
    ASSUME NEW q, NEW table, q.op = "updateMany"
    PROVE  LET found == Matched(table, q.where)
           IN  /\ Execute(q, table).read = {}
               /\ Execute(q, table).table = (table \ found) \union Marked(found)
BY DEF Execute, Reads, Creates, Marked

LEMMA UpsertExecuted ==
    ASSUME NEW q, NEW table, q.op = "upsert", Matched(table, q.where) # {}
    PROVE  LET found == Matched(table, q.where)
           IN  /\ Execute(q, table).read = found
               /\ Execute(q, table).table = (table \ found) \union Marked(found)
BY DEF Execute, Reads, Creates, Marked

LEMMA DeleteExecuted ==
    ASSUME NEW q, NEW table, q.op = "deleteMany"
    PROVE  /\ Execute(q, table).read = {}
           /\ Execute(q, table).table = table \ Matched(table, q.where)
BY DEF Execute, Reads, Creates

New(q) == [key |-> q.data.key, org |-> q.data.org, mark |-> TRUE]

Added(q, table) ==
    IF \E entry \in table : entry.key = q.data.key /\ entry.org = q.data.org THEN {} ELSE {New(q)}

LEMMA CreateExecuted ==
    ASSUME NEW q, NEW table, q.op \in Creates \/ (q.op = "upsert" /\ Matched(table, q.where) = {})
    PROVE  /\ Execute(q, table).read = Added(q, table)
           /\ Execute(q, table).table = table \union Added(q, table)
BY DEF Execute, Reads, Creates, Added, New

LEMMA OwnRewritten ==
    ASSUME NEW table, NEW org, NEW old \in SUBSET Owned(table, org), NEW new,
           \A entry \in new : entry.org = org
    PROVE  /\ Owned((table \ old) \union new, org) = (Owned(table, org) \ old) \union new
           /\ \A other : other # org =>
                Owned((table \ old) \union new, other) = Owned(table, other)
BY DEF Owned

LEMMA OwnMarked ==
    ASSUME NEW keys, NEW orgs, NEW table \in SUBSET RowsOf(keys, orgs), NEW org,
           NEW found \in SUBSET Owned(table, org)
    PROVE  \A entry \in Marked(found) : entry.org = org
BY DEF Owned, RowsOf, Marked

(* A query bound to an organisation reads and writes its rows only.        *)
LEMMA BoundQuery ==
    ASSUME NEW keys, NEW orgs, NEW table \in SUBSET RowsOf(keys, orgs), NEW r, NEW org,
           org # Unbound,
           r.op \in Reads \union Mutates \union Creates \union {"upsert"},
           r.op \notin Creates => r.where.org = org,
           r.op \in Creates \union {"upsert"} => r.data.org = org
    PROVE  /\ Execute(r, table).read = Execute(r, Owned(table, org)).read
           /\ Owned(Execute(r, table).table, org) = Execute(r, Owned(table, org)).table
           /\ \A other : other # org =>
                Owned(Execute(r, table).table, other) = Owned(table, other)
<1> DEFINE own   == Owned(table, org)
           found == Matched(table, r.where)
<1>1. own \in SUBSET RowsOf(keys, orgs)
  BY DEF Owned
<1>2. r.op \notin Creates => found = Matched(own, r.where) /\ found \in SUBSET own
  BY OwnMatches
<1>3. r.op \in Reads \/ r.op \in {"updateMany", "deleteMany"} \/ r.op \in Creates \/ r.op = "upsert"
  BY DEF Mutates
<1>4. CASE r.op \in Reads
  <2>1. r.op \notin Creates
    BY <1>4 DEF Reads, Creates
  <2> QED
    BY <1>2, <1>4, <2>1, ReadsExecuted
<1>5. CASE r.op = "updateMany" \/ (r.op = "upsert" /\ found # {})
  <2>1. found = Matched(own, r.where) /\ found \in SUBSET own
    BY <1>2, <1>5 DEF Creates
  <2>2. Execute(r, table).table = (table \ found) \union Marked(found)
    BY <1>5, UpdateExecuted, UpsertExecuted
  <2>3. Execute(r, own).table = (own \ found) \union Marked(found)
    BY <1>5, <2>1, UpdateExecuted, UpsertExecuted
  <2>4. Execute(r, table).read = Execute(r, own).read
    <3>1. r.op = "updateMany" => Execute(r, table).read = {} /\ Execute(r, own).read = {}
      BY UpdateExecuted
    <3>2. r.op = "upsert" => Execute(r, table).read = found /\ Execute(r, own).read = found
      BY <1>5, <2>1, UpsertExecuted
    <3> QED
      BY <1>5, <3>1, <3>2
  <2>5. \A entry \in Marked(found) : entry.org = org
    BY <2>1, OwnMarked
  <2> HIDE DEF found
  <2> QED
    BY <2>1, <2>2, <2>3, <2>4, <2>5 DEF Owned
<1>6. CASE r.op = "deleteMany"
  <2>1. found = Matched(own, r.where) /\ found \in SUBSET own
    BY <1>2, <1>6 DEF Creates
  <2>2. Execute(r, table).read = {} /\ Execute(r, table).table = table \ found
    BY <1>6, DeleteExecuted
  <2>3. Execute(r, own).read = {} /\ Execute(r, own).table = own \ found
    BY <1>6, <2>1, DeleteExecuted
  <2> HIDE DEF found
  <2> QED
    BY <2>1, <2>2, <2>3 DEF Owned
<1>7. CASE r.op \in Creates \/ (r.op = "upsert" /\ found = {})
  <2>1. r.data.org = org
    BY <1>7
  <2>2. Added(r, table) = Added(r, own) /\ \A entry \in Added(r, own) : entry.org = org
    BY <2>1 DEF Owned, Added, New
  <2>3. Execute(r, table).read = Added(r, table) /\ Execute(r, table).table = table \union Added(r, table)
    BY <1>7, CreateExecuted
  <2>4. r.op \in Creates \/ (r.op = "upsert" /\ Matched(own, r.where) = {})
    BY <1>2, <1>7 DEF Creates
  <2>5. Execute(r, own).read = Added(r, own) /\ Execute(r, own).table = own \union Added(r, own)
    BY <2>4, CreateExecuted
  <2> QED
    BY <2>2, <2>3, <2>5 DEF Owned
<1> QED
  BY <1>3, <1>4, <1>5, <1>6, <1>7

LEMMA Rewritten ==
    ASSUME NEW models, NEW keys, NEW orgs, NEW q \in QueriesOf(models, keys, orgs), NEW org,
           Scoped(q, org), q.data.org \in {Unbound, org}
    PROVE  /\ AllOperations(q, org).op = q.op
           /\ q.op \notin Creates => AllOperations(q, org).where.org = org
           /\ q.op \in Creates \union {"upsert"} => AllOperations(q, org).data.org = org
<1> DEFINE where == [q.where EXCEPT !.org = org]
           data  == WithTenantData(q.data, org)
<1>1. where.org = org
  BY DEF QueriesOf
<1>2. data.org = org
  BY DEF QueriesOf, WithTenantData
<1>3. AllOperations(q, org) = CASE q.op \in Reads \union Mutates -> [q EXCEPT !.where = where]
                                [] q.op \in Creates -> [q EXCEPT !.data = data]
                                [] q.op = "upsert"  -> [q EXCEPT !.where = where, !.data = data]
  BY DEF AllOperations, WithTenantWhere, QueriesOf, Operations, Reads, Mutates, Creates
<1> HIDE DEF where, data
<1> QED
  BY <1>1, <1>2, <1>3 DEF QueriesOf, Operations, Reads, Mutates, Creates

(* A query that the extension lets through reads and writes rows of the    *)
(* caller's organisation only, and there does what it would if there were  *)
(* no other: for any tables, keys and organisations.  The data of a write  *)
(* names no other organisation.                                            *)
THEOREM TenantIsolation ==
    ASSUME NEW models, NEW keys, NEW orgs, NEW table \in SUBSET RowsOf(keys, orgs),
           NEW q \in QueriesOf(models, keys, orgs), NEW org,
           Scoped(q, org), ~Violates(q, org), q.data.org \in {Unbound, org}
    PROVE  LET r     == AllOperations(q, org)
               after == Execute(r, table)
               alone == Execute(r, Owned(table, org))
           IN  /\ after.read = alone.read
               /\ Owned(after.table, org) = alone.table
               /\ \A other : other # org => Owned(after.table, other) = Owned(table, other)
<1> DEFINE r == AllOperations(q, org)
<1>1. /\ r.op = q.op
      /\ q.op \notin Creates => r.where.org = org
      /\ q.op \in Creates \union {"upsert"} => r.data.org = org
  BY Rewritten
<1>2. org # Unbound /\ q.op \in Reads \union Mutates \union Creates \union {"upsert"}
  BY DEF Scoped, QueriesOf, Operations
<1> HIDE DEF r
<1>3. /\ Execute(r, table).read = Execute(r, Owned(table, org)).read
      /\ Owned(Execute(r, table).table, org) = Execute(r, Owned(table, org)).table
      /\ \A other : other # org => Owned(Execute(r, table).table, other) = Owned(table, other)
  BY <1>1, <1>2, BoundQuery
<1> QED
  BY <1>3 DEF r

-----------------------------------------------------------------------------
(* Reporting: e reports to boss through a chain of k live employees.       *)

Through(e, boss, k, manager, live) ==
    \E chain \in [0 .. k -> DOMAIN manager] :
        /\ chain[0] = e /\ chain[k] = boss
        /\ \A i \in 0 .. k - 1 : chain[i] \in live /\ manager[chain[i]] = chain[i + 1]

(* Whoever reports to boss through at most d, and whom level d adds.       *)
Within(boss, d, manager, live) ==
    {boss} \union {e \in DOMAIN manager : \E k \in 1 .. d : Through(e, boss, k, manager, live)}

Level(boss, d, manager, live) ==
    IF d = 0 THEN {boss} ELSE Within(boss, d, manager, live) \ Within(boss, d - 1, manager, live)

LEMMA ThroughNone ==
    ASSUME NEW manager, NEW live, NEW e, NEW boss \in DOMAIN manager
    PROVE  Through(e, boss, 0, manager, live) <=> e = boss
<1>1. ASSUME e = boss PROVE Through(e, boss, 0, manager, live)
  <2> DEFINE chain == [i \in 0 .. 0 |-> boss]
  <2>1. chain \in [0 .. 0 -> DOMAIN manager] /\ chain[0] = e
    BY <1>1
  <2> HIDE DEF chain
  <2> QED
    BY <1>1, <2>1 DEF Through
<1> QED
  BY <1>1 DEF Through

LEMMA ThroughOneMore ==
    ASSUME NEW manager, NEW live \in SUBSET DOMAIN manager, NEW e, NEW boss, NEW k \in Nat
    PROVE  Through(e, boss, k + 1, manager, live) <=>
                e \in live /\ Through(manager[e], boss, k, manager, live)
<1>1. ASSUME Through(e, boss, k + 1, manager, live)
      PROVE  e \in live /\ Through(manager[e], boss, k, manager, live)
  <2>1. PICK chain \in [0 .. k + 1 -> DOMAIN manager] :
            /\ chain[0] = e /\ chain[k + 1] = boss
            /\ \A i \in 0 .. k + 1 - 1 : chain[i] \in live /\ manager[chain[i]] = chain[i + 1]
    BY <1>1 DEF Through
  <2> DEFINE rest == [i \in 0 .. k |-> chain[i + 1]]
  <2>2. rest \in [0 .. k -> DOMAIN manager]
    BY <2>1
  <2>3. e \in live /\ rest[0] = manager[e] /\ rest[k] = boss
    BY <2>1
  <2>4. ASSUME NEW i \in 0 .. k - 1
        PROVE  rest[i] \in live /\ manager[rest[i]] = rest[i + 1]
    <3>1. i + 1 \in 0 .. k + 1 - 1 /\ i \in 0 .. k
      OBVIOUS
    <3> QED
      BY <2>1, <3>1
  <2> HIDE DEF rest
  <2> QED
    BY <2>2, <2>3, <2>4 DEF Through
<1>2. ASSUME e \in live, Through(manager[e], boss, k, manager, live)
      PROVE  Through(e, boss, k + 1, manager, live)
  <2>1. PICK chain \in [0 .. k -> DOMAIN manager] :
            /\ chain[0] = manager[e] /\ chain[k] = boss
            /\ \A i \in 0 .. k - 1 : chain[i] \in live /\ manager[chain[i]] = chain[i + 1]
    BY <1>2 DEF Through
  <2> DEFINE longer == [i \in 0 .. k + 1 |-> IF i = 0 THEN e ELSE chain[i - 1]]
  <2>2. longer \in [0 .. k + 1 -> DOMAIN manager]
    BY <1>2, <2>1
  <2>3. longer[0] = e /\ longer[k + 1] = boss
    BY <2>1
  <2>4. ASSUME NEW i \in 0 .. k + 1 - 1
        PROVE  longer[i] \in live /\ manager[longer[i]] = longer[i + 1]
    <3>1. CASE i = 0
      BY <1>2, <2>1, <3>1
    <3>2. CASE i # 0
      <4>1. i - 1 \in 0 .. k - 1 /\ i \in 0 .. k + 1 /\ i + 1 \in 0 .. k + 1
        BY <3>2
      <4> QED
        BY <2>1, <3>2, <4>1
    <3> QED
      BY <3>1, <3>2
  <2> HIDE DEF longer
  <2> QED
    BY <2>2, <2>3, <2>4 DEF Through
<1> QED
  BY <1>1, <1>2

(* What a level adds to those before it is what the walk finds.            *)
LEMMA LevelFound ==
    ASSUME NEW manager, NEW live \in SUBSET DOMAIN manager, NEW boss \in DOMAIN manager, NEW d \in Nat
    PROVE  LET all == Within(boss, d, manager, live)
               new == {e \in live : manager[e] \in Level(boss, d, manager, live)} \ all
           IN  /\ Within(boss, d + 1, manager, live) = all \union new
               /\ Level(boss, d + 1, manager, live) = new
<1> DEFINE R(e, k) == Through(e, boss, k, manager, live)
           all  == Within(boss, d, manager, live)
           more == Within(boss, d + 1, manager, live)
           new  == {e \in live : manager[e] \in Level(boss, d, manager, live)} \ all
<1>1. all \subseteq more
  BY DEF Within
<1>2. ASSUME NEW e \in more \ all PROVE e \in new
  <2>1. e \in DOMAIN manager /\ R(e, d + 1)
    BY DEF Within
  <2>2. e \in live /\ R(manager[e], d)
    BY <2>1, ThroughOneMore
  <2>3. CASE d = 0
    BY <2>2, <2>3, ThroughNone DEF Level
  <2>4. CASE d # 0
    <3>1. manager[e] \in DOMAIN manager
      <4>1. PICK chain \in [0 .. d -> DOMAIN manager] : chain[0] = manager[e]
        BY <2>2 DEF Through
      <4> QED
        BY <4>1
    <3>2. manager[e] \in all
      BY <2>2, <2>4, <3>1 DEF Within
    <3>3. ASSUME manager[e] \in Within(boss, d - 1, manager, live) PROVE FALSE
      <4>1. PICK k \in 0 .. d - 1 : R(manager[e], k)
        BY <3>3, <2>4, ThroughNone DEF Within
      <4>2. R(e, k + 1) /\ k + 1 \in 1 .. d
        BY <2>2, <4>1, ThroughOneMore
      <4> QED
        BY <2>1, <4>2 DEF Within
    <3> QED
      BY <2>2, <2>4, <3>2, <3>3 DEF Level
  <2> QED
    BY <2>3, <2>4
<1>3. ASSUME NEW e \in new PROVE e \in more
  <2>1. e \in live /\ manager[e] \in all
    BY DEF Level, Within
  <2>2. PICK k \in 0 .. d : R(manager[e], k)
    BY <2>1, ThroughNone DEF Within
  <2>3. R(e, k + 1) /\ k + 1 \in 1 .. d + 1
    BY <2>1, <2>2, ThroughOneMore
  <2> QED
    BY <2>1, <2>3 DEF Within
<1>4. more = all \union new
  BY <1>1, <1>2, <1>3
<1>5. Level(boss, d + 1, manager, live) = more \ all
  BY DEF Level
<1> QED
  BY <1>4, <1>5

(* The walk of teamEmployeeIds finds the manager and whoever reports to    *)
(* them through at most MaxDepth live employees, and nobody else: for any  *)
(* staff and reporting lines, cycles included.                             *)
THEOREM TeamWithinDepth ==
    ASSUME NEW manager, NEW live \in SUBSET DOMAIN manager, NEW boss \in DOMAIN manager
    PROVE  TeamEmployeeIds(boss, manager, live) = Within(boss, MaxDepth, manager, live)
<1> DEFINE Next1(last) ==
             LET new == {e \in live : manager[e] \in last.frontier} \ last.all
             IN  [all |-> last.all \union new, frontier |-> new]
           IsWalk(w) == w = [depth \in 0 .. MaxDepth |->
                               IF depth = 0 THEN [all |-> {boss}, frontier |-> {boss}]
                                            ELSE Next1(w[depth - 1])]
           At(d) == [all |-> Within(boss, d, manager, live), frontier |-> Level(boss, d, manager, live)]
           levels == [depth \in 0 .. MaxDepth |-> At(depth)]
           walk   == CHOOSE w : IsWalk(w)
<1>1. MaxDepth \in Nat
  BY ReachAssumption
<1>2. TeamEmployeeIds(boss, manager, live) = walk[MaxDepth].all
  BY Zenon DEF TeamEmployeeIds
<1>3. At(0) = [all |-> {boss}, frontier |-> {boss}]
  BY DEF Within, Level
<1>4. ASSUME NEW d \in Nat PROVE At(d + 1) = Next1(At(d))
  <2> DEFINE all == Within(boss, d, manager, live)
             new == {e \in live : manager[e] \in Level(boss, d, manager, live)} \ all
  <2>1. Within(boss, d + 1, manager, live) = all \union new /\ Level(boss, d + 1, manager, live) = new
    BY LevelFound
  <2>2. Next1(At(d)) = [all |-> all \union new, frontier |-> new]
    OBVIOUS
  <2> HIDE DEF all, new, Next1
  <2> QED
    BY <2>1, <2>2
<1>5. \A d \in Nat : At(d).all = Within(boss, d, manager, live)
  OBVIOUS
<1> HIDE DEF Next1, At
<1>6. IsWalk(levels)
  <2>1. ASSUME NEW d \in 0 .. MaxDepth, d # 0 PROVE levels[d] = Next1(levels[d - 1])
    <3>1. d - 1 \in 0 .. MaxDepth /\ d - 1 \in Nat /\ d - 1 + 1 = d
      BY <1>1, <2>1
    <3> QED
      BY <1>4, <3>1
  <2> QED
    BY <1>3, <2>1
<1>7. IsWalk(walk)
  <2> HIDE DEF IsWalk, levels
  <2> QED
    BY <1>6
<1> HIDE DEF walk, levels
<1>8. \A d \in 0 .. MaxDepth : d # 0 => walk[d] = Next1(walk[d - 1])
  BY <1>7
<1> DEFINE Found == {d \in Nat : d <= MaxDepth => walk[d] = At(d)}
<1>9. Nat \subseteq Found
  <2>1. 0 \in Found
    BY <1>1, <1>3, <1>7
  <2>2. ASSUME NEW d \in Nat, d \in Found PROVE d + 1 \in Found
    <3>1. ASSUME d + 1 <= MaxDepth PROVE walk[d + 1] = At(d + 1)
      <4>1. d + 1 \in 0 .. MaxDepth /\ d + 1 # 0 /\ d + 1 - 1 = d /\ walk[d] = At(d)
        BY <1>1, <2>2, <3>1
      <4>2. walk[d + 1] = Next1(walk[d])
        BY <1>8, <4>1
      <4> QED
        BY <1>4, <4>1, <4>2
    <3> QED
      BY <3>1
  <2> HIDE DEF Found
  <2> QED
    BY <2>1, <2>2, EveryNumber
<1>10. walk[MaxDepth] = At(MaxDepth)
  BY <1>1, <1>9
<1> QED
  BY <1>1, <1>2, <1>5, <1>10

-----------------------------------------------------------------------------
(* Grants. *)

LEMMA ScopeHeld ==
    ASSUME NEW grants \in SUBSET {"team", "global", Nobody}, ~(grants \subseteq {Nobody})
    PROVE  ScopeFor(grants) = IF "global" \in grants \ {Nobody} THEN "global" ELSE "team"
<1> DEFINE held == grants \ {Nobody}
           Highest(s) == s \in held /\ \A other \in held : Rank[s] >= Rank[other]
<1>1. held # {} /\ held \subseteq {"team", "global"}
  OBVIOUS
<1>2. Rank["team"] = 2 /\ Rank["global"] = 3
  BY DEF Rank
<1>3. ScopeFor(grants) = CHOOSE s \in held : \A other \in held : Rank[s] >= Rank[other]
  BY <1>1 DEF ScopeFor
<1>4. CASE "global" \in held
  <2>1. \A s : Highest(s) <=> s = "global"
    BY <1>1, <1>2, <1>4
  <2> QED
    BY <1>3, <1>4, <2>1
<1>5. CASE "global" \notin held
  <2>1. held = {"team"}
    BY <1>1, <1>5
  <2>2. \A s : Highest(s) <=> s = "team"
    BY <1>2, <2>1
  <2> QED
    BY <1>3, <1>5, <2>2
<1> QED
  BY <1>4, <1>5

(* One more role never hides an employee nor takes one out of reach, and   *)
(* what a list shows is what may be acted on: for any staff, reporting     *)
(* lines and caller, an employee or not, of the scopes roles grant         *)
(* (scopeFor, teamFilterFor, canActOnEmployee).                            *)
THEOREM GrantsOnlyWiden ==
    ASSUME NEW manager, NEW live \in SUBSET DOMAIN manager, NEW me,
           NEW more \in SUBSET {"team", "global", Nobody}, NEW fewer \in SUBSET more
    PROVE  /\ Lists(me, more, manager, live) = ActsOn(me, more, manager, live)
           /\ Lists(me, fewer, manager, live) \subseteq Lists(me, more, manager, live)
<1> DEFINE Team == IF me \in live THEN TeamEmployeeIds(me, manager, live) ELSE {}
           Seen(grants) == CASE grants \subseteq {Nobody} -> {}
                             [] "global" \in grants \ {Nobody} -> DOMAIN manager
                             [] OTHER -> Team
<1>1. Team \subseteq DOMAIN manager
  BY TeamWithinDepth DEF Within
<1>2. ASSUME NEW grants \in SUBSET {"team", "global", Nobody}
      PROVE  /\ Lists(me, grants, manager, live) = Seen(grants)
             /\ ActsOn(me, grants, manager, live) = Seen(grants)
  <2>1. CASE grants \subseteq {Nobody}
    BY <2>1 DEF Lists, ActsOn
  <2>2. CASE ~(grants \subseteq {Nobody}) /\ "global" \in grants \ {Nobody}
    BY <2>2, ScopeHeld DEF Lists, ActsOn, TeamFilterFor, CanActOnEmployee
  <2>3. CASE ~(grants \subseteq {Nobody}) /\ "global" \notin grants \ {Nobody}
    <3>1. Seen(grants) = Team
      BY <2>3
    <3>2. ScopeFor(grants) = "team"
      BY <2>3, ScopeHeld
    <3> QED
      BY <1>1, <2>3, <3>1, <3>2 DEF Lists, ActsOn, TeamFilterFor, CanActOnEmployee
  <2> QED
    BY <2>1, <2>2, <2>3
<1>3. Seen(fewer) \subseteq Seen(more)
  BY <1>1
<1> QED
  BY <1>2, <1>3

-----------------------------------------------------------------------------
(* What the run asks stays as it was asked. *)

QuestionKept == NoQuestion \/ RulesInit

LEMMA QuestionStays == SpecApart => []QuestionKept
<1>1. AtRest => QuestionKept
  BY DEF AtRest, ScreensAtRest, QuestionKept
<1>2. QuestionKept /\ [NextApart]_varsApart => QuestionKept'
  <2>1. [NextApart]_varsApart => UNCHANGED questionVars
    BY DEF NextApart, varsApart
  <2> QED
    BY <2>1 DEF QuestionKept, NoQuestion, RulesInit, questionVars
<1> QED
  BY <1>1, <1>2, PTL DEF SpecApart

LEMMA QuestionOf ==
    ASSUME QuestionKept
    PROVE  /\ rule = "reporting" => asked \in ReportingAsked
           /\ rule = "query" => asked \in QueryAsked
           /\ rule = "readers" => asked \in ReadersAsked
           /\ rule = "units" => asked \in UnitsAsked
           /\ rule = "clock" => asked \in ClockAsked
           /\ rule = "day" => asked \in DayAsked
           /\ rule = "offers" => asked \in OffersAsked
           /\ rule = "staff" => asked \in StaffAsked
           /\ rule = "records" => asked \in RecordsAsked
           /\ rule = "requests" => asked \in RequestsAsked
BY DEF QuestionKept, NoQuestion, RulesInit

LEMMA TeamHolds == QuestionKept => TeamIsReach
<1> SUFFICES ASSUME QuestionKept, rule = "reporting" PROVE TeamIsReach
  BY DEF TeamIsReach
<1>1. /\ DOMAIN asked.manager = Employees /\ asked.live \in SUBSET Employees
      /\ asked.me \in Employees
  BY QuestionOf DEF ReportingAsked, Employees
<1>2. \A e, k : ReportsThrough(e, asked.me, k) <=> Through(e, asked.me, k, asked.manager, asked.live)
  BY <1>1 DEF ReportsThrough, Through
<1>3. TeamEmployeeIds(asked.me, asked.manager, asked.live) = Within(asked.me, MaxDepth, asked.manager, asked.live)
  BY <1>1, TeamWithinDepth
<1> QED
  BY <1>1, <1>2, <1>3 DEF TeamIsReach, Within

LEMMA GrantsHold == QuestionKept => GrantsWiden
<1> SUFFICES ASSUME QuestionKept, rule = "reporting" PROVE GrantsWiden
  BY DEF GrantsWiden
<1>1. asked.live \in SUBSET DOMAIN asked.manager
  BY QuestionOf DEF ReportingAsked, Employees
<1> QED
  BY <1>1, GrantsOnlyWiden DEF GrantsWiden, Grants

LEMMA TenantsHold == QuestionKept => TenantsApart
<1> SUFFICES ASSUME QuestionKept, rule = "query",
                    ~Violates(asked.query, ContextOf([organization |-> "ours"]))
             PROVE  TenantsApart
  BY DEF TenantsApart
<1> DEFINE models == {"Employee"}
           keys   == {"k", "j", Unbound}
           orgs   == {"ours", "theirs", Unbound}
           table  == asked.table
           q      == asked.query
           org    == "ours"
           r      == AllOperations(q, org)
           after  == Execute(r, table)
           alone  == Execute(r, Owned(table, org))
<1>1. ContextOf([organization |-> "ours"]) = org
  BY UnboundAssumption DEF ContextOf
<1>2. asked \in QueryAsked
  BY QuestionOf
<1>3. table \in SUBSET RowsOf(keys, orgs)
  <2>1. table \in SUBSET TableRows /\ TableRows \subseteq RowsOf(keys, orgs)
    BY <1>2 DEF QueryAsked, TableRows, RowsOf
  <2> QED
    BY <2>1
<1>4. q \in QueriesOf(models, keys, orgs) /\ q.data.org \in {Unbound, org} /\ q.model = "Employee"
  BY <1>2 DEF QueryAsked, QueriesOf
<1>5. Scoped(q, org) /\ ~Violates(q, org) /\ org \in orgs /\ "theirs" # org
  BY <1>1, <1>4, UnboundAssumption DEF Scoped
<1>6. /\ after.read = alone.read
      /\ Owned(after.table, org) = alone.table
      /\ \A other : other # org => Owned(after.table, other) = Owned(table, other)
  <2> HIDE DEF models, keys, orgs, table, q, org
  <2>1. table \in SUBSET RowsOf(keys, orgs)
    BY <1>3
  <2>2. q \in QueriesOf(models, keys, orgs)
    BY <1>4
  <2>3. org \in orgs
    BY <1>5
  <2>4. Scoped(q, org) /\ ~Violates(q, org) /\ q.data.org \in {Unbound, org}
    BY <1>4, <1>5
  <2>5. after.read = alone.read
    BY <2>1, <2>2, <2>3, <2>4, TenantIsolation
  <2>6. Owned(after.table, org) = alone.table
    BY <2>1, <2>2, <2>3, <2>4, TenantIsolation
  <2>7. ASSUME NEW other, other # org
        PROVE  Owned(after.table, other) = Owned(table, other)
    BY <2>7, <2>1, <2>2, <2>3, <2>4, TenantIsolation
  <2> QED
    BY <2>5, <2>6, <2>7
<1> QED
  BY <1>1, <1>5, <1>6 DEF TenantsApart, Owned

(* Whom a caller sees and decides on is theirs alone, whatever depth the   *)
(* walk of reporting lines is given.                                       *)
THEOREM SoundReach == SpecApart => []ReachIsSound
<1>1. QuestionKept => ReachIsSound
  BY TeamHolds, GrantsHold, TenantsHold DEF ReachIsSound
<1> QED
  BY <1>1, QuestionStays, PTL

-----------------------------------------------------------------------------
(* Readers. *)

RulesOf(names) == [kind: Traits, value: names] \union {All}

(* A rule reaches an employee when the feed of that employee knows it.     *)
LEMMA RuleReaches ==
    ASSUME NEW people, NEW names, NEW rules \in SUBSET RulesOf(names), NEW e \in Active(people)
    PROVE  e \in ResolveEmployeeIds(rules, people) <=> rules \intersect RulesNaming(people[e]) # {}
<1> DEFINE By(kind) == [kind |-> kind, value |-> people[e][kind]]
<1>1. ASSUME NEW kind \in Traits
      PROVE  people[e][kind] \in Named(rules, kind) <=> By(kind) \in rules /\ people[e][kind] # None
  <2>1. ASSUME NEW r \in rules, r.kind = kind, r.value = people[e][kind] PROVE r = By(kind)
    <3>1. r # All
      BY <2>1 DEF All, Traits
    <3> QED
      BY <2>1, <3>1 DEF RulesOf
  <2> QED
    BY <2>1 DEF Named
<1>2. rules \intersect RulesNaming(people[e]) # {} <=>
        All \in rules \/ \E kind \in Traits : By(kind) \in rules /\ people[e][kind] # None
  BY DEF RulesNaming
<1> QED
  BY <1>1, <1>2 DEF ResolveEmployeeIds

(* Of any people and any published document with any rules: whom the        *)
(* audience resolver turns up are the employees whose own list shows it    *)
(* and whose download of it is let through, and so for the feed of         *)
(* announcements; of those rules name none is offboarded.                  *)
THEOREM ReadersAreOne ==
    ASSUME NEW people, NEW names, NEW doc, doc.rules \in SUBSET RulesOf(names),
           None \notin DOMAIN people, Out(doc)
    PROVE  /\ ResolveEmployeeIds(doc.rules, people) \subseteq Active(people)
           /\ \A e \in Active(people) :
                LET told == e \in DocumentEmployeeIds(doc, people)
                IN  /\ told <=> doc \in MyDocuments(e, {doc}, people)
                    /\ told <=> MayDownload(e, doc, people)
                    /\ ~doc.expired => (e \in ResolveEmployeeIds(doc.rules, people)
                                           <=> doc \in MyFeed(e, {doc}, people))
<1>1. ResolveEmployeeIds(doc.rules, people) \subseteq Active(people)
  BY DEF ResolveEmployeeIds
<1>2. ASSUME NEW e \in Active(people)
      PROVE  /\ e \in DocumentEmployeeIds(doc, people) <=> ForMe(doc, e, people)
             /\ e \in ResolveEmployeeIds(doc.rules, people) <=>
                  doc.rules \intersect RulesNaming(people[e]) # {}
  <2>1. e # None
    BY DEF Active
  <2> QED
    BY <2>1, RuleReaches DEF DocumentEmployeeIds, ForMe
<1> QED
  BY <1>1, <1>2 DEF MyDocuments, MayDownload, MyFeed, Out

LEMMA ReadersHold == QuestionKept => ReadersAgree
<1> SUFFICES ASSUME QuestionKept, rule = "readers", Out(asked.doc) PROVE ReadersAgree
  BY DEF ReadersAgree
<1> DEFINE names == {"d", "g", "l", "full_time", "intern", e1, e2}
<1>1. DOMAIN Staff = {e1, e2}
  BY DEF Staff
<1>2. asked.doc \in AnyDocument
  BY QuestionOf DEF ReadersAsked
<1>3. asked.doc.rules \subseteq Rules
  BY <1>2 DEF AnyDocument, Document, Audiences
<1>4. Rules \subseteq RulesOf(names)
  BY DEF Rules, RulesOf, Traits
<1> QED
  BY <1>1, <1>3, <1>4, NoneAssumption, ReadersAreOne DEF ReadersAgree

(* What the feeds show is what the audiences count, whatever the constants. *)
THEOREM AgreeingReaders == SpecApart => []ReadersAgree
  BY ReadersHold, QuestionStays, PTL

-----------------------------------------------------------------------------
(* Leave. *)

Halves(start, end, halfStart, halfEnd, holidays) ==
    {h \in (start .. end) \X {"am", "pm"} :
        /\ h[1] \notin holidays
        /\ ~(halfStart /\ h = <<start, "am">>)
        /\ ~(halfEnd /\ start < end /\ h = <<end, "pm">>)}

LEMMA PairSize ==
    ASSUME NEW a, NEW b, a # b
    PROVE  IsFiniteSet({a, b}) /\ Cardinality({a, b}) = 2
<1>1. IsFiniteSet({a}) /\ Cardinality({a}) = 1 /\ b \notin {a}
  BY FS_Singleton
<1>2. IsFiniteSet({a} \union {b}) /\ Cardinality({a} \union {b}) = 1 + 1
  BY <1>1, FS_AddElement
<1>3. {a} \union {b} = {a, b}
  OBVIOUS
<1> QED
  BY <1>2, <1>3

LEMMA LessHalf ==
    ASSUME NEW S, IsFiniteSet(S), NEW x, NEW flag \in BOOLEAN
    PROVE  LET T == IF flag THEN S \ {x} ELSE S
           IN  IsFiniteSet(T) /\ Cardinality(T) = Cardinality(S) - Half(flag /\ x \in S)
<1>1. Cardinality(S) \in Int
  BY FS_CardinalityType
<1>2. CASE flag
  BY <1>1, <1>2, FS_RemoveElement DEF Half
<1>3. CASE ~flag
  BY <1>1, <1>3 DEF Half
<1> QED
  BY <1>2, <1>3

(* computeUnits counts the half days worked from any day to any other,     *)
(* whatever days are holidays and whichever flags are set; a range that    *)
(* ends before it starts costs nothing.                                    *)
THEOREM UnitsAreHalves ==
    ASSUME NEW start \in Int, NEW end \in Int, NEW halfStart \in BOOLEAN, NEW halfEnd \in BOOLEAN,
           NEW holidays
    PROVE  ComputeUnits(start, end, halfStart, halfEnd, holidays)
             = Cardinality(Halves(start, end, halfStart, halfEnd, holidays))
<1> DEFINE working == (start .. end) \ holidays
           day     == {"am", "pm"}
           both    == working \X day
           late    == halfEnd /\ start < end
           first   == IF halfStart THEN both \ {<<start, "am">>} ELSE both
           last    == IF late THEN first \ {<<end, "pm">>} ELSE first
           halves  == Halves(start, end, halfStart, halfEnd, holidays)
           units   == ComputeUnits(start, end, halfStart, halfEnd, holidays)
           many    == 2 * Cardinality(working)
                        - (Half(halfStart /\ start \notin holidays) + Half(halfEnd /\ end \notin holidays))
<1>1. IsFiniteSet(working) /\ Cardinality(working) \in Nat
  BY FS_Interval, FS_Difference, FS_CardinalityType
<1>2. IsFiniteSet(both) /\ Cardinality(both) = 2 * Cardinality(working)
  <2>1. IsFiniteSet(day) /\ Cardinality(day) = 2
    BY PairSize
  <2> HIDE DEF working, day
  <2>2. IsFiniteSet(both) /\ Cardinality(both) = Cardinality(working) * Cardinality(day)
    BY <1>1, <2>1, FS_Product
  <2> QED
    BY <1>1, <2>1, <2>2
<1>3. IsFiniteSet(first) /\ Cardinality(first) = Cardinality(both) - Half(halfStart /\ <<start, "am">> \in both)
  <2> HIDE DEF both
  <2> QED
    BY <1>2, LessHalf
<1>4. IsFiniteSet(last) /\ Cardinality(last) = Cardinality(first) - Half(late /\ <<end, "pm">> \in first)
  <2>1. late \in BOOLEAN
    OBVIOUS
  <2> HIDE DEF first, late
  <2> QED
    BY <1>3, <2>1, LessHalf
<1>5. halves = last
  <2>1. \A h \in (start .. end) \X {"am", "pm"} : h \in both <=> h[1] \notin holidays
    OBVIOUS
  <2>2. both \subseteq (start .. end) \X {"am", "pm"}
    OBVIOUS
  <2> HIDE DEF both
  <2> QED
    BY <2>1, <2>2 DEF Halves
<1>6. CASE start > end
  <2>1. working = {}
    BY <1>6
  <2>2. last = {}
    BY <1>6, <2>1
  <2>3. Cardinality(halves) = 0
    BY <1>5, <2>2, FS_EmptySet
  <2>4. units = 0
    BY <1>6 DEF ComputeUnits, DaysInclusive
  <2> QED
    BY <2>3, <2>4
<1>7. CASE start <= end
  <2>1. <<start, "am">> \in both <=> start \notin holidays
    BY <1>7
  <2>2. start < end => (<<end, "pm">> \in first <=> end \notin holidays)
    BY <1>7
  <2>3. Cardinality(halves) = 2 * Cardinality(working) - Half(halfStart /\ start \notin holidays)
                                - Half(halfEnd /\ start < end /\ end \notin holidays)
    <3> HIDE DEF working, both, first, last, halves
    <3> QED
      BY <1>1, <1>2, <1>3, <1>4, <1>5, <2>1, <2>2 DEF Half
  <2>4. CASE start = end
    <3>1. Cardinality(working) = IF start \in holidays THEN 0 ELSE 1
      <4>1. working = IF start \in holidays THEN {} ELSE {start}
        BY <2>4
      <4> QED
        BY <4>1, FS_Singleton, FS_EmptySet
    <3>2. units = IF start \in holidays THEN 0 ELSE 2 - Half(halfStart)
      BY <2>4 DEF ComputeUnits, DaysInclusive
    <3>3. units = Cardinality(halves)
      <4> HIDE DEF halves, working, units
      <4> QED
        BY <2>3, <2>4, <3>1, <3>2 DEF Half
    <3> QED
      BY <3>3
  <2>5. CASE start < end
    <3>1. Cardinality(halves) \in Nat
      <4>1. IsFiniteSet(halves)
        BY <1>4, <1>5
      <4> HIDE DEF halves
      <4> QED
        BY <4>1, FS_CardinalityType
    <3>2. units = IF many < 0 THEN 0 ELSE many
      BY <2>5 DEF ComputeUnits, DaysInclusive
    <3>3. many = Cardinality(halves)
      <4> HIDE DEF halves, working
      <4> QED
        BY <1>1, <2>3, <2>5 DEF Half
    <3>4. units = Cardinality(halves)
      <4> HIDE DEF halves, many, units
      <4> QED
        BY <3>1, <3>2, <3>3
    <3> QED
      BY <3>4
  <2> QED
    BY <1>7, <2>4, <2>5
<1> QED
  BY <1>6, <1>7

LEMMA UnitsHold == QuestionKept => CountsHalves
<1> SUFFICES ASSUME QuestionKept, rule = "units" PROVE CountsHalves
  BY DEF CountsHalves
<1>1. asked \in UnitsAsked
  BY QuestionOf
<1>2. /\ asked.start \in Int /\ asked.end \in Int
      /\ asked.halfStart \in BOOLEAN /\ asked.halfEnd \in BOOLEAN
  BY <1>1 DEF UnitsAsked, Days
<1>3. HalvesOff = Halves(asked.start, asked.end, asked.halfStart, asked.halfEnd, asked.holidays)
  BY DEF HalvesOff, Halves
<1> QED
  BY <1>2, <1>3, UnitsAreHalves DEF CountsHalves

(* However late the last day asked for is. *)
THEOREM CountedHalves == SpecApart => []CountsHalves
  BY UnitsHold, QuestionStays, PTL

-----------------------------------------------------------------------------
(* Time. *)

LEMMA DivMod ==
    ASSUME NEW x \in Int, NEW D \in Nat \ {0}
    PROVE  /\ x \div D \in Int /\ x % D \in 0 .. D - 1
           /\ x = D * (x \div D) + (x % D)
OBVIOUS

LEMMA DivModOnly ==
    ASSUME NEW x \in Int, NEW D \in Nat \ {0}, NEW d \in Int, NEW h \in 0 .. D - 1, x = d * D + h
    PROVE  x \div D = d /\ x % D = h
<1>1. x \div D \in Int /\ x % D \in 0 .. D - 1 /\ x = D * (x \div D) + (x % D)
  BY DivMod
<1> DEFINE q == x \div D
           m == x % D
<1> HIDE DEF q, m
<1>2. D * (q - d) = h - m
  BY <1>1 DEF q, m
<1>3. q - d < 1
  BY <1>1, <1>2 DEF q, m
<1>4. q - d > -1
  BY <1>1, <1>2 DEF q, m
<1> QED
  BY <1>1, <1>2, <1>3, <1>4 DEF q, m

Zoned == [before: Int, after: Int, jump: Int]

Shows(at, tz, day, hour) == LocalDateInTimezone(at, tz) = day /\ LocalHoursInTimezone(at, tz) = hour

(* An instant shows the day and hour of its own clock.                     *)
LEMMA ShowsClock ==
    ASSUME NEW tz \in Zoned, NEW at \in Int, NEW day \in Int, NEW hour \in 0 .. DayLength - 1
    PROVE  Shows(at, tz, day, hour) <=> at + TzOffset(at, tz) = day * DayLength + hour
<1> DEFINE x == at + TzOffset(at, tz)
<1>1. x \in Int /\ DayLength \in Nat \ {0}
  BY LocalTimeAssumption DEF Zoned, TzOffset
<1>2. Shows(at, tz, day, hour) <=> x \div DayLength = day /\ x % DayLength = hour
  BY DEF Shows, LocalDateInTimezone, LocalHoursInTimezone
<1> HIDE DEF x
<1>3. (x \div DayLength = day /\ x % DayLength = hour) => x = day * DayLength + hour
  BY <1>1, DivMod
<1>4. x = day * DayLength + hour => (x \div DayLength = day /\ x % DayLength = hour)
  BY <1>1, DivModOnly
<1> QED
  BY <1>2, <1>3, <1>4 DEF x

(* localWallTimeToUtc inverts every wall clock that some instant shows, in *)
(* any zone that changes its clocks once, by however much, and for days of *)
(* any length.                                                             *)
THEOREM WallClockInverts ==
    ASSUME NEW tz \in Zoned, NEW at \in Int, NEW day \in Int, NEW hour \in 0 .. DayLength - 1,
           Shows(at, tz, day, hour)
    PROVE  LocalWallTimeToUtc(tz, day, hour) \in Int
           /\ Shows(LocalWallTimeToUtc(tz, day, hour), tz, day, hour)
<1> DEFINE atNoon  == day * DayLength + hour
           found == LocalWallTimeToUtc(tz, day, hour)
           Off(x) == IF x < tz.jump THEN tz.before ELSE tz.after
<1>1. atNoon \in Int /\ tz.before \in Int /\ tz.after \in Int /\ tz.jump \in Int
  BY LocalTimeAssumption DEF Zoned
<1>2. at + Off(at) = atNoon
  BY ShowsClock DEF TzOffset
<1>3. found = atNoon - Off(atNoon - Off(atNoon))
  BY DEF LocalWallTimeToUtc, TzOffset
<1>4. found \in Int /\ found + Off(found) = atNoon
  <2> HIDE DEF atNoon, found
  <2> QED
    BY <1>1, <1>2, <1>3
<1>5. found \in Int /\ found + TzOffset(found, tz) = atNoon
  BY <1>4 DEF TzOffset
<1> HIDE DEF found
<1>6. Shows(found, tz, day, hour)
  BY <1>5, ShowsClock
<1> QED
  BY <1>5, <1>6 DEF found

LEMMA ClockHolds == QuestionKept => WallTimesInvert
<1> SUFFICES ASSUME QuestionKept, rule = "clock",
                    NEW at \in -DayLength .. 6 * DayLength, Shows(at, asked.tz, asked.day, asked.hour)
             PROVE  Shows(LocalWallTimeToUtc(asked.tz, asked.day, asked.hour), asked.tz, asked.day, asked.hour)
  BY DEF WallTimesInvert, Shows
<1>1. asked \in ClockAsked
  BY QuestionOf
<1>2. asked.tz \in Zoned /\ asked.day \in Int /\ asked.hour \in 0 .. DayLength - 1
  BY <1>1, LocalTimeAssumption DEF ClockAsked, Zones, Zoned
<1>3. at \in Int
  BY LocalTimeAssumption
<1> QED
  BY <1>2, <1>3, WallClockInverts

(* A row may leave its zone unset, and falls back on the next.             *)
Placed ==
    [override: Zoned \union {Unset}, location: Zoned \union {Unset}, organization: Zoned \union {Unset}]

LEMMA DateIsDay ==
    ASSUME NEW at \in Int, NEW tz \in Zoned
    PROVE  LocalDateInTimezone(at, tz) \in Int
<1> DEFINE x == at + TzOffset(at, tz)
<1>1. x \in Int /\ DayLength \in Nat \ {0}
  BY LocalTimeAssumption DEF Zoned, TzOffset
<1> HIDE DEF x
<1>2. x \div DayLength \in Int
  BY <1>1, DivMod
<1> QED
  BY <1>2 DEF LocalDateInTimezone, x

LEMMA ZoneOf ==
    ASSUME NEW employee \in Placed
    PROVE  ResolveEmployeeTimezone(employee) \in Zoned
BY DEF Placed, ResolveEmployeeTimezone, Fixed, Zoned

Width(window) == window.to - window.from + 1

Column(window, c) == window.from + c - 1

LEMMA SeriesColumns ==
    ASSUME NEW entries, NEW window, Width(window) \in Nat, NEW zero
    PROVE  LET series == DenseDailySeries(entries, window, zero)
           IN  /\ Len(series) = Width(window) /\ DOMAIN series = 1 .. Width(window)
               /\ \A c \in 1 .. Width(window) :
                    LET day == Column(window, c)
                    IN  series[c] = [date |-> day, value |-> IF day \in DOMAIN entries THEN entries[day] ELSE zero]
<1> DEFINE At(c) == [date |-> Column(window, c),
                     value |-> IF Column(window, c) \in DOMAIN entries THEN entries[Column(window, c)] ELSE zero]
           series == DenseDailySeries(entries, window, zero)
<1>1. series = [c \in 1 .. Width(window) |-> At(c)]
  BY DEF DenseDailySeries, Width, Column
<1> HIDE DEF At, series
<1>2. Len(series) = Width(window) /\ DOMAIN series = 1 .. Width(window)
      /\ \A c \in 1 .. Width(window) : series[c] = At(c)
  BY <1>1
<1> QED
  BY <1>2 DEF series, At

(* A check-in is on the employee's dashboard, however many days that shows *)
(* and whenever it is opened: in the column of its own date, as present,   *)
(* and every other column is an absence.                                   *)
THEOREM CheckInShown ==
    ASSUME NEW employee \in Placed, NEW checkIn \in Int, NEW opened \in Int, NEW days \in Nat
    PROVE  LET filed  == CheckInDate(checkIn, employee)
               today  == DashboardToday(opened, employee)
               series == AttendanceSeries([day \in {filed} |-> "present"], days, opened, employee)
           IN  /\ filed \in Int /\ today \in Int /\ Len(series) = days
               /\ \A c \in 1 .. days :
                    /\ series[c].date = today - days + c
                    /\ series[c].value = IF series[c].date = filed THEN "present" ELSE "absent"
<1> DEFINE filed  == CheckInDate(checkIn, employee)
           today  == DashboardToday(opened, employee)
           entries   == [day \in {filed} |-> "present"]
           from   == today - (days - 1)
           window == [from |-> from, to |-> today]
           inside == {day \in DOMAIN entries : from <= day /\ day <= today}
           kept   == [day \in inside |-> entries[day]]
           series == AttendanceSeries(entries, days, opened, employee)
<1>1. filed \in Int /\ today \in Int
  BY ZoneOf, DateIsDay DEF CheckInDate, DashboardToday
<1>2. series = DenseDailySeries(kept, window, "absent")
  BY DEF AttendanceSeries, DaysAgoWindow
<1>3. Width(window) = days /\ \A c : Column(window, c) = from + c - 1
  BY <1>1 DEF Width, Column
<1> HIDE DEF filed, today, series, kept, window
<1>4. Len(series) = days
  BY <1>2, <1>3, SeriesColumns
<1>5. ASSUME NEW c \in 1 .. days
      PROVE  series[c] = [date |-> Column(window, c),
                          value |-> IF Column(window, c) \in DOMAIN kept THEN kept[Column(window, c)] ELSE "absent"]
  BY <1>2, <1>3, SeriesColumns
<1>6. ASSUME NEW c \in 1 .. days
      PROVE  /\ series[c].date = today - days + c
             /\ series[c].value = IF series[c].date = filed THEN "present" ELSE "absent"
  <2> DEFINE day == from + c - 1
  <2>1. day = today - days + c /\ from <= day /\ day <= today /\ day \in Int
    BY <1>1
  <2>2. IF day = filed THEN day \in DOMAIN kept /\ kept[day] = "present" ELSE day \notin DOMAIN kept
    BY <2>1 DEF kept
  <2>3. Column(window, c) = day
    BY <1>3
  <2> HIDE DEF day
  <2>4. series[c] = [date |-> day, value |-> IF day \in DOMAIN kept THEN kept[day] ELSE "absent"]
    BY <1>5, <2>3
  <2> QED
    BY <2>1, <2>2, <2>4
<1> QED
  BY <1>1, <1>4, <1>6 DEF filed, today, series

-----------------------------------------------------------------------------
(* Figures. *)

LEMMA BucketCounts ==
    ASSUME NEW entries, NEW column, NEW statuses
    PROVE  Bucket(statuses, GroupBy(entries, column)) =
             [s \in statuses |-> Cardinality({entry \in entries : entry[column] = s})]
<1> DEFINE groups == GroupBy(entries, column)
           Of(s)  == {entry \in entries : entry[column] = s}
<1>1. \A s \in DOMAIN groups : groups[s] = Cardinality(Of(s))
  BY DEF GroupBy
<1>2. \A s : s \notin DOMAIN groups => Of(s) = {}
  BY DEF GroupBy
<1> HIDE DEF groups, Of
<1>3. \A s : (IF s \in DOMAIN groups THEN groups[s] ELSE 0) = Cardinality(Of(s))
  BY <1>1, <1>2, FS_EmptySet
<1>4. Bucket(statuses, groups) = [s \in statuses |-> Cardinality(Of(s))]
  BY <1>3 DEF Bucket
<1> QED
  BY <1>4 DEF groups, Of

LEMMA BucketOfNone ==
    ASSUME NEW entries, entries = {}, NEW column
    PROVE  BucketAttendance(GroupBy(entries, column)) = BucketAttendance(<< >>)
<1>1. DOMAIN GroupBy(entries, column) = {} /\ DOMAIN << >> = {}
  BY DEF GroupBy
<1> QED
  BY <1>1 DEF BucketAttendance, Bucket

(* Each column of the trend is the figure of its day.                      *)
LEMMA TrendColumns ==
    ASSUME NEW records, \A r \in records : r.date \in Int, NEW days \in Nat, NEW today \in Int
    PROVE  LET trend == AttendanceTrend(records, days, today)
           IN  /\ Len(trend) = days /\ DOMAIN trend = 1 .. days
               /\ \A c \in 1 .. days :
                    trend[c] = [date |-> today - days + c, value |-> AttendanceToday(records, today - days + c)]
<1> DEFINE window == DaysAgoWindow(days, today)
           inside == {r \in records : window.from <= r.date /\ r.date <= window.to}
           Day(day) == BucketAttendance(GroupBy({r \in inside : r.date = day}, "status"))
           byDate == [date \in {r.date : r \in inside} |-> Day(date)]
           zero   == BucketAttendance(<< >>)
           trend  == AttendanceTrend(records, days, today)
<1>1. window.from = today - (days - 1) /\ window.to = today
  BY DEF DaysAgoWindow
<1>2. Width(window) = days
  BY <1>1 DEF Width
<1>3. trend = DenseDailySeries(byDate, window, zero)
  BY DEF AttendanceTrend
<1> HIDE DEF trend
<1>4. ASSUME NEW c \in 1 .. days, NEW day, day = today - days + c
      PROVE  /\ Column(window, c) = day
             /\ IF day \in DOMAIN byDate THEN byDate[day] = AttendanceToday(records, day)
                                         ELSE zero = AttendanceToday(records, day)
  <2>1. Column(window, c) = day /\ window.from <= day /\ day <= window.to
    BY <1>1, <1>4 DEF Column
  <2>2. {r \in inside : r.date = day} = {r \in records : r.date = day}
    BY <2>1
  <2>3. Day(day) = AttendanceToday(records, day)
    BY <2>2 DEF AttendanceToday
  <2>4. day \notin DOMAIN byDate => {r \in records : r.date = day} = {}
    BY <2>2
  <2>5. day \notin DOMAIN byDate => zero = AttendanceToday(records, day)
    BY <2>4, BucketOfNone DEF AttendanceToday
  <2>6. day \in DOMAIN byDate => byDate[day] = Day(day)
    OBVIOUS
  <2> QED
    BY <2>1, <2>3, <2>5, <2>6
<1> HIDE DEF byDate, zero, window
<1>5. Len(trend) = days /\ DOMAIN trend = 1 .. days
  BY <1>2, <1>3, SeriesColumns
<1>6. ASSUME NEW c \in 1 .. days
      PROVE  trend[c] = [date |-> today - days + c, value |-> AttendanceToday(records, today - days + c)]
  <2> DEFINE day == today - days + c
  <2>1. Column(window, c) = day /\ IF day \in DOMAIN byDate THEN byDate[day] = AttendanceToday(records, day)
                                         ELSE zero = AttendanceToday(records, day)
    BY <1>4
  <2>2. trend[c] = [date |-> Column(window, c),
                    value |-> IF Column(window, c) \in DOMAIN byDate THEN byDate[Column(window, c)] ELSE zero]
    BY <1>2, <1>3, SeriesColumns
  <2> HIDE DEF day
  <2>3. trend[c] = [date |-> day, value |-> AttendanceToday(records, day)]
    BY <2>1, <2>2
  <2> QED
    BY <2>3 DEF day
<1> QED
  BY <1>5, <1>6 DEF trend

FiledAs(records, day, status) == {r \in records : r.date = day /\ r.status = status}

LEMMA AttendanceCounts ==
    ASSUME NEW records, NEW day, NEW status \in {"present", "absent", "on_leave"}
    PROVE  AttendanceToday(records, day)[status] =
             Cardinality(FiledAs(records, day, status))
<1> DEFINE today == {r \in records : r.date = day}
<1>1. AttendanceToday(records, day) =
        [s \in {"present", "absent", "on_leave"} |-> Cardinality({r \in today : r["status"] = s})]
  BY BucketCounts DEF AttendanceToday, BucketAttendance
<1>2. {r \in today : r["status"] = status} = FiledAs(records, day, status)
  BY DEF FiledAs
<1> QED
  BY <1>1, <1>2

OnlyRecord(worker, date) == {[employee |-> worker, date |-> date, status |-> "present"]}

LEMMA OneRecordCounts ==
    ASSUME NEW worker, NEW filed, NEW day
    PROVE  AttendanceToday(OnlyRecord(worker, filed), day)["present"] = IF filed = day THEN 1 ELSE 0
<1> DEFINE record  == [employee |-> worker, date |-> filed, status |-> "present"]
           records == OnlyRecord(worker, filed)
<1>1. FiledAs(records, day, "present") = IF filed = day THEN {record} ELSE {}
  BY DEF FiledAs, OnlyRecord
<1> HIDE DEF record, records
<1>2. AttendanceToday(records, day)["present"] = Cardinality(FiledAs(records, day, "present"))
  BY AttendanceCounts
<1> QED
  BY <1>1, <1>2, FS_Singleton, FS_EmptySet DEF records

LEMMA FiledOn ==
    ASSUME NEW employee \in Placed, NEW at \in Int
    PROVE  CheckInDate(at, employee) \in Int /\ AdminToday(at, employee.organization) \in Int
<1>1. CheckInDate(at, employee) \in Int
  BY ZoneOf, DateIsDay DEF CheckInDate
<1>2. (IF employee.organization = Unset THEN Fixed(0) ELSE employee.organization) \in Zoned
  BY DEF Placed, Zoned, Fixed
<1> QED
  BY <1>1, <1>2, DateIsDay DEF AdminToday

PresentOn(trend, day) == \E c \in DOMAIN trend : trend[c].date = day /\ trend[c].value["present"] = 1

LEMMA OneRecordInTrend ==
    ASSUME NEW worker, NEW filed \in Int, NEW today \in Int, NEW days \in Nat,
           today - filed \in 0 .. days - 1
    PROVE  PresentOn(AttendanceTrend(OnlyRecord(worker, filed), days, today), filed)
<1> DEFINE records == OnlyRecord(worker, filed)
           trend   == AttendanceTrend(records, days, today)
           c       == filed - today + days
<1>1. \A r \in records : r.date \in Int
  BY DEF OnlyRecord
<1>2. c \in 1 .. days /\ today - days + c = filed
  OBVIOUS
<1>3. AttendanceToday(records, filed)["present"] = 1
  BY OneRecordCounts
<1> HIDE DEF records, c
<1>4. DOMAIN trend = 1 .. days
  BY <1>1, TrendColumns
<1>5. trend[c] = [date |-> filed, value |-> AttendanceToday(records, filed)]
  BY <1>1, <1>2, TrendColumns, ZenonT(60)
<1> HIDE DEF trend
<1> QED
  BY <1>2, <1>3, <1>4, <1>5 DEF PresentOn, trend, records

(* A check-in is in the admin's figure of today when that is its date, and *)
(* in the trend of any length that reaches back to it; without a zone of   *)
(* the employee's own it is filed under the organisation's day             *)
(* (checkIn, DashboardService.admin).                                      *)
THEOREM CheckInCounted ==
    ASSUME NEW employee \in Placed, NEW checkIn \in Int, NEW opened \in Int, NEW days \in Nat, NEW worker
    PROVE  LET filed   == CheckInDate(checkIn, employee)
               today   == AdminToday(opened, employee.organization)
               records == OnlyRecord(worker, filed)
           IN  /\ AttendanceToday(records, today)["present"] = (IF filed = today THEN 1 ELSE 0)
               /\ today - filed \in 0 .. days - 1 => PresentOn(AttendanceTrend(records, days, today), filed)
               /\ employee.override = Unset /\ employee.location = Unset =>
                    filed = AdminToday(checkIn, employee.organization)
<1> DEFINE filed == CheckInDate(checkIn, employee)
           today == AdminToday(opened, employee.organization)
<1>1. filed \in Int /\ today \in Int
  BY FiledOn
<1>2. employee.override = Unset /\ employee.location = Unset => filed = AdminToday(checkIn, employee.organization)
  BY DEF CheckInDate, AdminToday, ResolveEmployeeTimezone
<1> HIDE DEF filed, today
<1>3. AttendanceToday(OnlyRecord(worker, filed), today)["present"] = IF filed = today THEN 1 ELSE 0
  BY OneRecordCounts
<1>4. today - filed \in 0 .. days - 1 => PresentOn(AttendanceTrend(OnlyRecord(worker, filed), days, today), filed)
  BY <1>1, OneRecordInTrend
<1> QED
  BY <1>2, <1>3, <1>4 DEF filed, today

LEMMA DayOf ==
    ASSUME QuestionKept, rule = "day"
    PROVE  asked.employee \in Placed /\ asked.checkIn \in Int /\ asked.later \in Int
<1>1. asked \in DayAsked
  BY QuestionOf
<1>2. asked.employee \in [override: Columns, location: Columns, organization: Columns \ {Unset}]
  BY <1>1 DEF DayAsked
<1>3. Columns \subseteq Zoned \union {Unset}
  BY LocalTimeAssumption DEF Columns, Zoned, Fixed
<1>4. asked.checkIn \in Int /\ asked.later \in Int
  BY <1>1, LocalTimeAssumption DEF DayAsked, Instants
<1> QED
  BY <1>2, <1>3, <1>4 DEF Placed

LEMMA CheckInHolds == QuestionKept => CheckInShows
<1> SUFFICES ASSUME QuestionKept, rule = "day" PROVE CheckInShows
  BY DEF CheckInShows
<1> DEFINE opened == asked.checkIn + asked.later
           filed  == CheckInDate(asked.checkIn, asked.employee)
           today  == DashboardToday(opened, asked.employee)
           series == AttendanceSeries([day \in {filed} |-> "present"], Week, opened, asked.employee)
           zone   == ResolveEmployeeTimezone(asked.employee)
           midnights == LocalDateInTimezone(opened, zone) - LocalDateInTimezone(asked.checkIn, zone)
<1>1. opened \in Int /\ Week \in Nat
  BY DayOf DEF Week
<1>2. midnights = today - filed
  BY DEF DashboardToday, CheckInDate
<1> HIDE DEF opened
<1>3. /\ filed \in Int /\ today \in Int /\ Len(series) = Week
      /\ \A c \in 1 .. Week :
           /\ series[c].date = today - Week + c
           /\ series[c].value = IF series[c].date = filed THEN "present" ELSE "absent"
  BY <1>1, DayOf, CheckInShown, ZenonT(60)
<1> HIDE DEF series, filed, today, midnights
<1>4. filed = today - midnights /\ \A c \in 1 .. Week : today - Week + c = filed <=> c = Week - midnights
  BY <1>1, <1>2, <1>3
<1>5. \A c \in 1 .. Week : series[c].value = IF c = Week - midnights THEN "present" ELSE "absent"
  BY <1>3, <1>4
<1> QED
  BY <1>3, <1>4, <1>5 DEF CheckInShows, opened, series, filed, today, midnights

LEMMA AdminHolds == QuestionKept => AdminSees
<1> SUFFICES ASSUME QuestionKept, rule = "day" PROVE AdminSees
  BY DEF AdminSees
<1> DEFINE employee == asked.employee
           checkIn  == asked.checkIn
           opened   == asked.checkIn + asked.later
           filed    == CheckInDate(checkIn, employee)
           today    == AdminToday(opened, employee.organization)
           records  == OnlyRecord(e1, filed)
           trend    == AttendanceTrend(records, Week, today)
<1>1. opened \in Int /\ Week \in Nat /\ employee \in Placed /\ checkIn \in Int
  BY DayOf DEF Week
<1>2. employee.override = Unset /\ employee.location = Unset => filed = AdminToday(checkIn, employee.organization)
  BY DEF CheckInDate, AdminToday, ResolveEmployeeTimezone
<1> HIDE DEF employee, checkIn, opened
<1>3. filed \in Int /\ today \in Int
  BY <1>1, FiledOn
<1> HIDE DEF filed, today
<1>4. AttendanceToday(records, today)["present"] = IF filed = today THEN 1 ELSE 0
  BY OneRecordCounts
<1>5. today - filed \in 0 .. Week - 1 => PresentOn(trend, filed)
  BY <1>1, <1>3, OneRecordInTrend
<1> QED
  BY <1>2, <1>4, <1>5 DEF AdminSees, PresentOn, OnlyRecord, employee, checkIn, opened, filed, today

(* The days and hours of the API are the employee's own: however many      *)
(* hours days have.                                                        *)
THEOREM AgreeingDays == SpecApart => []DaysAgree
<1>1. QuestionKept => DaysAgree
  BY ClockHolds, CheckInHolds, AdminHolds DEF DaysAgree
<1> QED
  BY <1>1, QuestionStays, PTL

-----------------------------------------------------------------------------
(* Pages and the API. *)

LEMMA AnnouncementOffers ==
    ASSUME QuestionKept, rule = "offers", asked.on = "announcement"
    PROVE  Offered \ InVain \subseteq Accepted
<1>1. asked.status \in {"draft", "scheduled", "published", "archived"}
  BY QuestionOf DEF OffersAsked
<1>2. Offered = AnnouncementPage(asked) /\ Accepted = AnnouncementApi(asked)
  BY DEF Offered, Accepted
<1>3. InVain = IF asked.status = "archived" THEN {"schedule"} ELSE {}
  BY DEF InVain
<1> QED
  BY <1>1, <1>2, <1>3 DEF AnnouncementPage, AnnouncementApi, Where

LEMMA DocumentOffers ==
    ASSUME QuestionKept, rule = "offers", asked.on = "document"
    PROVE  Offered \ InVain \subseteq Accepted
<1>1. Offered = DocumentPage(asked) \union MyDocumentPage(asked)
  BY DEF Offered
<1>2. Accepted = DocumentApi(asked) \union MyDocumentApi(asked)
  BY DEF Accepted
<1>3. InVain = IF asked.deleted THEN {"edit", "publish", "delete", "replace", "archive"} ELSE {}
  BY DEF InVain
<1> QED
  BY <1>1, <1>2, <1>3 DEF DocumentPage, DocumentApi, MyDocumentPage, MyDocumentApi, Where

LEMMA CatalogueOffers ==
    ASSUME QuestionKept, rule = "offers", asked.on \in {"category", "calendar"}
    PROVE  Offered \ InVain \subseteq Accepted
<1>1. CASE asked.on = "category"
  <2>1. Offered = CategoryPage(asked) /\ Accepted = CategoryApi(asked)
    BY <1>1 DEF Offered, Accepted
  <2>2. InVain = IF asked.used THEN {"delete"} ELSE {}
    BY <1>1 DEF InVain
  <2> QED
    BY <2>1, <2>2 DEF CategoryPage, CategoryApi, Where
<1>2. CASE asked.on = "calendar"
  <2>1. Offered = CalendarPage(asked) /\ Accepted = CalendarApi(asked)
    BY <1>2 DEF Offered, Accepted
  <2>2. InVain = IF asked.archived THEN {"addHoliday"} ELSE {}
    BY <1>2 DEF InVain
  <2> QED
    BY <2>1, <2>2 DEF CalendarPage, CalendarApi, Where
<1> QED
  BY <1>1, <1>2

LEMMA RoleOffers ==
    ASSUME QuestionKept, rule = "offers", asked.on = "role"
    PROVE  Offered \ InVain \subseteq Accepted
<1>1. Offered = RolePage(asked) /\ Accepted = RoleApi(asked)
  BY DEF Offered, Accepted
<1>2. InVain = IF asked.system THEN {"save"} ELSE IF asked.used THEN {"delete"} ELSE {}
  BY DEF InVain
<1> QED
  BY <1>1, <1>2 DEF RolePage, RoleApi, Where

LEMMA UserOffers ==
    ASSUME QuestionKept, rule = "offers", asked.on = "user"
    PROVE  Offered \ InVain \subseteq Accepted
<1>1. Offered = UserPage(asked) /\ Accepted = UserApi(asked)
  BY DEF Offered, Accepted
<1>2. InVain = IF LastAdmin(asked) THEN {"changeRole", "deactivate"} ELSE {}
  BY DEF InVain
<1> QED
  BY <1>1, <1>2 DEF UserPage, UserApi, Where

LEMMA EmployeeOffers ==
    ASSUME QuestionKept, rule = "offers", asked.on = "employee"
    PROVE  Offered \ InVain \subseteq Accepted
<1>1. Offered = EmployeePage(asked) /\ Accepted = EmployeeApi(asked)
  BY DEF Offered, Accepted
<1>2. InVain = IF asked.archived THEN {"edit", "offboard"}
               ELSE IF asked.onlyAdmin THEN {"offboard"} ELSE {}
  BY DEF InVain
<1> QED
  BY <1>1, <1>2 DEF EmployeePage, EmployeeApi, Where

LEMMA RequestOffers ==
    ASSUME QuestionKept, rule = "offers", asked.on \in {"invite", "leave", "correction", "day"}
    PROVE  Offered \ InVain \subseteq Accepted
<1>1. CASE asked.on = "invite"
  BY <1>1 DEF Offered, Accepted, InvitePage, InviteApi, Where
<1>2. CASE asked.on = "leave"
  BY <1>2 DEF Offered, Accepted, LeavePage, LeaveApi
<1>3. CASE asked.on = "correction"
  BY <1>3 DEF Offered, Accepted, CorrectionPage, CorrectionApi
<1>4. CASE asked.on = "day"
  BY <1>4 DEF Offered, Accepted, DayPage, DayApi, Where
<1> QED
  BY <1>1, <1>2, <1>3, <1>4

LEMMA OnOf ==
    ASSUME QuestionKept, rule = "offers"
    PROVE  asked.on \in {"announcement", "document", "category", "role", "calendar", "user", "invite",
                         "employee", "leave", "correction", "day"}
BY QuestionOf DEF OffersAsked

(* Whatever a page offers the API accepts, but for what InVain lists: the  *)
(* buttons of every page and the preconditions of its endpoints.           *)
THEOREM AcceptedOffers == SpecApart => []OffersAccepted
<1>1. QuestionKept => OffersAccepted
  BY OnOf, AnnouncementOffers, DocumentOffers, CatalogueOffers, RoleOffers, UserOffers, EmployeeOffers,
     RequestOffers DEF OffersAccepted
<1> QED
  BY <1>1, QuestionStays, PTL

-----------------------------------------------------------------------------
(* Sums: the total of the sizes of sets apart is the size of their union.  *)

Joined(G, S) == UNION {G[x] : x \in S}

LEMMA SizeApart ==
    ASSUME NEW A, NEW B, IsFiniteSet(A), IsFiniteSet(B), A \intersect B = {}
    PROVE  IsFiniteSet(A \union B) /\ Cardinality(A \union B) = Cardinality(A) + Cardinality(B)
<1>1. Cardinality(A \intersect B) = 0
  BY FS_EmptySet
<1>2. Cardinality(A) \in Nat /\ Cardinality(B) \in Nat
  BY FS_CardinalityType
<1>3. /\ IsFiniteSet(A \union B)
      /\ Cardinality(A \union B) = Cardinality(A) + Cardinality(B) - Cardinality(A \intersect B)
  BY FS_Union
<1> QED
  BY <1>1, <1>2, <1>3

LEMMA JoinedFinite ==
    ASSUME NEW D, IsFiniteSet(D), NEW G, \A x \in D : IsFiniteSet(G[x])
    PROVE  IsFiniteSet(Joined(G, D))
<1> DEFINE Good == {s \in SUBSET D : IsFiniteSet(Joined(G, s))}
<1>1. Joined(G, {}) = {}
  BY DEF Joined
<1>2. ASSUME NEW s \in SUBSET D, NEW x \in D, s \in Good PROVE s \union {x} \in Good
  <2>1. Joined(G, s \union {x}) = Joined(G, s) \union G[x]
    BY DEF Joined
  <2> QED
    BY <2>1, <1>2, FS_Union
<1>3. {} \in Good
  BY <1>1, FS_EmptySet
<1> HIDE DEF Good
<1>4. D \in Good
  BY <1>2, <1>3, EveryFiniteSet
<1> QED
  BY <1>4 DEF Good

LEMMA JoinedLess ==
    ASSUME NEW D, IsFiniteSet(D), NEW G, \A x \in D : IsFiniteSet(G[x]),
           \A x, y \in D : x # y => G[x] \intersect G[y] = {},
           NEW s \in SUBSET D, NEW x \in s
    PROVE  Cardinality(Joined(G, s)) = Cardinality(G[x]) + Cardinality(Joined(G, s \ {x}))
<1>1. IsFiniteSet(s \ {x}) /\ IsFiniteSet(Joined(G, s \ {x}))
  <2>1. IsFiniteSet(s \ {x})
    BY FS_Subset
  <2> QED
    BY <2>1, JoinedFinite
<1>2. Joined(G, s) = G[x] \union Joined(G, s \ {x})
  BY DEF Joined
<1>3. G[x] \intersect Joined(G, s \ {x}) = {}
  BY DEF Joined
<1>4. IsFiniteSet(G[x])
  OBVIOUS
<1> QED
  BY <1>1, <1>2, <1>3, <1>4, SizeApart

LEMMA TotalCounts ==
    ASSUME NEW f, IsFiniteSet(DOMAIN f), NEW G,
           \A x \in DOMAIN f : IsFiniteSet(G[x]) /\ f[x] = Cardinality(G[x]),
           \A x, y \in DOMAIN f : x # y => G[x] \intersect G[y] = {}
    PROVE  Total(f) = Cardinality(Joined(G, DOMAIN f))
<1> DEFINE D == DOMAIN f
           Pick(s) == CHOOSE x \in s : TRUE
           Sums(sum) == sum = [s \in SUBSET D |-> IF s = {} THEN 0 ELSE f[Pick(s)] + sum[s \ {Pick(s)}]]
           sum   == CHOOSE sum : Sums(sum)
           count == [s \in SUBSET D |-> Cardinality(Joined(G, s))]
<1>1. Total(f) = sum[D]
  BY Zenon DEF Total, MapThenSumSet, MapThenFoldSet
<1>2. ASSUME NEW s \in SUBSET D, s # {}
      PROVE  Pick(s) \in s /\ count[s] = f[Pick(s)] + count[s \ {Pick(s)}]
  <2>1. Pick(s) \in s
    BY <1>2
  <2> HIDE DEF Pick
  <2> QED
    BY <2>1, JoinedLess
<1>3. count[{}] = 0
  <2>1. Joined(G, {}) = {}
    BY DEF Joined
  <2> QED
    BY <2>1, FS_EmptySet
<1> HIDE DEF Pick
<1>4. Sums(count)
  BY <1>2, <1>3
<1>5. Sums(sum)
  <2> HIDE DEF Sums, count
  <2> QED
    BY <1>4
<1>6. ASSUME NEW s \in SUBSET D
      PROVE  sum[s] = IF s = {} THEN 0 ELSE f[Pick(s)] + sum[s \ {Pick(s)}]
  <2> HIDE DEF sum
  <2> QED
    BY <1>5
<1> HIDE DEF sum, count
<1>7. sum[D] = count[D]
  <2> DEFINE Missing == {s \in SUBSET D : sum[s] # count[s]}
  <2>1. ASSUME Missing # {} PROVE FALSE
    <3>1. PICK s \in Missing : \A y \in Missing : y \subseteq s => y = s
      <4>1. Missing \in SUBSET SUBSET D
        OBVIOUS
      <4> HIDE DEF Missing
      <4> QED
        BY <2>1, <4>1, LeastSubset
    <3>2. s # {}
      BY <3>1, <1>3, <1>6
    <3>3. Pick(s) \in s /\ s \ {Pick(s)} \notin Missing
      BY <1>2, <3>1, <3>2
    <3>4. sum[s \ {Pick(s)}] = count[s \ {Pick(s)}]
      BY <3>1, <3>3
    <3> QED
      BY <1>2, <1>6, <3>1, <3>2, <3>4, ZenonT(60)
  <2> QED
    BY <2>1
<1> QED
  BY <1>1, <1>7 DEF count

LEMMA RangeFinite ==
    ASSUME NEW f, IsFiniteSet(DOMAIN f)
    PROVE  IsFiniteSet({f[x] : x \in DOMAIN f})
<1> DEFINE T == {f[x] : x \in DOMAIN f}
           g == [x \in DOMAIN f |-> f[x]]
<1>1. g \in Surjection(DOMAIN f, T)
  BY DEF Surjection
<1> HIDE DEF g, T
<1>2. IsFiniteSet(T)
  BY <1>1, FS_Surjection
<1> QED
  BY <1>2 DEF T

(* Groups lose no row and count none twice: what groupBy answers adds up   *)
(* to its rows, whatever the column.                                       *)
THEOREM GroupsAddUp ==
    ASSUME NEW entries, IsFiniteSet(entries), NEW column
    PROVE  Total(GroupBy(entries, column)) = Cardinality(entries)
<1> DEFINE groups == GroupBy(entries, column)
           D == {entry[column] : entry \in entries}
           G == [group \in D |-> {entry \in entries : entry[column] = group}]
<1>1. DOMAIN groups = D /\ \A group \in D : groups[group] = Cardinality(G[group])
  BY DEF GroupBy
<1>2. IsFiniteSet(D)
  <2> DEFINE f == [entry \in entries |-> entry[column]]
  <2>1. DOMAIN f = entries /\ D = {f[x] : x \in DOMAIN f}
    OBVIOUS
  <2> HIDE DEF f, D
  <2> QED
    BY <2>1, RangeFinite
<1>3. \A group \in D : IsFiniteSet(G[group])
  BY FS_Subset
<1>4. \A x, y \in D : x # y => G[x] \intersect G[y] = {}
  OBVIOUS
<1>5. Joined(G, D) = entries
  <2>1. ASSUME NEW entry \in entries PROVE entry \in Joined(G, D)
    <3>1. entry[column] \in D /\ entry \in G[entry[column]]
      OBVIOUS
    <3> HIDE DEF G, D
    <3> QED
      BY <3>1 DEF Joined
  <2>2. ASSUME NEW entry \in Joined(G, D) PROVE entry \in entries
    BY DEF Joined
  <2> QED
    BY <2>1, <2>2
<1> HIDE DEF groups, G, D
<1>6. Total(groups) = Cardinality(Joined(G, DOMAIN groups))
  BY <1>1, <1>2, <1>3, <1>4, TotalCounts
<1> QED
  BY <1>1, <1>5, <1>6 DEF groups

Statuses == {"present", "absent", "on_leave"}

LEMMA AttendanceAddsUp ==
    ASSUME NEW records, IsFiniteSet(records), \A r \in records : r.status \in Statuses, NEW day
    PROVE  Total(AttendanceToday(records, day)) = Cardinality({r \in records : r.date = day})
<1> DEFINE figures == AttendanceToday(records, day)
           G == [s \in Statuses |-> FiledAs(records, day, s)]
<1>1. DOMAIN figures = Statuses
  BY DEF AttendanceToday, BucketAttendance, Bucket, Statuses
<1>2. IsFiniteSet(Statuses)
  <2>1. Statuses = {"present"} \union {"absent"} \union {"on_leave"}
    BY DEF Statuses
  <2> QED
    BY <2>1, FS_Singleton, FS_Union
<1>3. \A s \in Statuses : IsFiniteSet(G[s])
  BY FS_Subset DEF FiledAs
<1>4. \A s \in Statuses : figures[s] = Cardinality(G[s])
  BY AttendanceCounts DEF Statuses
<1>5. \A x, y \in Statuses : x # y => G[x] \intersect G[y] = {}
  BY DEF FiledAs
<1>6. Joined(G, Statuses) = {r \in records : r.date = day}
  BY DEF Joined, FiledAs
<1> HIDE DEF figures, G
<1>7. Total(figures) = Cardinality(Joined(G, DOMAIN figures))
  BY <1>1, <1>2, <1>3, <1>4, <1>5, TotalCounts
<1> QED
  BY <1>1, <1>6, <1>7 DEF figures

(* The trend loses no record of its days and counts none twice, however    *)
(* many days it shows (attendanceTrend, denseDailySeries).                 *)
THEOREM TrendAddsUp ==
    ASSUME NEW records, IsFiniteSet(records), NEW days \in Nat, NEW today \in Int,
           \A r \in records : r.date \in Int /\ r.date <= today /\ r.status \in Statuses
    PROVE  LET trend == AttendanceTrend(records, days, today)
           IN  Total([c \in DOMAIN trend |-> Total(trend[c].value)])
                 = Cardinality({r \in records : r.date > today - days})
<1> DEFINE trend == AttendanceTrend(records, days, today)
           On(day) == {r \in records : r.date = day}
           sums  == [c \in DOMAIN trend |-> Total(trend[c].value)]
           G     == [c \in 1 .. days |-> On(today - days + c)]
<1>1. DOMAIN trend = 1 .. days
  BY TrendColumns
<1>2. ASSUME NEW c \in 1 .. days PROVE trend[c].value = AttendanceToday(records, today - days + c)
  <2>1. trend[c] = [date |-> today - days + c, value |-> AttendanceToday(records, today - days + c)]
    BY TrendColumns
  <2> QED
    BY <2>1
<1>3. \A day : Total(AttendanceToday(records, day)) = Cardinality(On(day))
  BY AttendanceAddsUp
<1>4. DOMAIN sums = 1 .. days /\ IsFiniteSet(1 .. days)
  BY <1>1, FS_Interval
<1>5. \A c \in 1 .. days : sums[c] = Cardinality(G[c])
  <2> HIDE DEF trend, On
  <2> QED
    BY <1>1, <1>2, <1>3
<1>6. \A c \in 1 .. days : IsFiniteSet(G[c])
  BY FS_Subset
<1>7. \A x, y \in 1 .. days : x # y => G[x] \intersect G[y] = {}
  OBVIOUS
<1>8. Joined(G, 1 .. days) = {r \in records : r.date > today - days}
  <2>1. ASSUME NEW r \in records, r.date > today - days
        PROVE  r \in Joined(G, 1 .. days)
    <3> DEFINE c == r.date - (today - days)
    <3>1. c \in 1 .. days /\ today - days + c = r.date
      BY <2>1
    <3> HIDE DEF c
    <3> QED
      BY <3>1 DEF Joined
  <2>2. ASSUME NEW r \in Joined(G, 1 .. days)
        PROVE  r \in records /\ r.date > today - days
    BY DEF Joined
  <2> QED
    BY <2>1, <2>2
<1> HIDE DEF trend, sums, G
<1>9. Total(sums) = Cardinality(Joined(G, DOMAIN sums))
  BY <1>4, <1>5, <1>6, <1>7, TotalCounts
<1> QED
  BY <1>4, <1>8, <1>9 DEF sums, trend

LEMMA RowsFinite ==
    ASSUME NEW people, IsFiniteSet(DOMAIN people)
    PROVE  IsFiniteSet(LiveRows(people))
<1> DEFINE live == {x \in DOMAIN people : people[x].live}
           f == [e \in live |-> people[e]]
<1>1. IsFiniteSet(live)
  BY FS_Subset
<1>2. DOMAIN f = live /\ LiveRows(people) = {f[e] : e \in DOMAIN f}
  BY DEF LiveRows
<1> HIDE DEF f, live
<1> QED
  BY <1>1, <1>2, RangeFinite

WithStatus(entries, status) == {entry \in entries : entry.status = status}

LEMMA InGroup ==
    ASSUME NEW entries, NEW status
    PROVE  In(GroupBy(entries, "status"), status) = Cardinality(WithStatus(entries, status))
<1> DEFINE of == GroupBy(entries, "status")
<1>1. CASE status \in DOMAIN of
  <2>1. of[status] = Cardinality({entry \in entries : entry["status"] = status})
    BY <1>1 DEF GroupBy
  <2> QED
    BY <1>1, <2>1 DEF In, WithStatus
<1>2. CASE status \notin DOMAIN of
  <2>1. WithStatus(entries, status) = {}
    BY <1>2 DEF GroupBy, WithStatus
  <2> QED
    BY <1>2, <2>1, FS_EmptySet DEF In
<1> QED
  BY <1>1, <1>2

(* The statuses of the admin dashboard add up to its headline, and less    *)
(* the ones who left to its departments: however many employees there are  *)
(* (statusDistribution, totalEmployees, headcountByDepartment).            *)
THEOREM StaffAddsUp ==
    ASSUME NEW people, IsFiniteSet(DOMAIN people)
    PROVE  LET of == StatusDistribution(people)
           IN  /\ Total(of) = TotalEmployees(people) /\ In(of, "active") = ActiveEmployees(people)
               /\ Total(HeadcountByDepartment(people)) = TotalEmployees(people) - In(of, "offboarded")
<1> DEFINE entries == LiveRows(people)
<1>1. IsFiniteSet(entries)
  BY RowsFinite
<1>2. Total(StatusDistribution(people)) = TotalEmployees(people)
  BY <1>1, GroupsAddUp DEF StatusDistribution, TotalEmployees
<1>3. In(StatusDistribution(people), "active") = ActiveEmployees(people)
  BY InGroup DEF StatusDistribution, ActiveEmployees, WithStatus
<1>4. In(StatusDistribution(people), "offboarded") = Cardinality(WithStatus(entries, "offboarded"))
  BY InGroup DEF StatusDistribution
<1>5. Total(HeadcountByDepartment(people)) = Cardinality(entries \ WithStatus(entries, "offboarded"))
  <2> DEFINE stay == entries \ WithStatus(entries, "offboarded")
  <2>1. HeadcountByDepartment(people) = GroupBy(stay, "department")
    <3>1. stay = {entry \in LiveRows(people) : entry.status # "offboarded"}
      BY DEF WithStatus
    <3> HIDE DEF stay
    <3> QED
      BY <3>1 DEF HeadcountByDepartment
  <2>2. IsFiniteSet(stay)
    BY <1>1, FS_Difference
  <2> HIDE DEF stay
  <2>3. Total(GroupBy(stay, "department")) = Cardinality(stay)
    BY <2>2, GroupsAddUp
  <2> QED
    BY <2>1, <2>3 DEF stay
<1>6. Cardinality(entries \ WithStatus(entries, "offboarded"))
        = Cardinality(entries) - Cardinality(WithStatus(entries, "offboarded"))
  <2>1. entries \intersect WithStatus(entries, "offboarded") = WithStatus(entries, "offboarded")
    BY DEF WithStatus
  <2> HIDE DEF entries
  <2> QED
    BY <1>1, <2>1, FS_Difference
<1> QED
  BY <1>2, <1>3, <1>4, <1>5, <1>6 DEF TotalEmployees

LEMMA PairFinite == IsFiniteSet({e1, e2})
<1>1. {e1, e2} = {e1} \union {e2}
  OBVIOUS
<1>2. IsFiniteSet({e1} \union {e2})
  <2>1. IsFiniteSet({e1}) /\ IsFiniteSet({e2})
    BY FS_Singleton
  <2> QED
    BY <2>1, FS_Union
<1> QED
  BY <1>1, <1>2

LEMMA StaffHolds ==
    ASSUME QuestionKept, rule = "staff"
    PROVE  FiguresAddUp
<1> DEFINE crew == [e \in {e1, e2} |->
                     [department |-> asked[e].department, status |-> asked[e].status,
                      live |-> asked[e].live, specific_employees |-> e]]
<1>1. IsFiniteSet(DOMAIN crew)
  BY PairFinite
<1> HIDE DEF crew
<1>2. /\ Total(StatusDistribution(crew)) = TotalEmployees(crew)
      /\ In(StatusDistribution(crew), "active") = ActiveEmployees(crew)
      /\ Total(HeadcountByDepartment(crew))
           = TotalEmployees(crew) - In(StatusDistribution(crew), "offboarded")
  BY <1>1, StaffAddsUp
<1> QED
  BY <1>2 DEF FiguresAddUp, crew

LEMMA RecordsHold ==
    ASSUME QuestionKept, rule = "records"
    PROVE  FiguresAddUp
<1> DEFINE kept    == {k \in DOMAIN asked : asked[k] # None}
           records == {[employee |-> key[1], date |-> key[2], status |-> asked[key]] : key \in kept}
           trend   == AttendanceTrend(records, Today, Today)
<1>1. asked \in RecordsAsked
  BY QuestionOf
<1>2. IsFiniteSet(kept)
  <2>1. IsFiniteSet(0 .. Today)
    <3>1. 0 \in Int /\ Today \in Int
      BY DEF Today
    <3> QED
      BY <3>1, FS_Interval
  <2>2. IsFiniteSet({e1, e2} \X (0 .. Today))
    BY <2>1, PairFinite, FS_Product
  <2>3. kept \subseteq {e1, e2} \X (0 .. Today)
    BY <1>1 DEF RecordsAsked
  <2> QED
    BY <2>2, <2>3, FS_Subset
<1>3. \A r \in records : r.date \in Int /\ r.date <= Today /\ r.status \in Statuses
  <2>1. \A key \in kept : key[2] \in 0 .. Today /\ asked[key] \in Statuses
    BY <1>1 DEF RecordsAsked, Statuses
  <2> HIDE DEF kept
  <2> QED
    BY <2>1 DEF Today
<1>4. IsFiniteSet(records)
  <2> DEFINE f == [key \in kept |-> [employee |-> key[1], date |-> key[2], status |-> asked[key]]]
  <2>1. DOMAIN f = kept /\ records = {f[key] : key \in DOMAIN f}
    OBVIOUS
  <2> HIDE DEF f, records, kept
  <2> QED
    BY <1>2, <2>1, RangeFinite
<1> HIDE DEF records
<1>5. Today \in Nat /\ Today \in Int /\ Today \in 1 .. Today /\ Today - Today + Today = Today
  BY DEF Today
<1>6. trend[Len(trend)].value = AttendanceToday(records, Today)
  <2>1. Len(trend) = Today
    BY <1>3, <1>5, TrendColumns
  <2>2. trend[Today] = [date |-> Today - Today + Today, value |-> AttendanceToday(records, Today - Today + Today)]
    BY <1>3, <1>5, TrendColumns
  <2> HIDE DEF trend
  <2> QED
    BY <1>5, <2>1, <2>2
<1>7. Total([c \in DOMAIN trend |-> Total(trend[c].value)]) = Cardinality({r \in records : r.date > Today - Today})
  BY <1>3, <1>4, <1>5, TrendAddsUp
<1>8. {r \in records : r.date > Today - Today} = {r \in records : r.date > 0}
  BY DEF Today
<1> HIDE DEF trend
<1> QED
  BY <1>6, <1>7, <1>8 DEF FiguresAddUp, records, trend

LeaveStatuses == {"pending", "approved", "rejected"}

LEMMA LeaveTrendCounts ==
    ASSUME NEW requests, NEW days, NEW today, NEW s \in LeaveStatuses
    PROVE  LeaveTrend(requests, days, today)[s] = Cardinality(WithStatus(Recent(requests, days, today), s))
<1> DEFINE recent == Recent(requests, days, today)
<1> HIDE DEF recent
<1>1. BucketLeaveStatus(GroupBy(recent, "status")) =
        [x \in LeaveStatuses |-> Cardinality({r \in recent : r["status"] = x})]
  BY BucketCounts DEF BucketLeaveStatus, LeaveStatuses
<1>2. {r \in recent : r["status"] = s} = WithStatus(recent, s)
  BY DEF WithStatus
<1> QED
  BY <1>1, <1>2 DEF LeaveTrend, recent

(* The types of leave asked for add up to the statuses of the requests,    *)
(* and a longer trend shows no less of any: as long as none is cancelled,  *)
(* which leaveTrend leaves out and leaveTypeDistribution does not.         *)
THEOREM LeaveAddsUp ==
    ASSUME NEW requests, IsFiniteSet(requests), \A r \in requests : r.status \in LeaveStatuses,
           NEW days, NEW today
    PROVE  Total(LeaveTypeDistribution(requests, days, today)) = Total(LeaveTrend(requests, days, today))
<1> DEFINE recent  == Recent(requests, days, today)
           figures == LeaveTrend(requests, days, today)
           G == [s \in LeaveStatuses |-> WithStatus(recent, s)]
<1>1. IsFiniteSet(recent) /\ \A r \in recent : r.status \in LeaveStatuses
  BY FS_Subset DEF Recent
<1>2. DOMAIN figures = LeaveStatuses
  BY DEF LeaveTrend, BucketLeaveStatus, Bucket, LeaveStatuses
<1>3. \A s \in LeaveStatuses : figures[s] = Cardinality(G[s])
  BY LeaveTrendCounts
<1> HIDE DEF recent
<1>4. Total(LeaveTypeDistribution(requests, days, today)) = Cardinality(recent)
  BY <1>1, GroupsAddUp DEF LeaveTypeDistribution, recent
<1>5. IsFiniteSet(LeaveStatuses)
  <2>1. LeaveStatuses = {"pending"} \union {"approved"} \union {"rejected"}
    BY DEF LeaveStatuses
  <2> QED
    BY <2>1, FS_Singleton, FS_Union
<1>6. \A s \in LeaveStatuses : IsFiniteSet(G[s])
  BY <1>1, FS_Subset DEF WithStatus
<1>7. \A x, y \in LeaveStatuses : x # y => G[x] \intersect G[y] = {}
  BY DEF WithStatus
<1>8. Joined(G, LeaveStatuses) = recent
  BY <1>1 DEF Joined, WithStatus
<1> HIDE DEF figures, G
<1>9. Total(figures) = Cardinality(Joined(G, DOMAIN figures))
  BY <1>2, <1>3, <1>5, <1>6, <1>7, TotalCounts
<1> QED
  BY <1>2, <1>4, <1>8, <1>9 DEF figures

LEMMA RecentGrows ==
    ASSUME NEW requests, \A r \in requests : r.created \in Int, NEW today \in Int
    PROVE  Recent(requests, 1, today) \subseteq Recent(requests, 2, today)
<1> DEFINE first(days) == DaysAgoWindow(days, today).from * DayLength
<1>1. first(1) = today * DayLength /\ first(2) = today * DayLength - DayLength
  <2>1. DaysAgoWindow(1, today).from = today /\ DaysAgoWindow(2, today).from = today - 1
    BY DEF DaysAgoWindow
  <2>2. (today - 1) * DayLength = today * DayLength - DayLength
    BY LocalTimeAssumption
  <2> QED
    BY <2>1, <2>2
<1>2. today * DayLength \in Int /\ DayLength \in Nat
  BY LocalTimeAssumption
<1> HIDE DEF first
<1>3. \A r \in requests : r.created >= first(1) => r.created >= first(2)
  BY <1>1, <1>2
<1> QED
  BY <1>3 DEF Recent, first

LEMMA OneEach ==
    ASSUME NEW S, IsFiniteSet(S), NEW f, S \subseteq DOMAIN f,
           \A x, y \in S : f[x] = f[y] => x = y
    PROVE  Cardinality({f[x] : x \in S}) = Cardinality(S)
<1> DEFINE T == {f[x] : x \in S}
           g == [x \in S |-> f[x]]
<1>1. g \in [S -> T] /\ \A x, y \in S : g[x] = g[y] => x = y
  OBVIOUS
<1>2. \A y \in T : \E x \in S : g[x] = y
  OBVIOUS
<1> HIDE DEF g, T
<1>3. g \in Bijection(S, T)
  BY <1>1, <1>2 DEF Bijection, Injection, Surjection, IsInjective
<1>4. Cardinality(T) = Cardinality(S)
  <2>1. ExistsBijection(S, T)
    BY <1>3 DEF ExistsBijection
  <2> QED
    BY <2>1, FS_Bijection
<1> QED
  BY <1>4 DEF T

LEMMA RequestsHold ==
    ASSUME QuestionKept, rule = "requests"
    PROVE  FiguresAddUp
<1> DEFINE f == [e \in {e1, e2} |->
                   [employee |-> e, start |-> asked[e].start,
                    end |-> asked[e].start + asked[e].len - 1, type |-> asked[e].type,
                    status |-> asked[e].status, created |-> asked[e].created]]
           requests == {[employee |-> e, start |-> asked[e].start,
                         end |-> asked[e].start + asked[e].len - 1, type |-> asked[e].type,
                         status |-> asked[e].status, created |-> asked[e].created] : e \in {e1, e2}}
<1>1. asked \in RequestsAsked
  BY QuestionOf
<1>2. requests = {f[e] : e \in DOMAIN f} /\ DOMAIN f = {e1, e2}
  OBVIOUS
<1>3. IsFiniteSet(requests)
  <2> HIDE DEF f, requests
  <2> QED
    BY <1>2, PairFinite, RangeFinite
<1>4. \A e \in {e1, e2} : /\ asked[e].status \in LeaveStatuses
                          /\ asked[e].created \in {0, DayLength, Today * DayLength + 1}
                          /\ asked[e].start \in 0 .. Today + 1 /\ asked[e].len \in 1 .. 2
  BY <1>1 DEF RequestsAsked, LeaveStatuses
<1>5. 0 \in Int /\ DayLength \in Int /\ Today * DayLength + 1 \in Int
  BY LocalTimeAssumption DEF Today
<1>6. \A r \in requests : r.status \in LeaveStatuses /\ r.created \in Int
  <2>1. \A e \in {e1, e2} : asked[e].created \in Int
    BY <1>4, <1>5
  <2> QED
    BY <1>4, <2>1
<1>7. OnLeaveToday(requests, Today)
        = Cardinality({e \in {e1, e2} : asked[e].status = "approved"
                         /\ Today \in asked[e].start .. asked[e].start + asked[e].len - 1})
  <2> DEFINE away == {e \in {e1, e2} : asked[e].status = "approved"
                         /\ Today \in asked[e].start .. asked[e].start + asked[e].len - 1}
             entries == {r \in requests : r.status = "approved" /\ r.start <= Today /\ Today <= r.end}
  <2>1. entries = {f[e] : e \in away}
    <3>1. ASSUME NEW e \in {e1, e2} PROVE f[e] \in entries <=> e \in away
      <4>1. f[e] \in requests
        OBVIOUS
      <4>2. /\ f[e].status = asked[e].status /\ f[e].start = asked[e].start
            /\ f[e].end = asked[e].start + asked[e].len - 1
        OBVIOUS
      <4>3. Today \in Int /\ asked[e].start \in Int /\ asked[e].len \in Int
        BY <1>4 DEF Today
      <4> HIDE DEF requests, f
      <4> QED
        BY <4>1, <4>2, <4>3
    <3>2. \A r \in entries : \E e \in {e1, e2} : r = f[e]
      OBVIOUS
    <3>3. away \subseteq {e1, e2}
      OBVIOUS
    <3> HIDE DEF f, away, entries
    <3> QED
      BY <3>1, <3>2, <3>3
  <2>2. \A x, y \in away : f[x] = f[y] => x = y
    OBVIOUS
  <2>3. IsFiniteSet(away) /\ away \subseteq DOMAIN f
    BY PairFinite, FS_Subset
  <2> HIDE DEF f, away
  <2>4. Cardinality({f[e] : e \in away}) = Cardinality(away)
    BY <2>2, <2>3, OneEach
  <2> QED
    BY <2>1, <2>4 DEF OnLeaveToday, away
<1> HIDE DEF requests
<1>8. Total(LeaveTypeDistribution(requests, 2, Today)) = Total(LeaveTrend(requests, 2, Today))
  BY <1>3, <1>6, LeaveAddsUp
<1>9. ASSUME NEW s \in {"pending", "approved"}
      PROVE  LeaveTrend(requests, 1, Today)[s] <= LeaveTrend(requests, 2, Today)[s]
  <2> DEFINE few  == WithStatus(Recent(requests, 1, Today), s)
             many == WithStatus(Recent(requests, 2, Today), s)
  <2>1. s \in LeaveStatuses
    BY <1>9 DEF LeaveStatuses
  <2>2. LeaveTrend(requests, 1, Today)[s] = Cardinality(few) /\ LeaveTrend(requests, 2, Today)[s] = Cardinality(many)
    BY <2>1, LeaveTrendCounts
  <2>3. few \subseteq many
    <3>1. Today \in Int
      BY DEF Today
    <3>2. Recent(requests, 1, Today) \subseteq Recent(requests, 2, Today)
      BY <3>1, <1>6, RecentGrows
    <3> QED
      BY <3>2 DEF WithStatus
  <2>4. IsFiniteSet(many)
    BY <1>3, FS_Subset DEF WithStatus, Recent
  <2> HIDE DEF few, many
  <2>5. Cardinality(few) <= Cardinality(many)
    BY <2>3, <2>4, FS_Subset
  <2> QED
    BY <2>2, <2>5
<1> QED
  BY <1>7, <1>8, <1>9 DEF FiguresAddUp, requests

LEMMA Tagged ==
    ASSUME NEW x, NEW S, IsFiniteSet(S)
    PROVE  /\ IsFiniteSet({x} \X S) /\ Cardinality({x} \X S) = Cardinality(S)
           /\ IsFiniteSet(S \X {x}) /\ Cardinality(S \X {x}) = Cardinality(S)
<1>1. IsFiniteSet({x}) /\ Cardinality({x}) = 1
  BY FS_Singleton
<1>2. Cardinality(S) \in Nat
  BY FS_CardinalityType
<1>3. IsFiniteSet({x} \X S) /\ Cardinality({x} \X S) = Cardinality({x}) * Cardinality(S)
  BY <1>1, FS_Product
<1>4. IsFiniteSet(S \X {x}) /\ Cardinality(S \X {x}) = Cardinality(S) * Cardinality({x})
  BY <1>1, FS_Product
<1> QED
  BY <1>1, <1>2, <1>3, <1>4

Required(docs) == {d \in docs : Out(d) /\ d.required}

(* Personal documents whose subject left and never signed. *)
Stranded(docs, people) ==
    {doc \in docs : /\ doc.personal /\ Out(doc) /\ doc.required
                    /\ doc.subject \notin Active(people) \union doc.acks}

LEMMA OwesOrLeft ==
    ASSUME NEW people, None \notin DOMAIN people, NEW names, NEW docs, NEW doc \in docs,
           doc.rules \in SUBSET RulesOf(names), doc.personal => doc.subject # None, NEW e
    PROVE  /\ (doc \in Required(docs) /\ e \in Counted(doc, people) \ doc.acks) <=>
                 \/ e \in Active(people) /\ doc \in MyOwedDocuments(e, docs, people)
                 \/ doc \in Stranded(docs, people) /\ e = doc.subject
           /\ ~(e \in Active(people) /\ doc \in Stranded(docs, people) /\ e = doc.subject)
<1>1. CASE doc.personal
  <2>1. Counted(doc, people) = {doc.subject}
    BY <1>1 DEF Counted
  <2>2. doc \in MyOwedDocuments(e, docs, people) <=>
          Out(doc) /\ doc.subject = e /\ doc.required /\ e \notin doc.acks
    BY <1>1 DEF MyOwedDocuments, MyDocuments, ForMe
  <2> QED
    BY <1>1, <2>1, <2>2 DEF Required, Stranded
<1>2. CASE ~doc.personal
  <2>1. Counted(doc, people) = ResolveEmployeeIds(doc.rules, people)
    BY <1>2 DEF Counted
  <2>2. ResolveEmployeeIds(doc.rules, people) \subseteq Active(people)
    BY DEF ResolveEmployeeIds
  <2>3. e \in Active(people) =>
          (e \in ResolveEmployeeIds(doc.rules, people) <=> doc.rules \intersect RulesNaming(people[e]) # {})
    BY RuleReaches
  <2>4. doc \in MyOwedDocuments(e, docs, people) <=>
          /\ Out(doc) /\ doc.rules \intersect RulesNaming(people[e]) # {}
          /\ doc.required /\ e \notin doc.acks
    BY <1>2 DEF MyOwedDocuments, MyDocuments, ForMe
  <2>5. doc \notin Stranded(docs, people)
    BY <1>2 DEF Stranded
  <2> QED
    BY <2>1, <2>2, <2>3, <2>4, <2>5 DEF Required
<1> QED
  BY <1>1, <1>2

LEMMA CountedFinite ==
    ASSUME NEW people, IsFiniteSet(DOMAIN people), NEW doc
    PROVE  IsFiniteSet(Counted(doc, people) \ doc.acks)
<1>1. CASE doc.personal
  <2>1. IsFiniteSet({doc.subject}) /\ Counted(doc, people) \ doc.acks \subseteq {doc.subject}
    BY <1>1, FS_Singleton DEF Counted
  <2> QED
    BY <2>1, FS_Subset
<1>2. CASE ~doc.personal
  <2>1. Counted(doc, people) \ doc.acks \subseteq DOMAIN people
    BY <1>2 DEF Counted, ResolveEmployeeIds, Active
  <2> QED
    BY <2>1, FS_Subset
<1> QED
  BY <1>1, <1>2

Counts(docs, people) ==
    [doc \in Required(docs) |-> Cardinality(Counted(doc, people) \ doc.acks)]
Owes(docs, people) ==
    [e \in Active(people) |-> Cardinality(MyOwedDocuments(e, docs, people))]

(* Who owes which document: an employee who signs, or whom it is for. *)
Owing(docs, people, readers) ==
    {p \in docs \X readers : p[1] \in Required(docs) /\ p[2] \in Counted(p[1], people) \ p[1].acks}
ShownOwed(docs, people, readers) ==
    {p \in docs \X readers : p[2] \in Active(people) /\ p[1] \in MyOwedDocuments(p[2], docs, people)}

LEMMA AudienceTotal ==
    ASSUME NEW people, IsFiniteSet(DOMAIN people), NEW docs, IsFiniteSet(docs), NEW readers,
           \A doc \in docs : Counted(doc, people) \subseteq readers
    PROVE  Total(Counts(docs, people)) = Cardinality(Owing(docs, people, readers))
<1> DEFINE f == Counts(docs, people)
           Due(doc) == Counted(doc, people) \ doc.acks
           G == [doc \in Required(docs) |-> {doc} \X Due(doc)]
<1>1. DOMAIN f = Required(docs) /\ \A doc \in Required(docs) : f[doc] = Cardinality(Due(doc))
  BY DEF Counts
<1>2. IsFiniteSet(Required(docs))
  BY FS_Subset DEF Required
<1>3. \A doc \in Required(docs) : IsFiniteSet(Due(doc))
  BY CountedFinite
<1> HIDE DEF Due
<1>4. ASSUME NEW doc \in Required(docs)
      PROVE  IsFiniteSet(G[doc]) /\ f[doc] = Cardinality(G[doc])
  <2>1. IsFiniteSet({doc} \X Due(doc)) /\ Cardinality({doc} \X Due(doc)) = Cardinality(Due(doc))
    BY <1>3, Tagged
  <2> HIDE DEF f
  <2> QED
    BY <1>1, <2>1
<1>5. \A x, y \in Required(docs) : x # y => G[x] \intersect G[y] = {}
  OBVIOUS
<1>6. Joined(G, Required(docs)) = Owing(docs, people, readers)
  <2>1. ASSUME NEW p \in Joined(G, Required(docs)) PROVE p \in Owing(docs, people, readers)
    <3>1. PICK doc \in Required(docs) : p \in {doc} \X Due(doc)
      BY DEF Joined
    <3>2. doc \in docs
      BY DEF Required
    <3> QED
      BY <3>1, <3>2 DEF Owing, Due
  <2>2. ASSUME NEW p \in Owing(docs, people, readers) PROVE p \in Joined(G, Required(docs))
    <3>1. p[1] \in Required(docs) /\ p \in {p[1]} \X Due(p[1])
      BY DEF Owing, Due
    <3> QED
      BY <3>1 DEF Joined
  <2> QED
    BY <2>1, <2>2
<1> HIDE DEF f, G
<1>7. Total(f) = Cardinality(Joined(G, DOMAIN f))
  BY <1>1, <1>2, <1>4, <1>5, TotalCounts
<1> QED
  BY <1>1, <1>6, <1>7 DEF f

LEMMA FeedTotal ==
    ASSUME NEW people, IsFiniteSet(DOMAIN people), NEW docs, IsFiniteSet(docs), NEW readers,
           Active(people) \subseteq readers
    PROVE  /\ Total(Owes(docs, people)) = Cardinality(ShownOwed(docs, people, readers))
           /\ IsFiniteSet(ShownOwed(docs, people, readers))
<1> DEFINE f == Owes(docs, people)
           Mine(e) == MyOwedDocuments(e, docs, people)
           G == [e \in Active(people) |-> Mine(e) \X {e}]
<1>1. DOMAIN f = Active(people) /\ \A e \in Active(people) : f[e] = Cardinality(Mine(e))
  BY DEF Owes
<1>2. IsFiniteSet(Active(people))
  BY FS_Subset DEF Active
<1>3. \A e : IsFiniteSet(Mine(e)) /\ Mine(e) \subseteq docs
  BY FS_Subset DEF MyOwedDocuments, MyDocuments
<1> HIDE DEF Mine
<1>4. ASSUME NEW e \in Active(people)
      PROVE  IsFiniteSet(G[e]) /\ f[e] = Cardinality(G[e])
  <2>1. IsFiniteSet(Mine(e) \X {e}) /\ Cardinality(Mine(e) \X {e}) = Cardinality(Mine(e))
    BY <1>3, Tagged
  <2> HIDE DEF f
  <2> QED
    BY <1>1, <2>1
<1>5. \A x, y \in Active(people) : x # y => G[x] \intersect G[y] = {}
  OBVIOUS
<1>6. Joined(G, Active(people)) = ShownOwed(docs, people, readers)
  <2>1. ASSUME NEW p \in Joined(G, Active(people)) PROVE p \in ShownOwed(docs, people, readers)
    <3>1. PICK e \in Active(people) : p \in Mine(e) \X {e}
      BY DEF Joined
    <3> QED
      BY <1>3, <3>1 DEF ShownOwed, Mine
  <2>2. ASSUME NEW p \in ShownOwed(docs, people, readers) PROVE p \in Joined(G, Active(people))
    <3>1. p[2] \in Active(people) /\ p \in Mine(p[2]) \X {p[2]}
      BY DEF ShownOwed, Mine
    <3> QED
      BY <3>1 DEF Joined
  <2> QED
    BY <2>1, <2>2
<1> HIDE DEF f, G
<1>7. Total(f) = Cardinality(Joined(G, DOMAIN f))
  BY <1>1, <1>2, <1>4, <1>5, TotalCounts
<1>8. IsFiniteSet(Joined(G, Active(people)))
  BY <1>2, <1>4, JoinedFinite
<1> QED
  BY <1>1, <1>6, <1>7, <1>8 DEF f

(* The missing signatures of the admin dashboard are what the employees    *)
(* see they owe and the personal documents of those who left: of any people *)
(* and any documents (countPendingRequiredDocAcks, myDocuments).           *)
THEOREM OwedAddsUp ==
    ASSUME NEW people, IsFiniteSet(DOMAIN people), None \notin DOMAIN people,
           NEW names, NEW docs, IsFiniteSet(docs),
           \A doc \in docs : doc.rules \in SUBSET RulesOf(names) /\ (doc.personal => doc.subject # None)
    PROVE  PendingRequiredDocAcks(docs, people)
             = Total(Owes(docs, people)) + Cardinality(Stranded(docs, people))
<1> DEFINE readers == DOMAIN people \union {doc.subject : doc \in docs}
           Strays  == [doc \in Stranded(docs, people) |-> <<doc, doc.subject>>]
           gone  == {Strays[doc] : doc \in Stranded(docs, people)}
           owing == Owing(docs, people, readers)
           owed  == ShownOwed(docs, people, readers)
<1>1. PendingRequiredDocAcks(docs, people) = Total(Counts(docs, people))
  BY DEF PendingRequiredDocAcks, Counts, Required
<1>2. Active(people) \subseteq readers /\ \A doc \in docs : Counted(doc, people) \subseteq readers
  BY DEF Active, Counted, ResolveEmployeeIds
<1>3. IsFiniteSet(Stranded(docs, people)) /\ Stranded(docs, people) \subseteq docs
  BY FS_Subset DEF Stranded
<1>4. Cardinality(gone) = Cardinality(Stranded(docs, people)) /\ IsFiniteSet(gone)
  <2>1. DOMAIN Strays = Stranded(docs, people) /\ \A x, y \in Stranded(docs, people) : Strays[x] = Strays[y] => x = y
    OBVIOUS
  <2> HIDE DEF Strays
  <2>2. Cardinality(gone) = Cardinality(Stranded(docs, people))
    BY <1>3, <2>1, OneEach
  <2>3. IsFiniteSet({Strays[doc] : doc \in DOMAIN Strays})
    BY <1>3, <2>1, RangeFinite
  <2> QED
    BY <2>1, <2>2, <2>3
<1>5. \A p : p \in gone <=> /\ p \in docs \X readers
                            /\ p[1] \in Stranded(docs, people) /\ p[2] = p[1].subject
  <2>1. ASSUME NEW p \in gone
        PROVE  p \in docs \X readers /\ p[1] \in Stranded(docs, people) /\ p[2] = p[1].subject
    BY <1>3
  <2>2. ASSUME NEW p \in docs \X readers, p[1] \in Stranded(docs, people), p[2] = p[1].subject
        PROVE  p \in gone
    <3>1. p = <<p[1], p[2]>> /\ Strays[p[1]] = <<p[1], p[1].subject>>
      BY <2>2
    <3> QED
      BY <2>2, <3>1
  <2> QED
    BY <2>1, <2>2
<1> HIDE DEF gone, readers
<1>6. ASSUME NEW p \in docs \X readers
      PROVE  p \in owing <=> p \in owed \/ p \in gone
  <2>1. p[1] \in docs
    OBVIOUS
  <2>2. (p[1] \in Required(docs) /\ p[2] \in Counted(p[1], people) \ p[1].acks) <=>
          \/ p[2] \in Active(people) /\ p[1] \in MyOwedDocuments(p[2], docs, people)
          \/ p[1] \in Stranded(docs, people) /\ p[2] = p[1].subject
    BY <2>1, OwesOrLeft
  <2> QED
    BY <1>5, <2>2 DEF Owing, ShownOwed
<1>7. ASSUME NEW p \in owed, p \in gone PROVE FALSE
  <2>1. p[1] \in docs /\ p[2] \in Active(people)
    BY <1>7 DEF ShownOwed
  <2>2. p[1] \in Stranded(docs, people) /\ p[2] = p[1].subject
    BY <1>5, <1>7
  <2> DEFINE doc == p[1]
             e   == p[2]
  <2>3. doc \in docs /\ e \in Active(people) /\ doc \in Stranded(docs, people) /\ e = doc.subject
    BY <2>1, <2>2
  <2> HIDE DEF doc, e
  <2> QED
    BY <2>3, OwesOrLeft
<1>8. owing = owed \union gone /\ owed \intersect gone = {}
  <2>1. owing \subseteq docs \X readers /\ owed \subseteq docs \X readers /\ gone \subseteq docs \X readers
    BY <1>5 DEF Owing, ShownOwed
  <2> HIDE DEF owing, owed
  <2> QED
    BY <1>6, <1>7, <2>1
<1>9. Total(Counts(docs, people)) = Cardinality(owing)
  BY <1>2, AudienceTotal
<1>10. Total(Owes(docs, people)) = Cardinality(owed) /\ IsFiniteSet(owed)
  BY <1>2, FeedTotal
<1> HIDE DEF owing, owed
<1>11. Cardinality(owing) = Cardinality(owed) + Cardinality(gone)
  BY <1>4, <1>8, <1>10, SizeApart
<1> QED
  BY <1>1, <1>4, <1>9, <1>10, <1>11

LEMMA TasksHold == QuestionKept => TasksAddUp
<1> SUFFICES ASSUME QuestionKept, rule = "readers" PROVE TasksAddUp
  BY DEF TasksAddUp
<1> DEFINE names == {"d", "g", "l", "full_time", "intern", e1, e2}
           docs   == {asked.doc, Handbook}
<1>1. DOMAIN Staff = {e1, e2} /\ None \notin DOMAIN Staff
  BY NoneAssumption DEF Staff
<1>2. asked.doc \in AnyDocument
  BY QuestionOf DEF ReadersAsked
<1>3. Rules \subseteq RulesOf(names)
  BY DEF Rules, RulesOf, Traits
<1>4. asked.doc.rules \subseteq Rules /\ (asked.doc.personal => asked.doc.subject # None)
  BY <1>2, NoneAssumption DEF AnyDocument, Document, Audiences
<1>5. Handbook.rules \subseteq Rules /\ ~Handbook.personal
  BY DEF Handbook, Document, Rules
<1>6. \A doc \in docs : doc.rules \in SUBSET RulesOf(names) /\ (doc.personal => doc.subject # None)
  BY <1>3, <1>4, <1>5
<1>7. IsFiniteSet(docs)
  <2>1. docs = {asked.doc} \union {Handbook}
    OBVIOUS
  <2>2. IsFiniteSet({asked.doc}) /\ IsFiniteSet({Handbook})
    BY FS_Singleton
  <2> HIDE DEF docs
  <2> QED
    BY <2>1, <2>2, FS_Union
<1> HIDE DEF docs, names
<1>8. PendingRequiredDocAcks(docs, Staff) = Total(Owes(docs, Staff)) + Cardinality(Stranded(docs, Staff))
  BY <1>1, <1>6, <1>7, PairFinite, OwedAddsUp
<1>9. \A e \in Active(Staff) :
        DashboardOwedNotices(e, docs, Staff) \ MyOwedNotices(e, docs, Staff) \subseteq {n \in docs : n.expired}
  BY DEF DashboardOwedNotices, MyOwedNotices, MyFeed
<1> QED
  BY <1>8, <1>9 DEF TasksAddUp, docs, Owes, Stranded

(* What the dashboards count is what their rows and each other say,        *)
(* whatever the constants.                                                 *)
THEOREM AgreeingDashboards == SpecApart => []DashboardsAddUp
<1>1. QuestionKept => FiguresAddUp
  <2> SUFFICES ASSUME QuestionKept PROVE FiguresAddUp
    OBVIOUS
  <2>1. CASE rule \in {"staff", "records", "requests"}
    BY <2>1, StaffHolds, RecordsHold, RequestsHold
  <2>2. CASE rule \notin {"staff", "records", "requests"}
    BY <2>2 DEF FiguresAddUp
  <2> QED
    BY <2>1, <2>2
<1>2. QuestionKept => DashboardsAddUp
  BY <1>1, TasksHold DEF DashboardsAddUp
<1> QED
  BY <1>2, QuestionStays, PTL

-----------------------------------------------------------------------------
(* The seeds. *)

LEMMA SeedsApart ==
    /\ AtRest => SeedTablesInit /\ RecordsInit /\ DevInit
    /\ [NextApart]_varsApart => [SeedTablesNext]_tableVars /\ [RecordsNext]_recordVars /\ [DevNext]_devVars
<1>1. AtRest => SeedTablesInit /\ RecordsInit /\ DevInit
  BY DEF AtRest, SeedsAtRest, TablesAtRest, RecordsAtRest, DevAtRest
<1>2. UNCHANGED varsApart => UNCHANGED <<tableVars, recordVars, devVars>>
  BY DEF varsApart, seedVars
<1>3. NextApart => [SeedTablesNext]_tableVars /\ [RecordsNext]_recordVars /\ [DevNext]_devVars
  BY DEF NextApart, seedVars
<1> QED
  BY <1>1, <1>2, <1>3

(* What is made up for an employee.  Open requests share no day, and once  *)
(* the books are closed they and the attendance are what the requests say. *)
Requests == [kind: LeaveKinds, start: -DaysBack .. DaysOn, len: 1 .. MaxLen, status: Blocks \union {"rejected"}]

OpenApart ==
    \A i, k \in DOMAIN drawn :
        i < k /\ {drawn[i].status, drawn[k].status} \subseteq Blocks => Span(drawn[i]) \intersect Span(drawn[k]) = {}

Entered(requests, kind, status) ==
    {d \in (DOMAIN requests) \X (-DaysBack .. DaysOn + MaxLen) :
        LET r == requests[d[1]]
        IN  r.kind = kind /\ r.status = status /\ d[2] \in Span(r)}

Closed ==
    books # << >> =>
        /\ draws = 0
        /\ \A kind \in DOMAIN books, s \in Blocks : books[kind][s] = Cardinality(Entered(drawn, kind, s))
        /\ \A day \in DOMAIN sheet : (sheet[day] = "on_leave") <=> day \in TakenBy({"approved"})

RecordsKept == drawn \in Seq(Requests) /\ OpenApart /\ Closed

LEMMA DrawKeeps == RecordsKept /\ (\E r \in Requests : Draw(r)) => RecordsKept'
<1> SUFFICES ASSUME RecordsKept, NEW r \in Requests, Draw(r) PROVE RecordsKept'
  OBVIOUS
<1>1. drawn' = drawn \/ drawn' = Append(drawn, r)
  BY DEF Draw
<1>2. drawn' \in Seq(Requests)
  BY <1>1 DEF RecordsKept
<1>3. Closed'
  <2>1. books = << >> /\ books' = books
    BY DEF RecordsKept, Closed, Draw
  <2> QED
    BY <2>1 DEF Closed
<1>4. CASE drawn' = drawn
  BY <1>2, <1>3, <1>4 DEF RecordsKept, OpenApart
<1>5. CASE drawn' = Append(drawn, r) /\ drawn' # drawn
  <2>1. r.status \in Blocks => Span(r) \intersect TakenBy(Blocks) = {}
    BY <1>5 DEF Draw
  <2>2. /\ DOMAIN drawn = 1 .. Len(drawn) /\ Len(drawn) \in Nat
        /\ DOMAIN drawn' = 1 .. Len(drawn) + 1 /\ drawn'[Len(drawn) + 1] = r
        /\ \A i \in DOMAIN drawn : drawn'[i] = drawn[i]
    BY <1>5 DEF RecordsKept
  <2>3. ASSUME NEW i \in DOMAIN drawn, drawn[i].status \in Blocks
        PROVE  Span(drawn[i]) \subseteq TakenBy(Blocks)
    BY <2>3 DEF TakenBy, ToSet
  <2>4. ASSUME NEW i \in DOMAIN drawn', NEW k \in DOMAIN drawn', i < k,
               {drawn'[i].status, drawn'[k].status} \subseteq Blocks
        PROVE  Span(drawn'[i]) \intersect Span(drawn'[k]) = {}
    <3>1. i \in DOMAIN drawn
      BY <2>2, <2>4
    <3>2. CASE k \in DOMAIN drawn
      BY <2>2, <2>4, <3>1, <3>2 DEF RecordsKept, OpenApart
    <3>3. CASE k \notin DOMAIN drawn
      <4>1. drawn'[k] = r /\ drawn'[i] = drawn[i]
        BY <2>2, <3>1, <3>3
      <4> QED
        BY <2>1, <2>3, <2>4, <3>1, <4>1
    <3> QED
      BY <3>2, <3>3
  <2>5. OpenApart'
    BY <2>4 DEF OpenApart, Span
  <2> QED
    BY <1>2, <1>3, <2>5 DEF RecordsKept
<1> QED
  BY <1>1, <1>4, <1>5

LEMMA BalancesAddUp ==
    ASSUME drawn \in Seq(Requests), NEW kind \in DOMAIN Balances, NEW s \in Blocks
    PROVE  Balances[kind][s] = Cardinality(Entered(drawn, kind, s))
<1> DEFINE picked == {i \in DOMAIN drawn : drawn[i].kind = kind /\ drawn[i].status = s}
           days == [i \in picked |-> drawn[i].len]
           G    == [i \in picked |-> {i} \X Span(drawn[i])]
<1>1. Balances[kind][s] = Total(days)
  BY DEF Balances, Total
<1>2. DOMAIN drawn = 1 .. Len(drawn) /\ Len(drawn) \in Nat
  OBVIOUS
<1>3. IsFiniteSet(picked)
  <2>1. IsFiniteSet(1 .. Len(drawn))
    BY <1>2, FS_Interval
  <2>2. picked \subseteq 1 .. Len(drawn)
    BY <1>2
  <2> HIDE DEF picked
  <2> QED
    BY <2>1, <2>2, FS_Subset
<1>4. ASSUME NEW i \in picked
      PROVE  IsFiniteSet(G[i]) /\ days[i] = Cardinality(G[i])
  <2> DEFINE start == drawn[i].start
             len   == drawn[i].len
  <2>1. drawn[i] \in Requests
    BY <1>2
  <2>2. start \in Int /\ len \in Nat /\ len >= 1
    BY <2>1 DEF Requests
  <2> HIDE DEF start, len
  <2>3. IsFiniteSet(start .. start + len - 1) /\ Cardinality(start .. start + len - 1) = len
    <3>1. start + len - 1 \in Int /\ start <= start + len - 1 /\ (start + len - 1) - start + 1 = len
      BY <2>2
    <3>2. /\ IsFiniteSet(start .. start + len - 1)
          /\ Cardinality(start .. start + len - 1) = (start + len - 1) - start + 1
      BY <2>2, <3>1, FS_Interval
    <3> QED
      BY <3>1, <3>2
  <2>4. Span(drawn[i]) = start .. start + len - 1
    BY DEF Span, start, len
  <2>5. IsFiniteSet({i} \X Span(drawn[i])) /\ Cardinality({i} \X Span(drawn[i])) = len
    <3> DEFINE away == Span(drawn[i])
    <3>1. IsFiniteSet(away) /\ Cardinality(away) = len
      BY <2>3, <2>4
    <3> HIDE DEF away
    <3>2. IsFiniteSet({i} \X away) /\ Cardinality({i} \X away) = len
      BY <3>1, Tagged
    <3> QED
      BY <3>2 DEF away
  <2>6. G[i] = {i} \X Span(drawn[i]) /\ days[i] = drawn[i].len
    OBVIOUS
  <2> HIDE DEF G, days
  <2> QED
    BY <2>5, <2>6 DEF len
<1>5. \A x, y \in picked : x # y => G[x] \intersect G[y] = {}
  OBVIOUS
<1>6. ASSUME NEW i \in picked PROVE Span(drawn[i]) \subseteq -DaysBack .. DaysOn + MaxLen
  <2>1. drawn[i] \in Requests
    BY <1>2
  <2>2. drawn[i].start \in -DaysBack .. DaysOn /\ drawn[i].len \in 1 .. MaxLen
    BY <2>1 DEF Requests
  <2> QED
    BY <2>2, SeedRecordsAssumption, SMTT(30) DEF Span
<1>7. Joined(G, picked) = Entered(drawn, kind, s)
  <2>1. ASSUME NEW d \in Joined(G, picked) PROVE d \in Entered(drawn, kind, s)
    <3>1. PICK i \in picked : d \in {i} \X Span(drawn[i])
      BY DEF Joined
    <3> QED
      BY <1>6, <3>1 DEF Entered
  <2>2. ASSUME NEW d \in Entered(drawn, kind, s) PROVE d \in Joined(G, picked)
    <3>1. d[1] \in picked /\ d \in {d[1]} \X Span(drawn[d[1]])
      BY DEF Entered
    <3> QED
      BY <3>1 DEF Joined
  <2> QED
    BY <2>1, <2>2
<1>8. DOMAIN days = picked
  OBVIOUS
<1> HIDE DEF days, G, picked
<1>9. Total(days) = Cardinality(Joined(G, DOMAIN days))
  BY <1>3, <1>4, <1>5, <1>8, TotalCounts
<1> QED
  BY <1>1, <1>7, <1>8, <1>9

LEMMA AttendKeeps == RecordsKept /\ Attend => RecordsKept'
<1> SUFFICES ASSUME RecordsKept, Attend PROVE RecordsKept'
  OBVIOUS
<1>1. drawn' = drawn /\ draws' = draws /\ draws = 0 /\ books' = Balances
  BY DEF Attend
<1>2. \A kind \in DOMAIN books', s \in Blocks : books'[kind][s] = Cardinality(Entered(drawn, kind, s))
  BY <1>1, BalancesAddUp DEF RecordsKept
<1>3. TakenBy({"approved"})' = TakenBy({"approved"})
  BY <1>1 DEF TakenBy, Span
<1>4. ASSUME NEW day \in DOMAIN sheet'
      PROVE  (sheet'[day] = "on_leave") <=> day \in TakenBy({"approved"})
  <2>1. PICK rolled : /\ \A d \in DOMAIN rolled : rolled[d] \in Rolls(d)
                      /\ sheet' = Restrict(rolled, {d \in DOMAIN rolled : rolled[d] # "none"})
    BY DEF Attend
  <2>2. day \in DOMAIN rolled /\ sheet'[day] = rolled[day] /\ rolled[day] \in Rolls(day)
    BY <2>1 DEF Restrict
  <2> QED
    BY <2>2 DEF Rolls
<1>5. Closed'
  BY <1>1, <1>2, <1>3, <1>4 DEF Closed, Entered, Span
<1>6. OpenApart'
  BY <1>1 DEF RecordsKept, OpenApart, Span
<1> QED
  BY <1>1, <1>5, <1>6 DEF RecordsKept

LEMMA RecordsStep == RecordsKept /\ [RecordsNext]_recordVars => RecordsKept'
<1>1. RecordsKept /\ UNCHANGED recordVars => RecordsKept'
  BY DEF RecordsKept, OpenApart, Closed, Entered, TakenBy, Span, recordVars
<1> QED
  BY <1>1, DrawKeeps, AttendKeeps DEF RecordsNext, Requests

LEMMA RecordsStart == RecordsInit => RecordsKept
  BY DEF RecordsInit, RecordsKept, OpenApart, Closed

(* However many days, requests and draws: nobody is away but as approved,  *)
(* the balances are the sums of the requests and open requests share no    *)
(* day, as verify-demo.ts asks of a seeded organisation.                   *)
THEOREM RecordsHeld == SpecApart => []SeedReconciles
<1>1. RecordsKept => SeedReconciles
  BY DEF RecordsKept, OpenApart, Closed, Entered, SeedReconciles
<1> QED
  BY <1>1, RecordsStart, RecordsStep, SeedsApart, PTL DEF SpecApart

-----------------------------------------------------------------------------
(* The development seed.  A statement behind the run has done its work, and *)
(* what administrators may have changed before it is what it allows for.   *)
Behind(n) == step > n \/ outcome = "done"

StepKept == step \in 0 .. 10 /\ (step > 0 <=> outcome = "running")

AccountKept ==
    /\ account = [there |-> account.there, active |-> account.active, roles |-> account.roles]
    /\ "role" \notin rerouted => account.roles \subseteq {"hr_admin"}
    /\ Behind(1) => account.active = TRUE
    /\ Behind(2) => "hr_admin" \in account.roles

StaffKept ==
    /\ staff \in [DOMAIN staff -> SUBSET {"linked", "active", "archived"}]
    /\ DOMAIN staff \in {{}, {"EMP-002"}, {"other"}}
    /\ \A c \in DOMAIN staff : "linked" \in staff[c]
    /\ "other" \in DOMAIN staff => "code" \in rerouted
    /\ "employee" \notin rerouted => \A c \in DOMAIN staff : "archived" \notin staff[c]
    /\ Behind(3) => DOMAIN staff = {"EMP-002"} /\ "active" \in staff["EMP-002"]

CalendarKept ==
    /\ calendar = [there |-> calendar.there, named |-> calendar.named, live |-> calendar.live,
                   default |-> calendar.default, holidays |-> calendar.holidays]
    /\ {calendar.there, calendar.named, calendar.live, calendar.default, rival} \subseteq BOOLEAN
    /\ ~calendar.there => ~calendar.live /\ ~rival
    /\ calendar.there /\ ~calendar.named => "name" \in rerouted
    /\ calendar.there /\ ~rival => calendar.live /\ calendar.default
    /\ rival => "default" \in rerouted
    /\ Behind(4) => calendar.named /\ calendar.default /\ ~(calendar.live <=> rival)
    /\ Behind(5) => month + 1 \in calendar.holidays
    /\ Behind(6) => month + 2 \in calendar.holidays

WelcomeKept ==
    /\ welcome = [i \in DOMAIN welcome |-> welcome[i]]
    /\ \E n \in Nat : DOMAIN welcome = 1 .. n
    /\ "title" \notin rerouted => DOMAIN welcome = Titled /\ Titled \in {{}, {1}}
    /\ "welcome" \notin rerouted => \A i \in DOMAIN welcome : "published" \in welcome[i]
    /\ Behind(7) => Titled # {}
    /\ Behind(8) => \E i \in Titled : "everybody" \in welcome[i]

TypeKept ==
    /\ "coded" \notin leaveType => leaveType = {} \/ "typeCode" \in rerouted
    /\ "type" \notin rerouted => leaveType = {} \/ "live" \in leaveType
    /\ "coded" \in leaveType => "there" \in leaveType
    /\ leaveType # {} => "there" \in leaveType
    /\ Behind(9) => "coded" \in leaveType

BalanceKept == Behind(10) => balance = Accrual

RefusalKept == outcome = "refused" => rerouted \intersect {"code", "default", "name", "typeCode"} # {}

DevKept ==
    /\ StepKept /\ AccountKept /\ StaffKept /\ CalendarKept /\ WelcomeKept /\ TypeKept
    /\ BalanceKept /\ RefusalKept

LEMMA StepStays == StepKept /\ DevNext => StepKept'
<1> SUFFICES ASSUME StepKept, DevNext PROVE StepKept'
  OBVIOUS
<1>1. CASE StartDevSeed
  BY <1>1 DEF StartDevSeed, StepKept
<1>2. CASE DevStatement
  <2>1. CASE step = 10
    <3>1. step' = 0 /\ outcome' = "done"
      BY <1>2, <2>1 DEF DevStatement
    <3> QED
      BY <3>1 DEF StepKept
  <2>2. CASE step \in 1 .. 9
    <3>1. step' = step + 1 /\ outcome' = outcome
      BY <1>2, <2>2 DEF DevStatement
    <3> QED
      BY <2>2, <3>1 DEF StepKept
  <2> QED
    BY <1>2, <2>1, <2>2 DEF DevStatement
<1>3. CASE Edits
  BY <1>3 DEF Edits, StepKept
<1>4. CASE \E how \in {"refused", "stopped"} : DevBreaksOff(how)
  BY <1>4 DEF DevBreaksOff, StepKept
<1> QED
  BY <1>1, <1>2, <1>3, <1>4 DEF DevNext

(* Only a statement puts a statement behind the run: the one it is.        *)
LEMMA BehindGrows ==
    ASSUME StepKept, DevNext, NEW n \in 1 .. 10, Behind(n)'
    PROVE  DevStatement /\ (Behind(n) \/ step = n)
<1>1. ~StartDevSeed
  BY DEF StartDevSeed, Behind
<1>2. ~Edits
  <2>1. Edits => step' = 0 /\ outcome' = "edited"
    BY DEF Edits
  <2> QED
    BY <2>1 DEF Behind
<1>3. ~\E how \in {"refused", "stopped"} : DevBreaksOff(how)
  BY DEF DevBreaksOff, Behind
<1>4. DevStatement
  BY <1>1, <1>2, <1>3 DEF DevNext
<1>5. CASE step = 10
  BY <1>4, <1>5 DEF Behind
<1>6. CASE step \in 1 .. 9
  <2>1. step' = step + 1 /\ outcome' = outcome
    BY <1>4, <1>6 DEF DevStatement
  <2> QED
    BY <1>4, <1>6, <2>1 DEF Behind
<1> QED
  BY <1>4, <1>5, <1>6 DEF DevStatement

(* An edit of the announcement touches nothing else.                       *)
LEMMA WelcomeEditKeeps ==
    EditsWelcome => /\ UNCHANGED <<account, staff, calendar, rival, leaveType, balance>>
                    /\ rerouted \subseteq rerouted' /\ rerouted' \subseteq rerouted \union {"welcome", "title"}
BY DEF EditsWelcome, ArchivesWelcome, RestoresWelcome, PublishesWelcome, RetitlesWelcome, AddressesWelcome,
       ChangesWelcome

LEMMA AccountStays == StepKept /\ AccountKept /\ DevNext => AccountKept'
<1> SUFFICES ASSUME StepKept, AccountKept, DevNext PROVE AccountKept'
  OBVIOUS
<1> DEFINE Shaped == account = [there |-> account.there, active |-> account.active, roles |-> account.roles]
<1>0. ASSUME DevStatement
      PROVE  \/ step = 1 /\ account' = [account EXCEPT !.there = TRUE, !.active = TRUE]
             \/ step = 2 /\ account' = [account EXCEPT !.roles = @ \union {"hr_admin"}]
             \/ step \notin {1, 2} /\ account' = account
  BY <1>0 DEF DevStatement, UpsertUser, UpsertUserRole, UpsertEmployee, UpsertCalendar, UpsertHoliday,
              FindOrCreateAnnouncement, FindOrCreateAudience, UpsertLeaveType, UpsertBalance
<1>1. Shaped' /\ ("role" \notin rerouted' => account'.roles \subseteq {"hr_admin"})
  <2>1. CASE StartDevSeed
    BY <2>1 DEF StartDevSeed, AccountKept
  <2>2. CASE DevStatement
    BY <2>2 DEF DevStatement, UpsertUser, UpsertUserRole, UpsertEmployee, UpsertCalendar, UpsertHoliday,
                FindOrCreateAnnouncement, FindOrCreateAudience, UpsertLeaveType, UpsertBalance, AccountKept
  <2>3. CASE Edits
    BY <2>3, WelcomeEditKeeps DEF Edits, ChangesRole, Offboards, Recodes, MakesDefault, ArchivesCalendar,
                RenamesCalendar, RecodesType, ArchivesType, AdjustsBalance, AccountKept
  <2>4. CASE \E how \in {"refused", "stopped"} : DevBreaksOff(how)
    BY <2>4 DEF DevBreaksOff, AccountKept
  <2> QED
    BY <2>1, <2>2, <2>3, <2>4 DEF DevNext
<1>2. ASSUME Behind(1)' PROVE account'.active = TRUE
  <2>1. DevStatement /\ (Behind(1) \/ step = 1)
    BY <1>2, BehindGrows
  <2>2. DOMAIN account = {"there", "active", "roles"}
    BY DEF AccountKept
  <2>3. CASE step = 1
    <3>1. account' = [account EXCEPT !.there = TRUE, !.active = TRUE]
      BY <1>0, <2>1, <2>3
    <3>2. account' = [[account EXCEPT !.there = TRUE] EXCEPT !["active"] = TRUE]
      BY <3>1
    <3>3. "active" \in DOMAIN [account EXCEPT !.there = TRUE]
      BY <2>2
    <3> QED
      BY <3>2, <3>3
  <2>4. CASE step = 2
    <3>1. Behind(1)
      BY <2>4 DEF Behind
    <3> QED
      BY <1>0, <2>1, <2>2, <2>4, <3>1 DEF AccountKept
  <2>5. CASE step \notin {1, 2}
    BY <1>0, <2>1, <2>5 DEF AccountKept
  <2> QED
    BY <2>3, <2>4, <2>5
<1>3. ASSUME Behind(2)' PROVE "hr_admin" \in account'.roles
  <2>1. DevStatement /\ (Behind(2) \/ step = 2)
    BY <1>3, BehindGrows
  <2>2. DOMAIN account = {"there", "active", "roles"}
    BY DEF AccountKept
  <2>3. step # 1
    BY <2>1 DEF Behind, StepKept
  <2>4. CASE step = 2
    BY <1>0, <2>1, <2>2, <2>4
  <2>5. CASE step \notin {1, 2}
    BY <1>0, <2>1, <2>5 DEF AccountKept
  <2> QED
    BY <2>3, <2>4, <2>5
<1> QED
  BY <1>1, <1>2, <1>3 DEF AccountKept

LEMMA StaffStays == StepKept /\ StaffKept /\ DevNext => StaffKept'
<1> SUFFICES ASSUME StepKept, StaffKept, DevNext PROVE StaffKept'
  OBVIOUS
<1>1. CASE DevStatement /\ step = 3
  <2>1. UpsertEmployee /\ MayLinkEmployee /\ rerouted' = rerouted
    BY <1>1 DEF DevStatement, Allowed
  <2>2. DOMAIN staff \subseteq {"EMP-002"}
    BY <2>1 DEF MayLinkEmployee, StaffKept
  <2>3. /\ DOMAIN staff' = {"EMP-002"}
        /\ staff'["EMP-002"] = (IF "EMP-002" \in DOMAIN staff THEN staff["EMP-002"] ELSE {}) \union {"linked", "active"}
        /\ staff' = [c \in DOMAIN staff' |-> staff'[c]]
    BY <2>1, <2>2 DEF UpsertEmployee
  <2>4. staff'["EMP-002"] \subseteq {"linked", "active", "archived"}
    BY <2>3 DEF StaffKept
  <2>5. "employee" \notin rerouted' => "archived" \notin staff'["EMP-002"]
    BY <2>1, <2>3 DEF StaffKept
  <2> QED
    BY <2>3, <2>4, <2>5 DEF StaffKept
<1>2. CASE Edits
  <2>0. ~Behind(3)'
    BY <1>2 DEF Edits, Behind
  <2>1. CASE Offboards
    <3>1. rerouted' = rerouted \union {"employee"}
      BY <2>1 DEF Offboards
    <3>2. PICK c \in DOMAIN staff : staff' = [staff EXCEPT ![c] = (@ \ {"active"}) \union {"archived"}]
      BY <2>1 DEF Offboards
    <3>3. DOMAIN staff' = DOMAIN staff /\ staff' \in [DOMAIN staff -> SUBSET {"linked", "active", "archived"}]
      BY <3>2 DEF StaffKept
    <3>4. \A d \in DOMAIN staff : "linked" \in staff'[d]
      BY <3>2 DEF StaffKept
    <3> QED
      BY <2>0, <3>1, <3>3, <3>4 DEF StaffKept
  <2>2. CASE Recodes
    <3>1. /\ rerouted' = rerouted \union {"code"}
          /\ DOMAIN staff = {"EMP-002"} /\ "archived" \notin staff["EMP-002"]
          /\ staff' = [c \in {"other"} |-> staff["EMP-002"]]
      BY <2>2 DEF Recodes
    <3> QED
      BY <2>0, <3>1 DEF StaffKept
  <2>3. CASE ~Offboards /\ ~Recodes
    <3>1. UNCHANGED staff /\ rerouted \subseteq rerouted'
      BY <1>2, <2>3, WelcomeEditKeeps DEF Edits, ChangesRole, MakesDefault, ArchivesCalendar, RenamesCalendar,
                RecodesType, ArchivesType, AdjustsBalance
    <3> QED
      BY <2>0, <3>1 DEF StaffKept
  <2> QED
    BY <2>1, <2>2, <2>3
<1>3. CASE DevStatement /\ step # 3
  <2>1. UNCHANGED <<staff, rerouted>>
    BY <1>3 DEF DevStatement, UpsertUser, UpsertUserRole, UpsertCalendar, UpsertHoliday,
                FindOrCreateAnnouncement, FindOrCreateAudience, UpsertLeaveType, UpsertBalance
  <2>2. Behind(3)' => Behind(3)
    BY <1>3, BehindGrows
  <2> QED
    BY <2>1, <2>2 DEF StaffKept
<1>4. CASE StartDevSeed \/ \E how \in {"refused", "stopped"} : DevBreaksOff(how)
  <2>1. UNCHANGED <<staff, rerouted>>
    BY <1>4 DEF StartDevSeed, DevBreaksOff
  <2>2. ~Behind(3)'
    BY <1>4 DEF StartDevSeed, DevBreaksOff, Behind
  <2> QED
    BY <2>1, <2>2 DEF StaffKept
<1> QED
  BY <1>1, <1>2, <1>3, <1>4 DEF DevNext

LEMMA CalendarStays == StepKept /\ CalendarKept /\ DevNext => CalendarKept'
<1> SUFFICES ASSUME StepKept, CalendarKept, DevNext PROVE CalendarKept'
  OBVIOUS
<1>1. DOMAIN calendar = {"there", "named", "live", "default", "holidays"}
  BY DEF CalendarKept
<1>2. CASE DevStatement /\ step = 4
  <2>1. UpsertCalendar /\ MayDefaultCalendar /\ rerouted' = rerouted /\ rival' = rival /\ month' = month
    BY <1>2 DEF DevStatement, Allowed, UpsertCalendar
  <2>2. /\ calendar' = [there |-> TRUE, named |-> TRUE, live |-> calendar.there => calendar.live,
                        default |-> TRUE, holidays |-> calendar.holidays]
    BY <1>1, <2>1 DEF UpsertCalendar, CalendarKept
  <2>3. Behind(5)' => Behind(5)
    BY <1>2, BehindGrows
  <2>4. Behind(6)' => Behind(6)
    BY <1>2, BehindGrows
  <2>5. ~(calendar'.live <=> rival')
    BY <2>1, <2>2 DEF MayDefaultCalendar, CalendarKept
  <2>6. rival' => ~calendar'.live
    BY <2>1, <2>2 DEF MayDefaultCalendar, CalendarKept
  <2> QED
    BY <2>1, <2>2, <2>3, <2>4, <2>5, <2>6 DEF CalendarKept
<1>3. CASE DevStatement /\ step \in {5, 6}
  <2>1. /\ calendar' = [calendar EXCEPT !.holidays = @ \union {month + (step - 4)}]
        /\ rerouted' = rerouted /\ rival' = rival /\ month' = month
    BY <1>3 DEF DevStatement, UpsertHoliday
  <2>2. calendar' = [there |-> calendar.there, named |-> calendar.named, live |-> calendar.live, default |-> calendar.default,
                     holidays |-> calendar.holidays \union {month + (step - 4)}]
    BY <1>1, <2>1 DEF CalendarKept
  <2>3. Behind(4)
    BY <1>3 DEF Behind
  <2>4. Behind(5)' => Behind(5) \/ step = 5
    BY BehindGrows
  <2>5. Behind(6)' => Behind(6) \/ step = 6
    BY BehindGrows
  <2>6. (step = 5 => month + 1 \in calendar'.holidays) /\ (step = 6 => month + 2 \in calendar'.holidays)
    BY <2>2
  <2>7. calendar.holidays \subseteq calendar'.holidays
    BY <2>2
  <2>8. /\ Behind(5)' => month' + 1 \in calendar'.holidays
        /\ Behind(6)' => month' + 2 \in calendar'.holidays
    BY <2>1, <2>4, <2>5, <2>6, <2>7 DEF CalendarKept
  <2> QED
    BY <2>1, <2>2, <2>3, <2>8 DEF CalendarKept
<1>4. CASE DevStatement /\ step \notin {4, 5, 6}
  <2>1. UNCHANGED <<calendar, rival, rerouted, month>>
    BY <1>4 DEF DevStatement, UpsertUser, UpsertUserRole, UpsertEmployee,
                FindOrCreateAnnouncement, FindOrCreateAudience, UpsertLeaveType, UpsertBalance
  <2>2. Behind(4)' => Behind(4)
    BY <1>4, BehindGrows
  <2>3. Behind(5)' => Behind(5)
    BY <1>4, BehindGrows
  <2>4. Behind(6)' => Behind(6)
    BY <1>4, BehindGrows
  <2> QED
    BY <2>1, <2>2, <2>3, <2>4 DEF CalendarKept
<1>5. CASE ~DevStatement
  <2>1. ~Behind(4)' /\ ~Behind(5)' /\ ~Behind(6)'
    BY <1>5, BehindGrows
  <2>2. CASE Edits
    <3>1. CASE MakesDefault(TRUE)
      <4>1. /\ calendar' = [there |-> calendar.there, named |-> calendar.named, live |-> calendar.live, default |-> TRUE,
                            holidays |-> calendar.holidays]
            /\ calendar.live /\ calendar.there /\ rival' = FALSE /\ rerouted \subseteq rerouted'
        BY <1>1, <3>1 DEF MakesDefault, CalendarKept
      <4> QED
        BY <2>1, <4>1 DEF CalendarKept
    <3>2. CASE MakesDefault(FALSE)
      <4>1. /\ calendar' = [there |-> calendar.there, named |-> calendar.named, live |-> calendar.live, default |-> FALSE,
                            holidays |-> calendar.holidays]
            /\ calendar.there /\ rival' = TRUE /\ rerouted' = rerouted \union {"default"}
        BY <1>1, <3>2 DEF MakesDefault, CalendarKept
      <4> QED
        BY <2>1, <4>1 DEF CalendarKept
    <3>3. ASSUME NEW live \in BOOLEAN, ArchivesCalendar(live) PROVE CalendarKept'
      <4>1. /\ calendar' = [there |-> calendar.there, named |-> calendar.named, live |-> live,
                            default |-> calendar.default, holidays |-> calendar.holidays]
            /\ calendar.there /\ ~calendar.default /\ rival' = rival /\ rerouted' = rerouted
        BY <1>1, <3>3 DEF ArchivesCalendar, CalendarKept
      <4> QED
        BY <2>1, <4>1 DEF CalendarKept
    <3>5. CASE RenamesCalendar
      <4>1. /\ calendar' = [there |-> calendar.there, named |-> ~calendar.named, live |-> calendar.live,
                            default |-> calendar.default, holidays |-> calendar.holidays]
            /\ calendar.live /\ rival' = rival /\ rerouted' = rerouted \union {"name"}
        BY <1>1, <3>5 DEF RenamesCalendar, CalendarKept
      <4> QED
        BY <2>1, <4>1 DEF CalendarKept
    <3>4. CASE \/ ChangesRole \/ Offboards \/ Recodes \/ EditsWelcome \/ RecodesType \/ ArchivesType
               \/ AdjustsBalance
      <4>1. UNCHANGED <<calendar, rival>> /\ rerouted \subseteq rerouted'
        BY <3>4, WelcomeEditKeeps DEF ChangesRole, Offboards, Recodes, RecodesType, ArchivesType, AdjustsBalance
      <4> QED
        BY <2>1, <4>1 DEF CalendarKept
    <3> QED
      BY <2>2, <3>1, <3>2, <3>3, <3>4, <3>5 DEF Edits
  <2>3. CASE StartDevSeed \/ \E how \in {"refused", "stopped"} : DevBreaksOff(how)
    <3>1. UNCHANGED <<calendar, rival, rerouted>>
      BY <2>3 DEF StartDevSeed, DevBreaksOff
    <3> QED
      BY <2>1, <3>1 DEF CalendarKept
  <2> QED
    BY <1>5, <2>2, <2>3 DEF DevNext
<1> QED
  BY <1>2, <1>3, <1>4, <1>5

LEMMA WelcomeCreated ==
    ASSUME StepKept, WelcomeKept, DevStatement, step = 7
    PROVE  WelcomeKept'
<1>0. FindOrCreateAnnouncement /\ rerouted' = rerouted
  BY DEF DevStatement
<1>1. ~Behind(8)'
  BY BehindGrows DEF Behind, StepKept, DevNext
<1>2. CASE Titled # {}
  <2>1. welcome' = welcome
    BY <1>0, <1>2 DEF FindOrCreateAnnouncement
  <2> QED
    BY <1>0, <1>1, <1>2, <2>1 DEF WelcomeKept, Titled
<1>3. CASE Titled = {}
  <2>1. PICK n \in Nat : DOMAIN welcome = 1 .. n
    BY DEF WelcomeKept
  <2>2. Cardinality(DOMAIN welcome) = n
    <3>1. 1 \in Int /\ n \in Int /\ (1 <= n \/ n = 0)
      OBVIOUS
    <3>2. Cardinality(1 .. n) = IF 1 > n THEN 0 ELSE n - 1 + 1
      BY <3>1, FS_Interval
    <3> QED
      BY <2>1, <3>1, <3>2
  <2>3. welcome' = [i \in (1 .. n) \union {n + 1} |-> IF i \in 1 .. n THEN welcome[i] ELSE {"titled", "published"}]
    BY <1>0, <1>3, <2>1, <2>2 DEF FindOrCreateAnnouncement
  <2>4. (1 .. n) \union {n + 1} = 1 .. n + 1 /\ n + 1 \in Nat /\ n + 1 \notin 1 .. n
    OBVIOUS
  <2>5. DOMAIN welcome' = 1 .. n + 1 /\ welcome' = [i \in DOMAIN welcome' |-> welcome'[i]]
    BY <2>3, <2>4
  <2>6. welcome'[n + 1] = {"titled", "published"} /\ \A i \in 1 .. n : welcome'[i] = welcome[i]
    BY <2>3, <2>4
  <2>7. Titled' = {n + 1}
    <3>1. \A i \in 1 .. n : "titled" \notin welcome[i]
      BY <1>3, <2>1 DEF Titled
    <3> QED
      BY <2>4, <2>5, <2>6, <3>1 DEF Titled
  <2>8. "title" \notin rerouted' => DOMAIN welcome' = Titled' /\ Titled' \in {{}, {1}}
    <3>1. "title" \notin rerouted' => n = 0
      BY <1>0, <1>3, <2>1 DEF WelcomeKept
    <3>2. n = 0 => n + 1 = 1 /\ 1 .. n + 1 = {1}
      OBVIOUS
    <3> QED
      BY <2>5, <2>7, <3>1, <3>2
  <2>9. "welcome" \notin rerouted' => \A i \in DOMAIN welcome' : "published" \in welcome'[i]
    <3>1. \A i \in 1 .. n + 1 : i \in 1 .. n \/ i = n + 1
      BY <2>4
    <3> QED
      BY <1>0, <2>1, <2>5, <2>6, <3>1 DEF WelcomeKept
  <2> QED
    BY <1>1, <2>4, <2>5, <2>7, <2>8, <2>9 DEF WelcomeKept
<1> QED
  BY <1>2, <1>3

(* What one announcement becomes, of however many there are.               *)
LEMMA WelcomeChanged ==
    ASSUME WelcomeKept, NEW k \in DOMAIN welcome, NEW to, welcome' = [welcome EXCEPT ![k] = to]
    PROVE  /\ DOMAIN welcome' = DOMAIN welcome /\ welcome' = [i \in DOMAIN welcome' |-> welcome'[i]]
           /\ \E n \in Nat : DOMAIN welcome' = 1 .. n
           /\ welcome'[k] = to /\ \A i \in DOMAIN welcome : i # k => welcome'[i] = welcome[i]
           /\ ("titled" \in to <=> "titled" \in welcome[k]) => Titled' = Titled
BY DEF WelcomeKept, Titled

LEMMA WelcomeEdited ==
    ASSUME WelcomeKept, EditsWelcome, ~Behind(7)', ~Behind(8)'
    PROVE  WelcomeKept'
<1>1. PICK k \in DOMAIN welcome :
          \/ ArchivesWelcome(k) \/ RestoresWelcome(k) \/ PublishesWelcome(k)
          \/ RetitlesWelcome(k) \/ AddressesWelcome(k)
  BY DEF EditsWelcome
<1>2. CASE ArchivesWelcome(k)
  <2> DEFINE to == (welcome[k] \ {"published"}) \union {"archived"}
  <2>1. welcome' = [welcome EXCEPT ![k] = to] /\ rerouted' = rerouted \union {"welcome"}
    BY <1>2 DEF ArchivesWelcome, ChangesWelcome
  <2>2. "titled" \in to <=> "titled" \in welcome[k]
    OBVIOUS
  <2> QED
    BY <2>1, <2>2, WelcomeChanged DEF WelcomeKept
<1>3. CASE RestoresWelcome(k) \/ PublishesWelcome(k) \/ AddressesWelcome(k)
  <2>1. PICK to : /\ welcome' = [welcome EXCEPT ![k] = to] /\ rerouted' = rerouted
                  /\ "titled" \in to <=> "titled" \in welcome[k]
                  /\ "published" \in welcome[k] => "published" \in to
    BY <1>3 DEF RestoresWelcome, PublishesWelcome, AddressesWelcome, ChangesWelcome
  <2> QED
    BY <2>1, WelcomeChanged DEF WelcomeKept
<1>4. CASE RetitlesWelcome(k)
  <2>1. PICK to : /\ welcome' = [welcome EXCEPT ![k] = to] /\ rerouted' = rerouted \union {"title"}
                  /\ "published" \in welcome[k] => "published" \in to
    BY <1>4 DEF RetitlesWelcome, ChangesWelcome
  <2> QED
    BY <2>1, WelcomeChanged DEF WelcomeKept
<1> QED
  BY <1>1, <1>2, <1>3, <1>4

LEMMA WelcomeStays == StepKept /\ WelcomeKept /\ DevNext => WelcomeKept'
<1> SUFFICES ASSUME StepKept, WelcomeKept, DevNext PROVE WelcomeKept'
  OBVIOUS
<1>1. CASE DevStatement /\ step = 7
  BY <1>1, WelcomeCreated
<1>2. CASE DevStatement /\ step = 8
  <2>1. PICK k \in Titled : welcome' = [welcome EXCEPT ![k] = @ \union {"everybody"}]
    BY <1>2 DEF DevStatement, FindOrCreateAudience
  <2>2. k \in DOMAIN welcome /\ rerouted' = rerouted /\ Behind(7)
    BY <1>2 DEF Titled, Behind, DevStatement
  <2>3. Titled' = Titled /\ "everybody" \in welcome'[k]
    BY <2>1, <2>2, WelcomeChanged
  <2> QED
    BY <2>1, <2>2, <2>3, WelcomeChanged DEF WelcomeKept
<1>3. CASE DevStatement /\ step \notin {7, 8}
  <2>1. welcome' = welcome /\ rerouted' = rerouted
    BY <1>3 DEF DevStatement, UpsertUser, UpsertUserRole, UpsertEmployee, UpsertCalendar, UpsertHoliday,
                UpsertLeaveType, UpsertBalance
  <2>2. Behind(7)' => Behind(7)
    BY <1>3, BehindGrows
  <2>3. Behind(8)' => Behind(8)
    BY <1>3, BehindGrows
  <2> QED
    BY <2>1, <2>2, <2>3 DEF WelcomeKept, Titled
<1>4. CASE ~DevStatement
  <2>1. ~Behind(7)' /\ ~Behind(8)'
    BY <1>4, BehindGrows
  <2>2. CASE Edits /\ EditsWelcome
    BY <2>1, <2>2, WelcomeEdited
  <2>3. CASE ~(Edits /\ EditsWelcome)
    <3>1. welcome' = welcome /\ rerouted \subseteq rerouted'
      BY <1>4, <2>3 DEF DevNext, StartDevSeed, DevBreaksOff, Edits, ChangesRole, Offboards, Recodes, MakesDefault,
                        ArchivesCalendar, RenamesCalendar, RecodesType, ArchivesType, AdjustsBalance
    <3> QED
      BY <2>1, <3>1 DEF WelcomeKept, Titled
  <2> QED
    BY <2>2, <2>3
<1> QED
  BY <1>1, <1>2, <1>3, <1>4

LEMMA TypeStays == StepKept /\ TypeKept /\ DevNext => TypeKept'
<1> SUFFICES ASSUME StepKept, TypeKept, DevNext PROVE TypeKept'
  OBVIOUS
<1>1. CASE DevStatement /\ step = 9
  <2>1. UpsertLeaveType /\ MayNameType /\ rerouted' = rerouted
    BY <1>1 DEF DevStatement, Allowed
  <2> QED
    BY <2>1 DEF UpsertLeaveType, MayNameType, TypeKept
<1>2. CASE DevStatement /\ step # 9
  <2>1. leaveType' = leaveType /\ rerouted' = rerouted
    BY <1>2 DEF DevStatement, UpsertUser, UpsertUserRole, UpsertEmployee, UpsertCalendar, UpsertHoliday,
                FindOrCreateAnnouncement, FindOrCreateAudience, UpsertBalance
  <2>2. Behind(9)' => Behind(9)
    BY <1>2, BehindGrows
  <2> QED
    BY <2>1, <2>2 DEF TypeKept
<1>3. CASE ~DevStatement
  <2>1. ~Behind(9)'
    BY <1>3, BehindGrows
  <2>2. CASE Edits /\ RecodesType
    BY <2>1, <2>2 DEF RecodesType, TypeKept
  <2>3. CASE Edits /\ ArchivesType
    BY <2>1, <2>3 DEF ArchivesType, TypeKept
  <2>4. CASE ~(Edits /\ (RecodesType \/ ArchivesType))
    <3>1. leaveType' = leaveType /\ rerouted \subseteq rerouted'
      BY <1>3, <2>4, WelcomeEditKeeps DEF DevNext, StartDevSeed, DevBreaksOff, Edits, ChangesRole, Offboards,
         Recodes, MakesDefault, ArchivesCalendar, RenamesCalendar, AdjustsBalance
    <3> QED
      BY <2>1, <3>1 DEF TypeKept
  <2> QED
    BY <2>2, <2>3, <2>4
<1> QED
  BY <1>1, <1>2, <1>3

LEMMA BalanceStays == StepKept /\ BalanceKept /\ DevNext => BalanceKept'
<1> SUFFICES ASSUME StepKept, BalanceKept, DevNext, Behind(10)' PROVE balance' = Accrual
  BY DEF BalanceKept
<1>1. DevStatement /\ (Behind(10) \/ step = 10)
  BY BehindGrows
<1>2. step = 10
  BY <1>1 DEF DevStatement, StepKept, Behind
<1> QED
  BY <1>1, <1>2 DEF DevStatement, UpsertBalance

(* Only another code, name or default calendar makes the database refuse a *)
(* statement.                                                              *)
LEMMA RefusalStays ==
    StepKept /\ StaffKept /\ CalendarKept /\ TypeKept /\ RefusalKept /\ DevNext => RefusalKept'
<1> SUFFICES ASSUME StepKept, StaffKept, CalendarKept, TypeKept, DevNext, outcome' = "refused"
             PROVE  rerouted' \intersect {"code", "default", "name", "typeCode"} # {}
  BY DEF RefusalKept
<1>1. ~Allowed /\ rerouted' = rerouted
  <2>1. ~StartDevSeed
    BY DEF StartDevSeed
  <2>2. ~Edits
    BY DEF Edits
  <2>3. CASE DevBreaksOff("refused")
    BY <2>3 DEF DevBreaksOff
  <2>4. CASE DevBreaksOff("stopped")
    BY <2>4 DEF DevBreaksOff
  <2>5. CASE DevStatement
    BY <2>5 DEF DevStatement, StepKept
  <2> QED
    BY <2>1, <2>2, <2>3, <2>4, <2>5 DEF DevNext
<1>2. ~MayLinkEmployee => "code" \in rerouted
  BY DEF MayLinkEmployee, StaffKept
<1>3. ~MayDefaultCalendar => "default" \in rerouted \/ "name" \in rerouted
  BY DEF MayDefaultCalendar, CalendarKept
<1>4. ~MayNameType => "typeCode" \in rerouted
  BY DEF MayNameType, TypeKept
<1> QED
  BY <1>1, <1>2, <1>3, <1>4 DEF Allowed

LEMMA DevStays == DevKept /\ [DevNext]_devVars => DevKept'
<1>1. DevKept /\ DevNext => DevKept'
  BY StepStays, AccountStays, StaffStays, CalendarStays, WelcomeStays, TypeStays, BalanceStays,
     RefusalStays DEF DevKept
<1>2. DevKept /\ UNCHANGED devVars => DevKept'
  <2> SUFFICES ASSUME DevKept, UNCHANGED devVars PROVE DevKept'
    OBVIOUS
  <2>1. StepKept' /\ BalanceKept' /\ RefusalKept'
    BY DEF DevKept, devVars, StepKept, BalanceKept, RefusalKept, Behind
  <2>2. AccountKept' /\ StaffKept'
    BY DEF DevKept, devVars, AccountKept, StaffKept, Behind
  <2>3. CalendarKept' /\ WelcomeKept' /\ TypeKept'
    BY DEF DevKept, devVars, CalendarKept, WelcomeKept, Titled, TypeKept, Behind
  <2> QED
    BY <2>1, <2>2, <2>3 DEF DevKept
<1> QED
  BY <1>1, <1>2

LEMMA DevStarts == DevInit => DevKept
<1> SUFFICES ASSUME DevInit PROVE DevKept
  OBVIOUS
<1>1. StepKept /\ TypeKept /\ BalanceKept /\ RefusalKept /\ AccountKept
  BY DEF DevInit, StepKept, TypeKept, BalanceKept, RefusalKept, AccountKept, Behind
<1>2. StaffKept
  <2>1. DOMAIN staff = {}
    BY DEF DevInit
  <2>2. staff \in [DOMAIN staff -> SUBSET {"linked", "active", "archived"}]
    BY DEF DevInit
  <2> QED
    BY <2>1, <2>2 DEF DevInit, StaffKept, Behind
<1>3. CalendarKept
  <2>1. ~Behind(4) /\ ~Behind(5) /\ ~Behind(6) /\ rival = FALSE
    BY DEF DevInit, Behind
  <2>2. /\ calendar.there = FALSE /\ calendar.named = FALSE /\ calendar.live = FALSE
        /\ calendar.default = FALSE /\ calendar.holidays = {}
        /\ calendar = [there |-> FALSE, named |-> FALSE, live |-> FALSE, default |-> FALSE, holidays |-> {}]
    BY DEF DevInit
  <2>3. calendar = [there |-> calendar.there, named |-> calendar.named, live |-> calendar.live,
                    default |-> calendar.default, holidays |-> calendar.holidays]
    BY <2>2
  <2> QED
    BY <2>1, <2>2, <2>3 DEF CalendarKept
<1>4. WelcomeKept
  <2>1. DOMAIN welcome = 1 .. 0 /\ 0 \in Nat
    BY DEF DevInit
  <2>2. DOMAIN welcome = {} /\ Titled = {} /\ welcome = [i \in DOMAIN welcome |-> welcome[i]]
    BY DEF DevInit, Titled
  <2> QED
    BY <2>1, <2>2 DEF DevInit, WelcomeKept, Behind
<1> QED
  BY <1>1, <1>2, <1>3, <1>4 DEF DevKept

(* seed-dev.ts: whatever was stopped halfway and whatever administrators   *)
(* did to its rows in the ways modelled, a run that ends leaves what it    *)
(* seeds, once each and in use, but for what it is known not to undo, and  *)
(* the database refuses it only after another code, name or default        *)
(* calendar.                                                               *)
THEOREM DevSeedReruns == SpecApart => []DevReruns
<1>1. DevKept => DevReruns
  <2> SUFFICES ASSUME DevKept PROVE DevReruns
    OBVIOUS
  <2>1. ASSUME outcome = "done"
        PROVE  Behind(1) /\ Behind(2) /\ Behind(3) /\ Behind(4) /\ Behind(5) /\ Behind(6) /\ Behind(7)
               /\ Behind(8) /\ Behind(9) /\ Behind(10)
    BY <2>1 DEF Behind
  <2>2. ASSUME outcome = "done"
        PROVE  /\ account.active /\ "hr_admin" \in account.roles
               /\ "role" \notin rerouted => account.roles = {"hr_admin"}
    BY <2>1, <2>2 DEF DevKept, AccountKept
  <2>3. ASSUME outcome = "done"
        PROVE  /\ DOMAIN staff = {"EMP-002"} /\ {"linked", "active"} \subseteq staff["EMP-002"]
               /\ "employee" \notin rerouted => "archived" \notin staff["EMP-002"]
    BY <2>1, <2>3 DEF DevKept, StaffKept
  <2>4. ASSUME outcome = "done"
        PROVE  /\ calendar.named /\ calendar.default /\ ~(calendar.live <=> rival)
               /\ {month + 1, month + 2} \subseteq calendar.holidays
    BY <2>1, <2>4 DEF DevKept, CalendarKept
  <2>5. ASSUME outcome = "done"
        PROVE  /\ \E i \in Titled : "everybody" \in welcome[i]
               /\ "title" \notin rerouted => DOMAIN welcome = Titled /\ Titled = {1}
               /\ "welcome" \notin rerouted => \A i \in Titled : "published" \in welcome[i]
    <3>1. Titled # {} /\ \E i \in Titled : "everybody" \in welcome[i]
      BY <2>1, <2>5 DEF DevKept, WelcomeKept
    <3>2. "title" \notin rerouted => DOMAIN welcome = Titled /\ Titled = {1}
      BY <3>1 DEF DevKept, WelcomeKept
    <3>3. "welcome" \notin rerouted => \A i \in Titled : "published" \in welcome[i]
      BY DEF DevKept, WelcomeKept, Titled
    <3> QED
      BY <3>1, <3>2, <3>3
  <2>6. ASSUME outcome = "done"
        PROVE  "coded" \in leaveType /\ ("type" \notin rerouted => "live" \in leaveType)
    BY <2>1, <2>6 DEF DevKept, TypeKept
  <2>7. ASSUME outcome = "done" PROVE balance = Accrual
    BY <2>1, <2>7 DEF DevKept, BalanceKept
  <2> QED
    BY <2>2, <2>3, <2>4, <2>5, <2>6, <2>7 DEF DevReruns, DevKept, RefusalKept
<1> QED
  BY <1>1, DevStarts, DevStays, SeedsApart, PTL DEF SpecApart

-----------------------------------------------------------------------------
(* The demo and bench seeds.  What goes with the rows of a set of tables   *)
(* is the least set that holds it and all that cascades from it.           *)
Cascades == Needs \ Restricts

ClosedUnder(edges, ts) == \A edge \in edges : edge[2] \in ts => edge[1] \in ts

Grown(ts) == ts \union {edge[1] : edge \in {n \in Cascades : n[2] \in ts}}

Least(gone, ts) ==
    /\ ts \subseteq gone /\ gone \subseteq AllTables /\ ClosedUnder(Cascades, gone)
    /\ \A c \in SUBSET AllTables : ts \subseteq c /\ ClosedUnder(Cascades, c) => gone \subseteq c

LEMMA FourFinite ==
    ASSUME NEW a, NEW b, NEW c, NEW d
    PROVE  IsFiniteSet({a, b, c, d})
<1>1. IsFiniteSet({})
  BY FS_EmptySet
<1>2. IsFiniteSet({} \union {a})
  BY <1>1, FS_AddElement
<1>3. IsFiniteSet(({} \union {a}) \union {b})
  BY <1>2, FS_AddElement
<1>4. IsFiniteSet((({} \union {a}) \union {b}) \union {c})
  BY <1>3, FS_AddElement
<1>5. IsFiniteSet(((({} \union {a}) \union {b}) \union {c}) \union {d})
  BY <1>4, FS_AddElement
<1>6. ((({} \union {a}) \union {b}) \union {c}) \union {d} = {a, b, c, d}
  OBVIOUS
<1> QED
  BY <1>5, <1>6

LEMMA TablesFinite == IsFiniteSet(AllTables)
<1> DEFINE A == {"orgSetting", "role", "department", "designation"}
           B == {"location", "attendancePolicy", "leaveType", "holidayCalendar"}
           C == {"announcement", "documentCategory", "invite", "auditLog"}
           D == {"user", "employee", "refreshToken", "userRole"}
           E == {"rolePermission", "notification", "notificationPreference", "passwordResetToken"}
           F == {"twoFactorChallenge", "attendanceRecord", "attendanceRegularization", "leaveBalance"}
           G == {"leaveRequest", "leaveApproval", "holiday", "locationHolidayCalendar"}
           H == {"announcementAudience", "announcementAcknowledgement", "document", "documentVersion"}
           I == {"documentAudience", "documentAcknowledgement", "organization", "organization"}
<1>1. /\ IsFiniteSet(A) /\ IsFiniteSet(B) /\ IsFiniteSet(C) /\ IsFiniteSet(D) /\ IsFiniteSet(E)
      /\ IsFiniteSet(F) /\ IsFiniteSet(G) /\ IsFiniteSet(H) /\ IsFiniteSet(I)
  BY FourFinite
<1>2. \A edge \in Needs : edge[1] \in A \/ edge[1] \in B \/ edge[1] \in C \/ edge[1] \in D \/ edge[1] \in E
                          \/ edge[1] \in F \/ edge[1] \in G \/ edge[1] \in H \/ edge[1] \in I
  BY DEF Needs, OfOrganization
<1>3. "organization" \in I
  OBVIOUS
<1> HIDE DEF A, B, C, D, E, F, G, H, I
<1> DEFINE J == A \union B
           K == C \union D
           L == E \union F
           M == G \union H
           N == J \union K
           O == L \union M
           P == N \union O
           Q == P \union I
<1>4. IsFiniteSet(J) /\ IsFiniteSet(K) /\ IsFiniteSet(L) /\ IsFiniteSet(M)
  BY <1>1, FS_Union
<1>5. AllTables \subseteq Q
  BY <1>2, <1>3 DEF AllTables
<1> HIDE DEF J, K, L, M
<1>6. IsFiniteSet(N) /\ IsFiniteSet(O)
  BY <1>4, FS_Union
<1> HIDE DEF N, O
<1>7. IsFiniteSet(P)
  BY <1>6, FS_Union
<1> HIDE DEF P
<1>8. IsFiniteSet(Q)
  BY <1>1, <1>7, FS_Union
<1> QED
  BY <1>5, <1>8, FS_Subset

LEMMA GrownInside ==
    ASSUME NEW ts \in SUBSET AllTables
    PROVE  /\ ts \subseteq Grown(ts) /\ Grown(ts) \subseteq AllTables
           /\ \A c : ts \subseteq c /\ ClosedUnder(Cascades, c) => Grown(ts) \subseteq c
           /\ Grown(ts) = ts => ClosedUnder(Cascades, ts)
<1>1. \A edge \in Cascades : edge \in Needs
  BY DEF Cascades
<1> QED
  BY <1>1 DEF Grown, ClosedUnder, AllTables

LEMMA GoesIs == \A ts \in SUBSET AllTables : Goes[ts] = IF Grown(ts) = ts THEN ts ELSE Goes[Grown(ts)]
<1> DEFINE Solves(f) == f = [ts \in SUBSET AllTables |-> IF Grown(ts) = ts THEN ts ELSE f[Grown(ts)]]
           g == [ts \in SUBSET AllTables |->
                    {t \in AllTables : \A c \in SUBSET AllTables :
                        ts \subseteq c /\ ClosedUnder(Cascades, c) => t \in c}]
<1>1. Solves(g)
  <2>1. ASSUME NEW ts \in SUBSET AllTables
        PROVE  g[ts] = IF Grown(ts) = ts THEN ts ELSE g[Grown(ts)]
    <3>1. CASE Grown(ts) = ts
      BY <3>1, GrownInside
    <3>2. CASE Grown(ts) # ts
      <4>1. Grown(ts) \in SUBSET AllTables
        BY GrownInside
      <4>2. \A c \in SUBSET AllTables : ClosedUnder(Cascades, c) => (ts \subseteq c <=> Grown(ts) \subseteq c)
        BY GrownInside
      <4> QED
        BY <3>2, <4>1, <4>2
    <3> QED
      BY <3>1, <3>2
  <2> HIDE DEF g
  <2>2. g = [ts \in SUBSET AllTables |-> g[ts]]
    BY DEF g
  <2> QED
    BY <2>1, <2>2
<1>2. Goes = CHOOSE f : Solves(f)
  BY DEF Goes, Grown, Cascades
<1> HIDE DEF g
<1>3. Solves(Goes)
  BY <1>1, <1>2
<1> QED
  BY <1>3

LEMMA GoesLeast == \A ts \in SUBSET AllTables : Least(Goes[ts], ts)
<1> DEFINE Bad == {ts \in SUBSET AllTables : ~Least(Goes[ts], ts)}
           Left == {AllTables \ ts : ts \in Bad}
<1> SUFFICES ASSUME Bad # {} PROVE FALSE
  OBVIOUS
<1>1. PICK x \in Left : \A y \in Left : y \subseteq x => y = x
  <2>1. Left \in SUBSET SUBSET AllTables /\ Left # {}
    OBVIOUS
  <2> HIDE DEF Left
  <2> QED
    BY <2>1, TablesFinite, LeastSubset
<1>2. PICK ts \in Bad : x = AllTables \ ts
  OBVIOUS
<1>3. Goes[ts] = IF Grown(ts) = ts THEN ts ELSE Goes[Grown(ts)]
  BY GoesIs
<1>4. CASE Grown(ts) = ts
  <2>1. Least(ts, ts)
    BY <1>4, GrownInside DEF Least
  <2> QED
    BY <1>3, <1>4, <2>1
<1>5. CASE Grown(ts) # ts
  <2>1. Grown(ts) \in SUBSET AllTables /\ ts \subseteq Grown(ts)
    BY GrownInside
  <2>2. Least(Goes[Grown(ts)], Grown(ts))
    <3>1. AllTables \ Grown(ts) \subseteq x /\ AllTables \ Grown(ts) # x
      BY <1>2, <1>5, <2>1
    <3> QED
      BY <1>1, <2>1, <3>1
  <2>3. Least(Goes[Grown(ts)], ts)
    BY <2>1, <2>2, GrownInside DEF Least
  <2> QED
    BY <1>3, <1>5, <2>3
<1> QED
  BY <1>4, <1>5

LEMMA AreTables ==
    /\ OfOrganization \subseteq AllTables
    /\ {"organization", "refreshToken", "userRole", "rolePermission", "notification", "attendanceRecord",
        "attendanceRegularization", "leaveBalance", "leaveRequest", "leaveApproval", "holiday",
        "locationHolidayCalendar", "announcementAudience", "announcementAcknowledgement", "documentVersion",
        "document", "documentAudience", "documentAcknowledgement"} \subseteq AllTables
<1>1. \A t \in OfOrganization : <<t, "organization">> \in Needs
  BY DEF Needs
<1>2. \A edge \in Needs : edge[1] \in AllTables
  BY DEF AllTables
<1>3. OfOrganization \subseteq AllTables
  <2>1. ASSUME NEW t \in OfOrganization PROVE t \in AllTables
    <3>1. <<t, "organization">> \in Needs /\ <<t, "organization">>[1] = t
      BY <1>1
    <3> QED
      BY <1>2, <3>1
  <2> QED
    BY <2>1
<1>4. \A t, n : <<t, n>> \in Needs => t \in AllTables
  <2>1. ASSUME NEW t, NEW n, <<t, n>> \in Needs PROVE t \in AllTables
    <3>1. <<t, n>>[1] = t
      OBVIOUS
    <3> QED
      BY <1>2, <2>1, <3>1
  <2> QED
    BY <2>1
<1>5. /\ <<"refreshToken", "user">> \in Needs /\ <<"userRole", "user">> \in Needs
      /\ <<"rolePermission", "role">> \in Needs /\ <<"notification", "user">> \in Needs
      /\ <<"attendanceRecord", "employee">> \in Needs /\ <<"attendanceRegularization", "employee">> \in Needs
      /\ <<"leaveBalance", "employee">> \in Needs /\ <<"leaveRequest", "employee">> \in Needs
      /\ <<"leaveApproval", "leaveRequest">> \in Needs /\ <<"holiday", "holidayCalendar">> \in Needs
      /\ <<"locationHolidayCalendar", "location">> \in Needs
      /\ <<"announcementAudience", "announcement">> \in Needs
      /\ <<"announcementAcknowledgement", "employee">> \in Needs
      /\ <<"documentVersion", "document">> \in Needs /\ <<"document", "documentCategory">> \in Needs
      /\ <<"documentAudience", "document">> \in Needs /\ <<"documentAcknowledgement", "document">> \in Needs
  BY DEF Needs
<1>6. "organization" \in AllTables
  BY DEF AllTables
<1> QED
  BY <1>3, <1>4, <1>5, <1>6

LEMMA NeedsIs == \A t, n : n \in NeededBy(t) <=> <<t, n>> \in Needs
<1>1. \A edge \in Needs : edge = <<edge[1], edge[2]>>
  BY DEF Needs, OfOrganization
<1> QED
  BY <1>1 DEF NeededBy

(* Without its organization no row is there.                               *)
Whole(ts) == ts \subseteq AllTables /\ \A t \in ts : NeededBy(t) \subseteq ts

LEMMA Rooted == \A ts : Whole(ts) /\ "organization" \notin ts => ts = {}
<1> SUFFICES ASSUME NEW ts, Whole(ts), "organization" \notin ts PROVE ts = {}
  OBVIOUS
<1>1. \A edge \in Needs : edge[1] \in ts => edge[2] \in ts
  BY DEF Whole, NeededBy
<1>2. \A t, n : <<t, n>> \in Needs => (t \in ts => n \in ts)
  <2>1. ASSUME NEW t, NEW n, <<t, n>> \in Needs PROVE t \in ts => n \in ts
    <3>1. <<t, n>>[1] = t /\ <<t, n>>[2] = n
      OBVIOUS
    <3> QED
      BY <1>1, <2>1, <3>1
  <2> QED
    BY <2>1
<1>3. \A t \in OfOrganization : t \notin ts
  BY <1>2 DEF Needs
<1>4. "leaveRequest" \notin ts /\ "document" \notin ts
  <2>1. <<"leaveRequest", "employee">> \in Needs /\ <<"document", "documentCategory">> \in Needs
    BY DEF Needs
  <2> QED
    BY <1>2, <1>3, <2>1 DEF OfOrganization
<1>5. \A edge \in Needs : edge[2] \in OfOrganization \union {"organization", "leaveRequest", "document"}
  BY DEF Needs, OfOrganization
<1>6. \A edge \in Needs : edge[2] \notin ts
  BY <1>3, <1>4, <1>5
<1> QED
  BY <1>1, <1>6 DEF Whole, AllTables

LEMMA OneGoes ==
    ASSUME NEW t \in AllTables
    PROVE  /\ t \in Goes[{t}] /\ ClosedUnder(Cascades, Goes[{t}])
           /\ \A n \in {"organization", "leaveType", "documentCategory"} :
                 n \in Goes[{t}] => t = n \/ t = "organization"
<1>1. Least(Goes[{t}], {t})
  BY GoesLeast
<1> DEFINE c == (AllTables \ {"organization", "leaveType", "documentCategory"}) \union {t}
<1>2. ASSUME t # "organization" PROVE ClosedUnder(Cascades, c)
  <2>1. \A edge \in Needs : /\ edge[1] \in AllTables /\ edge[1] # "organization"
                            /\ edge[1] \in {"leaveType", "documentCategory"} => edge[2] = "organization"
    <3>1. \A edge \in Needs : edge[1] # "organization"
      BY DEF Needs, OfOrganization
    <3>2. \A edge \in Needs : edge[1] \in {"leaveType", "documentCategory"} => edge[2] = "organization"
      BY DEF Needs, OfOrganization
    <3> QED
      BY <3>1, <3>2 DEF AllTables
  <2> QED
    BY <1>2, <2>1 DEF ClosedUnder, Cascades
<1>3. c \in SUBSET AllTables /\ {t} \subseteq c
  OBVIOUS
<1>4. t # "organization" => Goes[{t}] \subseteq c
  BY <1>1, <1>2, <1>3 DEF Least
<1> QED
  BY <1>1, <1>4 DEF Least

(* Rows that nothing keeps from going leave none that need them.           *)
LEMMA WipeKeepsWhole ==
    ASSUME NEW t \in AllTables, Whole(stored), ~Kept(t)
    PROVE  Whole(stored \ Goes[{t}])
<1> DEFINE gone == Goes[{t}]
<1>1. ClosedUnder(Cascades, gone)
  BY OneGoes
<1>2. \A edge \in Restricts : ~(edge[1] \in stored /\ edge[2] \in gone /\ edge[2] \in stored)
  BY DEF Kept
<1> HIDE DEF gone
<1>3. ASSUME NEW u \in stored \ gone, NEW n \in NeededBy(u) PROVE n \in stored \ gone
  <2>1. PICK edge \in Needs : edge[1] = u /\ edge[2] = n
    BY DEF NeededBy
  <2>2. n \in stored
    BY DEF Whole
  <2> QED
    BY <1>1, <1>2, <2>1, <2>2 DEF ClosedUnder, Cascades
<1>4. Whole(stored \ gone)
  BY <1>3 DEF Whole
<1> QED
  BY <1>4 DEF gone

-----------------------------------------------------------------------------
(* The scripts.  Each statement finds what it needs: made before it, or    *)
(* there; and what would keep a table from going is wiped before it.       *)
Steps == ({"wipe", "make"} \X AllTables) \union ({"need"} \X {"passwords", "storage"})

MadeBy(s) == {s[i][2] : i \in {j \in DOMAIN s : s[j][1] = "make"}}

Orderly(s, have) ==
    \A i \in DOMAIN s : s[i][1] = "make" =>
        \A n \in NeededBy(s[i][2]) : n \in have \/ \E k \in 1 .. i - 1 : s[k] = Make(n)

Unkept(w, have) ==
    \A i \in DOMAIN w, edge \in Restricts :
        edge[2] \in Goes[{w[i][2]}] /\ edge[1] \in have => \E k \in 1 .. i - 1 : w[k] = Wipe(edge[1])

NoWipe(s) == \A i \in DOMAIN s : s[i][1] # "wipe"

Sound(s, have, ts) == s \in Seq(Steps) /\ NoWipe(s) /\ Orderly(s, have) /\ have \union MadeBy(s) = ts

LEMMA EachMakes ==
    ASSUME NEW ts \in Seq(AllTables)
    PROVE  /\ Each(Make, ts) \in Seq(Steps) /\ Len(Each(Make, ts)) = Len(ts) /\ NoWipe(Each(Make, ts))
           /\ \A i \in 1 .. Len(ts) : Each(Make, ts)[i] = Make(ts[i])
           /\ MadeBy(Each(Make, ts)) = {ts[i] : i \in 1 .. Len(ts)}
<1> DEFINE s == Each(Make, ts)
<1>1. s = [i \in 1 .. Len(ts) |-> <<"make", ts[i]>>]
  BY DEF Each, Make
<1>2. \A i \in 1 .. Len(ts) : <<"make", ts[i]>> \in Steps
  BY DEF Steps
<1>3. s \in [1 .. Len(ts) -> Steps]
  BY <1>1, <1>2
<1> HIDE DEF s
<1>4. s \in Seq(Steps) /\ Len(s) = Len(ts) /\ DOMAIN s = 1 .. Len(ts)
  BY <1>3
<1>5. \A i \in 1 .. Len(ts) : s[i] = Make(ts[i]) /\ s[i][1] = "make" /\ s[i][2] = ts[i]
  BY <1>1 DEF Make
<1>6. MadeBy(s) = {ts[i] : i \in 1 .. Len(ts)} /\ NoWipe(s)
  BY <1>4, <1>5 DEF MadeBy, NoWipe
<1> QED
  BY <1>4, <1>5, <1>6 DEF s

LEMMA SectionSound ==
    ASSUME NEW ts \in Seq(AllTables), NEW have,
           \A i \in 1 .. Len(ts) : \A n : <<ts[i], n>> \in Needs => n \in have \/ \E k \in 1 .. i - 1 : ts[k] = n
    PROVE  Sound(Each(Make, ts), have, have \union {ts[i] : i \in 1 .. Len(ts)})
<1> DEFINE s == Each(Make, ts)
<1>1. /\ s \in Seq(Steps) /\ Len(s) = Len(ts) /\ NoWipe(s)
      /\ \A i \in 1 .. Len(ts) : s[i] = Make(ts[i])
      /\ MadeBy(s) = {ts[i] : i \in 1 .. Len(ts)}
  BY EachMakes
<1> HIDE DEF s
<1>2. DOMAIN s = 1 .. Len(ts)
  BY <1>1
<1>3. ASSUME NEW i \in DOMAIN s, NEW n \in NeededBy(s[i][2])
      PROVE  n \in have \/ \E k \in 1 .. i - 1 : s[k] = Make(n)
  <2>1. s[i][2] = ts[i]
    BY <1>1, <1>2 DEF Make
  <2>2. <<ts[i], n>> \in Needs
    BY <2>1, NeedsIs
  <2>3. n \in have \/ \E k \in 1 .. i - 1 : ts[k] = n
    BY <1>2, <2>2
  <2>4. \A k \in 1 .. i - 1 : k \in 1 .. Len(ts)
    BY <1>2
  <2> QED
    BY <1>1, <2>3, <2>4
<1>4. Orderly(s, have)
  BY <1>3 DEF Orderly
<1> QED
  BY <1>1, <1>4 DEF Sound, s

LEMMA NeedSound ==
    ASSUME NEW what \in {"passwords", "storage"}, NEW have
    PROVE  Sound(<<Need(what)>>, have, have)
<1> DEFINE s == <<Need(what)>>
<1>1. s \in Seq(Steps) /\ DOMAIN s = {1} /\ s[1][1] = "need"
  BY DEF Steps, Need
<1> HIDE DEF s
<1> QED
  BY <1>1 DEF Sound, NoWipe, Orderly, MadeBy, s

LEMMA SoundAppend ==
    ASSUME NEW s, NEW t, NEW a, NEW b, NEW c, Sound(s, a, b), Sound(t, b, c)
    PROVE  Sound(s \o t, a, c)
<1> DEFINE u == s \o t
<1>1. s \in Seq(Steps) /\ t \in Seq(Steps)
  BY DEF Sound
<1>2. /\ u \in Seq(Steps) /\ Len(u) = Len(s) + Len(t)
      /\ \A i \in 1 .. Len(s) + Len(t) : u[i] = IF i <= Len(s) THEN s[i] ELSE t[i - Len(s)]
  BY <1>1, ConcatProperties
<1> HIDE DEF u
<1>3. /\ Len(s) \in Nat /\ Len(t) \in Nat /\ DOMAIN u = 1 .. Len(s) + Len(t)
      /\ DOMAIN s = 1 .. Len(s) /\ DOMAIN t = 1 .. Len(t)
  BY <1>1, <1>2
<1>4. \A i \in DOMAIN s : i \in DOMAIN u /\ u[i] = s[i]
  BY <1>2, <1>3
<1>5. \A i \in DOMAIN t : i + Len(s) \in DOMAIN u /\ u[i + Len(s)] = t[i]
  BY <1>2, <1>3
<1>6. \A i \in DOMAIN u : i \notin DOMAIN s => i - Len(s) \in DOMAIN t /\ u[i] = t[i - Len(s)] /\ i > Len(s)
  BY <1>2, <1>3
<1>7. NoWipe(u)
  BY <1>4, <1>6 DEF Sound, NoWipe
<1>8. MadeBy(u) = MadeBy(s) \union MadeBy(t)
  <2>1. ASSUME NEW x \in MadeBy(u) PROVE x \in MadeBy(s) \union MadeBy(t)
    <3>1. PICK i \in DOMAIN u : u[i][1] = "make" /\ x = u[i][2]
      BY DEF MadeBy
    <3> QED
      BY <1>4, <1>6, <3>1 DEF MadeBy
  <2>2. ASSUME NEW x \in MadeBy(s) PROVE x \in MadeBy(u)
    BY <1>4 DEF MadeBy
  <2>3. ASSUME NEW x \in MadeBy(t) PROVE x \in MadeBy(u)
    <3>1. PICK i \in DOMAIN t : t[i][1] = "make" /\ x = t[i][2]
      BY DEF MadeBy
    <3> QED
      BY <1>5, <3>1 DEF MadeBy
  <2> QED
    BY <2>1, <2>2, <2>3
<1>9. ASSUME NEW i \in DOMAIN u, u[i][1] = "make", NEW n \in NeededBy(u[i][2])
      PROVE  n \in a \/ \E k \in 1 .. i - 1 : u[k] = Make(n)
  <2>1. CASE i \in DOMAIN s
    <3>1. n \in a \/ \E k \in 1 .. i - 1 : s[k] = Make(n)
      BY <1>4, <1>9, <2>1 DEF Sound, Orderly
    <3>2. \A k \in 1 .. i - 1 : k \in DOMAIN s
      BY <1>3, <2>1
    <3> QED
      BY <1>4, <3>1, <3>2
  <2>2. CASE i \notin DOMAIN s
    <3> DEFINE j == i - Len(s)
    <3>1. j \in DOMAIN t /\ u[i] = t[j] /\ i > Len(s)
      BY <1>6, <2>2
    <3>2. n \in b \/ \E k \in 1 .. j - 1 : t[k] = Make(n)
      BY <1>9, <3>1 DEF Sound, Orderly
    <3>3. ASSUME n \in b PROVE n \in a \/ \E k \in 1 .. i - 1 : u[k] = Make(n)
      <4>1. n \in a \/ n \in MadeBy(s)
        BY <3>3 DEF Sound
      <4>2. ASSUME n \in MadeBy(s) PROVE \E k \in 1 .. i - 1 : u[k] = Make(n)
        <5>1. PICK k \in DOMAIN s : s[k][1] = "make" /\ s[k][2] = n
          BY <4>2 DEF MadeBy
        <5>2. s[k] \in Steps
          BY <1>1
        <5>3. s[k] = Make(n)
          BY <5>1, <5>2 DEF Steps, Make
        <5>4. k \in 1 .. i - 1
          BY <1>3, <3>1
        <5> QED
          BY <1>4, <5>3, <5>4
      <4> QED
        BY <4>1, <4>2
    <3>4. ASSUME NEW k \in 1 .. j - 1, t[k] = Make(n) PROVE \E l \in 1 .. i - 1 : u[l] = Make(n)
      <4>1. k \in DOMAIN t /\ k + Len(s) \in 1 .. i - 1
        BY <1>3, <3>1
      <4> QED
        BY <1>5, <3>4, <4>1
    <3> QED
      BY <3>2, <3>3, <3>4
  <2> QED
    BY <2>1, <2>2
<1>10. Orderly(u, a)
  BY <1>9 DEF Orderly
<1> QED
  BY <1>2, <1>7, <1>8, <1>10 DEF Sound, u

CompanyTables == {"organization", "role", "rolePermission", "documentCategory", "location", "department",
                  "designation", "holidayCalendar", "holiday", "locationHolidayCalendar", "attendancePolicy"}

LEMMA CompanySound == Sound(Company, {}, CompanyTables)
<1> DEFINE ts == <<"organization", "role", "rolePermission", "documentCategory", "location", "department",
                   "designation", "holidayCalendar", "holiday", "locationHolidayCalendar", "attendancePolicy">>
<1>1. CompanyTables \subseteq AllTables
  BY AreTables DEF CompanyTables, OfOrganization
<1>2. ts \in Seq(AllTables) /\ Len(ts) = 11
  BY <1>1 DEF CompanyTables
<1>3. /\ ts[1] = "organization" /\ ts[2] = "role" /\ ts[3] = "rolePermission" /\ ts[4] = "documentCategory"
      /\ ts[5] = "location" /\ ts[6] = "department" /\ ts[7] = "designation" /\ ts[8] = "holidayCalendar"
      /\ ts[9] = "holiday" /\ ts[10] = "locationHolidayCalendar" /\ ts[11] = "attendancePolicy"
  OBVIOUS
<1>4. Company = Each(Make, ts)
  BY DEF Company
<1> HIDE DEF ts
<1>5. {ts[i] : i \in 1 .. Len(ts)} = CompanyTables
  BY <1>2, <1>3 DEF CompanyTables
<1>6. \A t \in CompanyTables : \A n : <<t, n>> \in Needs =>
          \/ t # "organization" /\ n = "organization"
          \/ <<t, n>> \in {<<"rolePermission", "role">>, <<"holiday", "holidayCalendar">>,
                           <<"locationHolidayCalendar", "location">>,
                           <<"locationHolidayCalendar", "holidayCalendar">>}
  BY DEF CompanyTables, Needs, OfOrganization
<1>7. ASSUME NEW i \in 1 .. Len(ts), NEW n, <<ts[i], n>> \in Needs
      PROVE  \E k \in 1 .. i - 1 : ts[k] = n
  <2>1. ts[i] \in CompanyTables
    BY <1>5
  <2>2. CASE ts[i] # "organization" /\ n = "organization"
    <3>1. 1 \in 1 .. i - 1
      BY <1>3, <2>2
    <3> QED
      BY <1>3, <2>2, <3>1
  <2>3. CASE ts[i] = "rolePermission" /\ n = "role"
    <3>1. i = 3
      BY <1>2, <1>3, <2>3
    <3> QED
      BY <1>3, <2>3, <3>1
  <2>4. CASE ts[i] = "holiday" /\ n = "holidayCalendar"
    <3>1. i = 9
      BY <1>2, <1>3, <2>4
    <3> QED
      BY <1>3, <2>4, <3>1
  <2>5. CASE ts[i] = "locationHolidayCalendar" /\ n \in {"location", "holidayCalendar"}
    <3>1. i = 10
      BY <1>2, <1>3, <2>5
    <3> QED
      BY <1>3, <2>5, <3>1
  <2> QED
    BY <1>6, <1>7, <2>1, <2>2, <2>3, <2>4, <2>5
<1>8. Sound(Each(Make, ts), {}, {} \union {ts[i] : i \in 1 .. Len(ts)})
  BY <1>2, <1>7, SectionSound
<1> QED
  BY <1>4, <1>5, <1>8

PeopleTables == {"user", "userRole", "employee"}

LEMMA PeopleSound ==
    Sound(Each(Make, <<"user", "userRole", "employee">>), CompanyTables, CompanyTables \union PeopleTables)
<1> DEFINE ts == <<"user", "userRole", "employee">>
<1>1. PeopleTables \subseteq AllTables
  BY AreTables DEF PeopleTables, OfOrganization
<1>2. ts \in Seq(AllTables) /\ Len(ts) = 3 /\ ts[1] = "user" /\ ts[2] = "userRole" /\ ts[3] = "employee"
  BY <1>1 DEF PeopleTables
<1> HIDE DEF ts
<1>3. {ts[i] : i \in 1 .. Len(ts)} = PeopleTables
  BY <1>2 DEF PeopleTables
<1>4. \A t \in PeopleTables : \A n : <<t, n>> \in Needs =>
          n \in {"organization", "role"} \/ <<t, n>> = <<"userRole", "user">>
  BY DEF PeopleTables, Needs, OfOrganization
<1>5. ASSUME NEW i \in 1 .. Len(ts), NEW n, <<ts[i], n>> \in Needs
      PROVE  n \in CompanyTables \/ \E k \in 1 .. i - 1 : ts[k] = n
  <2>1. ts[i] \in PeopleTables
    BY <1>3
  <2>2. CASE n \in {"organization", "role"}
    BY <2>2 DEF CompanyTables
  <2>3. CASE ts[i] = "userRole" /\ n = "user"
    <3>1. i = 2
      BY <1>2, <2>3
    <3> QED
      BY <1>2, <2>3, <3>1
  <2> QED
    BY <1>4, <1>5, <2>1, <2>2, <2>3
<1>6. Sound(Each(Make, ts), CompanyTables, CompanyTables \union {ts[i] : i \in 1 .. Len(ts)})
  BY <1>2, <1>5, SectionSound
<1> QED
  BY <1>3, <1>6 DEF ts

RecordTables == {"leaveType", "attendanceRecord", "attendanceRegularization", "leaveBalance", "leaveRequest",
                 "leaveApproval"}

(* What the tables of attendance and leave need is there, or leave types   *)
(* before requests and balances, and requests before approvals.            *)
LEMMA RecordNeeds ==
    \A t \in RecordTables : \A n : <<t, n>> \in Needs =>
        \/ n \in {"organization", "employee"}
        \/ <<t, n>> \in {<<"leaveBalance", "leaveType">>, <<"leaveRequest", "leaveType">>,
                         <<"leaveApproval", "leaveRequest">>}
  BY DEF RecordTables, Needs, OfOrganization

LEMMA RecordsSound ==
    /\ Sound(WorkRecords, CompanyTables \union PeopleTables, (CompanyTables \union PeopleTables) \union RecordTables)
    /\ Sound(BenchRecords, CompanyTables \union PeopleTables, (CompanyTables \union PeopleTables) \union RecordTables)
<1> DEFINE have == CompanyTables \union PeopleTables
           demo == <<"leaveType", "attendanceRecord", "attendanceRegularization", "leaveBalance",
                     "leaveRequest", "leaveApproval">>
           bench == <<"leaveType", "leaveRequest", "leaveApproval", "leaveBalance", "attendanceRecord",
                      "attendanceRegularization">>
<1>1. RecordTables \subseteq AllTables
  BY AreTables DEF RecordTables, OfOrganization
<1>2. /\ demo \in Seq(AllTables) /\ Len(demo) = 6
      /\ demo[1] = "leaveType" /\ demo[2] = "attendanceRecord" /\ demo[3] = "attendanceRegularization"
      /\ demo[4] = "leaveBalance" /\ demo[5] = "leaveRequest" /\ demo[6] = "leaveApproval"
  BY <1>1 DEF RecordTables
<1>3. /\ bench \in Seq(AllTables) /\ Len(bench) = 6
      /\ bench[1] = "leaveType" /\ bench[2] = "leaveRequest" /\ bench[3] = "leaveApproval"
      /\ bench[4] = "leaveBalance" /\ bench[5] = "attendanceRecord" /\ bench[6] = "attendanceRegularization"
  BY <1>1 DEF RecordTables
<1>4. WorkRecords = Each(Make, demo) /\ BenchRecords = Each(Make, bench)
  BY DEF WorkRecords, BenchRecords
<1>5. {"organization", "employee"} \subseteq have
  BY DEF CompanyTables, PeopleTables
<1> HIDE DEF demo, bench, have
<1>6. {demo[i] : i \in 1 .. Len(demo)} = RecordTables
  BY <1>2 DEF RecordTables
<1>7. {bench[i] : i \in 1 .. Len(bench)} = RecordTables
  BY <1>3 DEF RecordTables
<1>8. ASSUME NEW i \in 1 .. Len(demo), NEW n, <<demo[i], n>> \in Needs
      PROVE  n \in have \/ \E k \in 1 .. i - 1 : demo[k] = n
  <2>1. demo[i] \in RecordTables
    BY <1>6
  <2>2. CASE demo[i] \in {"leaveBalance", "leaveRequest"} /\ n = "leaveType"
    <3>1. 1 \in 1 .. i - 1
      BY <1>2, <2>2
    <3> QED
      BY <1>2, <2>2, <3>1
  <2>3. CASE demo[i] = "leaveApproval" /\ n = "leaveRequest"
    <3>1. i = 6
      BY <1>2, <2>3
    <3> QED
      BY <1>2, <2>3, <3>1
  <2> QED
    BY <1>5, <1>8, <2>1, <2>2, <2>3, RecordNeeds
<1>9. ASSUME NEW i \in 1 .. Len(bench), NEW n, <<bench[i], n>> \in Needs
      PROVE  n \in have \/ \E k \in 1 .. i - 1 : bench[k] = n
  <2>1. bench[i] \in RecordTables
    BY <1>7
  <2>2. CASE bench[i] \in {"leaveBalance", "leaveRequest"} /\ n = "leaveType"
    <3>1. 1 \in 1 .. i - 1
      BY <1>3, <2>2
    <3> QED
      BY <1>3, <2>2, <3>1
  <2>3. CASE bench[i] = "leaveApproval" /\ n = "leaveRequest"
    <3>1. i = 3
      BY <1>3, <2>3
    <3> QED
      BY <1>3, <2>3, <3>1
  <2> QED
    BY <1>5, <1>9, <2>1, <2>2, <2>3, RecordNeeds
<1>10. Sound(Each(Make, demo), have, have \union {demo[i] : i \in 1 .. Len(demo)})
  BY <1>2, <1>8, SectionSound
<1>11. Sound(Each(Make, bench), have, have \union {bench[i] : i \in 1 .. Len(bench)})
  BY <1>3, <1>9, SectionSound
<1> QED
  BY <1>4, <1>6, <1>7, <1>10, <1>11 DEF have

NewsTables == {"announcement", "announcementAudience", "announcementAcknowledgement"}

LEMMA NewsSound ==
    ASSUME NEW have, {"organization", "employee"} \subseteq have
    PROVE  Sound(News, have, have \union NewsTables)
<1> DEFINE ts == <<"announcement", "announcementAudience", "announcementAcknowledgement">>
<1>1. NewsTables \subseteq AllTables
  BY AreTables DEF NewsTables, OfOrganization
<1>2. /\ ts \in Seq(AllTables) /\ Len(ts) = 3
      /\ ts[1] = "announcement" /\ ts[2] = "announcementAudience" /\ ts[3] = "announcementAcknowledgement"
  BY <1>1 DEF NewsTables
<1>3. News = Each(Make, ts)
  BY DEF News
<1> HIDE DEF ts
<1>4. {ts[i] : i \in 1 .. Len(ts)} = NewsTables
  BY <1>2 DEF NewsTables
<1>5. \A t \in NewsTables : \A n : <<t, n>> \in Needs =>
          \/ n \in {"organization", "employee"}
          \/ t # "announcement" /\ n = "announcement"
  BY DEF NewsTables, Needs, OfOrganization
<1>6. ASSUME NEW i \in 1 .. Len(ts), NEW n, <<ts[i], n>> \in Needs
      PROVE  n \in have \/ \E k \in 1 .. i - 1 : ts[k] = n
  <2>1. ts[i] \in NewsTables
    BY <1>4
  <2>2. CASE ts[i] # "announcement" /\ n = "announcement"
    <3>1. 1 \in 1 .. i - 1
      BY <1>2, <2>2
    <3> QED
      BY <1>2, <2>2, <3>1
  <2> QED
    BY <1>5, <1>6, <2>1, <2>2
<1>7. Sound(Each(Make, ts), have, have \union {ts[i] : i \in 1 .. Len(ts)})
  BY <1>2, <1>6, SectionSound
<1> QED
  BY <1>3, <1>4, <1>7

FileTables == {"document", "documentVersion", "documentAudience", "notification"}

LEMMA FilesSound ==
    ASSUME NEW have, {"organization", "documentCategory", "user"} \subseteq have
    PROVE  Sound(Files, have, have \union FileTables)
<1> DEFINE ts == <<"document", "documentVersion", "documentAudience", "notification">>
<1>1. FileTables \subseteq AllTables
  BY AreTables DEF FileTables, OfOrganization
<1>2. /\ ts \in Seq(AllTables) /\ Len(ts) = 4
      /\ ts[1] = "document" /\ ts[2] = "documentVersion" /\ ts[3] = "documentAudience" /\ ts[4] = "notification"
  BY <1>1 DEF FileTables
<1>3. Files = Each(Make, ts)
  BY DEF Files
<1> HIDE DEF ts
<1>4. {ts[i] : i \in 1 .. Len(ts)} = FileTables
  BY <1>2 DEF FileTables
<1>5. \A t \in FileTables : \A n : <<t, n>> \in Needs =>
          \/ n \in {"organization", "documentCategory", "user"}
          \/ t # "document" /\ n = "document"
  BY DEF FileTables, Needs, OfOrganization
<1>6. ASSUME NEW i \in 1 .. Len(ts), NEW n, <<ts[i], n>> \in Needs
      PROVE  n \in have \/ \E k \in 1 .. i - 1 : ts[k] = n
  <2>1. ts[i] \in FileTables
    BY <1>4
  <2>2. CASE ts[i] # "document" /\ n = "document"
    <3>1. 1 \in 1 .. i - 1
      BY <1>2, <2>2
    <3> QED
      BY <1>2, <2>2, <3>1
  <2> QED
    BY <1>5, <1>6, <2>1, <2>2
<1>7. Sound(Each(Make, ts), have, have \union {ts[i] : i \in 1 .. Len(ts)})
  BY <1>2, <1>6, SectionSound
<1> QED
  BY <1>3, <1>4, <1>7

AllMade == (((CompanyTables \union PeopleTables) \union RecordTables) \union NewsTables) \union FileTables

LEMMA ScriptsSound == Sound(DemoScript, {}, AllMade) /\ Sound(BenchScript, {}, AllMade)
<1> DEFINE crew    == Each(Make, <<"user", "userRole", "employee">>)
           staffed == CompanyTables \union PeopleTables
           booked  == staffed \union RecordTables
           told    == booked \union NewsTables
<1>1. Sound(Company, {}, CompanyTables) /\ Sound(crew, CompanyTables, staffed)
  BY CompanySound, PeopleSound
<1>2. Sound(WorkRecords, staffed, booked) /\ Sound(BenchRecords, staffed, booked)
  BY RecordsSound
<1>3. {"organization", "employee"} \subseteq booked
  BY DEF CompanyTables, PeopleTables
<1>4. {"organization", "documentCategory", "user"} \subseteq told
  BY DEF CompanyTables, PeopleTables
<1>5. AllMade = told \union FileTables
  BY DEF AllMade
<1>6. People = <<Need("passwords")>> \o crew
  BY DEF People
<1>7. crew \in Seq(Steps) /\ <<Need("passwords")>> \in Seq(Steps) /\ Len(<<Need("passwords")>>) = 1
  BY <1>1 DEF Sound, Steps, Need
<1> HIDE DEF crew, staffed, booked, told
<1>8. Tail(People) = crew
  <2>1. /\ People \in Seq(Steps) /\ Len(People) = 1 + Len(crew)
        /\ \A i \in 1 .. 1 + Len(crew) : People[i] = IF i <= 1 THEN <<Need("passwords")>>[i] ELSE crew[i - 1]
    BY <1>6, <1>7, ConcatProperties
  <2>2. Len(crew) \in Nat
    BY <1>7
  <2>3. People # << >>
    BY <2>1, <2>2
  <2>4. /\ Tail(People) \in Seq(Steps) /\ Len(Tail(People)) = Len(People) - 1
        /\ \A i \in 1 .. Len(Tail(People)) : Tail(People)[i] = People[i + 1]
    BY <2>1, <2>3, HeadTailProperties
  <2>5. Len(Tail(People)) = Len(crew) /\ \A i \in 1 .. Len(Tail(People)) : Tail(People)[i] = crew[i]
    BY <2>1, <2>2, <2>4
  <2> QED
    BY <1>7, <2>4, <2>5, SeqEqual
<1>9. Sound(People, CompanyTables, staffed)
  BY <1>1, <1>6, NeedSound, SoundAppend
<1>10. Sound(News, booked, told)
  BY <1>3, NewsSound DEF told
<1>11. Sound(Files, told, AllMade)
  BY <1>4, <1>5, FilesSound
<1>12. Sound(<<Need("storage")>>, told, told)
  BY NeedSound
<1>13. Sound(DemoScript, {}, AllMade)
  <2>1. Sound(Company \o People, {}, staffed)
    BY <1>1, <1>9, SoundAppend
  <2>2. Sound((Company \o People) \o WorkRecords, {}, booked)
    BY <1>2, <2>1, SoundAppend
  <2>3. Sound(((Company \o People) \o WorkRecords) \o News, {}, told)
    BY <1>10, <2>2, SoundAppend
  <2>4. Sound((((Company \o People) \o WorkRecords) \o News) \o <<Need("storage")>>, {}, told)
    BY <1>12, <2>3, SoundAppend
  <2>5. Sound(((((Company \o People) \o WorkRecords) \o News) \o <<Need("storage")>>) \o Files, {}, AllMade)
    BY <1>11, <2>4, SoundAppend
  <2> QED
    BY <2>5 DEF DemoScript
<1>14. Sound(BenchScript, {}, AllMade)
  <2>1. Sound(Company \o crew, {}, staffed)
    BY <1>1, SoundAppend
  <2>2. Sound((Company \o crew) \o BenchRecords, {}, booked)
    BY <1>2, <2>1, SoundAppend
  <2>3. Sound(((Company \o crew) \o BenchRecords) \o News, {}, told)
    BY <1>10, <2>2, SoundAppend
  <2>4. Sound((((Company \o crew) \o BenchRecords) \o News) \o Files, {}, AllMade)
    BY <1>11, <2>3, SoundAppend
  <2> QED
    BY <1>8, <2>4 DEF BenchScript, BenchCompany, BenchPeople
<1> QED
  BY <1>13, <1>14

LEMMA MadeIs == Made = AllMade
<1>1. MadeBy(DemoScript) = AllMade
  BY ScriptsSound DEF Sound
<1>2. Made = MadeBy(DemoScript)
  BY DEF Made, MadeBy, ToSet
<1> QED
  BY <1>1, <1>2

(* All the statements a run starts with.                                   *)
Emptying(w, have) ==
    /\ w \in Seq(Steps) /\ w # << >> /\ w[Len(w)] = Wipe("organization")
    /\ \A i \in DOMAIN w : w[i][1] = "wipe"
    /\ Unkept(w, have)

LEMMA WipesEmpty == \A have : Emptying(Wipes, have)
<1> DEFINE ts == <<"leaveApproval", "leaveRequest", "leaveBalance", "leaveType", "attendanceRecord",
                   "attendanceRegularization", "documentAcknowledgement", "documentAudience", "documentVersion",
                   "document", "documentCategory", "announcementAcknowledgement", "announcementAudience",
                   "announcement", "notification", "locationHolidayCalendar", "holiday", "holidayCalendar",
                   "attendancePolicy", "employee", "department", "designation", "location", "userRole",
                   "rolePermission", "role", "refreshToken", "user", "orgSetting", "organization">>
<1>1. Wipes = [i \in 1 .. 30 |-> <<"wipe", ts[i]>>]
  <2>1. Wipes = [i \in DOMAIN ts |-> <<"wipe", ts[i]>>]
    BY DEF Wipes, Each, Wipe
  <2>2. DOMAIN ts = 1 .. 30
    OBVIOUS
  <2> QED
    BY <2>1, <2>2
<1>2. ts \in [1 .. 30 -> AllTables]
  <2> DEFINE names == OfOrganization \union
                {"organization", "refreshToken", "userRole", "rolePermission", "notification", "attendanceRecord",
                 "attendanceRegularization", "leaveBalance", "leaveRequest", "leaveApproval", "holiday",
                 "locationHolidayCalendar", "announcementAudience", "announcementAcknowledgement",
                 "documentVersion", "document", "documentAudience", "documentAcknowledgement"}
  <2>1. ts \in Seq(names) /\ Len(ts) = 30
    BY DEF OfOrganization
  <2>2. names \subseteq AllTables
    BY AreTables
  <2> HIDE DEF ts, names
  <2>3. ts \in Seq(AllTables)
    BY <2>1, <2>2, SeqMonotonic
  <2> QED
    BY <2>1, <2>3, LenProperties
<1>3. /\ ts[2] = "leaveRequest" /\ ts[3] = "leaveBalance" /\ ts[10] = "document"
      /\ ts[28] = "user" /\ ts[30] = "organization"
  OBVIOUS
<1>4. \A i \in 1 .. 30 : /\ ts[i] = "leaveType" => i = 4
                         /\ ts[i] = "documentCategory" => i = 11
                         /\ ts[i] = "organization" => i = 30
  OBVIOUS
<1> HIDE DEF ts
<1>5. /\ Wipes \in Seq(Steps) /\ Len(Wipes) = 30 /\ DOMAIN Wipes = 1 .. 30
      /\ \A i \in 1 .. 30 : Wipes[i] = Wipe(ts[i]) /\ Wipes[i][1] = "wipe" /\ Wipes[i][2] = ts[i]
  <2>1. \A i \in 1 .. 30 : <<"wipe", ts[i]>> \in Steps
    BY <1>2 DEF Steps
  <2>2. Wipes \in [1 .. 30 -> Steps]
    BY <1>1, <2>1
  <2> QED
    BY <1>1, <2>2 DEF Wipe
<1>6. ASSUME NEW i \in 1 .. 30, NEW edge \in Restricts, edge[2] \in Goes[{ts[i]}]
      PROVE  \E k \in 1 .. i - 1 : Wipes[k] = Wipe(edge[1])
  <2>1. edge[2] \in {"organization", "leaveType", "documentCategory"}
    BY DEF Restricts
  <2>2. ts[i] = edge[2] \/ ts[i] = "organization"
    BY <1>2, <1>6, <2>1, OneGoes
  <2>3. \/ edge[1] = "user" /\ i = 30
        \/ edge[1] \in {"leaveBalance", "leaveRequest"} /\ i \in {4, 30}
        \/ edge[1] = "document" /\ i \in {11, 30}
    BY <1>4, <2>2 DEF Restricts
  <2>4. /\ Wipes[2] = Wipe("leaveRequest") /\ Wipes[3] = Wipe("leaveBalance")
        /\ Wipes[10] = Wipe("document") /\ Wipes[28] = Wipe("user")
    <3>1. 2 \in 1 .. 30 /\ 3 \in 1 .. 30 /\ 10 \in 1 .. 30 /\ 28 \in 1 .. 30
      OBVIOUS
    <3>2. \A k \in 1 .. 30 : Wipes[k] = Wipe(ts[k])
      BY <1>5
    <3> QED
      BY <1>3, <3>1, <3>2
  <2>5. CASE edge[1] = "user" /\ i = 30
    <3>1. 28 \in 1 .. i - 1
      BY <2>5
    <3> QED
      BY <2>4, <2>5, <3>1
  <2>6. CASE edge[1] \in {"leaveBalance", "leaveRequest"} /\ i \in {4, 30}
    <3>1. 2 \in 1 .. i - 1 /\ 3 \in 1 .. i - 1
      BY <2>6
    <3> QED
      BY <2>4, <2>6, <3>1
  <2>7. CASE edge[1] = "document" /\ i \in {11, 30}
    <3>1. 10 \in 1 .. i - 1
      BY <2>7
    <3> QED
      BY <2>4, <2>7, <3>1
  <2> QED
    BY <2>3, <2>5, <2>6, <2>7
<1>7. \A have : Unkept(Wipes, have)
  <2>1. ASSUME NEW i \in DOMAIN Wipes, NEW edge \in Restricts, edge[2] \in Goes[{Wipes[i][2]}]
        PROVE  \E k \in 1 .. i - 1 : Wipes[k] = Wipe(edge[1])
    <3>1. i \in 1 .. 30 /\ Wipes[i][2] = ts[i]
      BY <1>5
    <3> QED
      BY <1>6, <2>1, <3>1
  <2> QED
    BY <2>1 DEF Unkept
<1>8. Wipes[Len(Wipes)] = Wipe("organization") /\ Wipes # << >> /\ \A i \in DOMAIN Wipes : Wipes[i][1] = "wipe"
  <2>1. 30 \in 1 .. 30
    OBVIOUS
  <2>2. Wipes # << >>
    <3>1. Len(Wipes) = 30
      BY <1>5
    <3>2. Len(<< >>) = 0
      BY EmptySeq
    <3>3. Len(Wipes) # Len(<< >>)
      BY <3>1, <3>2
    <3> QED
      BY <3>3, Zenon
  <2> QED
    BY <1>3, <1>5, <2>1, <2>2, SMTT(30)
<1> QED
  BY <1>5, <1>7, <1>8 DEF Emptying

LEMMA Headed ==
    ASSUME NEW s \in Seq(Steps), s # << >>
    PROVE  /\ Head(s) \in Steps /\ Head(s) = s[1] /\ 1 \in DOMAIN s
           /\ Tail(s) \in Seq(Steps) /\ Len(Tail(s)) = Len(s) - 1 /\ Len(s) \in Nat
           /\ \A i \in DOMAIN Tail(s) : i + 1 \in DOMAIN s /\ Tail(s)[i] = s[i + 1]
           /\ \A i \in DOMAIN s : i # 1 => i - 1 \in DOMAIN Tail(s) /\ s[i] = Tail(s)[i - 1]
<1>1. /\ Head(s) \in Steps /\ Tail(s) \in Seq(Steps) /\ Len(Tail(s)) = Len(s) - 1
      /\ \A i \in 1 .. Len(Tail(s)) : Tail(s)[i] = s[i + 1]
  BY HeadTailProperties
<1>2. Len(s) \in Nat \ {0}
  BY EmptySeq
<1>3. DOMAIN s = 1 .. Len(s) /\ DOMAIN Tail(s) = 1 .. Len(s) - 1
  BY <1>1, LenProperties
<1>4. Head(s) = s[1]
  BY <1>2
<1>5. \A i \in DOMAIN s : i # 1 => i - 1 \in 1 .. Len(s) - 1 /\ (i - 1) + 1 = i
  BY <1>2, <1>3
<1>6. ASSUME NEW i \in DOMAIN s, i # 1 PROVE i - 1 \in DOMAIN Tail(s) /\ s[i] = Tail(s)[i - 1]
  BY <1>1, <1>3, <1>5, <1>6
<1>7. \A i \in DOMAIN Tail(s) : i + 1 \in DOMAIN s
  BY <1>2, <1>3
<1> QED
  BY <1>1, <1>2, <1>3, <1>4, <1>6, <1>7

LEMMA ConcatHeaded ==
    ASSUME NEW w \in Seq(Steps), NEW m \in Seq(Steps), w # << >>
    PROVE  w \o m # << >> /\ Head(w \o m) = Head(w) /\ Tail(w \o m) = Tail(w) \o m
<1> DEFINE s == w \o m
           u == Tail(w) \o m
<1>1. /\ s \in Seq(Steps) /\ Len(s) = Len(w) + Len(m)
      /\ \A i \in 1 .. Len(w) + Len(m) : s[i] = IF i <= Len(w) THEN w[i] ELSE m[i - Len(w)]
  BY ConcatProperties
<1>2. Len(w) \in Nat \ {0} /\ Len(m) \in Nat
  BY EmptySeq
<1>3. s # << >>
  BY ConcatEqualIffEmpty
<1>4. Tail(w) \in Seq(Steps) /\ Len(Tail(w)) = Len(w) - 1 /\ \A i \in 1 .. Len(w) - 1 : Tail(w)[i] = w[i + 1]
  BY HeadTailProperties
<1>5. /\ u \in Seq(Steps) /\ Len(u) = Len(w) - 1 + Len(m)
      /\ \A i \in 1 .. Len(w) - 1 + Len(m) : u[i] = IF i <= Len(w) - 1 THEN Tail(w)[i] ELSE m[i - (Len(w) - 1)]
  BY <1>4, ConcatProperties
<1> HIDE DEF s, u
<1>6. Tail(s) \in Seq(Steps) /\ Len(Tail(s)) = Len(s) - 1 /\ \A i \in 1 .. Len(s) - 1 : Tail(s)[i] = s[i + 1]
  BY <1>1, <1>3, HeadTailProperties
<1>7. Head(s) = Head(w)
  <2>1. Head(s) = s[1] /\ Head(w) = w[1]
    BY <1>1, <1>3, Headed
  <2> QED
    BY <1>1, <1>2, <2>1
<1>8. ASSUME NEW i \in 1 .. Len(u) PROVE Tail(s)[i] = u[i]
  <2>1. i \in 1 .. Len(s) - 1 /\ i + 1 \in 1 .. Len(w) + Len(m)
    BY <1>1, <1>2, <1>5
  <2>2. Tail(s)[i] = s[i + 1]
    BY <1>6, <2>1
  <2>3. CASE i <= Len(w) - 1
    <3>1. u[i] = Tail(w)[i] /\ Tail(w)[i] = w[i + 1] /\ i + 1 <= Len(w)
      BY <1>2, <1>4, <1>5, <2>3
    <3>2. s[i + 1] = w[i + 1]
      BY <1>1, <2>1, <3>1
    <3> QED
      BY <2>2, <3>1, <3>2
  <2>4. CASE ~(i <= Len(w) - 1)
    <3>1. u[i] = m[i - (Len(w) - 1)] /\ i - (Len(w) - 1) = i + 1 - Len(w) /\ ~(i + 1 <= Len(w))
      BY <1>2, <1>5, <2>4
    <3>2. s[i + 1] = m[i + 1 - Len(w)]
      BY <1>1, <2>1, <3>1
    <3> QED
      BY <2>2, <3>1, <3>2
  <2> QED
    BY <2>3, <2>4
<1>9. Len(Tail(s)) = Len(u)
  BY <1>1, <1>2, <1>5, <1>6
<1>10. Tail(s) = u
  BY <1>5, <1>6, <1>8, <1>9, SeqEqual
<1> QED
  BY <1>3, <1>7, <1>10 DEF s, u

LEMMA SoundDone == \A have, ts : Sound(<< >>, have, ts) <=> have = ts
  BY DEF Sound, NoWipe, Orderly, MadeBy

LEMMA SoundGoesOn ==
    ASSUME NEW s, NEW have, NEW ts, Sound(s, have, ts), s # << >>
    PROVE  /\ Head(s)[1] # "wipe"
           /\ Head(s)[1] = "make" =>
                NeededBy(Head(s)[2]) \subseteq have /\ Sound(Tail(s), have \union {Head(s)[2]}, ts)
           /\ Head(s)[1] = "need" => Sound(Tail(s), have, ts)
<1> DEFINE more == IF Head(s)[1] = "make" THEN have \union {Head(s)[2]} ELSE have
           rest == Tail(s)
<1>1. s \in Seq(Steps)
  BY DEF Sound
<1>2. /\ Head(s) \in Steps /\ Head(s) = s[1] /\ 1 \in DOMAIN s
      /\ rest \in Seq(Steps)
      /\ \A i \in DOMAIN rest : i + 1 \in DOMAIN s /\ rest[i] = s[i + 1]
      /\ \A i \in DOMAIN s : i # 1 => i - 1 \in DOMAIN rest /\ s[i] = rest[i - 1]
  BY <1>1, Headed
<1>3. DOMAIN rest \subseteq Nat \ {0}
  <2>1. DOMAIN rest = 1 .. Len(rest)
    BY <1>2, LenProperties
  <2> QED
    BY <2>1
<1> HIDE DEF rest
<1>4. Head(s)[1] # "wipe" /\ NoWipe(rest)
  BY <1>2 DEF Sound, NoWipe
<1>5. Head(s)[1] = "make" => NeededBy(Head(s)[2]) \subseteq have
  <2>1. 1 .. 1 - 1 = {}
    OBVIOUS
  <2> QED
    BY <1>2, <2>1 DEF Sound, Orderly
<1>6. ASSUME NEW i \in DOMAIN rest, rest[i][1] = "make", NEW n \in NeededBy(rest[i][2])
      PROVE  n \in more \/ \E k \in 1 .. i - 1 : rest[k] = Make(n)
  <2>1. i + 1 \in DOMAIN s /\ rest[i] = s[i + 1] /\ i \in Nat \ {0}
    BY <1>2, <1>3
  <2>2. n \in have \/ \E k \in 1 .. (i + 1) - 1 : s[k] = Make(n)
    BY <1>6, <2>1 DEF Sound, Orderly
  <2>3. ASSUME NEW k \in 1 .. i, s[k] = Make(n)
        PROVE  n \in more \/ \E l \in 1 .. i - 1 : rest[l] = Make(n)
    <3>1. CASE k = 1
      <4>1. Head(s)[1] = "make" /\ Head(s)[2] = n
        BY <1>2, <2>3, <3>1 DEF Make
      <4> QED
        BY <4>1
    <3>2. CASE k # 1
      <4>1. k - 1 \in 1 .. i - 1 /\ (k - 1) + 1 = k
        BY <2>1, <3>2
      <4>2. k \in DOMAIN s
        <5>1. DOMAIN s = 1 .. Len(s) /\ Len(s) \in Nat
          BY <1>1, LenProperties
        <5> QED
          BY <2>1, <5>1
      <4>3. rest[k - 1] = Make(n)
        BY <1>2, <2>3, <3>2, <4>2
      <4> QED
        BY <4>1, <4>3
    <3> QED
      BY <3>1, <3>2
  <2>4. (i + 1) - 1 = i
    BY <2>1
  <2> QED
    BY <2>2, <2>3, <2>4
<1>7. more \union MadeBy(rest) = ts
  <2>1. have \union MadeBy(s) = ts
    BY DEF Sound
  <2>2. ASSUME NEW x \in MadeBy(s) PROVE x \in more \union MadeBy(rest)
    <3>1. PICK i \in DOMAIN s : s[i][1] = "make" /\ x = s[i][2]
      BY DEF MadeBy
    <3> QED
      BY <1>2, <3>1 DEF MadeBy
  <2>3. ASSUME NEW x \in MadeBy(rest) PROVE x \in MadeBy(s)
    <3>1. PICK i \in DOMAIN rest : rest[i][1] = "make" /\ x = rest[i][2]
      BY DEF MadeBy
    <3> QED
      BY <1>2, <3>1 DEF MadeBy
  <2>4. Head(s)[1] = "make" => Head(s)[2] \in MadeBy(s)
    BY <1>2 DEF MadeBy
  <2> QED
    BY <2>1, <2>2, <2>3, <2>4
<1>8. Sound(rest, more, ts)
  BY <1>2, <1>4, <1>6, <1>7 DEF Sound, Orderly
<1> QED
  BY <1>4, <1>5, <1>8 DEF rest

LEMMA EmptyingGoesOn ==
    ASSUME NEW w, NEW have, Emptying(w, have)
    PROVE  /\ w \in Seq(Steps) /\ Head(w)[1] = "wipe" /\ Head(w)[2] \in AllTables
           /\ \A edge \in Restricts : ~(edge[1] \in have /\ edge[2] \in Goes[{Head(w)[2]}])
           /\ Tail(w) = << >> => Head(w) = Wipe("organization")
           /\ Tail(w) # << >> => Emptying(Tail(w), have \ Goes[{Head(w)[2]}])
<1> DEFINE rest == Tail(w)
           gone == Goes[{Head(w)[2]}]
<1>1. w \in Seq(Steps) /\ w # << >>
  BY DEF Emptying
<1>2. /\ Head(w) \in Steps /\ Head(w) = w[1] /\ 1 \in DOMAIN w
      /\ rest \in Seq(Steps) /\ Len(rest) = Len(w) - 1 /\ Len(w) \in Nat
      /\ \A i \in DOMAIN rest : i + 1 \in DOMAIN w /\ rest[i] = w[i + 1]
      /\ \A i \in DOMAIN w : i # 1 => i - 1 \in DOMAIN rest /\ w[i] = rest[i - 1]
  BY <1>1, Headed
<1>3. DOMAIN rest = 1 .. Len(rest) /\ DOMAIN w = 1 .. Len(w)
  BY <1>1, <1>2, LenProperties
<1>4. Head(w)[1] = "wipe" /\ Head(w)[2] \in AllTables
  <2>1. Head(w)[1] = "wipe"
    BY <1>2 DEF Emptying
  <2> QED
    BY <1>2, <2>1 DEF Steps
<1>5. \A edge \in Restricts : ~(edge[1] \in have /\ edge[2] \in gone)
  <2>1. 1 .. 1 - 1 = {}
    OBVIOUS
  <2> QED
    BY <1>2, <2>1 DEF Emptying, Unkept
<1>6. Head(w)[2] \in gone
  BY <1>4, OneGoes
<1> HIDE DEF rest, gone
<1>7. ASSUME rest = << >> PROVE Head(w) = Wipe("organization")
  <2>1. Len(rest) = 0
    BY <1>7, EmptySeq
  <2>2. Len(w) = 1
    BY <1>2, <2>1
  <2> QED
    BY <1>2, <2>2 DEF Emptying
<1>8. ASSUME rest # << >> PROVE Emptying(rest, have \ gone)
  <2>1. Len(rest) \in Nat \ {0}
    BY <1>2, <1>8, EmptySeq
  <2>2. rest[Len(rest)] = Wipe("organization")
    <3>1. Len(rest) \in DOMAIN rest /\ Len(rest) + 1 = Len(w)
      BY <1>2, <1>3, <2>1
    <3> QED
      BY <1>2, <3>1 DEF Emptying
  <2>3. \A i \in DOMAIN rest : rest[i][1] = "wipe"
    BY <1>2 DEF Emptying
  <2>4. ASSUME NEW i \in DOMAIN rest, NEW edge \in Restricts,
               edge[2] \in Goes[{rest[i][2]}], edge[1] \in have \ gone
        PROVE  \E k \in 1 .. i - 1 : rest[k] = Wipe(edge[1])
    <3>1. i + 1 \in DOMAIN w /\ rest[i] = w[i + 1] /\ i \in Nat \ {0}
      BY <1>2, <1>3
    <3>2. PICK k \in 1 .. (i + 1) - 1 : w[k] = Wipe(edge[1])
      BY <2>4, <3>1 DEF Emptying, Unkept
    <3>3. k # 1
      <4>1. ASSUME k = 1 PROVE FALSE
        <5>1. Head(w)[2] = edge[1]
          BY <1>2, <3>2, <4>1 DEF Wipe
        <5> QED
          BY <1>6, <2>4, <5>1
      <4> QED
        BY <4>1
    <3>4. k \in DOMAIN w /\ k - 1 \in 1 .. i - 1
      BY <1>3, <3>1, <3>2, <3>3
    <3> QED
      BY <1>2, <3>2, <3>3, <3>4
  <2>5. Unkept(rest, have \ gone)
    BY <2>4 DEF Unkept
  <2> QED
    BY <1>2, <1>8, <2>2, <2>3, <2>5 DEF Emptying
<1> QED
  BY <1>1, <1>4, <1>5, <1>7, <1>8 DEF rest, gone

-----------------------------------------------------------------------------
(* A run that nobody disturbs: it wipes what it found and makes the rest,  *)
(* or it is making the rest of what it seeds.                              *)
Goal == IF "deletes" \in env THEN {} ELSE Made

Wiping == \E w, m : script = w \o m /\ Emptying(w, stored) /\ Sound(m, {}, Goal)

TablesKept ==
    /\ script \in Seq(Steps) /\ Whole(stored) /\ busy \in BOOLEAN
    /\ Running => ended = "running"
    /\ Running /\ ~busy => Wiping \/ Sound(script, stored, Goal)
    /\ RerunConverges

LEMMA TablesStart == SeedTablesInit => TablesKept
<1>1. << >> \in Seq(Steps)
  BY EmptySeq
<1> QED
  BY <1>1 DEF SeedTablesInit, TablesKept, Whole, Running, RerunConverges

LEMMA RunKeeps == TablesKept /\ Run => TablesKept'
<1> SUFFICES ASSUME TablesKept, Run PROVE TablesKept'
  OBVIOUS
<1> DEFINE makes == IF seed = "demo" THEN DemoScript ELSE BenchScript
           m == IF "deletes" \in env' THEN << >> ELSE makes
           w == IF "organization" \in stored THEN Wipes ELSE << >>
<1>1. /\ script' = w \o m /\ script' # << >>
      /\ ended' = "running" /\ busy' = FALSE /\ stored' = stored
  BY DEF Run
<1>2. Sound(makes, {}, Made)
  BY ScriptsSound, MadeIs
<1> HIDE DEF makes
<1>3. Sound(m, {}, Goal')
  <2>1. CASE "deletes" \in env'
    <3>1. m = << >> /\ Goal' = {}
      BY <2>1 DEF Goal
    <3>2. Sound(<< >>, {}, {})
      BY SoundDone
    <3> QED
      BY <3>1, <3>2
  <2>2. CASE "deletes" \notin env'
    BY <1>2, <2>2 DEF Goal, Made
  <2> QED
    BY <2>1, <2>2
<1>4. m \in Seq(Steps)
  BY <1>3 DEF Sound
<1>5. Emptying(Wipes, stored')
  BY WipesEmpty
<1> HIDE DEF m
<1>6. CASE "organization" \in stored
  <2>1. script' = Wipes \o m
    BY <1>1, <1>6
  <2>2. Wiping'
    BY <1>3, <1>5, <2>1 DEF Wiping
  <2>3. script' \in Seq(Steps)
    <3>1. Wipes \in Seq(Steps)
      BY <1>5 DEF Emptying
    <3> QED
      BY <1>4, <2>1, <3>1, ConcatProperties
  <2> QED
    BY <1>1, <2>2, <2>3 DEF TablesKept, Whole, RerunConverges
<1>7. CASE "organization" \notin stored
  <2>1. stored = {}
    BY <1>7, Rooted DEF TablesKept
  <2>2. script' = m
    <3>1. << >> \o m = m
      BY <1>4, ConcatEmptySeq
    <3> QED
      BY <1>1, <1>7, <3>1
  <2>3. Sound(script', stored', Goal')
    BY <1>1, <1>3, <2>1, <2>2
  <2> QED
    BY <1>1, <1>4, <2>2, <2>3 DEF TablesKept, Whole, RerunConverges
<1> QED
  BY <1>6, <1>7

LEMMA OthersKeep ==
    /\ TablesKept /\ Killed => TablesKept'
    /\ \A t \in AllTables : TablesKept /\ Act(t) => TablesKept'
    /\ TablesKept /\ UNCHANGED tableVars => TablesKept'
<1>1. ASSUME TablesKept, Killed PROVE TablesKept'
  <2>1. script' = << >> /\ ended' = "killed" /\ stored' = stored /\ busy' = busy
    BY <1>1 DEF Killed, EndRun
  <2>2. << >> \in Seq(Steps)
    BY EmptySeq
  <2> QED
    BY <1>1, <2>1, <2>2 DEF TablesKept, Whole, Running, RerunConverges
<1>2. ASSUME NEW t \in AllTables, TablesKept, Act(t) PROVE TablesKept'
  <2>1. /\ NeededBy(t) \subseteq stored /\ stored' = stored \union {t} /\ busy' = TRUE
        /\ script' = script /\ ended' = ended
    BY <1>2 DEF Act
  <2>2. Whole(stored')
    BY <1>2, <2>1 DEF TablesKept, Whole
  <2> QED
    BY <1>2, <2>1, <2>2 DEF TablesKept, Running, RerunConverges
<1>3. ASSUME TablesKept, UNCHANGED tableVars PROVE TablesKept'
  <2>1. Goal' = Goal
    BY <1>3 DEF Goal, tableVars
  <2>2. Wiping' <=> Wiping
    BY <1>3, <2>1 DEF Wiping, tableVars
  <2> QED
    BY <1>3, <2>1, <2>2 DEF TablesKept, tableVars, Running, RerunConverges
<1> QED
  BY <1>1, <1>2, <1>3

LEMMA StatementKeeps == TablesKept /\ Statement => TablesKept'
<1> SUFFICES ASSUME TablesKept, Statement PROVE TablesKept'
  OBVIOUS
<1> DEFINE head == Head(script)
           rest == Tail(script)
           gone == Goes[{head[2]}]
           on   == script' = rest /\ ended' = IF rest = << >> THEN "done" ELSE "running"
<1>1. script \in Seq(Steps) /\ script # << >> /\ ended = "running" /\ Whole(stored) /\ busy \in BOOLEAN
  BY DEF Statement, TablesKept, Running
<1>2. head \in Steps /\ rest \in Seq(Steps)
  BY <1>1, Headed
<1>3. << >> \in Seq(Steps)
  BY EmptySeq
<1>4. busy' = busy /\ Goal' = Goal
  BY DEF Statement, Goal
<1>5. \/ head[1] = "wipe" /\ ~Kept(head[2]) /\ stored' = stored \ gone /\ on
      \/ head[1] = "make" /\ NeededBy(head[2]) \subseteq stored /\ stored' = stored \union {head[2]} /\ on
      \/ head[1] = "need" /\ stored' = stored /\ on
      \/ head[1] = "need" /\ stored' = stored /\ script' = << >> /\ ended' = head[2]
      \/ head[1] = "wipe" /\ Kept(head[2]) /\ stored' = stored /\ script' = << >> /\ ended' = "refused"
      \/ head[1] = "make" /\ ~(NeededBy(head[2]) \subseteq stored) /\ stored' = stored /\ script' = << >>
         /\ ended' = "refused"
  BY <1>1 DEF Statement, GoOn, EndRun
<1>6. \/ head[1] \in {"wipe", "make"} /\ head[2] \in AllTables
      \/ head[1] = "need" /\ head[2] \in {"passwords", "storage"}
  BY <1>2 DEF Steps
<1>7. ASSUME ~busy PROVE Wiping \/ Sound(script, stored, Goal)
  BY <1>7 DEF TablesKept, Statement
<1> HIDE DEF head, rest, gone
<1>8. script' \in Seq(Steps) /\ (script' # << >> => ended' = "running")
  BY <1>2, <1>3, <1>5
<1>9. Whole(stored')
  <2>1. CASE head[1] = "wipe" /\ ~Kept(head[2]) /\ stored' = stored \ gone
    <3>1. Whole(stored \ gone)
      BY <1>1, <1>6, <2>1, WipeKeepsWhole DEF gone
    <3> QED
      BY <2>1, <3>1
  <2>2. CASE head[1] = "make" /\ NeededBy(head[2]) \subseteq stored /\ stored' = stored \union {head[2]}
    BY <1>1, <1>6, <2>2 DEF Whole
  <2>3. CASE stored' = stored
    BY <1>1, <2>3
  <2> QED
    BY <1>5, <2>1, <2>2, <2>3
<1>10. ASSUME Wiping
       PROVE  on /\ (Wiping' \/ Sound(script', stored', Goal'))
  <2>1. PICK w, m : script = w \o m /\ Emptying(w, stored) /\ Sound(m, {}, Goal)
    BY <1>10 DEF Wiping
  <2>2. /\ w \in Seq(Steps) /\ Head(w)[1] = "wipe" /\ Head(w)[2] \in AllTables
        /\ \A edge \in Restricts : ~(edge[1] \in stored /\ edge[2] \in Goes[{Head(w)[2]}])
        /\ Tail(w) = << >> => Head(w) = Wipe("organization")
        /\ Tail(w) # << >> => Emptying(Tail(w), stored \ Goes[{Head(w)[2]}])
    BY <2>1, EmptyingGoesOn
  <2>3. m \in Seq(Steps) /\ w # << >>
    BY <2>1 DEF Sound, Emptying
  <2>4. head = Head(w) /\ rest = Tail(w) \o m
    BY <2>1, <2>2, <2>3, ConcatHeaded DEF head, rest
  <2>5. ~Kept(head[2])
    BY <2>2, <2>4 DEF Kept
  <2>6. stored' = stored \ gone /\ on
    BY <1>5, <2>2, <2>4, <2>5
  <2>7. CASE Tail(w) # << >>
    <3>1. Emptying(Tail(w), stored')
      BY <2>2, <2>4, <2>6, <2>7 DEF gone
    <3>2. script' = Tail(w) \o m
      BY <2>4, <2>6
    <3>3. Sound(m, {}, Goal')
      BY <1>4, <2>1
    <3>4. Wiping'
      BY <3>1, <3>2, <3>3 DEF Wiping
    <3> QED
      BY <2>6, <3>4
  <2>8. CASE Tail(w) = << >>
    <3>1. script' = m
      <4>1. << >> \o m = m
        BY <2>3, ConcatEmptySeq
      <4> QED
        BY <2>4, <2>6, <2>8, <4>1
    <3>2. head[2] = "organization"
      BY <2>2, <2>4, <2>8 DEF Wipe
    <3>3. "organization" \in gone
      BY <2>2, <2>4, <3>2, OneGoes DEF gone
    <3>4. stored' = {}
      BY <1>9, <2>6, <3>3, Rooted
    <3>5. Sound(script', stored', Goal')
      BY <1>4, <2>1, <3>1, <3>4
    <3> QED
      BY <2>6, <3>5
  <2> QED
    BY <2>7, <2>8
<1>11. ASSUME Sound(script, stored, Goal)
       PROVE  \/ on /\ Sound(script', stored', Goal')
              \/ script' = << >> /\ ended' \in {"passwords", "storage"}
  <2>1. /\ head[1] # "wipe"
        /\ head[1] = "make" =>
             NeededBy(head[2]) \subseteq stored /\ Sound(rest, stored \union {head[2]}, Goal)
        /\ head[1] = "need" => Sound(rest, stored, Goal)
    BY <1>1, <1>11, SoundGoesOn DEF head, rest
  <2>2. CASE head[1] = "make"
    <3>1. stored' = stored \union {head[2]} /\ on
      BY <1>5, <2>1, <2>2
    <3>2. Sound(script', stored', Goal')
      BY <1>4, <2>1, <2>2, <3>1
    <3> QED
      BY <3>1, <3>2
  <2>3. CASE head[1] = "need" /\ on /\ stored' = stored
    <3>1. Sound(script', stored', Goal')
      BY <1>4, <2>1, <2>3
    <3> QED
      BY <2>3, <3>1
  <2>4. CASE head[1] = "need" /\ script' = << >> /\ ended' = head[2]
    BY <1>6, <2>4
  <2> QED
    BY <1>5, <1>6, <2>1, <2>2, <2>3, <2>4
<1>12. ASSUME ~busy
       PROVE  \/ on /\ (Wiping' \/ Sound(script', stored', Goal'))
              \/ script' = << >> /\ ended' \in {"passwords", "storage"}
  BY <1>7, <1>10, <1>11, <1>12
<1>13. Running' /\ ~busy' => Wiping' \/ Sound(script', stored', Goal')
  BY <1>4, <1>12 DEF Running
<1>14. RerunConverges'
  <2>1. ended' = "refused" => busy'
    BY <1>1, <1>4, <1>12
  <2>2. ASSUME ended' = "done", ~busy' PROVE stored' = Goal'
    <3>1. on /\ (Wiping' \/ Sound(script', stored', Goal'))
      BY <1>4, <1>12, <2>2
    <3>2. script' = << >>
      BY <2>2, <3>1
    <3>3. ~Wiping'
      <4>1. ASSUME NEW w, NEW m, script' = w \o m, Emptying(w, stored'), Sound(m, {}, Goal') PROVE FALSE
        <5>1. w \in Seq(Steps) /\ m \in Seq(Steps) /\ w # << >>
          BY <4>1 DEF Emptying, Sound
        <5> QED
          BY <3>2, <4>1, <5>1, ConcatHeaded
      <4> QED
        BY <4>1 DEF Wiping
    <3> QED
      BY <3>1, <3>2, <3>3, SoundDone
  <2> QED
    BY <2>1, <2>2 DEF RerunConverges, Goal
<1> QED
  BY <1>1, <1>4, <1>8, <1>9, <1>13, <1>14 DEF TablesKept, Running

(* seed-demo.ts, seed-bench.ts: whatever an earlier run or the people of   *)
(* the organisation left, a run that nobody disturbs is refused nothing    *)
(* and ends with what its script makes and nothing else.                   *)
THEOREM RerunsConverge == SpecApart => []RerunConverges
<1>1. TablesKept => RerunConverges
  BY DEF TablesKept
<1>2. TablesKept /\ [SeedTablesNext]_tableVars => TablesKept'
  BY RunKeeps, StatementKeeps, OthersKeep DEF SeedTablesNext
<1> QED
  BY <1>1, <1>2, TablesStart, SeedsApart, PTL DEF SpecApart

(* The seeds converge: the two scripts, the records made up for an         *)
(* employee and the development seed.                                      *)
THEOREM ConvergingSeeds == SpecApart => []SeedsConverge
<1>1. RerunConverges /\ SeedReconciles /\ DevReruns => SeedsConverge
  BY DEF SeedsConverge
<1> QED
  BY <1>1, RerunsConverge, RecordsHeld, DevSeedReruns, PTL
=============================================================================
