---------------------------- MODULE SeedRecords -----------------------------
(* What the demo and bench seeds make up for one employee: requests of     *)
(* leave, then the attendance of the days up to today, then the balances.  *)
(* A draw of the random generator is any value it may return.              *)
EXTENDS Integers, Sequences, SequencesExt, FiniteSetsExt, Functions

CONSTANTS
    DaysBack, DaysOn,    \* days around today, which is day 0
    MaxDrawn,            \* bound: requests drawn
    MaxLen               \* bound: days of a request

ASSUME SeedRecordsAssumption == DaysBack \in Nat /\ DaysOn \in Nat /\ MaxLen \in Nat

VARIABLES
    free,      \* weekends and holidays
    joined,    \* the employee's first day
    drawn,     \* the requests kept
    draws,     \* how many are left to draw
    sheet,     \* attendance: day -> status
    books      \* balances: type -> what is used and pending

recordVars == <<free, joined, drawn, draws, sheet, books>>

LeaveKinds  == {"paid", "unpaid"}
Blocks == {"approved", "pending"}
Span(r) == r.start .. r.start + r.len - 1

TakenBy(statuses) == UNION {Span(r) : r \in {q \in ToSet(drawn) : q.status \in statuses}}

RecordsInit ==
    /\ free \in SUBSET (-DaysBack .. 0) /\ joined \in -DaysBack .. 0
    /\ drawn = << >> /\ draws \in 0 .. MaxDrawn
    /\ sheet = << >> /\ books = << >>

(* mutant: only approved requests keep their days.                         *)
DrawOverPending(r) ==
    /\ draws > 0 /\ draws' = draws - 1
    /\ drawn' = IF r.status \in Blocks /\ Span(r) \intersect TakenBy({"approved"}) # {}
                THEN drawn ELSE Append(drawn, r)
    /\ UNCHANGED <<free, joined, sheet, books>>

(* A request on days another open one has is dropped.                      *)
Draw(r) ==
    /\ draws > 0 /\ draws' = draws - 1
    /\ drawn' = IF r.status \in Blocks /\ Span(r) \intersect TakenBy(Blocks) # {}
                THEN drawn ELSE Append(drawn, r)
    /\ UNCHANGED <<free, joined, sheet, books>>

(* Working days since the employee joined; approved leave decides before   *)
(* the draw, and today nobody is absent or gone home yet.                  *)
Rolls(day) ==
    IF day \in TakenBy({"approved"}) THEN {"on_leave"}
    ELSE IF day = 0 THEN {"present", "none"}
    ELSE {"present", "half_day", "absent"}

(* Unpaid leave has no balance. *)
Balances ==
    [kind \in {"paid"} |->
        [s \in Blocks |->
            LET days == [i \in {i \in DOMAIN drawn : drawn[i].kind = kind /\ drawn[i].status = s} |-> drawn[i].len]
            IN  MapThenSumSet(LAMBDA i : days[i], DOMAIN days)]]

Attend ==
    /\ draws = 0 /\ sheet = << >> /\ books = << >>
    /\ \E rolled \in [(joined .. 0) \ free -> {"present", "half_day", "absent", "on_leave", "none"}] :
        /\ \A day \in DOMAIN rolled : rolled[day] \in Rolls(day)
        /\ sheet' = Restrict(rolled, {day \in DOMAIN rolled : rolled[day] # "none"})
    /\ books' = Balances
    /\ UNCHANGED <<free, joined, drawn, draws>>

RecordsNext ==
    \/ \E r \in [kind: LeaveKinds, start: -DaysBack .. DaysOn, len: 1 .. MaxLen,
               status: Blocks \union {"rejected"}] : Draw(r)
    \/ Attend

-----------------------------------------------------------------------------
(* What verify-demo.ts asks of a seeded organisation (44-76, 112-138), and *)
(* the rule of the API the draw is said to respect (seed-demo.ts:616-618): *)
(* nobody works or is away but as the approved requests say, the           *)
(* balances are the sums of the requests, and open requests share no day.  *)
SeedReconciles ==
    books # << >> =>
        /\ \A day \in DOMAIN sheet : (sheet[day] = "on_leave") <=> day \in TakenBy({"approved"})
        /\ \A kind \in DOMAIN books, s \in Blocks :
             books[kind][s] = Cardinality(
                 {d \in (DOMAIN drawn) \X (-DaysBack .. DaysOn + MaxLen) :
                     LET r == drawn[d[1]]
                     IN  r.kind = kind /\ r.status = s /\ d[2] \in Span(r)})
        /\ \A i, k \in DOMAIN drawn :
             i < k /\ {drawn[i].status, drawn[k].status} \subseteq Blocks
                => Span(drawn[i]) \intersect Span(drawn[k]) = {}
==============================================================================
