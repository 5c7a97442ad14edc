----------------------------- MODULE LeaveRules -----------------------------
(***************************************************************************)
(* The pure arithmetic of leave requests (leave/leave-rules.ts).           *)
(* A calendar day is an integer, so adding days to an ISO date is integer  *)
(* addition.  Units are counted in HALF days: the code's 0.5 is 1 here and *)
(* its 1 is 2, which keeps every amount an integer.                        *)
(***************************************************************************)
EXTENDS Integers, FiniteSets

DaysInclusive(start, end) == end - start + 1

HalfIgnored(flag) == 0   \* mutant: flags cost nothing

Half(flag) == IF flag THEN 1 ELSE 0

(* What a request from start to end costs: every day that is no holiday,   *)
(* less the half days the flags give back at either end.  On a single day  *)
(* only halfStart counts; a flag on a holiday is ignored.                  *)
ComputeUnits(start, end, halfStart, halfEnd, holidays) ==
    LET total   == DaysInclusive(start, end)
        working == (start .. end) \ holidays
        halves  == Half(halfStart /\ start \notin holidays)
                   + Half(halfEnd /\ end \notin holidays)
        units   == 2 * Cardinality(working) - halves
    IN  CASE total <= 0 -> 0
          [] total = 1  -> IF start \in holidays THEN 0 ELSE 2 - Half(halfStart)
          [] OTHER      -> IF units < 0 THEN 0 ELSE units

RangesOverlap(a, b) == a.start <= b.end /\ b.start <= a.end

AvailableNow(b) == b.granted - b.used   \* mutant: reservations are forgotten

(* granted stands for allocated + carryForward + adjusted.                 *)
AvailableBalance(b) == b.granted - b.used - b.pending
=============================================================================
