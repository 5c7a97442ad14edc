------------------------------ MODULE MCLeave ------------------------------
(* Small instances of Leave.  One employee suffices: nothing relates two.  *)
EXTENDS Leave, TLC

MCYear == [d \in 1 .. 3 |-> 1]

MCAsk(s, e, hs, he) == [start |-> s, end |-> e, halfStart |-> hs, halfEnd |-> he]

(* Two days and a day of its own: the same days overlap, and the two asks  *)
(* together are more than the grant.                                       *)
MCAsks == {MCAsk(1, 2, FALSE, FALSE), MCAsk(3, 3, FALSE, FALSE)}

MCAnnual  == [accrual |-> "annual", amount |-> 4, approval |-> TRUE, min |-> 1, max |-> 4]
MCAuto    == [MCAnnual EXCEPT !.approval = FALSE]
MCConfigs == {MCAnnual, MCAuto}

MCSymmetry ==
    Permutations(RequestIds) \union Permutations(Applicants) \union Permutations(Deciders)

(* Any two handlers in flight at once, and one while the type is archived  *)
(* or its leave approves itself, or one request was decided on an outdated *)
(* status; no second one is.                                               *)
MCHandlers == Cardinality(DOMAIN applying) + Cardinality(DOMAIN deciding)

MCInFlight ==
    /\ MCHandlers <= 2 /\ Cardinality(stale) <= 1
    /\ \A t \in Types : types[t].state = "archived" \/ ~types[t].config.approval => MCHandlers <= 1
    /\ stale # {} => MCHandlers <= 1

(* Two decisions of the same leave.                                        *)
MCRaceAsks    == {MCAsk(1, 2, FALSE, FALSE)}
MCRaceConfigs == {MCAnnual}
=============================================================================
