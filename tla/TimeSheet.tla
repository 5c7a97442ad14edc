------------------------------ MODULE TimeSheet ------------------------------
(* What the attendance of a day promises: a punch fills a time that is not *)
(* there, and only a correction replaces one and signs for it.  A day two  *)
(* calls wrote over each other is blurred, and promises nothing.           *)
CONSTANTS Days, Times, Corrections, Unset, Blurred
VARIABLE sheet

Amendments == [in: Times \union {Unset}, out: Times \union {Unset}]

Init == sheet = [d \in Days |-> [in |-> Unset, out |-> Unset, by |-> Unset]]

PunchIn(d) ==
    /\ sheet[d] # Blurred /\ sheet[d].in = Unset
    /\ \E t \in Times : sheet' = [sheet EXCEPT ![d].in = t]

PunchOut(d) ==
    /\ sheet[d] # Blurred /\ sheet[d].in # Unset /\ sheet[d].out = Unset
    /\ \E t \in Times : sheet' = [sheet EXCEPT ![d].out = t]

Correct(d) ==
    /\ sheet[d] # Blurred
    /\ \E asked \in Amendments, correction \in Corrections \ {sheet[d].by} :
          sheet' = [sheet EXCEPT ![d] =
              [in  |-> IF asked.in = Unset THEN @.in ELSE asked.in,
               out |-> IF asked.out = Unset THEN @.out ELSE asked.out,
               by  |-> correction]]

Blur(d) == sheet' = [sheet EXCEPT ![d] = Blurred]

Next == \E d \in Days : PunchIn(d) \/ PunchOut(d) \/ Correct(d) \/ Blur(d)

Spec == Init /\ [][Next]_sheet
=============================================================================
