----------------------------- MODULE OneTimeLink -----------------------------
(* What a link sent by mail promises, whatever it is for: it opens once.   *)
(* A link that two requests fought over is torn, and promises nothing; so  *)
(* does one that was taken although another had replaced it.               *)
CONSTANT Links
VARIABLE state

States == {"none", "open", "used", "void", "torn"}

Moves ==
    {<<"none", "open">>, <<"open", "used">>, <<"open", "void">>}
      \union (States \ {"none"}) \X {"torn"}

Init == state = [l \in Links |-> "none"]

(* A link that is resent is void and another opens in the same step.       *)
Next ==
    /\ state' \in [Links -> States]
    /\ \A l \in Links : state'[l] # state[l] => <<state[l], state'[l]>> \in Moves

Spec == Init /\ [][Next]_state
=============================================================================
