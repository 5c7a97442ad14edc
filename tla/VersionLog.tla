----------------------------- MODULE VersionLog -----------------------------
(* What the versions of a document promise: a file is added after the      *)
(* others, none is lost or replaced, and the last one is what is shown.    *)
EXTENDS Sequences, Naturals
CONSTANTS Docs, Files, Nothing
VARIABLES log, shown

Init == log = [d \in Docs |-> << >>] /\ shown = [d \in Docs |-> Nothing]

AddVersion(d, f) ==
    /\ log' = [log EXCEPT ![d] = Append(@, f)]
    /\ shown' = [shown EXCEPT ![d] = f]

Next == \E d \in Docs, f \in Files : AddVersion(d, f)

Spec == Init /\ [][Next]_<<log, shown>>
=============================================================================
