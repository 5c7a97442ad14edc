------------------------------- MODULE Access -------------------------------
(* Memberships and sign-in limits side by side: they share no row, but     *)
(* both hand out links that are to open once.                              *)
EXTENDS Membership, SignInLimits

InviteLinks == INSTANCE OneTimeLink
    WITH Links <- Invites, state <- [i \in Invites |-> InviteState(i)]

ChallengeLinks == INSTANCE OneTimeLink
    WITH Links <- Challenges, state <- [ch \in Challenges |-> ChallengeState(ch)]

(* What is handed out to be used once opens once, an invite (acceptInvite, *)
(* auth.service.ts:488-612) as well as a second-factor challenge           *)
(* (verifyTwoFactor, auth.service.ts:271-309), and not after it was        *)
(* revoked, replaced or ran out, unless two requests acted on what it was  *)
(* before the other, or acceptInvite took a link that a resend had marked  *)
(* expired: torn says which.  Both implement OneTimeLink.                  *)
LinksOpenOnce == InviteLinks!Spec /\ ChallengeLinks!Spec
=============================================================================
