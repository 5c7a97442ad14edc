----------------------------- MODULE MCIdentity -----------------------------
EXTENDS Identity, TLC

CONSTANTS boss, joe, ann, a1, a2, c1, c2, t1, t2, t3, r1, r2

Symmetry == Permutations(Admins) \union Permutations(Clients)

(* Tokens and links are alike: they are used in one order.                 *)
InTurn ==
    /\ t2 \in DOMAIN tokens' => t1 \in DOMAIN tokens'
    /\ t3 \in DOMAIN tokens' => t2 \in DOMAIN tokens'
    /\ r2 \in DOMAIN links'  => r1 \in DOMAIN links'

AtWork(u) == users[u] = [status |-> "active", super |-> TRUE] /\ u \in employed

(* Races between accounts and sessions are about the invited user, on two  *)
(* tokens and no reset link: the founders stay as they are.  She holds no  *)
(* super_admin that assigning a role would take away.                      *)
AboutAnn ==
    /\ AtWork(boss) /\ AtWork(joe)
    /\ \A a \in DOMAIN requests : requests[a].user = ann /\ requests[a].kind # "assign"
    /\ \A c \in DOMAIN calls : calls[c].kind = "signin" => calls[c].user = ann
    /\ \A t \in DOMAIN tokens : tokens[t].user = ann
    /\ Cardinality(DOMAIN tokens) <= 2
    /\ links = << >>
    /\ deactivated \subseteq {ann}

SpecAlone == Init /\ alone = TRUE /\ [][NextAlone /\ UNCHANGED alone]_<<vars, alone>>

(* Handlers alone: one of the founders stays as he is, one reset link, and *)
(* nobody leaves; offboarding while handlers run alone has a run of its    *)
(* own.                                                                    *)
NextApart ==
    /\ NextAlone
    /\ NobodyLeaves
    /\ AtWork(joe)'
    /\ \A a \in DOMAIN requests' : requests'[a].user # joe
    /\ \A c \in DOMAIN calls' : calls'[c].kind = "signin" => calls'[c].user # joe
    /\ Cardinality(DOMAIN links') <= 1

(* Accounts by themselves.  As long as two users hold super_admin, one     *)
(* request at a time: the guard cannot count what another request is about *)
(* to write.  Once one is left, any overlap.                               *)
Guarded == \/ Cardinality(SuperAdmins') <= 1
           \/ Cardinality(DOMAIN requests') <= 1

AccountsByThemselves ==
    SessionsInit /\ AccountsNext /\ Guarded /\ UNCHANGED sessionVars

(* Sessions by themselves.  One user signs in, refreshes and resets; which *)
(* of the others is active makes no difference to him.  Two links go with  *)
(* two tokens, so that one is issued between two resets.                   *)
AboutBoss ==
    /\ users[ann].status = "invited"
    /\ \A c \in DOMAIN calls : calls[c].kind = "signin" => calls[c].user = boss
    /\ \A r \in DOMAIN links : links[r].user = boss
    /\ Cardinality(DOMAIN links) = 2 => Cardinality(DOMAIN tokens) <= 2

SessionsByThemselves ==
    AccountsInit /\ AboutBoss /\ SessionsNext /\ UNCHANGED accountVars /\ AboutBoss'

(* Handlers alone in one half of the behaviours; in the other every        *)
(* overlap, of accounts with sessions or within either.                    *)
InitEither == Init /\ alone \in BOOLEAN

SpecEachWay ==
    /\ InitEither
    /\ [][ /\ \/ alone /\ NextApart
              \/ ~alone /\ AboutAnn /\ Next /\ AboutAnn'
              \/ ~alone /\ AccountsByThemselves
              \/ ~alone /\ SessionsByThemselves
           /\ UNCHANGED alone /\ InTurn ]_<<vars, alone>>
=============================================================================
