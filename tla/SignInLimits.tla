---------------------------- MODULE SignInLimits ----------------------------
(***************************************************************************)
(* What limits guessing (auth/auth.service.ts): the count of wrong         *)
(* passwords that locks an account, and the attempts at a second-factor    *)
(* challenge.  A password takes a while to verify, between the read of the *)
(* user and the write of the count; a challenge is read, then written.     *)
(***************************************************************************)
EXTENDS Naturals, FiniteSets, Tables

CONSTANTS
    Accounts,       \* users who sign in
    SecondFactor,   \* those of them with a second factor
    Challenges,     \* identities of challenges; bounds how many are made
    Guessers,       \* calls to /auth that run concurrently
    LoginLimit,     \* FAILED_LOGIN_LIMIT
    CodeLimit       \* MAX_2FA_ATTEMPTS

ASSUME LimitsAssumption ==
    /\ SecondFactor \subseteq Accounts
    /\ IsFiniteSet(Guessers)
    /\ LoginLimit \in Nat \ {0} /\ CodeLimit \in Nat \ {0}

VARIABLES
    failed,      \* failed_login_count of each user
    locked,      \* users whose locked_until is in the future
    challenges,  \* the challenge rows, and how often each let someone in
    guesses,     \* calls in flight: what each has read
    wrong,       \* history: wrong passwords since the last right one or end of a lock
    blurred,     \* history: users whose count was written over one not read
    fought       \* history: challenges consumed by one call and used by another

limitVars == <<failed, locked, challenges, guesses, wrong, blurred, fought>>

Challenge == [user: SecondFactor, attempts: Nat, consumed: BOOLEAN, expired: BOOLEAN, uses: Nat]
Guess     == [kind: {"password"}, user: Accounts, saw: Nat]
               \union [kind: {"code"}, challenge: Challenges]

Guessing(g, kind) == g \in DOMAIN guesses /\ guesses[g].kind = kind

LimitsInit ==
    /\ failed = [u \in Accounts |-> 0]
    /\ locked = {}
    /\ challenges = << >>
    /\ guesses = << >>
    /\ wrong = [u \in Accounts |-> 0]
    /\ blurred = {} /\ fought = {}

(* signin reads the user: not locked, active.                              *)
PasswordRead(g, u) ==
    /\ g \notin DOMAIN guesses
    /\ u \notin locked
    /\ guesses' = Put(guesses, g, [kind |-> "password", user |-> u, saw |-> failed[u]])
    /\ UNCHANGED <<failed, locked, challenges, wrong, blurred, fought>>

\* mutant: the account is locked one failure too late
LocksAfter(count) == count > LoginLimit

Locks(count) == count >= LoginLimit

(* The count read is written back with one more; lockedUntil is written    *)
(* either way, so a count that is too old lifts a lock.                    *)
PasswordWrong(g) ==
    /\ Guessing(g, "password")
    /\ LET u == guesses[g].user
           count == guesses[g].saw + 1
       IN  /\ failed' = [failed EXCEPT ![u] = count]
           /\ locked' = IF Locks(count) THEN locked \union {u} ELSE locked \ {u}
           /\ wrong' = [wrong EXCEPT ![u] = @ + 1]
           /\ blurred' = IF failed[u] = guesses[g].saw /\ u \notin locked
                         THEN blurred ELSE blurred \union {u}
    /\ guesses' = Drop(guesses, g)
    /\ UNCHANGED <<challenges, fought>>

(* finalizeSignin and a password reset forget the failures, and a lock set *)
(* meanwhile.                                                              *)
LetIn(u) ==
    /\ failed' = [failed EXCEPT ![u] = 0]
    /\ locked' = locked \ {u}
    /\ wrong' = [wrong EXCEPT ![u] = 0]
    /\ blurred' = blurred \ {u}

PasswordRight(g) ==
    /\ Guessing(g, "password")
    /\ guesses[g].user \notin SecondFactor
    /\ LetIn(guesses[g].user)
    /\ guesses' = Drop(guesses, g)
    /\ UNCHANGED <<challenges, fought>>

(* With a second factor a right password only makes a challenge: failures  *)
(* are forgotten when the challenge is met.                                *)
PasswordChallenges(g, ch) ==
    /\ Guessing(g, "password")
    /\ guesses[g].user \in SecondFactor
    /\ ch \in Challenges \ DOMAIN challenges
    /\ challenges' = Put(challenges, ch,
           [user |-> guesses[g].user, attempts |-> 0,
            consumed |-> FALSE, expired |-> FALSE, uses |-> 0])
    /\ guesses' = Drop(guesses, g)
    /\ UNCHANGED <<failed, locked, wrong, blurred, fought>>

PasswordReset(u) ==
    /\ LetIn(u)
    /\ UNCHANGED <<challenges, guesses, fought>>

LockRunsOut(u) ==
    /\ u \in locked
    /\ locked' = locked \ {u}
    /\ wrong' = [wrong EXCEPT ![u] = 0]
    /\ UNCHANGED <<failed, challenges, guesses, blurred, fought>>

-----------------------------------------------------------------------------
(* The second factor.                                                      *)

CodeRead(g, ch) ==
    /\ g \notin DOMAIN guesses
    /\ ch \in DOMAIN challenges
    /\ ~challenges[ch].consumed /\ ~challenges[ch].expired
    /\ challenges[ch].attempts < CodeLimit
    /\ guesses' = Put(guesses, g, [kind |-> "code", challenge |-> ch])
    /\ UNCHANGED <<failed, locked, challenges, wrong, blurred, fought>>

CodeWrong(g) ==
    /\ Guessing(g, "code")
    /\ challenges' = [challenges EXCEPT ![guesses[g].challenge].attempts = @ + 1]
    /\ guesses' = Drop(guesses, g)
    /\ UNCHANGED <<failed, locked, wrong, blurred, fought>>

Competing(g) ==
    \E h \in DOMAIN guesses \ {g} :
        Guessing(h, "code") /\ guesses[h].challenge = guesses[g].challenge

CodeRight(g) ==
    /\ Guessing(g, "code")
    /\ LET ch == guesses[g].challenge IN
       /\ challenges' = [challenges EXCEPT ![ch].consumed = TRUE, ![ch].uses = @ + 1]
       /\ fought' = IF Competing(g) \/ challenges[ch].expired THEN fought \union {ch} ELSE fought
       /\ LetIn(challenges[ch].user)
    /\ guesses' = Drop(guesses, g)

ChallengeRunsOut(ch) ==
    /\ ch \in DOMAIN challenges /\ ~challenges[ch].expired
    /\ challenges' = [challenges EXCEPT ![ch].expired = TRUE]
    /\ UNCHANGED <<failed, locked, guesses, wrong, blurred, fought>>

(* The process dies between the statements.                                *)
GuessLost(g) ==
    /\ g \in DOMAIN guesses
    /\ guesses' = Drop(guesses, g)
    /\ UNCHANGED <<failed, locked, challenges, wrong, blurred, fought>>

LimitsNext ==
    \/ \E g \in Guessers :
          \/ \E u \in Accounts : PasswordRead(g, u)
          \/ PasswordWrong(g) \/ PasswordRight(g)
          \/ CodeWrong(g) \/ CodeRight(g) \/ GuessLost(g)
          \/ \E ch \in Challenges : PasswordChallenges(g, ch) \/ CodeRead(g, ch)
    \/ \E u \in Accounts : LockRunsOut(u) \/ PasswordReset(u)
    \/ \E ch \in Challenges : ChallengeRunsOut(ch)

LimitsSpec == LimitsInit /\ [][LimitsNext]_limitVars

-----------------------------------------------------------------------------
LimitsTypeOK ==
    /\ failed \in [Accounts -> Nat]
    /\ locked \subseteq Accounts
    /\ DOMAIN challenges \subseteq Challenges
    /\ \A ch \in DOMAIN challenges : challenges[ch] \in Challenge
    /\ DOMAIN guesses \subseteq Guessers
    /\ \A g \in DOMAIN guesses : guesses[g] \in Guess
    /\ wrong \in [Accounts -> Nat]
    /\ blurred \subseteq Accounts
    /\ fought \subseteq DOMAIN challenges

(* An account is locked from the failure that reaches the limit, and from  *)
(* each one after, until the lock runs out, its user gets in or the        *)
(* password is reset; never by fewer failures.  Two failures at once, or a *)
(* failure that was read before a lock or a success and written after it,  *)
(* blur the count (signin, auth.service.ts:207-231).  A second factor is   *)
(* guessed at most CodeLimit times, and once more for each further call    *)
(* that passed the check before the count was written (verifyTwoFactor,    *)
(* 285-296).                                                               *)
LockExact ==
    \A u \in Accounts \ blurred :
        u \in locked <=> failed[u] >= LoginLimit /\ wrong[u] > 0

AttemptsBounded ==
    \A ch \in DOMAIN challenges :
        challenges[ch].attempts <= CodeLimit + Cardinality(Guessers) - 1

GuessesLimited == LockExact /\ AttemptsBounded

(* What has become of a challenge (verifyTwoFactor,                        *)
(* auth.service.ts:271-309).                                               *)
ChallengeState(ch) ==
    IF ch \notin DOMAIN challenges THEN "none"
    ELSE IF ch \in fought THEN "torn"
    ELSE IF challenges[ch].uses > 1 THEN "overused"
    ELSE IF challenges[ch].uses = 1 THEN "used"
    ELSE IF challenges[ch].expired THEN "void"
    ELSE "open"
=============================================================================
