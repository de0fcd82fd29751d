---------------------------- MODULE SecondFactor ----------------------------
(***************************************************************************)
(* Sign-in with a second factor. PostgreSQL keeps the account's TOTP       *)
(* secret, its pending enrolment and its login challenges; Redis counts    *)
(* the wrong codes given to switch the factor off. Every handler is a      *)
(* sequence of statements, and requests overlap between any two of them.   *)
(* A TOTP code is right or wrong for the secret it is checked against.     *)
(* The first factor (password, API key or OAuth) has been accepted when    *)
(* Login starts; refusals that touch no state are not actions. Whether an  *)
(* account is active can change between any two statements, so a read of   *)
(* its status finds either answer.                                         *)
(***************************************************************************)
EXTENDS Integers, FiniteSets

CONSTANTS
  Users, NoUser,
  Handlers,       \* requests that can be in progress together
  MaxAttempts,    \* MAX_TOTP_ATTEMPTS, MAX_CONFIRM_ATTEMPTS
  MaxSecrets,     \* bound: TOTP secrets ever generated
  MaxChallenges,  \* bound: login challenges ever created
  MaxFaults       \* bound: statements that fail

ASSUME SecondFactorAssumption ==
  /\ NoUser \notin Users
  /\ IsFiniteSet(Handlers) /\ Handlers # {}
  /\ MaxAttempts \in Nat \ {0}
  /\ MaxSecrets \in Nat /\ MaxChallenges \in Nat /\ MaxFaults \in Nat

Secrets == 1..MaxSecrets
Challenges == 1..MaxChallenges

VARIABLES
  totp,       \* user -> users.totp_secret, 0 for NULL
  enrol,      \* user -> the row of user_totp_enrollments, or NoEnrol
  secrets,    \* TOTP secrets generated so far
  challenge,  \* id -> the row of login_challenges, or NoChallenge
  created,    \* challenges created so far
  signedIn,   \* users who hold a JWT
  misses,     \* user -> the Redis counter of wrong disable codes
  armed,      \* users whose counter has an expiry
  pc,         \* handler -> where it is
  req,        \* handler -> what it remembers: user, secret, challenge id
  checked,    \* history: challenge -> codes checked in its name
  tried,      \* history: secret -> codes checked against it as an enrolment
  retired,    \* history: secrets that were switched off
  unarmed,    \* history: users whose counter was left without an expiry
  overlapped, \* history: users whose last logins overlapped
  faults      \* statements that have failed

totpVars == <<totp, enrol, secrets>>
rowVars == <<totpVars, challenge, created>>
cacheVars == <<misses, armed>>
tallyVars == <<checked, tried, retired>>
historyVars == <<tallyVars, unarmed, overlapped, faults>>
vars == <<rowVars, signedIn, cacheVars, pc, req, historyVars>>

NoEnrol == [secret |-> 0, attempts |-> 0, expired |-> FALSE]
NoChallenge == [user |-> NoUser, attempts |-> 0, expired |-> FALSE]
NoReq == [user |-> NoUser, secret |-> 0, id |-> 0]

At == {"idle", "replace", "insert", "factor", "miss", "exhaust", "consume",
       "setup", "confirm", "drop", "cmiss", "activate",
       "gate", "incr", "expire", "off", "clear"}

\* An attempts column can pass its limit by one per request and per fault.
MaxCount == MaxAttempts + Cardinality(Handlers) + MaxFaults

\* Requests that overlap can check more codes than the limit, each one more.
Overrun == MaxAttempts + Cardinality(Handlers) - 1

TypeOK ==
  /\ totp \in [Users -> 0..MaxSecrets]
  /\ enrol \in [Users -> [secret : 0..MaxSecrets, attempts : 0..MaxCount, expired : BOOLEAN]]
  /\ secrets \in 0..MaxSecrets
  /\ challenge \in [Challenges -> [user : Users \cup {NoUser}, attempts : 0..MaxCount,
                                   expired : BOOLEAN]]
  /\ created \in 0..MaxChallenges
  /\ signedIn \subseteq Users
  /\ misses \in [Users -> 0..Overrun] /\ armed \subseteq Users
  /\ pc \in [Handlers -> At]
  /\ req \in [Handlers -> [user : Users \cup {NoUser}, secret : 0..MaxSecrets,
                           id : 0..MaxChallenges]]
  /\ checked \in [Challenges -> 0..MaxCount]
  /\ tried \in [Secrets -> Nat]
  /\ retired \subseteq Secrets /\ unarmed \subseteq Users /\ overlapped \subseteq Users
  /\ faults \in 0..MaxFaults

Init ==
  /\ totp = [u \in Users |-> 0]
  /\ enrol = [u \in Users |-> NoEnrol]
  /\ secrets = 0
  /\ challenge = [c \in Challenges |-> NoChallenge]
  /\ created = 0
  /\ signedIn = {}
  /\ misses = [u \in Users |-> 0] /\ armed = {}
  /\ pc = [h \in Handlers |-> "idle"]
  /\ req = [h \in Handlers |-> NoReq]
  /\ checked = [c \in Challenges |-> 0]
  /\ tried = [s \in Secrets |-> 0]
  /\ retired = {} /\ unarmed = {} /\ overlapped = {} /\ faults = 0

-----------------------------------------------------------------------------
(* Helpers *)

Me(h) == req[h].user

Begin(h, where, u, s, c) ==
  /\ pc[h] = "idle"
  /\ pc' = [pc EXCEPT ![h] = where]
  /\ req' = [req EXCEPT ![h] = [user |-> u, secret |-> s, id |-> c]]

Goto(h, where) == pc' = [pc EXCEPT ![h] = where] /\ UNCHANGED req

Done(h) ==
  /\ pc' = [pc EXCEPT ![h] = "idle"]
  /\ req' = [req EXCEPT ![h] = NoReq]

\* A statement fails and the request answers 500.
Fault == faults < MaxFaults /\ faults' = faults + 1

NoFault == UNCHANGED faults

\* authorize: a JWT of an account that is active now; the handler gets the row.
Authorized(u) == u \in signedIn

\* What a presented code can turn out to be for a secret.
verify_totp_code(secret) == IF secret \in Secrets THEN BOOLEAN ELSE {FALSE}

\* issue_login_response: the user gets a JWT.
issue_login_response(u) == signedIn' = signedIn \cup {u}

-----------------------------------------------------------------------------
(* database/login_challenges.rs *)

ChallengesOf(u) == {c \in Challenges : challenge[c].user = u}

delete_login_challenges(ids) ==
  challenge' = [c \in Challenges |-> IF c \in ids THEN NoChallenge ELSE challenge[c]]

insert_login_challenge(u) ==
  /\ created < MaxChallenges
  /\ created' = created + 1
  /\ challenge' = [challenge EXCEPT ![created + 1] =
                     [user |-> u, attempts |-> 0, expired |-> FALSE]]

(* database/totp_enrollments.rs *)

totp_delete(u) == enrol' = [enrol EXCEPT ![u] = NoEnrol]

totp_upsert(u) ==
  /\ secrets < MaxSecrets
  /\ secrets' = secrets + 1
  /\ enrol' = [enrol EXCEPT ![u] =
                 [secret |-> secrets + 1, attempts |-> 0, expired |-> FALSE]]

\* disable: one transaction over the secret, the enrolment and the challenges.
totp_disable(u) ==
  /\ totp' = [totp EXCEPT ![u] = 0]
  /\ totp_delete(u)
  /\ delete_login_challenges(ChallengesOf(u))
  /\ retired' = IF totp[u] = 0 THEN retired ELSE retired \cup {totp[u]}
  /\ UNCHANGED <<secrets, created>>

-----------------------------------------------------------------------------
(* login, complete_browser_oauth, oauth_google_exchange: the first factor is in *)

\* The account is read once: without a secret it gets its JWT, with one a challenge.
Login(h, u) ==
  /\ \/ /\ totp[u] = 0
        /\ pc[h] = "idle"
        /\ issue_login_response(u)
        /\ UNCHANGED <<pc, req>>
     \/ /\ totp[u] # 0
        /\ created < MaxChallenges
        /\ Begin(h, "replace", u, 0, 0)
        /\ UNCHANGED signedIn
  /\ UNCHANGED <<rowVars, cacheVars, historyVars>>

\* Mutant of ReplaceChallenges: the older challenges stay.
ReplaceChallengesMutant(h) ==
  /\ pc[h] = "replace"
  /\ Goto(h, "insert")
  /\ NoFault /\ UNCHANGED challenge
  /\ UNCHANGED <<totpVars, created, signedIn, cacheVars, tallyVars, unarmed, overlapped>>

\* create_login_challenge, first statement: delete the older challenges.
ReplaceChallenges(h) ==
  /\ pc[h] = "replace"
  /\ \/ /\ Goto(h, "insert") /\ NoFault
        /\ delete_login_challenges(ChallengesOf(Me(h)))
        /\ overlapped' = (overlapped \ {Me(h)}) \cup
                           {Me(k) : k \in {k \in Handlers : pc[k] = "insert" /\ Me(k) = Me(h)}}
     \/ Done(h) /\ Fault /\ UNCHANGED <<challenge, overlapped>>
  /\ UNCHANGED <<totpVars, created, signedIn, cacheVars, tallyVars, unarmed>>

\* Second statement, in no transaction with the first.
InsertChallenge(h) ==
  /\ pc[h] = "insert"
  /\ Done(h)
  /\ insert_login_challenge(Me(h))
  /\ UNCHANGED <<totpVars, signedIn, cacheVars, historyVars>>

-----------------------------------------------------------------------------
(* login_totp *)

\* fetch_login_challenge; an expired one is deleted and refused.
FetchChallenge(h, c) ==
  /\ challenge[c].user # NoUser
  /\ \/ /\ ~challenge[c].expired
        /\ Begin(h, "factor", challenge[c].user, 0, c)
        /\ UNCHANGED challenge
     \/ /\ challenge[c].expired
        /\ pc[h] = "idle"
        /\ delete_login_challenges({c})
        /\ UNCHANGED <<pc, req>>
  /\ UNCHANGED <<totpVars, created, signedIn, cacheVars, historyVars>>

\* The account is read again, and the code checked against the secret it has now.
CheckFactor(h) ==
  /\ pc[h] = "factor"
  /\ \/ Done(h) /\ UNCHANGED checked  \* the account is disabled, or has no secret
     \/ /\ totp[Me(h)] # 0
        /\ checked' = [checked EXCEPT ![req[h].id] = @ + 1]
        /\ \E right \in verify_totp_code(totp[Me(h)]) :
             Goto(h, IF right THEN "consume" ELSE "miss")
  /\ UNCHANGED <<rowVars, signedIn, cacheVars, tried, retired, unarmed, overlapped, faults>>

\* record_failed_attempt, the UPDATE: no row counts as the limit reached.
CountMiss(h) ==
  /\ pc[h] = "miss"
  /\ LET c == req[h].id
         n == challenge[c].attempts + 1
     IN \/ challenge[c].user = NoUser /\ Done(h) /\ NoFault /\ UNCHANGED challenge
        \/ Done(h) /\ Fault /\ UNCHANGED challenge
        \/ /\ challenge[c].user # NoUser
           /\ challenge' = [challenge EXCEPT ![c].attempts = n]
           /\ IF n >= MaxAttempts THEN Goto(h, "exhaust") ELSE Done(h)
           /\ NoFault
  /\ UNCHANGED <<totpVars, created, signedIn, cacheVars, tallyVars, unarmed, overlapped>>

\* Mutant of Exhaust: the used-up challenge is kept.
ExhaustMutant(h) ==
  /\ pc[h] = "exhaust"
  /\ Done(h) /\ NoFault /\ UNCHANGED challenge
  /\ UNCHANGED <<totpVars, created, signedIn, cacheVars, tallyVars, unarmed, overlapped>>

\* record_failed_attempt: the used-up challenge is deleted, unless that fails.
Exhaust(h) ==
  /\ pc[h] = "exhaust"
  /\ Done(h)
  /\ \/ delete_login_challenges({req[h].id}) /\ NoFault
     \/ Fault /\ UNCHANGED challenge
  /\ UNCHANGED <<totpVars, created, signedIn, cacheVars, tallyVars, unarmed, overlapped>>

\* The right code: the challenge is deleted, a failure to do so ignored.
Consume(h) ==
  /\ pc[h] = "consume"
  /\ Done(h)
  /\ issue_login_response(Me(h))
  /\ \/ delete_login_challenges({req[h].id}) /\ NoFault
     \/ Fault /\ UNCHANGED challenge
  /\ UNCHANGED <<totpVars, created, cacheVars, tallyVars, unarmed, overlapped>>

-----------------------------------------------------------------------------
(* setup_totp, confirm_totp *)

SetupTotp(h, u) ==
  /\ Authorized(u) /\ totp[u] = 0
  /\ secrets < MaxSecrets
  /\ Begin(h, "setup", u, 0, 0)
  /\ UNCHANGED <<rowVars, signedIn, cacheVars, historyVars>>

\* The row read by authorize decides; the enrolment is replaced whatever it is now.
StoreEnrolment(h) ==
  /\ pc[h] = "setup"
  /\ Done(h)
  /\ \/ totp_upsert(Me(h)) /\ NoFault
     \/ Fault /\ UNCHANGED <<secrets, enrol>>
  /\ UNCHANGED <<totp, challenge, created, signedIn, cacheVars, tallyVars, unarmed, overlapped>>

ConfirmTotp(h, u) ==
  /\ Authorized(u) /\ totp[u] = 0
  /\ Begin(h, "confirm", u, 0, 0)
  /\ UNCHANGED <<rowVars, signedIn, cacheVars, historyVars>>

\* totp_enrollments::fetch, then the code is checked against the pending secret.
CheckEnrolment(h) ==
  /\ pc[h] = "confirm"
  /\ LET row == enrol[Me(h)]
     IN \/ row = NoEnrol /\ Done(h) /\ UNCHANGED tried
        \/ row # NoEnrol /\ row.expired /\ Goto(h, "drop") /\ UNCHANGED tried
        \/ /\ row # NoEnrol /\ ~row.expired
           /\ tried' = [tried EXCEPT ![row.secret] = @ + 1]
           /\ \E right \in verify_totp_code(row.secret) :
                pc' = [pc EXCEPT ![h] = IF right THEN "activate" ELSE "cmiss"]
           /\ req' = [req EXCEPT ![h].secret = row.secret]
  /\ UNCHANGED <<rowVars, signedIn, cacheVars, checked, retired, unarmed, overlapped, faults>>

\* delete by user: whatever enrolment is there by now.
DropEnrolment(h) ==
  /\ pc[h] = "drop"
  /\ Done(h)
  /\ \/ totp_delete(Me(h)) /\ NoFault
     \/ Fault /\ UNCHANGED enrol
  /\ UNCHANGED <<totp, secrets, challenge, created, signedIn, cacheVars, tallyVars, unarmed, overlapped>>

\* Mutant of CountConfirmMiss: off by one at the limit.
CountConfirmMissMutant(h) ==
  /\ pc[h] = "cmiss"
  /\ LET u == Me(h)
         n == enrol[u].attempts + 1
     IN \/ enrol[u] = NoEnrol /\ Done(h) /\ NoFault /\ UNCHANGED enrol
        \/ Done(h) /\ Fault /\ UNCHANGED enrol
        \/ /\ enrol[u] # NoEnrol
           /\ enrol' = [enrol EXCEPT ![u].attempts = n]
           /\ IF n > MaxAttempts THEN Goto(h, "drop") ELSE Done(h)
           /\ NoFault
  /\ UNCHANGED <<totp, secrets, challenge, created, signedIn, cacheVars, tallyVars, unarmed, overlapped>>

\* record_failed_attempt counts on the user's enrolment, of whatever secret; the UPDATE may fail.
CountConfirmMiss(h) ==
  /\ pc[h] = "cmiss"
  /\ LET u == Me(h)
         n == enrol[u].attempts + 1
     IN \/ enrol[u] = NoEnrol /\ Done(h) /\ NoFault /\ UNCHANGED enrol
        \/ Done(h) /\ Fault /\ UNCHANGED enrol
        \/ /\ enrol[u] # NoEnrol
           /\ enrol' = [enrol EXCEPT ![u].attempts = n]
           /\ IF n >= MaxAttempts THEN Goto(h, "drop") ELSE Done(h)
           /\ NoFault
  /\ UNCHANGED <<totp, secrets, challenge, created, signedIn, cacheVars, tallyVars, unarmed, overlapped>>

\* Mutant of ActivateTotp: the enrolment need not be there any more.
ActivateTotpMutant(h) ==
  /\ pc[h] = "activate"
  /\ Done(h)
  /\ totp' = [totp EXCEPT ![Me(h)] = IF @ = 0 THEN req[h].secret ELSE @]
  /\ totp_delete(Me(h))
  /\ UNCHANGED <<secrets, challenge, created, signedIn, cacheVars, historyVars>>

\* activate: one transaction consumes the matching enrolment and sets the secret.
ActivateTotp(h) ==
  /\ pc[h] = "activate"
  /\ Done(h)
  /\ LET u == Me(h)
         consumed == enrol[u].secret = req[h].secret /\ ~enrol[u].expired
     IN IF consumed /\ totp[u] = 0
          THEN totp' = [totp EXCEPT ![u] = req[h].secret] /\ totp_delete(u)
          ELSE UNCHANGED <<totp, enrol>>
  /\ UNCHANGED <<secrets, challenge, created, signedIn, cacheVars, historyVars>>

-----------------------------------------------------------------------------
(* disable_totp, reset_user_totp *)

DisableTotp(h, u) ==
  /\ Authorized(u) /\ totp[u] # 0
  /\ Begin(h, "gate", u, totp[u], 0)
  /\ UNCHANGED <<rowVars, signedIn, cacheVars, historyVars>>

\* disable_attempts, then the code against the secret authorize has read.
DisableGate(h) ==
  /\ pc[h] = "gate"
  /\ \/ misses[Me(h)] >= MaxAttempts /\ Done(h)
     \/ /\ misses[Me(h)] < MaxAttempts
        /\ \E right \in verify_totp_code(req[h].secret) :
             Goto(h, IF right THEN "off" ELSE "incr")
  /\ UNCHANGED <<rowVars, signedIn, cacheVars, historyVars>>

\* record_disable_failure: INCR.
CountDisableMiss(h) ==
  /\ pc[h] = "incr"
  /\ misses' = [misses EXCEPT ![Me(h)] = @ + 1]
  /\ IF misses[Me(h)] = 0 THEN Goto(h, "expire") ELSE Done(h)
  /\ UNCHANGED <<rowVars, signedIn, armed, historyVars>>

\* Mutant of ArmExpiry: the expiry is not set.
ArmExpiryMutant(h) ==
  /\ pc[h] = "expire"
  /\ Done(h) /\ NoFault /\ UNCHANGED <<armed, unarmed>>
  /\ UNCHANGED <<rowVars, signedIn, misses, tallyVars, overlapped>>

\* EXPIRE, on the first miss only; a key that is gone takes no expiry.
ArmExpiry(h) ==
  /\ pc[h] = "expire"
  /\ Done(h)
  /\ \/ /\ armed' = IF misses[Me(h)] = 0 THEN armed ELSE armed \cup {Me(h)}
        /\ NoFault /\ UNCHANGED unarmed
     \/ Fault /\ unarmed' = unarmed \cup {Me(h)} /\ UNCHANGED armed
  /\ UNCHANGED <<rowVars, signedIn, misses, tallyVars, overlapped>>

DisableFactor(h) ==
  /\ pc[h] = "off"
  /\ totp_disable(Me(h))
  /\ Goto(h, "clear")
  /\ UNCHANGED <<signedIn, cacheVars, checked, tried, unarmed, overlapped, faults>>

\* reset_user_totp by an administrator.
ResetUserTotp(h, u) ==
  /\ Begin(h, "clear", u, 0, 0)
  /\ totp_disable(u)
  /\ UNCHANGED <<signedIn, cacheVars, checked, tried, unarmed, overlapped, faults>>

\* clear_disable_failures: a Redis failure is ignored.
ClearMisses(h) ==
  /\ pc[h] = "clear"
  /\ Done(h)
  /\ \/ /\ misses' = [misses EXCEPT ![Me(h)] = 0]
        /\ armed' = armed \ {Me(h)}
        /\ unarmed' = unarmed \ {Me(h)}
        /\ NoFault
     \/ Fault /\ UNCHANGED <<misses, armed, unarmed>>
  /\ UNCHANGED <<rowVars, signedIn, tallyVars, overlapped>>

-----------------------------------------------------------------------------
(* Time *)

ChallengeExpires(c) ==
  /\ challenge[c].user # NoUser /\ ~challenge[c].expired
  /\ challenge' = [challenge EXCEPT ![c].expired = TRUE]
  /\ UNCHANGED <<totpVars, created, signedIn, cacheVars, pc, req, historyVars>>

EnrolmentExpires(u) ==
  /\ enrol[u] # NoEnrol /\ ~enrol[u].expired
  /\ enrol' = [enrol EXCEPT ![u].expired = TRUE]
  /\ UNCHANGED <<totp, secrets, challenge, created, signedIn, cacheVars, pc, req, historyVars>>

\* Redis removes the counter when its expiry is reached.
CounterExpires(u) ==
  /\ u \in armed
  /\ misses' = [misses EXCEPT ![u] = 0]
  /\ armed' = armed \ {u}
  /\ UNCHANGED <<rowVars, signedIn, pc, req, historyVars>>

HandlerStep(h) ==
  \/ ReplaceChallenges(h) \/ InsertChallenge(h)
  \/ CheckFactor(h) \/ CountMiss(h) \/ Exhaust(h) \/ Consume(h)
  \/ StoreEnrolment(h)
  \/ CheckEnrolment(h) \/ DropEnrolment(h) \/ CountConfirmMiss(h) \/ ActivateTotp(h)
  \/ DisableGate(h) \/ CountDisableMiss(h) \/ ArmExpiry(h) \/ DisableFactor(h)
  \/ ClearMisses(h)

Next ==
  \/ \E h \in Handlers, u \in Users :
       \/ Login(h, u) \/ SetupTotp(h, u) \/ ConfirmTotp(h, u)
       \/ DisableTotp(h, u) \/ ResetUserTotp(h, u)
  \/ \E h \in Handlers, c \in Challenges : FetchChallenge(h, c)
  \/ \E h \in Handlers : HandlerStep(h)
  \/ \E c \in Challenges : ChallengeExpires(c)
  \/ \E u \in Users : EnrolmentExpires(u) \/ CounterExpires(u)

Spec == Init /\ [][Next]_vars

-----------------------------------------------------------------------------
(* Properties *)

(***************************************************************************)
(* The limit on wrong codes holds under concurrency: however many login_totp *)
(* requests share a challenge, at most MAX_TOTP_ATTEMPTS codes plus one for *)
(* each other request in progress, and one for each failed delete, are ever *)
(* checked in its name. The attempts column is not read before a check:    *)
(* only the deletion of the row enforces the limit.                        *)
(***************************************************************************)
LoginCodesBounded ==
  \A c \in Challenges : checked[c] <= Overrun + faults

(***************************************************************************)
(* The same limit for the codes that confirm an enrolment, although the    *)
(* attempts are counted on the user's row, whatever secret it holds by then. *)
(***************************************************************************)
EnrolmentCodesBounded ==
  \A s \in Secrets : tried[s] <= Overrun + faults

(***************************************************************************)
(* A login replaces the challenges of earlier ones. create_login_challenge *)
(* deletes and inserts in two statements, so two challenges of one user are *)
(* open together only when two logins overlapped between the two.          *)
(***************************************************************************)
OneChallengeUnlessOverlap ==
  \A u \in Users : Cardinality(ChallengesOf(u)) > 1 => u \in overlapped

(***************************************************************************)
(* A counter of wrong disable codes is going to expire, so "Try again      *)
(* later" is true: unless EXPIRE has failed, a counter above zero has its  *)
(* expiry or the request that arms it is still running.                    *)
(***************************************************************************)
DisableLockEnds ==
  \A u \in Users :
    \/ misses[u] = 0
    \/ u \in armed \cup unarmed
    \/ \E h \in Handlers : pc[h] = "expire" /\ Me(h) = u

(***************************************************************************)
(* Guessing is limited where a code is tried for a sign-in (login_totp) or *)
(* an enrolment (confirm_totp), a second challenge brings no second        *)
(* allowance, and the lock on disable_totp comes to an end.                *)
(***************************************************************************)
GuessesLimited ==
  /\ TypeOK
  /\ LoginCodesBounded /\ EnrolmentCodesBounded /\ OneChallengeUnlessOverlap /\ DisableLockEnds

(***************************************************************************)
(* The secret of an account is set and cleared, never replaced, and one    *)
(* that was switched off is never switched on again, whatever confirm_totp *)
(* requests were holding it.                                               *)
(***************************************************************************)
SecretsUsedOnce ==
  [][\A u \in Users :
       totp'[u] # totp[u] /\ totp'[u] # 0 => totp[u] = 0 /\ totp'[u] \notin retired]_vars
=============================================================================
