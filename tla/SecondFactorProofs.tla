------------------------- MODULE SecondFactorProofs -------------------------
(***************************************************************************)
(* Safety of SecondFactor, for any number of users, requests in progress,  *)
(* secrets, challenges and failures, and any limit on wrong codes.         *)
(***************************************************************************)
EXTENDS SecondFactor, FiniteSetTheorems, TLAPS

\* The requests at one of the places W for challenge c, or for user u.
ForChallenge(W, c) == {h \in Handlers : pc[h] \in W /\ req[h].id = c}
ForUser(W, u) == {h \in Handlers : pc[h] \in W /\ Me(h) = u}

\* The requests of login_totp that have the challenge and will check a code,
\* those that have checked one, and those that will delete the challenge.
Fetched(c) == ForChallenge({"factor"}, c)
Judging(c) == ForChallenge({"miss", "consume"}, c)
Exhausting(c) == ForChallenge({"exhaust"}, c)

\* The requests of confirm_totp of user u that will check a code, that have
\* checked one against secret s, and that will delete the enrolment.
Confirming(u) == ForUser({"confirm"}, u)
Confirmed(u, s) == {h \in Handlers : pc[h] \in {"cmiss", "activate"} /\ Me(h) = u /\ req[h].secret = s}
Dropping(u) == ForUser({"drop"}, u)

\* The requests of disable_totp that found a wrong code and have not counted it.
Counting(u) == ForUser({"incr"}, u)

\* The logins of u between the two statements of create_login_challenge.
Inserting(u) == ForUser({"insert"}, u)

\* Requests carry what the place they are at needs, and rows are numbered as
\* they are made.
RequestsInv ==
  /\ \A h \in Handlers :
       /\ pc[h] # "idle" => Me(h) \in Users
       /\ pc[h] \in {"factor", "miss", "consume", "exhaust"} => req[h].id \in 1..created
       /\ pc[h] \in {"cmiss", "activate"} => req[h].secret \in 1..secrets
  /\ \A c \in Challenges : c > created => challenge[c].user = NoUser /\ checked[c] = 0
  /\ \A s \in Secrets : s > secrets => tried[s] = 0

\* Every secret is in one place: one enrolment, or an account, or switched off.
SecretsInv ==
  /\ \A u \in Users :
       /\ enrol[u].secret <= secrets
       /\ enrol[u] # NoEnrol => enrol[u].secret # 0
       /\ totp[u] <= secrets
  /\ \A u, v \in Users : enrol[u].secret # 0 =>
       /\ enrol[u].secret = enrol[v].secret => u = v
       /\ enrol[u].secret # totp[v]
       /\ enrol[u].secret \notin retired
  /\ \A s \in retired : s <= secrets

\* While challenge c is there, every code checked in its name is counted, about
\* to be, or lost to a failure; every count at the limit has a request about to
\* delete the challenge, or a failure. Afterwards only the requests that have
\* fetched it go on.
LoginOK(c) ==
  /\ challenge[c].user # NoUser =>
       /\ checked[c] <= challenge[c].attempts + Cardinality(Judging(c)) + faults
       /\ challenge[c].attempts <= MaxAttempts - 1 + Cardinality(Exhausting(c)) + faults
       /\ checked[c] <= MaxAttempts - 1 + Cardinality(Exhausting(c))
                          + Cardinality(Judging(c)) + faults
  /\ checked[c] + Cardinality(Fetched(c)) <= Overrun + faults

LoginInv == \A c \in Challenges : LoginOK(c)

\* The same for the enrolment of u. One that is made while u has a secret is
\* only seen by requests that were authorized before.
EnrolmentOK(u, s) ==
  enrol[u].secret = s =>
    /\ enrol[u].attempts <= MaxAttempts - 1 + Cardinality(Dropping(u)) + faults
    /\ ~enrol[u].expired /\ totp[u] = 0 =>
         /\ tried[s] <= enrol[u].attempts + Cardinality(Confirmed(u, s)) + faults
         /\ tried[s] <= MaxAttempts - 1 + Cardinality(Dropping(u))
                          + Cardinality(Confirmed(u, s)) + faults
    /\ ~enrol[u].expired /\ totp[u] # 0 =>
         tried[s] + Cardinality(Confirming(u)) <= Overrun + faults

EnrolmentInv ==
  EnrolmentCodesBounded /\ \A u \in Users, s \in Secrets : EnrolmentOK(u, s)

\* Wrong disable codes that were found under the limit and those to be counted.
CounterInv ==
  \A u \in Users : misses[u] + Cardinality(Counting(u)) <= Overrun

\* Unless logins of u overlapped, one challenge or one request about to insert
\* one, not both.
ReplaceInv ==
  \A u \in Users \ overlapped :
    /\ \A c, d \in ChallengesOf(u) : c = d
    /\ \A h, k \in Inserting(u) : h = k
    /\ ChallengesOf(u) = {} \/ Inserting(u) = {}

\* The inductive invariant.
GuessInv ==
  /\ TypeOK /\ RequestsInv /\ SecretsInv
  /\ LoginInv /\ EnrolmentInv /\ CounterInv /\ ReplaceInv /\ DisableLockEnds

-----------------------------------------------------------------------------
(* Counting requests *)

\* What a step of request h leaves alone.
OnlyMoves(h) ==
  /\ pc' = [pc EXCEPT ![h] = pc'[h]] /\ req' = [req EXCEPT ![h] = req'[h]]
  /\ \A k \in Handlers \ {h} : pc'[k] = pc[k] /\ req'[k] = req[k]

\* 1 or 0: what one request adds to a count.
Bit(p) == IF p THEN 1 ELSE 0

\* A set of requests that gains or loses h alone.
LEMMA CountMove ==
  ASSUME NEW S \in SUBSET Handlers, NEW T \in SUBSET Handlers, NEW h \in Handlers,
         S \ {h} = T \ {h}
  PROVE  /\ Cardinality(S) \in Nat /\ Cardinality(T) \in Nat
         /\ Cardinality(T) = Cardinality(S) + Bit(h \in T) - Bit(h \in S)
  <1>1. IsFiniteSet(S) /\ IsFiniteSet(T)
    BY SecondFactorAssumption, FS_Subset
  <1>2. Cardinality(S) \in Nat /\ Cardinality(T) \in Nat
    BY <1>1, FS_CardinalityType
  <1>3. Cardinality(S \ {h}) = IF h \in S THEN Cardinality(S) - 1 ELSE Cardinality(S)
    BY <1>1, FS_RemoveElement
  <1>4. Cardinality(T \ {h}) = IF h \in T THEN Cardinality(T) - 1 ELSE Cardinality(T)
    BY <1>1, FS_RemoveElement
  <1>5. Cardinality(S \ {h}) = Cardinality(T \ {h})
    BY Zenon
  <1> QED
    BY <1>2, <1>3, <1>4, <1>5 DEF Bit

\* Requests for a challenge, counted before and after a step of h.
LEMMA ChallengeCount ==
  ASSUME NEW W, NEW c, NEW h \in Handlers, OnlyMoves(h)
  PROVE  /\ Cardinality(ForChallenge(W, c)) \in Nat
         /\ Cardinality(ForChallenge(W, c))' \in Nat
         /\ Cardinality(ForChallenge(W, c))' = Cardinality(ForChallenge(W, c))
              + Bit(pc'[h] \in W /\ req'[h].id = c) - Bit(pc[h] \in W /\ req[h].id = c)
  <1> DEFINE S == ForChallenge(W, c)
             T == ForChallenge(W, c)'
  <1>1. S \in SUBSET Handlers /\ T \in SUBSET Handlers
    BY DEF ForChallenge
  <1>2. S \ {h} = T \ {h}
    BY DEF ForChallenge, OnlyMoves
  <1>3. /\ h \in S <=> pc[h] \in W /\ req[h].id = c
        /\ h \in T <=> pc'[h] \in W /\ req'[h].id = c
    BY DEF ForChallenge
  <1> HIDE DEF S, T
  <1>4. /\ Cardinality(S) \in Nat /\ Cardinality(T) \in Nat
        /\ Cardinality(T) = Cardinality(S) + Bit(h \in T) - Bit(h \in S)
    BY <1>1, <1>2, CountMove
  <1>5. Cardinality(T) = Cardinality(S)
              + Bit(pc'[h] \in W /\ req'[h].id = c) - Bit(pc[h] \in W /\ req[h].id = c)
    BY <1>3, <1>4 DEF Bit
  <1> QED
    BY <1>4, <1>5 DEF S, T

\* Requests of a user, counted before and after a step of h.
LEMMA UserCount ==
  ASSUME NEW W, NEW u, NEW h \in Handlers, OnlyMoves(h)
  PROVE  /\ Cardinality(ForUser(W, u)) \in Nat
         /\ Cardinality(ForUser(W, u))' \in Nat
         /\ Cardinality(ForUser(W, u))' = Cardinality(ForUser(W, u))
              + Bit(pc'[h] \in W /\ req'[h].user = u) - Bit(pc[h] \in W /\ req[h].user = u)
  <1> DEFINE S == ForUser(W, u)
             T == ForUser(W, u)'
  <1>1. S \in SUBSET Handlers /\ T \in SUBSET Handlers
    BY DEF ForUser
  <1>2. S \ {h} = T \ {h}
    BY DEF ForUser, OnlyMoves, Me
  <1>3. /\ h \in S <=> pc[h] \in W /\ req[h].user = u
        /\ h \in T <=> pc'[h] \in W /\ req'[h].user = u
    BY DEF ForUser, Me
  <1> HIDE DEF S, T
  <1>4. /\ Cardinality(S) \in Nat /\ Cardinality(T) \in Nat
        /\ Cardinality(T) = Cardinality(S) + Bit(h \in T) - Bit(h \in S)
    BY <1>1, <1>2, CountMove
  <1>5. Cardinality(T) = Cardinality(S)
              + Bit(pc'[h] \in W /\ req'[h].user = u) - Bit(pc[h] \in W /\ req[h].user = u)
    BY <1>3, <1>4 DEF Bit
  <1> QED
    BY <1>4, <1>5 DEF S, T

\* Requests of a user that hold a secret, counted before and after a step of h.
LEMMA SecretCount ==
  ASSUME NEW u, NEW s, NEW h \in Handlers, OnlyMoves(h)
  PROVE  /\ Cardinality(Confirmed(u, s)) \in Nat
         /\ Cardinality(Confirmed(u, s))' \in Nat
         /\ Cardinality(Confirmed(u, s))' = Cardinality(Confirmed(u, s))
              + Bit(pc'[h] \in {"cmiss", "activate"} /\ req'[h].user = u /\ req'[h].secret = s)
              - Bit(pc[h] \in {"cmiss", "activate"} /\ req[h].user = u /\ req[h].secret = s)
  <1> DEFINE S == Confirmed(u, s)
             T == Confirmed(u, s)'
  <1>1. S \in SUBSET Handlers /\ T \in SUBSET Handlers
    BY DEF Confirmed
  <1>2. S \ {h} = T \ {h}
    BY DEF Confirmed, OnlyMoves, Me
  <1>3. /\ h \in S <=> pc[h] \in {"cmiss", "activate"} /\ req[h].user = u /\ req[h].secret = s
        /\ h \in T <=> pc'[h] \in {"cmiss", "activate"} /\ req'[h].user = u /\ req'[h].secret = s
    BY DEF Confirmed, Me
  <1> HIDE DEF S, T
  <1>4. /\ Cardinality(S) \in Nat /\ Cardinality(T) \in Nat
        /\ Cardinality(T) = Cardinality(S) + Bit(h \in T) - Bit(h \in S)
    BY <1>1, <1>2, CountMove
  <1>5. Cardinality(T) = Cardinality(S)
              + Bit(pc'[h] \in {"cmiss", "activate"} /\ req'[h].user = u /\ req'[h].secret = s)
              - Bit(pc[h] \in {"cmiss", "activate"} /\ req[h].user = u /\ req[h].secret = s)
    BY <1>3, <1>4 DEF Bit
  <1> QED
    BY <1>4, <1>5 DEF S, T

\* The requests for one challenge are at one place each.
LEMMA ThreePlaces ==
  ASSUME NEW A \in SUBSET Handlers, NEW B \in SUBSET Handlers, NEW C \in SUBSET Handlers,
         A \cap B = {}, A \cap C = {}, B \cap C = {}
  PROVE  /\ Cardinality(Handlers) \in Nat
         /\ Cardinality(A) + Cardinality(B) + Cardinality(C) <= Cardinality(Handlers)
  <1>1. IsFiniteSet(A) /\ IsFiniteSet(B) /\ IsFiniteSet(C) /\ IsFiniteSet(A \cup B)
        /\ IsFiniteSet(Handlers) /\ IsFiniteSet((A \cup B) \cup C)
    BY SecondFactorAssumption, FS_Subset
  <1>2. Cardinality({}) = 0
    BY FS_EmptySet
  <1>3. Cardinality(A \cup B) = Cardinality(A) + Cardinality(B) - 0
    BY <1>1, <1>2, FS_Union
  <1>4. (A \cup B) \cap C = {}
    OBVIOUS
  <1>5. Cardinality((A \cup B) \cup C) = Cardinality(A \cup B) + Cardinality(C) - 0
    BY <1>1, <1>2, <1>4, FS_Union
  <1>6. Cardinality((A \cup B) \cup C) <= Cardinality(Handlers)
    BY <1>1, FS_Subset
  <1>7. Cardinality(A) \in Nat /\ Cardinality(B) \in Nat /\ Cardinality(C) \in Nat
        /\ Cardinality(Handlers) \in Nat
    BY <1>1, FS_CardinalityType
  <1> QED
    BY <1>3, <1>5, <1>6, <1>7

-----------------------------------------------------------------------------
(* Steps *)

\* A request arrives, for a user or for a challenge.
Start(h) ==
  \/ \E u \in Users : \/ Login(h, u) \/ SetupTotp(h, u) \/ ConfirmTotp(h, u)
                      \/ DisableTotp(h, u) \/ ResetUserTotp(h, u)
  \/ \E c \in Challenges : FetchChallenge(h, c)

\* Time passes.
Tick ==
  \/ \E c \in Challenges : ChallengeExpires(c)
  \/ \E u \in Users : EnrolmentExpires(u) \/ CounterExpires(u)

\* The ways a request moves.
LEMMA Moving ==
  ASSUME TypeOK, NEW h \in Handlers,
         \/ Done(h) \/ UNCHANGED <<pc, req>>
         \/ \E where : Goto(h, where)
         \/ \E where, u, s, c : Begin(h, where, u, s, c)
  PROVE  OnlyMoves(h)
  BY DEF TypeOK, OnlyMoves, Done, Goto, Begin

\* A step of request h moves no other request.
LEMMA StepMoves ==
  ASSUME TypeOK, NEW h \in Handlers, Start(h) \/ HandlerStep(h)
  PROVE  OnlyMoves(h)
  <1>1. CASE Start(h)
    <2>1. ASSUME NEW u \in Users, Login(h, u) PROVE OnlyMoves(h)
      BY <2>1, Moving DEF Login
    <2>2. ASSUME NEW u \in Users,
                 SetupTotp(h, u) \/ ConfirmTotp(h, u) \/ DisableTotp(h, u) \/ ResetUserTotp(h, u)
          PROVE  OnlyMoves(h)
      BY <2>2, Moving DEF SetupTotp, ConfirmTotp, DisableTotp, ResetUserTotp
    <2>3. ASSUME NEW c \in Challenges, FetchChallenge(h, c) PROVE OnlyMoves(h)
      BY <2>3, Moving DEF FetchChallenge
    <2> QED
      BY <1>1, <2>1, <2>2, <2>3 DEF Start
  <1>2. CASE CheckEnrolment(h)
    <2>1. CASE Done(h) \/ Goto(h, "drop")
      BY <2>1, Moving
    <2>2. CASE /\ \E where : pc' = [pc EXCEPT ![h] = where]
               /\ req' = [req EXCEPT ![h].secret = enrol[Me(h)].secret]
      BY <2>2 DEF TypeOK, OnlyMoves
    <2> QED
      BY <1>2, <2>1, <2>2 DEF CheckEnrolment
  <1>3. CASE ReplaceChallenges(h) \/ InsertChallenge(h) \/ CheckFactor(h) \/ CountMiss(h)
    BY <1>3, Moving DEF ReplaceChallenges, InsertChallenge, CheckFactor, CountMiss
  <1>4. CASE \/ Exhaust(h) \/ Consume(h) \/ StoreEnrolment(h) \/ DropEnrolment(h)
             \/ CountConfirmMiss(h) \/ ActivateTotp(h)
    BY <1>4, Moving
    DEF Exhaust, Consume, StoreEnrolment, DropEnrolment, CountConfirmMiss, ActivateTotp
  <1>5. CASE \/ DisableGate(h) \/ CountDisableMiss(h) \/ ArmExpiry(h) \/ DisableFactor(h)
             \/ ClearMisses(h)
    BY <1>5, Moving DEF DisableGate, CountDisableMiss, ArmExpiry, DisableFactor, ClearMisses
  <1> QED
    BY <1>1, <1>2, <1>3, <1>4, <1>5 DEF HandlerStep

\* A failure is counted.
LEMMA FaultsGrow ==
  ASSUME TypeOK, NEW h \in Handlers, Start(h) \/ HandlerStep(h)
  PROVE  faults' \in 0..MaxFaults /\ faults <= faults'
  <1>1. CASE UNCHANGED faults \/ Fault
    BY <1>1, SecondFactorAssumption DEF TypeOK, Fault
  <1>2. ASSUME Start(h) PROVE UNCHANGED faults
    BY <1>2
    DEF Start, Login, SetupTotp, ConfirmTotp, DisableTotp, ResetUserTotp, FetchChallenge, historyVars
  <1>3. CASE HandlerStep(h)
    BY <1>1, <1>3
    DEF HandlerStep, ReplaceChallenges, InsertChallenge, CheckFactor, CountMiss, Exhaust, Consume,
        StoreEnrolment, CheckEnrolment, DropEnrolment, CountConfirmMiss, ActivateTotp, DisableGate,
        CountDisableMiss, ArmExpiry, DisableFactor, ClearMisses, NoFault, historyVars
  <1> QED
    BY <1>1, <1>2, <1>3

-----------------------------------------------------------------------------
(* Codes of login_totp *)

\* The places of login_totp between the read of a challenge and its end.
LoginAt == {"factor", "miss", "consume", "exhaust"}

\* A step of another handler leaves the challenge, closes it, or makes it.
LoginFrame(h) ==
  /\ pc[h] \notin LoginAt /\ pc'[h] \notin LoginAt
  /\ checked' = checked
  /\ \A c \in Challenges :
       \/ challenge'[c] = challenge[c]
       \/ challenge'[c].user = NoUser
       \/ checked[c] = 0 /\ challenge'[c].attempts = 0

\* The handlers other than login_totp.
LEMMA OtherThanLogin ==
  ASSUME TypeOK, RequestsInv, NEW h \in Handlers,
         \/ Start(h) /\ ~\E c \in Challenges : FetchChallenge(h, c)
         \/ HandlerStep(h) /\ pc[h] \notin LoginAt
  PROVE  LoginFrame(h)
  <1> USE DEF LoginFrame, LoginAt
  <1>1. CASE Start(h) /\ ~\E c \in Challenges : FetchChallenge(h, c)
    <2> PICK u \in Users : \/ Login(h, u) \/ SetupTotp(h, u) \/ ConfirmTotp(h, u)
                           \/ DisableTotp(h, u) \/ ResetUserTotp(h, u)
      BY <1>1 DEF Start
    <2>1. CASE Login(h, u)
      BY <2>1 DEF Login, Begin, TypeOK, rowVars, historyVars, tallyVars
    <2>2. CASE SetupTotp(h, u) \/ ConfirmTotp(h, u) \/ DisableTotp(h, u)
      BY <2>2 DEF SetupTotp, ConfirmTotp, DisableTotp, Begin, TypeOK, rowVars, historyVars, tallyVars
    <2>3. CASE ResetUserTotp(h, u)
      BY <2>3 DEF ResetUserTotp, Begin, TypeOK, totp_disable, delete_login_challenges, NoChallenge
    <2> QED
      BY <2>1, <2>2, <2>3
  <1>2. CASE HandlerStep(h) /\ pc[h] \notin LoginAt
    <2>1. CASE ReplaceChallenges(h)
      BY <2>1 DEF ReplaceChallenges, TypeOK, Goto, Done, delete_login_challenges, NoChallenge, tallyVars
    <2>2. CASE InsertChallenge(h)
      <3>1. ASSUME NEW c \in Challenges, challenge'[c] # challenge[c]
            PROVE  checked[c] = 0 /\ challenge'[c].attempts = 0
        BY <2>2, <3>1 DEF InsertChallenge, insert_login_challenge, TypeOK, RequestsInv
      <3> QED
        BY <2>2, <3>1 DEF InsertChallenge, TypeOK, Done, historyVars, tallyVars
    <2>3. CASE StoreEnrolment(h) \/ DropEnrolment(h) \/ CountConfirmMiss(h) \/ ActivateTotp(h)
      BY <2>3
      DEF StoreEnrolment, DropEnrolment, CountConfirmMiss, ActivateTotp, TypeOK, Goto, Done,
          historyVars, tallyVars
    <2>4. CASE CheckEnrolment(h)
      BY <2>4 DEF CheckEnrolment, TypeOK, Goto, Done, rowVars
    <2>5. CASE DisableGate(h) \/ CountDisableMiss(h) \/ ArmExpiry(h) \/ ClearMisses(h)
      BY <2>5
      DEF DisableGate, CountDisableMiss, ArmExpiry, ClearMisses, TypeOK, Goto, Done,
          rowVars, historyVars, tallyVars
    <2>6. CASE DisableFactor(h)
      BY <2>6
      DEF DisableFactor, totp_disable, delete_login_challenges, NoChallenge, TypeOK, Goto, Done
    <2> QED
      BY <1>2, <2>1, <2>2, <2>3, <2>4, <2>5, <2>6
      DEF HandlerStep, CheckFactor, CountMiss, Exhaust, Consume
  <1> QED
    BY <1>1, <1>2

\* The requests for challenge c are at one place each.
LEMMA LoginPlaces ==
  ASSUME NEW c
  PROVE  /\ Cardinality(Handlers) \in Nat
         /\ Cardinality(Fetched(c)) + Cardinality(Judging(c)) + Cardinality(Exhausting(c))
              <= Cardinality(Handlers)
  <1> DEFINE F == Fetched(c)
             J == Judging(c)
             E == Exhausting(c)
  <1>1. F \in SUBSET Handlers /\ J \in SUBSET Handlers /\ E \in SUBSET Handlers
    BY DEF Fetched, Judging, Exhausting, ForChallenge
  <1>2. F \cap J = {} /\ F \cap E = {} /\ J \cap E = {}
    BY DEF Fetched, Judging, Exhausting, ForChallenge
  <1> HIDE DEF F, J, E
  <1>3. /\ Cardinality(Handlers) \in Nat
        /\ Cardinality(F) + Cardinality(J) + Cardinality(E) <= Cardinality(Handlers)
    BY <1>1, <1>2, ThreePlaces
  <1> QED
    BY <1>3 DEF F, J, E

\* The requests for challenge c before and after a step of h.
LEMMA LoginCounts ==
  ASSUME NEW c, NEW h \in Handlers, OnlyMoves(h)
  PROVE  /\ Cardinality(Fetched(c)) \in Nat /\ Cardinality(Fetched(c))' \in Nat
         /\ Cardinality(Fetched(c))' = Cardinality(Fetched(c))
              + Bit(pc'[h] \in {"factor"} /\ req'[h].id = c)
              - Bit(pc[h] \in {"factor"} /\ req[h].id = c)
         /\ Cardinality(Judging(c)) \in Nat /\ Cardinality(Judging(c))' \in Nat
         /\ Cardinality(Judging(c))' = Cardinality(Judging(c))
              + Bit(pc'[h] \in {"miss", "consume"} /\ req'[h].id = c)
              - Bit(pc[h] \in {"miss", "consume"} /\ req[h].id = c)
         /\ Cardinality(Exhausting(c)) \in Nat /\ Cardinality(Exhausting(c))' \in Nat
         /\ Cardinality(Exhausting(c))' = Cardinality(Exhausting(c))
              + Bit(pc'[h] \in {"exhaust"} /\ req'[h].id = c)
              - Bit(pc[h] \in {"exhaust"} /\ req[h].id = c)
  BY ChallengeCount DEF Fetched, Judging, Exhausting

\* Every step keeps the account of the codes checked for challenge c.
LEMMA LoginStep ==
  ASSUME TypeOK, RequestsInv, LoginInv, NEW h \in Handlers, Start(h) \/ HandlerStep(h),
         NEW c \in Challenges
  PROVE  LoginOK(c)'
  <1> DEFINE F == Cardinality(Fetched(c))
             J == Cardinality(Judging(c))
             E == Cardinality(Exhausting(c))
             FF == Cardinality(Fetched(c))'
             JJ == Cardinality(Judging(c))'
             EE == Cardinality(Exhausting(c))'
             N == Cardinality(Handlers)
             n == challenge[c].attempts
             nn == challenge'[c].attempts
  <1>1. OnlyMoves(h)
    BY StepMoves
  <1>2. /\ F \in Nat /\ J \in Nat /\ E \in Nat /\ FF \in Nat /\ JJ \in Nat /\ EE \in Nat
        /\ FF = F + Bit(pc'[h] = "factor" /\ req'[h].id = c)
                  - Bit(pc[h] = "factor" /\ req[h].id = c)
        /\ JJ = J + Bit(pc'[h] \in {"miss", "consume"} /\ req'[h].id = c)
                  - Bit(pc[h] \in {"miss", "consume"} /\ req[h].id = c)
        /\ EE = E + Bit(pc'[h] = "exhaust" /\ req'[h].id = c)
                  - Bit(pc[h] = "exhaust" /\ req[h].id = c)
    BY <1>1, LoginCounts DEF Bit
  <1>3. N \in Nat /\ (F + J + E <= N)
    BY LoginPlaces
  <1>4. (Cardinality(Fetched(c)) + Cardinality(Judging(c)) + Cardinality(Exhausting(c))
           <= Cardinality(Handlers))'
    BY LoginPlaces, PTL
  <1>5. FF + JJ + EE <= N
    BY <1>4
  <1>6. /\ challenge[c].user # NoUser =>
             /\ checked[c] <= n + J + faults
             /\ n <= MaxAttempts - 1 + E + faults
             /\ checked[c] <= MaxAttempts - 1 + E + J + faults
        /\ checked[c] + F <= MaxAttempts + N - 1 + faults
    BY DEF LoginInv, LoginOK, Overrun
  <1>7. /\ checked[c] \in Nat /\ n \in Nat /\ MaxAttempts \in Nat \ {0}
        /\ faults \in Nat /\ faults' \in Nat /\ faults <= faults'
    BY FaultsGrow, SecondFactorAssumption DEF TypeOK
  <1> SUFFICES
        /\ challenge'[c].user # NoUser =>
             /\ checked'[c] <= nn + JJ + faults'
             /\ nn <= MaxAttempts - 1 + EE + faults'
             /\ checked'[c] <= MaxAttempts - 1 + EE + JJ + faults'
        /\ checked'[c] + FF <= MaxAttempts + N - 1 + faults'
    BY DEF LoginOK, Overrun
  <1> HIDE DEF F, J, E, FF, JJ, EE, N
  <1>8. CASE LoginFrame(h)
    <2>1. FF = F /\ JJ = J /\ EE = E /\ checked' = checked
      BY <1>2, <1>8 DEF LoginFrame, LoginAt, Bit
    <2>2. CASE challenge'[c] = challenge[c]
      BY <2>1, <2>2, <1>2, <1>3, <1>6, <1>7
    <2>3. CASE challenge'[c].user = NoUser
      BY <2>1, <2>3, <1>2, <1>3, <1>6, <1>7
    <2>4. CASE checked[c] = 0 /\ challenge'[c].attempts = 0
      BY <2>1, <2>4, <1>2, <1>3, <1>6, <1>7
    <2> QED
      BY <1>8, <2>2, <2>3, <2>4 DEF LoginFrame
  <1>9. ASSUME NEW d \in Challenges, FetchChallenge(h, d)
        PROVE  /\ JJ = J /\ EE = E /\ checked' = checked
               /\ challenge'[c] = challenge[c] \/ challenge'[c].user = NoUser
               /\ FF = F \/ challenge'[c].user # NoUser
               /\ challenge'[c].user = NoUser => FF = F
    <2>1. CASE ~challenge[d].expired
      <3>1. /\ pc[h] = "idle" /\ pc'[h] = "factor" /\ req'[h].id = d
            /\ challenge' = challenge /\ challenge[d].user # NoUser
        BY <1>9, <2>1 DEF FetchChallenge, Begin, TypeOK
      <3> QED
        BY <1>2, <1>9, <3>1 DEF FetchChallenge, historyVars, tallyVars, Bit
    <2>2. CASE challenge[d].expired
      <3>1. /\ pc[h] = "idle" /\ pc' = pc
            /\ challenge'[c] = challenge[c] \/ challenge'[c].user = NoUser
        BY <1>9, <2>2 DEF FetchChallenge, delete_login_challenges, NoChallenge
      <3> QED
        BY <1>2, <1>9, <3>1 DEF FetchChallenge, historyVars, tallyVars, Bit
    <2> QED
      BY <2>1, <2>2
  <1>10. ASSUME NEW d \in Challenges, FetchChallenge(h, d)
         PROVE  /\ challenge'[c].user # NoUser =>
                     /\ checked'[c] <= nn + JJ + faults'
                     /\ nn <= MaxAttempts - 1 + EE + faults'
                     /\ checked'[c] <= MaxAttempts - 1 + EE + JJ + faults'
                /\ checked'[c] + FF <= MaxAttempts + N - 1 + faults'
    <2>1. CASE challenge'[c].user = NoUser
      BY <1>9, <1>10, <2>1, <1>2, <1>3, <1>6, <1>7
    <2>2. CASE challenge'[c].user # NoUser
      <3>1. challenge'[c] = challenge[c] /\ JJ = J /\ EE = E /\ checked' = checked
        BY <1>9, <1>10, <2>2
      <3> QED
        BY <2>2, <3>1, <1>2, <1>3, <1>5, <1>6, <1>7
    <2> QED
      BY <2>1, <2>2
  <1>11. CASE CheckFactor(h)
    <2>1. pc[h] = "factor" /\ challenge' = challenge /\ faults' = faults
      BY <1>11 DEF CheckFactor, rowVars
    <2>2. CASE Done(h) /\ UNCHANGED checked
      <3>1. pc'[h] = "idle"
        BY <2>2 DEF Done, TypeOK
      <3>2. JJ = J /\ EE = E /\ FF <= F
        BY <1>2, <2>1, <3>1 DEF Bit
      <3> QED
        BY <2>1, <2>2, <3>2, <1>2, <1>3, <1>6, <1>7
    <2>3. CASE /\ checked' = [checked EXCEPT ![req[h].id] = @ + 1]
               /\ \E right \in BOOLEAN : Goto(h, IF right THEN "consume" ELSE "miss")
      <3>1. pc'[h] \in {"consume", "miss"} /\ req' = req
        BY <2>3 DEF Goto, TypeOK
      <3>2. CASE req[h].id = c
        <4>1. JJ = J + 1 /\ EE = E /\ FF = F - 1 /\ checked'[c] = checked[c] + 1
          BY <1>2, <2>1, <2>3, <3>1, <3>2 DEF Bit, TypeOK
        <4> QED
          BY <2>1, <4>1, <1>2, <1>3, <1>6, <1>7
      <3>3. CASE req[h].id # c
        <4>1. JJ = J /\ EE = E /\ FF = F /\ checked'[c] = checked[c]
          BY <1>2, <2>1, <2>3, <3>1, <3>3 DEF Bit, TypeOK
        <4> QED
          BY <2>1, <4>1, <1>2, <1>3, <1>6, <1>7
      <3> QED
        BY <3>2, <3>3
    <2> QED
      BY <1>11, <2>2, <2>3 DEF CheckFactor, verify_totp_code
  <1>12. CASE CountMiss(h)
    <2> DEFINE d == req[h].id
    <2>1. pc[h] = "miss" /\ checked' = checked /\ d \in Challenges
      BY <1>12 DEF CountMiss, tallyVars, RequestsInv, TypeOK, Challenges
    <2>2. CASE challenge[d].user = NoUser /\ Done(h) /\ NoFault /\ UNCHANGED challenge
      <3>1. pc'[h] = "idle" /\ (d = c => challenge'[c].user = NoUser)
        BY <2>2 DEF Done, TypeOK
      <3>2. FF = F /\ EE = E /\ (d # c => JJ = J)
        BY <1>2, <2>1, <3>1 DEF Bit
      <3> QED
        BY <2>1, <2>2, <3>1, <3>2, <1>2, <1>3, <1>6, <1>7 DEF NoFault
    <2>3. CASE Done(h) /\ Fault /\ UNCHANGED challenge
      <3>1. pc'[h] = "idle" /\ faults' = faults + 1
        BY <2>3 DEF Done, TypeOK, Fault
      <3>2. FF = F /\ EE = E /\ JJ >= J - 1
        BY <1>2, <2>1, <3>1 DEF Bit
      <3> QED
        BY <2>1, <2>3, <3>1, <3>2, <1>2, <1>3, <1>6, <1>7
    <2>4. CASE /\ challenge[d].user # NoUser
               /\ challenge' = [challenge EXCEPT ![d].attempts = challenge[d].attempts + 1]
               /\ IF challenge[d].attempts + 1 >= MaxAttempts THEN Goto(h, "exhaust") ELSE Done(h)
               /\ NoFault
      <3>1. CASE d # c
        <4>1. FF = F /\ EE = E /\ JJ = J /\ challenge'[c] = challenge[c]
          <5>1. challenge'[c] = challenge[c]
            BY <2>1, <2>4, <3>1 DEF TypeOK
          <5>2. pc'[h] \in {"idle", "exhaust"} /\ (pc'[h] = "exhaust" => req' = req)
            BY <2>4 DEF Goto, Done, TypeOK
          <5> QED
            BY <1>2, <2>1, <3>1, <5>1, <5>2 DEF Bit
        <4> QED
          BY <2>1, <2>4, <4>1, <1>2, <1>3, <1>6, <1>7 DEF NoFault
      <3>2. CASE d = c
        <4>1. nn = n + 1 /\ challenge[c].user # NoUser /\ faults' = faults
          BY <2>4, <3>2 DEF TypeOK, NoFault
        <4>2. CASE n + 1 >= MaxAttempts
          <5>1. pc'[h] = "exhaust" /\ req' = req
            BY <2>4, <3>2, <4>2 DEF Goto, TypeOK
          <5>2. FF = F /\ JJ = J - 1 /\ EE = E + 1
            BY <1>2, <2>1, <3>2, <5>1 DEF Bit
          <5> QED
            BY <2>1, <4>1, <5>2, <1>2, <1>3, <1>6, <1>7
        <4>3. CASE ~(n + 1 >= MaxAttempts)
          <5>1. pc'[h] = "idle"
            BY <2>4, <3>2, <4>3 DEF Done, TypeOK
          <5>2. FF = F /\ JJ = J - 1 /\ EE = E
            BY <1>2, <2>1, <3>2, <5>1 DEF Bit
          <5> QED
            BY <2>1, <4>1, <4>3, <5>2, <1>2, <1>3, <1>6, <1>7
        <4> QED
          BY <4>2, <4>3
      <3> QED
        BY <3>1, <3>2
    <2> QED
      BY <1>12, <2>2, <2>3, <2>4 DEF CountMiss
  <1>13. CASE Exhaust(h) \/ Consume(h)
    <2> DEFINE d == req[h].id
    <2>1. /\ pc[h] \in {"exhaust", "consume"} /\ checked' = checked /\ d \in Challenges
          /\ \/ delete_login_challenges({d}) /\ NoFault
             \/ Fault /\ UNCHANGED challenge
      BY <1>13 DEF Exhaust, Consume, tallyVars, RequestsInv, TypeOK, Challenges
    <2>2. pc'[h] = "idle"
      BY <1>13 DEF Exhaust, Consume, Done, TypeOK
    <2>3. FF = F /\ EE + JJ >= E + J - 1 /\ EE >= E - 1 /\ JJ >= J - 1
      BY <1>2, <2>1, <2>2 DEF Bit
    <2>4. CASE Fault /\ UNCHANGED challenge
      BY <2>1, <2>3, <2>4, <1>2, <1>3, <1>6, <1>7 DEF Fault
    <2>5. CASE delete_login_challenges({d}) /\ NoFault
      <3>1. CASE d = c
        BY <2>1, <2>3, <2>5, <3>1, <1>2, <1>3, <1>6, <1>7
        DEF delete_login_challenges, NoChallenge, NoFault
      <3>2. CASE d # c
        <4>1. challenge'[c] = challenge[c] /\ JJ = J /\ EE = E
          BY <2>1, <2>2, <2>5, <3>2, <1>2 DEF delete_login_challenges, Bit
        <4> QED
          BY <2>1, <2>3, <2>5, <4>1, <1>2, <1>3, <1>6, <1>7 DEF NoFault
      <3> QED
        BY <3>1, <3>2
    <2> QED
      BY <2>1, <2>4, <2>5
  <1>14. CASE HandlerStep(h) /\ pc[h] \in LoginAt
    BY <1>11, <1>12, <1>13, <1>14
    DEF LoginAt, HandlerStep, ReplaceChallenges, InsertChallenge, StoreEnrolment, CheckEnrolment,
        DropEnrolment, CountConfirmMiss, ActivateTotp, DisableGate, CountDisableMiss, ArmExpiry,
        DisableFactor, ClearMisses
  <1> QED
    BY <1>8, <1>10, <1>14, OtherThanLogin

-----------------------------------------------------------------------------
(* Codes of confirm_totp *)

\* The places of confirm_totp between the read of an enrolment and its end.
EnrolAt == {"confirm", "cmiss", "activate", "drop"}

\* A step of another handler leaves the enrolment and the account's secret,
\* deletes the enrolment, or makes a new one.
EnrolFrame(h) ==
  /\ pc[h] \notin EnrolAt /\ tried' = tried
  /\ \/ pc'[h] \notin EnrolAt
     \/ pc'[h] = "confirm" /\ totp[req'[h].user] = 0
  /\ \A u \in Users :
       \/ enrol'[u] = enrol[u] /\ totp'[u] = totp[u]
       \/ enrol'[u].secret = 0
       \/ /\ enrol'[u].secret = secrets + 1 /\ enrol'[u].attempts = 0
          /\ pc'[h] \notin EnrolAt

\* The handlers other than confirm_totp, and its authorization.
LEMMA OtherThanConfirm ==
  ASSUME TypeOK, NEW h \in Handlers, Start(h) \/ (HandlerStep(h) /\ pc[h] \notin EnrolAt)
  PROVE  EnrolFrame(h)
  <1> USE DEF EnrolFrame, EnrolAt
  <1>1. ASSUME NEW c \in Challenges, FetchChallenge(h, c)
        PROVE  EnrolFrame(h)
    BY <1>1 DEF FetchChallenge, Begin, TypeOK, totpVars, historyVars, tallyVars
  <1>2. ASSUME NEW u \in Users, Login(h, u)
        PROVE  EnrolFrame(h)
    BY <1>2 DEF Login, Begin, TypeOK, rowVars, totpVars, historyVars, tallyVars
  <1>3. ASSUME NEW u \in Users, SetupTotp(h, u) \/ ConfirmTotp(h, u) \/ DisableTotp(h, u)
        PROVE  EnrolFrame(h)
    BY <1>3
    DEF SetupTotp, ConfirmTotp, DisableTotp, Begin, TypeOK, rowVars, totpVars, historyVars, tallyVars
  <1>4. ASSUME NEW u \in Users, ResetUserTotp(h, u)
        PROVE  EnrolFrame(h)
    BY <1>4 DEF ResetUserTotp, Begin, TypeOK, totp_disable, totp_delete, NoEnrol
  <1>5. CASE HandlerStep(h) /\ pc[h] \notin EnrolAt
    <2>1. CASE ReplaceChallenges(h) \/ InsertChallenge(h)
      BY <2>1 DEF ReplaceChallenges, InsertChallenge, TypeOK, Goto, Done, totpVars, historyVars, tallyVars
    <2>2. CASE CheckFactor(h) \/ CountMiss(h)
      BY <2>2 DEF CheckFactor, CountMiss, TypeOK, Goto, Done, rowVars, totpVars, tallyVars
    <2>3. CASE Exhaust(h) \/ Consume(h)
      BY <2>3 DEF Exhaust, Consume, TypeOK, Done, totpVars, tallyVars
    <2>4. CASE StoreEnrolment(h)
      BY <2>4 DEF StoreEnrolment, totp_upsert, TypeOK, Done, tallyVars
    <2>5. CASE DisableGate(h) \/ CountDisableMiss(h) \/ ArmExpiry(h) \/ ClearMisses(h)
      BY <2>5
      DEF DisableGate, CountDisableMiss, ArmExpiry, ClearMisses, TypeOK, Goto, Done,
          rowVars, totpVars, historyVars, tallyVars
    <2>6. CASE DisableFactor(h)
      BY <2>6 DEF DisableFactor, totp_disable, totp_delete, NoEnrol, TypeOK, Goto, Done
    <2> QED
      BY <1>5, <2>1, <2>2, <2>3, <2>4, <2>5, <2>6
      DEF HandlerStep, CheckEnrolment, DropEnrolment, CountConfirmMiss, ActivateTotp
  <1> QED
    BY <1>1, <1>2, <1>3, <1>4, <1>5 DEF Start

\* The requests of confirm_totp of user u are at one place each.
LEMMA EnrolPlaces ==
  ASSUME NEW u, NEW s
  PROVE  /\ Cardinality(Handlers) \in Nat
         /\ Cardinality(Confirming(u)) + Cardinality(Confirmed(u, s)) + Cardinality(Dropping(u))
              <= Cardinality(Handlers)
  <1> DEFINE C == Confirming(u)
             K == Confirmed(u, s)
             D == Dropping(u)
  <1>1. C \in SUBSET Handlers /\ K \in SUBSET Handlers /\ D \in SUBSET Handlers
    BY DEF Confirming, Confirmed, Dropping, ForUser
  <1>2. C \cap K = {} /\ C \cap D = {} /\ K \cap D = {}
    BY DEF Confirming, Confirmed, Dropping, ForUser
  <1> HIDE DEF C, K, D
  <1>3. /\ Cardinality(Handlers) \in Nat
        /\ Cardinality(C) + Cardinality(K) + Cardinality(D) <= Cardinality(Handlers)
    BY <1>1, <1>2, ThreePlaces
  <1> QED
    BY <1>3 DEF C, K, D

\* The same after a step.
LEMMA EnrolPlacesNext ==
  ASSUME NEW u, NEW s
  PROVE  Cardinality(Confirming(u))' + Cardinality(Confirmed(u, s))' + Cardinality(Dropping(u))'
           <= Cardinality(Handlers)
  <1>1. (Cardinality(Confirming(u)) + Cardinality(Confirmed(u, s)) + Cardinality(Dropping(u))
           <= Cardinality(Handlers))'
    BY EnrolPlaces, PTL
  <1> QED
    BY <1>1

\* The requests of confirm_totp of user u before and after a step of h.
LEMMA EnrolCounts ==
  ASSUME NEW u, NEW h \in Handlers, OnlyMoves(h)
  PROVE  /\ Cardinality(Confirming(u)) \in Nat /\ Cardinality(Confirming(u))' \in Nat
         /\ Cardinality(Confirming(u))' = Cardinality(Confirming(u))
              + Bit(pc'[h] \in {"confirm"} /\ req'[h].user = u)
              - Bit(pc[h] \in {"confirm"} /\ req[h].user = u)
         /\ Cardinality(Dropping(u)) \in Nat /\ Cardinality(Dropping(u))' \in Nat
         /\ Cardinality(Dropping(u))' = Cardinality(Dropping(u))
              + Bit(pc'[h] \in {"drop"} /\ req'[h].user = u)
              - Bit(pc[h] \in {"drop"} /\ req[h].user = u)
  BY UserCount DEF Confirming, Dropping

\* Every step keeps the account of the codes checked for secret s of user u.
LEMMA EnrolmentStep ==
  ASSUME TypeOK, RequestsInv, SecretsInv, EnrolmentInv,
         NEW h \in Handlers, Start(h) \/ HandlerStep(h),
         NEW u \in Users, NEW s \in Secrets
  PROVE  EnrolmentOK(u, s)'
  <1> DEFINE C == Cardinality(Confirming(u))
             K == Cardinality(Confirmed(u, s))
             D == Cardinality(Dropping(u))
             CC == Cardinality(Confirming(u))'
             KK == Cardinality(Confirmed(u, s))'
             DD == Cardinality(Dropping(u))'
             N == Cardinality(Handlers)
             n == enrol[u].attempts
             nn == enrol'[u].attempts
  <1>1. OnlyMoves(h)
    BY StepMoves
  <1>2. /\ C \in Nat /\ K \in Nat /\ D \in Nat /\ CC \in Nat /\ KK \in Nat /\ DD \in Nat
        /\ CC = C + Bit(pc'[h] = "confirm" /\ req'[h].user = u)
                  - Bit(pc[h] = "confirm" /\ req[h].user = u)
        /\ KK = K + Bit(pc'[h] \in {"cmiss", "activate"} /\ req'[h].user = u /\ req'[h].secret = s)
                  - Bit(pc[h] \in {"cmiss", "activate"} /\ req[h].user = u /\ req[h].secret = s)
        /\ DD = D + Bit(pc'[h] = "drop" /\ req'[h].user = u)
                  - Bit(pc[h] = "drop" /\ req[h].user = u)
    BY <1>1, EnrolCounts, SecretCount DEF Bit
  <1>3. N \in Nat
    BY EnrolPlaces
  <1>4. (Cardinality(Confirming(u)) + Cardinality(Confirmed(u, s)) + Cardinality(Dropping(u))
           <= Cardinality(Handlers))'
    BY EnrolPlaces, PTL
  <1>5. CC + KK + DD <= N
    BY <1>4
  <1>6. enrol[u].secret = s =>
          /\ n <= MaxAttempts - 1 + D + faults
          /\ ~enrol[u].expired /\ totp[u] = 0 =>
               /\ tried[s] <= n + K + faults
               /\ tried[s] <= MaxAttempts - 1 + D + K + faults
          /\ ~enrol[u].expired /\ totp[u] # 0 =>
               tried[s] + C <= MaxAttempts + N - 1 + faults
    BY DEF EnrolmentInv, EnrolmentOK, Overrun
  <1>7. /\ tried[s] \in Nat /\ n \in Nat /\ MaxAttempts \in Nat \ {0}
        /\ faults \in Nat /\ faults' \in Nat /\ faults <= faults'
    BY FaultsGrow, SecondFactorAssumption DEF TypeOK
  <1>0. s \in Nat \ {0} /\ secrets \in Nat
    BY DEF Secrets, TypeOK
  <1> SUFFICES ASSUME enrol'[u].secret = s
               PROVE  /\ nn <= MaxAttempts - 1 + DD + faults'
                      /\ ~enrol'[u].expired /\ totp'[u] = 0 =>
                           /\ tried'[s] <= nn + KK + faults'
                           /\ tried'[s] <= MaxAttempts - 1 + DD + KK + faults'
                      /\ ~enrol'[u].expired /\ totp'[u] # 0 =>
                           tried'[s] + CC <= MaxAttempts + N - 1 + faults'
    BY DEF EnrolmentOK, Overrun
  <1> HIDE DEF C, K, D, CC, KK, DD, N
  <1>8. CASE EnrolFrame(h)
    <2>1. /\ KK = K /\ DD = D /\ tried' = tried
          /\ totp[u] # 0 => CC = C
      BY <1>2, <1>8 DEF EnrolFrame, EnrolAt, Bit
    <2>2. CASE enrol'[u] = enrol[u] /\ totp'[u] = totp[u]
      BY <2>1, <2>2, <1>2, <1>3, <1>6, <1>7
    <2>3. CASE enrol'[u].secret = 0
      BY <2>3, <1>0
    <2>4. CASE enrol'[u].secret = secrets + 1 /\ enrol'[u].attempts = 0
      <3>1. tried[s] = 0
        BY <2>4, <1>0 DEF RequestsInv
      <3> QED
        BY <2>1, <2>4, <3>1, <1>2, <1>3, <1>5, <1>7
    <2> QED
      BY <1>8, <2>2, <2>3, <2>4 DEF EnrolFrame
  <1>9. CASE CheckEnrolment(h)
    <2> DEFINE v == Me(h)
    <2>1. /\ pc[h] = "confirm" /\ enrol' = enrol /\ totp' = totp /\ faults' = faults
          /\ req[h].user = v /\ v \in Users
      BY <1>9 DEF CheckEnrolment, rowVars, totpVars, Me, RequestsInv
    <2>2. CASE Done(h) /\ UNCHANGED tried
      <3>1. pc'[h] = "idle"
        BY <2>2 DEF Done, TypeOK
      <3>2. KK = K /\ DD = D /\ CC <= C
        BY <1>2, <2>1, <3>1 DEF Bit
      <3> QED
        BY <2>1, <2>2, <3>2, <1>2, <1>3, <1>6, <1>7
    <2>3. CASE Goto(h, "drop") /\ UNCHANGED tried
      <3>1. pc'[h] = "drop" /\ req' = req
        BY <2>3 DEF Goto, TypeOK
      <3>2. KK = K /\ DD >= D /\ CC <= C
        BY <1>2, <2>1, <3>1 DEF Bit
      <3> QED
        BY <2>1, <2>3, <3>2, <1>2, <1>3, <1>6, <1>7
    <2>4. CASE /\ enrol[v] # NoEnrol /\ ~enrol[v].expired
               /\ tried' = [tried EXCEPT ![enrol[v].secret] = @ + 1]
               /\ \E right \in BOOLEAN : pc' = [pc EXCEPT ![h] = IF right THEN "activate" ELSE "cmiss"]
               /\ req' = [req EXCEPT ![h].secret = enrol[v].secret]
      <3>1. pc'[h] \in {"activate", "cmiss"}
        BY <2>4 DEF TypeOK
      <3>2. req'[h].secret = enrol[v].secret /\ req'[h].user = v
        BY <2>1, <2>4 DEF TypeOK
      <3>3. CASE v = u
        <4>1. KK = K + 1 /\ DD = D /\ CC = C - 1
          BY <1>2, <2>1, <3>1, <3>2, <3>3 DEF Bit
        <4>2. tried'[s] = tried[s] + 1
          BY <2>1, <2>4, <3>3 DEF TypeOK
        <4> QED
          BY <2>1, <4>1, <4>2, <1>2, <1>3, <1>6, <1>7
      <3>4. CASE v # u
        <4>1. KK = K /\ DD = D /\ CC = C
          BY <1>2, <2>1, <3>1, <3>2, <3>4 DEF Bit
        <4>2. enrol[v].secret # s
          BY <1>0, <2>1, <3>4 DEF SecretsInv
        <4>3. tried'[s] = tried[s]
          BY <2>4, <4>2 DEF TypeOK
        <4> QED
          BY <2>1, <4>1, <4>3, <1>2, <1>3, <1>6, <1>7
      <3> QED
        BY <3>3, <3>4
    <2> QED
      BY <1>9, <2>2, <2>3, <2>4 DEF CheckEnrolment, verify_totp_code
  <1>10. CASE DropEnrolment(h)
    <2> DEFINE v == Me(h)
    <2>1. /\ pc[h] = "drop" /\ totp' = totp /\ tried' = tried
          /\ req[h].user = v /\ v \in Users /\ pc'[h] = "idle"
      BY <1>10 DEF DropEnrolment, tallyVars, Me, RequestsInv, Done, TypeOK
    <2>2. KK = K /\ CC = C /\ DD >= D - 1 /\ (v # u => DD = D)
      BY <1>2, <2>1 DEF Bit
    <2>3. CASE totp_delete(v) /\ NoFault
      <3>1. v # u /\ enrol'[u] = enrol[u]
        BY <1>0, <2>1, <2>3 DEF totp_delete, NoEnrol, TypeOK
      <3> QED
        BY <2>1, <2>2, <2>3, <3>1, <1>2, <1>3, <1>6, <1>7 DEF NoFault
    <2>4. CASE Fault /\ UNCHANGED enrol
      BY <2>1, <2>2, <2>4, <1>2, <1>3, <1>6, <1>7 DEF Fault
    <2> QED
      BY <1>10, <2>3, <2>4 DEF DropEnrolment
  <1>11. CASE CountConfirmMiss(h)
    <2> DEFINE v == Me(h)
               m == enrol[v].attempts + 1
    <2>1. /\ pc[h] = "cmiss" /\ totp' = totp /\ tried' = tried
          /\ req[h].user = v /\ v \in Users
      BY <1>11 DEF CountConfirmMiss, tallyVars, Me, RequestsInv
    <2>2. CASE Done(h) /\ Fault /\ UNCHANGED enrol
      <3>1. pc'[h] = "idle"
        BY <2>2 DEF Done, TypeOK
      <3>2. KK >= K - 1 /\ CC = C /\ DD = D
        BY <1>2, <2>1, <3>1 DEF Bit
      <3> QED
        BY <2>1, <2>2, <3>2, <1>2, <1>3, <1>6, <1>7 DEF Fault
    <2>3. CASE faults' = faults /\ v # u
      <3>1. enrol'[u] = enrol[u]
        BY <1>11, <2>1, <2>3 DEF CountConfirmMiss, TypeOK
      <3>2. \/ pc'[h] = "idle"
            \/ pc'[h] = "drop" /\ req' = req
        BY <1>11 DEF CountConfirmMiss, Goto, Done, TypeOK
      <3>3. KK = K /\ CC = C /\ DD = D
        BY <1>2, <2>1, <2>3, <3>2 DEF Bit
      <3> QED
        BY <2>1, <2>3, <3>1, <3>3, <1>2, <1>3, <1>6, <1>7
    <2>4. CASE ~Fault /\ faults' = faults /\ v = u
      <3>1. /\ enrol' = [enrol EXCEPT ![u].attempts = n + 1]
            /\ IF n + 1 >= MaxAttempts THEN Goto(h, "drop") ELSE Done(h)
        BY <1>0, <1>11, <2>4 DEF CountConfirmMiss, NoEnrol
      <3>2. nn = n + 1 /\ enrol'[u].secret = enrol[u].secret /\ enrol'[u].expired = enrol[u].expired
        BY <3>1 DEF TypeOK
      <3>3. CASE n + 1 >= MaxAttempts
        <4>1. pc'[h] = "drop" /\ req' = req
          BY <3>1, <3>3 DEF Goto, TypeOK
        <4>2. KK >= K - 1 /\ CC = C /\ DD = D + 1
          BY <1>2, <2>1, <2>4, <4>1 DEF Bit
        <4> QED
          BY <2>1, <2>4, <3>2, <4>2, <1>2, <1>3, <1>6, <1>7
      <3>4. CASE ~(n + 1 >= MaxAttempts)
        <4>1. pc'[h] = "idle"
          BY <3>1, <3>4 DEF Done, TypeOK
        <4>2. KK >= K - 1 /\ CC = C /\ DD = D
          BY <1>2, <2>1, <2>4, <4>1 DEF Bit
        <4> QED
          BY <2>1, <2>4, <3>2, <3>4, <4>2, <1>2, <1>3, <1>6, <1>7
      <3> QED
        BY <3>3, <3>4
    <2>5. (Done(h) /\ Fault /\ UNCHANGED enrol) \/ NoFault
      BY <1>11 DEF CountConfirmMiss
    <2>6. NoFault => ~Fault
      BY DEF NoFault, Fault, TypeOK
    <2> QED
      BY <2>2, <2>3, <2>4, <2>5, <2>6 DEF NoFault
  <1>12. CASE ActivateTotp(h)
    <2> DEFINE v == Me(h)
    <2>1. /\ pc[h] = "activate" /\ tried' = tried /\ faults' = faults
          /\ req[h].user = v /\ v \in Users /\ pc'[h] = "idle"
      BY <1>12 DEF ActivateTotp, historyVars, tallyVars, Me, RequestsInv, Done, TypeOK
    <2>2. CC = C /\ DD = D /\ (v # u \/ req[h].secret # s => KK = K)
      BY <1>2, <2>1 DEF Bit
    <2>3. CASE v # u
      <3>1. enrol'[u] = enrol[u] /\ totp'[u] = totp[u]
        BY <1>12, <2>1, <2>3 DEF ActivateTotp, totp_delete, TypeOK
      <3> QED
        BY <2>1, <2>2, <2>3, <3>1, <1>2, <1>3, <1>6, <1>7
    <2>4. CASE v = u
      <3>1. ~(enrol[u].secret = req[h].secret /\ ~enrol[u].expired /\ totp[u] = 0)
        BY <1>0, <1>12, <2>4 DEF ActivateTotp, totp_delete, NoEnrol, TypeOK
      <3>2. enrol' = enrol /\ totp' = totp
        BY <1>12, <2>4, <3>1 DEF ActivateTotp
      <3> QED
        BY <2>1, <2>2, <3>1, <3>2, <1>2, <1>3, <1>6, <1>7
    <2> QED
      BY <2>3, <2>4
  <1>13. CASE HandlerStep(h) /\ pc[h] \in EnrolAt
    BY <1>9, <1>10, <1>11, <1>12, <1>13
    DEF EnrolAt, HandlerStep, ReplaceChallenges, InsertChallenge, CheckFactor, CountMiss, Exhaust,
        Consume, StoreEnrolment, DisableGate, CountDisableMiss, ArmExpiry, DisableFactor, ClearMisses
  <1> QED
    BY <1>8, <1>13, OtherThanConfirm

\* A code is checked against a secret at most as often as its enrolment allows.
LEMMA TriesStep ==
  ASSUME TypeOK, RequestsInv, SecretsInv, EnrolmentInv, NEW h \in Handlers, Start(h) \/ HandlerStep(h)
  PROVE  EnrolmentCodesBounded'
  <1> SUFFICES ASSUME NEW s \in Secrets PROVE tried'[s] <= Overrun + faults'
    BY DEF EnrolmentCodesBounded, Overrun
  <1>0. Cardinality(Handlers) \in Nat
    BY SecondFactorAssumption, FS_CardinalityType
  <1>1. /\ tried[s] \in Nat /\ faults \in Nat /\ faults' \in Nat /\ faults <= faults'
        /\ MaxAttempts \in Nat \ {0}
    BY FaultsGrow, SecondFactorAssumption DEF TypeOK
  <1>2. CASE tried'[s] = tried[s]
    BY <1>0, <1>1, <1>2 DEF EnrolmentInv, EnrolmentCodesBounded, Overrun
  <1>3. CASE CheckEnrolment(h) /\ tried'[s] # tried[s]
    <2>1. /\ Me(h) \in Users /\ enrol' = enrol
          /\ enrol[Me(h)].secret = s /\ ~enrol[Me(h)].expired
      BY <1>3 DEF CheckEnrolment, rowVars, totpVars, RequestsInv, TypeOK
    <2>2. PICK u \in Users : enrol'[u].secret = s /\ ~enrol'[u].expired
      BY <2>1
    <2>3. EnrolmentOK(u, s)'
      BY EnrolmentStep
    <2>4. Cardinality(Confirming(u))' + Cardinality(Confirmed(u, s))' + Cardinality(Dropping(u))'
             <= Cardinality(Handlers)
      BY EnrolPlacesNext
    <2>5. OnlyMoves(h)
      BY StepMoves
    <2>6. /\ Cardinality(Confirming(u))' \in Nat /\ Cardinality(Dropping(u))' \in Nat
          /\ Cardinality(Confirmed(u, s))' \in Nat
      BY <2>5, EnrolCounts, SecretCount
    <2>7. tried'[s] = tried[s] + 1
      BY <1>3 DEF CheckEnrolment, TypeOK
    <2>8. CASE totp'[u] = 0
      <3>1. tried'[s] <= MaxAttempts - 1 + Cardinality(Dropping(u))'
                           + Cardinality(Confirmed(u, s))' + faults'
        BY <2>2, <2>3, <2>8 DEF EnrolmentOK
      <3> QED
        BY <3>1, <1>0, <1>1, <2>4, <2>6, <2>7 DEF Overrun
    <2>9. CASE totp'[u] # 0
      <3>1. tried'[s] + Cardinality(Confirming(u))' <= MaxAttempts + Cardinality(Handlers) - 1 + faults'
        BY <2>2, <2>3, <2>9 DEF EnrolmentOK, Overrun
      <3> QED
        BY <3>1, <1>0, <1>1, <2>6, <2>7 DEF Overrun
    <2> QED
      BY <2>8, <2>9
  <1>4. ASSUME ~CheckEnrolment(h) PROVE tried' = tried
    <2>1. CASE Start(h) \/ (HandlerStep(h) /\ pc[h] \notin EnrolAt)
      BY <2>1, OtherThanConfirm DEF EnrolFrame
    <2>2. CASE DropEnrolment(h) \/ CountConfirmMiss(h) \/ ActivateTotp(h)
      BY <2>2 DEF DropEnrolment, CountConfirmMiss, ActivateTotp, historyVars, tallyVars
    <2> QED
      BY <1>4, <2>1, <2>2
      DEF EnrolAt, HandlerStep, ReplaceChallenges, InsertChallenge, CheckFactor, CountMiss, Exhaust,
          Consume, StoreEnrolment, DisableGate, CountDisableMiss, ArmExpiry, DisableFactor, ClearMisses
  <1> QED
    BY <1>2, <1>3, <1>4

-----------------------------------------------------------------------------
(* Requests and secrets *)

\* Challenges and secrets are only added.
LEMMA NumbersGrow ==
  ASSUME TypeOK, NEW h \in Handlers, Start(h) \/ HandlerStep(h)
  PROVE  /\ created' \in 0..MaxChallenges /\ created <= created'
         /\ secrets' \in 0..MaxSecrets /\ secrets <= secrets'
  <1> USE SecondFactorAssumption DEF TypeOK
  <1>1. ASSUME Start(h) PROVE UNCHANGED <<created, secrets>>
    BY <1>1
    DEF Start, Login, SetupTotp, ConfirmTotp, DisableTotp, ResetUserTotp, FetchChallenge,
        totp_disable, rowVars, totpVars
  <1>2. CASE InsertChallenge(h)
    BY <1>2 DEF InsertChallenge, insert_login_challenge, totpVars
  <1>3. CASE StoreEnrolment(h)
    BY <1>3 DEF StoreEnrolment, totp_upsert
  <1>4. CASE ReplaceChallenges(h) \/ CheckFactor(h) \/ CountMiss(h) \/ Exhaust(h) \/ Consume(h)
    BY <1>4 DEF ReplaceChallenges, CheckFactor, CountMiss, Exhaust, Consume, rowVars, totpVars
  <1>5. CASE CheckEnrolment(h) \/ DropEnrolment(h) \/ CountConfirmMiss(h) \/ ActivateTotp(h)
    BY <1>5 DEF CheckEnrolment, DropEnrolment, CountConfirmMiss, ActivateTotp, rowVars, totpVars
  <1>6. CASE \/ DisableGate(h) \/ CountDisableMiss(h) \/ ArmExpiry(h) \/ DisableFactor(h)
             \/ ClearMisses(h)
    BY <1>6
    DEF DisableGate, CountDisableMiss, ArmExpiry, DisableFactor, ClearMisses, totp_disable,
        rowVars, totpVars
  <1> QED
    BY <1>1, <1>2, <1>3, <1>4, <1>5, <1>6 DEF HandlerStep

\* What a request at place p carries.
Carries(p, r) ==
  /\ p \in At
  /\ r \in [user : Users \cup {NoUser}, secret : 0..MaxSecrets, id : 0..MaxChallenges]
  /\ p # "idle" => r.user \in Users
  /\ p \in LoginAt => r.id \in 1..created
  /\ p \in {"cmiss", "activate"} => r.secret \in 1..secrets

\* A request has what it needs after its step.
LEMMA OwnRequest ==
  ASSUME TypeOK, RequestsInv, SecretsInv, NEW h \in Handlers, Start(h) \/ HandlerStep(h)
  PROVE  Carries(pc'[h], req'[h])
  <1>0. Carries(pc[h], req[h])
    BY DEF TypeOK, RequestsInv, Me, Carries, LoginAt
  <1>1. CASE Done(h)
    <2>1. pc'[h] = "idle" /\ req'[h] = NoReq
      BY <1>1 DEF Done, TypeOK
    <2> QED
      BY <2>1, SecondFactorAssumption DEF NoReq, Carries, At, LoginAt
  <1>2. CASE UNCHANGED <<pc, req>>
    BY <1>0, <1>2
  <1>3. ASSUME NEW where \in {"replace", "setup", "confirm", "gate", "clear"},
               NEW u \in Users, NEW s \in 0..MaxSecrets, Begin(h, where, u, s, 0)
        PROVE  Carries(pc'[h], req'[h])
    <2>1. pc'[h] = where /\ req'[h] = [user |-> u, secret |-> s, id |-> 0]
      BY <1>3 DEF Begin, TypeOK
    <2> QED
      BY <2>1, SecondFactorAssumption DEF Carries, At, LoginAt
  <1>4. ASSUME NEW u \in Users,
               \/ Login(h, u) \/ SetupTotp(h, u) \/ ConfirmTotp(h, u)
               \/ DisableTotp(h, u) \/ ResetUserTotp(h, u)
        PROVE  Carries(pc'[h], req'[h])
    <2>1. \/ UNCHANGED <<pc, req>>
          \/ \E where \in {"replace", "setup", "confirm", "gate", "clear"}, s \in 0..MaxSecrets :
               Begin(h, where, u, s, 0)
      BY <1>4, SecondFactorAssumption
      DEF Login, SetupTotp, ConfirmTotp, DisableTotp, ResetUserTotp, TypeOK
    <2> QED
      BY <1>2, <1>3, <2>1
  <1>5. ASSUME NEW c \in Challenges, FetchChallenge(h, c)
        PROVE  Carries(pc'[h], req'[h])
    <2>1. CASE Begin(h, "factor", challenge[c].user, 0, c)
      <3>1. pc'[h] = "factor" /\ req'[h] = [user |-> challenge[c].user, secret |-> 0, id |-> c]
        BY <2>1 DEF Begin, TypeOK
      <3>2. challenge[c].user \in Users
        BY <1>5 DEF FetchChallenge, TypeOK
      <3>3. c \in 1..created /\ c \in 0..MaxChallenges
        BY <1>5 DEF FetchChallenge, TypeOK, RequestsInv, Challenges
      <3> QED
        BY <3>1, <3>2, <3>3, SecondFactorAssumption DEF Carries, At, LoginAt
    <2> QED
      BY <1>2, <1>5, <2>1 DEF FetchChallenge
  <1>6. ASSUME NEW where, Goto(h, where)
        PROVE  pc'[h] = where /\ req' = req
    BY <1>6 DEF Goto, TypeOK
  <1>7. ASSUME pc[h] = "confirm", enrol[Me(h)] # NoEnrol,
               req' = [req EXCEPT ![h].secret = enrol[Me(h)].secret],
               NEW where \in {"activate", "cmiss"}, pc' = [pc EXCEPT ![h] = where]
        PROVE  Carries(pc'[h], req'[h])
    <2>1. pc'[h] = where
      BY <1>7 DEF TypeOK
    <2>2. enrol[Me(h)].secret \in 1..secrets /\ secrets \in 0..MaxSecrets
      BY <1>7 DEF RequestsInv, SecretsInv, TypeOK
    <2>3. req'[h] = [user |-> req[h].user, secret |-> enrol[Me(h)].secret, id |-> req[h].id]
      BY <1>7 DEF TypeOK
    <2> QED
      BY <1>0, <1>7, <2>1, <2>2, <2>3, SecondFactorAssumption DEF Carries, At, LoginAt
  <1>8. CASE CheckEnrolment(h)
    <2>1. pc[h] = "confirm"
      BY <1>8 DEF CheckEnrolment
    <2>2. CASE Goto(h, "drop")
      BY <1>0, <1>6, <2>1, <2>2 DEF Carries, At, LoginAt
    <2> QED
      BY <1>1, <1>7, <1>8, <2>1, <2>2 DEF CheckEnrolment
  <1>9. CASE ReplaceChallenges(h) \/ InsertChallenge(h) \/ CheckFactor(h) \/ CountMiss(h)
    <2>1. CASE Done(h)
      BY <1>1, <2>1
    <2>2. CASE pc[h] = "replace" /\ Goto(h, "insert")
      BY <1>0, <1>6, <2>2 DEF Carries, At, LoginAt
    <2>3. CASE pc[h] \in LoginAt /\ \E where \in {"consume", "miss", "exhaust"} : Goto(h, where)
      BY <1>0, <1>6, <2>3 DEF Carries, At, LoginAt
    <2> QED
      BY <1>9, <2>1, <2>2, <2>3
      DEF ReplaceChallenges, InsertChallenge, CheckFactor, CountMiss, LoginAt
  <1>10. CASE \/ Exhaust(h) \/ Consume(h) \/ StoreEnrolment(h) \/ DropEnrolment(h)
              \/ CountConfirmMiss(h) \/ ActivateTotp(h)
    <2>1. CASE CountConfirmMiss(h) /\ Goto(h, "drop")
      BY <1>0, <1>6, <2>1 DEF CountConfirmMiss, Carries, At, LoginAt
    <2> QED
      BY <1>1, <1>10, <2>1
      DEF Exhaust, Consume, StoreEnrolment, DropEnrolment, CountConfirmMiss, ActivateTotp
  <1>11. CASE \/ DisableGate(h) \/ CountDisableMiss(h) \/ ArmExpiry(h) \/ DisableFactor(h)
              \/ ClearMisses(h)
    <2>1. CASE Done(h)
      BY <1>1, <2>1
    <2>2. CASE pc[h] # "idle" /\ \E where \in {"off", "incr", "expire", "clear"} : Goto(h, where)
      BY <1>0, <1>6, <2>2 DEF Carries, At, LoginAt
    <2> QED
      BY <1>11, <2>1, <2>2
      DEF DisableGate, CountDisableMiss, ArmExpiry, DisableFactor, ClearMisses
  <1> QED
    BY <1>4, <1>5, <1>8, <1>9, <1>10, <1>11 DEF Start, HandlerStep

\* Requests and numbers stay in order.
LEMMA RequestsStep ==
  ASSUME TypeOK, RequestsInv, SecretsInv, NEW h \in Handlers, Start(h) \/ HandlerStep(h)
  PROVE  RequestsInv'
  <1>1. /\ created \in Nat /\ created' \in Nat /\ created <= created'
        /\ secrets \in Nat /\ secrets' \in Nat /\ secrets <= secrets'
    BY NumbersGrow DEF TypeOK
  <1>2. ASSUME NEW k \in Handlers
        PROVE  /\ pc'[k] # "idle" => req'[k].user \in Users
               /\ pc'[k] \in {"factor", "miss", "consume", "exhaust"} => req'[k].id \in 1..created'
               /\ pc'[k] \in {"cmiss", "activate"} => req'[k].secret \in 1..secrets'
    <2>1. CASE k = h
      BY <1>1, <2>1, OwnRequest DEF Carries, LoginAt
    <2>2. CASE k # h
      <3>1. pc'[k] = pc[k] /\ req'[k] = req[k]
        BY <2>2, StepMoves DEF OnlyMoves
      <3> QED
        BY <1>1, <3>1 DEF RequestsInv, Me
    <2> QED
      BY <2>1, <2>2
  <1>3. ASSUME NEW c \in Challenges, c > created'
        PROVE  challenge'[c].user = NoUser /\ checked'[c] = 0
    <2>0. c \in Int /\ c > created /\ challenge[c].user = NoUser /\ checked[c] = 0
      BY <1>1, <1>3 DEF RequestsInv, Challenges
    <2>1. CASE InsertChallenge(h)
      <3>1. challenge'[c] = challenge[c] /\ checked' = checked
        BY <1>1, <1>3, <2>0, <2>1
        DEF InsertChallenge, insert_login_challenge, historyVars, tallyVars, TypeOK
      <3> QED
        BY <2>0, <3>1
    <2>2. CASE CheckFactor(h)
      <3>1. challenge' = challenge /\ req[h].id # c
        BY <1>1, <2>0, <2>2 DEF CheckFactor, RequestsInv, rowVars
      <3>2. checked'[c] = checked[c]
        BY <2>2, <3>1 DEF CheckFactor, TypeOK
      <3> QED
        BY <2>0, <3>1, <3>2
    <2>3. CASE CountMiss(h)
      <3>1. req[h].id # c /\ checked' = checked
        BY <1>1, <2>0, <2>3 DEF CountMiss, RequestsInv, tallyVars
      <3>2. challenge'[c] = challenge[c]
        BY <2>3, <3>1 DEF CountMiss, TypeOK
      <3> QED
        BY <2>0, <3>1, <3>2
    <2>4. CASE Exhaust(h) \/ Consume(h)
      BY <2>0, <2>4 DEF Exhaust, Consume, delete_login_challenges, NoChallenge, tallyVars
    <2>5. ASSUME NEW d \in Challenges, FetchChallenge(h, d)
          PROVE  challenge'[c].user = NoUser /\ checked'[c] = 0
      BY <2>0, <2>5
      DEF FetchChallenge, delete_login_challenges, NoChallenge, historyVars, tallyVars
    <2>6. CASE LoginFrame(h) /\ ~InsertChallenge(h)
      <3>1. checked' = checked
        BY <2>6 DEF LoginFrame
      <3>2. ASSUME Start(h), ~\E d \in Challenges : FetchChallenge(h, d)
            PROVE  challenge'[c] = challenge[c] \/ challenge'[c].user = NoUser
        BY <3>2
        DEF Start, Login, SetupTotp, ConfirmTotp, DisableTotp, ResetUserTotp, totp_disable,
            delete_login_challenges, NoChallenge, rowVars
      <3>3. ASSUME HandlerStep(h), pc[h] \notin LoginAt
            PROVE  challenge'[c] = challenge[c] \/ challenge'[c].user = NoUser
        <4>1. ~(CheckFactor(h) \/ CountMiss(h) \/ Exhaust(h) \/ Consume(h))
          BY <3>3 DEF LoginAt, CheckFactor, CountMiss, Exhaust, Consume
        <4>2. CASE ReplaceChallenges(h)
          BY <4>2 DEF ReplaceChallenges, delete_login_challenges, NoChallenge
        <4>3. CASE StoreEnrolment(h) \/ CheckEnrolment(h) \/ DropEnrolment(h) \/ CountConfirmMiss(h)
                     \/ ActivateTotp(h)
          BY <4>3
          DEF StoreEnrolment, CheckEnrolment, DropEnrolment, CountConfirmMiss, ActivateTotp, rowVars
        <4>4. CASE DisableGate(h) \/ CountDisableMiss(h) \/ ArmExpiry(h) \/ DisableFactor(h)
                     \/ ClearMisses(h)
          BY <4>4
          DEF DisableGate, CountDisableMiss, ArmExpiry, DisableFactor, ClearMisses, totp_disable,
              delete_login_challenges, NoChallenge, rowVars
        <4> QED
          BY <2>6, <3>3, <4>1, <4>2, <4>3, <4>4 DEF HandlerStep
      <3>4. challenge'[c] = challenge[c] \/ challenge'[c].user = NoUser
        BY <2>5, <2>6, <3>2, <3>3 DEF LoginFrame
      <3> QED
        BY <2>0, <3>1, <3>4
    <2> QED
      BY <2>1, <2>2, <2>3, <2>4, <2>5, <2>6, OtherThanLogin
      DEF Start, HandlerStep, LoginAt, StoreEnrolment, CheckEnrolment, DropEnrolment,
          CountConfirmMiss, ActivateTotp, DisableGate, CountDisableMiss, ArmExpiry, DisableFactor,
          ClearMisses, ReplaceChallenges
  <1>4. ASSUME NEW s \in Secrets, s > secrets'
        PROVE  tried'[s] = 0
    <2>0. s \in Int /\ s > secrets /\ tried[s] = 0
      BY <1>1, <1>4 DEF RequestsInv, Secrets
    <2>1. CASE CheckEnrolment(h)
      <3>1. enrol[Me(h)].secret # s
        BY <1>1, <2>0, <2>1 DEF CheckEnrolment, RequestsInv, SecretsInv, TypeOK
      <3> QED
        BY <2>0, <2>1, <3>1 DEF CheckEnrolment, TypeOK
    <2>2. CASE DropEnrolment(h) \/ CountConfirmMiss(h) \/ ActivateTotp(h)
      BY <2>0, <2>2 DEF DropEnrolment, CountConfirmMiss, ActivateTotp, historyVars, tallyVars
    <2>3. CASE EnrolFrame(h)
      BY <2>0, <2>3 DEF EnrolFrame
    <2> QED
      BY <2>1, <2>2, <2>3, OtherThanConfirm
      DEF EnrolAt, HandlerStep, ReplaceChallenges, InsertChallenge, CheckFactor, CountMiss, Exhaust,
          Consume, StoreEnrolment, DisableGate, CountDisableMiss, ArmExpiry, DisableFactor, ClearMisses
  <1> QED
    BY <1>2, <1>3, <1>4 DEF RequestsInv, Me

\* What a step does to the secrets: nothing, or one of these.
SecretChange ==
  \/ UNCHANGED <<totpVars, retired>>
  \/ \E u \in Users : totp_upsert(u) /\ UNCHANGED <<totp, retired>>
  \/ \E u \in Users : totp_disable(u)
  \/ \E u \in Users : totp_delete(u) /\ UNCHANGED <<totp, secrets, retired>>
  \/ \E u \in Users : /\ enrol[u] # NoEnrol
                      /\ enrol' = [enrol EXCEPT ![u].attempts = enrol[u].attempts + 1]
                      /\ UNCHANGED <<totp, secrets, retired>>
  \/ \E u \in Users : /\ enrol[u].secret # 0 /\ totp[u] = 0
                      /\ totp' = [totp EXCEPT ![u] = enrol[u].secret]
                      /\ totp_delete(u)
                      /\ UNCHANGED <<secrets, retired>>

\* The cases of SecretChange are all there are.
LEMMA SecretChanges ==
  ASSUME TypeOK, RequestsInv, NEW h \in Handlers, Start(h) \/ HandlerStep(h)
  PROVE  SecretChange
  <1>0. pc[h] # "idle" => Me(h) \in Users
    BY DEF RequestsInv
  <1>1. CASE Start(h)
    <2>1. ASSUME NEW u \in Users, ResetUserTotp(h, u) PROVE SecretChange
      BY <2>1 DEF ResetUserTotp, SecretChange
    <2>2. ASSUME NEW u \in Users, Login(h, u) \/ SetupTotp(h, u) \/ ConfirmTotp(h, u) \/ DisableTotp(h, u)
          PROVE  SecretChange
      BY <2>2
      DEF Login, SetupTotp, ConfirmTotp, DisableTotp, SecretChange, rowVars, historyVars, tallyVars
    <2>3. ASSUME NEW c \in Challenges, FetchChallenge(h, c) PROVE SecretChange
      BY <2>3 DEF FetchChallenge, SecretChange, historyVars, tallyVars
    <2> QED
      BY <1>1, <2>1, <2>2, <2>3 DEF Start
  <1>2. CASE ReplaceChallenges(h) \/ InsertChallenge(h) \/ CheckFactor(h) \/ CountMiss(h)
    BY <1>2
    DEF ReplaceChallenges, InsertChallenge, CheckFactor, CountMiss, SecretChange, rowVars,
        historyVars, tallyVars
  <1>3. CASE Exhaust(h) \/ Consume(h) \/ CheckEnrolment(h)
    BY <1>3 DEF Exhaust, Consume, CheckEnrolment, SecretChange, rowVars, tallyVars
  <1>4. CASE StoreEnrolment(h)
    <2>1. Me(h) \in Users /\ UNCHANGED <<totp, retired>>
      BY <1>0, <1>4 DEF StoreEnrolment, tallyVars
    <2>2. CASE totp_upsert(Me(h))
      BY <2>1, <2>2 DEF SecretChange
    <2>3. CASE UNCHANGED <<secrets, enrol>>
      BY <2>1, <2>3 DEF SecretChange, totpVars
    <2> QED
      BY <1>4, <2>2, <2>3 DEF StoreEnrolment
  <1>5. CASE DropEnrolment(h)
    <2>1. Me(h) \in Users /\ UNCHANGED <<totp, secrets, retired>>
      BY <1>0, <1>5 DEF DropEnrolment, tallyVars
    <2>2. CASE totp_delete(Me(h))
      BY <2>1, <2>2 DEF SecretChange
    <2>3. CASE UNCHANGED enrol
      BY <2>1, <2>3 DEF SecretChange, totpVars
    <2> QED
      BY <1>5, <2>2, <2>3 DEF DropEnrolment
  <1>6. CASE CountConfirmMiss(h)
    <2>1. Me(h) \in Users /\ UNCHANGED <<totp, secrets, retired>>
      BY <1>0, <1>6 DEF CountConfirmMiss, historyVars, tallyVars
    <2>2. CASE UNCHANGED enrol
      BY <2>1, <2>2 DEF SecretChange, totpVars
    <2>3. CASE /\ enrol[Me(h)] # NoEnrol
               /\ enrol' = [enrol EXCEPT ![Me(h)].attempts = enrol[Me(h)].attempts + 1]
      BY <2>1, <2>3 DEF SecretChange
    <2> QED
      BY <1>6, <2>2, <2>3 DEF CountConfirmMiss
  <1>7. CASE ActivateTotp(h)
    <2>1. Me(h) \in Users /\ UNCHANGED <<secrets, retired>> /\ req[h].secret # 0
      BY <1>0, <1>7 DEF ActivateTotp, historyVars, tallyVars, RequestsInv, TypeOK
    <2>2. CASE UNCHANGED <<totp, enrol>>
      BY <2>1, <2>2 DEF SecretChange, totpVars
    <2>3. CASE /\ enrol[Me(h)].secret = req[h].secret /\ totp[Me(h)] = 0
               /\ totp' = [totp EXCEPT ![Me(h)] = req[h].secret] /\ totp_delete(Me(h))
      BY <2>1, <2>3 DEF SecretChange
    <2> QED
      BY <1>7, <2>2, <2>3 DEF ActivateTotp
  <1>8. CASE DisableGate(h) \/ CountDisableMiss(h) \/ ArmExpiry(h) \/ ClearMisses(h)
    BY <1>8
    DEF DisableGate, CountDisableMiss, ArmExpiry, ClearMisses, SecretChange, rowVars, historyVars, tallyVars
  <1>9. CASE DisableFactor(h)
    BY <1>0, <1>9 DEF DisableFactor, SecretChange
  <1> QED
    BY <1>1, <1>2, <1>3, <1>4, <1>5, <1>6, <1>7, <1>8, <1>9 DEF HandlerStep

\* A secret is set on an account that has none, and was never switched off.
Once ==
  \A u \in Users :
    totp'[u] # totp[u] /\ totp'[u] # 0 => totp[u] = 0 /\ totp'[u] \notin retired

\* Every secret stays in one place.
LEMMA SecretsStep ==
  ASSUME TypeOK, SecretsInv, SecretChange
  PROVE  SecretsInv' /\ Once
  <1>0. /\ secrets \in Nat /\ totp \in [Users -> 0..MaxSecrets] /\ retired \subseteq Secrets
        /\ enrol \in [Users -> [secret : 0..MaxSecrets, attempts : 0..MaxCount, expired : BOOLEAN]]
        /\ \A u \in Users : enrol[u].secret \in Nat /\ totp[u] \in Nat
    BY DEF TypeOK
  <1>1. CASE UNCHANGED <<totpVars, retired>>
    BY <1>1 DEF totpVars, SecretsInv, Once
  <1>2. ASSUME NEW v \in Users, totp_upsert(v) /\ UNCHANGED <<totp, retired>>
        PROVE  SecretsInv' /\ Once
    <2>1. /\ secrets' = secrets + 1 /\ totp' = totp /\ retired' = retired
          /\ \A u \in Users : u # v => enrol'[u] = enrol[u]
          /\ enrol'[v].secret = secrets + 1
      BY <1>0, <1>2 DEF totp_upsert
    <2>2. \A s \in retired : s \in Nat
      BY <1>0 DEF Secrets
    <2> QED
      BY <1>0, <2>1, <2>2 DEF SecretsInv, Once
  <1>3. ASSUME NEW v \in Users, totp_disable(v)
        PROVE  SecretsInv' /\ Once
    <2>1. /\ secrets' = secrets
          /\ retired' = IF totp[v] = 0 THEN retired ELSE retired \cup {totp[v]}
          /\ \A u \in Users : u # v => enrol'[u] = enrol[u] /\ totp'[u] = totp[u]
          /\ enrol'[v] = NoEnrol /\ enrol'[v].secret = 0 /\ totp'[v] = 0
      BY <1>0, <1>3 DEF totp_disable, totp_delete, NoEnrol
    <2> QED
      BY <1>0, <2>1 DEF SecretsInv, Once
  <1>4. ASSUME NEW v \in Users, totp_delete(v) /\ UNCHANGED <<totp, secrets, retired>>
        PROVE  SecretsInv' /\ Once
    <2>1. /\ \A u \in Users : u # v => enrol'[u] = enrol[u]
          /\ enrol'[v] = NoEnrol /\ enrol'[v].secret = 0
      BY <1>0, <1>4 DEF totp_delete, NoEnrol
    <2> QED
      BY <1>0, <1>4, <2>1 DEF SecretsInv, Once
  <1>5. ASSUME NEW v \in Users, enrol[v] # NoEnrol,
               enrol' = [enrol EXCEPT ![v].attempts = enrol[v].attempts + 1],
               UNCHANGED <<totp, secrets, retired>>
        PROVE  SecretsInv' /\ Once
    <2>1. /\ \A u \in Users : u # v => enrol'[u] = enrol[u]
          /\ enrol'[v].secret = enrol[v].secret
      BY <1>0, <1>5
    <2> QED
      BY <1>0, <1>5, <2>1 DEF SecretsInv, Once
  <1>6. ASSUME NEW v \in Users, enrol[v].secret # 0, totp[v] = 0,
               totp' = [totp EXCEPT ![v] = enrol[v].secret],
               totp_delete(v), UNCHANGED <<secrets, retired>>
        PROVE  SecretsInv' /\ Once
    <2>1. /\ \A u \in Users : u # v => enrol'[u] = enrol[u] /\ totp'[u] = totp[u]
          /\ enrol'[v] = NoEnrol /\ enrol'[v].secret = 0 /\ totp'[v] = enrol[v].secret
      BY <1>0, <1>6 DEF totp_delete, NoEnrol
    <2> QED
      BY <1>0, <1>6, <2>1 DEF SecretsInv, Once
  <1> QED
    BY <1>1, <1>2, <1>3, <1>4, <1>5, <1>6 DEF SecretChange

-----------------------------------------------------------------------------
(* The counter of wrong disable codes *)

\* A step of another handler leaves the counter and its expiry.
CounterFrame(h) ==
  /\ UNCHANGED <<misses, armed, unarmed>>
  /\ pc[h] \notin {"incr", "expire"} /\ pc'[h] # "incr"

\* The handlers other than disable_totp and reset_user_totp.
LEMMA OtherThanDisable ==
  ASSUME TypeOK, NEW h \in Handlers, Start(h) \/ HandlerStep(h),
         ~DisableGate(h), ~CountDisableMiss(h), ~ArmExpiry(h), ~ClearMisses(h)
  PROVE  CounterFrame(h)
  <1> USE DEF CounterFrame
  <1>1. ASSUME NEW u \in Users,
               \/ Login(h, u) \/ SetupTotp(h, u) \/ ConfirmTotp(h, u)
               \/ DisableTotp(h, u) \/ ResetUserTotp(h, u)
        PROVE  CounterFrame(h)
    BY <1>1
    DEF Login, SetupTotp, ConfirmTotp, DisableTotp, ResetUserTotp, Begin, TypeOK, cacheVars, historyVars
  <1>2. ASSUME NEW c \in Challenges, FetchChallenge(h, c)
        PROVE  CounterFrame(h)
    BY <1>2 DEF FetchChallenge, Begin, TypeOK, cacheVars, historyVars
  <1>3. CASE ReplaceChallenges(h) \/ InsertChallenge(h) \/ CheckFactor(h) \/ CountMiss(h)
    BY <1>3
    DEF ReplaceChallenges, InsertChallenge, CheckFactor, CountMiss, Goto, Done, TypeOK, cacheVars, historyVars
  <1>4. CASE Exhaust(h) \/ Consume(h) \/ StoreEnrolment(h) \/ DropEnrolment(h)
    BY <1>4 DEF Exhaust, Consume, StoreEnrolment, DropEnrolment, Done, TypeOK, cacheVars
  <1>5. CASE CheckEnrolment(h) \/ CountConfirmMiss(h) \/ ActivateTotp(h) \/ DisableFactor(h)
    BY <1>5
    DEF CheckEnrolment, CountConfirmMiss, ActivateTotp, DisableFactor, Goto, Done, TypeOK, cacheVars, historyVars
  <1> QED
    BY <1>1, <1>2, <1>3, <1>4, <1>5 DEF Start, HandlerStep

\* Wrong disable codes of user u stay bounded.
LEMMA CounterStep ==
  ASSUME TypeOK, RequestsInv, CounterInv, NEW h \in Handlers, Start(h) \/ HandlerStep(h)
  PROVE  CounterInv'
  <1> SUFFICES ASSUME NEW u \in Users
               PROVE  misses'[u] + Cardinality(Counting(u))' <= Overrun
    BY DEF CounterInv, Overrun
  <1> DEFINE Q == Cardinality(Counting(u))
             QQ == Cardinality(Counting(u))'
             N == Cardinality(Handlers)
  <1>1. OnlyMoves(h)
    BY StepMoves
  <1>2. /\ Q \in Nat /\ QQ \in Nat
        /\ QQ = Q + Bit(pc'[h] \in {"incr"} /\ req'[h].user = u)
                  - Bit(pc[h] \in {"incr"} /\ req[h].user = u)
    BY <1>1, UserCount DEF Counting
  <1>3. N \in Nat
    BY SecondFactorAssumption, FS_CardinalityType
  <1>4. QQ <= N
    <2>1. Counting(u)' \in SUBSET Handlers
      BY DEF Counting, ForUser
    <2> QED
      BY <2>1, SecondFactorAssumption, FS_Subset
  <1>5. /\ misses[u] \in Nat /\ MaxAttempts \in Nat \ {0} /\ Overrun = MaxAttempts + N - 1
        /\ misses[u] + Q <= Overrun
    BY SecondFactorAssumption DEF TypeOK, CounterInv, Overrun
  <1> HIDE DEF Q, QQ, N
  <1>6. CASE CounterFrame(h)
    <2>1. QQ = Q /\ misses' = misses
      BY <1>2, <1>6 DEF CounterFrame, Bit
    <2> QED
      BY <1>2, <1>3, <1>5, <2>1 DEF QQ
  <1>7. CASE DisableGate(h)
    <2>1. pc[h] = "gate" /\ misses' = misses
      BY <1>7 DEF DisableGate, cacheVars
    <2>2. CASE pc'[h] = "incr" /\ req' = req /\ misses[Me(h)] < MaxAttempts
      <3>1. CASE Me(h) = u
        BY <1>2, <1>3, <1>4, <1>5, <2>1, <2>2, <3>1 DEF QQ
      <3>2. CASE Me(h) # u
        <4>1. QQ = Q
          BY <1>2, <2>1, <2>2, <3>2 DEF Bit, Me
        <4> QED
          BY <1>2, <1>3, <1>5, <2>1, <4>1 DEF QQ
      <3> QED
        BY <3>1, <3>2
    <2>3. CASE pc'[h] # "incr"
      <3>1. QQ = Q
        BY <1>2, <2>1, <2>3 DEF Bit
      <3> QED
        BY <1>2, <1>3, <1>5, <2>1, <3>1 DEF QQ
    <2> QED
      BY <1>7, <2>2, <2>3 DEF DisableGate, Goto, Done, TypeOK
  <1>8. CASE CountDisableMiss(h)
    <2>1. /\ pc[h] = "incr" /\ pc'[h] # "incr" /\ Me(h) \in Users
          /\ misses' = [misses EXCEPT ![Me(h)] = @ + 1]
      BY <1>8 DEF CountDisableMiss, Goto, Done, TypeOK, RequestsInv
    <2>2. CASE Me(h) = u
      <3>1. QQ = Q - 1 /\ misses'[u] = misses[u] + 1
        BY <1>2, <2>1, <2>2 DEF Bit, Me, TypeOK
      <3> QED
        BY <1>2, <1>3, <1>5, <3>1 DEF QQ
    <2>3. CASE Me(h) # u
      <3>1. QQ = Q /\ misses'[u] = misses[u]
        BY <1>2, <2>1, <2>3 DEF Bit, Me, TypeOK
      <3> QED
        BY <1>2, <1>3, <1>5, <3>1 DEF QQ
    <2> QED
      BY <2>2, <2>3
  <1>9. CASE ArmExpiry(h) \/ ClearMisses(h)
    <2>1. /\ pc[h] # "incr" /\ pc'[h] # "incr"
          /\ misses'[u] = misses[u] \/ misses'[u] = 0
      BY <1>9 DEF ArmExpiry, ClearMisses, Done, TypeOK
    <2>2. QQ = Q
      BY <1>2, <2>1 DEF Bit
    <2> QED
      BY <1>2, <1>3, <1>5, <2>1, <2>2 DEF QQ
  <1> QED
    BY <1>6, <1>7, <1>8, <1>9, OtherThanDisable

\* A counter above zero has its expiry, or the request that sets it.
LEMMA LockStep ==
  ASSUME TypeOK, RequestsInv, DisableLockEnds, NEW h \in Handlers, Start(h) \/ HandlerStep(h)
  PROVE  DisableLockEnds'
  <1> SUFFICES ASSUME NEW u \in Users
               PROVE  \/ misses'[u] = 0
                      \/ u \in armed' \cup unarmed'
                      \/ \E k \in Handlers : pc'[k] = "expire" /\ req'[k].user = u
    BY DEF DisableLockEnds, Me
  <1>1. \A k \in Handlers \ {h} : pc'[k] = pc[k] /\ req'[k] = req[k]
    BY StepMoves DEF OnlyMoves
  <1>2. \/ misses[u] = 0
        \/ u \in armed \cup unarmed
        \/ \E k \in Handlers : pc[k] = "expire" /\ req[k].user = u
    BY DEF DisableLockEnds, Me
  <1>3. CASE CounterFrame(h) \/ DisableGate(h)
    <2>1. UNCHANGED <<misses, armed, unarmed>> /\ pc[h] # "expire"
      BY <1>3 DEF CounterFrame, DisableGate, cacheVars, historyVars
    <2> QED
      BY <1>1, <1>2, <2>1
  <1>4. CASE CountDisableMiss(h)
    <2>1. /\ pc[h] = "incr" /\ UNCHANGED <<armed, unarmed>>
          /\ misses' = [misses EXCEPT ![Me(h)] = @ + 1]
      BY <1>4 DEF CountDisableMiss, historyVars
    <2>2. CASE misses[u] = 0 /\ Me(h) = u
      <3>1. pc'[h] = "expire" /\ req'[h].user = u
        BY <1>4, <2>2 DEF CountDisableMiss, Goto, TypeOK, Me
      <3> QED
        BY <3>1
    <2>3. CASE misses[u] = 0 /\ Me(h) # u
      BY <2>1, <2>3 DEF TypeOK
    <2>4. CASE misses[u] # 0
      BY <1>1, <1>2, <2>1, <2>4
    <2> QED
      BY <2>2, <2>3, <2>4
  <1>5. CASE ArmExpiry(h)
    <2>1. CASE Me(h) = u
      BY <1>5, <2>1 DEF ArmExpiry
    <2>2. CASE Me(h) # u
      <3>1. misses' = misses /\ armed \subseteq armed' /\ unarmed \subseteq unarmed'
        BY <1>5 DEF ArmExpiry
      <3> QED
        BY <1>1, <1>2, <2>2, <3>1 DEF Me
    <2> QED
      BY <2>1, <2>2
  <1>6. CASE ClearMisses(h)
    <2>1. pc[h] = "clear" /\ Me(h) \in Users
      BY <1>6 DEF ClearMisses, RequestsInv
    <2>2. CASE UNCHANGED <<misses, armed, unarmed>>
      BY <1>1, <1>2, <2>1, <2>2
    <2>3. CASE /\ misses' = [misses EXCEPT ![Me(h)] = 0]
               /\ armed' = armed \ {Me(h)} /\ unarmed' = unarmed \ {Me(h)}
      <3>1. CASE Me(h) = u
        BY <2>3, <3>1 DEF TypeOK
      <3>2. CASE Me(h) # u
        <4>1. misses'[u] = misses[u] /\ (u \in armed' \cup unarmed' <=> u \in armed \cup unarmed)
          BY <2>3, <3>2 DEF TypeOK
        <4> QED
          BY <1>1, <1>2, <2>1, <4>1
      <3> QED
        BY <3>1, <3>2
    <2> QED
      BY <1>6, <2>2, <2>3 DEF ClearMisses
  <1> QED
    BY <1>3, <1>4, <1>5, <1>6, OtherThanDisable

-----------------------------------------------------------------------------
(* Challenges of one user *)

\* What a step does to the challenges.
ChallengeChange ==
  \/ UNCHANGED challenge
  \/ \E ids \in SUBSET Challenges : delete_login_challenges(ids)
  \/ \E u \in Users : insert_login_challenge(u)
  \/ \E c \in Challenges :
       /\ challenge[c].user # NoUser
       /\ challenge' = [challenge EXCEPT ![c].attempts = challenge[c].attempts + 1]

\* The cases of ChallengeChange are all there are, and only create_login_challenge
\* makes a challenge or marks its user.
LEMMA ChallengeChanges ==
  ASSUME TypeOK, RequestsInv, NEW h \in Handlers, Start(h) \/ HandlerStep(h)
  PROVE  /\ ChallengeChange
         /\ InsertChallenge(h) \/ \A c \in Challenges : challenge'[c].user \in {challenge[c].user, NoUser}
         /\ ReplaceChallenges(h) \/ (overlapped' = overlapped /\ pc'[h] # "insert")
  <1> DEFINE Kept == \A c \in Challenges : challenge'[c].user \in {challenge[c].user, NoUser}
             Still == overlapped' = overlapped /\ pc'[h] # "insert"
  <1>1. ASSUME UNCHANGED challenge PROVE ChallengeChange /\ Kept
    BY <1>1 DEF ChallengeChange
  <1>2. ASSUME NEW ids \in SUBSET Challenges, delete_login_challenges(ids) PROVE ChallengeChange /\ Kept
    BY <1>2 DEF ChallengeChange, delete_login_challenges, NoChallenge
  <1>4. \A u : ChallengesOf(u) \in SUBSET Challenges
    BY DEF ChallengesOf
  <1>5. CASE Start(h)
    <2>1. ASSUME NEW u \in Users, ResetUserTotp(h, u) PROVE ChallengeChange /\ Kept /\ Still
      <3>1. ChallengeChange /\ Kept
        BY <1>2, <1>4, <2>1 DEF ResetUserTotp, totp_disable
      <3>2. Still
        BY <2>1 DEF ResetUserTotp, Begin, TypeOK
      <3> QED
        BY <3>1, <3>2
    <2>2. ASSUME NEW u \in Users, Login(h, u) \/ SetupTotp(h, u) \/ ConfirmTotp(h, u) \/ DisableTotp(h, u)
          PROVE  ChallengeChange /\ Kept /\ Still
      <3>1. ChallengeChange /\ Kept
        BY <1>1, <2>2 DEF Login, SetupTotp, ConfirmTotp, DisableTotp, rowVars
      <3>2. Still
        BY <2>2 DEF Login, SetupTotp, ConfirmTotp, DisableTotp, Begin, TypeOK, historyVars
      <3> QED
        BY <3>1, <3>2
    <2>3. ASSUME NEW c \in Challenges, FetchChallenge(h, c) PROVE ChallengeChange /\ Kept /\ Still
      <3>1. ChallengeChange /\ Kept
        BY <1>1, <1>2, <2>3 DEF FetchChallenge
      <3>2. Still
        BY <2>3 DEF FetchChallenge, Begin, TypeOK, historyVars
      <3> QED
        BY <3>1, <3>2
    <2> QED
      BY <1>5, <2>1, <2>2, <2>3 DEF Start
  <1>6. CASE ReplaceChallenges(h)
    <2>1. ChallengeChange /\ Kept
      BY <1>1, <1>2, <1>4, <1>6 DEF ReplaceChallenges
    <2> QED
      BY <1>6, <2>1
  <1>7. CASE InsertChallenge(h)
    <2>1. ChallengeChange
      BY <1>7 DEF InsertChallenge, ChallengeChange, RequestsInv
    <2>2. Still
      BY <1>7 DEF InsertChallenge, Done, TypeOK, historyVars
    <2> QED
      BY <1>7, <2>1, <2>2
  <1>8. CASE CountMiss(h)
    <2>1. CASE UNCHANGED challenge
      BY <1>1, <1>8, <2>1 DEF CountMiss, Goto, Done, TypeOK
    <2>2. CASE /\ challenge[req[h].id].user # NoUser
               /\ challenge' = [challenge EXCEPT ![req[h].id].attempts = challenge[req[h].id].attempts + 1]
      <3>1. req[h].id \in Challenges
        BY <1>8 DEF CountMiss, RequestsInv, TypeOK, Challenges
      <3>2. ChallengeChange
        BY <2>2, <3>1 DEF ChallengeChange
      <3>3. Kept
        BY <2>2, <3>1 DEF TypeOK
      <3>4. Still
        BY <1>8 DEF CountMiss, Goto, Done, TypeOK
      <3> QED
        BY <3>2, <3>3, <3>4
    <2> QED
      BY <1>8, <2>1, <2>2 DEF CountMiss
  <1>9. CASE Exhaust(h) \/ Consume(h)
    <2>1. {req[h].id} \in SUBSET Challenges
      BY <1>9 DEF Exhaust, Consume, RequestsInv, TypeOK, Challenges
    <2>2. ChallengeChange /\ Kept
      BY <1>1, <1>2, <1>9, <2>1 DEF Exhaust, Consume
    <2>3. Still
      BY <1>9 DEF Exhaust, Consume, Done, TypeOK
    <2> QED
      BY <2>2, <2>3
  <1>10. CASE DisableFactor(h)
    <2>1. ChallengeChange /\ Kept
      BY <1>2, <1>4, <1>10 DEF DisableFactor, totp_disable
    <2>2. Still
      BY <1>10 DEF DisableFactor, Goto, TypeOK
    <2> QED
      BY <2>1, <2>2
  <1>11. CASE \/ CheckFactor(h) \/ StoreEnrolment(h) \/ CheckEnrolment(h) \/ DropEnrolment(h)
              \/ CountConfirmMiss(h) \/ ActivateTotp(h) \/ DisableGate(h) \/ CountDisableMiss(h)
              \/ ArmExpiry(h) \/ ClearMisses(h)
    <2>1. UNCHANGED <<challenge, overlapped>>
      BY <1>11
      DEF CheckFactor, StoreEnrolment, CheckEnrolment, DropEnrolment, CountConfirmMiss, ActivateTotp,
          DisableGate, CountDisableMiss, ArmExpiry, ClearMisses, rowVars, historyVars
    <2>2. pc'[h] # "insert"
      BY <1>11
      DEF CheckFactor, StoreEnrolment, CheckEnrolment, DropEnrolment, CountConfirmMiss, ActivateTotp,
          DisableGate, CountDisableMiss, ArmExpiry, ClearMisses, Goto, Done, TypeOK
    <2> QED
      BY <1>1, <2>1, <2>2
  <1> QED
    BY <1>5, <1>6, <1>7, <1>8, <1>9, <1>10, <1>11 DEF HandlerStep

\* A second challenge of a user means that logins overlapped.
LEMMA ReplaceStep ==
  ASSUME TypeOK, RequestsInv, ReplaceInv, NEW h \in Handlers, Start(h) \/ HandlerStep(h)
  PROVE  ReplaceInv'
  <1>0. \A k \in Handlers \ {h} : pc'[k] = pc[k] /\ req'[k] = req[k]
    BY StepMoves DEF OnlyMoves
  <1> SUFFICES ASSUME NEW u \in Users, u \notin overlapped'
               PROVE  /\ \A c, d \in Challenges : challenge'[c].user = u /\ challenge'[d].user = u => c = d
                      /\ \A k, l \in Handlers :
                           pc'[k] = "insert" /\ req'[k].user = u /\ pc'[l] = "insert" /\ req'[l].user = u
                             => k = l
                      /\ \/ \A c \in Challenges : challenge'[c].user # u
                         \/ \A k \in Handlers : ~(pc'[k] = "insert" /\ req'[k].user = u)
    BY DEF ReplaceInv, ChallengesOf, Inserting, ForUser, Me
  <1>1. u \notin overlapped =>
          /\ \A c, d \in Challenges : challenge[c].user = u /\ challenge[d].user = u => c = d
          /\ \A k, l \in Handlers :
               pc[k] = "insert" /\ req[k].user = u /\ pc[l] = "insert" /\ req[l].user = u => k = l
          /\ \/ \A c \in Challenges : challenge[c].user # u
             \/ \A k \in Handlers : ~(pc[k] = "insert" /\ req[k].user = u)
    BY DEF ReplaceInv, ChallengesOf, Inserting, ForUser, Me
  <1>2. u # NoUser
    BY SecondFactorAssumption
  <1>3. CASE ReplaceChallenges(h) /\ pc'[h] = "insert"
    <2>1. /\ pc[h] = "replace" /\ req' = req
          /\ delete_login_challenges(ChallengesOf(Me(h)))
          /\ overlapped' = (overlapped \ {Me(h)}) \cup
                             {Me(k) : k \in {k \in Handlers : pc[k] = "insert" /\ Me(k) = Me(h)}}
      BY <1>3 DEF ReplaceChallenges, Goto, Done, TypeOK
    <2>2. CASE Me(h) = u
      <3>1. \A c \in Challenges : challenge'[c].user # u
        BY <1>2, <2>1, <2>2 DEF delete_login_challenges, ChallengesOf, NoChallenge
      <3>2. \A k \in Handlers : ~(pc[k] = "insert" /\ req[k].user = u)
        BY <2>1, <2>2 DEF Me
      <3> QED
        BY <1>0, <3>1, <3>2
    <2>3. CASE Me(h) # u
      <3>1. u \notin overlapped
        BY <2>1, <2>3
      <3>2. \A c \in Challenges : challenge'[c].user = u => challenge[c].user = u
        BY <1>2, <2>1 DEF delete_login_challenges, NoChallenge
      <3> QED
        BY <1>0, <1>1, <2>1, <2>3, <3>1, <3>2 DEF Me
    <2> QED
      BY <2>2, <2>3
  <1>4. CASE InsertChallenge(h)
    <2>0. created + 1 \in Challenges
      BY <1>4, SecondFactorAssumption DEF InsertChallenge, insert_login_challenge, TypeOK, Challenges
    <2>1. /\ pc[h] = "insert" /\ pc'[h] = "idle" /\ overlapped' = overlapped
          /\ Me(h) \in Users
          /\ \A c \in Challenges : c # created + 1 => challenge'[c] = challenge[c]
          /\ challenge'[created + 1].user = Me(h)
      BY <1>4, <2>0
      DEF InsertChallenge, insert_login_challenge, Done, TypeOK, RequestsInv, historyVars
    <2>2. CASE Me(h) = u
      BY <1>0, <1>1, <2>1, <2>2 DEF Me
    <2>3. CASE Me(h) # u
      BY <1>0, <1>1, <2>1, <2>3
    <2> QED
      BY <2>2, <2>3
  <1>5. CASE ~InsertChallenge(h) /\ ~(ReplaceChallenges(h) /\ pc'[h] = "insert")
    <2>1. overlapped' = overlapped /\ pc'[h] # "insert"
      BY <1>5, ChallengeChanges DEF ReplaceChallenges, Goto, Done, TypeOK
    <2>2. \A c \in Challenges : challenge'[c].user = u => challenge[c].user = u
      BY <1>2, <1>5, ChallengeChanges
    <2> QED
      BY <1>0, <1>1, <2>1, <2>2
  <1> QED
    BY <1>3, <1>4, <1>5

-----------------------------------------------------------------------------
(* Types *)

\* Requests are counted by naturals no greater than their number.
LEMMA CountType ==
  ASSUME NEW S \in SUBSET Handlers
  PROVE  /\ Cardinality(S) \in Nat /\ Cardinality(Handlers) \in Nat
         /\ Cardinality(S) <= Cardinality(Handlers)
  BY SecondFactorAssumption, FS_Subset, FS_CardinalityType

\* Secrets and enrolments keep their types; the attempts are bounded.
LEMMA SecretTypes ==
  ASSUME TypeOK, SecretsInv, SecretChange, SecretsInv', EnrolmentInv', faults' \in 0..MaxFaults
  PROVE  /\ totp' \in [Users -> 0..MaxSecrets]
         /\ enrol' \in [Users -> [secret : 0..MaxSecrets, attempts : 0..MaxCount, expired : BOOLEAN]]
         /\ retired' \subseteq Secrets
  <1> DEFINE Row == [secret : 0..MaxSecrets, attempts : 0..MaxCount, expired : BOOLEAN]
  <1>0. MaxCount \in Nat /\ Cardinality(Handlers) \in Nat /\ MaxCount = MaxAttempts + Cardinality(Handlers) + MaxFaults
    BY CountType, SecondFactorAssumption DEF MaxCount
  <1>1. NoEnrol \in Row
    BY <1>0, SecondFactorAssumption DEF NoEnrol
  <1>2. /\ totp \in [Users -> 0..MaxSecrets] /\ enrol \in [Users -> Row] /\ retired \subseteq Secrets
        /\ secrets \in 0..MaxSecrets
    BY DEF TypeOK
  <1>3. CASE UNCHANGED <<totpVars, retired>>
    BY <1>2, <1>3 DEF totpVars
  <1>4. ASSUME NEW u \in Users, totp_upsert(u) /\ UNCHANGED <<totp, retired>>
        PROVE  totp' \in [Users -> 0..MaxSecrets] /\ enrol' \in [Users -> Row] /\ retired' \subseteq Secrets
    <2>1. [secret |-> secrets + 1, attempts |-> 0, expired |-> FALSE] \in Row
      BY <1>0, <1>2, <1>4, SecondFactorAssumption DEF totp_upsert
    <2> QED
      BY <1>2, <1>4, <2>1 DEF totp_upsert
  <1>5. ASSUME NEW u \in Users, totp_disable(u)
        PROVE  totp' \in [Users -> 0..MaxSecrets] /\ enrol' \in [Users -> Row] /\ retired' \subseteq Secrets
    <2>1. totp[u] \in 0..MaxSecrets /\ 0 \in 0..MaxSecrets
      BY <1>2, SecondFactorAssumption
    <2>2. totp[u] = 0 \/ totp[u] \in Secrets
      BY <2>1, SecondFactorAssumption DEF Secrets
    <2> QED
      BY <1>1, <1>2, <1>5, <2>1, <2>2 DEF totp_disable, totp_delete
  <1>6. ASSUME NEW u \in Users, totp_delete(u) /\ UNCHANGED <<totp, secrets, retired>>
        PROVE  totp' \in [Users -> 0..MaxSecrets] /\ enrol' \in [Users -> Row] /\ retired' \subseteq Secrets
    BY <1>1, <1>2, <1>6 DEF totp_delete
  <1>7. ASSUME NEW u \in Users, enrol[u] # NoEnrol,
               enrol' = [enrol EXCEPT ![u].attempts = enrol[u].attempts + 1],
               UNCHANGED <<totp, secrets, retired>>
        PROVE  totp' \in [Users -> 0..MaxSecrets] /\ enrol' \in [Users -> Row] /\ retired' \subseteq Secrets
    <2>1. enrol[u] \in Row
      BY <1>2
    <2>2. /\ enrol'[u].attempts = enrol[u].attempts + 1
          /\ enrol'[u].secret = enrol[u].secret
      BY <1>2, <1>7
    <2>3. enrol[u].secret \in Secrets
      BY <1>7, <2>1, SecondFactorAssumption DEF SecretsInv, Secrets
    <2>5. enrol'[u].attempts <= MaxAttempts - 1 + Cardinality(Dropping(u))' + faults'
      <3>1. PICK s \in Secrets : s = enrol'[u].secret
        BY <2>2, <2>3
      <3>2. EnrolmentOK(u, s)'
        BY DEF EnrolmentInv
      <3> QED
        BY <3>1, <3>2 DEF EnrolmentOK
    <2>6. Cardinality(Dropping(u))' \in Nat /\ Cardinality(Dropping(u))' <= Cardinality(Handlers)
      <3>1. Dropping(u)' \in SUBSET Handlers
        BY DEF Dropping, ForUser
      <3> QED
        BY <3>1, CountType
    <2>7. enrol[u].attempts + 1 \in 0..MaxCount
      BY <1>0, <2>1, <2>2, <2>5, <2>6, SecondFactorAssumption
    <2>8. [enrol[u] EXCEPT !.attempts = enrol[u].attempts + 1] \in Row
      BY <2>1, <2>7
    <2>9. enrol' = [enrol EXCEPT ![u] = [enrol[u] EXCEPT !.attempts = enrol[u].attempts + 1]]
      BY <1>7
    <2>10. enrol' \in [Users -> Row]
      BY <1>2, <2>8, <2>9
    <2> QED
      BY <1>2, <1>7, <2>10
  <1>8. ASSUME NEW u \in Users, enrol[u].secret # 0, totp[u] = 0,
               totp' = [totp EXCEPT ![u] = enrol[u].secret],
               totp_delete(u), UNCHANGED <<secrets, retired>>
        PROVE  totp' \in [Users -> 0..MaxSecrets] /\ enrol' \in [Users -> Row] /\ retired' \subseteq Secrets
    <2>1. enrol[u].secret \in 0..MaxSecrets
      BY <1>2
    <2> QED
      BY <1>1, <1>2, <1>8, <2>1 DEF totp_delete
  <1> QED
    BY <1>3, <1>4, <1>5, <1>6, <1>7, <1>8 DEF SecretChange

\* Challenges keep their type; the attempts are bounded.
LEMMA ChallengeTypes ==
  ASSUME TypeOK, ChallengeChange, LoginInv', faults' \in 0..MaxFaults
  PROVE  challenge' \in [Challenges -> [user : Users \cup {NoUser}, attempts : 0..MaxCount,
                                        expired : BOOLEAN]]
  <1> DEFINE Row == [user : Users \cup {NoUser}, attempts : 0..MaxCount, expired : BOOLEAN]
  <1>0. MaxCount \in Nat /\ Cardinality(Handlers) \in Nat /\ MaxCount = MaxAttempts + Cardinality(Handlers) + MaxFaults
    BY CountType, SecondFactorAssumption DEF MaxCount
  <1>1. challenge \in [Challenges -> Row] /\ created \in 0..MaxChallenges
    BY DEF TypeOK
  <1>2. ASSUME NEW ids \in SUBSET Challenges, delete_login_challenges(ids)
        PROVE  challenge' \in [Challenges -> Row]
    <2>1. NoChallenge \in Row
      BY <1>0 DEF NoChallenge
    <2> QED
      BY <1>1, <1>2, <2>1 DEF delete_login_challenges
  <1>3. ASSUME NEW u \in Users, insert_login_challenge(u)
        PROVE  challenge' \in [Challenges -> Row]
    <2>1. [user |-> u, attempts |-> 0, expired |-> FALSE] \in Row
      BY <1>0
    <2> QED
      BY <1>1, <1>3, <2>1 DEF insert_login_challenge
  <1>4. ASSUME NEW c \in Challenges, challenge[c].user # NoUser,
               challenge' = [challenge EXCEPT ![c].attempts = challenge[c].attempts + 1]
        PROVE  challenge' \in [Challenges -> Row]
    <2>1. challenge[c] \in Row
      BY <1>1
    <2>2. /\ challenge'[c].attempts = challenge[c].attempts + 1
          /\ challenge'[c].user # NoUser
      BY <1>1, <1>4
    <2>3. challenge'[c].attempts <= MaxAttempts - 1 + Cardinality(Exhausting(c))' + faults'
      <3>1. LoginOK(c)'
        BY DEF LoginInv
      <3> QED
        BY <2>2, <3>1 DEF LoginOK
    <2>4. Cardinality(Exhausting(c))' \in Nat /\ Cardinality(Exhausting(c))' <= Cardinality(Handlers)
      <3>1. Exhausting(c)' \in SUBSET Handlers
        BY DEF Exhausting, ForChallenge
      <3> QED
        BY <3>1, CountType
    <2>5. challenge[c].attempts + 1 \in 0..MaxCount
      BY <1>0, <2>1, <2>2, <2>3, <2>4, SecondFactorAssumption
    <2>6. [challenge[c] EXCEPT !.attempts = challenge[c].attempts + 1] \in Row
      BY <2>1, <2>5
    <2>7. challenge' = [challenge EXCEPT ![c] = [challenge[c] EXCEPT !.attempts = challenge[c].attempts + 1]]
      BY <1>4
    <2> QED
      BY <1>1, <2>6, <2>7
  <1> QED
    BY <1>1, <1>2, <1>3, <1>4 DEF ChallengeChange

\* The counts of codes keep their types.
LEMMA TallyTypes ==
  ASSUME TypeOK, RequestsInv, SecretsInv, NEW h \in Handlers, Start(h) \/ HandlerStep(h),
         LoginInv', CounterInv', faults' \in 0..MaxFaults
  PROVE  /\ checked' \in [Challenges -> 0..MaxCount]
         /\ tried' \in [Secrets -> Nat]
         /\ misses' \in [Users -> 0..Overrun]
  <1>0. /\ Cardinality(Handlers) \in Nat /\ MaxCount = MaxAttempts + Cardinality(Handlers) + MaxFaults
        /\ Overrun = MaxAttempts + Cardinality(Handlers) - 1 /\ MaxAttempts \in Nat \ {0} /\ MaxFaults \in Nat
    BY CountType, SecondFactorAssumption DEF MaxCount, Overrun
  <1>1. checked' \in [Challenges -> 0..MaxCount]
    <2>1. CASE CheckFactor(h)
      <3>1. req[h].id \in Challenges
        BY <2>1 DEF CheckFactor, RequestsInv, TypeOK, Challenges
      <3>2. CASE checked' = checked
        BY <3>2 DEF TypeOK
      <3>3. CASE checked' = [checked EXCEPT ![req[h].id] = checked[req[h].id] + 1]
        <4>1. checked[req[h].id] \in Nat /\ checked'[req[h].id] = checked[req[h].id] + 1
          BY <3>1, <3>3, <1>0 DEF TypeOK
        <4>2. PICK c \in Challenges : c = req[h].id
          BY <3>1
        <4>3. LoginOK(c)'
          BY DEF LoginInv
        <4>4. Cardinality(Fetched(c))' \in Nat
          <5>1. Fetched(c)' \in SUBSET Handlers
            BY DEF Fetched, ForChallenge
          <5> QED
            BY <5>1, CountType
        <4>5. checked'[c] + Cardinality(Fetched(c))' <= MaxAttempts + Cardinality(Handlers) - 1 + faults'
          BY <4>3 DEF LoginOK, Overrun
        <4>6. checked[req[h].id] + 1 \in 0..MaxCount
          BY <1>0, <4>1, <4>2, <4>4, <4>5
        <4> QED
          BY <3>3, <4>6 DEF TypeOK
      <3> QED
        BY <2>1, <3>2, <3>3 DEF CheckFactor
    <2>2. ASSUME ~CheckFactor(h) PROVE checked' = checked
      BY <2>2
      DEF Start, HandlerStep, Login, SetupTotp, ConfirmTotp, DisableTotp, ResetUserTotp, FetchChallenge,
          ReplaceChallenges, InsertChallenge, CountMiss, Exhaust, Consume, StoreEnrolment,
          CheckEnrolment, DropEnrolment, CountConfirmMiss, ActivateTotp, DisableGate, CountDisableMiss,
          ArmExpiry, DisableFactor, ClearMisses, historyVars, tallyVars
    <2> QED
      BY <2>1, <2>2 DEF TypeOK
  <1>2. tried' \in [Secrets -> Nat]
    <2>1. CASE CheckEnrolment(h)
      BY <2>1 DEF CheckEnrolment, TypeOK
    <2>2. ASSUME ~CheckEnrolment(h) PROVE tried' = tried
      BY <2>2
      DEF Start, HandlerStep, Login, SetupTotp, ConfirmTotp, DisableTotp, ResetUserTotp, FetchChallenge,
          ReplaceChallenges, InsertChallenge, CheckFactor, CountMiss, Exhaust, Consume, StoreEnrolment,
          DropEnrolment, CountConfirmMiss, ActivateTotp, DisableGate, CountDisableMiss,
          ArmExpiry, DisableFactor, ClearMisses, historyVars, tallyVars
    <2> QED
      BY <2>1, <2>2 DEF TypeOK
  <1>3. misses' \in [Users -> 0..Overrun]
    <2>1. CASE misses' = misses
      BY <2>1 DEF TypeOK
    <2>2. CASE CountDisableMiss(h)
      <3>1. Me(h) \in Users /\ misses' = [misses EXCEPT ![Me(h)] = misses[Me(h)] + 1]
        BY <2>2 DEF CountDisableMiss, RequestsInv
      <3>2. PICK u \in Users : u = Me(h)
        BY <3>1
      <3>3. misses'[u] = misses[u] + 1 /\ misses[u] \in Nat
        BY <1>0, <3>1, <3>2 DEF TypeOK
      <3>4. Cardinality(Counting(u))' \in Nat
        <4>1. Counting(u)' \in SUBSET Handlers
          BY DEF Counting, ForUser
        <4> QED
          BY <4>1, CountType
      <3>5. misses'[u] + Cardinality(Counting(u))' <= MaxAttempts + Cardinality(Handlers) - 1
        BY DEF CounterInv, Overrun
      <3>6. misses[u] + 1 \in 0..Overrun
        BY <1>0, <3>3, <3>4, <3>5
      <3> QED
        BY <3>1, <3>2, <3>6 DEF TypeOK
    <2>3. CASE ClearMisses(h)
      BY <1>0, <2>3 DEF ClearMisses, TypeOK
    <2>4. ASSUME ~CountDisableMiss(h), ~ClearMisses(h) PROVE misses' = misses
      BY <2>4, OtherThanDisable DEF CounterFrame, DisableGate, ArmExpiry, cacheVars
    <2> QED
      BY <2>1, <2>2, <2>3, <2>4
  <1> QED
    BY <1>1, <1>2, <1>3

\* The sets of users keep their types.
LEMMA UserSets ==
  ASSUME TypeOK, RequestsInv, NEW h \in Handlers, Start(h) \/ HandlerStep(h)
  PROVE  signedIn' \subseteq Users /\ armed' \subseteq Users /\ unarmed' \subseteq Users
         /\ overlapped' \subseteq Users
  <1>1. signedIn' \subseteq Users
    <2>1. ASSUME NEW u \in Users, Login(h, u) PROVE signedIn' \subseteq Users
      BY <2>1 DEF Login, issue_login_response, TypeOK
    <2>2. CASE Consume(h)
      BY <2>2 DEF Consume, issue_login_response, TypeOK, RequestsInv
    <2>3. ASSUME ~Consume(h), ~\E u \in Users : Login(h, u) PROVE signedIn' = signedIn
      BY <2>3
      DEF Start, HandlerStep, SetupTotp, ConfirmTotp, DisableTotp, ResetUserTotp, FetchChallenge,
          ReplaceChallenges, InsertChallenge, CheckFactor, CountMiss, Exhaust, StoreEnrolment,
          CheckEnrolment, DropEnrolment, CountConfirmMiss, ActivateTotp, DisableGate, CountDisableMiss,
          ArmExpiry, DisableFactor, ClearMisses
    <2> QED
      BY <2>1, <2>2, <2>3 DEF TypeOK
  <1>2. armed' \subseteq Users /\ unarmed' \subseteq Users
    <2>1. CASE ArmExpiry(h) \/ ClearMisses(h)
      BY <2>1 DEF ArmExpiry, ClearMisses, RequestsInv, TypeOK
    <2>2. CASE CounterFrame(h) \/ DisableGate(h) \/ CountDisableMiss(h)
      BY <2>2 DEF CounterFrame, DisableGate, CountDisableMiss, cacheVars, historyVars, TypeOK
    <2> QED
      BY <2>1, <2>2, OtherThanDisable
  <1>3. overlapped' \subseteq Users
    <2>1. CASE ReplaceChallenges(h)
      BY <2>1 DEF ReplaceChallenges, RequestsInv, TypeOK
    <2> QED
      BY <2>1, ChallengeChanges DEF TypeOK
  <1> QED
    BY <1>1, <1>2, <1>3

-----------------------------------------------------------------------------
(* The invariant *)

\* A step of a request keeps the invariant.
LEMMA GuessStep ==
  ASSUME GuessInv, NEW h \in Handlers, Start(h) \/ HandlerStep(h)
  PROVE  GuessInv' /\ Once
  <1> USE DEF GuessInv
  <1>1. RequestsInv' /\ LoginInv'
    BY RequestsStep, LoginStep DEF LoginInv
  <1>2. SecretChange
    BY SecretChanges
  <1>3. SecretsInv' /\ Once
    BY <1>2, SecretsStep
  <1>4. EnrolmentInv'
    <2>1. \A u \in Users, s \in Secrets : EnrolmentOK(u, s)'
      BY EnrolmentStep
    <2>2. EnrolmentCodesBounded'
      BY TriesStep
    <2> QED
      BY <2>1, <2>2 DEF EnrolmentInv
  <1>5. CounterInv' /\ ReplaceInv' /\ DisableLockEnds'
    BY CounterStep, ReplaceStep, LockStep
  <1>6. TypeOK'
    <2>1. faults' \in 0..MaxFaults /\ created' \in 0..MaxChallenges /\ secrets' \in 0..MaxSecrets
      BY FaultsGrow, NumbersGrow
    <2>2. /\ totp' \in [Users -> 0..MaxSecrets]
          /\ enrol' \in [Users -> [secret : 0..MaxSecrets, attempts : 0..MaxCount, expired : BOOLEAN]]
          /\ retired' \subseteq Secrets
      BY <1>2, <1>3, <1>4, <2>1, SecretTypes
    <2>3. challenge' \in [Challenges -> [user : Users \cup {NoUser}, attempts : 0..MaxCount,
                                         expired : BOOLEAN]]
      BY <1>1, <2>1, ChallengeChanges, ChallengeTypes
    <2>4. /\ checked' \in [Challenges -> 0..MaxCount]
          /\ tried' \in [Secrets -> Nat]
          /\ misses' \in [Users -> 0..Overrun]
      BY <1>1, <1>5, <2>1, TallyTypes
    <2>5. /\ signedIn' \subseteq Users /\ armed' \subseteq Users /\ unarmed' \subseteq Users
          /\ overlapped' \subseteq Users
      BY UserSets
    <2>6. pc' \in [Handlers -> At] /\ req' \in [Handlers -> [user : Users \cup {NoUser},
                                       secret : 0..MaxSecrets, id : 0..MaxChallenges]]
      <3>1. pc' = [pc EXCEPT ![h] = pc'[h]] /\ req' = [req EXCEPT ![h] = req'[h]]
        BY StepMoves DEF OnlyMoves
      <3>2. /\ pc'[h] \in At
            /\ req'[h] \in [user : Users \cup {NoUser}, secret : 0..MaxSecrets, id : 0..MaxChallenges]
        BY OwnRequest DEF Carries
      <3> QED
        BY <3>1, <3>2 DEF TypeOK
    <2> QED
      BY <2>1, <2>2, <2>3, <2>4, <2>5, <2>6 DEF TypeOK, Overrun, MaxCount
  <1> QED
    BY <1>1, <1>3, <1>4, <1>5, <1>6

\* The invariant holds initially.
LEMMA GuessInit == Init => GuessInv
  <1> SUFFICES ASSUME Init PROVE GuessInv
    OBVIOUS
  <1>0. /\ Cardinality(Handlers) \in Nat /\ MaxCount = MaxAttempts + Cardinality(Handlers) + MaxFaults
        /\ Overrun = MaxAttempts + Cardinality(Handlers) - 1 /\ MaxAttempts \in Nat \ {0} /\ MaxFaults \in Nat
    BY CountType, SecondFactorAssumption DEF MaxCount, Overrun
  <1>1. TypeOK
    BY <1>0, SecondFactorAssumption
    DEF Init, TypeOK, NoEnrol, NoChallenge, NoReq, At
  <1>2. RequestsInv
    BY SecondFactorAssumption DEF Init, RequestsInv, NoChallenge
  <1>3. SecretsInv
    BY DEF Init, SecretsInv, NoEnrol
  <1>4. ReplaceInv /\ DisableLockEnds
    BY SecondFactorAssumption
    DEF Init, ReplaceInv, DisableLockEnds, ChallengesOf, Inserting, ForUser, NoChallenge
  <1>5. LoginInv
    <2> SUFFICES ASSUME NEW c \in Challenges PROVE LoginOK(c)
      BY DEF LoginInv
    <2>1. Fetched(c) = {}
      BY DEF Init, Fetched, ForChallenge
    <2>2. Cardinality(Fetched(c)) = 0
      BY <2>1, FS_EmptySet
    <2> QED
      BY <1>0, <2>2 DEF Init, LoginOK, NoChallenge
  <1>6. EnrolmentInv
    BY <1>0 DEF Init, EnrolmentInv, EnrolmentCodesBounded, EnrolmentOK, NoEnrol, Secrets
  <1>7. CounterInv
    <2> SUFFICES ASSUME NEW u \in Users PROVE misses[u] + Cardinality(Counting(u)) <= Overrun
      BY DEF CounterInv
    <2>1. Counting(u) = {}
      BY DEF Init, Counting, ForUser
    <2>2. Cardinality(Counting(u)) = 0
      BY <2>1, FS_EmptySet
    <2> QED
      BY <1>0, <2>2 DEF Init
  <1> QED
    BY <1>1, <1>2, <1>3, <1>4, <1>5, <1>6, <1>7 DEF GuessInv

\* Requests that do not move are counted as before.
LEMMA SameCounts ==
  ASSUME UNCHANGED <<pc, req>>
  PROVE  /\ \A c : /\ Cardinality(Fetched(c))' = Cardinality(Fetched(c))
                   /\ Cardinality(Judging(c))' = Cardinality(Judging(c))
                   /\ Cardinality(Exhausting(c))' = Cardinality(Exhausting(c))
         /\ \A u : /\ Cardinality(Confirming(u))' = Cardinality(Confirming(u))
                   /\ Cardinality(Dropping(u))' = Cardinality(Dropping(u))
                   /\ Cardinality(Counting(u))' = Cardinality(Counting(u))
                   /\ Inserting(u)' = Inserting(u)
         /\ \A u, s : Cardinality(Confirmed(u, s))' = Cardinality(Confirmed(u, s))
  <1>1. ASSUME NEW c PROVE Fetched(c)' = Fetched(c) /\ Judging(c)' = Judging(c) /\ Exhausting(c)' = Exhausting(c)
    BY DEF Fetched, Judging, Exhausting, ForChallenge
  <1>2. ASSUME NEW u PROVE /\ Confirming(u)' = Confirming(u) /\ Dropping(u)' = Dropping(u)
                           /\ Counting(u)' = Counting(u) /\ Inserting(u)' = Inserting(u)
    BY DEF Confirming, Dropping, Counting, Inserting, ForUser, Me
  <1>3. ASSUME NEW u, NEW s PROVE Confirmed(u, s)' = Confirmed(u, s)
    BY DEF Confirmed, Me
  <1> QED
    BY <1>1, <1>2, <1>3

\* Time keeps the invariant: rows only expire, a counter only goes away.
LEMMA GuessTick ==
  ASSUME GuessInv, Tick
  PROVE  GuessInv' /\ Once
  <1> USE DEF GuessInv
  <1>1. ASSUME NEW c \in Challenges, ChallengeExpires(c)
        PROVE  GuessInv' /\ Once
    <2>1. /\ UNCHANGED <<totpVars, created, signedIn, cacheVars, pc, req, historyVars>>
          /\ challenge' = [challenge EXCEPT ![c].expired = TRUE]
      BY <1>1 DEF ChallengeExpires
    <2>2. \A d \in Challenges :
            challenge'[d].user = challenge[d].user /\ challenge'[d].attempts = challenge[d].attempts
      BY <2>1 DEF TypeOK
    <2>3. TypeOK'
      <3>0. challenge[c] \in [user : Users \cup {NoUser}, attempts : 0..MaxCount, expired : BOOLEAN]
        BY DEF TypeOK
      <3>1. [challenge[c] EXCEPT !.expired = TRUE]
              \in [user : Users \cup {NoUser}, attempts : 0..MaxCount, expired : BOOLEAN]
        BY <3>0
      <3>2. challenge' = [challenge EXCEPT ![c] = [challenge[c] EXCEPT !.expired = TRUE]]
        BY <2>1
      <3>3. challenge' \in [Challenges -> [user : Users \cup {NoUser}, attempts : 0..MaxCount,
                                           expired : BOOLEAN]]
        BY <3>1, <3>2 DEF TypeOK
      <3> QED
        BY <2>1, <3>3 DEF TypeOK, totpVars, cacheVars, historyVars, tallyVars, Overrun, MaxCount
    <2>4. RequestsInv' /\ SecretsInv' /\ Once
      BY <2>1, <2>2 DEF RequestsInv, SecretsInv, Once, Me, totpVars, historyVars, tallyVars
    <2>5. LoginInv'
      BY <2>1, <2>2, SameCounts DEF LoginInv, LoginOK, historyVars, tallyVars, Overrun
    <2>6. EnrolmentInv' /\ CounterInv' /\ DisableLockEnds'
      BY <2>1, SameCounts
      DEF EnrolmentInv, EnrolmentCodesBounded, EnrolmentOK, CounterInv, DisableLockEnds, Me,
          totpVars, cacheVars, historyVars, tallyVars, Overrun
    <2>7. ReplaceInv'
      BY <2>1, <2>2, SameCounts DEF ReplaceInv, ChallengesOf, historyVars
    <2> QED
      BY <2>3, <2>4, <2>5, <2>6, <2>7
  <1>2. ASSUME NEW u \in Users, EnrolmentExpires(u)
        PROVE  GuessInv' /\ Once
    <2>1. /\ UNCHANGED <<totp, secrets, challenge, created, signedIn, cacheVars, pc, req, historyVars>>
          /\ enrol' = [enrol EXCEPT ![u].expired = TRUE] /\ enrol[u] # NoEnrol
      BY <1>2 DEF EnrolmentExpires
    <2>2. \A v \in Users :
            /\ enrol'[v].secret = enrol[v].secret /\ enrol'[v].attempts = enrol[v].attempts
            /\ enrol'[v].expired = enrol[v].expired \/ enrol'[v].expired
            /\ enrol'[v] # NoEnrol => enrol[v] # NoEnrol
      BY <2>1 DEF TypeOK
    <2>3. TypeOK'
      <3>0. enrol[u] \in [secret : 0..MaxSecrets, attempts : 0..MaxCount, expired : BOOLEAN]
        BY DEF TypeOK
      <3>1. [enrol[u] EXCEPT !.expired = TRUE]
              \in [secret : 0..MaxSecrets, attempts : 0..MaxCount, expired : BOOLEAN]
        BY <3>0
      <3>2. enrol' = [enrol EXCEPT ![u] = [enrol[u] EXCEPT !.expired = TRUE]]
        BY <2>1
      <3>3. enrol' \in [Users -> [secret : 0..MaxSecrets, attempts : 0..MaxCount, expired : BOOLEAN]]
        BY <3>1, <3>2 DEF TypeOK
      <3> QED
        BY <2>1, <3>3 DEF TypeOK, cacheVars, historyVars, tallyVars, Overrun, MaxCount
    <2>4. RequestsInv' /\ SecretsInv' /\ Once
      BY <2>1, <2>2 DEF RequestsInv, SecretsInv, Once, Me, historyVars, tallyVars
    <2>5. LoginInv' /\ CounterInv' /\ DisableLockEnds' /\ ReplaceInv'
      BY <2>1, SameCounts
      DEF LoginInv, LoginOK, CounterInv, DisableLockEnds, ReplaceInv, ChallengesOf, Me, cacheVars,
          historyVars, tallyVars, Overrun
    <2>6. EnrolmentInv'
      BY <2>1, <2>2, SameCounts
      DEF EnrolmentInv, EnrolmentCodesBounded, EnrolmentOK, historyVars, tallyVars, Overrun
    <2> QED
      BY <2>3, <2>4, <2>5, <2>6
  <1>3. ASSUME NEW u \in Users, CounterExpires(u)
        PROVE  GuessInv' /\ Once
    <2>1. /\ UNCHANGED <<rowVars, signedIn, pc, req, historyVars>>
          /\ misses' = [misses EXCEPT ![u] = 0] /\ armed' = armed \ {u}
      BY <1>3 DEF CounterExpires
    <2>2. /\ Cardinality(Handlers) \in Nat
          /\ Overrun = MaxAttempts + Cardinality(Handlers) - 1 /\ MaxAttempts \in Nat \ {0}
      BY CountType, SecondFactorAssumption DEF Overrun
    <2>3. /\ misses' \in [Users -> 0..Overrun] /\ misses'[u] = 0
          /\ \A v \in Users : v # u => misses'[v] = misses[v]
      BY <2>1, <2>2 DEF TypeOK
    <2>4. TypeOK'
      BY <2>1, <2>3 DEF TypeOK, rowVars, totpVars, historyVars, tallyVars, Overrun, MaxCount
    <2>5. RequestsInv' /\ SecretsInv' /\ Once
      BY <2>1 DEF RequestsInv, SecretsInv, Once, Me, rowVars, totpVars, historyVars, tallyVars
    <2>6. LoginInv' /\ ReplaceInv'
      BY <2>1, SameCounts
      DEF LoginInv, LoginOK, ReplaceInv, ChallengesOf, rowVars, historyVars, tallyVars, Overrun
    <2>7. EnrolmentInv'
      BY <2>1, SameCounts
      DEF EnrolmentInv, EnrolmentCodesBounded, EnrolmentOK, rowVars, totpVars, historyVars, tallyVars,
          Overrun
    <2>8. CounterInv'
      <3> SUFFICES ASSUME NEW v \in Users PROVE misses'[v] + Cardinality(Counting(v))' <= Overrun
        BY DEF CounterInv, Overrun
      <3>1. Cardinality(Counting(v))' = Cardinality(Counting(v))
        BY <2>1, SameCounts
      <3>2. Cardinality(Counting(v)) \in Nat
        <4>1. Counting(v) \in SUBSET Handlers
          BY DEF Counting, ForUser
        <4> QED
          BY <4>1, CountType
      <3>3. misses[v] + Cardinality(Counting(v)) <= Overrun /\ misses[v] \in Nat
        BY <2>2 DEF CounterInv, TypeOK
      <3> QED
        BY <2>2, <2>3, <3>1, <3>2, <3>3
    <2>9. DisableLockEnds'
      BY <2>1, <2>3 DEF DisableLockEnds, Me, historyVars
    <2> QED
      BY <2>4, <2>5, <2>6, <2>7, <2>8, <2>9
  <1> QED
    BY <1>1, <1>2, <1>3 DEF Tick

\* Nothing happens.
LEMMA GuessStutter ==
  ASSUME GuessInv, UNCHANGED vars
  PROVE  GuessInv' /\ Once
  <1>1. UNCHANGED <<totp, enrol, secrets, challenge, created, signedIn, misses, armed, pc, req,
                    checked, tried, retired, unarmed, overlapped, faults>>
    BY DEF vars, rowVars, totpVars, cacheVars, historyVars, tallyVars
  <1>2. TypeOK' /\ RequestsInv' /\ SecretsInv' /\ Once
    BY <1>1 DEF GuessInv, TypeOK, RequestsInv, SecretsInv, Once, Me, Overrun, MaxCount
  <1>3. LoginInv' /\ EnrolmentInv'
    BY <1>1, SameCounts
    DEF GuessInv, LoginInv, LoginOK, EnrolmentInv, EnrolmentCodesBounded, EnrolmentOK, Overrun
  <1>4. CounterInv' /\ ReplaceInv' /\ DisableLockEnds'
    BY <1>1, SameCounts
    DEF GuessInv, CounterInv, ReplaceInv, DisableLockEnds, ChallengesOf, Me, Overrun
  <1> QED
    BY <1>2, <1>3, <1>4 DEF GuessInv

\* Every step keeps the invariant, and sets no secret twice.
LEMMA GuessNext == GuessInv /\ [Next]_vars => GuessInv' /\ Once
  <1> SUFFICES ASSUME GuessInv, [Next]_vars PROVE GuessInv' /\ Once
    OBVIOUS
  <1>1. ASSUME NEW h \in Handlers, Start(h) \/ HandlerStep(h) PROVE GuessInv' /\ Once
    BY <1>1, GuessStep
  <1>2. CASE Tick
    BY <1>2, GuessTick
  <1>3. Next => Tick \/ \E h \in Handlers : Start(h) \/ HandlerStep(h)
    BY DEF Next, Tick, Start
  <1> QED
    BY <1>1, <1>2, <1>3, GuessStutter

\* The inductive invariant of the second factor holds at every step.
LEMMA GuessInvariance == Spec => []GuessInv
  <1>1. GuessInv /\ [Next]_vars => GuessInv'
    BY GuessNext
  <1> QED
    BY GuessInit, <1>1, PTL DEF Spec

-----------------------------------------------------------------------------
(* Theorems *)

(***************************************************************************)
(* However many requests of login_totp, confirm_totp and disable_totp      *)
(* overlap, at most MAX_TOTP_ATTEMPTS codes, one more for every other      *)
(* request in progress and one more for every failed statement, are        *)
(* checked in the name of a challenge or an enrolment; a user has a second *)
(* challenge only after logins that overlapped in create_login_challenge;  *)
(* the lock of record_disable_failure has its expiry unless EXPIRE failed. *)
(***************************************************************************)
THEOREM GuessesAreLimited == Spec => []GuessesLimited
  <1>1. GuessInv => GuessesLimited
    <2> SUFFICES ASSUME GuessInv PROVE GuessesLimited
      OBVIOUS
    <2>0. /\ Cardinality(Handlers) \in Nat /\ faults \in Nat
          /\ Overrun = MaxAttempts + Cardinality(Handlers) - 1 /\ MaxAttempts \in Nat \ {0}
      BY CountType, SecondFactorAssumption DEF Overrun, GuessInv, TypeOK
    <2>1. LoginCodesBounded
      <3> SUFFICES ASSUME NEW c \in Challenges PROVE checked[c] <= Overrun + faults
        BY DEF LoginCodesBounded
      <3>1. Cardinality(Fetched(c)) \in Nat
        <4>1. Fetched(c) \in SUBSET Handlers
          BY DEF Fetched, ForChallenge
        <4> QED
          BY <4>1, CountType
      <3>2. checked[c] + Cardinality(Fetched(c)) <= Overrun + faults
        BY DEF GuessInv, LoginInv, LoginOK
      <3>3. checked[c] \in Int
        BY DEF GuessInv, TypeOK
      <3> QED
        BY <2>0, <3>1, <3>2, <3>3
    <2>2. OneChallengeUnlessOverlap
      <3> SUFFICES ASSUME NEW u \in Users, u \notin overlapped, Cardinality(ChallengesOf(u)) > 1
                   PROVE  FALSE
        BY DEF OneChallengeUnlessOverlap
      <3>1. \A c, d \in ChallengesOf(u) : c = d
        BY DEF GuessInv, ReplaceInv
      <3>2. CASE ChallengesOf(u) = {}
        BY <3>2, FS_EmptySet
      <3>3. ASSUME NEW c \in ChallengesOf(u) PROVE FALSE
        <4>1. ChallengesOf(u) = {c}
          BY <3>1, <3>3
        <4>2. Cardinality({c}) = 1
          BY FS_Singleton
        <4> QED
          BY <4>1, <4>2
      <3> QED
        BY <3>2, <3>3
    <2> QED
      BY <2>1, <2>2 DEF GuessesLimited, GuessInv, EnrolmentInv
  <1> QED
    BY <1>1, GuessInvariance, PTL

(***************************************************************************)
(* totp_enrollments::activate sets a secret only on an account that has    *)
(* none, and never one that was switched off before, whatever confirm_totp *)
(* requests are still holding it.                                          *)
(***************************************************************************)
THEOREM SecretsAreUsedOnce == Spec => SecretsUsedOnce
  <1>1. GuessInv /\ [Next]_vars => [Once]_vars
    BY GuessNext
  <1>2. [Once]_vars => [\A u \in Users : totp'[u] # totp[u] /\ totp'[u] # 0
                           => totp[u] = 0 /\ totp'[u] \notin retired]_vars
    BY DEF Once
  <1> QED
    BY <1>1, <1>2, GuessInvariance, PTL DEF Spec, SecretsUsedOnce
=============================================================================
