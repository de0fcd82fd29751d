---------------------------- MODULE MeetingProofs ---------------------------
(***************************************************************************)
(* What the people on a board are shown of each other. Voting: safety, for *)
(* any number of users, handlers, sessions and failures. Presence: for any *)
(* number of sockets, sessions, processes and failures, an open socket's   *)
(* session is in the set and the last broadcast was right, but for the     *)
(* causes the model names.                                                 *)
(***************************************************************************)
EXTENDS MCMeeting, FiniteSetTheorems, TLAPS

-----------------------------------------------------------------------------
(* Voting *)

\* What a handler waits at when it holds a session row.
Holding == At \ {"idle", "insert"}

\* Session rows are numbered as they are made, one is active at most, and the
\* row a handler holds is not newer than the stored one.
SessionsInv ==
  /\ \A s \in Ids : s > made => status[s] = "none" /\ rev[s] = 0
  /\ \A h \in Handlers : pc[h] \in Holding => Id(h) <= made /\ snap[h].rev <= rev[Id(h)]
  /\ \A s, t \in Ids : status[s] = "active" /\ status[t] = "active" => s = t

-----------------------------------------------------------------------------
(* Types *)

\* The tables are empty and the handlers idle initially.
LEMMA VotingInit == Init => TypeOK /\ SessionsInv
  BY VotingAssumption
  DEF Init, TypeOK, SessionsInv, Holding, Ids, NoVotes, NoFrame, NoSnap, At, Id

\* A request that arrives.
LEMMA RequestType ==
  ASSUME TypeOK, NEW h \in Handlers, Request(h)
  PROVE  TypeOK'
  <1> PICK u \in Users : \/ StartVoting(h, u) \/ AskToJoin(h, u) \/ AskToVote(h, u)
                         \/ AskToFinish(h, u) \/ AskToEnd(h, u)
    BY DEF Request
  <1>1. CASE StartVoting(h, u)
    BY <1>1 DEF StartVoting, TypeOK, Active, At, Id, faultVars
  <1>2. ASSUME NEW where \in {"join", "decline", "joined", "finishing", "end"},
               Load(h, u, where)
        PROVE  TypeOK'
    <2> PICK s \in Active : snap' = [snap EXCEPT ![h] = Row(s)]
      BY <1>2 DEF Load
    <2> QED
      BY <1>2 DEF Load, Row, Active, TypeOK, At, Id, rowVars, faultVars
  <1> QED
    BY <1>1, <1>2 DEF AskToJoin, AskToVote, AskToFinish, AskToEnd

\* The end of a request.
LEMMA DoneType ==
  ASSUME TypeOK, NEW h \in Handlers, Done(h), UNCHANGED rowVars,
         shown' \in [Ids -> [rev : Nat, status : {"none", "active", "ended"},
                             votes : [Users -> Nat]]],
         faulty' \subseteq Ids, faults' \in 0..MaxFaults, outdated' \subseteq Ids
  PROVE  TypeOK'
  BY DEF TypeOK, Done, At, Id, NoSnap, NoVotes, rowVars

\* The statements of a handler.
LEMMA StepType ==
  ASSUME TypeOK, NEW h \in Handlers, Step(h)
  PROVE  TypeOK'
  <1> USE DEF Goto
  <1>0. MaxFaults \in Nat /\ MaxSessions \in Nat
    BY VotingAssumption
  <1>1. CASE InsertSession(h)
    <2>1. made + 1 \in Ids
      BY <1>0, <1>1 DEF InsertSession, TypeOK, Ids
    <2>2. /\ made' \in 0..MaxSessions
          /\ status' \in [Ids -> {"none", "active", "ended"}]
          /\ rev' \in [Ids -> Nat]
      BY <1>0, <1>1, <2>1 DEF InsertSession, TypeOK, Ids
    <2>3. /\ pc' \in [Handlers -> At] /\ who' = who /\ counts' = counts
          /\ snap' \in [Handlers -> [id : Ids \cup {0},
                                     status : {"none", "active", "ended"}, rev : Nat]]
      BY <1>1, <2>1 DEF InsertSession, TypeOK, At
    <2>4. \A g \in Handlers : /\ pc'[g] # "idle" => who'[g] \in Users
                              /\ pc'[g] \notin {"idle", "insert"} => snap'[g].id \in Ids
      BY <1>1, <2>1 DEF InsertSession, TypeOK, Id
    <2> QED
      BY <1>1, <2>2, <2>3, <2>4 DEF InsertSession, TypeOK, Id, faultVars
  <1>2. CASE InsertConflict(h) \/ NotJoined(h) \/ NoVotesLeft(h)
    BY <1>2, DoneType DEF InsertConflict, NotJoined, NoVotesLeft, faultVars, TypeOK
  <1>3. CASE AutoJoin(h) \/ SetParticipation(h) \/ SetFinished(h)
    <2>1. Id(h) \in Ids /\ who[h] \in Users
      BY <1>3 DEF AutoJoin, SetParticipation, SetFinished, TypeOK
    <2>2. CASE AutoJoin(h)
      BY <2>1, <2>2 DEF AutoJoin, TypeOK, At, Id, faultVars
    <2>3. CASE SetParticipation(h)
      BY <2>1, <2>3 DEF SetParticipation, TypeOK, At, Id, faultVars
    <2>4. CASE SetFinished(h)
      BY <2>1, <2>4 DEF SetFinished, TypeOK, At, Id, faultVars
    <2> QED
      BY <1>3, <2>2, <2>3, <2>4
  <1>4. CASE CheckJoined(h) \/ CheckBudget(h)
    BY <1>4 DEF CheckJoined, CheckBudget, TypeOK, At, Id, rowVars, faultVars
  <1>5. CASE CountFails(h) \/ BumpFails(h)
    <2>1. Id(h) \in Ids
      BY <1>5 DEF CountFails, BumpFails, TypeOK
    <2>2. faulty' \subseteq Ids /\ faults' \in 0..MaxFaults /\ outdated' = outdated
      BY <1>0, <1>5, <2>1 DEF CountFails, BumpFails, Fault, TypeOK
    <2> QED
      BY <1>5, <2>2 DEF CountFails, BumpFails, TypeOK, At, Id, rowVars
  <1>6. CASE InsertVote(h)
    BY <1>6 DEF InsertVote, TypeOK, At, Id, faultVars
  <1>7. CASE EndSession(h) \/ BumpRev(h)
    <2>0. Id(h) \in Ids
      BY <1>7 DEF EndSession, BumpRev, TypeOK
    <2>1. Id(h) \in Ids /\ rev[Id(h)] \in Nat
      BY <2>0 DEF TypeOK
    <2>2. CASE EndSession(h)
      BY <2>1, <2>2 DEF EndSession, TypeOK, At, Id, faultVars
    <2>3. CASE BumpRev(h)
      <3> DEFINE row == [snap[h] EXCEPT !.rev = rev[Id(h)] + 1]
      <3>1. /\ row \in [id : Ids \cup {0}, status : {"none", "active", "ended"}, rev : Nat]
            /\ row.id = Id(h)
        <4>1. snap[h] \in [id : Ids \cup {0}, status : {"none", "active", "ended"}, rev : Nat]
          BY DEF TypeOK
        <4>2. rev[Id(h)] + 1 \in Nat
          BY <2>1
        <4> QED
          BY <4>1, <4>2 DEF Id
      <3>2. snap' = [snap EXCEPT ![h] = row]
        BY <2>3 DEF BumpRev
      <3> HIDE DEF row
      <3> QED
        <4>1. snap' \in [Handlers -> [id : Ids \cup {0},
                                      status : {"none", "active", "ended"}, rev : Nat]]
          BY <3>1, <3>2 DEF TypeOK
        <4>2. \A g \in Handlers : snap'[g].id = snap[g].id
          BY <3>1, <3>2 DEF TypeOK, Id
        <4>3. /\ pc' \in [Handlers -> At] /\ who' = who
              /\ \A g \in Handlers : g = h \/ pc'[g] = pc[g]
          BY <2>3 DEF BumpRev, TypeOK, At
        <4>4. rev' \in [Ids -> Nat]
          BY <2>1, <2>3 DEF BumpRev, TypeOK
        <4>5. pc[h] = "bump"
          BY <2>3 DEF BumpRev
        <4> QED
          BY <2>3, <4>1, <4>2, <4>3, <4>4, <4>5 DEF BumpRev, TypeOK, Id, faultVars
    <2> QED
      BY <1>7, <2>2, <2>3
  <1>8. CASE Tally(h)
    BY <1>8 DEF Tally, TypeOK, At, Id, rowVars, faultVars
  <1>9. CASE Send(h)
    <2>1. Id(h) \in Ids
      BY <1>9 DEF Send, TypeOK
    <2> QED
      BY <1>9, <2>1, DoneType DEF Send, TypeOK, Id, faultVars
  <1>10. CASE Drop(h)
    <2>1. faulty' \subseteq Ids /\ outdated' \subseteq Ids
      BY <1>10 DEF Drop, Fault, TypeOK
    <2>2. faults' \in 0..MaxFaults
      BY <1>0, <1>10 DEF Drop, Fault, TypeOK
    <2> QED
      BY <1>10, <2>1, <2>2, DoneType DEF Drop, TypeOK
  <1> QED
    BY <1>1, <1>2, <1>3, <1>4, <1>5, <1>6, <1>7, <1>8, <1>9, <1>10 DEF Step

\* Every step keeps the types.
LEMMA VotingTypeStep == TypeOK /\ [Next]_vars => TypeOK'
  <1> SUFFICES ASSUME TypeOK, [Next]_vars PROVE TypeOK'
    OBVIOUS
  <1>1. CASE Deadline
    BY <1>1 DEF Deadline, TypeOK, Active, Id, taskVars, faultVars
  <1>2. CASE UNCHANGED vars
    BY <1>2 DEF vars, rowVars, taskVars, faultVars, TypeOK, Id
  <1> QED
    BY <1>1, <1>2, RequestType, StepType DEF Next

-----------------------------------------------------------------------------
(* Sessions *)

\* A handler's step leaves the locals of the others alone.
LEMMA OtherHandlersStay ==
  ASSUME TypeOK, NEW h \in Handlers, Request(h) \/ Step(h),
         NEW g \in Handlers, g # h
  PROVE  pc'[g] = pc[g] /\ who'[g] = who[g] /\ snap'[g] = snap[g] /\ counts'[g] = counts[g]
  <1>1. ASSUME NEW u \in Users, NEW where, Load(h, u, where)
        PROVE  /\ pc'[g] = pc[g] /\ who'[g] = who[g]
               /\ snap'[g] = snap[g] /\ counts'[g] = counts[g]
    BY <1>1 DEF Load, TypeOK
  <1>2. ASSUME NEW u \in Users, StartVoting(h, u)
        PROVE  /\ pc'[g] = pc[g] /\ who'[g] = who[g]
               /\ snap'[g] = snap[g] /\ counts'[g] = counts[g]
    BY <1>2 DEF StartVoting, TypeOK
  <1>3. CASE Request(h)
    BY <1>1, <1>2, <1>3 DEF Request, AskToJoin, AskToVote, AskToFinish, AskToEnd
  <1>4. CASE Step(h)
    <2>1. ASSUME Done(h)
          PROVE  /\ pc'[g] = pc[g] /\ who'[g] = who[g]
                 /\ snap'[g] = snap[g] /\ counts'[g] = counts[g]
      BY <2>1 DEF Done, TypeOK
    <2>2. CASE InsertConflict(h) \/ NotJoined(h) \/ NoVotesLeft(h) \/ Send(h) \/ Drop(h)
      BY <2>1, <2>2 DEF InsertConflict, NotJoined, NoVotesLeft, Send, Drop
    <2>3. CASE InsertSession(h) \/ AutoJoin(h) \/ SetParticipation(h) \/ CheckJoined(h)
               \/ CheckBudget(h) \/ CountFails(h)
      BY <2>3 DEF InsertSession, AutoJoin, SetParticipation, CheckJoined, CheckBudget,
                  CountFails, Goto, TypeOK
    <2>4. CASE InsertVote(h) \/ SetFinished(h) \/ EndSession(h) \/ BumpRev(h)
               \/ BumpFails(h) \/ Tally(h)
      BY <2>4 DEF InsertVote, SetFinished, EndSession, BumpRev, BumpFails, Tally, Goto, TypeOK
    <2> QED
      BY <1>4, <2>2, <2>3, <2>4 DEF Step
  <1> QED
    BY <1>3, <1>4

\* What a step may do to the session rows and to the row its handler holds.
LEMMA SessionWrites ==
  ASSUME TypeOK, NEW h \in Handlers, Request(h) \/ Step(h)
  PROVE  \/ /\ UNCHANGED <<made, status, rev>>
            /\ pc'[h] \in Holding => \/ /\ pc[h] \in Holding
                                         /\ snap'[h] = snap[h]
                                      \/ /\ snap'[h].id \in Active
                                         /\ snap'[h].rev = rev[snap'[h].id]
                                         /\ pc'[h] \notin {"tally", "send", "bump", "vote"}
         \/ /\ \E u \in Users : StartVoting(h, u)
            /\ pc'[h] = "insert"
         \/ InsertSession(h)
         \/ EndSession(h)
         \/ BumpRev(h)
  <1>1. ASSUME NEW u \in Users, NEW where \in {"join", "decline", "joined", "finishing", "end"},
               Load(h, u, where)
        PROVE  /\ UNCHANGED <<made, status, rev>>
               /\ snap'[h].id \in Active
               /\ snap'[h].rev = rev[snap'[h].id]
               /\ pc'[h] \notin {"tally", "send", "bump", "vote"}
    <2>1. PICK s \in Active : snap' = [snap EXCEPT ![h] = Row(s)]
      BY <1>1 DEF Load
    <2>2. snap'[h] = Row(s)
      BY <2>1 DEF TypeOK
    <2> QED
      BY <1>1, <2>2 DEF Load, Row, rowVars, TypeOK
  <1>2. ASSUME NEW u \in Users, StartVoting(h, u)
        PROVE  pc'[h] = "insert"
    BY <1>2 DEF StartVoting, TypeOK
  <1>3. ASSUME Done(h)
        PROVE  pc'[h] \notin Holding
    BY <1>3 DEF Done, Holding, TypeOK
  <1>4. CASE InsertConflict(h) \/ NotJoined(h) \/ NoVotesLeft(h) \/ Send(h) \/ Drop(h)
    BY <1>3, <1>4 DEF InsertConflict, NotJoined, NoVotesLeft, Send, Drop, rowVars
  <1>5. CASE AutoJoin(h) \/ SetParticipation(h) \/ CheckJoined(h) \/ CheckBudget(h)
             \/ CountFails(h)
    BY <1>5 DEF AutoJoin, SetParticipation, CheckJoined, CheckBudget, CountFails, rowVars,
                Holding, At
  <1>6. CASE InsertVote(h) \/ SetFinished(h) \/ BumpFails(h) \/ Tally(h)
    BY <1>6 DEF InsertVote, SetFinished, BumpFails, Tally, rowVars, Holding, At
  <1> QED
    BY <1>1, <1>2, <1>4, <1>5, <1>6
    DEF Request, Step, AskToJoin, AskToVote, AskToFinish, AskToEnd

\* Starts that race and handlers that hold old rows keep SessionsInv.
LEMMA SessionsStep == TypeOK /\ SessionsInv /\ [Next]_vars => SessionsInv'
  <1> SUFFICES ASSUME TypeOK, SessionsInv, [Next]_vars PROVE SessionsInv'
    OBVIOUS
  <1>t. TypeOK'
    BY VotingTypeStep
  <1>0. MaxSessions \in Nat /\ Ids \subseteq Nat /\ made \in Nat
    BY VotingAssumption DEF Ids, TypeOK
  <1>1. CASE Deadline \/ UNCHANGED vars
    <2>1. UNCHANGED <<made, status, rev, pc, snap>>
      BY <1>1 DEF Deadline, vars, rowVars, taskVars
    <2> QED
      BY <2>1 DEF SessionsInv, Id
  <1>2. ASSUME NEW h \in Handlers, Request(h) \/ Step(h)
        PROVE  SessionsInv'
    <2>1. \A g \in Handlers : g # h => pc'[g] = pc[g] /\ snap'[g] = snap[g]
      BY <1>2, OtherHandlersStay
    <2>2. \A g \in Handlers : pc[g] \in Holding =>
             /\ Id(g) \in Ids /\ Id(g) <= made
             /\ snap[g].rev \in Nat /\ snap[g].rev <= rev[Id(g)]
      BY DEF TypeOK, SessionsInv, Holding, Id
    <2>3. CASE UNCHANGED <<made, status, rev>>
               /\ (pc'[h] \in Holding => \/ pc[h] \in Holding /\ snap'[h] = snap[h]
                                         \/ /\ snap'[h].id \in Active
                                            /\ snap'[h].rev = rev[snap'[h].id])
      <3>1. \A s \in Active : s \in Ids /\ s <= made /\ rev[s] \in Nat
        BY <1>0 DEF Active, SessionsInv, TypeOK
      <3> QED
        BY <2>1, <2>2, <2>3, <3>1 DEF SessionsInv, Id
    <2>4. CASE (\E u \in Users : StartVoting(h, u)) /\ pc'[h] = "insert"
      <3>1. /\ made' = made
            /\ status' = [s \in Ids |-> IF s \in Active THEN "ended" ELSE status[s]]
            /\ rev' = [s \in Ids |-> IF s \in Active THEN rev[s] + 1 ELSE rev[s]]
        BY <2>4 DEF StartVoting
      <3>2. \A s \in Ids : rev[s] \in Nat /\ rev'[s] >= rev[s] /\ status'[s] # "active"
        BY <3>1 DEF TypeOK, Active
      <3>3. \A s \in Ids : s > made => status'[s] = "none" /\ rev'[s] = 0
        BY <3>1 DEF SessionsInv, Active
      <3>4. \A g \in Handlers : pc'[g] \in Holding => pc[g] \in Holding /\ snap'[g] = snap[g]
        BY <2>1, <2>4 DEF Holding
      <3> QED
        BY <2>2, <3>1, <3>2, <3>3, <3>4 DEF SessionsInv, Id
    <2>5. CASE InsertSession(h)
      <3>1. /\ made + 1 \in Ids /\ made' = made + 1
            /\ status' = [status EXCEPT ![made + 1] = "active"]
            /\ rev' = [rev EXCEPT ![made + 1] = 1]
            /\ snap'[h].id = made + 1 /\ snap'[h].rev = 1
            /\ Active = {}
        BY <1>0, <2>5 DEF InsertSession, Ids, TypeOK
      <3>2. \A s \in Ids : s > made + 1 => status'[s] = "none" /\ rev'[s] = 0
        BY <1>0, <3>1 DEF SessionsInv, TypeOK
      <3>3. \A s \in Ids : status'[s] = "active" => s = made + 1
        BY <3>1 DEF Active, TypeOK
      <3>4. \A g \in Handlers : pc'[g] \in Holding =>
               snap'[g].id <= made' /\ snap'[g].rev <= rev'[snap'[g].id]
        <4>1. rev'[made + 1] = 1
          BY <3>1 DEF TypeOK
        <4>2. \A g \in Handlers : g # h /\ pc'[g] \in Holding =>
                 snap[g].id <= made /\ snap[g].rev <= rev'[snap[g].id]
          BY <1>0, <2>1, <2>2, <3>1 DEF TypeOK, Id
        <4>3. snap'[h].id <= made' /\ snap'[h].rev <= rev'[snap'[h].id]
          BY <1>0, <3>1, <4>1
        <4>4. \A g \in Handlers : g # h /\ pc'[g] \in Holding => snap[g].id <= made'
          <5>1. \A g \in Handlers : g # h /\ pc'[g] \in Holding => snap[g].id \in Ids
            BY <2>1, <2>2 DEF Id
          <5>2. \A i \in Ids : i <= made => i <= made'
            BY <1>0, <3>1
          <5> QED
            BY <4>2, <5>1, <5>2
        <4> SUFFICES ASSUME NEW g \in Handlers, pc'[g] \in Holding
                     PROVE  snap'[g].id <= made' /\ snap'[g].rev <= rev'[snap'[g].id]
          OBVIOUS
        <4>5. CASE g # h
          <5>1. snap'[g] = snap[g]
            BY <2>1, <4>5
          <5> QED
            BY <4>2, <4>4, <4>5, <5>1
        <4> QED
          BY <4>3, <4>5
      <3> QED
        BY <3>1, <3>2, <3>3, <3>4 DEF SessionsInv, Id
    <2>6. ASSUME EndSession(h) \/ BumpRev(h)
          PROVE  SessionsInv'
      <3>1. pc[h] \in Holding /\ made' = made
        BY <2>6 DEF EndSession, BumpRev, Holding, At
      <3>2. /\ rev' = [rev EXCEPT ![Id(h)] = rev[Id(h)] + 1]
            /\ snap'[h].id = Id(h) /\ snap'[h].rev = rev[Id(h)] + 1
        BY <2>6 DEF EndSession, BumpRev, TypeOK, Id
      <3>3. \A s \in Ids : /\ status'[s] = "active" => status[s] = "active"
                           /\ s # Id(h) => status'[s] = status[s]
        BY <2>6 DEF EndSession, BumpRev, TypeOK
      <3>4. \A s \in Ids : rev'[s] >= rev[s] /\ (s # Id(h) => rev'[s] = rev[s])
        BY <2>2, <3>1, <3>2 DEF TypeOK
      <3>5. rev'[Id(h)] = rev[Id(h)] + 1
        BY <2>2, <3>1, <3>2 DEF TypeOK
      <3>6. \A g \in Handlers : pc'[g] \in Holding =>
               snap'[g].id <= made' /\ snap'[g].rev <= rev'[snap'[g].id]
        <4>1. \A g \in Handlers : pc[g] \in Holding => rev[Id(g)] \in Nat /\ rev'[Id(g)] \in Nat
          BY <1>t, <2>2 DEF TypeOK
        <4>2. \A g \in Handlers : g # h /\ pc'[g] \in Holding =>
                 snap[g].id <= made /\ snap[g].rev <= rev'[snap[g].id]
          BY <2>1, <2>2, <3>4, <4>1 DEF Id
        <4> QED
          BY <2>1, <2>2, <3>1, <3>2, <3>5, <4>1, <4>2
      <3>7. \A s \in Ids : s > made => status'[s] = "none" /\ rev'[s] = 0
        BY <1>0, <2>2, <3>1, <3>3, <3>4 DEF SessionsInv
      <3> QED
        BY <3>1, <3>3, <3>6, <3>7 DEF SessionsInv, Id
    <2> QED
      BY <1>2, <2>3, <2>4, <2>5, <2>6, SessionWrites
  <1> QED
    BY <1>1, <1>2 DEF Next

-----------------------------------------------------------------------------
(* Votes and frames *)

\* The handlers of user u that have passed the budget check of session s.
Pending(s, u) == {h \in Handlers : pc[h] = "vote" /\ Id(h) = s /\ who[h] = u}

\* The votes that were cast and those the check, or a failed count, has let through.
BudgetInv ==
  \A s \in Ids, u \in Users :
    votes[s][u] + Cardinality(Pending(s, u)) < Budget + Cardinality(Handlers) + faults

\* With the handlers at p and the rows r in their hands, a frame of session s
\* newer than n is on its way.
Newer(p, r, s, n) ==
  \E g \in Handlers :
    /\ r[g].id = s
    /\ p[g] = "bump" \/ (p[g] \in {"tally", "send"} /\ r[g].rev > n)

\* What a client shows, and what is in a frame, is the tally or superseded.
FramesInv ==
  /\ \A s \in Ids : shown[s].rev <= rev[s]
  /\ \A s \in Ids \ faulty : shown[s].votes = votes[s] \/ Newer(pc, snap, s, shown[s].rev)
  /\ \A h \in Handlers : pc[h] = "send" /\ Id(h) \notin faulty =>
       \/ counts[h] = votes[Id(h)]
       \/ Newer(pc, snap, Id(h), snap[h].rev)
       \/ shown[Id(h)].rev > snap[h].rev

\* Which steps touch the votes, the frames and the places that lead to them.
LEMMA VoteWrites ==
  ASSUME TypeOK, NEW h \in Handlers, Request(h) \/ Step(h)
  PROVE  /\ faulty \subseteq faulty'
         /\ InsertVote(h) \/ votes' = votes
         /\ Send(h) \/ shown' = shown
         /\ pc'[h] = "send" => Tally(h)
         /\ pc'[h] = "vote" => CheckBudget(h) \/ CountFails(h)
         /\ pc[h] = "bump" => BumpRev(h) \/ Id(h) \in faulty'
         /\ pc[h] = "tally" => Tally(h) \/ Id(h) \in faulty'
         /\ pc[h] = "send" => Send(h) \/ Id(h) \in faulty'
  <1> DEFINE Goal == /\ faulty \subseteq faulty'
                     /\ InsertVote(h) \/ votes' = votes
                     /\ Send(h) \/ shown' = shown
                     /\ pc'[h] = "send" => Tally(h)
                     /\ pc'[h] = "vote" => CheckBudget(h) \/ CountFails(h)
                     /\ pc[h] = "bump" => BumpRev(h) \/ Id(h) \in faulty'
                     /\ pc[h] = "tally" => Tally(h) \/ Id(h) \in faulty'
                     /\ pc[h] = "send" => Send(h) \/ Id(h) \in faulty'
  <1>1. ASSUME NEW u \in Users, NEW where \in {"join", "decline", "joined", "finishing", "end"},
               Load(h, u, where)
        PROVE  Goal
    BY <1>1 DEF Load, rowVars, faultVars, TypeOK
  <1>2. ASSUME NEW u \in Users, StartVoting(h, u)
        PROVE  Goal
    BY <1>2 DEF StartVoting, faultVars, TypeOK
  <1>3. CASE InsertConflict(h) \/ NotJoined(h) \/ NoVotesLeft(h) \/ Send(h)
    BY <1>3 DEF InsertConflict, NotJoined, NoVotesLeft, Send, Done, rowVars, faultVars, TypeOK
  <1>4. CASE Drop(h)
    BY <1>4 DEF Drop, Fault, Done, rowVars, TypeOK
  <1>5. CASE InsertSession(h) \/ AutoJoin(h) \/ SetParticipation(h) \/ CheckJoined(h)
             \/ CheckBudget(h) \/ SetFinished(h)
    BY <1>5 DEF InsertSession, AutoJoin, SetParticipation, CheckJoined, CheckBudget,
                SetFinished, Goto, rowVars, faultVars, TypeOK
  <1>6. CASE CountFails(h) \/ BumpFails(h)
    BY <1>6 DEF CountFails, BumpFails, Fault, Goto, rowVars, TypeOK
  <1>7. CASE InsertVote(h) \/ EndSession(h) \/ BumpRev(h) \/ Tally(h)
    BY <1>7 DEF InsertVote, EndSession, BumpRev, Tally, Goto, rowVars, faultVars, TypeOK
  <1> QED
    BY <1>1, <1>2, <1>3, <1>4, <1>5, <1>6, <1>7
    DEF Request, Step, AskToJoin, AskToVote, AskToFinish, AskToEnd

\* Failures are counted, a failed count of votes too.
LEMMA FaultsGrow ==
  ASSUME TypeOK, NEW h \in Handlers, Request(h) \/ Step(h)
  PROVE  /\ faults \in Nat /\ faults' \in Nat /\ faults <= faults'
         /\ CountFails(h) => faults' = faults + 1
  <1>0. faults \in Nat
    BY VotingAssumption DEF TypeOK
  <1>1. ASSUME NEW sessions, Fault(sessions)
        PROVE  faults' = faults + 1
    BY <1>1 DEF Fault
  <1>2. ASSUME NEW u \in Users, NEW where, Load(h, u, where)
        PROVE  faults' = faults
    BY <1>2 DEF Load, faultVars
  <1>3. ASSUME NEW u \in Users, StartVoting(h, u)
        PROVE  faults' = faults
    BY <1>3 DEF StartVoting
  <1>4. CountFails(h) \/ BumpFails(h) \/ Drop(h) => faults' = faults + 1
    BY <1>1 DEF CountFails, BumpFails, Drop
  <1>5. CASE InsertConflict(h) \/ NotJoined(h) \/ NoVotesLeft(h) \/ Send(h)
             \/ InsertSession(h) \/ AutoJoin(h) \/ SetParticipation(h) \/ CheckJoined(h)
    BY <1>0, <1>4, <1>5
    DEF InsertConflict, NotJoined, NoVotesLeft, Send, InsertSession, AutoJoin,
        SetParticipation, CheckJoined, faultVars
  <1>6. CASE CheckBudget(h) \/ SetFinished(h) \/ InsertVote(h) \/ EndSession(h)
             \/ BumpRev(h) \/ Tally(h)
    BY <1>0, <1>4, <1>6
    DEF CheckBudget, SetFinished, InsertVote, EndSession, BumpRev, Tally, faultVars
  <1>7. CASE Request(h)
    <2>1. faults' = faults
      BY <1>2, <1>3, <1>7 DEF Request, AskToJoin, AskToVote, AskToFinish, AskToEnd
    <2> QED
      BY <1>0, <1>4, <2>1
  <1>8. CASE CountFails(h) \/ BumpFails(h) \/ Drop(h)
    BY <1>0, <1>4, <1>8
  <1> QED
    BY <1>5, <1>6, <1>7, <1>8 DEF Step

\* Pending handlers are finitely many, fewer if one is gone, and grow by one.
LEMMA PendingCount ==
  /\ Cardinality(Handlers) \in Nat
  /\ \A S \in SUBSET Handlers : Cardinality(S) \in Nat /\ Cardinality(S) <= Cardinality(Handlers)
  /\ \A S, T \in SUBSET Handlers : T \subseteq S => Cardinality(T) <= Cardinality(S)
  /\ \A S, T \in SUBSET Handlers, h \in Handlers :
       h \in S /\ T \subseteq S \ {h} => Cardinality(T) + 1 <= Cardinality(S)
  /\ \A S, T \in SUBSET Handlers, h \in Handlers :
       S \ {h} \subseteq T => Cardinality(S) <= Cardinality(T) + 1
  <1>1. IsFiniteSet(Handlers) /\ Cardinality(Handlers) \in Nat
    BY VotingAssumption, FS_CardinalityType
  <1>2. \A S \in SUBSET Handlers : IsFiniteSet(S) /\ Cardinality(S) \in Nat
                                  /\ Cardinality(S) <= Cardinality(Handlers)
    BY <1>1, FS_Subset, FS_CardinalityType
  <1>3. \A S, T \in SUBSET Handlers : T \subseteq S => Cardinality(T) <= Cardinality(S)
    BY <1>2, FS_Subset
  <1>4. ASSUME NEW S \in SUBSET Handlers, NEW T \in SUBSET Handlers, NEW h \in Handlers,
               h \in S, T \subseteq S \ {h}
        PROVE  Cardinality(T) + 1 <= Cardinality(S)
    <2>1. Cardinality(S \ {h}) = Cardinality(S) - 1
      BY <1>2, <1>4, FS_RemoveElement
    <2>2. Cardinality(T) <= Cardinality(S \ {h})
      BY <1>3, <1>4
    <2> QED
      BY <1>2, <2>1, <2>2
  <1>5. ASSUME NEW S \in SUBSET Handlers, NEW T \in SUBSET Handlers, NEW h \in Handlers,
               S \ {h} \subseteq T
        PROVE  Cardinality(S) <= Cardinality(T) + 1
    <2>1. Cardinality(S) \in Nat /\ Cardinality(T) \in Nat
      BY <1>2
    <2>2. CASE h \in S
      <3>1. Cardinality(S \ {h}) = Cardinality(S) - 1
        BY <1>2, <2>2, FS_RemoveElement
      <3>2. Cardinality(S \ {h}) <= Cardinality(T)
        BY <1>3, <1>5
      <3> QED
        BY <2>1, <3>1, <3>2
    <2>3. CASE h \notin S
      <3>1. Cardinality(S) <= Cardinality(T)
        BY <1>3, <1>5, <2>3
      <3> QED
        BY <2>1, <3>1
    <2> QED
      BY <2>2, <2>3
  <1> QED
    BY <1>1, <1>2, <1>3, <1>4, <1>5

\* A vote let through stays within the handlers in progress.
LEMMA BudgetStep == TypeOK /\ BudgetInv /\ [Next]_vars => BudgetInv'
  <1> SUFFICES ASSUME TypeOK, BudgetInv, [Next]_vars PROVE BudgetInv'
    OBVIOUS
  <1>1. CASE Deadline \/ UNCHANGED vars
    <2>1. UNCHANGED <<votes, pc, snap, who, faults>>
      BY <1>1 DEF Deadline, vars, rowVars, taskVars, faultVars
    <2> QED
      BY <2>1 DEF BudgetInv, Pending, Id
  <1>2. ASSUME NEW h \in Handlers, Request(h) \/ Step(h),
               NEW s \in Ids, NEW u \in Users
        PROVE  (votes[s][u] + Cardinality(Pending(s, u)) < Budget + Cardinality(Handlers) + faults)'
    <2> DEFINE old == Pending(s, u)
               new == Pending(s, u)'
    <2>1. old \in SUBSET Handlers /\ new \in SUBSET Handlers
      BY DEF Pending
    <2>2. \A g \in Handlers : g # h => (g \in new <=> g \in old)
      BY <1>2, OtherHandlersStay DEF Pending, Id
    <2>3. /\ votes[s][u] \in Nat /\ Budget \in Nat
          /\ votes[s][u] + Cardinality(old) < Budget + Cardinality(Handlers) + faults
      BY <1>2, VotingAssumption DEF BudgetInv, TypeOK
    <2>f. /\ faults \in Nat /\ faults' \in Nat /\ faults <= faults'
          /\ CountFails(h) => faults' = faults + 1
      BY <1>2, FaultsGrow
    <2>4. CASE InsertVote(h)
      <3>1. /\ pc[h] = "vote" /\ pc'[h] = "bump" /\ Id(h) \in Ids /\ who[h] \in Users
            /\ \/ Id(h) = s /\ who[h] = u /\ votes'[s][u] = votes[s][u] + 1
               \/ ~(Id(h) = s /\ who[h] = u) /\ votes'[s][u] = votes[s][u]
        BY <2>4 DEF InsertVote, Goto, TypeOK
      <3>2. new \subseteq old \ {h}
        BY <2>1, <2>2, <3>1 DEF Pending
      <3>3. CASE Id(h) = s /\ who[h] = u
        <4>1. h \in old
          BY <3>1, <3>3 DEF Pending
        <4> HIDE DEF old, new
        <4>2. Cardinality(new) + 1 <= Cardinality(old)
          BY <2>1, <3>2, <4>1, PendingCount
        <4>3. votes'[s][u] + Cardinality(new) < Budget + Cardinality(Handlers) + faults'
          BY <2>1, <2>3, <2>f, <3>1, <3>3, <4>2, PendingCount
        <4> QED
          BY <4>3 DEF new
      <3>4. CASE ~(Id(h) = s /\ who[h] = u)
        <4> HIDE DEF old, new
        <4>1. Cardinality(new) <= Cardinality(old)
          BY <2>1, <3>2, PendingCount
        <4>2. votes'[s][u] + Cardinality(new) < Budget + Cardinality(Handlers) + faults'
          BY <2>1, <2>3, <2>f, <3>1, <3>4, <4>1, PendingCount
        <4> QED
          BY <4>2 DEF new
      <3> QED
        BY <3>3, <3>4
    <2>5. CASE votes' = votes /\ new \subseteq old
      <3> HIDE DEF old, new
      <3>1. Cardinality(new) <= Cardinality(old)
        BY <2>1, <2>5, PendingCount
      <3>2. votes'[s][u] + Cardinality(new) < Budget + Cardinality(Handlers) + faults'
        BY <2>1, <2>3, <2>f, <2>5, <3>1, PendingCount
      <3> QED
        BY <3>2 DEF new
    <2>6. CASE votes' = votes /\ ~(new \subseteq old)
      <3>1. h \in new
        BY <2>1, <2>2, <2>6
      <3>2. pc'[h] = "vote" /\ snap'[h].id = s /\ who'[h] = u
        BY <3>1 DEF Pending, Id
      <3>3. CASE CountFails(h)
        <4>1. new \ {h} \subseteq old
          BY <2>1, <2>2
        <4> HIDE DEF old, new
        <4>2. Cardinality(new) <= Cardinality(old) + 1
          BY <2>1, <4>1, PendingCount
        <4>3. votes'[s][u] + Cardinality(new) < Budget + Cardinality(Handlers) + faults'
          BY <2>1, <2>3, <2>f, <2>6, <3>3, <4>2, PendingCount
        <4> QED
          BY <4>3 DEF new
      <3>4. CASE CheckBudget(h)
        <4>1. votes[s][u] < Budget
          BY <3>2, <3>4 DEF CheckBudget, Goto, Id
        <4> HIDE DEF old, new
        <4>2. Cardinality(new) <= Cardinality(Handlers) /\ Cardinality(new) \in Nat
          BY <2>1, PendingCount
        <4>3. votes'[s][u] + Cardinality(new) < Budget + Cardinality(Handlers) + faults'
          BY <2>3, <2>6, <2>f, <4>1, <4>2, PendingCount
        <4> QED
          BY <4>3 DEF new
      <3> QED
        BY <1>2, <3>2, <3>3, <3>4, VoteWrites
    <2> QED
      BY <1>2, <2>4, <2>5, <2>6, VoteWrites
  <1>3. ASSUME NEW h \in Handlers, Request(h) \/ Step(h)
        PROVE  BudgetInv'
    BY <1>2, <1>3 DEF BudgetInv
  <1> QED
    BY <1>1, <1>3 DEF Next

\* Revisions of a session only grow.
LEMMA RevGrows ==
  ASSUME TypeOK, SessionsInv, NEW h \in Handlers, Request(h) \/ Step(h), NEW s \in Ids
  PROVE  rev[s] \in Nat /\ rev'[s] >= rev[s]
  <1>0. rev[s] \in Nat /\ made \in Nat /\ MaxSessions \in Nat
    BY VotingAssumption DEF TypeOK
  <1>1. CASE \E u \in Users : StartVoting(h, u)
    BY <1>0, <1>1 DEF StartVoting
  <1>2. CASE InsertSession(h)
    <2>1. rev' = [rev EXCEPT ![made + 1] = 1] /\ made + 1 \in Ids
      BY <1>0, <1>2 DEF InsertSession, Ids
    <2>2. rev[made + 1] = 0
      BY <1>0, <2>1 DEF SessionsInv
    <2> QED
      BY <1>0, <2>1, <2>2 DEF TypeOK
  <1>3. CASE EndSession(h) \/ BumpRev(h)
    <2>1. rev' = [rev EXCEPT ![Id(h)] = rev[Id(h)] + 1]
      BY <1>3 DEF EndSession, BumpRev
    <2> QED
      BY <1>0, <2>1 DEF TypeOK
  <1> QED
    BY <1>0, <1>1, <1>2, <1>3, SessionWrites

\* A newer frame on its way stays on its way until it is sent.
LEMMA StillNewer ==
  ASSUME TypeOK, NEW h \in Handlers, Request(h) \/ Step(h),
         NEW s \in Ids, s \notin faulty', NEW n \in Nat, n <= rev[s], Newer(pc, snap, s, n)
  PROVE  \/ Newer(pc', snap', s, n)
         \/ Send(h) /\ Id(h) = s /\ snap[h].rev > n
  <1> PICK g \in Handlers :
        /\ snap[g].id = s
        /\ pc[g] = "bump" \/ (pc[g] \in {"tally", "send"} /\ snap[g].rev > n)
    BY DEF Newer
  <1>1. CASE g # h
    <2>1. pc'[g] = pc[g] /\ snap'[g] = snap[g]
      BY <1>1, OtherHandlersStay
    <2> QED
      BY <2>1 DEF Newer
  <1>2. CASE g = h /\ pc[h] = "bump"
    <2>1. BumpRev(h)
      BY <1>2, VoteWrites DEF Id
    <2>2. pc'[h] = "tally" /\ snap'[h].id = s /\ snap'[h].rev = rev[s] + 1
      BY <1>2, <2>1 DEF BumpRev, Goto, TypeOK, Id
    <2>3. rev[s] \in Nat
      BY DEF TypeOK
    <2> QED
      BY <2>2, <2>3 DEF Newer
  <1>3. CASE g = h /\ pc[h] = "tally"
    <2>1. Tally(h)
      BY <1>3, VoteWrites DEF Id
    <2>2. pc'[h] = "send" /\ snap'[h] = snap[h]
      BY <2>1 DEF Tally, TypeOK
    <2> QED
      BY <1>3, <2>2 DEF Newer
  <1>4. CASE g = h /\ pc[h] = "send"
    BY <1>4, VoteWrites DEF Id
  <1> QED
    BY <1>1, <1>2, <1>3, <1>4

\* A frame that is sent replaces an older one; what it lacks is on its way.
LEMMA FramesUnderSend ==
  ASSUME TypeOK, SessionsInv, FramesInv, NEW h \in Handlers, Send(h)
  PROVE  FramesInv'
  <1>0. Step(h)
    BY DEF Step
  <1>1. /\ Id(h) \in Ids /\ pc[h] = "send" /\ pc'[h] = "idle"
        /\ snap[h].rev \in Nat /\ snap[h].rev <= rev[Id(h)]
        /\ votes' = votes /\ faulty' = faulty /\ rev' = rev
    BY DEF Send, Done, TypeOK, SessionsInv, Holding, At, Id, rowVars, faultVars
  <1>2. \A s \in Ids : rev[s] \in Nat /\ shown[s].rev \in Nat /\ shown[s].rev <= rev[s]
    BY DEF TypeOK, FramesInv
  <1>3. /\ \A s \in Ids : s # Id(h) => shown'[s] = shown[s]
        /\ \/ /\ snap[h].rev > shown[Id(h)].rev
              /\ shown'[Id(h)].rev = snap[h].rev /\ shown'[Id(h)].votes = counts[h]
           \/ /\ snap[h].rev <= shown[Id(h)].rev
              /\ shown'[Id(h)] = shown[Id(h)]
    BY <1>1, <1>2 DEF Send, TypeOK
  <1>4. \A s \in Ids : /\ shown'[s].rev \in Nat /\ shown'[s].rev >= shown[s].rev
                       /\ shown'[s].rev <= rev'[s]
    BY <1>1, <1>2, <1>3
  <1>5. \A g \in Handlers : g # h => /\ pc'[g] = pc[g] /\ snap'[g] = snap[g]
                                     /\ counts'[g] = counts[g]
    BY <1>0, OtherHandlersStay
  <1>6. ASSUME NEW s \in Ids, s \notin faulty
        PROVE  shown'[s].votes = votes[s] \/ Newer(pc', snap', s, shown'[s].rev)
    <2>1. CASE Id(h) = s /\ snap[h].rev > shown[s].rev
      <3>1. shown'[s].rev = snap[h].rev /\ shown'[s].votes = counts[h]
        BY <1>1, <1>2, <1>3, <2>1
      <3>2. counts[h] = votes[s] \/ Newer(pc, snap, s, snap[h].rev)
        BY <1>1, <1>2, <1>6, <2>1 DEF FramesInv
      <3>3. Newer(pc, snap, s, snap[h].rev) => Newer(pc', snap', s, snap[h].rev)
        BY <1>1, <1>5 DEF Newer
      <3> QED
        BY <3>1, <3>2, <3>3
    <2>2. CASE ~(Id(h) = s /\ snap[h].rev > shown[s].rev)
      <3>1. shown'[s] = shown[s]
        BY <1>1, <1>2, <1>3, <2>2
      <3>2. shown[s].votes = votes[s] \/ Newer(pc, snap, s, shown[s].rev)
        BY <1>6 DEF FramesInv
      <3>3. Newer(pc, snap, s, shown[s].rev) => Newer(pc', snap', s, shown[s].rev)
        BY <1>0, <1>1, <1>2, <1>6, <2>2, StillNewer
      <3> QED
        BY <3>1, <3>2, <3>3
    <2> QED
      BY <2>1, <2>2
  <1>7. ASSUME NEW g \in Handlers, pc'[g] = "send", snap'[g].id \notin faulty
        PROVE  \/ counts'[g] = votes[snap'[g].id]
               \/ Newer(pc', snap', snap'[g].id, snap'[g].rev)
               \/ shown'[snap'[g].id].rev > snap'[g].rev
    <2>1. pc[g] = "send" /\ snap'[g] = snap[g] /\ counts'[g] = counts[g]
      BY <1>1, <1>5, <1>7
    <2>2. snap[g].id \in Ids /\ snap[g].rev \in Nat /\ snap[g].rev <= rev[snap[g].id]
      BY <2>1 DEF TypeOK, SessionsInv, Holding, At, Id
    <2>3. \/ counts[g] = votes[snap[g].id]
          \/ Newer(pc, snap, snap[g].id, snap[g].rev)
          \/ shown[snap[g].id].rev > snap[g].rev
      BY <1>7, <2>1 DEF FramesInv, Id
    <2>4. CASE Newer(pc, snap, snap[g].id, snap[g].rev)
      <3>1. \/ Newer(pc', snap', snap[g].id, snap[g].rev)
            \/ Id(h) = snap[g].id /\ snap[h].rev > snap[g].rev
        BY <1>0, <1>1, <1>7, <2>1, <2>2, <2>4, StillNewer
      <3>2. CASE Id(h) = snap[g].id /\ snap[h].rev > snap[g].rev
        BY <1>1, <1>2, <1>3, <2>1, <2>2, <3>2
      <3> QED
        BY <2>1, <3>1, <3>2
    <2>5. CASE shown[snap[g].id].rev > snap[g].rev
      <3>1. shown'[snap[g].id].rev > snap[g].rev
        BY <1>2, <1>4, <2>2, <2>5
      <3> QED
        BY <2>1, <3>1
    <2> QED
      BY <2>1, <2>3, <2>4, <2>5
  <1> QED
    BY <1>1, <1>4, <1>6, <1>7 DEF FramesInv, Id

\* A step that sends nothing: a vote makes frames stale and comes with a bump.
LEMMA FramesUnderOthers ==
  ASSUME TypeOK, TypeOK', SessionsInv, FramesInv, NEW h \in Handlers,
         Request(h) \/ Step(h), ~Send(h)
  PROVE  FramesInv'
  <1>1. /\ faulty \subseteq faulty' /\ shown' = shown
        /\ InsertVote(h) \/ votes' = votes
    BY VoteWrites
  <1>2. \A s \in Ids : /\ rev[s] \in Nat /\ rev'[s] \in Nat /\ rev'[s] >= rev[s]
                       /\ shown[s].rev \in Nat /\ shown[s].rev <= rev[s]
    BY RevGrows DEF TypeOK, FramesInv
  <1>3. \A s \in Ids : s \notin faulty' => \A n \in Nat :
           n <= rev[s] /\ Newer(pc, snap, s, n) => Newer(pc', snap', s, n)
    BY StillNewer
  <1>4. ASSUME NEW s \in Ids, NEW n
        PROVE  votes'[s] = votes[s] \/ Newer(pc', snap', s, n)
    <2>1. CASE InsertVote(h) /\ Id(h) = s
      <3>1. pc'[h] = "bump" /\ snap'[h].id = s
        BY <2>1 DEF InsertVote, Goto, TypeOK, Id
      <3> QED
        BY <3>1 DEF Newer
    <2>2. CASE InsertVote(h) /\ Id(h) # s
      BY <2>2 DEF InsertVote, TypeOK
    <2> QED
      BY <1>1, <2>1, <2>2
  <1>5. ASSUME NEW s \in Ids, s \notin faulty'
        PROVE  shown'[s].votes = votes'[s] \/ Newer(pc', snap', s, shown'[s].rev)
    <2>1. shown[s].votes = votes[s] \/ Newer(pc, snap, s, shown[s].rev)
      BY <1>1, <1>5 DEF FramesInv
    <2> QED
      BY <1>1, <1>2, <1>3, <1>4, <1>5, <2>1
  <1>6. ASSUME NEW g \in Handlers, pc'[g] = "send", snap'[g].id \notin faulty'
        PROVE  \/ counts'[g] = votes'[snap'[g].id]
               \/ Newer(pc', snap', snap'[g].id, snap'[g].rev)
               \/ shown'[snap'[g].id].rev > snap'[g].rev
    <2>1. CASE g = h
      <3>1. Tally(h)
        BY <1>6, <2>1, VoteWrites
      <3> QED
        BY <2>1, <3>1 DEF Tally, TypeOK, Id, rowVars
    <2>2. CASE g # h
      <3>1. pc[g] = "send" /\ snap'[g] = snap[g] /\ counts'[g] = counts[g]
        BY <1>6, <2>2, OtherHandlersStay
      <3>2. snap[g].id \in Ids /\ snap[g].rev \in Nat /\ snap[g].rev <= rev[snap[g].id]
        BY <3>1 DEF TypeOK, SessionsInv, Holding, At, Id
      <3>3. \/ counts[g] = votes[snap[g].id]
            \/ Newer(pc, snap, snap[g].id, snap[g].rev)
            \/ shown[snap[g].id].rev > snap[g].rev
        BY <1>1, <1>6, <3>1 DEF FramesInv, Id
      <3>4. Newer(pc, snap, snap[g].id, snap[g].rev)
              => Newer(pc', snap', snap[g].id, snap[g].rev)
        BY <1>3, <1>6, <3>1, <3>2
      <3> QED
        BY <1>1, <1>4, <3>1, <3>2, <3>3, <3>4
    <2> QED
      BY <2>1, <2>2
  <1>7. \A s \in Ids : shown'[s].rev <= rev'[s]
    BY <1>1, <1>2
  <1> QED
    BY <1>5, <1>6, <1>7 DEF FramesInv, Id

\* What the clients keep is exact or superseded after every step.
LEMMA FramesStep == TypeOK /\ SessionsInv /\ FramesInv /\ [Next]_vars => FramesInv'
  <1> SUFFICES ASSUME TypeOK, SessionsInv, FramesInv, [Next]_vars PROVE FramesInv'
    OBVIOUS
  <1>1. CASE Deadline \/ UNCHANGED vars
    <2>1. UNCHANGED <<rev, votes, pc, snap, counts, shown, faulty>>
      BY <1>1 DEF Deadline, vars, rowVars, taskVars, faultVars
    <2> QED
      BY <2>1 DEF FramesInv, Id
  <1>2. ASSUME NEW h \in Handlers, Request(h) \/ Step(h)
        PROVE  FramesInv'
    BY <1>2, FramesUnderSend, FramesUnderOthers, VotingTypeStep
  <1> QED
    BY <1>1, <1>2 DEF Next

-----------------------------------------------------------------------------
(* The end of a session *)

\* The newest revision of session s belongs to its end: whoever holds that
\* revision holds the ended row, and it is shown or on its way.
EndKept(s) ==
  /\ \A h \in Handlers :
       pc[h] \in Holding /\ Id(h) = s /\ snap[h].rev = rev[s] => snap[h].status = "ended"
  /\ shown[s].rev = rev[s] => shown[s].status = "ended"
  /\ \/ shown[s].rev = rev[s]
     \/ \E g \in Handlers : pc[g] \in {"tally", "send"} /\ Id(g) = s /\ snap[g].rev = rev[s]

EndsInv ==
  \A s \in Ids \ (faulty \cup outdated) : status[s] = "ended" => EndKept(s)

\* Sessions stay marked, and a start or a late bump marks the session it ends
\* or finds ended.
LEMMA OutdatedGrows ==
  ASSUME TypeOK, NEW h \in Handlers, Request(h) \/ Step(h)
  PROVE  /\ outdated \subseteq outdated'
         /\ (\E u \in Users : StartVoting(h, u)) => Active \subseteq outdated'
         /\ BumpRev(h) /\ status[Id(h)] = "ended" => Id(h) \in outdated'
  <1>1. ASSUME NEW u \in Users, NEW where, Load(h, u, where)
        PROVE  UNCHANGED outdated
    BY <1>1 DEF Load, faultVars
  <1>2. ASSUME NEW u \in Users, StartVoting(h, u)
        PROVE  outdated' = outdated \cup Active
    BY <1>2 DEF StartVoting
  <1>3. ASSUME \/ InsertSession(h) \/ InsertConflict(h) \/ AutoJoin(h) \/ SetParticipation(h)
               \/ CheckJoined(h) \/ NotJoined(h) \/ CheckBudget(h) \/ NoVotesLeft(h)
               \/ InsertVote(h) \/ SetFinished(h) \/ EndSession(h) \/ Tally(h) \/ Send(h)
        PROVE  UNCHANGED outdated
    BY <1>3
    DEF InsertSession, InsertConflict, AutoJoin, SetParticipation, CheckJoined, NotJoined,
        CheckBudget, NoVotesLeft, InsertVote, SetFinished, EndSession, Tally, Send, faultVars
  <1>4. ASSUME CountFails(h) \/ BumpFails(h) \/ Drop(h)
        PROVE  UNCHANGED outdated
    BY <1>4 DEF CountFails, BumpFails, Drop, Fault
  <1>5. ASSUME BumpRev(h)
        PROVE  outdated' = IF status[Id(h)] = "ended" THEN outdated \cup {Id(h)} ELSE outdated
    BY <1>5 DEF BumpRev
  <1>6. outdated \subseteq outdated'
    BY <1>1, <1>2, <1>3, <1>4, <1>5
    DEF Request, Step, AskToJoin, AskToVote, AskToFinish, AskToEnd
  <1> QED
    BY <1>2, <1>5, <1>6

\* end_session takes the newest revision and will send it.
LEMMA EndTakesNewest ==
  ASSUME TypeOK, SessionsInv, FramesInv, NEW h \in Handlers, EndSession(h)
  PROVE  EndKept(Id(h))'
  <1> DEFINE s == Id(h)
  <1>0. /\ s \in Ids /\ rev[s] \in Nat /\ Step(h)
        /\ shown[s].rev \in Nat /\ shown[s].rev <= rev[s]
    BY DEF EndSession, TypeOK, FramesInv, Step
  <1>1. /\ rev'[s] = rev[s] + 1 /\ shown' = shown /\ pc'[h] = "tally"
        /\ snap'[h] = [id |-> s, status |-> "ended", rev |-> rev[s] + 1]
    BY <1>0 DEF EndSession, Goto, TypeOK
  <1>2. ASSUME NEW g \in Handlers, g # h, pc'[g] \in Holding, snap'[g].id = s
        PROVE  snap'[g].rev # rev'[s]
    <2>1. pc[g] \in Holding /\ snap'[g] = snap[g]
      BY <1>0, <1>2, OtherHandlersStay
    <2>2. snap[g].rev \in Nat /\ snap[g].rev <= rev[s]
      BY <1>2, <2>1 DEF TypeOK, SessionsInv, Id
    <2> QED
      BY <1>0, <1>1, <2>1, <2>2
  <1> HIDE DEF s
  <1>3. snap'[h].id = s /\ snap'[h].status = "ended" /\ snap'[h].rev = rev'[s]
    BY <1>1
  <1>4. shown'[s].rev # rev'[s]
    BY <1>0, <1>1
  <1>5. /\ \A g \in Handlers : pc'[g] \in Holding /\ snap'[g].id = s /\ snap'[g].rev = rev'[s]
             => snap'[g].status = "ended"
        /\ \E g \in Handlers : /\ pc'[g] \in {"tally", "send"}
                                /\ snap'[g].id = s /\ snap'[g].rev = rev'[s]
    BY <1>1, <1>2, <1>3
  <1>6. s = Id(h)'
    BY <1>3 DEF Id
  <1> QED
    BY <1>4, <1>5, <1>6 DEF EndKept, Id

\* An ended session whose revision does not move keeps its end.
LEMMA EndIsKept ==
  ASSUME TypeOK, SessionsInv, FramesInv, NEW h \in Handlers, Request(h) \/ Step(h),
         NEW s \in Ids, s \notin faulty', status[s] = "ended", EndKept(s),
         status'[s] = "ended", rev'[s] = rev[s]
  PROVE  EndKept(s)'
  <1>0. /\ rev[s] \in Nat /\ shown[s].rev \in Nat /\ shown[s].rev <= rev[s]
        /\ rev \in [Ids -> Nat] /\ made \in Nat
    BY VotingAssumption DEF TypeOK, FramesInv
  <1>1. \A g \in Handlers : g # h => pc'[g] = pc[g] /\ snap'[g] = snap[g]
    BY OtherHandlersStay
  <1>2. ASSUME pc'[h] \in Holding, snap'[h].id = s
        PROVE  pc[h] \in Holding /\ snap'[h] = snap[h]
    <2>1. ~InsertSession(h)
      <3>1. ASSUME InsertSession(h)
            PROVE  FALSE
        <4>1. s = made + 1 /\ status' = [status EXCEPT ![made + 1] = "active"]
          BY <1>2, <3>1 DEF InsertSession, TypeOK
        <4> QED
          BY <4>1 DEF TypeOK
      <3> QED
        BY <3>1
    <2>2. ~EndSession(h) /\ ~BumpRev(h)
      <3>1. ASSUME EndSession(h) \/ BumpRev(h)
            PROVE  FALSE
        <4>1. /\ rev' = [rev EXCEPT ![Id(h)] = rev[Id(h)] + 1]
              /\ snap'[h].id = Id(h)
          BY <3>1 DEF EndSession, BumpRev, TypeOK, Id
        <4> QED
          BY <1>0, <1>2, <4>1
      <3> QED
        BY <3>1
    <2>3. s \notin Active
      BY DEF Active
    <2> QED
      BY <1>2, <2>1, <2>2, <2>3, SessionWrites DEF Holding
  <1>3. ASSUME NEW g \in Handlers, pc'[g] \in Holding, snap'[g].id = s, snap'[g].rev = rev[s]
        PROVE  snap'[g].status = "ended"
    <2>1. pc[g] \in Holding /\ snap'[g] = snap[g]
      BY <1>1, <1>2, <1>3
    <2> QED
      BY <1>3, <2>1 DEF EndKept, Id
  <1>4. CASE Send(h) /\ Id(h) = s
    <2>1. /\ pc[h] = "send" /\ snap[h].rev \in Nat /\ snap[h].rev <= rev[s]
          /\ pc[h] \in Holding
      BY <1>4 DEF Send, TypeOK, SessionsInv, Holding, At, Id
    <2>2. /\ shown'[s].rev = IF snap[h].rev > shown[s].rev THEN snap[h].rev ELSE shown[s].rev
          /\ shown'[s].status = IF snap[h].rev > shown[s].rev THEN snap[h].status
                                                             ELSE shown[s].status
      BY <1>4 DEF Send, TypeOK
    <2>3. shown'[s].rev = rev[s] => shown'[s].status = "ended"
      <3>1. snap[h].rev = rev[s] => snap[h].status = "ended"
        BY <1>4, <2>1 DEF EndKept
      <3> QED
        BY <1>0, <2>1, <2>2, <3>1 DEF EndKept
    <2>4. \/ shown'[s].rev = rev[s]
          \/ \E g \in Handlers : /\ pc'[g] \in {"tally", "send"}
                                  /\ snap'[g].id = s /\ snap'[g].rev = rev[s]
      <3>1. CASE shown[s].rev = rev[s]
        BY <1>0, <2>1, <2>2, <3>1
      <3>2. CASE snap[h].rev = rev[s]
        BY <1>0, <2>1, <2>2, <3>2
      <3>3. CASE \E g \in Handlers : /\ g # h /\ pc[g] \in {"tally", "send"}
                                     /\ Id(g) = s /\ snap[g].rev = rev[s]
        BY <1>1, <3>3 DEF Id
      <3> QED
        BY <3>1, <3>2, <3>3 DEF EndKept
    <2> QED
      BY <1>3, <2>3, <2>4 DEF EndKept, Id
  <1>5. CASE ~(Send(h) /\ Id(h) = s)
    <2>1. shown'[s] = shown[s]
      <3>1. CASE Send(h) /\ Id(h) # s
        BY <3>1 DEF Send, TypeOK
      <3> QED
        BY <1>5, <3>1, VoteWrites
    <2>2. ASSUME NEW g \in Handlers, pc[g] \in {"tally", "send"}, Id(g) = s,
                 snap[g].rev = rev[s]
          PROVE  pc'[g] \in {"tally", "send"} /\ snap'[g] = snap[g]
      <3>1. CASE g # h
        BY <1>1, <2>2, <3>1
      <3>2. CASE g = h
        <4>1. Tally(h)
          BY <1>5, <2>2, <3>2, VoteWrites
        <4> QED
          BY <3>2, <4>1 DEF Tally, TypeOK
      <3> QED
        BY <3>1, <3>2
    <2> QED
      BY <1>3, <2>1, <2>2 DEF EndKept, Id
  <1> QED
    BY <1>4, <1>5

\* The end of a session stays the newest, whatever the handlers still send.
LEMMA EndsStep ==
  TypeOK /\ SessionsInv /\ FramesInv /\ EndsInv /\ [Next]_vars => EndsInv'
  <1> SUFFICES ASSUME TypeOK, SessionsInv, FramesInv, EndsInv, [Next]_vars,
                      NEW s \in Ids, s \notin faulty', s \notin outdated', status'[s] = "ended"
               PROVE  EndKept(s)'
    BY DEF EndsInv
  <1>1. CASE Deadline \/ UNCHANGED vars
    <2>1. UNCHANGED <<rev, status, pc, snap, shown, faulty, outdated>>
      BY <1>1 DEF Deadline, vars, rowVars, taskVars, faultVars
    <2> QED
      BY <2>1 DEF EndsInv, EndKept, Id
  <1>2. ASSUME NEW h \in Handlers, Request(h) \/ Step(h)
        PROVE  EndKept(s)'
    <2>0. s \notin faulty /\ s \notin outdated /\ made \in Nat
      BY <1>2, VoteWrites, OutdatedGrows, VotingAssumption DEF TypeOK
    <2>1. CASE status'[s] = status[s] /\ rev'[s] = rev[s]
      BY <1>2, <2>0, <2>1, EndIsKept DEF EndsInv
    <2>2. CASE EndSession(h)
      <3>1. CASE Id(h) = s
        <4>1. Id(h)' = s
          BY <2>2, <3>1 DEF EndSession, Id, TypeOK
        <4> QED
          BY <2>2, <3>1, <4>1, EndTakesNewest
      <3>2. CASE Id(h) # s
        BY <2>1, <2>2, <3>2 DEF EndSession, TypeOK
      <3> QED
        BY <3>1, <3>2
    <2>3. CASE BumpRev(h)
      <3>1. status' = status /\ rev' = [rev EXCEPT ![Id(h)] = rev[Id(h)] + 1]
        BY <2>3 DEF BumpRev
      <3>2. Id(h) # s
        BY <1>2, <2>3, <3>1, OutdatedGrows
      <3> QED
        BY <2>1, <3>1, <3>2 DEF TypeOK
    <2>4. CASE \E u \in Users : StartVoting(h, u)
      <3>1. s \notin Active
        BY <1>2, <2>4, OutdatedGrows
      <3>2. status'[s] = status[s] /\ rev'[s] = rev[s]
        BY <2>4, <3>1 DEF StartVoting
      <3> QED
        BY <2>1, <3>2
    <2>5. CASE InsertSession(h)
      <3>1. /\ status' = [status EXCEPT ![made + 1] = "active"]
            /\ rev' = [rev EXCEPT ![made + 1] = 1]
        BY <2>5 DEF InsertSession
      <3>2. s # made + 1
        BY <3>1 DEF TypeOK
      <3> QED
        BY <2>1, <3>1, <3>2 DEF TypeOK
    <2> QED
      BY <1>2, <2>1, <2>2, <2>3, <2>4, <2>5, SessionWrites
  <1> QED
    BY <1>1, <1>2 DEF Next

-----------------------------------------------------------------------------
(* Theorems *)

\* The inductive invariant of the voting sessions.
VotingInv == TypeOK /\ SessionsInv /\ BudgetInv /\ FramesInv /\ EndsInv

\* It holds of every reachable state.
LEMMA VotingInvariance == Spec => []VotingInv
  <1>1. Init => VotingInv
    <2> SUFFICES ASSUME Init PROVE VotingInv
      OBVIOUS
    <2>1. TypeOK /\ SessionsInv
      BY VotingInit
    <2>2. BudgetInv
      <3>1. \A s \in Ids, u \in Users : Pending(s, u) = {} /\ votes[s][u] = 0
        BY DEF Init, Pending, NoVotes
      <3>2. Cardinality({}) = 0 /\ Budget \in Nat \ {0} /\ Cardinality(Handlers) \in Nat
        BY PendingCount, FS_EmptySet, VotingAssumption
      <3> QED
        <4>1. faults = 0
          BY DEF Init
        <4>2. 0 + 0 < Budget + Cardinality(Handlers) + 0
          BY <3>2
        <4> QED
          BY <3>1, <3>2, <4>1, <4>2 DEF BudgetInv
    <2>3. FramesInv /\ EndsInv
      BY DEF Init, FramesInv, EndsInv, NoFrame
    <2> QED
      BY <2>1, <2>2, <2>3 DEF VotingInv
  <1>2. VotingInv /\ [Next]_vars => VotingInv'
    BY VotingTypeStep, SessionsStep, BudgetStep, FramesStep, EndsStep DEF VotingInv
  <1> QED
    BY <1>1, <1>2, PTL DEF Spec

\* Rows, handlers and frames of the voting handlers keep their types.
THEOREM VotingTypeCorrectness == Spec => []TypeOK
  <1>1. VotingInv => TypeOK
    BY DEF VotingInv
  <1> QED
    BY <1>1, VotingInvariance, PTL

\* However many starts race, create_session and the partial unique index leave
\* one active session at most.
THEOREM SessionsDoNotOverlap == Spec => []OneActiveSession
  <1>1. VotingInv => OneActiveSession
    <2> SUFFICES ASSUME VotingInv PROVE Cardinality(Active) <= 1
      BY DEF OneActiveSession
    <2>1. CASE Active = {}
      BY <2>1, FS_EmptySet
    <2>2. ASSUME NEW s \in Active
          PROVE  Cardinality(Active) <= 1
      <3>1. Active = {s}
        BY <2>2 DEF VotingInv, SessionsInv, Active
      <3>2. Cardinality({s}) = 1
        BY FS_Singleton
      <3> QED
        BY <3>1, <3>2
    <2> QED
      BY <2>1, <2>2
  <1> QED
    BY <1>1, VotingInvariance, PTL

\* The check and the insert of cast_vote_handler let a participant overrun the
\* budget by fewer votes than requests can be in progress, and one more for every
\* count that fails.
THEOREM BudgetOverrunIsBounded == Spec => []OverrunBounded
  <1>1. VotingInv => OverrunBounded
    <2> SUFFICES ASSUME VotingInv, NEW s \in Ids, NEW u \in Users
                 PROVE  votes[s][u] < Budget + Cardinality(Handlers) + faults
      BY DEF OverrunBounded
    <2>1. /\ votes[s][u] \in Nat
          /\ votes[s][u] + Cardinality(Pending(s, u)) < Budget + Cardinality(Handlers) + faults
      BY DEF VotingInv, TypeOK, BudgetInv
    <2>2. Cardinality(Pending(s, u)) \in Nat
      BY PendingCount DEF Pending
    <2>3. Budget \in Nat /\ Cardinality(Handlers) \in Nat /\ faults \in Nat
      BY PendingCount, VotingAssumption DEF VotingInv, TypeOK
    <2> QED
      BY <2>1, <2>2, <2>3
  <1> QED
    BY <1>1, VotingInvariance, PTL

\* Handlers that bump, tally and broadcast in any order leave the clients with
\* the final tally.
THEOREM ClientsEndExact == Spec => []ShownTallyExact
  <1>1. VotingInv => ShownTallyExact
    BY DEF VotingInv, FramesInv, Newer, ShownTallyExact
  <1> QED
    BY <1>1, VotingInvariance, PTL

\* Once end_voting_handler has ended a session, the clients end up showing it
\* ended, although handlers that loaded it active are still sending, unless one
\* of them bumped the revision after the end or a start replaced the session.
THEOREM EndsAreShown == Spec => []ShownEndStays
  <1>1. VotingInv => ShownEndStays
    BY DEF VotingInv, EndsInv, EndKept, ShownEndStays
  <1> QED
    BY <1>1, VotingInvariance, PTL

-----------------------------------------------------------------------------
(* Presence *)

\* A socket whose handler has entered its session and not yet begun to take it out,
\* and one that is gone or going.
Here(c) == conn[c] \in {"touch", "build", "tell", "live", "held"}
Gone(c) == conn[c] \in {"leaving", "telling", "closed", "dead"}

Lists == {"nobody", "user"}
Sweeps ==
  [pc : {"idle", "look", "srem", "tell"}, left : SUBSET Sessions,
   stale : SUBSET Sessions, young : SUBSET Sockets, removed : BOOLEAN, list : Lists]

PresenceTypes ==
  /\ conn \in [Sockets -> {"off", "touch", "build", "tell", "live", "held", "leaving",
                           "telling", "closed", "dead"}]
  /\ list \in [Sockets -> Lists]
  /\ sweep \in [Processes -> Sweeps]
  /\ told \in [Processes -> Lists \cup {"missed"}]
  /\ entered \subseteq Sessions
  /\ sessionOf \in [Sockets -> Sessions] /\ process \in [Sockets -> Processes]

\* A socket that is not yet excused has its session in the set, and its heartbeat
\* once it is past the first; a session a job is about to take out belongs to
\* sockets that will be excused, are, or are gone.
HereInv ==
  /\ \A c \in Sockets : Here(c) => sessionOf[c] \in entered \/ c \in raced
  /\ \A c \in Sockets : PresenceSessions!Connected(c) => sessionOf[c] \in beats \/ c \in raced
  /\ \A p \in Processes : sweep[p].pc = "srem" =>
       \A c \in Sockets : sessionOf[c] \in sweep[p].stale => c \in sweep[p].young \/ c \in raced \/ Gone(c)

\* Somebody in process p will still broadcast.
Sayers(p) == {c \in Sockets : process[c] = p /\ conn[c] \in {"touch", "build", "tell", "leaving", "telling"}}
Telling(p) ==
  \/ Sayers(p) # {}
  \/ sweep[p].pc \in {"look", "srem"} /\ sweep[p].removed
  \/ sweep[p].pc = "tell"

\* What process p broadcast last is right, or known not to be, unless somebody in it
\* will broadcast.
Fine(p) == told[p] \in {PresenceSessions!Present, "missed"} \/ Telling(p)
ToldInv == \A p \in Processes : Fine(p)

PresenceInv == PresenceTypes /\ HereInv /\ ToldInv

-----------------------------------------------------------------------------
\* A job at rest.
LEMMA NoSweepRests ==
  /\ PresenceSessions!NoSweep.pc = "idle" /\ PresenceSessions!NoSweep.removed = FALSE
  /\ PresenceSessions!NoSweep \in Sweeps
  BY DEF PresenceSessions!NoSweep, Sweeps, Lists

\* A list that is read is one.
LEMMA PresentIsList == PresenceSessions!Present \in Lists /\ PresenceSessions!Present' \in Lists
  BY DEF PresenceSessions!Present, Lists

\* Nobody is there at the start.
LEMMA PresenceInit == PresenceSessions!Init => PresenceInv
  <1> SUFFICES ASSUME PresenceSessions!Init PROVE PresenceInv
    OBVIOUS
  <1>1. PresenceTypes
    BY NoSweepRests DEF PresenceSessions!Init, PresenceTypes, Lists
  <1>2. HereInv
    BY NoSweepRests DEF PresenceSessions!Init, HereInv, Here, PresenceSessions!Connected
  <1>3. ToldInv
    BY DEF PresenceSessions!Init, PresenceSessions!Present, ToldInv, Fine
  <1> QED
    BY <1>1, <1>2, <1>3 DEF PresenceInv

\* What is written to the list broadcast last is a list, or that none was.
LEMMA ToldTypes ==
  ASSUME PresenceTypes
  PROVE  /\ \A S : PresenceSessions!Miss(S) => told' \in [Processes -> Lists \cup {"missed"}]
         /\ \A p, l : l \in Lists /\ PresenceSessions!Broadcast(p, l) =>
              told' \in [Processes -> Lists \cup {"missed"}]
         /\ \A p : PresenceSessions!Unheard(p) => told' \in [Processes -> Lists \cup {"missed"}]
  <1>1. ASSUME NEW S, PresenceSessions!Miss(S) PROVE told' \in [Processes -> Lists \cup {"missed"}]
    BY <1>1 DEF PresenceTypes, PresenceSessions!Miss
  <1>2. ASSUME NEW p, NEW l \in Lists, PresenceSessions!Broadcast(p, l)
        PROVE  told' \in [Processes -> Lists \cup {"missed"}]
    BY <1>2 DEF PresenceTypes, PresenceSessions!Broadcast
  <1> QED
    BY <1>1, <1>2 DEF PresenceSessions!Unheard

\* The records a pass of the job of process p goes through.
LEMMA SweepSteps ==
  ASSUME PresenceTypes, NEW p \in Processes, NEW s \in Sessions
  PROVE  /\ sweep[p] \in Sweeps
         /\ LET r == [PresenceSessions!NoSweep EXCEPT !.pc = "look", !.left = entered]
            IN  r \in Sweeps /\ r.pc = "look" /\ r.removed = FALSE
         /\ LET r == [sweep[p] EXCEPT !.left = @ \ {s}]
            IN  r \in Sweeps /\ r.pc = sweep[p].pc /\ r.removed = sweep[p].removed
         /\ LET r == PresenceSessions!Condemn(sweep[p], s)
            IN  /\ r \in Sweeps /\ r.pc = "srem" /\ r.removed = sweep[p].removed
                /\ r.stale = {s} /\ r.young = PresenceSessions!Young(s)
  <1>1. sweep[p] \in Sweeps
    BY DEF PresenceTypes
  <1>2. PresenceSessions!Young(s) \in SUBSET Sockets
    BY DEF PresenceSessions!Young
  <1>3. entered \in SUBSET Sessions
    BY DEF PresenceTypes
  <1>4. LET r == [PresenceSessions!NoSweep EXCEPT !.pc = "look", !.left = entered]
        IN  r \in Sweeps /\ r.pc = "look" /\ r.removed = FALSE
    BY <1>3 DEF PresenceSessions!NoSweep, Sweeps, Lists
  <1>5. LET r == [sweep[p] EXCEPT !.left = @ \ {s}]
        IN  r \in Sweeps /\ r.pc = sweep[p].pc /\ r.removed = sweep[p].removed
    BY <1>1 DEF Sweeps
  <1>6. LET r == PresenceSessions!Condemn(sweep[p], s)
        IN  /\ r \in Sweeps /\ r.pc = "srem" /\ r.removed = sweep[p].removed
            /\ r.stale = {s} /\ r.young = PresenceSessions!Young(s)
    <2> DEFINE y == PresenceSessions!Young(s)
    <2>1. y \in SUBSET Sockets
      BY <1>2
    <2> HIDE DEF y
    <2>2. LET r == [sweep[p] EXCEPT !.pc = "srem", !.left = @ \ {s}, !.stale = {s}, !.young = y]
          IN  /\ r \in Sweeps /\ r.pc = "srem" /\ r.removed = sweep[p].removed
              /\ r.stale = {s} /\ r.young = y
      BY <1>1, <2>1 DEF Sweeps
    <2> QED
      BY <2>2 DEF y, PresenceSessions!Condemn
  <1> QED
    BY <1>1, <1>4, <1>5, <1>6

\* The same for the second half of a pass.
LEMMA SweepEnds ==
  ASSUME PresenceTypes, NEW p \in Processes
  PROVE  /\ LET r == [sweep[p] EXCEPT !.pc = "look", !.stale = {}, !.young = {}, !.removed = TRUE]
            IN  r \in Sweeps /\ r.pc = "look" /\ r.removed = TRUE
         /\ LET r == [sweep[p] EXCEPT !.pc = "tell", !.list = PresenceSessions!Present]
            IN  r \in Sweeps /\ r.pc = "tell"
  <1>1. sweep[p] \in Sweeps
    BY DEF PresenceTypes
  <1> DEFINE l == PresenceSessions!Present
  <1>2. l \in Lists
    BY PresentIsList
  <1> HIDE DEF l
  <1>3. LET r == [sweep[p] EXCEPT !.pc = "look", !.stale = {}, !.young = {}, !.removed = TRUE]
        IN  r \in Sweeps /\ r.pc = "look" /\ r.removed = TRUE
    BY <1>1 DEF Sweeps
  <1>4. LET r == [sweep[p] EXCEPT !.pc = "tell", !.list = l]
        IN  r \in Sweeps /\ r.pc = "tell"
    BY <1>1, <1>2 DEF Sweeps
  <1> QED
    BY <1>3, <1>4 DEF l

\* A step of a socket stays in the types.
LEMMA SocketTypes ==
  ASSUME PresenceTypes, UNCHANGED <<sessionOf, process>>, NEW c \in Sockets,
         \/ PresenceSessions!AddSession(c) \/ PresenceSessions!FirstTouch(c)
         \/ PresenceSessions!Build(c) \/ PresenceSessions!Tell(c) \/ PresenceSessions!Heartbeat(c)
         \/ PresenceSessions!Hold(c) \/ PresenceSessions!Release(c)
         \/ PresenceSessions!RemoveSession(c)
  PROVE  PresenceTypes'
  <1> USE DEF PresenceSessions!Goto
  <1>1. entered' \subseteq Sessions
    BY DEF PresenceTypes, PresenceSessions!AddSession, PresenceSessions!FirstTouch, PresenceSessions!Build,
           PresenceSessions!Tell, PresenceSessions!Heartbeat, PresenceSessions!Hold,
           PresenceSessions!Release, PresenceSessions!RemoveSession, PresenceSessions!TakeOut
  <1>2. sweep' = sweep
    BY DEF PresenceSessions!AddSession, PresenceSessions!FirstTouch, PresenceSessions!Build,
           PresenceSessions!Tell, PresenceSessions!Heartbeat, PresenceSessions!Hold,
           PresenceSessions!Release, PresenceSessions!RemoveSession, PresenceSessions!jobVars
  <1>3. conn' \in [Sockets -> {"off", "touch", "build", "tell", "live", "held", "leaving",
                               "telling", "closed", "dead"}]
    BY DEF PresenceTypes, PresenceSessions!AddSession, PresenceSessions!FirstTouch, PresenceSessions!Build,
           PresenceSessions!Tell, PresenceSessions!Heartbeat, PresenceSessions!Hold,
           PresenceSessions!Release, PresenceSessions!RemoveSession
  <1>4. list' \in [Sockets -> Lists]
    <2>1. CASE list' = list
      BY <2>1 DEF PresenceTypes
    <2>2. CASE list' = [list EXCEPT ![c] = PresenceSessions!Present]
      BY <2>2, PresentIsList DEF PresenceTypes
    <2>3. CASE list' = [list EXCEPT ![c] = "nobody"]
      BY <2>3 DEF PresenceTypes, Lists
    <2> QED
      BY <2>1, <2>2, <2>3
      DEF PresenceSessions!AddSession, PresenceSessions!FirstTouch, PresenceSessions!Build,
          PresenceSessions!Tell, PresenceSessions!Heartbeat, PresenceSessions!Hold,
          PresenceSessions!Release, PresenceSessions!RemoveSession
  <1>5. told' \in [Processes -> Lists \cup {"missed"}]
    <2>1. CASE told' = told
      BY <2>1 DEF PresenceTypes
    <2>2. CASE PresenceSessions!Unheard(process[c])
      BY <2>2, ToldTypes
    <2>3. CASE PresenceSessions!Miss({process[c]})
      BY <2>3, ToldTypes
    <2>4. CASE PresenceSessions!Broadcast(process[c], list[c])
      <3>1. list[c] \in Lists
        BY DEF PresenceTypes
      <3> QED
        BY <2>4, <3>1, ToldTypes
    <2> QED
      BY <2>1, <2>2, <2>3, <2>4
      DEF PresenceSessions!AddSession, PresenceSessions!FirstTouch, PresenceSessions!Build,
          PresenceSessions!Tell, PresenceSessions!Heartbeat, PresenceSessions!Hold,
          PresenceSessions!Release, PresenceSessions!RemoveSession, PresenceSessions!jobVars
  <1> QED
    BY <1>1, <1>2, <1>3, <1>4, <1>5 DEF PresenceTypes

\* A step of a job stays in the types.
LEMMA SweepTypes ==
  ASSUME PresenceTypes, UNCHANGED <<sessionOf, process>>, NEW p \in Processes, PresenceSessions!Sweep(p)
  PROVE  PresenceTypes'
  <1>1. entered' \subseteq Sessions /\ UNCHANGED <<conn, list>>
    BY DEF PresenceTypes, PresenceSessions!Sweep, PresenceSessions!StartSweep, PresenceSessions!LookAt,
           PresenceSessions!RemoveStale, PresenceSessions!SweepBuild, PresenceSessions!SweepTell,
           PresenceSessions!GiveUp, PresenceSessions!TakeOut
  <1>2. told' \in [Processes -> Lists \cup {"missed"}]
    <2>1. CASE told' = told
      BY <2>1 DEF PresenceTypes
    <2>2. CASE PresenceSessions!Unheard(p)
      BY <2>2, ToldTypes
    <2>3. CASE PresenceSessions!GiveUp(p)
      BY <2>3, ToldTypes DEF PresenceSessions!GiveUp
    <2>4. CASE PresenceSessions!Broadcast(p, sweep[p].list)
      <3>1. sweep[p].list \in Lists
        BY DEF PresenceTypes, Sweeps
      <3> QED
        BY <2>4, <3>1, ToldTypes
    <2> QED
      BY <2>1, <2>2, <2>3, <2>4
      DEF PresenceSessions!Sweep, PresenceSessions!StartSweep, PresenceSessions!LookAt,
          PresenceSessions!RemoveStale, PresenceSessions!SweepBuild, PresenceSessions!SweepTell
  <1>3. sweep' \in [Processes -> Sweeps]
    <2>1. ASSUME NEW r \in Sweeps, sweep' = [sweep EXCEPT ![p] = r] PROVE sweep' \in [Processes -> Sweeps]
      BY <2>1 DEF PresenceTypes
    <2>2. CASE PresenceSessions!StartSweep(p)
      <3>1. PICK s : s \in Sessions
        BY <2>2 DEF PresenceSessions!StartSweep, PresenceTypes
      <3> QED
        BY <2>1, <2>2, <3>1, SweepSteps DEF PresenceSessions!StartSweep
    <2>3. CASE \/ PresenceSessions!GiveUp(p) \/ PresenceSessions!SweepTell(p)
               \/ sweep' = [sweep EXCEPT ![p] = PresenceSessions!NoSweep]
      BY <2>1, <2>3, NoSweepRests DEF PresenceSessions!GiveUp, PresenceSessions!SweepTell
    <2>4. ASSUME NEW s \in Sessions, PresenceSessions!LookAt(p, s) PROVE sweep' \in [Processes -> Sweeps]
      <3>1. CASE sweep' = [sweep EXCEPT ![p].left = @ \ {s}]
        <4>1. sweep' = [sweep EXCEPT ![p] = [sweep[p] EXCEPT !.left = @ \ {s}]]
          BY <3>1
        <4> QED
          BY <2>1, <4>1, SweepSteps
      <3>2. CASE sweep' = [sweep EXCEPT ![p] = PresenceSessions!Condemn(@, s)]
        BY <2>1, <3>2, SweepSteps
      <3> QED
        BY <2>3, <2>4, <3>1, <3>2 DEF PresenceSessions!LookAt
    <2>5. CASE PresenceSessions!RemoveStale(p)
      BY <2>1, <2>3, <2>5, SweepEnds DEF PresenceSessions!RemoveStale
    <2>6. CASE PresenceSessions!SweepBuild(p)
      BY <2>1, <2>3, <2>6, SweepEnds DEF PresenceSessions!SweepBuild
    <2> QED
      BY <2>2, <2>3, <2>4, <2>5, <2>6 DEF PresenceSessions!Sweep
  <1> QED
    BY <1>1, <1>2, <1>3 DEF PresenceTypes

\* Every step of a socket, of a process, of the expiries and of the jobs stays in the
\* types.
LEMMA PresenceTypesStep ==
  ASSUME PresenceTypes, PresenceSessions!Next
  PROVE  PresenceTypes'
  <1>0. UNCHANGED <<sessionOf, process>>
    BY DEF PresenceSessions!Next
  <1>1. ASSUME NEW s \in Sessions, PresenceSessions!HeartbeatExpires(s) \/ PresenceSessions!RenewalsFail(s)
        PROVE  PresenceTypes'
    BY <1>0, <1>1
    DEF PresenceTypes, PresenceSessions!HeartbeatExpires, PresenceSessions!RenewalsFail,
        PresenceSessions!BeatGone, PresenceSessions!jobVars
  <1>2. ASSUME PresenceSessions!SetExpires PROVE PresenceTypes'
    <2>1. told' \in [Processes -> Lists \cup {"missed"}]
      BY <1>2, ToldTypes DEF PresenceSessions!SetExpires
    <2> QED
      BY <1>0, <1>2, <2>1 DEF PresenceTypes, PresenceSessions!SetExpires
  <1>3. ASSUME NEW p \in Processes, PresenceSessions!Die(p) PROVE PresenceTypes'
    <2>1. told' \in [Processes -> Lists \cup {"missed"}]
      BY <1>3, ToldTypes DEF PresenceSessions!Die
    <2>2. sweep' \in [Processes -> Sweeps]
      BY <1>3, NoSweepRests DEF PresenceTypes, PresenceSessions!Die
    <2>3. list' \in [Sockets -> Lists] /\ UNCHANGED entered
      BY <1>3 DEF PresenceTypes, PresenceSessions!Die, Lists
    <2>4. conn' \in [Sockets -> {"off", "touch", "build", "tell", "live", "held", "leaving",
                                 "telling", "closed", "dead"}]
      BY <1>3 DEF PresenceTypes, PresenceSessions!Die
    <2> QED
      BY <1>0, <2>1, <2>2, <2>3, <2>4 DEF PresenceTypes
  <1> QED
    BY <1>0, <1>1, <1>2, <1>3, SocketTypes, SweepTypes DEF PresenceSessions!Next

\* Who takes an entry or a heartbeat away excuses the sockets that still need it.
LEMMA HereStep ==
  ASSUME PresenceTypes, HereInv, PresenceSessions!Next
  PROVE  HereInv'
  <1> USE DEF PresenceSessions!Connected, PresenceSessions!Open, Here, Gone
  <1>0. sessionOf' = sessionOf
    BY DEF PresenceSessions!Next
  <1> USE DEF PresenceTypes
  <1>1. ASSUME NEW c \in Sockets,
               \/ PresenceSessions!Heartbeat(c) \/ PresenceSessions!Build(c) \/ PresenceSessions!Tell(c)
               \/ PresenceSessions!Hold(c) \/ PresenceSessions!Release(c)
        PROVE  HereInv'
    BY <1>0, <1>1
    DEF HereInv, PresenceSessions!Heartbeat, PresenceSessions!Build, PresenceSessions!Tell,
        PresenceSessions!Hold, PresenceSessions!Release, PresenceSessions!Goto, PresenceSessions!jobVars
  <1>2. ASSUME NEW c \in Sockets, PresenceSessions!AddSession(c) PROVE HereInv'
    BY <1>0, <1>2 DEF HereInv, PresenceSessions!AddSession, PresenceSessions!Goto
  <1>3. ASSUME NEW c \in Sockets, PresenceSessions!FirstTouch(c) PROVE HereInv'
    BY <1>0, <1>3 DEF HereInv, PresenceSessions!FirstTouch, PresenceSessions!Goto, PresenceSessions!jobVars
  <1>4. ASSUME NEW c \in Sockets, PresenceSessions!RemoveSession(c) PROVE HereInv'
    BY <1>0, <1>4
    DEF HereInv, PresenceSessions!RemoveSession, PresenceSessions!Others, PresenceSessions!Goto,
        PresenceSessions!TakeOut
  <1>5. ASSUME NEW s \in Sessions, PresenceSessions!HeartbeatExpires(s) \/ PresenceSessions!RenewalsFail(s)
        PROVE  HereInv'
    BY <1>0, <1>5
    DEF HereInv, PresenceSessions!HeartbeatExpires, PresenceSessions!RenewalsFail,
        PresenceSessions!BeatGone, PresenceSessions!jobVars
  <1>6. ASSUME PresenceSessions!SetExpires PROVE HereInv'
    BY <1>0, <1>6 DEF HereInv, PresenceSessions!SetExpires
  <1>7. ASSUME NEW p \in Processes, PresenceSessions!Die(p) PROVE HereInv'
    <2>1. /\ UNCHANGED <<entered, beats>>
          /\ \A c \in Sockets : c \in PresenceSessions!Served(p) => conn'[c] = "dead"
          /\ \A c \in Sockets : c \notin PresenceSessions!Served(p) => conn'[c] = conn[c]
          /\ raced' = raced \ PresenceSessions!Served(p)
          /\ \A q \in Processes : sweep'[q] = sweep[q] \/ sweep'[q].pc = "idle"
      BY <1>7, NoSweepRests DEF PresenceSessions!Die
    <2> QED
      BY <1>0, <2>1 DEF HereInv
  \* The jobs leave the sockets and their heartbeats alone.
  <1>8. ASSUME NEW p \in Processes, UNCHANGED <<conn, entered, beats, raced>>,
               \A q \in Processes \ {p} : sweep'[q] = sweep[q], sweep'[p].pc # "srem"
        PROVE  HereInv'
    BY <1>0, <1>8 DEF HereInv
  <1>9. ASSUME NEW p \in Processes,
               \/ PresenceSessions!StartSweep(p) \/ PresenceSessions!SweepBuild(p)
               \/ PresenceSessions!SweepTell(p)
        PROVE  HereInv'
    <2>1. UNCHANGED <<conn, entered, beats, raced>> /\ \A q \in Processes \ {p} : sweep'[q] = sweep[q]
      BY <1>9
      DEF PresenceSessions!StartSweep, PresenceSessions!SweepBuild, PresenceSessions!SweepTell,
          PresenceSessions!GiveUp
    <2>2. CASE PresenceSessions!StartSweep(p)
      <3>1. PICK s : s \in Sessions
        BY <2>2 DEF PresenceSessions!StartSweep
      <3>2. sweep'[p].pc = "look"
        BY <2>2, <3>1, SweepSteps DEF PresenceSessions!StartSweep
      <3> QED
        BY <1>8, <2>1, <3>2
    <2>3. CASE sweep' = [sweep EXCEPT ![p] = PresenceSessions!NoSweep]
      BY <1>8, <2>1, <2>3, NoSweepRests
    <2>4. CASE sweep' = [sweep EXCEPT ![p] = [@ EXCEPT !.pc = "tell", !.list = PresenceSessions!Present]]
      BY <1>8, <2>1, <2>4, SweepEnds
    <2> QED
      BY <1>9, <2>2, <2>3, <2>4 DEF PresenceSessions!SweepBuild, PresenceSessions!SweepTell, PresenceSessions!GiveUp
  <1>10. ASSUME NEW p \in Processes, NEW s \in Sessions, PresenceSessions!LookAt(p, s) PROVE HereInv'
    <2>1. UNCHANGED <<conn, entered, beats, raced>> /\ \A q \in Processes \ {p} : sweep'[q] = sweep[q]
      BY <1>10 DEF PresenceSessions!LookAt, PresenceSessions!GiveUp
    <2>2. CASE sweep' = [sweep EXCEPT ![p].left = @ \ {s}] /\ sweep[p].pc = "look"
      <3>1. sweep'[p].pc = "look"
        BY <2>2, SweepSteps
      <3> QED
        BY <1>8, <2>1, <3>1
    <2>3. CASE sweep' = [sweep EXCEPT ![p] = PresenceSessions!NoSweep]
      BY <1>8, <2>1, <2>3, NoSweepRests
    <2>4. CASE /\ s \notin beats
               /\ sweep' = [sweep EXCEPT ![p] = PresenceSessions!Condemn(@, s)]
      <3>1. sweep'[p].stale = {s} /\ sweep'[p].young = PresenceSessions!Young(s)
        BY <2>4, SweepSteps
      <3> QED
        BY <1>0, <2>1, <2>4, <3>1 DEF HereInv, PresenceSessions!Young
    <2> QED
      BY <1>10, <2>2, <2>3, <2>4 DEF PresenceSessions!LookAt, PresenceSessions!GiveUp
  <1>11. ASSUME NEW p \in Processes, PresenceSessions!RemoveStale(p) PROVE HereInv'
    <2>1. /\ UNCHANGED <<conn, beats>> /\ raced \subseteq raced'
          /\ \A q \in Processes \ {p} : sweep'[q] = sweep[q]
      BY <1>11 DEF PresenceSessions!RemoveStale, PresenceSessions!GiveUp
    <2>2. CASE sweep' = [sweep EXCEPT ![p] = PresenceSessions!NoSweep] /\ UNCHANGED <<entered, raced>>
      BY <1>8, <2>1, <2>2, NoSweepRests
    <2>3. CASE /\ sweep' = [sweep EXCEPT ![p] = [@ EXCEPT !.pc = "look", !.stale = {}, !.young = {},
                                                          !.removed = TRUE]]
               /\ entered' = entered \ sweep[p].stale
               /\ raced' = raced \cup {c \in sweep[p].young : sessionOf[c] \in sweep[p].stale
                                                                /\ PresenceSessions!Open(c)}
      <3>1. sweep'[p].pc # "srem"
        BY <2>3, SweepEnds
      <3>2. ASSUME NEW c \in Sockets, Here(c) PROVE sessionOf[c] \in entered' \/ c \in raced'
        <4>1. CASE sessionOf[c] \notin sweep[p].stale
          BY <2>1, <2>3, <3>2, <4>1 DEF HereInv
        <4>2. CASE sessionOf[c] \in sweep[p].stale
          <5>1. c \in sweep[p].young \/ c \in raced
            BY <1>11, <3>2, <4>2 DEF HereInv, PresenceSessions!RemoveStale
          <5> QED
            BY <2>3, <3>2, <4>2, <5>1
        <4> QED
          BY <4>1, <4>2
      <3> QED
        BY <1>0, <2>1, <3>1, <3>2 DEF HereInv
    <2> QED
      BY <1>11, <2>2, <2>3
      DEF PresenceSessions!RemoveStale, PresenceSessions!TakeOut, PresenceSessions!GiveUp
  <1> QED
    BY <1>1, <1>2, <1>3, <1>4, <1>5, <1>6, <1>7, <1>9, <1>10, <1>11
    DEF PresenceSessions!Next, PresenceSessions!Sweep

\* A step of process p: the others have been told who is there, or are known not to
\* have been, and go on with what they do.
LEMMA OthersFine ==
  ASSUME PresenceTypes, ToldInv, NEW p \in Processes, process' = process,
         \A c \in Sockets : process[c] # p => conn'[c] = conn[c],
         \A q \in Processes \ {p} : sweep'[q] = sweep[q],
         \A q \in Processes \ {p} :
           told'[q] = "missed" \/ (told'[q] = told[q] /\ PresenceSessions!Present' = PresenceSessions!Present),
         Fine(p)'
  PROVE  ToldInv'
  <1> SUFFICES ASSUME NEW q \in Processes PROVE Fine(q)'
    BY DEF ToldInv
  <1> HIDE DEF PresenceSessions!Present
  <1>1. CASE q = p
    BY <1>1
  <1>2. CASE q # p
    <2>1. Telling(q) => Telling(q)'
      BY <1>2 DEF Telling, Sayers
    <2> QED
      BY <1>2, <2>1 DEF ToldInv, Fine
  <1> QED
    BY <1>1, <1>2

\* A change of the set by process p reaches no other process, and a broadcast neither.
LEMMA Hearing ==
  ASSUME PresenceTypes, NEW p \in Processes
  PROVE  /\ PresenceSessions!Unheard(p) => \A q \in Processes \ {p} :
              told'[q] = "missed" \/ (told'[q] = told[q] /\ PresenceSessions!Present' = PresenceSessions!Present)
         /\ \A l : PresenceSessions!Broadcast(p, l) =>
              /\ \A q \in Processes \ {p} : told'[q] = told[q]
              /\ told'[p] \in {PresenceSessions!Present, "missed"}
         /\ \A S : PresenceSessions!Miss(S) => \A q \in Processes :
              IF q \in S THEN told'[q] = "missed" ELSE told'[q] = told[q]
  <1>1. PresenceSessions!Unheard(p) => \A q \in Processes \ {p} :
          told'[q] = "missed" \/ (told'[q] = told[q] /\ PresenceSessions!Present' = PresenceSessions!Present)
    BY DEF PresenceSessions!Unheard, PresenceSessions!Miss
  <1>2. \A l : PresenceSessions!Broadcast(p, l) =>
          /\ \A q \in Processes \ {p} : told'[q] = told[q]
          /\ told'[p] \in {PresenceSessions!Present, "missed"}
    BY DEF PresenceTypes, PresenceSessions!Broadcast
  <1>3. \A S : PresenceSessions!Miss(S) => \A q \in Processes :
          IF q \in S THEN told'[q] = "missed" ELSE told'[q] = told[q]
    BY DEF PresenceSessions!Miss
  <1> QED
    BY <1>1, <1>2, <1>3

\* Whoever changes the set goes on to broadcast it to its process, and a broadcast is
\* right or known not to be: the steps of a socket.
LEMMA SocketTold ==
  ASSUME PresenceTypes, ToldInv, UNCHANGED <<sessionOf, process>>, NEW c \in Sockets,
         \/ PresenceSessions!AddSession(c) \/ PresenceSessions!FirstTouch(c)
         \/ PresenceSessions!Build(c) \/ PresenceSessions!Tell(c) \/ PresenceSessions!Heartbeat(c)
         \/ PresenceSessions!Hold(c) \/ PresenceSessions!Release(c)
         \/ PresenceSessions!RemoveSession(c)
  PROVE  ToldInv'
  <1>1. PICK p \in Processes : p = process[c]
    BY DEF PresenceTypes
  <1>2. sweep' = sweep
    BY DEF PresenceSessions!AddSession, PresenceSessions!FirstTouch, PresenceSessions!Build,
           PresenceSessions!Tell, PresenceSessions!Heartbeat, PresenceSessions!Hold,
           PresenceSessions!Release, PresenceSessions!RemoveSession, PresenceSessions!jobVars
  <1>3. \A d \in Sockets : d # c => conn'[d] = conn[d]
    BY DEF PresenceSessions!AddSession, PresenceSessions!FirstTouch, PresenceSessions!Build,
           PresenceSessions!Tell, PresenceSessions!Heartbeat, PresenceSessions!Hold,
           PresenceSessions!Release, PresenceSessions!RemoveSession, PresenceSessions!Goto, PresenceTypes
  <1>4. ASSUME conn'[c] \in {"touch", "build", "tell", "leaving", "telling"} PROVE Fine(p)'
    BY <1>1, <1>4 DEF Fine, Telling, Sayers
  <1>5. ASSUME Fine(p)',
               \A q \in Processes \ {p} :
                 told'[q] = "missed" \/ (told'[q] = told[q] /\ PresenceSessions!Present' = PresenceSessions!Present)
        PROVE  ToldInv'
    BY <1>1, <1>2, <1>3, <1>5, OthersFine
  <1>6. CASE PresenceSessions!AddSession(c) \/ PresenceSessions!RemoveSession(c)
    <2>1. PresenceSessions!Unheard(p)
      BY <1>1, <1>6 DEF PresenceSessions!AddSession, PresenceSessions!RemoveSession
    <2>2. conn'[c] \in {"touch", "leaving"}
      BY <1>6
      DEF PresenceSessions!AddSession, PresenceSessions!RemoveSession, PresenceSessions!Goto, PresenceTypes
    <2> QED
      BY <1>1, <1>4, <1>5, <2>1, <2>2, Hearing
  <1>7. CASE PresenceSessions!FirstTouch(c)
    <2>1. UNCHANGED <<told, entered>> /\ conn'[c] = "build"
      BY <1>7 DEF PresenceSessions!FirstTouch, PresenceSessions!Goto, PresenceSessions!jobVars, PresenceTypes
    <2>2. PresenceSessions!Present' = PresenceSessions!Present
      BY <2>1 DEF PresenceSessions!Present
    <2> QED
      BY <1>4, <1>5, <2>1, <2>2
  <1>8. CASE PresenceSessions!Build(c)
    <2>1. UNCHANGED entered
      BY <1>8 DEF PresenceSessions!Build
    <2>2. PresenceSessions!Present' = PresenceSessions!Present
      BY <2>1 DEF PresenceSessions!Present
    <2>3. CASE told' = told /\ conn'[c] \in {"tell", "telling"}
      BY <1>4, <1>5, <2>2, <2>3
    <2>4. CASE PresenceSessions!Miss({p})
      <3>1. told'[p] = "missed" /\ \A q \in Processes \ {p} : told'[q] = told[q]
        BY <1>1, <2>4, Hearing
      <3>2. Fine(p)'
        BY <3>1 DEF Fine
      <3> QED
        BY <1>5, <2>2, <3>1, <3>2
    <2> QED
      BY <1>1, <1>8, <2>3, <2>4 DEF PresenceSessions!Build, PresenceSessions!Goto, PresenceTypes
  <1>9. CASE PresenceSessions!Tell(c)
    <2>1. PresenceSessions!Broadcast(p, list[c]) /\ UNCHANGED entered
      BY <1>1, <1>9 DEF PresenceSessions!Tell
    <2>2. PresenceSessions!Present' = PresenceSessions!Present
      BY <2>1 DEF PresenceSessions!Present
    <2>3. told'[p] \in {PresenceSessions!Present, "missed"} /\ \A q \in Processes \ {p} : told'[q] = told[q]
      BY <1>1, <2>1, Hearing
    <2>4. Fine(p)'
      BY <2>2, <2>3 DEF Fine
    <2> QED
      BY <1>5, <2>2, <2>3, <2>4
  <1>10. CASE PresenceSessions!Heartbeat(c) \/ PresenceSessions!Hold(c) \/ PresenceSessions!Release(c)
    <2>1. UNCHANGED <<told, entered>> /\ conn[c] \in {"live", "held"}
      BY <1>10
      DEF PresenceSessions!Heartbeat, PresenceSessions!Hold, PresenceSessions!Release, PresenceSessions!jobVars
    <2>2. PresenceSessions!Present' = PresenceSessions!Present
      BY <2>1 DEF PresenceSessions!Present
    <2>3. Telling(p) => Telling(p)'
      BY <1>2, <1>3, <2>1 DEF Telling, Sayers
    <2>4. Fine(p)'
      BY <1>1, <2>1, <2>2, <2>3 DEF Fine, ToldInv
    <2> QED
      BY <1>5, <2>1, <2>2, <2>4
  <1> QED
    BY <1>6, <1>7, <1>8, <1>9, <1>10

\* The same for the job of process p.
LEMMA SweepTold ==
  ASSUME PresenceTypes, ToldInv, UNCHANGED <<sessionOf, process>>, NEW p \in Processes,
         PresenceSessions!Sweep(p)
  PROVE  ToldInv'
  <1>1. conn' = conn /\ \A q \in Processes \ {p} : sweep'[q] = sweep[q]
    BY DEF PresenceSessions!Sweep, PresenceSessions!StartSweep, PresenceSessions!LookAt,
           PresenceSessions!RemoveStale, PresenceSessions!SweepBuild, PresenceSessions!SweepTell,
           PresenceSessions!GiveUp, PresenceTypes
  <1>2. ASSUME Fine(p)',
               \A q \in Processes \ {p} :
                 told'[q] = "missed" \/ (told'[q] = told[q] /\ PresenceSessions!Present' = PresenceSessions!Present)
        PROVE  ToldInv'
    BY <1>1, <1>2, OthersFine
  <1>3. ASSUME UNCHANGED <<entered, told>>, Telling(p) => Telling(p)' PROVE ToldInv'
    <2>1. PresenceSessions!Present' = PresenceSessions!Present
      BY <1>3 DEF PresenceSessions!Present
    <2>2. Fine(p)'
      BY <1>3, <2>1 DEF Fine, ToldInv
    <2> QED
      BY <1>2, <1>3, <2>1, <2>2
  <1>4. CASE PresenceSessions!GiveUp(p) /\ sweep[p].pc \in {"look", "srem"}
    <2>1. PresenceSessions!Present' = PresenceSessions!Present
      BY <1>4 DEF PresenceSessions!GiveUp, PresenceSessions!Present
    <2>2. CASE sweep[p].removed
      <3>1. told'[p] = "missed" /\ \A q \in Processes \ {p} : told'[q] = told[q]
        BY <1>4, <2>2, Hearing DEF PresenceSessions!GiveUp
      <3>2. Fine(p)'
        BY <3>1 DEF Fine
      <3> QED
        BY <1>2, <2>1, <3>1, <3>2
    <2>3. CASE ~sweep[p].removed
      <3>1. \A q \in Processes : told'[q] = told[q]
        BY <1>4, <2>3, Hearing DEF PresenceSessions!GiveUp
      <3>2. Telling(p) => Telling(p)'
        BY <1>1, <1>4, <2>3 DEF Telling, Sayers
      <3>3. Fine(p)'
        BY <2>1, <3>1, <3>2 DEF Fine, ToldInv
      <3> QED
        BY <1>2, <2>1, <3>1, <3>3
    <2> QED
      BY <2>2, <2>3
  <1>5. CASE PresenceSessions!StartSweep(p)
    <2>1. UNCHANGED <<entered, told>> /\ sweep[p].pc = "idle"
      BY <1>5 DEF PresenceSessions!StartSweep
    <2>2. Telling(p) => Telling(p)'
      BY <1>1, <2>1 DEF Telling, Sayers
    <2> QED
      BY <1>3, <2>1, <2>2
  <1>6. ASSUME NEW s \in Sessions, PresenceSessions!LookAt(p, s) PROVE ToldInv'
    <2>1. CASE UNCHANGED <<entered, told>> /\ sweep' = [sweep EXCEPT ![p].left = @ \ {s}]
      <3>1. sweep'[p].pc = sweep[p].pc /\ sweep'[p].removed = sweep[p].removed
        BY <2>1, SweepSteps DEF PresenceTypes
      <3>2. Telling(p) => Telling(p)'
        BY <1>1, <3>1 DEF Telling, Sayers
      <3> QED
        BY <1>3, <2>1, <3>2
    <2>2. CASE /\ UNCHANGED <<entered, told>> /\ sweep[p].pc = "look"
               /\ sweep' = [sweep EXCEPT ![p] = PresenceSessions!Condemn(@, s)]
      <3>1. sweep'[p].pc = "srem" /\ sweep'[p].removed = sweep[p].removed
        BY <2>2, SweepSteps DEF PresenceTypes
      <3>2. Telling(p) => Telling(p)'
        BY <1>1, <2>2, <3>1 DEF Telling, Sayers
      <3> QED
        BY <1>3, <2>2, <3>2
    <2> QED
      BY <1>4, <1>6, <2>1, <2>2 DEF PresenceSessions!LookAt
  <1>7. CASE PresenceSessions!RemoveStale(p)
    <2>1. CASE /\ PresenceSessions!Unheard(p)
               /\ sweep' = [sweep EXCEPT ![p] = [@ EXCEPT !.pc = "look", !.stale = {}, !.young = {},
                                                          !.removed = TRUE]]
      <3>1. sweep'[p].pc = "look" /\ sweep'[p].removed = TRUE
        BY <2>1, SweepEnds DEF PresenceTypes
      <3>2. Fine(p)'
        BY <3>1 DEF Fine, Telling
      <3> QED
        BY <1>2, <2>1, <3>2, Hearing
    <2> QED
      BY <1>4, <1>7, <2>1 DEF PresenceSessions!RemoveStale
  <1>8. CASE PresenceSessions!SweepBuild(p)
    <2>1. CASE /\ UNCHANGED <<entered, told>>
               /\ sweep' = [sweep EXCEPT ![p] = [@ EXCEPT !.pc = "tell", !.list = PresenceSessions!Present]]
      <3>1. sweep'[p].pc = "tell"
        BY <2>1, SweepEnds DEF PresenceTypes
      <3> QED
        BY <1>3, <2>1, <3>1 DEF Telling
    <2>2. CASE UNCHANGED <<entered, told>> /\ sweep[p].pc = "look" /\ ~sweep[p].removed
      <3>1. Telling(p) => Telling(p)'
        BY <1>1, <2>2 DEF Telling, Sayers
      <3> QED
        BY <1>3, <2>2, <3>1
    <2> QED
      BY <1>4, <1>8, <2>1, <2>2 DEF PresenceSessions!SweepBuild
  <1>9. CASE PresenceSessions!SweepTell(p)
    <2>1. PresenceSessions!Broadcast(p, sweep[p].list) /\ UNCHANGED entered
      BY <1>9 DEF PresenceSessions!SweepTell
    <2>2. PresenceSessions!Present' = PresenceSessions!Present
      BY <2>1 DEF PresenceSessions!Present
    <2>3. told'[p] \in {PresenceSessions!Present, "missed"} /\ \A q \in Processes \ {p} : told'[q] = told[q]
      BY <2>1, Hearing
    <2>4. Fine(p)'
      BY <2>2, <2>3 DEF Fine
    <2> QED
      BY <1>2, <2>2, <2>3, <2>4
  <1> QED
    BY <1>5, <1>6, <1>7, <1>8, <1>9 DEF PresenceSessions!Sweep

\* The same for a process that dies and for what expires.
LEMMA ToldStep ==
  ASSUME PresenceTypes, ToldInv, PresenceSessions!Next
  PROVE  ToldInv'
  <1>0. UNCHANGED <<sessionOf, process>>
    BY DEF PresenceSessions!Next
  <1>1. ASSUME NEW s \in Sessions, PresenceSessions!HeartbeatExpires(s) \/ PresenceSessions!RenewalsFail(s)
        PROVE  ToldInv'
    <2>1. UNCHANGED <<entered, told, sweep, conn>>
      BY <1>1
      DEF PresenceSessions!HeartbeatExpires, PresenceSessions!RenewalsFail, PresenceSessions!BeatGone,
          PresenceSessions!jobVars
    <2> QED
      BY <1>0, <2>1 DEF ToldInv, Fine, Telling, Sayers, PresenceSessions!Present
  <1>2. ASSUME PresenceSessions!SetExpires PROVE ToldInv'
    <2>1. \A p \in Processes : told'[p] = "missed"
      BY <1>2, Hearing DEF PresenceSessions!SetExpires
    <2> QED
      BY <2>1 DEF ToldInv, Fine
  <1>3. ASSUME NEW p \in Processes, PresenceSessions!Die(p) PROVE ToldInv'
    <2>1. told'[p] = "missed" /\ \A q \in Processes \ {p} : told'[q] = told[q]
      BY <1>3, Hearing DEF PresenceSessions!Die
    <2>2. /\ PresenceSessions!Present' = PresenceSessions!Present
          /\ \A q \in Processes \ {p} : sweep'[q] = sweep[q]
      BY <1>3 DEF PresenceSessions!Die, PresenceSessions!Present, PresenceTypes
    <2>3. \A c \in Sockets : process[c] # p => conn'[c] = conn[c]
      BY <1>3 DEF PresenceSessions!Die, PresenceSessions!Served
    <2>4. Fine(p)'
      BY <2>1 DEF Fine
    <2> QED
      BY <1>0, <2>1, <2>2, <2>3, <2>4, OthersFine
  <1> QED
    BY <1>0, <1>1, <1>2, <1>3, SocketTold, SweepTold DEF PresenceSessions!Next

\* However sockets of one session come and go on whichever process, processes die, keys
\* and the set expire and the cleanup jobs run between the calls of the others: an open
\* socket's session is in the set and the list a process has broadcast last is right,
\* but for the races and failures named.
THEOREM PresenceIsSafe == PresenceSessions!Spec => []PresenceSafe
  <1>1. PresenceInv /\ [PresenceSessions!Next]_<<sessionOf, process, PresenceSessions!presenceVars>>
          => PresenceInv'
    <2> SUFFICES ASSUME PresenceInv,
                        [PresenceSessions!Next]_<<sessionOf, process, PresenceSessions!presenceVars>>
                 PROVE  PresenceInv'
      OBVIOUS
    <2>1. CASE PresenceSessions!Next
      BY <2>1, PresenceTypesStep, HereStep, ToldStep DEF PresenceInv
    <2>2. CASE UNCHANGED <<sessionOf, process, PresenceSessions!presenceVars>>
      <3>1. UNCHANGED <<sessionOf, process, conn, entered, beats, list, told, sweep, raced>>
        BY <2>2 DEF PresenceSessions!presenceVars
      <3>2. PresenceTypes'
        BY <3>1 DEF PresenceInv, PresenceTypes
      <3>3. HereInv'
        BY <3>1 DEF PresenceInv, HereInv, Here, Gone, PresenceSessions!Connected
      <3>4. ToldInv'
        BY <3>1 DEF PresenceInv, ToldInv, Fine, Telling, Sayers, PresenceSessions!Present
      <3> QED
        BY <3>2, <3>3, <3>4 DEF PresenceInv
    <2> QED
      BY <2>1, <2>2
  <1>2. PresenceInv => PresenceSafe
    <2> SUFFICES ASSUME PresenceInv PROVE PresenceSafe
      OBVIOUS
    <2>1. PresenceSessions!LiveEntered
      BY DEF PresenceInv, HereInv, Here, PresenceSessions!LiveEntered, PresenceSessions!Connected
    <2>2. PresenceSessions!ChangesTold
      <3> SUFFICES ASSUME NEW p \in Processes, PresenceSessions!Quiet(p)
                   PROVE  told[p] \in {PresenceSessions!Present, "missed"}
        BY DEF PresenceSessions!ChangesTold
      <3>1. ~Telling(p)
        BY DEF PresenceSessions!Quiet, Telling, Sayers
      <3> QED
        BY <3>1 DEF PresenceInv, ToldInv, Fine
    <2> QED
      BY <2>1, <2>2 DEF PresenceSafe, PresenceSessions!PresenceSafe
  <1> QED
    BY PresenceInit, <1>1, <1>2, PTL DEF PresenceSessions!Spec
=============================================================================
