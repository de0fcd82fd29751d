------------------------------- MODULE Voting -------------------------------
(***************************************************************************)
(* Voting sessions of one board: the rows in PostgreSQL, the concurrent    *)
(* HTTP handlers that check and write them in separate statements, and the *)
(* last-write-wins view the clients keep of the frames they broadcast.     *)
(* Candidates are left out: the tally is kept by voter.                    *)
(***************************************************************************)
EXTENDS Integers, FiniteSets, FiniteSetsExt

CONSTANTS
  Users,
  NoUser,       \* the caller of an idle handler
  Organizers,   \* the users is_organizer lets through
  Handlers,     \* requests that can be in progress together
  Budget,       \* votes_per_participant
  MaxFaults,    \* bound: statements that fail, handlers that are dropped
  MaxSessions,  \* bound: sessions ever started
  MaxRev,       \* bound: revisions of all sessions together
  MaxVotes      \* bound: votes of a user in a session

ASSUME VotingAssumption ==
  /\ Organizers \subseteq Users /\ NoUser \notin Users
  /\ IsFiniteSet(Handlers)
  /\ Budget \in Nat \ {0}
  /\ MaxFaults \in Nat /\ MaxSessions \in Nat /\ MaxRev \in Nat /\ MaxVotes \in Nat

Ids == 1..MaxSessions

VARIABLES
  made,      \* board_voting_sessions: the sessions 1..made, in creation order
  status,    \* session -> "none", "active" or "ended"
  rev,       \* session -> its revision
  expired,   \* the sessions whose ends_at has passed
  part,      \* session -> user -> participation
  finished,  \* session -> the users who finished early
  votes,     \* session -> user -> votes cast
  pc,        \* handler -> where it is
  who,       \* handler -> the caller
  snap,      \* handler -> the session row it holds: id, status, rev
  counts,    \* handler -> the tally it has read
  shown,     \* session -> what a client shows of it
  faulty,    \* history: sessions a handler left half done
  faults,    \* how many failures there were
  outdated   \* history: ended sessions with a newer revision, or none told of the end

rowVars == <<made, status, rev, expired, part, finished, votes>>
taskVars == <<pc, who, snap, counts>>
faultVars == <<faulty, faults, outdated>>
vars == <<rowVars, taskVars, shown, faultVars>>

NoVotes == [u \in Users |-> 0]
NoFrame == [rev |-> 0, status |-> "none", votes |-> NoVotes]
NoSnap == [id |-> 0, status |-> "none", rev |-> 0]

At == {"idle", "insert", "autojoin", "join", "decline", "joined", "used", "vote",
       "finishing", "finish", "bump", "end", "tally", "send"}

Init ==
  /\ made = 0
  /\ status = [s \in Ids |-> "none"]
  /\ rev = [s \in Ids |-> 0]
  /\ expired = {}
  /\ part = [s \in Ids |-> [u \in Users |-> "none"]]
  /\ finished = [s \in Ids |-> {}]
  /\ votes = [s \in Ids |-> NoVotes]
  /\ pc = [h \in Handlers |-> "idle"]
  /\ who = [h \in Handlers |-> NoUser]
  /\ snap = [h \in Handlers |-> NoSnap]
  /\ counts = [h \in Handlers |-> NoVotes]
  /\ shown = [s \in Ids |-> NoFrame]
  /\ faulty = {}
  /\ faults = 0
  /\ outdated = {}

Active == {s \in Ids : status[s] = "active"}

\* The session row as a statement returns it.
Row(s) == [id |-> s, status |-> status[s], rev |-> rev[s]]

Id(h) == snap[h].id

\* The request ends, answered or refused.
Done(h) ==
  /\ pc' = [pc EXCEPT ![h] = "idle"]
  /\ snap' = [snap EXCEPT ![h] = NoSnap]
  /\ who' = [who EXCEPT ![h] = NoUser]
  /\ counts' = [counts EXCEPT ![h] = NoVotes]

Goto(h, where) ==
  /\ pc' = [pc EXCEPT ![h] = where]
  /\ UNCHANGED <<who, counts>>

Fault(sessions) ==
  /\ faults < MaxFaults
  /\ faults' = faults + 1
  /\ faulty' = faulty \cup sessions
  /\ UNCHANGED outdated

\* The bound on revisions, counting those the requests in progress may add.
Room ==
  MapThenSumSet(LAMBDA s : rev[s], Ids)
    + Cardinality({h \in Handlers : pc[h] # "idle"}) < MaxRev

\* A handler loads active_session for its caller and goes on with it.
Load(h, u, where) ==
  /\ pc[h] = "idle"
  /\ Room
  /\ \E s \in Active : snap' = [snap EXCEPT ![h] = Row(s)]
  /\ who' = [who EXCEPT ![h] = u]
  /\ pc' = [pc EXCEPT ![h] = where]
  /\ UNCHANGED <<counts, rowVars, shown, faultVars>>

-----------------------------------------------------------------------------
(* start_voting_handler: create_session, three statements *)

StartVoting(h, u) ==
  /\ u \in Organizers
  /\ pc[h] = "idle"
  /\ made < MaxSessions
  /\ status' = [s \in Ids |-> IF s \in Active THEN "ended" ELSE status[s]]
  /\ rev' = [s \in Ids |-> IF s \in Active THEN rev[s] + 1 ELSE rev[s]]
  /\ who' = [who EXCEPT ![h] = u]
  /\ pc' = [pc EXCEPT ![h] = "insert"]
  /\ outdated' = outdated \cup Active
  /\ UNCHANGED <<made, expired, part, finished, votes, snap, counts, shown, faulty, faults>>

\* Mutant of InsertSession: the index is not unique.
InsertSessionMutant(h) ==
  /\ pc[h] = "insert"
  /\ made < MaxSessions
  /\ made' = made + 1
  /\ status' = [status EXCEPT ![made + 1] = "active"]
  /\ rev' = [rev EXCEPT ![made + 1] = 1]
  /\ snap' = [snap EXCEPT ![h] = [id |-> made + 1, status |-> "active", rev |-> 1]]
  /\ Goto(h, "autojoin")
  /\ UNCHANGED <<expired, part, finished, votes, shown, faultVars>>

InsertSession(h) ==
  /\ pc[h] = "insert"
  /\ Active = {}
  /\ made < MaxSessions
  /\ made' = made + 1
  /\ status' = [status EXCEPT ![made + 1] = "active"]
  /\ rev' = [rev EXCEPT ![made + 1] = 1]
  /\ snap' = [snap EXCEPT ![h] = [id |-> made + 1, status |-> "active", rev |-> 1]]
  /\ Goto(h, "autojoin")
  /\ UNCHANGED <<expired, part, finished, votes, shown, faultVars>>

\* board_voting_sessions_one_active: another start came first.
InsertConflict(h) ==
  /\ pc[h] = "insert"
  /\ Active # {} \/ made = MaxSessions
  /\ Done(h)
  /\ UNCHANGED <<rowVars, shown, faultVars>>

AutoJoin(h) ==
  /\ pc[h] = "autojoin"
  /\ part' = [part EXCEPT ![Id(h)][who[h]] = "joined"]
  /\ Goto(h, "tally")
  /\ UNCHANGED <<made, status, rev, expired, finished, votes, snap, shown, faultVars>>

-----------------------------------------------------------------------------
(* set_participation_handler, cast_vote_handler, finish_voting_handler *)

AskToJoin(h, u) == Load(h, u, "join") \/ Load(h, u, "decline")

SetParticipation(h) ==
  /\ pc[h] \in {"join", "decline"}
  /\ part' = [part EXCEPT ![Id(h)][who[h]] =
                IF pc[h] = "join" THEN "joined" ELSE "declined"]
  /\ Goto(h, "bump")
  /\ UNCHANGED <<made, status, rev, expired, finished, votes, snap, shown, faultVars>>

\* A vote on a candidate of an active session before its deadline.
AskToVote(h, u) == Active \cap expired = {} /\ Load(h, u, "joined")

AskToFinish(h, u) == Load(h, u, "finishing")

\* is_joined; a failed query counts as not joined and ends the request: Drop.
CheckJoined(h) ==
  /\ pc[h] \in {"joined", "finishing"}
  /\ part[Id(h)][who[h]] = "joined"
  /\ Goto(h, IF pc[h] = "joined" THEN "used" ELSE "finish")
  /\ UNCHANGED <<rowVars, snap, shown, faultVars>>

NotJoined(h) ==
  /\ pc[h] \in {"joined", "finishing"}
  /\ part[Id(h)][who[h]] # "joined"
  /\ Done(h)
  /\ UNCHANGED <<rowVars, shown, faultVars>>

\* Mutant of CheckBudget: the last vote can be cast once more.
CheckBudgetMutant(h) ==
  /\ pc[h] = "used"
  /\ votes[Id(h)][who[h]] <= Budget
  /\ Goto(h, "vote")
  /\ UNCHANGED <<rowVars, snap, shown, faultVars>>

\* voter_used is below votes_per_participant.
CheckBudget(h) ==
  /\ pc[h] = "used"
  /\ votes[Id(h)][who[h]] < Budget
  /\ Goto(h, "vote")
  /\ UNCHANGED <<rowVars, snap, shown, faultVars>>

\* A failed count is taken to be 0.
CountFails(h) ==
  /\ pc[h] = "used"
  /\ Fault({Id(h)})
  /\ Goto(h, "vote")
  /\ UNCHANGED <<rowVars, snap, shown>>

NoVotesLeft(h) ==
  /\ pc[h] = "used"
  /\ votes[Id(h)][who[h]] >= Budget
  /\ Done(h)
  /\ UNCHANGED <<rowVars, shown, faultVars>>

InsertVote(h) ==
  /\ pc[h] = "vote"
  /\ votes[Id(h)][who[h]] < MaxVotes
  /\ votes' = [votes EXCEPT ![Id(h)] = [@ EXCEPT ![who[h]] = votes[Id(h)][who[h]] + 1]]
  /\ Goto(h, "bump")
  /\ UNCHANGED <<made, status, rev, expired, part, finished, snap, shown, faultVars>>

SetFinished(h) ==
  /\ pc[h] = "finish"
  /\ finished' = [finished EXCEPT ![Id(h)] = @ \cup {who[h]}]
  /\ Goto(h, "bump")
  /\ UNCHANGED <<made, status, rev, expired, part, votes, snap, shown, faultVars>>

-----------------------------------------------------------------------------
(* end_voting_handler *)

AskToEnd(h, u) == u \in Organizers /\ Load(h, u, "end")

\* Mutant of EndSession: the end is broadcast under the revision before it.
EndSessionMutant(h) ==
  /\ pc[h] = "end"
  /\ status' = [status EXCEPT ![Id(h)] = "ended"]
  /\ snap' = [snap EXCEPT ![h] = [id |-> Id(h), status |-> "ended", rev |-> rev[Id(h)]]]
  /\ Goto(h, "tally")
  /\ UNCHANGED <<made, rev, expired, part, finished, votes, shown, faultVars>>

EndSession(h) ==
  /\ pc[h] = "end"
  /\ status' = [status EXCEPT ![Id(h)] = "ended"]
  /\ rev' = [rev EXCEPT ![Id(h)] = @ + 1]
  /\ snap' = [snap EXCEPT ![h] = [id |-> Id(h), status |-> "ended", rev |-> rev[Id(h)] + 1]]
  /\ Goto(h, "tally")
  /\ UNCHANGED <<made, expired, part, finished, votes, shown, faultVars>>

-----------------------------------------------------------------------------
(* bump_rev and broadcast *)

\* Mutant of BumpRev: the revision is computed from the row loaded before.
BumpRevMutant(h) ==
  /\ pc[h] = "bump"
  /\ rev' = [rev EXCEPT ![Id(h)] = snap[h].rev + 1]
  /\ snap' = [snap EXCEPT ![h] = [@ EXCEPT !.rev = snap[h].rev + 1]]
  /\ Goto(h, "tally")
  /\ UNCHANGED <<made, status, expired, part, finished, votes, shown, faultVars>>

BumpRev(h) ==
  /\ pc[h] = "bump"
  /\ rev' = [rev EXCEPT ![Id(h)] = @ + 1]
  /\ snap' = [snap EXCEPT ![h] = [@ EXCEPT !.rev = rev[Id(h)] + 1]]
  /\ Goto(h, "tally")
  /\ outdated' = IF status[Id(h)] = "ended" THEN outdated \cup {Id(h)} ELSE outdated
  /\ UNCHANGED <<made, status, expired, part, finished, votes, shown, faulty, faults>>

\* The frame goes out under the revision loaded before.
BumpFails(h) ==
  /\ pc[h] = "bump"
  /\ Fault({Id(h)})
  /\ Goto(h, "tally")
  /\ UNCHANGED <<rowVars, snap, shown>>

\* compact_state reads the votes ...
Tally(h) ==
  /\ pc[h] = "tally"
  /\ pc' = [pc EXCEPT ![h] = "send"]
  /\ counts' = [counts EXCEPT ![h] = votes[Id(h)]]
  /\ UNCHANGED <<who, snap, rowVars, shown, faultVars>>

\* ... and broadcast sends the frame, with the status the handler loaded.  The
\* clients keep the frame with the highest revision.
Send(h) ==
  /\ pc[h] = "send"
  /\ shown' = [shown EXCEPT ![Id(h)] =
                 IF snap[h].rev > @.rev
                 THEN [rev |-> snap[h].rev, status |-> snap[h].status, votes |-> counts[h]]
                 ELSE @]
  /\ Done(h)
  /\ UNCHANGED <<rowVars, faultVars>>

-----------------------------------------------------------------------------
(* Time and failures *)

Deadline ==
  /\ \E s \in Active \ expired : expired' = expired \cup {s}
  /\ UNCHANGED <<made, status, rev, part, finished, votes, taskVars, shown, faultVars>>

\* A statement fails, or the client hangs up and the handler is dropped.  What
\* it has written stays; no frame tells of it.
Drop(h) ==
  /\ pc[h] # "idle"
  /\ Fault(IF pc[h] \in {"bump", "tally", "send"} THEN {Id(h)} ELSE {})
  /\ Done(h)
  /\ UNCHANGED <<rowVars, shown>>

Request(h) ==
  \E u \in Users : StartVoting(h, u) \/ AskToJoin(h, u) \/ AskToVote(h, u)
                     \/ AskToFinish(h, u) \/ AskToEnd(h, u)

Step(h) ==
  \/ InsertSession(h) \/ InsertConflict(h) \/ AutoJoin(h) \/ SetParticipation(h)
  \/ CheckJoined(h) \/ NotJoined(h) \/ CheckBudget(h) \/ CountFails(h) \/ NoVotesLeft(h)
  \/ InsertVote(h) \/ SetFinished(h) \/ EndSession(h)
  \/ BumpRev(h) \/ BumpFails(h) \/ Tally(h) \/ Send(h) \/ Drop(h)

Next == Deadline \/ \E h \in Handlers : Request(h) \/ Step(h)

Spec == Init /\ [][Next]_vars

-----------------------------------------------------------------------------
(* Properties *)

\* Rows, handlers and frames keep their types, and a handler past its first
\* statement holds the id of a session row.
TypeOK ==
  /\ made \in 0..MaxSessions
  /\ status \in [Ids -> {"none", "active", "ended"}]
  /\ rev \in [Ids -> Nat]
  /\ expired \subseteq Ids
  /\ part \in [Ids -> [Users -> {"none", "joined", "declined"}]]
  /\ finished \in [Ids -> SUBSET Users]
  /\ votes \in [Ids -> [Users -> Nat]]
  /\ pc \in [Handlers -> At]
  /\ who \in [Handlers -> Users \cup {NoUser}]
  /\ snap \in [Handlers -> [id : Ids \cup {0}, status : {"none", "active", "ended"}, rev : Nat]]
  /\ \A h \in Handlers :
       /\ pc[h] # "idle" => who[h] \in Users
       /\ pc[h] \notin {"idle", "insert"} => Id(h) \in Ids
  /\ counts \in [Handlers -> [Users -> Nat]]
  /\ shown \in [Ids -> [rev : Nat, status : {"none", "active", "ended"}, votes : [Users -> Nat]]]
  /\ faulty \subseteq Ids
  /\ faults \in 0..MaxFaults
  /\ outdated \subseteq Ids

\* Starts that race never leave two active sessions: create_session's two
\* statements and the partial unique index together.
OneActiveSession == Cardinality(Active) <= 1

\* Handlers that count and then insert can overrun the budget of
\* votes_per_participant, but only by the requests that were in progress at
\* once and by one vote for each count that failed and was taken for 0.
OverrunBounded ==
  \A s \in Ids, u \in Users :
    votes[s][u] < Budget + Cardinality(Handlers) + faults

\* Although handlers finish in any order and read the tally after they bump
\* rev, the clients end up with the final tally of a session.
ShownTallyExact ==
  (\A h \in Handlers : pc[h] = "idle") =>
    \A s \in Ids \ faulty : shown[s].votes = votes[s]

\* The clients end up with the end of a session that end_voting_handler ended,
\* although frames with the status loaded before it are still being sent, unless
\* one of them took its revision after the end or a start replaced the session.
ShownEndStays ==
  (\A h \in Handlers : pc[h] = "idle") =>
    \A s \in Ids \ (faulty \cup outdated) :
      status[s] = "ended" => shown[s].status = "ended"
=============================================================================
