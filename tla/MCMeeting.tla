----------------------------- MODULE MCMeeting -----------------------------
(***************************************************************************)
(* What the people on a board are shown of each other, on instances small  *)
(* enough for TLC: their votes, and who is there. The two share no state:  *)
(* a behaviour exercises the one that scene names.                         *)
(***************************************************************************)
EXTENDS Voting, TLC

CONSTANTS Sockets, Sessions, Processes, MaxSweeps, MaxPresenceFaults

VARIABLES scene, sessionOf, process, conn, entered, ttl, beats, list, told, sweep, raced, pFaults

PresenceSessions == INSTANCE PresenceSessions

presenceVars == <<conn, entered, ttl, beats, list, told, sweep, raced, pFaults>>

MeetingInit ==
  /\ scene \in {"voting", "presence"}
  /\ Init /\ PresenceSessions!Init
  \* Sessions and processes are interchangeable: one assignment of each kind is enough,
  \* and any one for the votes.
  /\ \E c \in Sockets, s \in Sessions, p \in Processes :
       /\ <<c, s, p>> = CHOOSE x \in Sockets \X Sessions \X Processes : TRUE
       /\ sessionOf[c] = s /\ process[c] = p
       /\ scene = "voting" => \A d \in Sockets : sessionOf[d] = s /\ process[d] = p

MeetingNext ==
  /\ UNCHANGED scene
  /\ \/ scene = "voting" /\ Next /\ UNCHANGED <<sessionOf, process, presenceVars>>
     \/ scene = "presence" /\ PresenceSessions!Next /\ UNCHANGED vars

MeetingSpec == MeetingInit /\ [][MeetingNext]_<<scene, vars, sessionOf, process, presenceVars>>

\* Requests are interchangeable; users are not, some are organizers.
Symmetry == Permutations(Handlers)

\* PresenceSessions: an open socket's session is in the set, and the list a process has
\* broadcast last is the set as it is, but for the races and failures named there.
PresenceSafe == PresenceSessions!PresenceSafe
=============================================================================
