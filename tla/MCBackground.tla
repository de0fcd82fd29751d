---------------------------- MODULE MCBackground ----------------------------
(***************************************************************************)
(* Background work that has to come to an end. The parts share no state in *)
(* the models: a behaviour exercises the one that part names.              *)
(***************************************************************************)
EXTENDS Integers, FiniteSets, Sequences, Functions, TLC

CONSTANTS
  Sockets, Sessions, Processes, MaxSweeps, MaxPresenceFaults,
  Workers, Jobs, Good, QueueSize, MaxSpawnFaults,
  Handlers, MaxBoards, MaxFiles, BoardLimit, StorageLimit, Poisoned, MaxStorageFaults

VARIABLES
  part,
  sessionOf, process, conn, entered, ttl, beats, list, told, sweep, raced, pFaults,
  calls, verdict, pending, holds, wPc, child, spawnFaults,
  boards, made, based, rows, imported, objects, files, jobs, due, bPc, bReq, now, cycle,
  late, abandoned, stranded, bFaults

PresenceSessions == INSTANCE PresenceSessions
ValidatorPool == INSTANCE ValidatorPool
BoardStorage == INSTANCE BoardStorage

presenceVars == <<conn, entered, ttl, beats, list, told, sweep, raced, pFaults>>
poolVars == <<calls, verdict, pending, holds, wPc, child, spawnFaults>>
storageVars == <<boards, made, based, rows, imported, objects, files, jobs, due, bPc, bReq,
                 now, cycle, late, abandoned, stranded, bFaults>>

Init ==
  /\ part \in {"presence", "pool", "cleanup"}
  /\ PresenceSessions!Init /\ ValidatorPool!Init /\ BoardStorage!Init
  \* Every socket has a process of its own, so that one can die and the others go on.
  \* Sessions are interchangeable: one assignment of each kind is enough, and any one for
  \* the other parts.
  /\ process = CHOOSE f \in [Sockets -> Processes] : IsInjective(f)
  /\ \E c \in Sockets, s \in Sessions :
       /\ <<c, s>> = CHOOSE x \in Sockets \X Sessions : TRUE
       /\ sessionOf[c] = s
       /\ part # "presence" => \A d \in Sockets : sessionOf[d] = s

Next ==
  /\ UNCHANGED part
  /\ \/ /\ part = "presence" /\ PresenceSessions!Next
        /\ UNCHANGED <<poolVars, storageVars>>
     \/ /\ part = "pool" /\ ValidatorPool!Next
        /\ UNCHANGED <<sessionOf, process, presenceVars, storageVars>>
     \/ /\ part = "cleanup" /\ BoardStorage!Next
        /\ UNCHANGED <<sessionOf, process, presenceVars, poolVars>>

\* A part that a behaviour does not exercise owes nothing: it stays as it began.
Spec ==
  /\ Init /\ [][Next]_<<part, sessionOf, process, presenceVars, poolVars, storageVars>>
  /\ PresenceSessions!Fairness
  /\ ValidatorPool!Fairness
  /\ BoardStorage!Fairness

-----------------------------------------------------------------------------
\* PresenceSessions: the session of a dead process leaves the set.
DeadLeave == PresenceSessions!DeadLeave

\* ValidatorPool: the verdict on a candidate is about that candidate.
VerdictIsOwn == ValidatorPool!VerdictIsOwn

\* ValidatorPool: every call of validate returns.
CallsReturn == ValidatorPool!CallsReturn

\* BoardStorage: a prefix that cannot be emptied does not hold up the others.
JobsComplete == BoardStorage!JobsComplete
=============================================================================
