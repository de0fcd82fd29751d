-------------------------- MODULE ProjectStatuses --------------------------
(***************************************************************************)
(* The statuses of one project: a list nobody has written yet is seeded    *)
(* with the defaults by the first request that reads it, one statement     *)
(* after the other, and a new status goes to the end. Tags are kept by the *)
(* same statements without the seeding.                                    *)
(***************************************************************************)
EXTENDS Integers, FiniteSets, FiniteSetsExt

CONSTANTS
  Handlers,         \* requests that can be in progress together
  Defaults,         \* the number of DEFAULT_STATUSES
  MaxStatuses,      \* bound: statuses ever inserted
  MaxStatusFaults   \* bound: statements that fail

VARIABLES
  statuses,     \* the rows: [id, position]
  inserted,     \* rows inserted so far
  sPc,          \* handler -> where it is
  at,           \* handler -> the position it inserts next
  sOverlap,     \* history: two requests overlapped
  statusFaults  \* statements that have failed

statusVars == <<statuses, inserted, sPc, at, sOverlap, statusFaults>>

Init ==
  /\ statuses = {} /\ inserted = 0
  /\ sPc = [h \in Handlers |-> "idle"] /\ at = [h \in Handlers |-> 0]
  /\ sOverlap = FALSE /\ statusFaults = 0

Goto(h, where) == sPc' = [sPc EXCEPT ![h] = where]

Done(h) == Goto(h, "idle") /\ at' = [at EXCEPT ![h] = 0]

Fault == statusFaults < MaxStatusFaults /\ statusFaults' = statusFaults + 1

Busy == \E h \in Handlers : sPc[h] # "idle"

\* list_or_seed_statuses: an empty list is seeded.
ListStatuses(h) ==
  /\ sPc[h] = "idle" /\ statuses = {}
  /\ Goto(h, "seed")
  /\ sOverlap' = (sOverlap \/ Busy)
  /\ UNCHANGED <<statuses, inserted, at, statusFaults>>

insert_status(position) ==
  /\ inserted < MaxStatuses
  /\ inserted' = inserted + 1
  /\ statuses' = statuses \cup {[id |-> inserted + 1, position |-> position]}

\* One default after the other; an error ends the request and keeps what is there.
SeedStatus(h) ==
  /\ sPc[h] = "seed"
  /\ \/ /\ insert_status(at[h]) /\ UNCHANGED statusFaults
        /\ IF at[h] + 1 = Defaults THEN Done(h)
           ELSE at' = [at EXCEPT ![h] = @ + 1] /\ UNCHANGED sPc
     \/ Fault /\ Done(h) /\ UNCHANGED <<statuses, inserted>>
  /\ UNCHANGED sOverlap

\* Mutant of next_position: the number of rows.
next_positionMutant == Cardinality(statuses)

\* COALESCE(MAX(position) + 1, 0).
next_position == IF statuses = {} THEN 0 ELSE Max({s.position : s \in statuses}) + 1

\* create_status and create_tag: a statement sees the rows committed when it starts.
CreateStatus(h) ==
  /\ sPc[h] = "idle" /\ inserted < MaxStatuses
  /\ at' = [at EXCEPT ![h] = next_position]
  /\ Goto(h, "insert")
  /\ sOverlap' = (sOverlap \/ Busy)
  /\ UNCHANGED <<statuses, inserted, statusFaults>>

InsertStatus(h) ==
  /\ sPc[h] = "insert"
  /\ insert_status(at[h]) /\ Done(h)
  /\ UNCHANGED <<sOverlap, statusFaults>>

\* delete_status and delete_tag.
DeleteStatus ==
  /\ \E s \in statuses : statuses' = statuses \ {s}
  /\ sOverlap' = (sOverlap \/ Busy)
  /\ UNCHANGED <<inserted, sPc, at, statusFaults>>

Next ==
  \/ \E h \in Handlers : ListStatuses(h) \/ SeedStatus(h) \/ CreateStatus(h) \/ InsertStatus(h)
  \/ DeleteStatus

-----------------------------------------------------------------------------
(* Properties *)

(***************************************************************************)
(* No two statuses of a project share a position, after any creations and  *)
(* deletions and a seeding that failed half-way, unless requests           *)
(* overlapped.                                                             *)
(***************************************************************************)
PositionsDistinct ==
  sOverlap \/ \A s, t \in statuses : s.position = t.position => s = t
=============================================================================
