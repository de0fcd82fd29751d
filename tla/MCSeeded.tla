------------------------------ MODULE MCSeeded ------------------------------
(***************************************************************************)
(* CanonicalBoard started on a board that already has a history: one       *)
(* instance has activated it and committed SeedSeq events through its      *)
(* resident, and every handler is done.  The retention races need a longer *)
(* history than a search from an empty board affords.                      *)
(***************************************************************************)
EXTENDS CanonicalBoard, TLC

CONSTANTS
  Home,     \* the instance that holds the resident
  SeedSeq   \* events committed so far

ASSUME SeedAssumption == Home \in Instances /\ SeedSeq \in 1..MaxSeq

SeededInit ==
  /\ head = [state |-> "ready", epoch |-> 1, processed |-> SeedSeq]
  /\ nextSeq = SeedSeq + 1
  /\ rows \in [1..SeedSeq -> {[cid |-> NoCid, body |-> b] : b \in ServerBodies}]
  /\ journal = 1..SeedSeq
  /\ events = 1..SeedSeq
  /\ snapshots = {}
  /\ assetSeq = SeedSeq
  /\ configSeq = 0
  /\ aged = 0
  /\ boards = [i \in Instances |-> IF i = Home THEN 1 ELSE None]
  /\ arcs = [i \in Instances |-> [a \in Slots |->
               IF i = Home /\ a = 1
               THEN [doc |-> 1..SeedSeq, processed |-> SeedSeq, epoch |-> 1]
               ELSE FreeArc]]
  /\ pc = [t \in Tasks |-> "idle"]
  /\ inst = [t \in Tasks |-> None]
  /\ req = [t \in Tasks |-> NoRequest]
  /\ attempt = [t \in Tasks |-> 0]
  /\ held = [t \in Tasks |-> None]
  /\ act = [t \in Tasks |-> NoActivation]
  /\ out = [t \in Tasks |-> NoResult]
  /\ CompactionInit

SeededSpec == SeededInit /\ [][Next]_vars

Symmetry == Permutations(Writers) \cup Permutations(Readers)
              \cup Permutations(Compactors)
=============================================================================
