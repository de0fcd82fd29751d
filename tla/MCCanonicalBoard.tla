-------------------------- MODULE MCCanonicalBoard --------------------------
(* Instances of CanonicalBoard small enough for TLC. *)
EXTENDS CanonicalBoard, TLC

\* Instances and tasks are interchangeable.
Symmetry == Permutations(Instances) \cup Permutations(Writers) \cup Permutations(Readers)
              \cup Permutations(Compactors)
=============================================================================
