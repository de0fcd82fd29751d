--------------------------- MODULE MCSecondFactor ---------------------------
(* Instances of SecondFactor small enough for TLC. *)
EXTENDS SecondFactor, TLC

\* Requests are interchangeable.
Symmetry == Permutations(Handlers)
=============================================================================
