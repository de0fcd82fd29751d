----------------------------- MODULE MCRealtime -----------------------------
(* Instances of Realtime small enough for TLC. *)
EXTENDS Realtime, TLC

\* Sessions and publishers are interchangeable.
Symmetry == Permutations(Sessions) \cup Permutations(Publishers)
=============================================================================
