--------------------------- MODULE MCExpertStream ---------------------------
(* ExpertStream on a few places, slots and workers. *)
EXTENDS ExpertStream, TLC

\* Places and workers are interchangeable: the code compares neither.
Symmetry == Permutations(Places) \cup Permutations(Workers)
=============================================================================
