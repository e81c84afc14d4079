----------------------- MODULE MCRewatchProjection ------------------------
(* RewatchProjection on two films. *)
EXTENDS RewatchProjection, TLC

Symmetry == Permutations(Requests) \cup Permutations(Films)
=============================================================================
