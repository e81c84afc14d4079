-------------------------- MODULE MCLetterboxdSync --------------------------
(* LetterboxdSync with two films. *)
EXTENDS LetterboxdSync, TLC

\* Spec, unlike FairSpec, does not tell the scheduled sync from the others.
Symmetry ==
    Permutations(Entries) \cup Permutations(Diary) \cup Permutations(Films)
      \cup Permutations(Syncs) \cup Permutations(Requests)
=============================================================================
