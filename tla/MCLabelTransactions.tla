------------------------- MODULE MCLabelTransactions ------------------------
(* LabelTransactions on two films that share two labels. *)
EXTENDS LabelTransactions, TLC

Symmetry == Permutations(Requests) \cup Permutations(Films) \cup Permutations(LabelIds)
                \cup Permutations(Names)
=============================================================================
