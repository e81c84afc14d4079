--------------------------- MODULE MCClientStore ----------------------------
(* ClientStore on one film that is there or yet to be created, with two writes in flight. *)
EXTENDS ClientStore, TLC

\* The settings share no state with the library and the due-list but the slots, and the
\* due-list changes with watches only: it is enough to look at runs in which all but one of
\* them rest, or the due-list changes beside the watches of a library that is not loaded again.
SettingsRest == settings = SettingsOff /\ store["settings"] = Fresh("settings")
DueRests == due = {} /\ store["due"] = Fresh("due")
LibraryRests == store["films"] = Fresh("films") /\ ~Writing("films")
OnlyRatings ==
    /\ \A s \in Slots : calls[s].op \in {"none", "addRating", "removeRating"}
    /\ store["films"] = Fresh("films") \/ store["films"].status = "resolved"

OneAtATime ==
    \/ DueRests /\ (SettingsRest \/ LibraryRests)
    \/ SettingsRest /\ OnlyRatings

Symmetry == Permutations(Slots) \cup Permutations(Entries) \cup Permutations(Marks)
=============================================================================
