------------------------- MODULE MCFilmTransactions -------------------------
(* FilmTransactions on small tables: two spellings of one title and another title. *)
EXTENDS FilmTransactions, TLC

CONSTANTS alien, ALIEN, heat, scott, mann

MCTitles == {alien, ALIEN, heat}
MCDirectors == {scott, mann}
MCFolded == {alien, heat, scott, mann}
MCFold == [x \in Titles \cup Directors |-> IF x = ALIEN THEN alien ELSE x]

\* Two titles of one director: enough to collide, and small enough for two requests.
MCTwoTitles == {alien, heat}
MCOneDirector == {scott}

Symmetry == Permutations(Requests) \cup Permutations(FilmIds) \cup Permutations(RatingIds)
=============================================================================
