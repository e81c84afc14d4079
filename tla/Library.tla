------------------------------ MODULE Library -------------------------------
(***************************************************************************)
(* What the film service promises: a library of watched films, changed by  *)
(* one indivisible operation per request.  Two films never share an        *)
(* identity (folded title and director), and a film is in the library      *)
(* exactly as long as it has a watch.  FilmTransactions implements this    *)
(* when requests do not overlap.                                           *)
(***************************************************************************)
EXTENDS Naturals, FiniteSets

CONSTANTS FilmIds, RatingIds, Titles, Directors, Fold, Folded, NoFilm

\* What the theorems assume of the constants.
LibraryAssumption ==
    /\ Fold \in [Titles \cup Directors -> Folded]
    /\ NoFilm \notin FilmIds
    /\ NoFilm \notin [title : Titles, director : Directors]

VARIABLES
    catalog,  \* catalog[f] is what film f is, NoFilm when it is not in the library
    watches   \* watches[i] is the film watch i belongs to, NoFilm when there is no watch i

vars == <<catalog, watches>>

Entry == [title : Titles, director : Directors]

\* Two spellings of one title or name are the same identity.
Identity(e) == <<Fold[e.title], Fold[e.director]>>

InLibrary(f) == catalog[f] # NoFilm
Watches(f) == {i \in RatingIds : watches[i] = f}

\* No film other than f has the identity of e.
IdentityFree(e, f) ==
    \A g \in FilmIds \ {f} : InLibrary(g) => Identity(catalog[g]) # Identity(e)

Init ==
    /\ catalog = [f \in FilmIds |-> NoFilm]
    /\ watches = [i \in RatingIds |-> NoFilm]

\* A film enters with its first watch, and with a second, undated one when the user
\* says to have seen it before.
LogFilm(f, e) ==
    /\ ~InLibrary(f)
    /\ IdentityFree(e, f)
    /\ catalog' = [catalog EXCEPT ![f] = e]
    /\ \E W \in SUBSET RatingIds :
         /\ W # {}
         /\ \A i \in W : watches[i] = NoFilm
         /\ watches' = [i \in RatingIds |-> IF i \in W THEN f ELSE watches[i]]

EditFilm(f, e) ==
    /\ InLibrary(f)
    /\ IdentityFree(e, f)
    /\ catalog' = [catalog EXCEPT ![f] = e]
    /\ UNCHANGED watches

\* A film leaves with its whole history.
RemoveFilm(f) ==
    /\ InLibrary(f)
    /\ catalog' = [catalog EXCEPT ![f] = NoFilm]
    /\ watches' = [i \in RatingIds |-> IF watches[i] = f THEN NoFilm ELSE watches[i]]

LogWatch(f, i) ==
    /\ InLibrary(f)
    /\ watches[i] = NoFilm
    /\ watches' = [watches EXCEPT ![i] = f]
    /\ UNCHANGED catalog

\* Only a watch that leaves others behind is removed alone; the last one goes by RemoveFilm.
RemoveWatch(i) ==
    /\ \E j \in RatingIds \ {i} : watches[j] = watches[i]
    /\ watches[i] # NoFilm
    /\ watches' = [watches EXCEPT ![i] = NoFilm]
    /\ UNCHANGED catalog

Next ==
    \/ \E f \in FilmIds, e \in Entry : LogFilm(f, e) \/ EditFilm(f, e)
    \/ \E f \in FilmIds : RemoveFilm(f)
    \/ \E f \in FilmIds, i \in RatingIds : LogWatch(f, i)
    \/ \E i \in RatingIds : RemoveWatch(i)

Spec == Init /\ [][Next]_vars

-----------------------------------------------------------------------------

TypeOK ==
    /\ catalog \in [FilmIds -> Entry \cup {NoFilm}]
    /\ watches \in [RatingIds -> FilmIds \cup {NoFilm}]

\* "No duplicate films": no two films of the library have one identity.
IdentitiesUnique ==
    \A f, g \in FilmIds :
        InLibrary(f) /\ InLibrary(g) /\ Identity(catalog[f]) = Identity(catalog[g]) => f = g

\* The library holds only films the user has watched, and only their watches.
LibraryIsWatched == \A f \in FilmIds : InLibrary(f) <=> Watches(f) # {}
=============================================================================
