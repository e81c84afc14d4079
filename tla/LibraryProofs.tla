--------------------------- MODULE LibraryProofs ----------------------------
(***************************************************************************)
(* What the library promises, proved for every set of films, watches,      *)
(* titles and directors and every folding of their spellings.  Each part   *)
(* is inductive given type correctness: the identities because every       *)
(* operation that writes one checks it against the other films, the watch  *)
(* rule because a film enters with a watch and the last one is only        *)
(* removed together with the film.                                         *)
(***************************************************************************)
EXTENDS Library, TLAPS

LEMMA TypeInit == Init => TypeOK
  BY DEF Init, TypeOK

\* The films and watches of the table types stay there under every operation.
LEMMA TypeStep == TypeOK /\ [Next]_vars => TypeOK'
<1> SUFFICES ASSUME TypeOK, [Next]_vars PROVE TypeOK'
  OBVIOUS
<1> USE DEF TypeOK
<1>1. ASSUME NEW f \in FilmIds, NEW e \in Entry, LogFilm(f, e) PROVE TypeOK'
  BY <1>1 DEF LogFilm
<1>2. ASSUME NEW f \in FilmIds, NEW e \in Entry, EditFilm(f, e) PROVE TypeOK'
  BY <1>2 DEF EditFilm
<1>3. ASSUME NEW f \in FilmIds, RemoveFilm(f) PROVE TypeOK'
  BY <1>3 DEF RemoveFilm
<1>4. ASSUME NEW f \in FilmIds, NEW i \in RatingIds, LogWatch(f, i) PROVE TypeOK'
  BY <1>4 DEF LogWatch
<1>5. ASSUME NEW i \in RatingIds, RemoveWatch(i) PROVE TypeOK'
  BY <1>5 DEF RemoveWatch
<1>6. CASE UNCHANGED vars
  BY <1>6 DEF vars
<1> QED
  BY <1>1, <1>2, <1>3, <1>4, <1>5, <1>6 DEF Next

\* The tables hold rows of their types, whatever the users do.
THEOREM TypeCorrect == Spec => []TypeOK
  BY TypeInit, TypeStep, PTL DEF Spec

-----------------------------------------------------------------------------
(* No duplicate films *)

\* Giving film f the entry e, whose identity no other film has, keeps identities apart.
LEMMA StoreKeepsIdentitiesUnique ==
  ASSUME TypeOK, IdentitiesUnique,
         NEW f \in FilmIds, NEW e \in Entry,
         IdentityFree(e, f), catalog' = [catalog EXCEPT ![f] = e]
  PROVE  IdentitiesUnique'
<1> SUFFICES ASSUME NEW g \in FilmIds, NEW h \in FilmIds,
                    catalog'[g] # NoFilm, catalog'[h] # NoFilm,
                    Identity(catalog'[g]) = Identity(catalog'[h])
             PROVE  g = h
  BY DEF IdentitiesUnique, InLibrary
<1>1. \A k \in FilmIds : catalog'[k] = IF k = f THEN e ELSE catalog[k]
  BY DEF TypeOK
<1>2. CASE g = f /\ h # f
  BY <1>1, <1>2 DEF IdentityFree, InLibrary
<1>3. CASE h = f /\ g # f
  BY <1>1, <1>3 DEF IdentityFree, InLibrary
<1>4. CASE g # f /\ h # f
  BY <1>1, <1>4 DEF IdentitiesUnique, InLibrary
<1> QED
  BY <1>2, <1>3, <1>4

LEMMA IdentitiesStep == TypeOK /\ IdentitiesUnique /\ [Next]_vars => IdentitiesUnique'
<1> SUFFICES ASSUME TypeOK, IdentitiesUnique, [Next]_vars PROVE IdentitiesUnique'
  OBVIOUS
<1>1. ASSUME NEW f \in FilmIds, NEW e \in Entry, LogFilm(f, e) \/ EditFilm(f, e)
      PROVE  IdentitiesUnique'
  BY <1>1, StoreKeepsIdentitiesUnique DEF LogFilm, EditFilm
<1>2. ASSUME NEW f \in FilmIds, RemoveFilm(f) PROVE IdentitiesUnique'
  <2>1. \A k \in FilmIds : catalog'[k] # NoFilm => catalog'[k] = catalog[k]
    BY <1>2 DEF RemoveFilm, TypeOK
  <2> QED
    BY <2>1 DEF IdentitiesUnique, InLibrary
<1>3. CASE UNCHANGED catalog
  BY <1>3 DEF IdentitiesUnique, InLibrary, Identity
<1> QED
  BY <1>1, <1>2, <1>3 DEF Next, LogWatch, RemoveWatch, vars

\* FR-LIB-05: the library never holds two films of one identity.
THEOREM NoDuplicateFilms == Spec => []IdentitiesUnique
<1>1. Init => IdentitiesUnique
  BY DEF Init, IdentitiesUnique, InLibrary
<1> QED
  BY <1>1, TypeInit, TypeStep, IdentitiesStep, PTL DEF Spec

-----------------------------------------------------------------------------
(* A film is in the library exactly as long as it has a watch *)

LEMMA WatchedStep ==
  ASSUME LibraryAssumption, TypeOK, LibraryIsWatched, [Next]_vars
  PROVE  LibraryIsWatched'
<1> SUFFICES ASSUME NEW g \in FilmIds
             PROVE  catalog'[g] # NoFilm <=> \E i \in RatingIds : watches'[i] = g
  BY DEF LibraryIsWatched, InLibrary, Watches
<1>0. catalog[g] # NoFilm <=> \E i \in RatingIds : watches[i] = g
  BY DEF LibraryIsWatched, InLibrary, Watches
<1>1. ASSUME NEW f \in FilmIds, NEW e \in Entry, LogFilm(f, e)
      PROVE  catalog'[g] # NoFilm <=> \E i \in RatingIds : watches'[i] = g
  <2>1. catalog'[g] = IF g = f THEN e ELSE catalog[g]
    BY <1>1 DEF LogFilm, TypeOK
  <2>2. e # NoFilm
    BY DEF LibraryAssumption, Entry
  <2>3. PICK W \in SUBSET RatingIds :
          /\ W # {}
          /\ \A i \in W : watches[i] = NoFilm
          /\ watches' = [i \in RatingIds |-> IF i \in W THEN f ELSE watches[i]]
    BY <1>1 DEF LogFilm
  <2>4. CASE g = f
    BY <2>1, <2>2, <2>3, <2>4
  <2>5. CASE g # f
    BY <1>0, <2>1, <2>3, <2>5 DEF LibraryAssumption
  <2> QED
    BY <2>4, <2>5
<1>2. ASSUME NEW f \in FilmIds, NEW e \in Entry, EditFilm(f, e)
      PROVE  catalog'[g] # NoFilm <=> \E i \in RatingIds : watches'[i] = g
  <2>1. e # NoFilm
    BY DEF LibraryAssumption, Entry
  <2> QED
    BY <1>0, <1>2, <2>1 DEF EditFilm, InLibrary, TypeOK
<1>3. ASSUME NEW f \in FilmIds, RemoveFilm(f)
      PROVE  catalog'[g] # NoFilm <=> \E i \in RatingIds : watches'[i] = g
  BY <1>0, <1>3 DEF LibraryAssumption, RemoveFilm, TypeOK
<1>4. ASSUME NEW f \in FilmIds, NEW i \in RatingIds, LogWatch(f, i)
      PROVE  catalog'[g] # NoFilm <=> \E j \in RatingIds : watches'[j] = g
  BY <1>0, <1>4 DEF LibraryAssumption, LogWatch, InLibrary, TypeOK
<1>5. ASSUME NEW i \in RatingIds, RemoveWatch(i)
      PROVE  catalog'[g] # NoFilm <=> \E j \in RatingIds : watches'[j] = g
  BY <1>0, <1>5 DEF LibraryAssumption, RemoveWatch, TypeOK
<1>6. CASE UNCHANGED vars
  BY <1>0, <1>6 DEF vars
<1> QED
  BY <1>1, <1>2, <1>3, <1>4, <1>5, <1>6 DEF Next

\* FR-RAT-07, FR-LIB-03: a film has a watch as long as it is in the library, and a watch
\* belongs to a film of the library.
THEOREM FilmsAreWatched ==
  ASSUME LibraryAssumption
  PROVE  Spec => []LibraryIsWatched
<1>1. Init => LibraryIsWatched
  BY DEF LibraryAssumption, Init, LibraryIsWatched, InLibrary, Watches
<1> QED
  BY <1>1, TypeInit, TypeStep, WatchedStep, PTL DEF Spec
=============================================================================
