-------------------------- MODULE FilmTransactions --------------------------
(***************************************************************************)
(* The film flows of backend/app/films/service/orchestration.py as they    *)
(* run against Postgres.  FastAPI serves every synchronous route from a    *)
(* thread pool and gives each request a session (one transaction) of its   *)
(* own, so the flows interleave between their statements.  The database    *)
(* runs at its default isolation level, READ COMMITTED: each SELECT sees   *)
(* what is committed when it runs, and nothing read earlier is protected.  *)
(*                                                                         *)
(* A request reads with one action per query and ends in one action that   *)
(* flushes and commits what it staged.  What it stages earlier is          *)
(* invisible to the others and only makes them wait on its row locks, so   *)
(* flushing at the commit loses no committed outcome.  The unique          *)
(* constraints and foreign keys are guards of the commit actions; a        *)
(* transaction they reject, or that a crash, a lost connection or a        *)
(* deadlock ends, rolls back by Abort.                                     *)
(*                                                                         *)
(* Abstractions: the natural key is <<title, director>>, the release year  *)
(* being one more part handled as the director is; alternative titles,     *)
(* which are no part of the key, are left out, so a film's titles are its  *)
(* primary one (the partial unique index of films/models.py allows no      *)
(* second, and the payload rules demand a first).  Labels are the subject  *)
(* of LabelTransactions and the due-list of RewatchProjection.             *)
(***************************************************************************)
EXTENDS Naturals, FiniteSets

CONSTANTS
    Requests,    \* the threads of the pool; one request at a time when it is a singleton
    FilmIds,
    RatingIds,
    Titles,
    Directors,
    Fold,        \* Fold[text] is text.strip().lower()
    Folded,      \* the values Fold takes
    NoFilm,      \* no such row
    NoRating,
    Keep         \* a PATCH field that is absent or null

ASSUME FoldAssumption == Fold \in [Titles \cup Directors -> Folded]

ASSUME NullAssumption ==
    /\ NoFilm \notin FilmIds
    /\ NoRating \notin RatingIds
    /\ Keep \notin Titles \cup Directors

\* There are finitely many uuids.
ASSUME FiniteAssumption == IsFiniteSet(RatingIds)

VARIABLES
    films,    \* table films: films[f] is a row or NoFilm
    title,    \* table titles: the primary title of f, Keep when f has no row
    ratings,  \* table rating_entries: the film of entry i, NoFilm when i has no row
    req       \* req[r] is what request r's handler holds in its local variables

vars == <<films, title, ratings, req>>

-----------------------------------------------------------------------------
(* Types *)

Key == Folded \X Folded

\* The columns of table films the flows decide by.
FilmRow == [director : Directors, natural_key : Key]

\* No row is NoFilm: a film that has no row has no columns.
ASSUME RowAssumption ==
    /\ NoFilm \notin FilmRow
    /\ NoFilm \notin [title : Titles, director : Directors]

Pc == {"idle",
       "create_find_key", "create_find_id", "create_commit",
       "update_find", "update_titles", "update_find_key", "update_commit",
       "delete_find", "delete_commit",
       "add_find", "add_commit",
       "get_entry", "count", "rating_commit"}

Request == [pc      : Pc,
            film    : FilmIds \cup {NoFilm},
            rating  : RatingIds \cup {NoRating},
            title   : Titles \cup {Keep},
            director: Directors \cup {Keep},
            flag    : BOOLEAN,               \* create: watched_before; add: future date
            seen    : FilmRow \cup {NoFilm}, \* update: the Film as loaded
            newKey  : Key \cup {NoFilm}]     \* update: new_natural_key

\* The handler's locals between two requests of the same thread.
Idle == [pc |-> "idle", film |-> NoFilm, rating |-> NoRating, title |-> Keep,
         director |-> Keep, flag |-> FALSE, seen |-> NoFilm, newKey |-> NoFilm]

-----------------------------------------------------------------------------
(* Queries *)

Live(f) == films[f] # NoFilm

\* derive_natural_key
derive_natural_key(t, d) == <<Fold[t], Fold[d]>>

\* find_by_natural_key: the films whose row carries key k (one_or_none).
find_by_natural_key(k) == {f \in FilmIds : Live(f) /\ films[f].natural_key = k}

\* The unique constraint on natural_key lets f carry k.
NoUniqueConstraint(k, f) == TRUE
NaturalKeyFree(k, f) == find_by_natural_key(k) \subseteq {f}

\* The rating entries of f.
HistoryOf(f) == {i \in RatingIds : ratings[i] = f}

\* The count_for_film test of the last-rating rule.
NoWatchLeft(f) == Cardinality(HistoryOf(f)) < 1
AtMostTwoWatches(f) == Cardinality(HistoryOf(f)) <= 2
LastWatch(f) == Cardinality(HistoryOf(f)) <= 1

\* ON DELETE CASCADE of rating_entries.film_id: the entries left when f is deleted.
HistoryKept(f) == ratings
WithoutHistory(f) == [i \in RatingIds |-> IF ratings[i] = f THEN NoFilm ELSE ratings[i]]

\* A freshly minted uuid4: an entry id no row has and no request still holds.
FreshRating(i) == ratings[i] = NoFilm /\ \A r \in Requests : req[r].rating # i

-----------------------------------------------------------------------------
(* Control: how a handler starts, moves on, and answers *)

Begin(r, locals) == req[r].pc = "idle" /\ req' = [req EXCEPT ![r] = locals]
Goto(r, pc) == req' = [req EXCEPT ![r].pc = pc]
Finish(r) == req' = [req EXCEPT ![r] = Idle]
ReadOnly == UNCHANGED <<films, title, ratings>>

Init ==
    /\ films = [f \in FilmIds |-> NoFilm]
    /\ title = [f \in FilmIds |-> Keep]
    /\ ratings = [i \in RatingIds |-> NoFilm]
    /\ req = [r \in Requests |-> Idle]

-----------------------------------------------------------------------------
(* POST /films: FilmService.create *)

BeginCreate(r) ==
    /\ \E f \in FilmIds, t \in Titles, d \in Directors, b \in BOOLEAN :
         Begin(r, [Idle EXCEPT !.pc = "create_find_key", !.film = f, !.title = t,
                               !.director = d, !.flag = b])
    /\ ReadOnly

\* The duplicate pre-check; DuplicateFilmError ends the request.
CreateFindKey(r) ==
    /\ req[r].pc = "create_find_key"
    /\ IF find_by_natural_key(derive_natural_key(req[r].title, req[r].director)) # {}
         THEN Finish(r)
         ELSE Goto(r, "create_find_id")
    /\ ReadOnly

\* FilmIdCollisionError ends the request; otherwise the poster palette is fetched
\* over the network before anything is staged.
CreateFindId(r) ==
    /\ req[r].pc = "create_find_id"
    /\ IF Live(req[r].film) THEN Finish(r) ELSE Goto(r, "create_commit")
    /\ ReadOnly

\* Film, titles, the first rating and the prior watch, in one commit.  The guards are
\* the primary key of films and its unique natural_key.
CreateCommit(r) ==
    LET f == req[r].film
        key == derive_natural_key(req[r].title, req[r].director)
        watches == IF req[r].flag THEN 2 ELSE 1
    IN  /\ req[r].pc = "create_commit"
        /\ ~Live(f)
        /\ NaturalKeyFree(key, f)
        /\ \E W \in SUBSET {i \in RatingIds : FreshRating(i)} :
             /\ Cardinality(W) = watches
             /\ ratings' = [i \in RatingIds |-> IF i \in W THEN f ELSE ratings[i]]
        /\ films' = [films EXCEPT ![f] = [director |-> req[r].director, natural_key |-> key]]
        /\ title' = [title EXCEPT ![f] = req[r].title]
        /\ Finish(r)

-----------------------------------------------------------------------------
(* PATCH /films/{id}: FilmService.update *)

BeginUpdate(r) ==
    /\ \E f \in FilmIds, t \in Titles \cup {Keep}, d \in Directors \cup {Keep} :
         Begin(r, [Idle EXCEPT !.pc = "update_find", !.film = f, !.title = t, !.director = d])
    /\ ReadOnly

UpdateFind(r) ==
    /\ req[r].pc = "update_find"
    /\ IF Live(req[r].film)
         THEN req' = [req EXCEPT ![r].pc = "update_titles", ![r].seen = films[req[r].film]]
         ELSE Finish(r)
    /\ ReadOnly

\* The effective key from the payload and, for the parts it leaves out, from what the
\* request has read.  The film may be gone by now: next() on no primary title raises.
UpdateReadTitles(r) ==
    LET q == req[r]
        t == IF q.title = Keep THEN title[q.film] ELSE q.title
        d == IF q.director = Keep THEN q.seen.director ELSE q.director
        k == derive_natural_key(t, d)
    IN  /\ q.pc = "update_titles"
        /\ IF title[q.film] = Keep
             THEN Finish(r)
             ELSE req' = [req EXCEPT
                            ![r].newKey = k,
                            ![r].pc = IF k = q.seen.natural_key THEN "update_commit"
                                                                ELSE "update_find_key"]
        /\ ReadOnly

\* The collision check, made only when the key changes; DuplicateFilmError ends the request.
UpdateFindKey(r) ==
    /\ req[r].pc = "update_find_key"
    /\ IF find_by_natural_key(req[r].newKey) \ {req[r].film} # {}
         THEN Finish(r)
         ELSE Goto(r, "update_commit")
    /\ ReadOnly

KeyChanged(q) == q.newKey # q.seen.natural_key

\* The row after the flush: the session writes the columns that differ from the row it
\* loaded and leaves the others as the table has them by now.
RowWithNullDirector(q, row) ==
    [director    |-> q.director,
     natural_key |-> IF KeyChanged(q) THEN q.newKey ELSE row.natural_key]
RowWithOldKey(q, row) ==
    [director    |-> IF q.director = Keep THEN row.director ELSE q.director,
     natural_key |-> row.natural_key]
RowWritten(q, row) ==
    [director    |-> IF q.director \in {Keep, q.seen.director} THEN row.director
                                                              ELSE q.director,
     natural_key |-> IF KeyChanged(q) THEN q.newKey ELSE row.natural_key]

\* An UPDATE that finds no row raises (StaleDataError), as does a taken natural_key.
UpdateCommit(r) ==
    LET q == req[r]
    IN  /\ q.pc = "update_commit"
        /\ Live(q.film)
        /\ KeyChanged(q) => NaturalKeyFree(q.newKey, q.film)
        /\ films' = [films EXCEPT ![q.film] = RowWritten(q, @)]
        /\ title' = IF q.title = Keep THEN title ELSE [title EXCEPT ![q.film] = q.title]
        /\ Finish(r)
        /\ UNCHANGED ratings

-----------------------------------------------------------------------------
(* DELETE /films/{id}: FilmService.delete *)

BeginDelete(r) ==
    /\ \E f \in FilmIds : Begin(r, [Idle EXCEPT !.pc = "delete_find", !.film = f])
    /\ ReadOnly

DeleteFind(r) ==
    /\ req[r].pc = "delete_find"
    /\ IF Live(req[r].film) THEN Goto(r, "delete_commit") ELSE Finish(r)
    /\ ReadOnly

\* ON DELETE CASCADE takes the titles and the rating entries along.
DeleteCommit(r) ==
    LET f == req[r].film
    IN  /\ req[r].pc = "delete_commit"
        /\ films' = [films EXCEPT ![f] = NoFilm]
        /\ title' = [title EXCEPT ![f] = Keep]
        /\ ratings' = WithoutHistory(f)
        /\ Finish(r)

-----------------------------------------------------------------------------
(* POST /films/{id}/ratings: FilmService.add_rating *)

BeginAddRating(r) ==
    /\ \E f \in FilmIds, future \in BOOLEAN :
         Begin(r, [Idle EXCEPT !.pc = "add_find", !.film = f, !.flag = future])
    /\ ReadOnly

\* FilmNotFoundError, then FutureWatchDateError, end the request.
AddFind(r) ==
    /\ req[r].pc = "add_find"
    /\ IF Live(req[r].film) /\ ~req[r].flag THEN Goto(r, "add_commit") ELSE Finish(r)
    /\ ReadOnly

\* The guard is the foreign key of rating_entries.film_id.
AddCommit(r) ==
    /\ req[r].pc = "add_commit"
    /\ Live(req[r].film)
    /\ \E i \in RatingIds : FreshRating(i) /\ ratings' = [ratings EXCEPT ![i] = req[r].film]
    /\ Finish(r)
    /\ UNCHANGED <<films, title>>

-----------------------------------------------------------------------------
(* DELETE /ratings/{id}: FilmService.delete_rating *)

BeginDeleteRating(r) ==
    /\ \E i \in RatingIds : Begin(r, [Idle EXCEPT !.pc = "get_entry", !.rating = i])
    /\ ReadOnly

\* get_or_raise
GetEntry(r) ==
    LET f == ratings[req[r].rating]
    IN  /\ req[r].pc = "get_entry"
        /\ IF f = NoFilm THEN Finish(r)
                         ELSE req' = [req EXCEPT ![r].pc = "count", ![r].film = f]
        /\ ReadOnly

\* The last-rating rule: the whole film goes when the count says this entry is its last.
CountForFilm(r) ==
    /\ req[r].pc = "count"
    /\ Goto(r, IF LastWatch(req[r].film) THEN "delete_find" ELSE "rating_commit")
    /\ ReadOnly

\* Deleting an entry that is already gone matches no row, which only warns.
DeleteRatingCommit(r) ==
    /\ req[r].pc = "rating_commit"
    /\ ratings' = [ratings EXCEPT ![req[r].rating] = NoFilm]
    /\ Finish(r)
    /\ UNCHANGED <<films, title>>

-----------------------------------------------------------------------------

\* A rollback: a constraint rejected the flush, a deadlock victim, a lost connection, a
\* crash of the process.  Nothing staged survives.
Abort(r) ==
    /\ req[r].pc # "idle"
    /\ Finish(r)
    /\ ReadOnly

Create(r) == BeginCreate(r) \/ CreateFindKey(r) \/ CreateFindId(r) \/ CreateCommit(r)
Update(r) == \/ BeginUpdate(r) \/ UpdateFind(r) \/ UpdateReadTitles(r) \/ UpdateFindKey(r)
             \/ UpdateCommit(r)
Delete(r) == BeginDelete(r) \/ DeleteFind(r) \/ DeleteCommit(r)
AddRating(r) == BeginAddRating(r) \/ AddFind(r) \/ AddCommit(r)
DeleteRating(r) == \/ BeginDeleteRating(r) \/ GetEntry(r) \/ CountForFilm(r)
                   \/ DeleteRatingCommit(r)

Next ==
    \E r \in Requests :
        Create(r) \/ Update(r) \/ Delete(r) \/ AddRating(r) \/ DeleteRating(r) \/ Abort(r)

Spec == Init /\ [][Next]_vars
-----------------------------------------------------------------------------
(* Properties of every interleaving *)

\* What a handler has assigned by the time it needs it.
LocalsSet(q) ==
    /\ q.pc \notin {"idle", "get_entry"} => q.film \in FilmIds
    /\ q.pc \in {"get_entry", "count", "rating_commit"} => q.rating \in RatingIds
    /\ q.pc \in {"create_find_key", "create_find_id", "create_commit"}
         => q.title \in Titles /\ q.director \in Directors
    /\ q.pc \in {"update_titles", "update_find_key", "update_commit"} => q.seen \in FilmRow
    /\ q.pc \in {"update_find_key", "update_commit"} => q.newKey \in Key

TypeOK ==
    /\ films \in [FilmIds -> FilmRow \cup {NoFilm}]
    /\ title \in [FilmIds -> Titles \cup {Keep}]
    /\ ratings \in [RatingIds -> FilmIds \cup {NoFilm}]
    /\ req \in [Requests -> Request]
    /\ \A r \in Requests : LocalsSet(req[r])

\* The unique natural_key: whatever overtakes a duplicate pre-check between its query and
\* its commit (a create waits for a poster host in between), no two stored films share a key.
NaturalKeysUnique ==
    \A f, g \in FilmIds :
        Live(f) /\ Live(g) /\ films[f].natural_key = films[g].natural_key => f = g

\* The foreign keys and their cascades: a title or a rating entry belongs to a stored film,
\* and a stored film has its primary title, also when the film is deleted while another
\* request that has already found it is about to write to it.
NoDanglingRows ==
    /\ \A i \in RatingIds : ratings[i] # NoFilm => Live(ratings[i])
    /\ \A f \in FilmIds : title[f] # Keep <=> Live(f)

-----------------------------------------------------------------------------
(* Properties of requests that do not overlap.  Each is a rule the code states without  *)
(* a condition; the runs with two requests show how an overlap breaks it.               *)

\* FR-RAT-07, FR-LIB-03: a film always has at least one watch.
EveryFilmWatched == \A f \in FilmIds : Live(f) => HistoryOf(f) # {}

\* The stored natural_key is the one derived from the stored title and director: it is
\* rebuilt whenever one of its parts changes, so the duplicate checks compare the films
\* as they are.
KeyMatchesParts ==
    \A f \in FilmIds :
        Live(f) /\ title[f] # Keep
            => films[f].natural_key = derive_natural_key(title[f], films[f].director)

\* DELETE /ratings/{id} deletes the whole film only when the entry is its last one: it
\* never takes a watch the request did not name.
RatingDeletionTakesOnlyItsWatch ==
    [][\A r \in Requests :
         req[r].rating # NoRating /\ req'[r] = Idle
             => \A i \in RatingIds : ratings[i] # NoFilm /\ ratings'[i] = NoFilm
                                        => i = req[r].rating]_vars

\* The service implements the library of module Library.
Lib == INSTANCE Library WITH
    catalog <- [f \in FilmIds |-> IF Live(f) THEN [title |-> title[f], director |-> films[f].director]
                                            ELSE NoFilm],
    watches <- ratings

LibrarySpec == Lib!Spec
=============================================================================
