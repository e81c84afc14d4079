---------------------------- MODULE FilmDetails -----------------------------
(***************************************************************************)
(* What one film carries besides its identity and its watches: its titles  *)
(* with their two flags, its poster with the palette derived from it, its  *)
(* genres in the owner's order.  Requests edit and delete it, and the      *)
(* backfill script derives missing palettes, each in a READ COMMITTED      *)
(* transaction; one action per statement, or per group of statements that  *)
(* touch the same rows.  A row lock is waited for by not being enabled.    *)
(*                                                                         *)
(* Abstractions: a payload field is NotNamed, or its value; a poster is a  *)
(* URL and its palette the URL it was derived from; two spellings of a     *)
(* label are one name; equal alternative titles of one list are one row.   *)
(* Shared label rows and their sweep are the subject of LabelTransactions, *)
(* the natural key and the rating entries of FilmTransactions.             *)
(***************************************************************************)
EXTENDS Integers, FiniteSets, Sequences

CONSTANTS
    Requests,  \* request threads and runs of the backfill script
    Texts,     \* values of titles
    Posters,   \* URLs
    Genres,    \* genre names of 1 to 100 characters
    Alphabet,  \* the genre names in alphabetical order
    Blank,     \* a genre name the service rejects
    Edits,     \* payloads of PATCH /films/{id} and POST /films
    NotNamed,  \* the field is absent from the payload
    None       \* null

TitleRow == [value : Texts, is_primary : BOOLEAN, is_original : BOOLEAN]

Edit == [titles : Seq(TitleRow) \cup {NotNamed},
         poster_image : Posters \cup {None, NotNamed},
         genre : Seq(Genres \cup {Blank}) \cup {NotNamed}]

ASSUME DetailsAssumption ==
    /\ Edits \subseteq Edit
    /\ NotNamed \notin Seq(TitleRow) \cup Seq(Genres \cup {Blank}) \cup Posters \cup {None}
    /\ NotNamed \notin [Genres -> Int]
    /\ None \notin Posters /\ Blank \notin Genres
    /\ Alphabet \in Seq(Genres) /\ {Alphabet[i] : i \in DOMAIN Alphabet} = Genres

VARIABLES
    film,    \* the committed rows: films, titles and film_genres of the film
    req,     \* the requests' local variables, what they have staged, and their last answer
    crossed  \* history: the fields two overlapping writers of this film have both written

vars == <<film, req, crossed>>

-----------------------------------------------------------------------------
(* Payloads *)

Rows(titles) == {titles[i] : i \in DOMAIN titles}
Primaries(rows) == {t \in rows : t.is_primary}
Originals(rows) == {t \in rows : t.is_original}

\* A lone title becomes the primary one.
WithRulesApplied(titles) ==
    IF Len(titles) = 1 THEN <<[titles[1] EXCEPT !.is_primary = TRUE]>> ELSE titles

FlagsAllowed(titles) ==
    /\ titles # <<>>
    /\ \E i \in DOMAIN titles : \A j \in DOMAIN titles : titles[j].is_primary <=> j = i
    /\ \A i, j \in DOMAIN titles : titles[i].is_original /\ titles[j].is_original => i = j

TitlesAllowed(titles) == FlagsAllowed(WithRulesApplied(titles))
Allowed(e) ==
    /\ e.titles # NotNamed => TitlesAllowed(e.titles)
    /\ e.genre # NotNamed => e.genre # <<>>

TitleRowsOf(e) == Rows(WithRulesApplied(e.titles))

\* deduplicated: the first spelling wins, and positions count the names kept.
Unlinked == -1
Before(names, g) == {i \in DOMAIN names : \A j \in 1..i : names[j] # g}
PayloadPosition(names, g) == Cardinality(Before(names, g))
KeptPosition(names, g) == Cardinality({names[i] : i \in Before(names, g)})
Positions(names) ==
    [g \in Genres |-> IF \E i \in DOMAIN names : names[i] = g THEN KeptPosition(names, g)
                                                              ELSE Unlinked]

\* GenreService.get_or_create: a name must be 1 to 100 characters once trimmed.
NamesValid(names) == Blank \notin {names[i] : i \in DOMAIN names}

\* palette_from_url: never raises, and gives nothing when the host or the image fails.
palette_from_url(url) == {url, None}

-----------------------------------------------------------------------------
(* Answers: the exceptions and what the handlers of core/errors.py make of them *)

Codes == {"OK", "NO_ANSWER", "NOT_FOUND", "DUPLICATE_FILM", "VALIDATION_ERROR", "INTERNAL_ERROR"}
envelope(status, code) == [status |-> status, code |-> code]
Success == envelope(200, "OK")
Lost == envelope(0, "NO_ANSWER")  \* the connection or the process died

AppErrors == [FilmNotFoundError |-> envelope(404, "NOT_FOUND"),
              DuplicateFilmError |-> envelope(409, "DUPLICATE_FILM"),
              InvalidGenreNameError |-> envelope(422, "VALIDATION_ERROR")]
Handled(exception) ==
    IF exception \in DOMAIN AppErrors THEN AppErrors[exception]
    ELSE IF exception = "RequestValidationError" THEN envelope(422, "VALIDATION_ERROR")
    ELSE envelope(500, "INTERNAL_ERROR")

-----------------------------------------------------------------------------

NoGenres == [g \in Genres |-> Unlinked]
NoFilm == [live |-> FALSE, poster |-> None, palette |-> None, titles |-> {},
           position |-> NoGenres]

Positioned == [Genres -> Nat \cup {Unlinked}]
Film == [live : BOOLEAN, poster : Posters \cup {None}, palette : Posters \cup {None},
         titles : SUBSET TitleRow, position : Positioned]

Poster == [poster : Posters \cup {None}, palette : Posters \cup {None}]
NoPoster == [poster |-> None, palette |-> None]

Pc == {"idle", "find", "list_titles", "cut", "wait_cut", "fetch", "genres", "relabel", "seal",
       "delete_find", "delete", "pick", "derive", "store", "load", "detail", "answer", "check", "summary"}

Blankly == [titles |-> NotNamed, poster_image |-> NotNamed, genre |-> NotNamed]

Request == [pc      : Pc,
            edit    : Edits \cup {Blankly},
            alone   : BOOLEAN,               \* nothing has overlapped it
            all     : BOOLEAN,               \* the script's --all
            seen    : Poster,                \* the poster columns as loaded
            new     : Poster,                \* and as assigned since
            picked  : SUBSET TitleRow,       \* title rows the running DELETE has yet to reach
            cut     : SUBSET TitleRow,       \* title rows deleted
            added   : SUBSET TitleRow,       \* title rows inserted
            flushed : BOOLEAN,               \* the poster columns are written
            have    : SUBSET Genres,         \* the genres list_for_film returned
            links   : Positioned \cup {NotNamed},  \* the positions written to film_genres
            shown   : SUBSET TitleRow,       \* the titles about to be answered
            answer  : [status : Nat, code : Codes]]

Idle == [pc |-> "idle", edit |-> Blankly, alone |-> TRUE, all |-> FALSE, seen |-> NoPoster,
         new |-> NoPoster, picked |-> {}, cut |-> {}, added |-> {}, flushed |-> FALSE,
         have |-> {}, links |-> NotNamed, shown |-> {}, answer |-> Lost]

TypeOK ==
    /\ film \in Film
    /\ ~film.live => film = NoFilm
    /\ req \in [Requests -> Request]
    /\ crossed \subseteq {"poster", "genre"}

\* A film from before migrations 0005 and 0010: its genres are numbered by name, its palette
\* is not derived yet.
NumberedByName == Positions(Alphabet)
Migrated ==
    {[live |-> TRUE, poster |-> p, palette |-> None, titles |-> TitleRowsOf(e),
      position |-> NumberedByName] :
        e \in {d \in Edits : d.titles # NotNamed /\ Allowed(d)}, p \in Posters \cup {None}}

Init ==
    /\ film \in {NoFilm} \cup Migrated
    /\ req = [r \in Requests |-> Idle]
    /\ crossed = {}

-----------------------------------------------------------------------------
(* Locks *)

Others(r) == Requests \ {r}

\* An updated film row is held until its transaction ends; an inserted title or link only
\* keeps the film from being deleted.
FilmUpdated(s) == req[s].flushed /\ req[s].new # req[s].seen
TitlesHeld(s) == req[s].cut # {} \/ req[s].added # {}
LinksHeld(s) == req[s].links # NotNamed

\* The titles the payload asks for.
FlushedTitles(r) == IF req[r].edit.titles = NotNamed THEN {} ELSE TitleRowsOf(req[r].edit)

\* The rows once r commits; a column is written only when its value has changed.
Moved(r) ==
    LET q == req[r]
    IN  IF q.links = NotNamed THEN film.position
        ELSE [g \in Genres |->
                IF q.links[g] # Unlinked \/ g \in q.have THEN q.links[g] ELSE film.position[g]]

Sealed(r) ==
    LET q == req[r]
    IN  [live |-> film.live,
         poster |-> IF q.new.poster # q.seen.poster THEN q.new.poster ELSE film.poster,
         palette |-> IF q.new.palette # q.seen.palette THEN q.new.palette ELSE film.palette,
         titles |-> (film.titles \ q.cut) \cup FlushedTitles(r),
         position |-> Moved(r)]

Goto(r, pc) == req' = [req EXCEPT ![r].pc = pc]
Finish(r, answer) == req' = [req EXCEPT ![r] = [Idle EXCEPT !.answer = answer]]
StagedKept(r) == Sealed(r)
RolledBack(r) == film

\* The exception ends the request; closing its session rolls back what it staged.
Raise(r, exception) ==
    /\ Finish(r, Handled(exception))
    /\ film' = RolledBack(r)
    /\ UNCHANGED crossed

\* A statement that waited for rows another transaction has deleted skips them.
Release(r, rows, locals) ==
    req' = [s \in Requests |-> IF s = r THEN locals
                               ELSE [req[s] EXCEPT !.picked = @ \ rows]]

\* The fields a transaction in flight will write.
Writes(q) ==
    IF q.pc \in {"pick", "derive", "store"} THEN {"poster"}
    ELSE (IF q.edit.poster_image # NotNamed THEN {"poster"} ELSE {})
           \cup (IF q.edit.genre # NotNamed THEN {"genre"} ELSE {})

Start(r, q) ==
    /\ req[r].pc = "idle"
    /\ req' = [s \in Requests |->
                 IF s = r THEN [q EXCEPT !.alone = \A t \in Others(r) : req[t].pc = "idle"]
                 ELSE IF req[s].pc = "idle" THEN Idle
                 ELSE [req[s] EXCEPT !.alone = FALSE]]
    /\ crossed' = crossed \cup UNION {Writes(q) \cap Writes(req[s]) : s \in Others(r)}
    /\ UNCHANGED film

-----------------------------------------------------------------------------
(* PATCH /films/{id}: FilmService.update *)

BeginEdit(r) ==
    \E e \in Edits :
        IF Allowed(e) THEN Start(r, [Idle EXCEPT !.pc = "find", !.edit = e])
        ELSE req[r].pc = "idle" /\ Raise(r, "RequestValidationError")

Find(r) ==
    /\ req[r].pc = "find"
    /\ IF film.live
         THEN LET loaded == [poster |-> film.poster, palette |-> film.palette]
              IN  /\ req' = [req EXCEPT ![r].pc = "list_titles", ![r].seen = loaded,
                                        ![r].new = loaded]
                  /\ UNCHANGED <<film, crossed>>
         ELSE Raise(r, "FilmNotFoundError")

\* The current primary title; next() over none of them raises.
ListTitles(r) ==
    /\ req[r].pc = "list_titles"
    /\ IF Primaries(film.titles) # {}
         THEN Goto(r, "cut") /\ UNCHANGED <<film, crossed>>
         ELSE Raise(r, "StopIteration")

\* delete_titles fixes the rows it will delete, and waits for those another edit has cut.
Cut(r) ==
    /\ req[r].pc = "cut"
    /\ IF req[r].edit.titles = NotNamed THEN Goto(r, "fetch")
       ELSE req' = [req EXCEPT ![r].pc = "wait_cut", ![r].picked = film.titles]
    /\ UNCHANGED <<film, crossed>>

FinishCut(r) ==
    /\ req[r].pc = "wait_cut"
    /\ \A s \in Others(r) : req[r].picked \cap req[s].cut = {}
    /\ req' = [req EXCEPT ![r].pc = "fetch", ![r].cut = req[r].picked, ![r].picked = {}]
    /\ UNCHANGED <<film, crossed>>

\* The palette is derived again only when the poster changes, and cleared when that fails.
KeptWhenUnfetched(r, url) ==
    {[poster |-> url, palette |-> IF p = None THEN req[r].new.palette ELSE p] :
        p \in IF url = None THEN {None} ELSE palette_from_url(url)}
Reposted(r, url) ==
    {[poster |-> url, palette |-> p] : p \in IF url = None THEN {None} ELSE palette_from_url(url)}

FetchPalette(r) ==
    LET url == req[r].edit.poster_image
        next == IF req[r].edit.genre = NotNamed THEN "seal" ELSE "genres"
    IN  /\ req[r].pc = "fetch"
        /\ IF url = NotNamed \/ url = req[r].new.poster
             THEN Goto(r, next)
             ELSE \E n \in Reposted(r, url) : req' = [req EXCEPT ![r].pc = next, ![r].new = n]
        /\ UNCHANGED <<film, crossed>>

\* The flush: the changed columns of the film, then the new titles.  It waits for another
\* writer of these rows; a film gone or a second primary or original title is an error.
NewTitles(r) == FlushedTitles(r) \ req[r].added

FlushWaits(r, columns) ==
    \E s \in Others(r) :
        \/ columns /\ FilmUpdated(s)
        \/ NewTitles(r) # {} /\ TitlesHeld(s) /\ req[s].added # {}
        \/ NewTitles(r) # {} /\ (film.titles \ req[r].cut) \cap req[s].cut # {}

NoPartialIndex(r) == TRUE
UniqueBeforeCut(r) == NewTitles(r) # {} => film.titles = {}
UniqueFlags(r) ==
    LET stored == film.titles \ req[r].cut
    IN  /\ Primaries(NewTitles(r)) # {} => Primaries(stored) = {}
        /\ Originals(NewTitles(r)) # {} => Originals(stored) = {}

NoStaleCheck(r, columns) == NewTitles(r) # {} /\ ~UniqueFlags(r)
FlushFails(r, columns) == (columns \/ NewTitles(r) # {}) /\ (~film.live \/ ~UniqueFlags(r))

\* _reassign_genres starts: the query flushes what is pending, then lists the genres.
ReadGenres(r) ==
    LET columns == req[r].new # req[r].seen
    IN  /\ req[r].pc = "genres"
        /\ ~FlushWaits(r, columns)
        /\ IF FlushFails(r, columns) THEN Raise(r, "IntegrityError")
           ELSE /\ req' = [req EXCEPT ![r].pc = "relabel", ![r].added = FlushedTitles(r),
                                      ![r].flushed = TRUE,
                                      ![r].have = {g \in Genres : film.position[g] # Unlinked}]
                /\ UNCHANGED <<film, crossed>>

\* The links no longer wanted are deleted, the others inserted or moved to their position.
\* Links that list_for_film did not show stay.
Relabel(r) ==
    LET names == req[r].edit.genre
    IN  /\ req[r].pc = "relabel"
        /\ \A s \in Others(r) : ~LinksHeld(s)
        /\ IF ~NamesValid(names) THEN Raise(r, "InvalidGenreNameError")
           ELSE IF ~film.live THEN Raise(r, "IntegrityError")
           ELSE /\ req' = [req EXCEPT ![r].pc = "seal", ![r].links = Positions(names)]
                /\ UNCHANGED <<film, crossed>>

\* updated_at is always written; _commit ends the transaction, and the answer is read.
Seal(r) ==
    /\ req[r].pc = "seal"
    /\ ~FlushWaits(r, TRUE)
    /\ IF FlushFails(r, TRUE) THEN Raise(r, "IntegrityError")
       ELSE /\ film' = Sealed(r)
            /\ Release(r, req[r].cut, [Idle EXCEPT !.pc = "detail", !.alone = req[r].alone])
            /\ UNCHANGED crossed

-----------------------------------------------------------------------------
(* GET /films and GET /films/{id}, and the answer of an edit: FilmService.get_detail *)

BeginRead(r) == Start(r, [Idle EXCEPT !.pc = "load"])

\* The library is listed without a film it does not hold.
Load(r) ==
    /\ req[r].pc = "load"
    /\ \/ film.live /\ Goto(r, "detail") /\ UNCHANGED <<film, crossed>>
       \/ ~film.live /\ Raise(r, "FilmNotFoundError")
       \/ ~film.live /\ Finish(r, Success) /\ UNCHANGED <<film, crossed>>

\* find_by_id takes the film at hand, whatever has become of it, and then a statement each
\* lists what belongs to it.
DetailTitles(r) ==
    /\ req[r].pc = "detail"
    /\ req' = [req EXCEPT ![r].pc = "answer", ![r].shown = film.titles]
    /\ UNCHANGED <<film, crossed>>

Answer(r) ==
    /\ req[r].pc = "answer"
    /\ Finish(r, Success)
    /\ UNCHANGED <<film, crossed>>

-----------------------------------------------------------------------------
(* POST /films/duplicate-check, and a creation the film stands in the way of *)

BeginCheck(r) == Start(r, [Idle EXCEPT !.pc = "check"])

\* find_by_natural_key
Check(r) ==
    /\ req[r].pc = "check"
    /\ IF film.live THEN Goto(r, "summary") ELSE Finish(r, Success)
    /\ UNCHANGED <<film, crossed>>

\* The summary names the film by its primary title, if there still is one; a creation then
\* ends with DuplicateFilmError.
Summary(r) ==
    /\ req[r].pc = "summary"
    /\ IF Primaries(film.titles) = {} THEN Raise(r, "StopIteration")
       ELSE \/ Raise(r, "DuplicateFilmError")
            \/ Finish(r, Success) /\ UNCHANGED <<film, crossed>>

-----------------------------------------------------------------------------
(* POST /films and DELETE /films/{id} *)

\* A film of its own id: nobody else addresses it before the creation commits, in one
\* transaction.  The requests to the film before it have all been answered.
CreateFilm(e, palette) ==
    /\ ~film.live
    /\ \A r \in Requests : req[r].pc = "idle"
    /\ NotNamed \notin {e[field] : field \in DOMAIN e} /\ Allowed(e)
    /\ NamesValid(e.genre)
    /\ palette \in (IF e.poster_image = None THEN {None} ELSE palette_from_url(e.poster_image))
    /\ film' = [live |-> TRUE, poster |-> e.poster_image, palette |-> palette,
                titles |-> TitleRowsOf(e), position |-> Positions(e.genre)]
    /\ crossed' = {}
    /\ UNCHANGED req

BeginDelete(r) == Start(r, [Idle EXCEPT !.pc = "delete_find"])

DeleteFind(r) ==
    /\ req[r].pc = "delete_find"
    /\ IF film.live THEN Goto(r, "delete") /\ UNCHANGED <<film, crossed>>
                    ELSE Raise(r, "FilmNotFoundError")

\* The row, and by ON DELETE CASCADE its titles and links; it waits for whoever holds one of
\* them.  A row already gone is none to delete.
Delete(r) ==
    /\ req[r].pc = "delete"
    /\ \A s \in Others(r) : ~FilmUpdated(s) /\ ~TitlesHeld(s) /\ ~LinksHeld(s)
    /\ film' = NoFilm
    /\ Release(r, film.titles, [Idle EXCEPT !.answer = Success])
    /\ UNCHANGED crossed

-----------------------------------------------------------------------------
(* The script backfill_poster_palettes, with --all or without *)

BeginBackfill(r) == \E all \in BOOLEAN : Start(r, [Idle EXCEPT !.pc = "pick", !.all = all])

Pick(r) ==
    /\ req[r].pc = "pick"
    /\ IF film.poster # None /\ (req[r].all \/ film.palette = None)
         THEN LET loaded == [poster |-> film.poster, palette |-> film.palette]
              IN  req' = [req EXCEPT ![r].pc = "derive", ![r].seen = loaded, ![r].new = loaded]
         ELSE Finish(r, Success)
    /\ UNCHANGED <<film, crossed>>

Derive(r) ==
    /\ req[r].pc = "derive"
    /\ \E p \in palette_from_url(req[r].seen.poster) :
         req' = [req EXCEPT ![r].pc = "store",
                            ![r].new = IF p = None THEN @ ELSE [@ EXCEPT !.palette = p]]
    /\ UNCHANGED <<film, crossed>>

StorePalette(r) ==
    /\ req[r].pc = "store"
    /\ IF req[r].new = req[r].seen THEN Finish(r, Success) /\ UNCHANGED <<film, crossed>>
       ELSE /\ \A s \in Others(r) : ~FilmUpdated(s)
            /\ IF film.live
                 THEN /\ film' = [film EXCEPT !.palette = req[r].new.palette]
                      /\ Finish(r, Success)
                      /\ UNCHANGED crossed
                 ELSE Raise(r, "StaleDataError")

-----------------------------------------------------------------------------

\* A lost connection, a deadlock Postgres broke, a crash: nothing staged survives.
Abort(r) ==
    /\ req[r].pc # "idle"
    /\ Finish(r, Lost)
    /\ UNCHANGED <<film, crossed>>

EditStep(r) ==
    \/ BeginEdit(r) \/ Find(r) \/ ListTitles(r) \/ Cut(r) \/ FinishCut(r) \/ FetchPalette(r)
    \/ ReadGenres(r) \/ Relabel(r) \/ Seal(r)
ReadStep(r) == BeginRead(r) \/ Load(r) \/ DetailTitles(r) \/ Answer(r)
CheckStep(r) == BeginCheck(r) \/ Check(r) \/ Summary(r)
DeleteStep(r) == BeginDelete(r) \/ DeleteFind(r) \/ Delete(r)
BackfillStep(r) == BeginBackfill(r) \/ Pick(r) \/ Derive(r) \/ StorePalette(r)

Next ==
    \/ \E e \in Edits : \E palette \in Posters \cup {None} : CreateFilm(e, palette)
    \/ \E r \in Requests : EditStep(r) \/ ReadStep(r) \/ CheckStep(r) \/ DeleteStep(r) \/ BackfillStep(r) \/ Abort(r)

Spec == Init /\ [][Next]_vars

-----------------------------------------------------------------------------
(* Properties *)

\* REQ 4.1: the titles of a film are those of one accepted list, with its one primary title,
\* however edits, deletions and failures interleave; two lists are never mixed, and a film
\* that is gone has none.  The same holds of the titles a request answers, except that it may
\* answer a film without any when that has been deleted while it was read.
OneList(titles) ==
    \E e \in Edits : e.titles # NotNamed /\ Allowed(e) /\ titles = TitleRowsOf(e)
TitlesAreOneList ==
    /\ IF film.live THEN OneList(film.titles) ELSE film.titles = {}
    /\ \A r \in Requests :
         req[r].pc = "answer" => OneList(req[r].shown) \/ (req[r].shown = {} /\ ~film.live)

\* A palette is that of the poster the film has, also after the poster was changed, removed,
\* or could not be fetched; unless two writers of it overlapped, which may leave the
\* palette of one beside the poster of the other.
PaletteIsOfPoster == "poster" \notin crossed => film.palette \in {film.poster, None}

\* The genres are those of names, numbered 0, 1, 2... by where each is first mentioned,
\* without a gap or a tie.
NumberedInOrder(position, names) ==
    LET linked == {g \in Genres : position[g] # Unlinked}
    IN  /\ linked = {names[i] : i \in DOMAIN names}
        /\ {position[g] : g \in linked} = 0..(Cardinality(linked) - 1)
        /\ \A i, j \in DOMAIN names :
             names[j] \notin {names[k] : k \in 1..i} => position[names[i]] < position[names[j]]

\* FR-LIB-06, NFR-INT-02: an edit is applied in one step, with every field it names and no
\* other, its genres in the owner's order, or not at all; a rejected one leaves no trace.  An
\* overlapping edit of other fields is not lost either.
EditIsWholeOrNothing ==
    [][\A r \in Requests :
         LET e == req[r].edit
             changed == req[r].pc \in {"seal", "relabel", "genres"} /\ req'[r].pc # req[r].pc
             sealed == req'[r].pc = "detail"
         IN  changed => IF ~sealed THEN film' = film
                        ELSE /\ film'.titles
                                  = IF e.titles = NotNamed THEN film.titles ELSE TitleRowsOf(e)
                             /\ IF e.genre = NotNamed THEN film'.position = film.position
                                ELSE "genre" \notin crossed => NumberedInOrder(film'.position, e.genre)
                             /\ IF e.poster_image = NotNamed
                                  THEN <<film'.poster, film'.palette>> = <<film.poster, film.palette>>
                                  ELSE "poster" \notin crossed => film'.poster = e.poster_image]_vars

\* A request that nothing overlaps is never answered with an internal error: its own
\* statements do not trip over each other's rows.
AloneNeverFails ==
    [][\A r \in Requests :
         req[r].pc # "idle" /\ req[r].alone /\ req'[r].pc = "idle"
             => req'[r].answer.code # "INTERNAL_ERROR"]_vars
=============================================================================
