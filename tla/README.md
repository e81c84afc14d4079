# FilmRewatchApp in TLA+

FilmRewatchApp is a single-user library of watched films. A FastAPI backend (`backend/app`)
keeps films, their ratings (a rating entry is a watch, scored or not), tags and genres in
Postgres, computes a list of films due for a rewatch, and imports the Letterboxd diary of its
user. An Angular client (`frontend/src/app`) holds copies of what it fetched and edits them
optimistically. This directory specifies the parts whose correctness does not show in a test:
transactions that interleave, a cache and its invalidation, two syncs under one lock, a client
whose answers arrive in any order, and the arithmetic the lists depend on.

## The system

| Component | State | Operations | What makes it correct |
|---|---|---|---|
| film flows (`films/service/orchestration.py`) | tables `films`, `titles` | create, edit, delete, add and delete a rating, duplicate check, reads | no two films of one natural key; the key is derived from its parts; a film has at least one watch and exactly one list of titles; an edit is applied whole or not at all |
| ratings | table `rating_entries` | add, delete (the last one deletes the film) | no entry without a film; a deletion takes what it names |
| tags and genres | `tags`, `film_tags`, `genres`, `film_genres` | get_or_create, link, unlink, sweep of orphans, order of genres | one row per name; no orphan label; no film without labels; positions without gaps |
| stored due-list (`rewatch/`) | table `rewatch_suggestions` with a stamp | read (recomputes when the stamp is not of today), invalidation by every film write | what is served is what the algorithm says of the library |
| rewatch algorithm | none | `interval_days`, `suggest` | lower ratings and more watches wait longer; nobody is nagged about a film just seen |
| statistics | none | `compute` | year blocks and months add up; an unrated watch costs no rank |
| cap and pace (client) | none | `rewatchCap`, `expectedWatches` | the fewest rewatches that reach the share |
| simulation (`simulate/`) | none | `project` | every watch goes to the most overdue film; no more of the rate is lost than its sums are rounded by |
| Letterboxd | table `letterboxd_entries`, `_SYNC_LOCK` | scheduled and manual sync, list (resolves), assign, dismiss | every entry reaches the list once and is acted on once |
| poster palette | columns of `films` | derived by a create, an edit, the backfill script | a palette is that of the film's poster |
| client store (facades) | fetched library and due-list | loads, optimistic edits with rollback, local updates after writes | the screen converges to the server; what is gone stays gone |
| settings | one row; its copy in the client | get, put | changing one keeps the other |
| form, filters, views, shell, migrations | | | see "Not modelled" |

How they interact. Every synchronous route runs in a thread of FastAPI's pool with a session,
that is a transaction, of its own (`core/db.py`), at Postgres' default READ COMMITTED. The film
flows call tags, genres and ratings inside that transaction, and mark the due-list stale in
`FilmService._commit`. Reading the due-list recomputes it in the reader's transaction.
Approving a Letterboxd entry calls the film flows, which commit. The client joins due-list,
library, statistics and settings, each fetched on its own.

What is hard: reads that are not protected until the commit (duplicate pre-check, last-rating
count, the inputs of a recomputation); statements that touch many rows and wait for locks row by
row; the order in which diary entries are logged, dated and queued; dates from two clocks (UTC
for the validation of a watch, local for everything else) and the turn of a day or a year in
between; optimistic edits taken back in another order than they were made; rounding.
`PROJECT.json` lists each hazard at its line.

## Modules

| Module | Models |
|---|---|
| `Library` | the abstract library: indivisible operations on films and watches |
| `FilmTransactions` | the film flows, one action per query and one per commit |
| `FilmDetails` | one film's titles, poster, palette and genres, under edits, deletions, reads and the backfill script |
| `LabelTransactions` | tags and genres under row locks, statement by statement |
| `RewatchProjection` | the stored due-list: reads, invalidation, row locks, deadlocks, midnight |
| `LetterboxdSync` | both syncs, the review list, and the library beside them |
| `ClientStore` | what a browser tab holds of library, due-list and settings |
| `RewatchAlgorithm`, `WatchStats`, `Ranking`, `RewatchCap`, `Simulation` | the pure computations, with the code's constants |
| `DueList` | the operations on watches, with all of these computed from them |
| `*Proofs` | theorems |
| `MC*` | the small instances |

**FilmTransactions.** `films`, `title` and `ratings` are the committed tables, `req[r]` what the
handler of request `r` has in its local variables. A flow is a chain of actions: one per `SELECT`
(`CreateFindKey`, `UpdateReadTitles`, `CountForFilm`, ...) and one that flushes and commits. What a
transaction has flushed before its commit is invisible to the others and only makes them wait,
so flushing at the commit reaches the same committed outcomes. Unique and foreign keys are guards
of the commit; a transaction they reject rolls back by `Abort`, which a crash also takes.
`RowWritten` is the session's rule of writing only the columns that differ from the row it
loaded. The natural key is `<<title, director>>` under a folding function; the year would be one
more part. When `Requests` is a singleton, requests do not overlap, and the module implements
`Library` under the mapping at its end: an entry of the catalog is a film's title and director.

**FilmDetails** holds the rest of one film. `Edits` are the payloads of a `PATCH` (and, when they
name every field, of a `POST`), `Allowed` is what `schemas.py` lets through. A request's record
says what it has read (`seen`, `have`), what it will write (`new`, `added`, `links`) and which
rows it has deleted (`cut`); `Sealed` puts these together at the commit. `Raise` maps an exception
to its answer as `core/errors.py` does. The film stands for all films: two requests on different
films share nothing here.

**LabelTransactions** keeps uncommitted rows, because what matters is who waits for whom: a row
names the open transaction that inserted it (`by`) and the one that has deleted it (`cut`). The
guards are Postgres' rules: a foreign key takes a KEY SHARE lock on the parent, an insertion into
a unique index waits for the one in flight, a `DELETE` picks its rows at its start and then waits
for them. The module speaks of tags; the genre code is the same text. `crossed` is a history
variable: it records that two requests have been in flight together other than two creations.

**RewatchProjection** reduces a film to the day it falls due. `replace_all`'s `DELETE`, the
cascade of a film's deletion and `mark_stale`'s `UPDATE` proceed row by row (`Erase`, `Age`), so
that waits, skipped rows and deadlocks are those of the database; `DeadlockVictim` is Postgres
ending one of a waiting circle. The code keeps no order of row locks and retries nothing, so that
such a request is answered with an error; that the others go on is the database's doing, and no
property is made of it. `crossed` says that two requests, or a request and a midnight, have
overlapped since the last midnight nobody crossed.

**LetterboxdSync** walks the feed one entry per action while other threads change the library.
`Fetch` takes feed and date before the lock, as `sync` and `sync_once` do. Approving is three
actions for its two commits. `acted` and `late` are history variables: the entries an approval or
a dismissal has committed for, and the requests whose entry another has acted on since they found
it.

**ClientStore** has the server's data beside the tab's. A load is sent, served and arrives in
three actions; a write is sent, handled by the server and answered, also with a failure after it
was handled. An edit applies its value locally and remembers the one to go back to. Writing a
value locally gives up the load in flight (Angular's `httpResource.set` and `update`), and `reload`
is ignored while one is in flight. `gone` and `rested` are history: what the tab was told.

**DueList** runs every operation in one step and evaluates the code's computations with the
code's numbers. Years have 365 days and the dates are few. The simulation's random choice of a
profile becomes the set of all runs. Its rate and its budget are floats: natural numbers that
count units of the smallest one, with `One` for 1.0. A sum is rounded, half to even, to a
multiple of the distance between the floats around it (`Rounded`), and `Significand` and
`Granules` give these distances; for a double they are 2^53 and the powers of two.

## Runs

| Run | Bounds | Shows |
|---|---|---|
| `films_serial` | 1 request, 2 films, 3 watches, 3 titles of which two are spellings of one, 2 directors | `EveryFilmWatched`, `KeyMatchesParts`, `RatingDeletionTakesOnlyItsWatch`, refinement of `Library` |
| `films_overlap` | 2 requests, 2 films, 2 watches, 2 titles, 1 director | `NaturalKeysUnique`, `NoDanglingRows` in every interleaving |
| `labels` | 2 requests, 2 films, 2 labels | `LabelNamesUnique`, `LinksHaveBothEnds` always; `NoOrphanLabels`, `FilmsKeepLabels`, `EditReplacesLabels` until an edit or a deletion overlaps |
| `rewatch` | 2 requests, 2 films, 2 days | `ListedFilmsExist` in every interleaving; `FreshStampMeansCurrent`, `ServedListIsCurrent` until requests overlap, or a midnight falls within one |
| `letterboxd_open` | 2 syncs, 2 requests, 2 entries, 2 films, a member's date one day ahead | `QueuedIsNew`, `ActedOnOnce` |
| `letterboxd_fair` | 2 syncs, 1 request, 2 entries, 2 days | `NothingMissed`; `EveryEntryArrives` |
| `due_list` | 2 films, 3 watches, scores of half a star and of five stars, days 364, 365, 640, 6 tags, a projection of 3 days at 22/16 watches a day, in floats of 16 steps | `JustWatchedIsNotDue`, `RatingOrdersTheWait`, `YearsAddUp`, `UnratedWatchNeverDemotes`, `CapCountsDown`, `CapIsFewest`, `RewatchesComeFirst`, `RateIsKept` |
| `film_details` | 2 requests or scripts on one film, 2 genres, 2 posters, 6 payloads | `TitlesAreOneList`, `PaletteIsOfPoster`, `EditIsWholeOrNothing`, `AloneNeverFails` |
| `client_store` | 1 film, 2 writes in flight, 2 watches, 2 marks | `SettledStoreIsServer`, `GoneStaysGone`, `OneSettingAtATime` |

Why these bounds. Every rule relates at most two films, and every race needs two requests, one
to read early and one to commit in between; a second film is there to collide with or to be
mistaken for the first. Three watches let a film keep one, lose one and have one too many for the
count. Two days hold a list of yesterday and a midnight within a request or between two. Day 364
is the last of a year, so that with a UTC date one day ahead a watch lies in the year to come, and
day 640 lies past the shortest interval of either. Six tags on two films are one more than a top
list holds. Three days at 22/16 watches a day make one, one and two watches, carry a
remainder over twice, and the third sum does not fit the floats and is rounded. The
payloads of `film_details` name one field, several or all, with a list of one title, one without
a primary title and a genre that is rejected.

Symmetry is used only where no liveness property is checked and the constants are
interchangeable. `client_store` has a state constraint, `OneAtATime`: library, due-list and
settings share only the slots of the writes in flight, so runs in which all three move at once
show nothing that runs with two of them do not; the exception, watches that change library and
due-list together, is kept.

Conditions. A property checked with one request, or guarded by `crossed`, is one the code states
without a condition and keeps only then. `FilmsKeepLabels` fails when a sweep waits for a
transaction that has just linked the label; `KeyMatchesParts` fails when one edit changes the
title while another changes the director; `PaletteIsOfPoster` when two edits of the poster
overlap, and the position of genres when two edits of them do. `OneSettingAtATime` fails while
the settings are not loaded, and may fail after saves that overlapped. `FreshStampMeansCurrent`
and `ServedListIsCurrent` fail after a midnight within a request, which stamps the list of the
day before as today's. `letterboxd_fair` assumes that watches are logged only by approving
entries and on distinct dates (`ByHand`, `SameDay`): a watch logged by hand on an entry's date
makes the walk stop above entries it has not queued, which the code intends. `ActedOnOnce`
excepts what two review requests do that have both found the entry open before either commits:
the code then adds the watch twice. `SettledStoreIsServer` excludes a resource once a load and a
write, or two writes of one film, overlapped in a way nothing repairs, or an answer was lost; a
later load that no write runs beside repairs it, and it is claimed again.

### Disagreements with what the code says

| Run | What happens |
|---|---|
| `films_watched` | two deletions count two entries each; the film is left with none |
| `rewatch_lost` | a write commits between a run's query and its `DELETE`; its stale mark is deleted, and the old list carries today's stamp |
| `letterboxd_future` | an entry skipped as future is shadowed by a newer one that is queued before its date comes |

Seen while modelling, and taken into the model as they are or left out of it, without a run:

- `rating/facade.ts:39` keeps a film's card after a watch of a forgotten date, because it "stays
  due"; the extra watch lengthens the interval, so the backend may drop the film at the next read.
- `rewatch/api.ts:42` reads a value that throws after a failed load of the due-list, so a watch
  that was stored is reported as failed.
- `film/facade.ts:202`: the reload after a creation is ignored while a load is in flight and given
  up for the next local write; the film is not shown until the library is loaded again.
- `settings/facade.ts:22`: while the settings load, or after that failed, both read Off; saving one
  then stores Off over the other.
- `orchestration.py:140` lists the library film by film; one deleted meanwhile is answered without
  titles, and `film/mapper.ts:27` reads the first of them. The summary of a duplicate
  (`orchestration.py:359`) raises `StopIteration` when the film found is deleted before its titles
  are read.
- `simulate/__main__.py:52` counts the stand-in date of 1888 as the first day of the history, so
  one undated watch makes the measured rate of a young library several times too low.
- `simulate/__main__.py:96` says that the budget spreads a rate "without ever losing a fraction".
  It is a float (line 110): ten additions of 0.1 stay below 1.0, so the watch of the tenth day
  comes on the eleventh. `RateIsKept` states what does hold.
- `letterboxd/service.py:196`: two overlapping approvals of one entry both find it open and both
  add its watch.

### Fairness

Only `letterboxd_fair` checks a liveness property.
The scheduler fetches again and again (`run_periodically` retries hourly after
a failure and daily after a success), a sync that holds the lock goes on, a waiting sync gets the
lock in the end, and from some time on syncs stop failing. Without the last, a feed that can never
be fetched delivers nothing.

## Proofs

All proofs are checked by TLAPS for every value of the constants.

- **`LibraryProofs`**: types, unique identities, and "a film is in the library exactly as long as
  it has a watch". The last two are inductive together with the types.
- **`FilmTransactionsProofs`**. For any number of overlapping requests: `TypeOK`,
  `NaturalKeysUnique`, `NoDanglingRows`. The types contain `LocalsSet`, which says what a handler
  has assigned by the time it needs it; without it no step preserves them. Uniqueness follows
  from the guard of the two commits that write a key, whatever the pre-checks saw; the foreign
  keys follow from the guards of the commits and the cascade. For one request at a time (`Alone`):
  `EveryFilmWatched`, `KeyMatchesParts`, `RatingDeletionTakesOnlyItsWatch`, and the refinement of
  `Library`. The inductive invariant `SerialInv` adds what a lone request may rely on: what it has
  read is still so when it writes (the count it has seen, the entry's film, the row and key as
  loaded). That is exactly what overlapping requests break. The refinement maps each commit to one
  operation and every query to a stutter.
- **`LabelTransactionsProofs`**. For any number of overlapping transactions: `TypeOK`,
  `LabelNamesUnique`, `LinksHaveBothEnds`. Names are unique although a transaction that has
  deleted a label creates a new row of its name: the invariant says of any two rows of one name
  which transaction may still end one of them. Links keep their ends because a link in flight
  keeps others from deleting its label or its film, and a deletion in flight keeps others from
  linking, which is an invariant of the uncommitted rows. Until an edit or a deletion overlaps:
  `NoOrphanLabels`, `FilmsKeepLabels`, `EditReplacesLabels`, from `SerialInv`. A request sees the
  committed rows and those of its own transaction, and at its commit what it sees becomes the
  committed state; `SerialView` says of each statement how far that view still is from one in
  which every label is carried, every film labelled and the payload assigned. Creations beside it
  delete nothing and link no film but their own.
- **`RewatchProjectionProofs`**: `TypeOK` and `ListedFilmsExist` in every interleaving, from
  `TableInv`: rows in hand are stored, no two transactions have the same one, and a deletion in
  flight has the row of its film in hand, if there is one; a run cannot insert another meanwhile.
  `FreshStampMeansCurrent` and `ServedListIsCurrent` follow from `QuietInv`, which holds while
  nothing has overlapped: at most one request is under way, its day is today, its run has seen the
  library as it is, its statement reaches every stored row, and a list stamped today is current.
  `StampsPast` (no stamp is ahead of the clock) makes a quiet midnight restore it.
- **`FilmDetailsProofs`**, for any number of requests and any payloads: `TypeOK` and
  `TitlesAreOneList`. The invariant `TitlesInv` says what a request may hold while others run: of
  the stored titles it has picked or cut all or none, at most one request has cut any, and new
  titles are staged only beside all the old ones cut. The unique indexes make it so: every
  accepted list has a primary title, so a new list is let in only where the old one is gone
  (`FlushReplacesAll`), and whoever waited for the old titles finds none of them. `DetailsInv`
  extends it to `PaletteIsOfPoster`, `EditIsWholeOrNothing` and `AloneNeverFails`: a request that
  is the only writer of a field has read of it what the row still holds, so what it stages beside
  is derived from what will be stored; and one that nothing overlaps finds the film, and every old
  title gone when its new ones are inserted. That genres are numbered without gaps, by first
  mention, is counted with the pigeonhole principle.
- **`LetterboxdSyncProofs`**, for any number of syncs and review requests: `TypeOK`; `QueuedIsNew`,
  from the lock; `ActedOnOnce`, from `ActedInv`: what has been acted on is resolved, which no step
  undoes, and a request that is about to act on it is late; and `NothingMissed` under `OneADay`,
  that is, the member logs one watch per date, nowhere else, and no date is ahead of the
  server's. Its invariant says that what is known of the diary is
  closed downwards, up to what the running sync has staged: an entry below a known one is known.
  Without each of the three conditions it fails, the last being the run `letterboxd_future`.
- **`ClientStoreProofs`**, for any number of films, entries and writes in flight: `TypeOK`,
  `GoneStaysGone`, `OneSettingAtATime` and `SettledStoreIsServer`, the last two under their
  conditions. What is gone stays gone because a deletion reaches the server first, its id is not
  given out again, and the load that was in flight, which might still bring it, is given up by
  the local removal (`GoneInv`, `RestInv`, `IdsInv`). The settled copy rests on `SteadyLibrary`
  and `SteadySettings`: where nothing has overlapped, the copy and the server's rows differ by
  the one write in flight, in the way its answer, or the rollback of its failure, makes good;
  `LoadInv` says the same of the answer of a load.
- **`RewatchProofs`**, first the computations over all inputs. `AverageIsARating` bounds the
  rounded average; `BaseDays`, `Spacing` and `Halved` are monotone, and from that follow the
  shortest waits and the order by rating and by count. For the cap, `WantedIsLeast` characterises
  the ceiling, and gives that the cap is the least number and that a rewatch takes exactly one off.
  Then `DueList` in every reachable state, for any number of films, watches and days: its `TypeOK`
  and all eight of its properties.
  - A film's input adds up its watches, the years of the statistics theirs. The library's sum is a
    fold, that is a choice of the recursive function over all subsets; it is shown to exist, and
    what is claimed of sums is proved by taking one element after another out of a finite set
    (`SubsetInduction`, from the well-founded order of its subsets).
  - The due-list and the top lists sort by rank. Ranks are shown to be places without gaps or
    doubles (`RanksAreOrdered`, `TopIsRanked`), given that the order is strict and total: averages
    and scores are compared as quotients, multiplied across. An unrated watch adds to one key's
    watches and leaves its score, so that key only moves ahead of others, and never off the list.
  - The projection: `RunOk` and `RewatchFirst` hold after each watch of a day (all that is due
    is on the day's list; nothing new is watched before it is empty), and `Alike`: until the
    first day with a new film there is one run, since nothing is left to chance. A rounded sum
    lies within half the distance between the floats around it (`SumIsNear`), and to take whole
    watches off it is exact, so each day adds no more than that to the drift of what is spent
    and left from what has accrued (`DriftGrows`).
- The proofs corrected the model. `RatingOrdersTheWait` compared films of different runtimes,
  which TLC's two films do not refute; `RewatchesComeFirst` counted a film added earlier and due
  again as a new one, which needs a horizon of half a year; `FilmDetails` took a value for the
  fields a payload leaves out without saying that it differs from every payload (`NotNamed`).

Assumptions, all of them named in the modules and evaluated by TLC: folding is a function, null
values are no rows, uuids are finite in number, payloads are of their types; the library of
`DueList` is finite and its films have a runtime and finitely many tags; scores lie between half
a star and five; the client's share is a multiple of ten per cent and its pace a positive number
of days, as its sliders give them, and ids of films and entries differ; a whole watch is a
multiple of the distance between the floats that a budget and a rate can add up to, as it is of
every rate below 2^53 watches a day.

Only model-checked: the liveness property `EveryEntryArrives`, since fairness and `ENABLED` are
out of the prover's reach. Every invariant and every other action property of the passing runs
is a theorem.

## Not modelled

- Runtime, release year and links of a film, which no rule reads; the wording of answers.
- The prefix search of tags, genres and directors; the average of a statistics block; rounding of
  figures that are only shown.
- Feed parsing and the feed's window of 50 entries, the suggested film of an entry, the
  scheduler's hours.
- Image processing of the palette and the check of the poster's host.
- The simulation's decayed watch rate, of which `project` takes the result, and its report.
- Of the client: the fallback fetch of one film, the join of the lists into cards, filters, form,
  views, dialogs, theme, navigation history and scroll memory. They keep no shared data; the form
  follows the title rules that `FilmDetails` takes from `schemas.py`.
- Start-up, configuration, logging, demo data. Migrations run once, alone; the constraints they
  leave are guards of the modules.
- A due date past the year 9999 (a delay of millions of days) fails the whole list; the model's
  days are unbounded.
