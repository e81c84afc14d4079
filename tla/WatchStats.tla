----------------------------- MODULE WatchStats -----------------------------
(***************************************************************************)
(* The statistics of backend/app/stats/algorithm.py: what a year, and the  *)
(* time since the first watch, add up to.  A log is a set of records with  *)
(* the fields film, day and value (and one that keeps two watches of one   *)
(* film on one day apart).  All years have 365 days.  Averages and scores  *)
(* are exact quotients: the floating-point sums of half stars are exact in *)
(* the code too, its quotients and products are rounded.                   *)
(***************************************************************************)
EXTENDS Integers, FiniteSets, FiniteSetsExt, Sequences, Ranking

CONSTANTS
    FilmData,  \* of each film: release_year, runtime_minutes, tags
    Unscored   \* a watch without a score

TOP_N == 5
RATING_VALUES == 1..10  \* half stars

\* 1888, the stand-in date of "seen before, I don't know when": before any other date.
EARLIER_WATCH_DATE == -36500

YearOf(day) == day \div 365

dated(log) == {w \in log : w.day # EARLIER_WATCH_DATE}
undated_films(log) == {w.film : w \in log \ dated(log)}

\* The day of a film's first watch, among days.
LatestDay(days) == Max(days)
FirstDay(days) == Min(days)

\* A film's first watch is its earliest dated one, unless an undated one says that the film
\* was seen before: then it has none.
first_seen(log) ==
    [f \in {w.film : w \in dated(log)} \ undated_films(log) |->
        FirstDay({w.day : w \in {v \in dated(log) : v.film = f}})]

first_per_year(log, y) ==
    Cardinality({f \in DOMAIN first_seen(log) : YearOf(first_seen(log)[f]) = y})

InYear(log, y) == {w \in dated(log) : YearOf(w.day) = y}

\* The years of the page: from the first watch to today, or to a watch yet to come (the
\* date check of a watch runs on UTC, which may be a day ahead).
YearsUpTo(ys, today) == Min(ys)..YearOf(today)
YearsOf(ys, today) == Min(ys)..Max(ys \cup {YearOf(today)})

years(log, today) ==
    IF dated(log) = {} THEN {} ELSE YearsOf({YearOf(w.day) : w \in dated(log)}, today)

block(watches, first_watches) ==
    [watches |-> Cardinality(watches), first_watches |-> first_watches,
     rewatches |-> Cardinality(watches) - first_watches]

\* The other fields of a block, of the watches it covers.
rated(watches) == {w \in watches : w.value # Unscored}
films_released_that_year(watches, y) ==
    Cardinality({f \in {w.film : w \in watches} : FilmData[f].release_year = y})
distinct_films(watches) == Cardinality({w.film : w \in watches})
minutes_watched(watches) ==
    MapThenSumSet(LAMBDA w : FilmData[w.film].runtime_minutes, watches)
rating_distribution(watches) ==
    [v \in RATING_VALUES |-> Cardinality({w \in watches : w.value = v})]

MonthStarts == <<0, 31, 59, 90, 120, 151, 181, 212, 243, 273, 304, 334>>
MonthOf(day) == Cardinality({m \in 1..12 : MonthStarts[m] <= day % 365})
buckets(watches) == [m \in 1..12 |-> Cardinality({w \in watches : MonthOf(w.day) = m})]

\* The keys a watch is counted under; a director and the genres are counted alike.
film_keys == [f \in DOMAIN FilmData |-> {f}]
tag_keys == [f \in DOMAIN FilmData |-> FilmData[f].tags]

\* A key ranks by its watches times the average of its rated watches: half_stars over rated.
OfAll(watches) == Cardinality(watches)
OfRated(watches) == Cardinality(rated(watches))
Standing(key, watches) ==
    [key |-> key, watches |-> Cardinality(watches),
     half_stars |-> MapThenSumSet(LAMBDA w : w.value, rated(watches)),
     rated |-> OfRated(watches)]

Average(a, b) == a.half_stars * b.rated
Score(a, b) == a.watches * Average(a, b)
RanksBefore(a, b) ==
    \/ Score(a, b) > Score(b, a)
    \/ /\ Score(a, b) = Score(b, a)
       /\ Average(a, b) > Average(b, a) \/ (Average(a, b) = Average(b, a) /\ a.key < b.key)

\* Names are numbers in the order of the names.
top_scored(watches, keys) ==
    LET counted == UNION {keys[w.film] : w \in rated(watches)}
        standings == {Standing(k, {w \in watches : k \in keys[w.film]}) : k \in counted}
        ranked == Ranked(standings, RanksBefore)
    IN  SubSeq(ranked, 1, Min({Len(ranked), TOP_N}))

compute(log, today) ==
    [total |-> block(log, Cardinality(DOMAIN first_seen(log))),
     years |-> [y \in years(log, today) |-> block(InYear(log, y), first_per_year(log, y))]]
=============================================================================
