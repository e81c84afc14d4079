------------------------------ MODULE DueList -------------------------------
(***************************************************************************)
(* What the user sees of rewatching, from the watches that are logged: the *)
(* input of each film (rewatch/repository.py collect_inputs), the due-list *)
(* (rewatch/algorithm.py), the statistics, the cap of the shown list       *)
(* (frontend rewatch view) and the projection of the simulate script.      *)
(* Every operation is one step here; how they interleave is the subject of *)
(* FilmTransactions and of RewatchProjection.                              *)
(***************************************************************************)
EXTENDS RewatchAlgorithm, WatchStats, RewatchCap, Simulation, SequencesExt

CONSTANTS
    Films,      \* film ids, ordered as their bytes are
    Scores,     \* half stars
    Dates,      \* the days the clock shows and watches are logged for
    UtcAhead,   \* how many days the UTC date is ahead of the local one: 0 or 1
    Delays,     \* values of delay_days
    Shares,     \* settings the user may choose: rewatch shares below 100 %
    Intervals,  \* and watch paces
    MaxWatches, \* bound on the watches logged
    Rates,      \* watches a day that the projection is asked for, as floats
    Horizon     \* days it runs

ASSUME DueListAssumption ==
    /\ IsFiniteSet(Films)
    /\ Films \subseteq Nat /\ Dates \subseteq Nat /\ Dates # {}
    /\ Scores \subseteq 1..10 /\ Unscored \notin Scores
    /\ UtcAhead \in {0, 1} /\ Delays \subseteq Nat /\ 0 \in Delays
    /\ MaxWatches \in Nat
    /\ Films \subseteq DOMAIN FilmData
    /\ \A f \in Films : /\ FilmData[f].runtime_minutes \in Nat \ {0}
                       /\ IsFiniteSet(FilmData[f].tags) /\ FilmData[f].tags \subseteq Nat
    /\ Shares \subseteq 0..99
    /\ Rates \subseteq Nat /\ Horizon \in Nat \ {0}
    /\ \A rate \in Rates : \E g \in Granules : One + rate <= g * Significand /\ One % g = 0
    /\ Intervals \subseteq Nat \cup {Off} /\ 0 \notin Intervals

VARIABLES
    today,   \* the local date
    history, \* history[f]: the rating entries of f in the order they were logged; none when
             \* f is not in the library
    marks    \* marks[f]: what the user has set on f

vars == <<today, history, marks>>

Watch == [value : Scores \cup {Unscored}, day : Dates \cup {EARLIER_WATCH_DATE}]
Marks == [is_favorite : BOOLEAN, delay_days : Delays]
NoMarks == [is_favorite |-> FALSE, delay_days |-> 0]

Library == {f \in Films : history[f] # <<>>}
WatchesLogged == MapThenSumSet(LAMBDA f : Len(history[f]), Films)

TypeOK ==
    /\ today \in Dates
    /\ history \in [Films -> Seq(Watch)]
    /\ marks \in [Films -> Marks]
    /\ \A f \in Films \ Library : marks[f] = NoMarks

Init ==
    /\ today = Min(Dates)
    /\ history = [f \in Films |-> <<>>]
    /\ marks = [f \in Films |-> NoMarks]

-----------------------------------------------------------------------------
(* Operations *)

Tick == today' \in {d \in Dates : d > today} /\ UNCHANGED <<history, marks>>

\* RatingService.add_entry: FutureWatchDateError goes by the UTC date.
LogWatch(f, w) ==
    /\ WatchesLogged < MaxWatches
    /\ w.day <= today + UtcAhead
    /\ history' = [history EXCEPT ![f] = Append(@, w)]
    /\ UNCHANGED <<today, marks>>

\* FilmService.delete_rating: the film goes with its last watch.
MarksLeft(f) == marks
MarksAfterDelete(f) == IF Len(history[f]) = 1 THEN [marks EXCEPT ![f] = NoMarks] ELSE marks
DeleteWatch(f, i) ==
    /\ history' = [history EXCEPT ![f] = RemoveAt(@, i)]
    /\ marks' = MarksAfterDelete(f)
    /\ UNCHANGED today

\* FilmService.update
EditFilm(f, m) ==
    /\ f \in Library
    /\ marks' = [marks EXCEPT ![f] = m]
    /\ UNCHANGED <<today, history>>

Next ==
    \/ Tick
    \/ \E f \in Films, w \in Watch : LogWatch(f, w)
    \/ \E f \in Films : \E i \in DOMAIN history[f] : DeleteWatch(f, i)
    \/ \E f \in Films, m \in Marks : EditFilm(f, m)

Spec == Init /\ [][Next]_vars

-----------------------------------------------------------------------------
(* What is computed from them *)

ScoredOf(h) == {i \in DOMAIN h : h[i].value # Unscored}

\* MAX(watch_date)
FirstWatched(h) == Min({h[i].day : i \in DOMAIN h})
LastWatched(h) == Max({h[i].day : i \in DOMAIN h})

\* AVG(value), which skips the watches without a score, and COUNT(id), which does not.
collect_input(f) ==
    LET h == history[f]
    IN  [half_stars |-> MapThenSumSet(LAMBDA i : h[i].value, ScoredOf(h)),
         rated |-> Cardinality(ScoredOf(h)), watch_count |-> Len(h),
         last_watched_date |-> LastWatched(h), is_favorite |-> marks[f].is_favorite,
         delay_days |-> marks[f].delay_days,
         runtime_minutes |-> FilmData[f].runtime_minutes]

DueOn(f) == due_date(collect_input(f))

collect_inputs == [f \in Library |-> collect_input(f)]
due_list == suggest(collect_inputs, today)

Log == UNION {{[film |-> f, day |-> history[f][i].day, value |-> history[f][i].value, entry |-> i] :
                  i \in DOMAIN history[f]} : f \in Films}

\* The counts of this calendar year; a year without a block has none.
ThisYear ==
    LET stats == compute(Log, today)
    IN  IF YearOf(today) \in DOMAIN stats.years THEN stats.years[YearOf(today)] ELSE block({}, 0)

cap(share, interval) ==
    rewatchCap(share, ThisYear.watches, ThisYear.rewatches, interval, today)

-----------------------------------------------------------------------------
(* Properties *)

\* "A five-star favourite can come due in six months, the one place nothing holds it to a
\* year": whatever else its history holds, a film is not suggested within half a year of its
\* last watch, nor within a year when it is no favourite.
JustWatchedIsNotDue ==
    \A f \in ToSet(due_list) :
        \A i \in DOMAIN history[f] :
            history[f][i].day + (IF marks[f].is_favorite THEN 183 ELSE 365) <= today

\* A better rated film comes back no later than one that is worse rated, or not rated at all,
\* when they are as long and were watched as often and as lately.
RatingOrdersTheWait ==
    \A f, g \in Library :
        LET a == collect_input(f)
            b == collect_input(g)
        IN  /\ marks[f] = marks[g]
            /\ a.runtime_minutes = b.runtime_minutes
            /\ a.watch_count = b.watch_count
            /\ a.last_watched_date = b.last_watched_date
            /\ Scored(a)
            /\ Scored(b) => a.half_stars * b.rated >= b.half_stars * a.rated
            => DueOn(f) <= DueOn(g)

\* The year blocks and the watches without a date make up the all-time block, in every sum
\* the page shows, and the months make up their year, also when a watch is dated after the
\* turn of a year the local clock has yet to reach.
YearsAddUp ==
    LET log == Log
        stats == compute(log, today)
        Years == DOMAIN stats.years
        undated == log \ dated(log)
        Total(Field(_)) == MapThenSumSet(LAMBDA y : Field(InYear(log, y)), Years) + Field(undated)
        Rated(value) == Total(LAMBDA watches : rating_distribution(watches)[value])
    IN  /\ stats.total.watches
             = MapThenSumSet(LAMBDA y : stats.years[y].watches, Years) + Cardinality(undated)
        /\ stats.total.rewatches
             = MapThenSumSet(LAMBDA y : stats.years[y].rewatches, Years) + Cardinality(undated)
        /\ minutes_watched(log) = Total(minutes_watched)
        /\ \A value \in Scores : rating_distribution(log)[value] = Rated(value)
        /\ \A y \in Years :
             /\ stats.years[y].rewatches >= 0
             /\ stats.years[y].watches
                  = MapThenSumSet(LAMBDA m : buckets(InYear(log, y))[m], 1..12)
             /\ distinct_films(InYear(log, y)) + stats.years[y].rewatches
                  >= stats.years[y].watches
             /\ films_released_that_year(InYear(log, y), y) <= distinct_films(InYear(log, y))

\* A key is ahead of another in a top list.
Ahead(list, k, m) ==
    \E i, j \in DOMAIN list : i < j /\ list[i].key = k /\ list[j].key = m
KeepsItsPlace(keys, f) ==
    LET before == top_scored(Log, keys)
        after == top_scored(Log', keys)
        own == keys[f]
    IN  \A i, j \in DOMAIN before :
          LET k == before[i].key
              m == before[j].key
          IN  i < j /\ k \in own /\ m \notin own /\ m \in {after[n].key : n \in DOMAIN after}
                => Ahead(after, k, m)

\* "An unrated watch is never imputed a value": watching a film again without rating it puts
\* neither the film nor one of its tags behind one it was ahead of.
UnratedWatchNeverDemotes ==
    [][\A f \in Library :
         Len(history'[f]) > Len(history[f]) /\ Last(history'[f]).value = Unscored
           => KeepsItsPlace(film_keys, f) /\ KeepsItsPlace(tag_keys, f)]_vars

\* Watching a suggested film counts as one of the rewatches the cap still asks for, under
\* either rule: the cap falls by exactly one, until it is zero.
CapCountsDown ==
    [][\A f \in Library :
         Len(history'[f]) > Len(history[f]) /\ Last(history'[f]).day = today
           /\ f \in ToSet(due_list)
         => \A s \in Shares, n \in Intervals :
              cap(s, n)' = IF cap(s, n) > 0 THEN cap(s, n) - 1 ELSE 0]_vars

\* "The fewest additional rewatches still needed for rewatches / watches to reach share", and
\* with a pace, to reach the share of the watches the pace calls for.
CapIsFewest ==
    LET year == ThisYear
    IN  \A s \in Shares, n \in Intervals :
          LET Reached(k) ==
                100 * (year.rewatches + k)
                  >= s * (IF n = Off THEN year.watches + k ELSE expectedWatches(n, today))
              k == cap(s, n)
          IN  Reached(k) /\ (k > 0 => ~Reached(k - 1))

\* The projection's viewer is "rewatch-first: every watch goes to the most overdue film, and
\* only a day with nothing due is spent on something new": when new films were watched on the
\* last day of a run, every other film is at rest by its end.  And the day of the first new
\* film does not depend on the film that is drawn.
RewatchesComeFirst ==
    \A rate \in IF Library = {} THEN {} ELSE Rates : \A days \in 1..Horizon :
        LET last == today + days - 1
            runs == project(collect_inputs, rate, today, last)
        IN  /\ Cardinality({run.first_dry : run \in runs}) = 1
            /\ \A run \in runs :
                 (\E f \in DOMAIN run.state \ Library :
                    run.state[f].last_watched_date = last /\ run.state[f].watch_count = 1)
                   => suggest(run.state, last) = <<>>

\* The budget "turns a fractional daily rate into whole watches", though not "without ever
\* losing a fraction", for the sums are rounded: what is spent and what is left differ from
\* what has accrued by at most half the distance between neighbouring floats for each day, and
\* less than a watch is left.
Drift(run, rate, days) ==
    (run.rewatches + run.new_watches) * One + run.budget - days * rate
InStep(run, rate, days) ==
    LET leeway == days * Granule(One + rate)
    IN  -leeway <= 2 * Drift(run, rate, days) /\ 2 * Drift(run, rate, days) <= leeway
RateIsKept ==
    \A rate \in IF Library = {} THEN {} ELSE Rates : \A days \in 1..Horizon :
        \A run \in project(collect_inputs, rate, today, today + days - 1) :
            run.budget < One /\ InStep(run, rate, days)
=============================================================================
