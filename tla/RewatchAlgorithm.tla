-------------------------- MODULE RewatchAlgorithm --------------------------
(***************************************************************************)
(* The scoring of backend/app/rewatch/algorithm.py: how long after its     *)
(* last watch a film becomes due again.  Ratings are counted in half stars *)
(* (1..10), which is the algorithm's own scale, so an average rating is    *)
(* the pair of the sum and the number of the scores.  Days are integers.   *)
(***************************************************************************)
EXTENDS Integers, Ranking

DAYS_PER_YEAR == 365
UNRATED_SCALED_RATING == 0

\* A film of the input.  No watch of it is scored when rated is 0; otherwise every score is
\* between half a star and five.
RewatchInput ==
    [half_stars : Nat, rated : Nat, watch_count : Nat, last_watched_date : Int,
     is_favorite : BOOLEAN, delay_days : Nat, runtime_minutes : Nat]

Scored(item) == item.rated > 0
WellRated(item) == item.half_stars \in item.rated..(10 * item.rated)

\* Python's round() of the quotient s / n: to the nearest integer, a tie to the even one.
RoundHalfEven(s, n) ==
    LET q == s \div n
        r == 2 * (s % n)
    IN  IF r < n \/ (r = n /\ q % 2 = 0) THEN q ELSE q + 1

UnratedAsAverage(item) == IF Scored(item) THEN RoundHalfEven(item.half_stars, item.rated) ELSE 5
scaled_rating(item) ==
    IF Scored(item) THEN RoundHalfEven(item.half_stars, item.rated) ELSE UNRATED_SCALED_RATING

ReverseRating(scaled) == IF 10 - scaled > 1 THEN 10 - scaled ELSE 1
BaseDays(scaled) == (6 - ((scaled + 1) \div 2)) * DAYS_PER_YEAR
Spacing(scaled, count, runtime) == (count + ReverseRating(scaled)) * (ReverseRating(scaled) * runtime)
Halved(total) == (total + 1) \div 2

\* interval_days, of the scaled rating.
Interval(scaled, count, runtime, favorite) ==
    LET total == BaseDays(scaled) + Spacing(scaled, count, runtime)
    IN  IF favorite THEN Halved(total) ELSE total

interval_days(item) ==
    Interval(scaled_rating(item), item.watch_count, item.runtime_minutes, item.is_favorite)

\* The day the film falls due, and whether it has by today.
due_date(item) == item.last_watched_date + interval_days(item) + item.delay_days
IsDue(item, today) == due_date(item) <= today

\* suggest, over a function from film ids to their inputs: the films due, the most overdue
\* first, a tie by id.
suggest(inputs, today) ==
    Ranked({f \in DOMAIN inputs : IsDue(inputs[f], today)},
           LAMBDA f, g : \/ due_date(inputs[f]) < due_date(inputs[g])
                         \/ due_date(inputs[f]) = due_date(inputs[g]) /\ f < g)
=============================================================================
