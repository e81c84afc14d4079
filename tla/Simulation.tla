----------------------------- MODULE Simulation -----------------------------
(***************************************************************************)
(* The projection of backend/simulate/__main__.py: a viewer who spends     *)
(* every watch on the most overdue film, and a day's watches on new films  *)
(* once nothing is due.  Which film a new one is shaped like is random, so *)
(* an operator gives the set of the runs that can result.                  *)
(*                                                                         *)
(* The rate and the budget are floats, natural numbers here: they count    *)
(* units of the smallest float.  A sum is rounded to a float, half to      *)
(* even.  A double has One = 2^1074 and Significand = 2^53.                *)
(***************************************************************************)
EXTENDS RewatchAlgorithm, FiniteSets, FiniteSetsExt, Sequences

CONSTANTS
    One,         \* the units of 1.0
    Significand, \* the multiples of one power of two that floats tell apart
    Granules     \* powers of two: the distances between neighbouring floats

ASSUME FloatAssumption ==
    One \in Nat \ {0} /\ Significand \in Nat \ {0} /\ Granules \subseteq Nat \ {0}

\* The distance between the floats around n, and the float that the sum n becomes.
Granule(n) == Min({g \in Granules : n <= g * Significand})
Rounded(n) == RoundHalfEven(n, Granule(n)) * Granule(n)

WithOldDate(film, day) == [film EXCEPT !.watch_count = @ + 1]
rewatched(film, day) ==
    [film EXCEPT !.watch_count = @ + 1, !.last_watched_date = day]

\* average_rating and runtime are borrowed.
newly_watched(profile, day) ==
    [profile EXCEPT !.watch_count = 1, !.delay_days = 0, !.last_watched_date = day]

Run == [state : UNION {[S -> RewatchInput] : S \in SUBSET Nat}, due : Seq(Nat), budget : Nat,
        rewatches : Nat, new_watches : Nat, first_dry : Int]
NeverDry == -1

StartRun(library) ==
    [state |-> library, due |-> <<>>, budget |-> 0, rewatches |-> 0, new_watches |-> 0,
     first_dry |-> NeverDry]

\* A new id: past all others, so that the ties of a new film are broken one way.
NewId(run) == Max(DOMAIN run.state) + 1

\* state[id] = film, of a new id or an old one.
Stored(state, id, film) ==
    [f \in DOMAIN state \cup {id} |-> IF f = id THEN film ELSE state[f]]

\* One watch of the day: the runs it leads to.
Watched(run, library, day) ==
    IF run.due # <<>>
      THEN {[run EXCEPT !.state[Head(run.due)] = rewatched(@, day), !.due = Tail(@),
                        !.rewatches = @ + 1]}
      ELSE {[run EXCEPT !.state = Stored(@, NewId(run), newly_watched(library[p], day)),
                        !.new_watches = @ + 1,
                        !.first_dry = IF @ = NeverDry THEN day ELSE @] : p \in DOMAIN library}

\* A day: the budget accrues the rate, and is spent while it holds a whole watch.  (Taking 1.0
\* off is exact, while a day's watches are fewer than Significand.)
Emptied(budget) == 0
Kept(budget) == budget % One
Day(run, library, rate, day) ==
    LET budget == Rounded(run.budget + rate)
        morning == [run EXCEPT !.due = suggest(run.state, day), !.budget = Kept(budget)]
        After[k \in 0..(budget \div One)] ==
            IF k = 0 THEN {morning} ELSE UNION {Watched(r, library, day) : r \in After[k - 1]}
    IN  After[budget \div One]

\* The runs from today up to the end of final_day.
project(library, rate, today, final_day) ==
    LET Until[day \in (today - 1)..final_day] ==
            IF day < today THEN {StartRun(library)}
            ELSE UNION {Day(run, library, rate, day) : run \in Until[day - 1]}
    IN  Until[final_day]
=============================================================================
