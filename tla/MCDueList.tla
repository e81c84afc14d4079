----------------------------- MODULE MCDueList ------------------------------
(* DueList on two films and three watches; the clock crosses one new year by a day.  The    *)
(* films share a tag, and have six tags between them: one more than a top list holds.       *)
(* Floats are sixteenths, up to 16 of them; from there on even ones, from 32 on multiples of *)
(* four.  22 sixteenths a day make one, one and two watches, and the third sum is rounded.   *)
EXTENDS DueList

MCDates == {364, 365, 640}
MCIntervals == {Off, 100}
MCRates == {22}
MCGranules == {1, 2, 4}
MCFilmData ==
    <<[release_year |-> 0, runtime_minutes |-> 90, tags |-> {1, 2, 3, 4}],
      [release_year |-> 1, runtime_minutes |-> 90, tags |-> {4, 5, 6}]>>
=============================================================================
