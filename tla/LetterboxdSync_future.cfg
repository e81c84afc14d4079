\* An entry skipped as future is never queued.
SPECIFICATION Spec
CONSTANTS
    Scheduler = sc
    Syncs = {sc, ma}
    Requests = {r1}
    Entries = {e1, e2}
    Diary = {x1}
    Films = {f1}
    LastDay = 1
    Ahead = 1
    SameDay = FALSE
    ByHand = FALSE
    NoFilm = NoFilm
INVARIANT NothingMissed
