\* Two overlapping syncs, two requests of the review list, and everything the user may do beside them.
SPECIFICATION Spec
CONSTANTS
    Scheduler = sc
    Syncs = {sc, ma}
    Requests = {r1, r2}
    Entries = {e1, e2}
    Diary = {x1}
    Films = {f1, f2}
    LastDay = 0
    Ahead = 1
    SameDay = TRUE
    ByHand = TRUE
    NoFilm = NoFilm
SYMMETRY Symmetry
INVARIANTS TypeOK QueuedIsNew ActedOnOnce
