\* The diary reaches the review list, and no entry of a feed is passed over, while watches
\* are logged only by way of the review list.
SPECIFICATION FairSpec
CONSTANTS
    Scheduler = sc
    Syncs = {sc, ma}
    Requests = {r1}
    Entries = {e1, e2}
    Diary = {x1}
    Films = {f1}
    LastDay = 1
    Ahead = 0
    SameDay = FALSE
    ByHand = FALSE
    NoFilm = NoFilm
INVARIANT NothingMissed
PROPERTY EveryEntryArrives
