\* Two films, three watches, days on both sides of a new year and seven months on.
SPECIFICATION Spec
CONSTANTS
    Films = {1, 2}
    Scores = {1, 10}
    Unscored = Unscored
    FilmData <- MCFilmData
    Dates <- MCDates
    UtcAhead = 1
    Delays = {0}
    Shares = {30, 70}
    Intervals <- MCIntervals
    MaxWatches = 3
    Rates <- MCRates
    One = 16
    Significand = 16
    Granules <- MCGranules
    Horizon = 3
INVARIANTS TypeOK JustWatchedIsNotDue RatingOrdersTheWait YearsAddUp CapIsFewest RewatchesComeFirst RateIsKept
PROPERTIES UnratedWatchNeverDemotes CapCountsDown
