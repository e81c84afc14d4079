\* One request at a time.
SPECIFICATION Spec
CONSTANTS
    Requests = {r1}
    FilmIds = {f1, f2}
    RatingIds = {w1, w2, w3}
    alien = alien
    ALIEN = ALIEN
    heat = heat
    scott = scott
    mann = mann
    Titles <- MCTitles
    Directors <- MCDirectors
    Fold <- MCFold
    Folded <- MCFolded
    NoFilm = NoFilm
    NoRating = NoRating
    Keep = Keep
INVARIANTS EveryFilmWatched KeyMatchesParts
PROPERTIES RatingDeletionTakesOnlyItsWatch LibrarySpec
