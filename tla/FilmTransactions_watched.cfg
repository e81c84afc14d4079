\* Two overlapping requests leave a film without a watch.
\* Two overlapping requests.
SPECIFICATION Spec
CONSTANTS
    Requests = {r1, r2}
    FilmIds = {f1, f2}
    RatingIds = {w1, w2}
    alien = alien
    ALIEN = ALIEN
    heat = heat
    scott = scott
    mann = mann
    Titles <- MCTwoTitles
    Directors <- MCOneDirector
    Fold <- MCFold
    Folded <- MCFolded
    NoFilm = NoFilm
    NoRating = NoRating
    Keep = Keep
INVARIANT EveryFilmWatched
