\* Two requests or script runs over one film with two genres and two posters.
SPECIFICATION Spec
CONSTANTS
    Requests = {r1, r2}
    Texts = {"a", "b"}
    Posters = {"p", "q"}
    Genres = {"crime", "drama"}
    Alphabet <- MCAlphabet
    Blank = Blank
    Edits <- MCEdits
    NotNamed = NotNamed
    None = None
SYMMETRY Symmetry
INVARIANTS TypeOK TitlesAreOneList PaletteIsOfPoster
PROPERTIES EditIsWholeOrNothing AloneNeverFails
