\* Two requests that may overlap each other, over a midnight; a film is due today, tomorrow or
\* later.
SPECIFICATION Spec
CONSTANTS
    Requests = {r1, r2}
    Films = {f1, f2}
    LastDay = 1
    Gone = Gone
    NoRow = NoRow
INVARIANTS TypeOK ListedFilmsExist FreshStampMeansCurrent ServedListIsCurrent
