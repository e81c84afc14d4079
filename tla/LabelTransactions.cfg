\* Two requests, overlapping or not.
SPECIFICATION Spec
CONSTANTS
    Requests = {r1, r2}
    Films = {f1, f2}
    LabelIds = {l1, l2}
    Names = {drama, noir}
    None = None
    NoRow = NoRow
    NoLabel = NoLabel
SYMMETRY Symmetry
INVARIANTS TypeOK LabelNamesUnique LinksHaveBothEnds NoOrphanLabels FilmsKeepLabels
PROPERTY EditReplacesLabels
