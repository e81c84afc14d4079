\* A write that overlaps a run is lost for the rest of the day, which does not turn.
SPECIFICATION Spec
CONSTANTS
    Requests = {r1, r2}
    Films = {f1, f2}
    LastDay = 0
    Gone = Gone
    NoRow = NoRow
INVARIANT NextReadIsCurrent
