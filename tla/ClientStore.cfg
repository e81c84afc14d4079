\* Two writes in flight over one film and two watches, and the settings.
SPECIFICATION Spec
CONSTANTS
    Films = {f1}
    Marks = {m1, m2}
    Entries = {e1, e2}
    Slots = {s1, s2}
    Shares = {50}
    Intervals = {7}
    Off = Off
    Absent = Absent
CONSTRAINT OneAtATime
SYMMETRY Symmetry
INVARIANTS TypeOK SettledStoreIsServer GoneStaysGone
PROPERTY OneSettingAtATime
