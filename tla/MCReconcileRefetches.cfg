SPECIFICATION CrewSpec
CONSTANTS
    s1 = s1
    s2 = s2
    t1 = t1
    NoStem = NoStem
    NoTrack = NoTrack
    Never = Never
    Stem = {s1}
    Track = {t1}
    Library = {s1}
    TrackOf <- TrackOfAll
    Embedded <- EmbeddedIn
    MaxVersion = 1
INVARIANT
    ReconcileRefetches
CHECK_DEADLOCK FALSE
