SPECIFICATION CrewSpec
CONSTANTS
    s1 = s1
    s2 = s2
    t1 = t1
    NoStem = NoStem
    NoTrack = NoTrack
    Never = Never
    Stem = {s1, s2}
    Track = {t1}
    Library = {s1}
    TrackOf <- TrackOfAll
    Embedded <- EmbeddedIn
    MaxVersion = 1
INVARIANTS
    SidecarTypeOK
    
    
    SkipsOnlyFailed
PROPERTIES
    ScanKeepsSidecars
CHECK_DEADLOCK FALSE
