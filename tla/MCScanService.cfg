SPECIFICATION ServiceSpec
CONSTANTS
    d1 = d1
    d2 = d2
    lib = lib
    Dir = {d1, d2}
    Outside = out
    None = none
    eventBuffer = 1
    MaxEvents = 3
    Library = {lib}
    LibraryOf <- OneLibrary
INVARIANTS
    NoLostEvent
PROPERTIES
    ChangesScanned
    ShutdownEnds
CHECK_DEADLOCK FALSE
