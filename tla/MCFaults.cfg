\* Two cancel requests, a crash, and the failures that touch the verdict.
CONSTANTS
    t1 = t1
    c1 = c1
    c2 = c2
    Tasks = {t1}
    Cancelers = {c1, c2}
    CursorIds = {}
    Foreign = {}
    Faults = {"wait", "graph"}
    UseGraph = TRUE
    MaxCrashes = 1
SPECIFICATION Spec
SYMMETRY CancelerSymmetry
INVARIANTS
    OneVerdict
PROPERTIES
    KeepsTaskContract
\* Finished tasks and requests leave nothing to do: the daemon waits for work.
CHECK_DEADLOCK FALSE
