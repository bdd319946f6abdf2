\* A single task, to show a finished task recovered by a restart.
CONSTANTS
    t1 = t1
    c1 = c1
    Tasks = {t1}
    Cancelers = {c1}
    CursorIds = {}
    Foreign = {}
    Faults = {}
    UseGraph = TRUE
    MaxCrashes = 1
SPECIFICATION Spec
INVARIANTS
    NoFinishedTaskRevived
\* Finished tasks and requests leave nothing to do: the daemon waits for work.
CHECK_DEADLOCK FALSE
