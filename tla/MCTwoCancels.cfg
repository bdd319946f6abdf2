\* A single task, to show a SIGKILL that the second request wipes from the record.
CONSTANTS
    t1 = t1
    c1 = c1
    c2 = c2
    Tasks = {t1}
    Cancelers = {c1, c2}
    CursorIds = {}
    Foreign = {}
    Faults = {}
    UseGraph = TRUE
    MaxCrashes = 0
SPECIFICATION Spec
INVARIANTS
    SigkillIsReported
\* Finished tasks and requests leave nothing to do: the daemon waits for work.
CHECK_DEADLOCK FALSE
