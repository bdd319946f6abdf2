\* A popolad task with a cursor- id, a foreign row, two crashes.
CONSTANTS
    t1 = t1
    f1 = f1
    c1 = c1
    Tasks = {t1, f1}
    Cancelers = {c1}
    CursorIds = {t1}
    Foreign = {f1}
    Faults = {"create_task", "popen"}
    UseGraph = TRUE
    MaxCrashes = 2
SPECIFICATION Spec
INVARIANTS
    NoGhostRunning
    DispatchSurvives
\* Finished tasks and requests leave nothing to do: the daemon waits for work.
CHECK_DEADLOCK FALSE
