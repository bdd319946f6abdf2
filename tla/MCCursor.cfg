\* A single task, to show the cancel of a local cursor task refused.
CONSTANTS
    t1 = t1
    c1 = c1
    Tasks = {t1}
    Cancelers = {c1}
    CursorIds = {t1}
    Foreign = {}
    Faults = {}
    UseGraph = TRUE
    MaxCrashes = 0
SPECIFICATION Spec
PROPERTIES
    CancelSignalsLiveProcess
\* Finished tasks and requests leave nothing to do: the daemon waits for work.
CHECK_DEADLOCK FALSE
