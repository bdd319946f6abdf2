\* One task and two cancel requests; dispatch may fail; fair threads.
CONSTANTS
    t1 = t1
    c1 = c1
    c2 = c2
    Tasks = {t1}
    Cancelers = {c1, c2}
    CursorIds = {}
    Foreign = {}
    Faults = {"popen", "dispatch_row"}
    UseGraph = TRUE
    MaxCrashes = 0
SPECIFICATION FairSpec
INVARIANTS
    SignalDeathIsCanceled
    SoleSigkillIsReported
    CancelSticks
    StoreFollowsVerdict
PROPERTIES
    CancelEnds
    ExitEndsGraph
\* Finished tasks and requests leave nothing to do: the daemon waits for work.
CHECK_DEADLOCK FALSE
