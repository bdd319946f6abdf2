\* Both paths, two cancel requests, every failure; two questions, two humans; fair threads.
CONSTANTS
    c1 = c1
    c2 = c2
    Cancelers = {c1, c2}
    Paths = {"rest", "jwt"}
    MaxPolls = 2
    RetryMax = 2
    Faults = {"create", "get_run", "unknown_phase", "cancel_run", "no_key"}
    q1 = q1
    q2 = q2
    h1 = h1
    h2 = h2
    Nobody = Nobody
    Calls = {q1, q2}
    Humans = {h1, h2}
    Channels = {"lark", "store", "cloud"}
    HitlFaults = {"lark", "render"}
SPECIFICATION RemoteFairSpec
INVARIANTS
    RunBrackets
    AcceptedNeverCompletes
    StoreFollowsRun
    TrailTellsTheEnd
PROPERTIES
    PathBTerminalIsFinal
    PollEnds
    CallEnds
    KeepsContract
\* The task, the requests and the calls end.
CHECK_DEADLOCK FALSE
