\* The services of popolad, each in turn, under the fairness of each.
CONSTANTS
    f1 = f1
    Followers = {f1}
    Starts = {0, 1}
    MaxEvents = 4
    MaxCrashes = 2
    d1 = d1
    d2 = d2
    k1 = k1
    Drainers = {k1}
    Dispatches = {d1, d2}
    MaxRuns = 2
    MaxWait = TRUE
    QueueFaults = {"poll", "invoke"}
    FrameIds = {"a", "b", "c"}
    LruMax = 2
    FlushEvery = 2
    MaxFrames = 5
    MaxRestarts = 3
    MaxLives = 4
    MaxLines = 1
    s1 = s1
    s2 = s2
    Subscribers = {s1, s2}
    MaxClis = 4
    e1 = e1
    e2 = e2
    e3 = e3
    NoFile = NoFile
    Envelopes = {e1, e2, e3}
SPECIFICATION ServicesFairSpec
INVARIANTS
    ServicesTypeOK
    SentAsWritten
    EndedSawAll
    OnePlace
    SeenFramesAreDropped
    TerminalAfterOutput
    PrimitivesAnswerTruly
    UndisturbedEnvelopeIsWhole
PROPERTIES
    SyncedInTheEnd
    EntryEnds
    AttachLeaves
    DeathIsAnswered
\* When there is nothing left to do the daemon waits for work.
CHECK_DEADLOCK FALSE
