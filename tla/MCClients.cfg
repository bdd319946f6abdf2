\* The processes of the command line, each kind in turn; no fairness.
CONSTANTS
    Cursor = "cursor"
    Claude = "claude"
    MaxRetries = 2
    BaseBackoff = 4
    MaxBackoff = 6
    ServerWaits = {20}
    Keepers = {"p1", "p2"}
    Keys = {"k1", "k2"}
    Surroundings <- Hosts
    Commanders = {"c1", "c2", "c3"}
    None = None
    DaemonFaults = {"crash", "config", "reuse", "slow"}
    Editors = {"p1", "p2"}
    PrefsFaults = {"disk", "kill"}
    Relays = {"r1", "r2"}
    RelayFaults = {"disk", "kill"}
    Starters = {"s1", "s2"}
    Named = {"s1"}
    CustomName = "custom"
    DefaultName = "default"
    MaxVersion = 2
    MaxCommands = 2
SPECIFICATION ClientsSpec
INVARIANTS
    ClientsTypeOK
    NoSilentFallback
    RetryOnlyWhatMayPass
    OneReachableDaemon
    RequestIsAccountedFor
    SuccessIsNotRepeated
    ExitZeroMeansDone
PROPERTIES
    UndisturbedEditIsAtomic
    WorkerIsAsSaid
    KeysAreAsSaid
\* Each command ends.
CHECK_DEADLOCK FALSE
