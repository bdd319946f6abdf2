\* One request, to show a canceled task that runs again.
CONSTANTS
    c1 = c1
    Cancelers = {c1}
    Paths = {"rest"}
    MaxPolls = 2
    RetryMax = 1
    Faults = {}
SPECIFICATION Spec
PROPERTIES
    TerminalIsFinal
\* The task and the requests end.
CHECK_DEADLOCK FALSE
