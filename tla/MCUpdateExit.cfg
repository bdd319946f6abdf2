\* One command, to show an update that succeeds and exits 3.
CONSTANTS
    MaxVersion = 2
    MaxCommands = 1
SPECIFICATION UpdateSpec
INVARIANTS
    ExitThreeMeansStale
\* The command ends.
CHECK_DEADLOCK FALSE
