\* One command, every host, to show a key file of the fallback that is not read.
CONSTANTS
    Keepers = {"p1"}
    Keys = {"k1"}
    Surroundings <- Environments
SPECIFICATION CredentialsSpec
INVARIANTS
    FallbackOutranksWorkspace
\* The command ends.
CHECK_DEADLOCK FALSE
