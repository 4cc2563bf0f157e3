\* Two runs, with two faults between them.
SPECIFICATION FairSpec
CONSTANTS
    AppFW = appfw
    cmp = cmp
    Apps <- OneApp
    Sidecar = TRUE
    MaxFaults = 2
INVARIANTS AppFrameworkTypeOK NoRecreate ImageIsWhole ShownIsTrue
PROPERTY InstallCompletes
