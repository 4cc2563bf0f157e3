\* A removal of the framework on a cluster where nothing fails; the removal
\* nobody asked for is what MaxFaults counts.
SPECIFICATION Spec
CONSTANTS
    AppFW = appfw
    cmp = cmp
    Apps <- OneApp
    Sidecar = TRUE
    MaxFaults = 1
INVARIANT RemovalForgets
CHECK_DEADLOCK FALSE
