SPECIFICATION Spec
CONSTANTS
    appfw = appfw
    cmp = cmp
    c1 = c1
    c2 = c2
    Modules = {appfw, cmp}
    AppFW = appfw
    Work = 1
    Callers = {c1, c2}
    MaxLaunches = 2
    MaxFaults = 1
INVARIANTS EnterpriseTypeOK OneRunner DoneIsComplete ClosedOnce DiskIsCurrent
CHECK_DEADLOCK FALSE
SYMMETRY CallerSymmetry
CONSTRAINT Bound
