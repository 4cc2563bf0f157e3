SPECIFICATION Spec

CONSTANTS
    m = m
    p = p
    Nodes = {m, p}
    Master = m
    Modes = {FALSE}
    ManualGate = FALSE
    Staged = TRUE
    PrefetchMayFail = FALSE
    Lossy = {m}
    SelPoll = TRUE
    Observes = {}
    Operator = {}
    MaxStarts = 1
    MaxFaults = 0
    MaxRekicks = 0
    MaxApplyReboots = 0

INVARIANT
    TypeOK
    MasterFirst
    DoneIsReal
    RolloutInv
PROPERTY
    RolloutSpec

CHECK_DEADLOCK FALSE
