SPECIFICATION Spec

CONSTANTS
    m = m
    p = p
    Nodes = {m}
    Master = m
    Modes = {FALSE}
    ManualGate = FALSE
    Staged = TRUE
    PrefetchMayFail = FALSE
    Lossy = {m}
    SelPoll = TRUE
    Observes = {}
    Operator = {}
    MaxStarts = 1
    MaxFaults = 0
    MaxRekicks = 0
    MaxApplyReboots = 0

PROPERTY
    RebootsToDisk

CHECK_DEADLOCK FALSE
