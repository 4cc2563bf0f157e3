SPECIFICATION Spec

CONSTANTS
    m = m
    p = p
    Nodes = {m, p}
    Master = m
    Modes = {TRUE}
    ManualGate = FALSE
    Staged = TRUE
    PrefetchMayFail = FALSE
    Lossy = {}
    SelPoll = FALSE
    Observes = {}
    Operator = {"rekick"}
    MaxStarts = 1
    MaxFaults = 0
    MaxRekicks = 1
    MaxApplyReboots = 0

PROPERTY
    NextIsSafe
    FinalizeLast

CHECK_DEADLOCK FALSE
