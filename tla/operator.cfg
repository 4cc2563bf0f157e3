SPECIFICATION Spec

CONSTANTS
    m = m
    p = p
    Nodes = {m}
    Master = m
    Modes = {FALSE}
    ManualGate = FALSE
    Staged = TRUE
    PrefetchMayFail = FALSE
    Lossy = {}
    SelPoll = FALSE
    Observes = {"imaging", "imaged"}
    Operator = {"cancel", "restart"}
    MaxStarts = 2
    MaxFaults = 1
    MaxRekicks = 0
    MaxApplyReboots = 0

INVARIANT
    AckIsTrue
PROPERTY
    AbortSparesSuccessor
    DoneIsFinal

CHECK_DEADLOCK FALSE
