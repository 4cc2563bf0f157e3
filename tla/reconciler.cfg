SPECIFICATION FairSpec

CONSTANTS
    m = m
    p = p
    Nodes = {m}
    Master = m
    Modes = {FALSE}
    ManualGate = FALSE
    Staged = TRUE
    PrefetchMayFail = TRUE
    Lossy = {}
    SelPoll = TRUE
    Observes = {}
    Operator = {"release"}
    MaxStarts = 1
    MaxFaults = 1
    MaxRekicks = 0
    MaxApplyReboots = 1

PROPERTY
    LostGatesReturn

CHECK_DEADLOCK FALSE
