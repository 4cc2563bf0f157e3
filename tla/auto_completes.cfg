SPECIFICATION FairSpec

CONSTANTS
    m = m
    p = p
    Nodes = {m, p}
    Master = m
    Modes = {FALSE}
    ManualGate = FALSE
    Staged = TRUE
    PrefetchMayFail = FALSE
    Lossy = {}
    SelPoll = TRUE
    Observes = {}
    Operator = {}
    MaxStarts = 1
    MaxFaults = 0
    MaxRekicks = 0
    MaxApplyReboots = 0

PROPERTY
    AutoCompletes

CHECK_DEADLOCK FALSE
