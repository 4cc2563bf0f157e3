\* Two records, two requests at a time.
SPECIFICATION FairSpec
CONSTANTS
    k1 = k1
    k2 = k2
    None = None
    Ids = {m1, m2}
    Bmcs = {b1}
    Slots <- TwoSlots
    Workers = {w1, w2}
    MaxCalls = 3
    MaxFaults = 1
INVARIANTS MachinesTypeOK OneToOne OneFetch
PROPERTIES RichFactsKept FetchEnds
CHECK_DEADLOCK FALSE
