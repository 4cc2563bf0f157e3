\* One machine, inspected twice and deployed once.
SPECIFICATION FairSpec
CONSTANTS
    Machines = {a}
    Flipper = TRUE
    MaxInspects = 2
    MaxFaults = 2
INVARIANTS InspectTypeOK FailsByOwnTimer BootsDiskAfterwards ImageIsHeld InspectNeverRestores
PROPERTIES InspectEnds InspectHalts
CHECK_DEADLOCK FALSE
