CONSTANTS
    PageShift = 12
    LargeShift = 21
    PerPage = 2
    MtrrMaxRangeShift = 23
    WordShift = 22
    HighFrame = 64
    Machines <- MCMachines
    Cpus <- MCCpus
SPECIFICATION Spec
CHECK_DEADLOCK FALSE
INVARIANT RangesAsSetIntoHardware
