SPECIFICATION Spec

CONSTANTS
    Operands = {0, 4}
    DrNumbers <- MCDrNumbers
    Msrs = {}
    Missing = {}
    Xcrs = {}
    Refused = {}
    CpuInfos <- MCCpuInfos
    Words <- MCWords
    Lengths = {2}
    RipModulus = 3

PROPERTY
    GprReceivesDr

\* A guest does not go on once the monitor has faulted or lost its stack.
CHECK_DEADLOCK FALSE
