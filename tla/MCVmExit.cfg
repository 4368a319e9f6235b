SPECIFICATION Spec

CONSTANTS
    Operands = {0}
    DrNumbers <- MCDrNumbers
    Msrs <- MCMsrs
    Missing = {"missing"}
    Xcrs = {"XCR0"}
    Refused <- MCRefused
    CpuInfos <- MCCpuInfos
    Words <- MCWords
    Lengths = {2}
    RipModulus = 3

CONSTRAINT
    OneKind

INVARIANT
    TypeOK

PROPERTIES
    
    SecondMonitorSeesFailure

\* A guest does not go on once the monitor has faulted or lost its stack.
CHECK_DEADLOCK FALSE
