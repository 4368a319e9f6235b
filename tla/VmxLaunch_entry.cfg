SPECIFICATION FairSpec

CONSTANTS
    NumberProcessors = 2
    X64 = TRUE
    EntryFailures = FALSE

PROPERTY
    DriverEntryReturns

\* The system stops: DriverEntry waits for ever and the guests are not modelled here.
CHECK_DEADLOCK FALSE
