SPECIFICATION FairSpec

CONSTANTS
    NumberProcessors = 3
    X64 = TRUE
    EntryFailures = TRUE

INVARIANTS
    TypeOK
    DpcDescribesItsProcessor
    StackFramesOutliveTheirUsers
    FailedLoadLeavesNothing
    OneProcessorAtATime
    VmxInstructionsAreLegal
    NoneOrAll
    VmcsBelongsToItsProcessor
    NoLostWakeup

PROPERTIES
    EveryStepProgresses
    ImplementsBringUp
    BringUpCompletes

\* The system stops: DriverEntry waits for ever and the guests are not modelled here.
CHECK_DEADLOCK FALSE
