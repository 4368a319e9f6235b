SPECIFICATION Spec

CONSTANTS
    Fields <- MCFields
    Width <- MCWidth
    Halves = {0, 1}

INVARIANTS
    TypeOK
    SuccessIsZero
    SuccessMeansAllOfIt
    FailedWriteKeepsHighHalf
    LaunchErrorIsReported
