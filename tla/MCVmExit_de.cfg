SPECIFICATION SpecCr4

CONSTANTS
    Operands = {0}
    DrNumbers <- MCDrNumbers
    Msrs = {}
    Missing = {}
    Xcrs = {}
    Refused = {}
    CpuInfos <- MCCpuInfos
    Words <- MCWords
    Lengths = {2}
    RipModulus = 3

PROPERTY
    AliasesFollowCr4
