CONSTANTS
    Cr0Bits <- MCCr0Bits
    Cr4Bits <- MCCr4Bits
    Addresses <- MCAddresses
    ZeroAddress = zero
    OtherAddress = other
SPECIFICATION Spec
CHECK_DEADLOCK FALSE
INVARIANTS
    TypeOK
    EntryStaysLegal
    NamedRegisterWritten
PROPERTY
    ReadsAreCurrent
