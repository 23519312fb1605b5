SPECIFICATION Spec
CONSTANTS
    PageSize = 2
    SectorSize = 4
    Sectors = 2
    AddrSpace = 16
    Bits <- MCBits
    Data <- MCData
    InitialContents <- MCAll
INVARIANTS TypeOK PageFits ProgramsErased CommandsAccepted
PROPERTIES ImplementsStore WriteReturns
