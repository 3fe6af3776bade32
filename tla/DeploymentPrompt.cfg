SPECIFICATION Spec
CONSTANTS
    ProbDoc <- MCProbDoc
    ImageData <- MCImageData
    OGRows <- MCOGRows
    NameDoc <- MCNameDoc
    SliceCount = 3
    Colors <- MCColors
    Sizes <- MCSizes
    MaxPixels = 8
    ByteMax = 3
    Palettes <- MCPalettes
    FlagSets <- MCFlagSets
    MaxFaults = 0
    MaxRefusals = 1
    MaxReruns = 0
CHECK_DEADLOCK FALSE
INVARIANTS
    ObeysOperator
