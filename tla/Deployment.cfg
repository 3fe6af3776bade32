SPECIFICATION Spec
CONSTANTS
    ProbDoc <- MCProbDoc
    ImageData <- MCImageData
    OGRows <- MCOGRows
    NameDoc <- MCNameDoc
    SliceCount = 3
    Colors <- MCColors
    Sizes <- MCSizes
    MaxPixels = 8
    ByteMax = 3
    Palettes <- MCPalettes
    FlagSets <- MCFlagSets
    MaxFaults = 2
    MaxRefusals = 1
    MaxReruns = 1
\* A task ends, and a seed is drawn once.
CHECK_DEADLOCK FALSE
INVARIANTS
    DeployedRight
    SeedsSound
    OriginalsKnown
    PicturesExact
PROPERTIES
    Completes
