CONSTANTS
    Frames <- MCFrames
    MaxFrames = 2
SPECIFICATION FairSpec
INVARIANTS TypeOK InStep
PROPERTIES RefinesChannel WritesEnd
CHECK_DEADLOCK FALSE
