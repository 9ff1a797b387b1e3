CONSTANTS
    Frames <- MCLongFrames
    MaxFrames = 1
SPECIFICATION FairSpec
PROPERTY WritesEnd
CHECK_DEADLOCK FALSE
