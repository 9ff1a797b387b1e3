CONSTANTS
    Frames <- MCFrames
    PayloadBytes <- MCPayloadBytes
    MaxFrames = 3
    Uninit = Uninit
SPECIFICATION FairSpec
INVARIANTS TypeOK FrameIntegrity Aligned FailsForCause
PROPERTIES RefinesChannel Delivered
CHECK_DEADLOCK FALSE
