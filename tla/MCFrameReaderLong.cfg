CONSTANTS
    Frames <- MCLongFrames
    PayloadBytes <- MCPayloadBytes
    MaxFrames = 2
    Uninit = Uninit
SPECIFICATION Spec
INVARIANT FrameIntegrity
CHECK_DEADLOCK FALSE
