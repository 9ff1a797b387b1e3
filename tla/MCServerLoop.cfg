CONSTANTS
    Sockets = {s1, s2}
    Conn = {c1, c2}
    NoClient = NoClient
    PrefaceBytes = 1
    FrameBytes = 2
    Window = 2
SPECIFICATION FairSpec
INVARIANTS TypeOK ListsAgree InStep
PROPERTIES EveryonePolled GoneAreReaped
