CONSTANTS
    c1 = c1
    c2 = c2
    a1 = a1
    a2 = a2
    a3 = a3
    a4 = a4
    h1 = h1
    echo = echo
    other = other
    m = m
    Null = Null
    Conn = {c1}
    Addr = {a1, a2}
    IDs = {0, 1, 3}
    CallIDs = {1, 3}
    CONNECTION_PREFACE_SIZE = 1
    Handlers = {h1}
    Names = {echo, other}
    NameOf <- MCNameOf
    Messages = {m}
    DataLengths = {0, 6, 7}
    Returns = {0}
    Segmentations <- Halves
    Unserved = {}
    MaxConnects = 1
SPECIFICATION UnarySpec
INVARIANT OneOutcome
CHECK_DEADLOCK FALSE
