CONSTANTS
    c1 = c1
    c2 = c2
    a1 = a1
    a2 = a2
    a3 = a3
    h1 = h1
    echo = echo
    other = other
    Null = Null
    Conn = {c1, c2}
    Addr = {a1, a2, a3}
    IDs = {0, 257}
    CONNECTION_PREFACE_SIZE = 2
    Handlers = {h1}
    Names = {echo, other}
    NameOf <- MCNameOf
    Messages = {m}
    DataLengths = {7}
    Returns = {0, 1}
SYMMETRY MCSymmetry
SPECIFICATION Spec
INVARIANTS TypeOK StreamOwnership NothingBeforeAck CallsLive
PROPERTIES WritesToLive LostOnlyWithConnection Isolation
CHECK_DEADLOCK FALSE
