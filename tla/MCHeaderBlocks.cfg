CONSTANTS
    FieldLists <- MCFieldLists
    PeerLists <- MCPeerLists
SPECIFICATION Spec
INVARIANTS FitsBuffer PeerReads DecodesMeaning
CHECK_DEADLOCK FALSE
