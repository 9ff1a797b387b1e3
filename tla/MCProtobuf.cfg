CONSTANTS
    Descriptor <- MCDescriptor
    Structures <- MCStructures
    Structs <- MCStructs
    PeerBytes <- MCPeerBytes
    Framings <- MCFramings
    Slack = 1
SPECIFICATION Spec
INVARIANTS SizesAgree WritesMeaning DecodesMeaning
CHECK_DEADLOCK FALSE
