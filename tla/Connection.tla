----------------------------- MODULE Connection -----------------------------
(***************************************************************************)
(* http2/connection.cpp, frame by frame: what Connection::pump does when a *)
(* byte completes a frame, and the table of open streams.  FrameReader     *)
(* shows that frames arrive whole and in order, and that the first frame   *)
(* it cannot read ends the connection.  Frames that call the StreamHandler *)
(* (HEADERS, DATA, RST_STREAM) become actions in GRPCServer, which is that *)
(* handler; here are their halves.                                         *)
(***************************************************************************)
EXTENDS Http2, SequencesExt

CONSTANTS
    Conn,       \* addresses at which the program creates Connection objects
    Addr,       \* addresses at which it creates http2::Stream objects
    IDs,        \* the stream identifiers in the frames of the peers
    Null,       \* nullptr, and the content of a free address
    CONNECTION_PREFACE_SIZE

(* A Stream object: the connection it writes to and its identifier. *)
Stream == [frameWriter : Conn, id : IDs]

ASSUME NullAssumption == Null \notin Addr \cup Stream
ASSUME IDsAssumption == IDs \subseteq Nat
ASSUME PrefaceAssumption == CONNECTION_PREFACE_SIZE \in Nat \ {0}

VARIABLES
    connState,          \* [Conn -> state], "Deleted" where no object lives,
                        \* "Undefined" where it used a null pointer
    prefacePos,         \* [Conn -> bytes of the preface matched]
    prefaceSettingsAckd,\* the connections on which this flag is true
    streams,            \* [Conn -> Seq(Addr)], Connection::streams
    heap,               \* [Addr -> the Stream object there, or Null]
    written             \* the frames written by the last step

connectionVars == <<connState, prefacePos, prefaceSettingsAckd, streams, heap, written>>

-----------------------------------------------------------------------------
(* Frames the server writes.  The constructors of Frame take the stream    *)
(* identifier as a uint8_t.                                                *)
Out(c, type, flags, id, content) ==
    [to |-> c, type |-> type, flags |-> flags, streamID |-> U8(id), content |-> content]

RstStreamFrame(c, id) == Out(c, RST_STREAM, {}, id, <<"NO_ERROR">>)

-----------------------------------------------------------------------------
(* The table of streams.                                                   *)

FirstIndex(I) == CHOOSE i \in I : \A j \in I : i <= j

(* getStream: the oldest stream with the identifier. *)
GetStream(c, id) ==
    LET I == {i \in 1..Len(streams[c]) : heap[streams[c][i]].id = id}
    IN IF I = {} THEN Null ELSE streams[c][FirstIndex(I)]

AllocateStream_NoWriter(c, id, stream) ==
    /\ heap[stream] = Null
    /\ heap' = [heap EXCEPT ![stream] = [frameWriter |-> Null, id |-> id]]
    /\ streams' = [streams EXCEPT ![c] = Append(@, stream)]

AllocateStream(c, id, stream) ==
    /\ heap[stream] = Null
    /\ heap' = [heap EXCEPT ![stream] = [frameWriter |-> c, id |-> id]]
    /\ streams' = [streams EXCEPT ![c] = Append(@, stream)]

DeallocateStream_NoErase(c, id) ==
    LET stream == GetStream(c, id)
    IN /\ heap' = IF stream = Null THEN heap ELSE [heap EXCEPT ![stream] = Null]
       /\ UNCHANGED streams

DeallocateStream_NoDelete(c, id) ==
    /\ streams' = [streams EXCEPT ![c] = SelectSeq(@, LAMBDA s : s # GetStream(c, id))]
    /\ UNCHANGED heap

(* deallocateStream.  erase(remove(..)) takes out every copy of the        *)
(* pointer; StreamOwnership has it that there is only one.                 *)
DeallocateStream(c, id) ==
    LET stream == GetStream(c, id)
        I == {i \in 1..Len(streams[c]) : streams[c][i] = stream}
    IN IF stream = Null
       THEN UNCHANGED <<heap, streams>>
       ELSE /\ heap' = [heap EXCEPT ![stream] = Null]
            /\ streams' = [streams EXCEPT ![c] = RemoveAt(@, FirstIndex(I))]

-----------------------------------------------------------------------------
(* Life of the object.                                                     *)

(* new Connection(transport) *)
NewConnection(c) ==
    /\ connState[c] = "Deleted"
    /\ connState' = [connState EXCEPT ![c] = "Started"]
    /\ prefacePos' = [prefacePos EXCEPT ![c] = 0]
    /\ prefaceSettingsAckd' = prefaceSettingsAckd \ {c}
    /\ streams' = [streams EXCEPT ![c] = <<>>]
    /\ written' = <<>>
    /\ UNCHANGED heap

(* ~Connection: the vector goes, the Stream objects it points to stay.     *)
DeleteConnection(c) ==
    /\ connState[c] # "Deleted"
    /\ connState' = [connState EXCEPT ![c] = "Deleted"]
    /\ streams' = [streams EXCEPT ![c] = <<>>]
    /\ written' = <<>>
    /\ UNCHANGED <<prefacePos, prefaceSettingsAckd, heap>>

-----------------------------------------------------------------------------
(* pump().                                                                 *)

(* A byte in Started, equal to the next byte of the preface or not.  The   *)
(* SETTINGS frame written after the last one disables HPACK's table.       *)
PrefaceByte(c, matches) ==
    /\ connState[c] = "Started"
    /\ LET pos == prefacePos[c] + 1
       IN \/ /\ ~matches
             /\ connState' = [connState EXCEPT ![c] = "Failed"]
             /\ written' = <<>>
             /\ UNCHANGED prefacePos
          \/ /\ matches
             /\ prefacePos' = [prefacePos EXCEPT ![c] = pos]
             /\ pos # CONNECTION_PREFACE_SIZE
             /\ written' = <<>>
             /\ UNCHANGED connState
          \/ /\ matches
             /\ prefacePos' = [prefacePos EXCEPT ![c] = pos]
             /\ pos = CONNECTION_PREFACE_SIZE
             /\ connState' = [connState EXCEPT ![c] = "Connected"]
             /\ written' = <<Out(c, SETTINGS, {}, 0, <<"HEADER_TABLE_SIZE=0">>)>>
    /\ UNCHANGED <<prefaceSettingsAckd, streams, heap>>

(* A frame that FrameReader::pump or FrameReader::frame answers with an    *)
(* error, whether or not the preface has been acknowledged.                *)
UnreadableFrame(c) ==
    /\ connState[c] = "Connected"
    /\ connState' = [connState EXCEPT ![c] = "Failed"]
    /\ written' = <<>>
    /\ UNCHANGED <<prefacePos, prefaceSettingsAckd, streams, heap>>

(* frame() builds no SettingsFrame when the length of the payload is no    *)
(* multiple of six and reports no error either, and pump uses the pointer. *)
(* That is undefined behaviour: the model says nothing of what follows.    *)
NullFrame(c) ==
    /\ connState[c] = "Connected"
    /\ connState' = [connState EXCEPT ![c] = "Undefined"]
    /\ written' = <<>>
    /\ UNCHANGED <<prefacePos, prefaceSettingsAckd, streams, heap>>

(* A byte in Failed is thrown away. *)
DiscardByte(c) ==
    /\ connState[c] = "Failed"
    /\ written' = <<>>
    /\ UNCHANGED <<connState, prefacePos, prefaceSettingsAckd, streams, heap>>

(* The peer has not acknowledged our SETTINGS: refuse the frame. *)
DropFrame(c, id) ==
    /\ connState[c] = "Connected"
    /\ c \notin prefaceSettingsAckd
    /\ written' = <<RstStreamFrame(c, id)>>
    /\ UNCHANGED <<connState, prefacePos, prefaceSettingsAckd, streams, heap>>

Dispatched_Unacknowledged(c) == connState[c] = "Connected"

(* The condition under which any frame but SETTINGS is dispatched. *)
Dispatched(c) ==
    /\ connState[c] = "Connected"
    /\ c \in prefaceSettingsAckd

Settings(c, id, isAck) ==
    /\ connState[c] = "Connected"
    /\ \/ /\ isAck
          /\ written' = <<>>
          /\ prefaceSettingsAckd' =
                IF id = 0 THEN prefaceSettingsAckd \cup {c} ELSE prefaceSettingsAckd
       \/ /\ ~isAck
          /\ written' = <<Out(c, SETTINGS, {"ACK"}, id, <<>>)>>
          /\ UNCHANGED prefaceSettingsAckd
    /\ UNCHANGED <<connState, prefacePos, streams, heap>>

Ping(c, isAck) ==
    /\ Dispatched(c)
    /\ written' = IF isAck THEN <<>> ELSE <<Out(c, PING, {"ACK"}, 0, <<"opaque">>)>>
    /\ UNCHANGED <<connState, prefacePos, prefaceSettingsAckd, streams, heap>>

(* PRIORITY and WINDOW_UPDATE. *)
IgnoredFrame(c) ==
    /\ Dispatched(c)
    /\ written' = <<>>
    /\ UNCHANGED <<connState, prefacePos, prefaceSettingsAckd, streams, heap>>

ConnectionInit ==
    /\ connState = [c \in Conn |-> "Deleted"]
    /\ prefacePos = [c \in Conn |-> 0]
    /\ prefaceSettingsAckd = {}
    /\ streams = [c \in Conn |-> <<>>]
    /\ heap = [a \in Addr |-> Null]
    /\ written = <<>>

-----------------------------------------------------------------------------
ConnectionTypeOK ==
    /\ connState \in [Conn -> {"Deleted", "Started", "Connected", "Failed",
                            "Undefined"}]
    /\ prefacePos \in [Conn -> 0..CONNECTION_PREFACE_SIZE]
    /\ prefaceSettingsAckd \subseteq Conn
    /\ streams \in [Conn -> Seq(Addr)]
    /\ heap \in [Addr -> Stream \cup {Null}]
=============================================================================
