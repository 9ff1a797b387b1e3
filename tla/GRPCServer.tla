----------------------------- MODULE GRPCServer -----------------------------
(***************************************************************************)
(* grpc/grpc_server.cpp and grpc/grpc_stream.cpp on top of Connection: the *)
(* server is the StreamHandler of every connection added to it.  Each      *)
(* action is one call of the API or one frame through Connection::pump; in *)
(* Next the peers send any frames on any stream identifiers, and the       *)
(* module UnaryClient replaces them by a client that keeps to the protocol.*)
(***************************************************************************)
EXTENDS Connection

CONSTANTS
    Handlers,   \* UnaryMethodHandler objects
    Names,      \* method names: values of :path, and of UnaryMethodHandler::name
    NameOf,     \* UnaryMethodHandler::name
    Messages,   \* requests a peer may put in a DATA frame
    DataLengths,\* payload lengths of DATA frames
    Returns     \* values a handler returns, 0 for success

ASSUME HandlersAssumption == Null \notin Handlers
ASSUME NamesAssumption == NameOf \in [Handlers -> Names] /\ Null \notin Names
ASSUME DataLengthsAssumption == DataLengths \subseteq Nat
ASSUME ReturnsAssumption == Returns \subseteq 0..255

(* The frames of a peer, with the fields the dispatch looks at: "flag" is  *)
(* the flag 0x1, END_STREAM or ACK; "path" is the value of :path, or Null  *)
(* when there is none; "decodes" is FALSE for a header block that          *)
(* decodeHeaderFields rejects; "sixes" says whether the payload's length   *)
(* is a multiple of six.                                                   *)
PeerFrames ==
    [type : {HEADERS}, streamID : IDs, path : Names \cup {Null}, decodes : BOOLEAN]
    \cup [type : {DATA}, streamID : IDs, flag : 0..1, message : Messages,
          length : DataLengths]
    \cup [type : {SETTINGS}, streamID : IDs, flag : 0..1, sixes : BOOLEAN]
    \cup [type : {PING}, streamID : IDs, flag : 0..1]
    \cup [type : {RST_STREAM, PRIORITY, WINDOW_UPDATE}, streamID : IDs]
    \cup [type : {PUSH_PROMISE, GOAWAY, CONTINUATION}, streamID : IDs]

VARIABLES
    connections,    \* GRPCServer::connections, as a set
    unaryMethods,   \* GRPCServer::unaryMethods
    grpcStreams,    \* GRPCServer::streams, the GRPCStream objects by value
    called          \* the handler call the last step made, if it made one

vars == <<connectionVars, connections, unaryMethods, grpcStreams, called>>

-----------------------------------------------------------------------------
(* The server's own API.                                                   *)

(* Bound: a handler is registered once. *)
RegisterUnaryMethod(h) ==
    /\ h \notin ToSet(unaryMethods)
    /\ unaryMethods' = Append(unaryMethods, h)
    /\ written' = <<>>
    /\ called' = <<>>
    /\ UNCHANGED <<connState, prefacePos, prefaceSettingsAckd, streams, heap,
                   connections, grpcStreams>>

(* As loop() does for a new client: new Connection, then addConnection. *)
AddConnection(c) ==
    /\ NewConnection(c)
    /\ connections' = connections \cup {c}
    /\ called' = <<>>
    /\ UNCHANGED <<unaryMethods, grpcStreams>>

(* As loop() does for a client that left: removeConnection, then delete.   *)
(* The GRPCStream objects of its open streams stay in the table.           *)
RemoveConnection(c) ==
    /\ c \in connections
    /\ connections' = connections \ {c}
    /\ DeleteConnection(c)
    /\ called' = <<>>
    /\ UNCHANGED <<unaryMethods, grpcStreams>>

-----------------------------------------------------------------------------
(* GRPCStream: what is written on a Stream object s.                       *)

ResponseHeaders(s) ==
    Out(s.frameWriter, HEADERS, {"END_HEADERS"}, s.id, <<":status 200">>)

Trailers(s, code) ==
    Out(s.frameWriter, HEADERS, {"END_HEADERS", "END_STREAM"}, s.id,
        <<"grpc-status", code>>)

WriteResponse(s, handler, message) ==
    << ResponseHeaders(s),
       Out(s.frameWriter, DATA, {}, s.id, <<handler, message>>),
       Trailers(s, OK) >>

WriteResponseError(s, code) == << ResponseHeaders(s), Trailers(s, code) >>

-----------------------------------------------------------------------------
(* The StreamHandler.                                                      *)

(* The first handler registered under the name. *)
FindMethod(path) ==
    LET I == {i \in 1..Len(unaryMethods) : NameOf[unaryMethods[i]] = path}
    IN IF I = {} THEN Null ELSE unaryMethods[FirstIndex(I)]

FindStream_ById(stream) ==
    LET I == {i \in 1..Len(grpcStreams) :
                 stream # Null /\ heap[grpcStreams[i].stream].id = heap[stream].id}
    IN IF I = {} THEN 0 ELSE FirstIndex(I)

(* The position of the GRPCStream of a Stream; 0 stands for nullptr. *)
FindStream(stream) ==
    LET I == {i \in 1..Len(grpcStreams) : grpcStreams[i].stream = stream}
    IN IF I = {} THEN 0 ELSE FirstIndex(I)

NewStream_NoReturn(stream, s, path) ==
    /\ written' = IF path # Null /\ FindMethod(path) = Null
                  THEN WriteResponseError(s, UNIMPLEMENTED) ELSE <<>>
    /\ grpcStreams' = IF path = Null THEN grpcStreams ELSE
          Append(grpcStreams, [stream |-> stream, handler |-> FindMethod(path)])

NewStream_Silent(stream, s, path) ==
    /\ written' = <<>>
    /\ grpcStreams' = IF FindMethod(path) = Null THEN grpcStreams ELSE
          Append(grpcStreams, [stream |-> stream, handler |-> FindMethod(path)])

(* stream is at s; path is Null when the header fields have no :path. *)
NewStream(stream, s, path) ==
    LET handler == FindMethod(path)
    IN \/ /\ path = Null
          /\ written' = <<>>
          /\ UNCHANGED grpcStreams
       \/ /\ path # Null
          /\ handler = Null
          /\ written' = WriteResponseError(s, UNIMPLEMENTED)
          /\ UNCHANGED grpcStreams
       \/ /\ path # Null
          /\ handler # Null
          /\ written' = <<>>
          /\ grpcStreams' =
                Append(grpcStreams, [stream |-> stream, handler |-> handler])

(* The handler sees the DATA frame without the five bytes of gRPC's prefix,*)
(* as a uint32_t length: a negative value here is a wrapped one there.     *)
StreamData(stream, message, length) ==
    LET i == FindStream(stream)
        handler == grpcStreams[i].handler
    IN \/ /\ i = 0
          /\ written' = <<>>
          /\ called' = <<>>
       \/ /\ i # 0
          /\ \E ret \in Returns :
                /\ called' = <<[handler |-> handler, stream |-> stream,
                                length |-> length - 5, ret |-> ret]>>
                /\ written' = IF ret # 0 THEN <<>>
                              ELSE WriteResponse(heap[grpcStreams[i].stream],
                                                 handler, message)

ResetStream_Forgotten(stream) == UNCHANGED grpcStreams

ResetStream(stream) ==
    LET i == FindStream(stream)
    IN grpcStreams' = IF i = 0 THEN grpcStreams ELSE RemoveAt(grpcStreams, i)

-----------------------------------------------------------------------------
(* The frames whose dispatch calls the StreamHandler.                      *)

Headers(c, id, path) ==
    /\ Dispatched(c)
    /\ \E stream \in Addr :
          /\ AllocateStream(c, id, stream)
          /\ NewStream(stream, [frameWriter |-> c, id |-> id], path)
    /\ called' = <<>>
    /\ UNCHANGED <<connState, prefacePos, prefaceSettingsAckd>>

Data_NoEnd(c, id, message, length, endStream) ==
    /\ Dispatched(c)
    /\ StreamData(GetStream(c, id), message, length)
    /\ UNCHANGED <<grpcStreams, heap, streams>>
    /\ UNCHANGED <<connState, prefacePos, prefaceSettingsAckd>>

Data(c, id, message, length, endStream) ==
    /\ Dispatched(c)
    /\ StreamData(GetStream(c, id), message, length)
    /\ \/ /\ endStream
          /\ ResetStream(GetStream(c, id))
          /\ DeallocateStream(c, id)
       \/ /\ ~endStream
          /\ UNCHANGED <<grpcStreams, heap, streams>>
    /\ UNCHANGED <<connState, prefacePos, prefaceSettingsAckd>>

RstStream(c, id) ==
    /\ Dispatched(c)
    /\ ResetStream(GetStream(c, id))
    /\ DeallocateStream(c, id)
    /\ written' = <<>>
    /\ called' = <<>>
    /\ UNCHANGED <<connState, prefacePos, prefaceSettingsAckd>>

(* The bytes and frames that stay inside Connection. *)
NoCallback == called' = <<>> /\ UNCHANGED grpcStreams

PumpByte(c) ==
    /\ c \in connections
    /\ (\E matches \in BOOLEAN : PrefaceByte(c, matches)) \/ DiscardByte(c)
    /\ NoCallback
    /\ UNCHANGED <<connections, unaryMethods>>

Readable(f) ==
    /\ f.type \notin {PUSH_PROMISE, GOAWAY, CONTINUATION}
    /\ f.type = HEADERS => f.decodes

(* The byte that completes frame f: the outer conditions of pump and the   *)
(* switch on the type.                                                     *)
PumpFrame(c, f) ==
    /\ c \in connections
    /\ \/ ~Readable(f) /\ UnreadableFrame(c) /\ NoCallback
       \/ /\ Readable(f)
          /\ \/ f.type # SETTINGS /\ DropFrame(c, f.streamID) /\ NoCallback
             \/ f.type = SETTINGS /\ ~f.sixes /\ NullFrame(c) /\ NoCallback
             \/ /\ f.type = SETTINGS
                /\ f.sixes
                /\ Settings(c, f.streamID, f.flag = 1)
                /\ NoCallback
             \/ f.type = PING /\ Ping(c, f.flag = 1) /\ NoCallback
             \/ f.type \in {PRIORITY, WINDOW_UPDATE} /\ IgnoredFrame(c) /\ NoCallback
             \/ f.type = HEADERS /\ Headers(c, f.streamID, f.path)
             \/ f.type = DATA /\ Data(c, f.streamID, f.message, f.length, f.flag = 1)
             \/ f.type = RST_STREAM /\ RstStream(c, f.streamID)
    /\ UNCHANGED <<connections, unaryMethods>>

Init ==
    /\ ConnectionInit
    /\ connections = {}
    /\ unaryMethods = <<>>
    /\ grpcStreams = <<>>
    /\ called = <<>>

(* No null pointer has been used: after that the program may do anything,  *)
(* and the model stops.                                                    *)
Defined == \A c \in Conn : connState[c] # "Undefined"

Next ==
    /\ Defined
    /\ \/ \E h \in Handlers : RegisterUnaryMethod(h)
       \/ \E c \in Conn : AddConnection(c) \/ RemoveConnection(c) \/ PumpByte(c)
       \/ \E c \in Conn, f \in PeerFrames : PumpFrame(c, f)

Spec == Init /\ [][Next]_vars

-----------------------------------------------------------------------------
(* The properties.                                                         *)

TypeOK ==
    /\ ConnectionTypeOK
    /\ connections \subseteq Conn
    /\ unaryMethods \in Seq(Handlers)
    /\ grpcStreams \in Seq([stream : Addr, handler : Handlers])

(* Each pointer in a connection's table is the only one to a live Stream   *)
(* that writes to this connection.                                         *)
StreamOwnership ==
    /\ \A c \in Conn : \A i \in 1..Len(streams[c]) :
          heap[streams[c][i]] # Null /\ heap[streams[c][i]].frameWriter = c
    /\ \A c \in Conn : \A i, j \in 1..Len(streams[c]) :
          streams[c][i] = streams[c][j] => i = j

(* No stream is opened, so no handler can run, on a connection whose peer  *)
(* has not acknowledged the server's SETTINGS.                             *)
NothingBeforeAck ==
    \A c \in Conn : streams[c] # <<>> =>
        /\ c \in prefaceSettingsAckd
        /\ connState[c] \in {"Connected", "Failed", "Undefined"}

(* A GRPCStream never outlives its Stream object, stands for one stream    *)
(* only, and has a registered handler.                                     *)
CallsLive ==
    /\ \A i \in 1..Len(grpcStreams) :
          /\ heap[grpcStreams[i].stream] # Null
          /\ grpcStreams[i].handler \in ToSet(unaryMethods)
    /\ \A i, j \in 1..Len(grpcStreams) :
          grpcStreams[i].stream = grpcStreams[j].stream => i = j

(* Whatever a step writes goes to one stream of one connection, which is   *)
(* alive and past its preface, also when it is written through a Stream    *)
(* object.                                                                 *)
WritesToLive ==
    [][\A i \in 1..Len(written') :
          /\ written'[i].to = written'[1].to
          /\ written'[i].streamID = written'[1].streamID
          /\ written'[i].to \in connections'
          /\ connState'[written'[i].to] = "Connected"]_vars

(* The pointers from which a Stream object can still be freed. *)
Reachable(stream) == \E c \in Conn : stream \in ToSet(streams[c])

(* A Stream object is lost only with its connection.                       *)
LostOnlyWithConnection ==
    [][\A a \in Addr :
          Reachable(a) /\ ~Reachable(a)' /\ heap'[a] # Null
             => connState'[heap[a].frameWriter] = "Deleted"]_vars

(* All the server keeps for the peer of c. *)
View(c) ==
    << connState[c], c \in prefaceSettingsAckd,
       [i \in 1..Len(streams[c]) |->
          LET s == streams[c][i]
          IN <<heap[s], IF FindStream(s) = 0 THEN Null
                        ELSE grpcStreams[FindStream(s)].handler>>] >>

(* Connections share the heap and the server's table of calls, and yet a   *)
(* step changes what is kept for one connection at most.                   *)
Isolation ==
    [][\A c, d \in Conn : View(c)' # View(c) /\ View(d)' # View(d) => c = d]_vars
=============================================================================
