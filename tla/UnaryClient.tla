----------------------------- MODULE UnaryClient -----------------------------
(***************************************************************************)
(* GRPCServer with clients that keep to HTTP/2 and to gRPC over it: they   *)
(* send the preface and SETTINGS first, acknowledge the server's SETTINGS  *)
(* when they have seen it, open streams in ascending order without waiting *)
(* for the acknowledgement, send one request per stream, cancel a call or  *)
(* leave at any time.  Some of what the protocol lets them send is more    *)
(* than the server reads, and their connection fails: a header block it    *)
(* cannot decode or that goes on in a CONTINUATION frame, and GOAWAY.  The *)
(* wire is a queue of whole frames per connection, the channel FrameReader *)
(* implements.                                                             *)
(***************************************************************************)
EXTENDS GRPCServer

CONSTANTS
    CallIDs,       \* stream identifiers of a connection's calls
    Segmentations, \* ways to cut a request into DATA frames: their lengths
    Unserved,      \* what the clients use that the server does not read
    MaxConnects    \* bound on the number of connections made

ASSUME CallIDsAssumption == CallIDs \subseteq IDs \ {0} /\ 0 \in IDs
ASSUME SegmentationsAssumption ==
    Segmentations \subseteq Seq(DataLengths) \ {<<>>}
ASSUME UnservedAssumption == Unserved \subseteq {"reference", "continuation", "goaway"}
ASSUME MaxConnectsAssumption == MaxConnects \in Nat
ASSUME MessagesAssumption == Null \notin Messages

VARIABLES
    toServer,  \* [Conn -> the frames sent and not yet pumped]
    acked,     \* the connections whose client acknowledged the SETTINGS
    call,      \* [Conn -> [CallIDs -> what the client did on the stream]];
               \* "early": it was opened before the acknowledgement
    received,  \* [Conn -> [identifier -> the frames written on it]]
    connects   \* the number of connections made

clientVars == <<toServer, acked, call, received, connects>>
allVars == <<vars, clientVars>>

(* The identifiers that reach the client, one byte wide. *)
ReplyIDs == CallIDs \cup {U8(id) : id \in CallIDs}

NoCall == [phase |-> "idle", path |-> Null, message |-> Null, early |-> FALSE]
NoCalls == [id \in CallIDs |-> NoCall]
Nothing == [id \in ReplyIDs |-> <<>>]

-----------------------------------------------------------------------------
(* The frames of the client.                                               *)

SettingsFrame(flag) ==
    [type |-> SETTINGS, streamID |-> 0, flag |-> flag, sixes |-> TRUE]

HeadersFrame(id, path, decodes) ==
    [type |-> HEADERS, streamID |-> id, path |-> path, decodes |-> decodes]

ContinuationFrame(id) == [type |-> CONTINUATION, streamID |-> id]

(* The frames a header block may come in: one; one that decodeHeaderFields *)
(* rejects, since it refers to the dynamic table, as it may until the      *)
(* client has seen the server's SETTINGS, or has a priority; or two.       *)
Blocks(id, path) ==
    { <<HeadersFrame(id, path, TRUE)>> }
    \cup { <<HeadersFrame(id, path, FALSE)>> : u \in Unserved \cap {"reference"} }
    \cup { <<HeadersFrame(id, path, TRUE), ContinuationFrame(id)>> :
             u \in Unserved \cap {"continuation"} }

GoAwayFrame == [type |-> GOAWAY, streamID |-> 0]

(* A request in DATA frames of these lengths, END_STREAM on the last. *)
DataFrames(id, message, lengths) ==
    [i \in 1..Len(lengths) |->
        [type |-> DATA, streamID |-> id, flag |-> IF i = Len(lengths) THEN 1 ELSE 0,
         message |-> message, length |-> lengths[i]]]

ResetFrameOf(id) == [type |-> RST_STREAM, streamID |-> id]

Transmit(c, frames) == toServer' = [toServer EXCEPT ![c] = @ \o frames]

-----------------------------------------------------------------------------
(* The client.                                                             *)

Connect(c) ==
    /\ connects < MaxConnects
    /\ connects' = connects + 1
    /\ AddConnection(c)
    /\ toServer' = [toServer EXCEPT ![c] = <<SettingsFrame(0)>>]
    /\ acked' = acked \ {c}
    /\ call' = [call EXCEPT ![c] = NoCalls]
    /\ received' = [received EXCEPT ![c] = Nothing]

(* The server's SETTINGS is the first frame it writes, on the preface. *)
Acknowledge(c) ==
    /\ connState[c] = "Connected"
    /\ c \notin acked
    /\ acked' = acked \cup {c}
    /\ Transmit(c, <<SettingsFrame(1)>>)
    /\ UNCHANGED <<vars, call, received, connects>>

Open(c, id, path, frames) ==
    /\ connState[c] # "Deleted"
    /\ call[c][id].phase = "idle"
    /\ \A j \in CallIDs : j < id => call[c][j].phase # "idle"
    /\ call' = [call EXCEPT ![c][id] =
                   [phase |-> "open", path |-> path, message |-> Null,
                    early |-> c \notin acked]]
    /\ Transmit(c, frames)
    /\ UNCHANGED <<vars, acked, received, connects>>

Request(c, id, message, lengths) ==
    /\ connState[c] # "Deleted"
    /\ call[c][id].phase = "open"
    /\ call' = [call EXCEPT ![c][id].phase = "sent", ![c][id].message = message]
    /\ Transmit(c, DataFrames(id, message, lengths))
    /\ UNCHANGED <<vars, acked, received, connects>>

Cancel(c, id) ==
    /\ connState[c] # "Deleted"
    /\ call[c][id].phase \in {"open", "sent"}
    /\ call' = [call EXCEPT ![c][id].phase = "cancelled"]
    /\ Transmit(c, <<ResetFrameOf(id)>>)
    /\ UNCHANGED <<vars, acked, received, connects>>

(* The client shuts the connection down, and waits for the answers it has  *)
(* not got.  It does so once (bound: when it has made all its calls).      *)
GoAway(c) ==
    /\ "goaway" \in Unserved
    /\ connState[c] \in {"Started", "Connected"}
    /\ \A id \in CallIDs : call[c][id].phase # "idle"
    /\ GoAwayFrame \notin ToSet(toServer[c])
    /\ Transmit(c, <<GoAwayFrame>>)
    /\ UNCHANGED <<vars, acked, call, received, connects>>

(* The client is gone, the server notices and what was in flight is lost.  *)
Leave(c) ==
    /\ RemoveConnection(c)
    /\ toServer' = [toServer EXCEPT ![c] = <<>>]
    /\ call' = [call EXCEPT ![c] = NoCalls]
    /\ received' = [received EXCEPT ![c] = Nothing]
    /\ UNCHANGED <<acked, connects>>

-----------------------------------------------------------------------------
(* The server, on what the clients sent.                                   *)

(* What a step writes is for one stream of one connection (WritesToLive).   *)
WrittenTo(c, id) ==
    IF written # <<>> /\ written[1].to = c /\ written[1].streamID = id
    THEN written ELSE <<>>

Record ==
    received' = [c \in Conn |-> [id \in ReplyIDs |->
                    received[c][id] \o WrittenTo(c, id)']]

Register(h) == RegisterUnaryMethod(h) /\ UNCHANGED clientVars

ServePreface(c) ==
    /\ PrefaceByte(c, TRUE)
    /\ c \in connections
    /\ NoCallback
    /\ UNCHANGED <<connections, unaryMethods, clientVars>>

ServeFrame(c) ==
    /\ toServer[c] # <<>>
    /\ toServer' = [toServer EXCEPT ![c] = Tail(@)]
    /\ \/ PumpFrame(c, Head(toServer[c]))
       \/ /\ c \in connections
          /\ DiscardByte(c)
          /\ NoCallback
          /\ UNCHANGED <<connections, unaryMethods>>
    /\ Record
    /\ UNCHANGED <<acked, call, connects>>

Serve(c) == ServePreface(c) \/ ServeFrame(c)

UnaryInit ==
    /\ Init
    /\ toServer = [c \in Conn |-> <<>>]
    /\ acked = {}
    /\ call = [c \in Conn |-> NoCalls]
    /\ received = [c \in Conn |-> Nothing]
    /\ connects = 0

UnaryNext ==
    \/ \E h \in Handlers : Register(h)
    \/ \E c \in Conn :
          \/ Connect(c)
          \/ Acknowledge(c)
          \/ GoAway(c)
          \/ Leave(c)
          \/ Serve(c)
          \/ \E id \in CallIDs :
                \/ \E path \in Names : \E frames \in Blocks(id, path) :
                      Open(c, id, path, frames)
                \/ \E message \in Messages, lengths \in Segmentations :
                      Request(c, id, message, lengths)
                \/ Cancel(c, id)

UnarySpec == UnaryInit /\ [][UnaryNext]_allVars

(* loop() calls runOnce for ever, and runOnce reads from each connection   *)
(* that has a byte.  Nothing obliges a client to act.                      *)
FairUnarySpec == UnarySpec /\ \A c \in Conn : WF_allVars(Serve(c))

-----------------------------------------------------------------------------
(* The properties.                                                         *)

UnaryTypeOK ==
    /\ TypeOK
    /\ toServer \in [Conn -> Seq(PeerFrames)]
    /\ acked \subseteq Conn
    /\ call \in [Conn -> [CallIDs ->
          [phase : {"idle", "open", "sent", "cancelled"}, path : Names \cup {Null},
           message : Messages \cup {Null}, early : BOOLEAN]]]
    /\ DOMAIN received = Conn
    /\ connects \in 0..MaxConnects

(* What the client has seen of a call, its end in UnaryCall's terms: frames *)
(* that are no whole answer and no whole refusal are no end of a call.     *)
Outcome(r) ==
    CASE r = <<>> -> <<>>
      [] r # <<>> /\ \A i \in 1..Len(r) : r[i].type = RST_STREAM -> <<"refused">>
      [] Len(r) = 2 /\ r[1].type = HEADERS /\ r[1].flags = {"END_HEADERS"}
            /\ r[2].content = <<"grpc-status", UNIMPLEMENTED>>
            /\ "END_STREAM" \in r[2].flags -> <<"unimplemented">>
      [] Len(r) = 3 /\ r[1].type = HEADERS /\ r[2].type = DATA
            /\ r[1].flags = {"END_HEADERS"} /\ r[2].flags = {}
            /\ r[3].content = <<"grpc-status", OK>>
            /\ "END_STREAM" \in r[3].flags ->
               <<"answer", NameOf[r[2].content[1]], r[2].content[2]>>
      [] OTHER -> <<"garbled">>

Calls == INSTANCE UnaryCall WITH
    outcome <- [c \in Conn |-> [id \in CallIDs |-> Outcome(received[c][U8(id)])]],
    methods <- {NameOf[h] : h \in ToSet(unaryMethods)}

(* Seen from the clients, frames, streams and the tables behind them come  *)
(* to what UnaryCall says: one end per call, from its own request, and no  *)
(* refusal of a call opened after the acknowledgement.                     *)
RefinesCalls == Calls!Spec

Ends(r) == {i \in 1..Len(r) : "END_STREAM" \in r[i].flags}
Resets(r) == {i \in 1..Len(r) : r[i].type = RST_STREAM}

(* On each stream the server writes one answer, which ends the stream, or  *)
(* refuses it: an answer or an error after either would belong to no call. *)
OneOutcome ==
    \A c \in Conn : \A id \in ReplyIDs :
        LET r == received[c][id]
        IN /\ \A i \in Ends(r) : i = Len(r)
           /\ Resets(r) # {} => Resets(r) = 1..Len(r)

(* What the server writes on a stream answers the request of that stream,  *)
(* by a handler of the method it names, whatever else is open, left over   *)
(* or reused in the server's tables.                                       *)
AnswerMatchesRequest ==
    \A c \in Conn : \A id \in ReplyIDs :
        /\ received[c][id] # <<>> =>
              id \in CallIDs /\ call[c][id].phase # "idle"
        /\ \A i \in 1..Len(received[c][id]) :
              LET f == received[c][id][i]
              IN f.type = DATA =>
                    /\ call[c][id].phase \in {"sent", "cancelled"}
                    /\ NameOf[f.content[1]] = call[c][id].path
                    /\ f.content[2] = call[c][id].message

EndsStream(f, id) ==
    /\ f.streamID = id
    /\ f.type = RST_STREAM \/ (f.type = DATA /\ f.flag = 1)

(* Until its connection fails, a stream stays in the table only while its  *)
(* end has not been sent or is still under way, and no identifier is there *)
(* twice: finished, refused and cancelled calls leave nothing behind.      *)
TableMatchesCalls ==
    \A c \in Conn : connState[c] # "Failed" => \A i \in 1..Len(streams[c]) :
        LET id == heap[streams[c][i]].id
        IN /\ \/ call[c][id].phase = "open"
              \/ \E k \in 1..Len(toServer[c]) : EndsStream(toServer[c][k], id)
           /\ \A j \in 1..Len(streams[c]) : heap[streams[c][j]].id = id => i = j

(* Every request sent whole is answered or refused, unless the client      *)
(* gives up on it or its connection has failed.                            *)
Settled(c, id) ==
    \/ Ends(received[c][id]) # {}
    \/ Resets(received[c][id]) # {}
    \/ call[c][id].phase # "sent"
    \/ connState[c] = "Failed"

CallsSettle ==
    \A c \in Conn : \A id \in CallIDs :
        (call[c][id].phase = "sent") ~> Settled(c, id)
=============================================================================
