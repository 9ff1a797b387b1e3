----------------------------- MODULE FrameWriter -----------------------------
(***************************************************************************)
(* Connection::writeFrame down to the bytes: Frame::write and the          *)
(* writePayload of each frame the server writes, one Transport::write of a *)
(* byte per step, and the peer, which cuts what arrives into frames by     *)
(* their length fields.  The calls of writeFrame come one after the other. *)
(* The length of a frame f is the one HTTP/2 gives to its contents; what   *)
(* payloadLength puts into the header and what writePayload writes are two *)
(* functions of those contents.                                            *)
(***************************************************************************)
EXTENDS Wire

(* The frames the server makes.  It makes none with padding, whose length  *)
(* DataFrame::writePayload would write in four bytes for one.              *)
ASSUME ServerFramesAssumption ==
    \A f \in Frames :
        /\ f.type \in {DATA, HEADERS, RST_STREAM, SETTINGS, PING}
        /\ f.type = SETTINGS => f.length % 6 = 0

VARIABLES
    sent,       \* the frames given to writeFrame; the last may be under way
    writing,    \* a call of writeFrame is under way
    pos,        \* the bytes of its header written
    i,          \* the loop counter of writePayload, and
    part,       \* the bytes written in this turn of the loop
    buffer,     \* the peer: the bytes of the frame it is reading
    frames,     \* the frames it has read
    lost        \* it met a payload byte where a frame should begin

vars == <<sent, writing, pos, i, part, buffer, frames, lost>>

Current == sent[Len(sent)]

-----------------------------------------------------------------------------
(* The peer.                                                               *)

HeaderOf(bytes) ==
    [length |-> 65536 * bytes[1] + 256 * bytes[2] + bytes[3],
     type |-> bytes[4],
     flags |-> bytes[5],
     streamID |-> (256 * 65536) * bytes[6] + 65536 * bytes[7] + 256 * bytes[8] + bytes[9]]

IsWhole(bytes) ==
    /\ Len(bytes) >= FRAME_HEADER_SIZE
    /\ Len(bytes) = FRAME_HEADER_SIZE + HeaderOf(bytes).length

FrameOf(bytes) ==
    [header |-> HeaderOf(bytes),
     payload |-> [k \in 0..(HeaderOf(bytes).length - 1) |-> bytes[FRAME_HEADER_SIZE + k + 1]]]

Receive(byte, isPayload) ==
    LET bytes == Append(buffer, byte)
    IN \/ /\ lost \/ (buffer = <<>> /\ isPayload)
          /\ lost' = TRUE
          /\ UNCHANGED <<buffer, frames>>
       \/ /\ ~lost /\ (buffer = <<>> => ~isPayload)
          /\ IF IsWhole(bytes)
             THEN buffer' = <<>> /\ frames' = Append(frames, FrameOf(bytes))
             ELSE buffer' = bytes /\ UNCHANGED frames
          /\ UNCHANGED lost

-----------------------------------------------------------------------------
(* The server's frames.                                                    *)

(* settings.size(): a setting is a 16-bit identifier and a 32-bit value.   *)
Settings(f) == f.length \div 6

PayloadLength_ShortSetting(f) ==
    IF f.type = SETTINGS THEN 5 * Settings(f) ELSE f.length

(* payloadLength of each subclass.  DataFrame has dataLength, HeadersFrame *)
(* encodeHeaderFieldsLen, which HeaderBlocks shows to be what              *)
(* encodeHeaderFields writes.                                              *)
PayloadLength(f) ==
    CASE f.type = SETTINGS -> 6 * Settings(f)
      [] f.type = RST_STREAM -> 4
      [] f.type = PING -> 8
      [] f.type \in {DATA, HEADERS} -> f.length

(* The turns of the loop of writePayload: over the vector of settings, the *)
(* opaque bytes, the data or the encoded block.  RST_STREAM has no loop.   *)
Turns(f) ==
    CASE f.type = SETTINGS -> Settings(f)
      [] f.type = RST_STREAM -> 1
      [] f.type = PING -> 8
      [] f.type \in {DATA, HEADERS} -> f.length

(* The bytes a turn writes: write(uint8_t) is one, write(uint32_t) four. *)
TurnSize(f) ==
    CASE f.type = SETTINGS -> 1 + 1 + 4
      [] f.type = RST_STREAM -> 4
      [] f.type \in {PING, DATA, HEADERS} -> 1

InPayload_OneMore(f, turn) == turn <= Turns(f)

(* The condition of the loop. *)
InPayload(f, turn) == turn < Turns(f)

NextTurn_Stuck(f, turn) == turn

(* The counter is a uint8_t in DataFrame and PingFrame. *)
NextTurn(f, turn) == IF f.type \in {DATA, PING} THEN U8(turn + 1) ELSE turn + 1

OutHeaderByte_Short(f, p) == IF p = 1 THEN 0 ELSE HeaderByte(f, p)

(* Frame::write, the header: three bytes of length, the type, the flags    *)
(* and Transport::write(uint32_t) of the identifier.                       *)
OutHeaderByte(f, p) ==
    CASE p = 0 -> (PayloadLength(f) \div 65536) % 256
      [] p = 1 -> (PayloadLength(f) \div 256) % 256
      [] p = 2 -> PayloadLength(f) % 256
      [] p = 3 -> U8(f.type)
      [] p = 4 -> f.flags
      [] p = 5 -> (f.streamID \div (256 * 65536)) % 256
      [] p = 6 -> (f.streamID \div 65536) % 256
      [] p = 7 -> (f.streamID \div 256) % 256
      [] p = 8 -> f.streamID % 256

-----------------------------------------------------------------------------
(* The server.                                                             *)

(* writeFrame(f).  Bound: MaxFrames calls. *)
WriteFrame(f) ==
    /\ ~writing
    /\ Len(sent) < MaxFrames
    /\ sent' = Append(sent, f)
    /\ writing' = TRUE
    /\ pos' = 0
    /\ i' = 0
    /\ part' = 0
    /\ UNCHANGED <<buffer, frames, lost>>

WriteHeaderByte ==
    /\ writing
    /\ pos < FRAME_HEADER_SIZE
    /\ Receive(OutHeaderByte(Current, pos), FALSE)
    /\ pos' = pos + 1
    /\ UNCHANGED <<sent, writing, i, part>>

(* The bytes of the payload that the turns before this one have written,   *)
(* and those of this one.                                                  *)
PayloadWritten == i * TurnSize(Current) + part

WritePayloadByte ==
    /\ writing
    /\ pos = FRAME_HEADER_SIZE
    /\ InPayload(Current, i)
    /\ Receive(<<Len(sent), FRAME_HEADER_SIZE + PayloadWritten>>, TRUE)
    /\ \/ /\ part + 1 < TurnSize(Current)
          /\ part' = part + 1
          /\ UNCHANGED i
       \/ /\ part + 1 = TurnSize(Current)
          /\ part' = 0
          /\ i' = NextTurn(Current, i)
    /\ UNCHANGED <<sent, writing, pos>>

Return ==
    /\ writing
    /\ pos = FRAME_HEADER_SIZE
    /\ ~InPayload(Current, i)
    /\ writing' = FALSE
    /\ UNCHANGED <<sent, pos, i, part, buffer, frames, lost>>

Write == WriteHeaderByte \/ WritePayloadByte \/ Return

-----------------------------------------------------------------------------
Init ==
    /\ sent = <<>>
    /\ writing = FALSE
    /\ pos = 0
    /\ i = 0
    /\ part = 0
    /\ buffer = <<>>
    /\ frames = <<>>
    /\ lost = FALSE

Next == (\E f \in Frames : WriteFrame(f)) \/ Write

Spec == Init /\ [][Next]_vars

(* The program runs on: writeFrame does not wait for anything. *)
FairSpec == Spec /\ WF_vars(Write)

-----------------------------------------------------------------------------
(* The properties.                                                         *)

TypeOK ==
    /\ sent \in Seq(Frames) /\ Len(sent) <= MaxFrames
    /\ writing \in BOOLEAN /\ (writing => sent # <<>>)
    /\ pos \in 0..FRAME_HEADER_SIZE
    /\ i \in Nat /\ (sent # <<>> => i <= Turns(Current))
    /\ part \in 0..5
    /\ \A n \in 1..Len(frames) : DOMAIN frames[n] = {"header", "payload"}
    /\ lost \in BOOLEAN

(* Whenever writeFrame has returned, the peer has read exactly the frames  *)
(* given to it and waits for the first byte of the next: payloadLength,    *)
(* called before the payload is written, and what the loops of             *)
(* writePayload then write agree.                                          *)
InStep ==
    /\ ~lost
    /\ ~writing => buffer = <<>> /\ Len(frames) = Len(sent)

(* The peer reads the frames whole, in order and from their own bytes.     *)
Channel == INSTANCE FrameChannel WITH connState <- "Connected"
RefinesChannel == Channel!Spec

(* Every call of writeFrame returns. *)
WritesEnd == []<>~writing
=============================================================================
