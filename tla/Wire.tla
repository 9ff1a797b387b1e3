-------------------------------- MODULE Wire --------------------------------
(***************************************************************************)
(* The frames one side may put on the wire, byte by byte, and what         *)
(* FrameReader::frame makes of each of them.  A header byte has its real   *)
(* value; a payload byte is named <<n, k>>, byte k of frame n of the wire, *)
(* so that an assembled payload tells which bytes it was built from.       *)
(***************************************************************************)
EXTENDS Http2, Sequences

CONSTANTS
    Frames,     \* the frames the sender may send: the peer, or in FrameWriter
                \* the server
    MaxFrames   \* bound on the number of frames sent

Lengths == Below(256 * 65536)           \* 24 bits
StreamIDs == {n \in Nat : n \div 65536 < 32768}   \* 31 bits

(* A frame as the peer sends it.  "reserved" is the bit above the stream   *)
(* identifier; "decodes" says that the header block is one that            *)
(* decodeHeaderFields accepts.  Frames of fixed size have that size.       *)
FrameFields == [type : 0..255, flags : 0..255, reserved : 0..1,
                streamID : StreamIDs, length : Lengths,
                decodes : BOOLEAN]

FixedSize(f) ==
    /\ f.type = PRIORITY => f.length = 5
    /\ f.type = PING => f.length = 8
    /\ f.type \in {RST_STREAM, WINDOW_UPDATE} => f.length = 4

ASSUME FramesAssumption == \A f \in Frames : f \in FrameFields /\ FixedSize(f)
ASSUME BoundAssumption == MaxFrames \in Nat

FRAME_HEADER_SIZE == 9

Header(f) == [length |-> f.length, type |-> f.type,
              flags |-> f.flags, streamID |-> f.streamID]

Payload(n, f) == [k \in 0..(f.length - 1) |-> <<n, FRAME_HEADER_SIZE + k>>]

(* What arrives when frame n of the wire is read whole. *)
Whole(n, f) == [header |-> Header(f), payload |-> Payload(n, f)]

HeaderByte(f, i) ==
    CASE i = 0 -> f.length \div 65536
      [] i = 1 -> (f.length \div 256) % 256
      [] i = 2 -> f.length % 256
      [] i = 3 -> f.type
      [] i = 4 -> f.flags
      [] i = 5 -> 128 * f.reserved + f.streamID \div (256 * 65536)
      [] i = 6 -> (f.streamID \div 65536) % 256
      [] i = 7 -> (f.streamID \div 256) % 256
      [] i = 8 -> f.streamID % 256

(* The types FrameHeaderReader::pump lets through: not CONTINUATION. *)
KnownTypes == DATA..WINDOW_UPDATE

(* FrameReader::frame: an error, a null frame, or a frame. *)
FrameResult(header, decodes) ==
    IF header.type \in {PUSH_PROMISE, GOAWAY} \/ (header.type = HEADERS /\ ~decodes)
    THEN "error"
    ELSE IF header.type = SETTINGS /\ header.length % 6 # 0 THEN "null" ELSE "frame"

(* A frame the reader cannot turn into a Frame. *)
Unreadable(f) ==
    f.type \notin KnownTypes \/ FrameResult(Header(f), f.decodes) # "frame"

=============================================================================
