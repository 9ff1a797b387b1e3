----------------------------- MODULE FrameReader -----------------------------
(***************************************************************************)
(* The byte-pumped framing of one connection that has passed its preface:  *)
(* FrameHeaderReader::pump, FrameReader::pump, FrameReader::frame and the  *)
(* part of Connection::pump that feeds them, one byte per step.  The peer  *)
(* sends frames and the wire is their concatenation.                       *)
(***************************************************************************)
EXTENDS Wire

CONSTANTS
    PayloadBytes,  \* values of payload bytes, seen when one is read as a header
    Uninit         \* content of a payload cell that was never written

ASSUME PayloadBytesAssumption == PayloadBytes \subseteq 0..255

VARIABLES
    sent,       \* the frames the peer has put on the wire
    frameNo,    \* the frame the next wire byte belongs to, and
    offset,     \* its position in that frame
    connState,  \* Connection::connState, from Connected on
    reader,     \* Connection::currFrameReader
    frames      \* the frames that reached the dispatch of Connection::pump

vars == <<sent, frameNo, offset, connState, reader, frames>>

-----------------------------------------------------------------------------
(* The peer's side of the wire.                                            *)

(* The values read() may return for the next byte of the wire. *)
NextByte == IF offset < FRAME_HEADER_SIZE
            THEN {HeaderByte(sent[frameNo], offset)}
            ELSE PayloadBytes

Send(f) ==
    /\ Len(sent) < MaxFrames
    /\ sent' = Append(sent, f)
    /\ UNCHANGED <<frameNo, offset, connState, reader, frames>>

(* conn->transport->available() *)
Available == frameNo <= Len(sent)

(* conn->transport->read() *)
Read ==
    /\ Available
    /\ IF offset + 1 = FRAME_HEADER_SIZE + sent[frameNo].length
       THEN frameNo' = frameNo + 1 /\ offset' = 0
       ELSE frameNo' = frameNo /\ offset' = offset + 1
    /\ UNCHANGED sent

-----------------------------------------------------------------------------
(* A new FrameReader with its FrameHeaderReader.  "reading" stands for the *)
(* two flags readingHeader and readingPayload.                             *)

NewHeader_Dirty == [length |-> 1, type |-> DATA, flags |-> 0, streamID |-> 0]
NewHeader == [length |-> 0, type |-> DATA, flags |-> 0, streamID |-> 0]

(* framePayload = nullptr *)
NoPayload == [k \in {} |-> Uninit]

NewReader_Skewed == [pos |-> 1, header |-> NewHeader, reading |-> "header",
                     framePayloadBytesLeft |-> 0, framePayload |-> NoPayload]
NewReader == [pos |-> 0, header |-> NewHeader, reading |-> "header",
              framePayloadBytesLeft |-> 0, framePayload |-> NoPayload]

(* Connection::resetFrame *)
ResetFrame_Forgotten == UNCHANGED reader
ResetFrame == reader' = NewReader

(* The header after byte b at position pos: each |= sets bits that are     *)
(* still zero, and the stream identifier loses its top bit.                *)
PumpHeader(h, pos, b) ==
    CASE pos = 0 -> [h EXCEPT !.length = @ + 65536 * b]
      [] pos = 1 -> [h EXCEPT !.length = @ + 256 * b]
      [] pos = 2 -> [h EXCEPT !.length = @ + b]
      [] pos = 3 -> [h EXCEPT !.type = b]
      [] pos = 4 -> [h EXCEPT !.flags = b]
      [] pos = 5 -> [h EXCEPT !.streamID = (256 * 65536) * (b % 128)]
      [] pos = 6 -> [h EXCEPT !.streamID = @ + 65536 * b]
      [] pos = 7 -> [h EXCEPT !.streamID = @ + 256 * b]
      [] pos = 8 -> [h EXCEPT !.streamID = @ + b]

(* pump returned true with reader r: call frame(), and on success dispatch *)
(* the frame and reset the reader.  Whether a header block decodes is the  *)
(* peer's doing only if the payload is the one it sent.  A null frame is   *)
(* dereferenced at once: nothing is known of the program from there on.    *)
Complete(r) ==
    \E decodes \in BOOLEAN :
        LET frame == [header |-> r.header, payload |-> r.framePayload]
            result == FrameResult(r.header, decodes)
        IN /\ frame = Whole(frameNo, sent[frameNo]) => decodes = sent[frameNo].decodes
           /\ \/ /\ result = "frame"
                 /\ frames' = Append(frames, frame)
                 /\ ResetFrame
                 /\ UNCHANGED connState
              \/ /\ result = "error"
                 /\ connState' = "Failed"
                 /\ reader' = r
                 /\ UNCHANGED frames
              \/ /\ result = "null"
                 /\ connState' = "Undefined"
                 /\ reader' = r
                 /\ UNCHANGED frames

-----------------------------------------------------------------------------
(* Connection::pump on a byte while Connected, by what the reader expects. *)

PumpHeaderByte(b) ==
    /\ connState = "Connected"
    /\ reader.reading = "header"
    /\ Read
    /\ LET header == PumpHeader(reader.header, reader.pos, b)
           pos == reader.pos + 1
           r == [reader EXCEPT !.header = header, !.pos = pos]
           done == [r EXCEPT !.reading = "payload"]
       IN \/ /\ reader.pos = 3 /\ b \notin KnownTypes
             /\ connState' = "Failed"
             /\ UNCHANGED <<reader, frames>>
          \/ /\ ~(reader.pos = 3 /\ b \notin KnownTypes)
             /\ pos # FRAME_HEADER_SIZE
             /\ reader' = r
             /\ UNCHANGED <<connState, frames>>
          \/ /\ pos = FRAME_HEADER_SIZE
             /\ header.length # 0
             /\ reader' = [done EXCEPT
                            !.framePayload = [k \in 0..(header.length - 1) |-> Uninit],
                            !.framePayloadBytesLeft = U8(header.length)]
             /\ UNCHANGED <<connState, frames>>
          \/ /\ pos = FRAME_HEADER_SIZE
             /\ header.length = 0
             /\ Complete(done)

PumpPayloadByte ==
    /\ connState = "Connected"
    /\ reader.reading = "payload"
    /\ Read
    /\ LET left == reader.framePayloadBytesLeft
           cell == reader.header.length - left
           r == [reader EXCEPT
                  !.framePayload = [@ EXCEPT ![cell] = <<frameNo, offset>>],
                  !.framePayloadBytesLeft = left - 1]
       IN \/ /\ left = 0
             /\ Complete(reader)
          \/ /\ left > 1
             /\ reader' = r
             /\ UNCHANGED <<connState, frames>>
          \/ /\ left = 1
             /\ Complete(r)

(* A Failed connection reads on and throws the bytes away. *)
PumpFailed ==
    /\ connState = "Failed"
    /\ Read
    /\ UNCHANGED <<connState, reader, frames>>

Pump ==
    \/ Available /\ \E b \in NextByte : PumpHeaderByte(b)
    \/ PumpPayloadByte
    \/ PumpFailed

-----------------------------------------------------------------------------
Init ==
    /\ sent = <<>>
    /\ frameNo = 1
    /\ offset = 0
    /\ connState = "Connected"
    /\ reader = NewReader
    /\ frames = <<>>

Next == (\E f \in Frames : Send(f)) \/ Pump

Spec == Init /\ [][Next]_vars

(* runOnce pumps every available byte, and loop() calls runOnce for ever. *)
FairSpec == Spec /\ WF_vars(Pump)

-----------------------------------------------------------------------------
(* The properties.                                                         *)

HeaderType == [length : Lengths, type : 0..255, flags : 0..255,
               streamID : StreamIDs]

(* A payload cell: never written, or written with byte k of frame n. *)
Cell == {Uninit} \cup (Nat \X Nat)

TypeOK ==
    /\ sent \in Seq(Frames) /\ Len(sent) <= MaxFrames
    /\ frameNo \in Nat \ {0}
    /\ offset \in Nat
    /\ connState \in {"Connected", "Failed", "Undefined"}
    /\ reader \in [pos : 0..FRAME_HEADER_SIZE, header : HeaderType,
                   reading : {"header", "payload"}, framePayloadBytesLeft : 0..255,
                   framePayload : {NoPayload} \cup [0..(reader.header.length - 1) -> Cell]]
    /\ frames \in Seq({Whole(n, f) : n \in 1..MaxFrames, f \in Frames})

(* The frames dispatched are the readable frames sent, whole and in order: *)
(* the reader reset and the payload counter keep it aligned with the wire. *)
FrameIntegrity ==
    \A n \in 1..Len(frames) :
        /\ n <= Len(sent)
        /\ frames[n] = Whole(n, sent[n])
        /\ ~Unreadable(sent[n])

(* What the reader has of the frame on the wire: the bytes before offset.  *)
HeaderPrefix(f, p) ==
    [length |-> IF p = 0 THEN 0
                ELSE IF p = 1 THEN 65536 * (f.length \div 65536)
                ELSE IF p = 2 THEN 256 * (f.length \div 256)
                ELSE f.length,
     type |-> IF p <= 3 THEN DATA ELSE f.type,
     flags |-> IF p <= 4 THEN 0 ELSE f.flags,
     streamID |-> IF p <= 5 THEN 0
                  ELSE IF p = 6 THEN (256 * 65536) * (f.streamID \div (256 * 65536))
                  ELSE IF p = 7 THEN 65536 * (f.streamID \div 65536)
                  ELSE IF p = 8 THEN 256 * (f.streamID \div 256)
                  ELSE f.streamID]

(* While Connected the reader stands exactly where the wire does: in the   *)
(* header, with the header read so far, or in the payload, with the cells  *)
(* filled so far and the counter at the number of bytes still to come.     *)
Aligned ==
    connState = "Connected" =>
        /\ frameNo = Len(frames) + 1
        /\ offset > 3 => sent[frameNo].type \in KnownTypes
        /\ reader.reading = "header" =>
              /\ offset = reader.pos
              /\ offset < FRAME_HEADER_SIZE
              /\ reader.framePayloadBytesLeft = 0
              /\ reader.framePayload = NoPayload
              /\ reader.header = IF Available
                                 THEN HeaderPrefix(sent[frameNo], offset)
                                 ELSE NewHeader
              /\ ~Available => offset = 0
        /\ reader.reading = "payload" =>
              /\ Available
              /\ reader.header = Header(sent[frameNo])
              /\ offset >= FRAME_HEADER_SIZE
              /\ offset < FRAME_HEADER_SIZE + sent[frameNo].length
              /\ reader.framePayloadBytesLeft
                    = FRAME_HEADER_SIZE + sent[frameNo].length - offset
              /\ reader.framePayload =
                    [k \in 0..(sent[frameNo].length - 1) |->
                        IF FRAME_HEADER_SIZE + k < offset
                        THEN <<frameNo, FRAME_HEADER_SIZE + k>> ELSE Uninit]

(* The connection leaves Connected only on the first unreadable frame: all *)
(* the frames before it have been dispatched.  Whether it then fails or    *)
(* the program is undefined is not said: a SETTINGS frame whose size is no *)
(* multiple of six fails by its log line, and is dereferenced as null.     *)
FailsForCause ==
    connState # "Connected" =>
        LET n == Len(frames) + 1
        IN n <= Len(sent) /\ Unreadable(sent[n])

(* Seen from outside, the reader is a channel of whole frames.             *)
Channel == INSTANCE FrameChannel
RefinesChannel == Channel!Spec

(* Every frame sent is dispatched, unless the connection fails first.      *)
Delivered ==
    \A n \in 1..MaxFrames :
        (Len(sent) >= n) ~> (Len(frames) >= n \/ connState # "Connected")
=============================================================================
