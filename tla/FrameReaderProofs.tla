-------------------------- MODULE FrameReaderProofs --------------------------
(***************************************************************************)
(* Proofs about FrameReader, for every set of frames whose payloads fit    *)
(* the 8-bit counter.                                                      *)
(***************************************************************************)
EXTENDS FrameReader, TLAPS

(* The payload counter, a uint8_t, can count every payload. *)
Countable == \A f \in Frames : f.length < 256

-----------------------------------------------------------------------------
(* Big-endian arithmetic.                                                  *)

LEMMA SplitLength ==
    ASSUME NEW n \in Lengths
    PROVE  /\ n \div 65536 \in 0..255
           /\ (n \div 256) % 256 \in 0..255
           /\ n % 256 \in 0..255
           /\ 65536 * (n \div 65536) + 256 * ((n \div 256) % 256) = 256 * (n \div 256)
           /\ 256 * (n \div 256) + (n % 256) = n
  BY SMT DEF Lengths, Below

LEMMA SplitStreamID ==
    ASSUME NEW n \in StreamIDs
    PROVE  /\ n \div (256 * 65536) \in 0..127
           /\ (n \div 65536) % 256 \in 0..255
           /\ (n \div 256) % 256 \in 0..255
           /\ n % 256 \in 0..255
           /\ (256 * 65536) * (n \div (256 * 65536)) + 65536 * ((n \div 65536) % 256)
                = 65536 * (n \div 65536)
           /\ 65536 * (n \div 65536) + 256 * ((n \div 256) % 256) = 256 * (n \div 256)
           /\ 256 * (n \div 256) + (n % 256) = n
  BY SMT DEF StreamIDs, Below

(* The reserved bit does not reach the stream identifier. *)
LEMMA ReservedBit ==
    ASSUME NEW r \in 0..1, NEW d \in 0..127
    PROVE  /\ 128 * r + d \in 0..255
           /\ (128 * r + d) % 128 = d
  BY SMT

-----------------------------------------------------------------------------
(* The header reader turns the prefix of a header into the next prefix.    *)

LEMMA ByteType ==
    ASSUME NEW f \in FrameFields, NEW i \in 0..8
    PROVE  HeaderByte(f, i) \in 0..255
  <1>1. f.length \in Lengths /\ f.streamID \in StreamIDs /\ f.reserved \in 0..1
        /\ f.type \in 0..255 /\ f.flags \in 0..255
    BY DEF FrameFields
  <1>2. HeaderByte(f, 0) \in 0..255
    BY <1>1, SplitLength DEF HeaderByte
  <1>3. HeaderByte(f, 1) \in 0..255
    BY <1>1, SplitLength DEF HeaderByte
  <1>4. HeaderByte(f, 2) \in 0..255
    BY <1>1, SplitLength DEF HeaderByte
  <1>5. HeaderByte(f, 3) \in 0..255
    BY <1>1 DEF HeaderByte
  <1>6. HeaderByte(f, 4) \in 0..255
    BY <1>1 DEF HeaderByte
  <1>7. HeaderByte(f, 5) \in 0..255
    BY <1>1, SplitStreamID, ReservedBit DEF HeaderByte
  <1>8. HeaderByte(f, 6) \in 0..255
    BY <1>1, SplitStreamID DEF HeaderByte
  <1>9. HeaderByte(f, 7) \in 0..255
    BY <1>1, SplitStreamID DEF HeaderByte
  <1>10. HeaderByte(f, 8) \in 0..255
    BY <1>1, SplitStreamID DEF HeaderByte
  <1> QED BY <1>2, <1>3, <1>4, <1>5, <1>6, <1>7, <1>8, <1>9, <1>10

LEMMA PrefixStep ==
    ASSUME NEW f \in FrameFields, NEW p \in 0..8
    PROVE  PumpHeader(HeaderPrefix(f, p), p, HeaderByte(f, p)) = HeaderPrefix(f, p + 1)
  <1>1. f.length \in Lengths /\ f.streamID \in StreamIDs /\ f.reserved \in 0..1
    BY DEF FrameFields
  <1>2. f.length \in Nat /\ f.streamID \in Nat
    BY <1>1, SMT DEF Lengths, StreamIDs, Below
  <1> DEFINE b == HeaderByte(f, p)
  <1>3. CASE p = 0
    BY <1>1, <1>2, <1>3, SplitLength, SMT DEF PumpHeader, HeaderPrefix, HeaderByte
  <1>4. CASE p = 1
    BY <1>1, <1>2, <1>4, SplitLength, SMT DEF PumpHeader, HeaderPrefix, HeaderByte
  <1>5. CASE p = 2
    BY <1>1, <1>2, <1>5, SplitLength, SMT DEF PumpHeader, HeaderPrefix, HeaderByte
  <1>6. CASE p = 3
    BY <1>6, SMT DEF PumpHeader, HeaderPrefix, HeaderByte
  <1>7. CASE p = 4
    BY <1>7, SMT DEF PumpHeader, HeaderPrefix, HeaderByte
  <1>8. CASE p = 5
    <2> DEFINE top == f.streamID \div (256 * 65536)
    <2>1. top \in 0..127
      BY <1>1, SplitStreamID
    <2>2. b = 128 * f.reserved + top
      BY <1>8, SMT DEF HeaderByte
    <2>3. b % 128 = top
      BY <1>1, <2>1, <2>2, ReservedBit
    <2> QED BY <1>2, <1>8, <2>3, SMT DEF PumpHeader, HeaderPrefix
  <1>9. CASE p = 6
    BY <1>1, <1>2, <1>9, SplitStreamID, SMT DEF PumpHeader, HeaderPrefix, HeaderByte
  <1>10. CASE p = 7
    BY <1>1, <1>2, <1>10, SplitStreamID, SMT DEF PumpHeader, HeaderPrefix, HeaderByte
  <1>11. CASE p = 8
    <2>1. 256 * (f.streamID \div 256) + (f.streamID % 256) = f.streamID
      BY <1>1, SplitStreamID
    <2> QED BY <1>2, <1>11, <2>1, SMT DEF PumpHeader, HeaderPrefix, HeaderByte
  <1> QED BY <1>3, <1>4, <1>5, <1>6, <1>7, <1>8, <1>9, <1>10, <1>11

LEMMA PrefixEnds ==
    ASSUME NEW f \in FrameFields
    PROVE  /\ HeaderPrefix(f, 0) = NewHeader
           /\ HeaderPrefix(f, 9) = Header(f)
  BY SMT DEF HeaderPrefix, NewHeader, Header

LEMMA PrefixType ==
    ASSUME NEW f \in FrameFields, NEW p \in 0..9
    PROVE  HeaderPrefix(f, p) \in HeaderType
  <1>1. f.length \in Lengths /\ f.streamID \in StreamIDs
        /\ f.type \in 0..255 /\ f.flags \in 0..255
    BY DEF FrameFields
  <1>2. /\ 65536 * (f.length \div 65536) \in Lengths
        /\ 256 * (f.length \div 256) \in Lengths
        /\ 0 \in Lengths
    BY <1>1, SMT DEF Lengths, Below
  <1>3. /\ (256 * 65536) * (f.streamID \div (256 * 65536)) \in StreamIDs
        /\ 65536 * (f.streamID \div 65536) \in StreamIDs
        /\ 256 * (f.streamID \div 256) \in StreamIDs
        /\ 0 \in StreamIDs
    BY <1>1, SMT DEF StreamIDs
  <1> QED BY <1>1, <1>2, <1>3, SMT DEF HeaderPrefix, HeaderType, DATA

-----------------------------------------------------------------------------
(* Readers as records, and what the updates of FrameReader make of them.   *)

Reader(p, h, s, n, c) ==
    [pos |-> p, header |-> h, reading |-> s,
     framePayloadBytesLeft |-> n, framePayload |-> c]

SetHeader(rd, h, p) == [rd EXCEPT !.header = h, !.pos = p]
SetReading(rd, s) == [rd EXCEPT !.reading = s]
SetPayload(rd, c, n) == [rd EXCEPT !.framePayload = c, !.framePayloadBytesLeft = n]

LEMMA ReaderFields ==
    ASSUME NEW P, NEW H, NEW S, NEW N, NEW C,
           NEW rd \in [pos : P, header : H, reading : S,
                       framePayloadBytesLeft : N, framePayload : C]
    PROVE  rd = Reader(rd.pos, rd.header, rd.reading,
                       rd.framePayloadBytesLeft, rd.framePayload)
  BY SMT DEF Reader

LEMMA UpdateHeader ==
    ASSUME NEW p, NEW h, NEW s, NEW n, NEW c, NEW h2, NEW p2
    PROVE  SetHeader(Reader(p, h, s, n, c), h2, p2) = Reader(p2, h2, s, n, c)
  <1>1. SetHeader(Reader(p, h, s, n, c), h2, p2)
          = [[Reader(p, h, s, n, c) EXCEPT !.header = h2] EXCEPT !.pos = p2]
    BY Zenon DEF SetHeader
  <1>2. [Reader(p, h, s, n, c) EXCEPT !.header = h2] = Reader(p, h2, s, n, c)
    BY SMT DEF Reader
  <1>3. [Reader(p, h2, s, n, c) EXCEPT !.pos = p2] = Reader(p2, h2, s, n, c)
    BY SMT DEF Reader
  <1> QED BY <1>1, <1>2, <1>3, Zenon

LEMMA UpdateReading ==
    ASSUME NEW p, NEW h, NEW s, NEW n, NEW c, NEW s2
    PROVE  SetReading(Reader(p, h, s, n, c), s2) = Reader(p, h, s2, n, c)
  BY SMT DEF Reader, SetReading

LEMMA UpdatePayload ==
    ASSUME NEW p, NEW h, NEW s, NEW n, NEW c, NEW c2, NEW n2
    PROVE  SetPayload(Reader(p, h, s, n, c), c2, n2) = Reader(p, h, s, n2, c2)
  <1>1. SetPayload(Reader(p, h, s, n, c), c2, n2)
          = [[Reader(p, h, s, n, c) EXCEPT !.framePayload = c2]
                EXCEPT !.framePayloadBytesLeft = n2]
    BY Zenon DEF SetPayload
  <1>2. [Reader(p, h, s, n, c) EXCEPT !.framePayload = c2] = Reader(p, h, s, n, c2)
    BY SMT DEF Reader
  <1>3. [Reader(p, h, s, n, c2) EXCEPT !.framePayloadBytesLeft = n2] = Reader(p, h, s, n2, c2)
    BY SMT DEF Reader
  <1> QED BY <1>1, <1>2, <1>3, Zenon

-----------------------------------------------------------------------------
(* The inductive invariant: the reader is aligned with the wire.           *)

ReaderType(header) ==
    [pos : 0..FRAME_HEADER_SIZE, header : HeaderType,
     reading : {"header", "payload"}, framePayloadBytesLeft : 0..255,
     framePayload : {NoPayload} \cup [0..(header.length - 1) -> Cell]]

IInv == TypeOK /\ FrameIntegrity /\ Aligned /\ FailsForCause

LEMMA FrameFacts ==
    ASSUME NEW f \in Frames
    PROVE  /\ f \in FrameFields
           /\ f.length \in Nat
           /\ f.type \in 0..255
  <1>1. f \in FrameFields
    BY FramesAssumption
  <1> QED BY <1>1, SMT DEF FrameFields, Lengths, Below

LEMMA InitIInv == Init => IInv
  <1> SUFFICES ASSUME Init PROVE IInv
    OBVIOUS
  <1> USE DEF Init
  <1>1. NewHeader \in HeaderType
    BY SMT DEF NewHeader, HeaderType, Lengths, StreamIDs, Below, DATA
  <1>2. TypeOK
    BY <1>1, BoundAssumption, SMT DEF TypeOK, NewReader, FRAME_HEADER_SIZE
  <1>3. FrameIntegrity
    BY SMT DEF FrameIntegrity
  <1>4. Aligned
    BY SMT DEF Aligned, NewReader, Available, FRAME_HEADER_SIZE
  <1>5. FailsForCause
    BY DEF FailsForCause
  <1> QED BY <1>2, <1>3, <1>4, <1>5 DEF IInv

(* A frame more on the wire leaves the bytes before it as they are.        *)
LEMMA SendIInv ==
    ASSUME IInv, NEW f \in Frames, Send(f)
    PROVE  IInv'
  <1> USE DEF IInv, Send
  <1>1. /\ sent' \in Seq(Frames)
        /\ Len(sent') = Len(sent) + 1
        /\ Len(sent') <= MaxFrames
        /\ \A i \in 1..Len(sent) : sent'[i] = sent[i]
        /\ sent'[Len(sent) + 1] = f
    BY BoundAssumption, SMT DEF TypeOK
  <1>2. TypeOK'
    BY <1>1, SMT DEF TypeOK
  <1>3. FrameIntegrity'
    BY <1>1, SMT DEF FrameIntegrity, TypeOK
  <1>4. f \in FrameFields
    BY FramesAssumption
  <1>5. Aligned'
    <2> SUFFICES ASSUME connState = "Connected" PROVE Aligned'
      BY DEF Aligned
    <2>1. frameNo' = Len(frames') + 1
      BY DEF Aligned
    <2>2. Available => Available' /\ sent'[frameNo] = sent[frameNo]
      BY <1>1, SMT DEF Available, TypeOK
    <2>3. CASE reader.reading = "payload"
      BY <2>1, <2>2, <2>3 DEF Aligned
    <2>4. CASE reader.reading = "header" /\ Available
      BY <2>1, <2>2, <2>4 DEF Aligned
    <2>5. CASE reader.reading = "header" /\ ~Available
      <3>1. offset = 0 /\ reader.header = NewHeader
        BY <2>5 DEF Aligned
      <3>2. Len(frames) <= Len(sent)
        BY SMT DEF FrameIntegrity, TypeOK
      <3>3. Available' /\ sent'[frameNo] = f
        BY <1>1, <2>5, <3>2, SMT DEF Available, TypeOK, Aligned
      <3>4. reader.header = HeaderPrefix(f, offset)
        BY <1>4, <3>1, PrefixEnds
      <3>5. offset' = 0 /\ ~(offset' > 3) /\ offset' < FRAME_HEADER_SIZE
        BY <3>1 DEF FRAME_HEADER_SIZE
      <3> QED BY <2>1, <2>5, <3>3, <3>4, <3>5 DEF Aligned
    <2> QED BY <2>3, <2>4, <2>5 DEF TypeOK
  <1>6. FailsForCause'
    BY <1>1, SMT DEF FailsForCause, TypeOK
  <1> QED BY <1>2, <1>3, <1>5, <1>6

(* What the invariant says while a byte is available: the frame it is of.  *)
LEMMA CurrentFrame ==
    ASSUME IInv, connState = "Connected", Available
    PROVE  /\ sent[frameNo] \in Frames
           /\ sent[frameNo] \in FrameFields
           /\ sent[frameNo].length \in Nat
           /\ frameNo \in 1..MaxFrames
           /\ frameNo = Len(frames) + 1
           /\ frameNo <= Len(sent)
  <1>1. /\ sent[frameNo] \in Frames /\ frameNo \in 1..MaxFrames
        /\ frameNo <= Len(sent)
    BY BoundAssumption, SMT DEF IInv, TypeOK, Available
  <1>2. frameNo = Len(frames) + 1
    BY DEF IInv, Aligned
  <1> QED BY <1>1, <1>2, FrameFacts

(* Reading the last byte of a frame with the whole frame in the reader:    *)
(* the frame is dispatched, or it is unreadable and the connection stops.  *)
LEMMA CompleteIInv ==
    ASSUME IInv, connState = "Connected", Read,
           NEW r, Complete(r),
           r.header = Header(sent[frameNo]),
           r.framePayload = Payload(frameNo, sent[frameNo]),
           sent[frameNo].type \in KnownTypes,
           offset + 1 = FRAME_HEADER_SIZE + sent[frameNo].length,
           r \in ReaderType(r.header)
    PROVE  IInv'
  <1> DEFINE f == sent[frameNo]
  <1>1. Available
    BY DEF Read
  <1>2. /\ f \in Frames /\ f \in FrameFields /\ f.length \in Nat
        /\ frameNo \in 1..MaxFrames /\ frameNo = Len(frames) + 1
        /\ frameNo <= Len(sent)
    BY <1>1, CurrentFrame
  <1>3. frameNo' = frameNo + 1 /\ offset' = 0 /\ sent' = sent
    BY SMT DEF Read
  <1>4. Header(f) \in HeaderType
    BY <1>2, PrefixType, PrefixEnds
  <1>5. NewHeader \in HeaderType
    BY SMT DEF NewHeader, HeaderType, Lengths, StreamIDs, Below, DATA
  <1>6. FailsForCause
    BY DEF IInv
  <1>7. r.header \in HeaderType
    BY <1>4
  <1>8. [header |-> r.header, payload |-> r.framePayload] = Whole(frameNo, f)
    BY DEF Whole
  <1>9. PICK decodes \in BOOLEAN :
           /\ decodes = f.decodes
           /\ \/ /\ FrameResult(r.header, decodes) = "frame"
                 /\ frames' = Append(frames, Whole(frameNo, f))
                 /\ reader' = NewReader
                 /\ UNCHANGED connState
              \/ /\ FrameResult(r.header, decodes) = "error"
                 /\ connState' = "Failed"
                 /\ reader' = r
                 /\ UNCHANGED frames
              \/ /\ FrameResult(r.header, decodes) = "null"
                 /\ connState' = "Undefined"
                 /\ reader' = r
                 /\ UNCHANGED frames
    BY <1>8 DEF Complete, ResetFrame
  <1>10. FrameResult(r.header, decodes) = FrameResult(Header(f), f.decodes)
    BY <1>9
  <1>11. CASE /\ frames' = Append(frames, Whole(frameNo, f))
              /\ reader' = NewReader /\ UNCHANGED connState
              /\ FrameResult(Header(f), f.decodes) = "frame"
    <2> DEFINE Wholes == {Whole(n, g) : n \in 1..MaxFrames, g \in Frames}
    <2>0. frames' \in Seq(Wholes)
      <3>1. Whole(frameNo, f) \in Wholes
        BY <1>2
      <3>2. frames \in Seq(Wholes)
        BY DEF IInv, TypeOK
      <3> QED BY <1>11, <3>1, <3>2
    <2>1. TypeOK'
      BY <1>2, <1>3, <1>5, <1>11, <2>0, SMT
         DEF IInv, TypeOK, NewReader, FRAME_HEADER_SIZE
    <2>2. FrameIntegrity'
      <3>1. ~Unreadable(f)
        BY <1>11 DEF Unreadable
      <3> QED BY <1>2, <1>3, <1>11, <3>1, SMT DEF IInv, FrameIntegrity, TypeOK
    <2>3. Aligned'
      <3>1. frameNo' = Len(frames') + 1
        BY <1>2, <1>3, <1>11, SMT DEF IInv, TypeOK
      <3>2. Available' => sent'[frameNo'] \in Frames
        BY <1>2, <1>3, SMT DEF Available, IInv, TypeOK
      <3>3. Available' => HeaderPrefix(sent'[frameNo'], 0) = NewHeader
        BY <3>2, FrameFacts, PrefixEnds
      <3> QED BY <1>3, <1>11, <3>1, <3>3, SMT
                 DEF Aligned, NewReader, FRAME_HEADER_SIZE
    <2>4. FailsForCause'
      BY <1>11 DEF FailsForCause
    <2> QED BY <2>1, <2>2, <2>3, <2>4 DEF IInv
  <1>12. CASE /\ connState' \in {"Failed", "Undefined"}
              /\ reader' = r /\ UNCHANGED frames
              /\ FrameResult(Header(f), f.decodes) # "frame"
    <2>1. TypeOK'
      BY <1>2, <1>3, <1>7, <1>12, SMT DEF IInv, TypeOK, ReaderType
    <2>2. FrameIntegrity'
      BY <1>3, <1>12 DEF IInv, FrameIntegrity
    <2>3. Aligned'
      BY <1>12 DEF Aligned
    <2>4. FailsForCause'
      <3>1. Unreadable(f)
        BY <1>12 DEF Unreadable
      <3>2. Len(frames') + 1 = frameNo /\ frameNo <= Len(sent') /\ sent'[frameNo] = f
        BY <1>2, <1>3, <1>12
      <3> QED BY <3>1, <3>2, Zenon DEF FailsForCause
    <2> QED BY <2>1, <2>2, <2>3, <2>4 DEF IInv
  <1> QED BY <1>9, <1>10, <1>11, <1>12

(* A header byte. *)
LEMMA PumpHeaderByteIInv ==
    ASSUME IInv, Countable, NEW b, Available, b \in NextByte, PumpHeaderByte(b)
    PROVE  IInv'
  <1> DEFINE f == sent[frameNo]
             header == PumpHeader(reader.header, reader.pos, b)
             r == [reader EXCEPT !.header = header, !.pos = reader.pos + 1]
             done == [r EXCEPT !.reading = "payload"]
             filled == [done EXCEPT
                          !.framePayload = [k \in 0..(header.length - 1) |-> Uninit],
                          !.framePayloadBytesLeft = U8(header.length)]
  <1>1. connState = "Connected" /\ reader.reading = "header" /\ Read
    BY DEF PumpHeaderByte
  <1>2. /\ f \in Frames /\ f \in FrameFields /\ f.length \in Nat
        /\ frameNo \in 1..MaxFrames /\ frameNo = Len(frames) + 1
        /\ frameNo <= Len(sent)
    BY <1>1, CurrentFrame
  <1>3. /\ offset = reader.pos /\ offset \in 0..8
        /\ reader.framePayloadBytesLeft = 0 /\ reader.framePayload = NoPayload
        /\ reader.header = HeaderPrefix(f, offset)
    BY <1>1, SMT DEF IInv, Aligned, TypeOK, FRAME_HEADER_SIZE
  <1>4. b = HeaderByte(f, offset)
    BY <1>3, SMT DEF NextByte, FRAME_HEADER_SIZE
  <1> HIDE DEF header
  <1>5. header = HeaderPrefix(f, offset + 1)
    BY <1>2, <1>3, <1>4, PrefixStep DEF header
  <1>6. header \in HeaderType
    <2>1. offset + 1 \in 0..9
      BY <1>3
    <2> QED BY <1>2, <1>5, <2>1, PrefixType
  <1>7. sent' = sent
    BY <1>1 DEF Read
  <1>8. /\ r = Reader(offset + 1, header, "header", 0, NoPayload)
        /\ done = Reader(offset + 1, header, "payload", 0, NoPayload)
        /\ filled = Reader(offset + 1, header, "payload", U8(header.length),
                           [k \in 0..(header.length - 1) |-> Uninit])
    <2>1. reader \in ReaderType(reader.header)
      BY DEF IInv, TypeOK, ReaderType
    <2>2. PICK h : reader = Reader(offset, h, "header", 0, NoPayload)
      <3>1. reader = Reader(reader.pos, reader.header, reader.reading,
                            reader.framePayloadBytesLeft, reader.framePayload)
        BY <2>1, ReaderFields, Zenon DEF ReaderType
      <3> QED BY <1>1, <1>3, <3>1, Zenon
    <2>3. r = Reader(offset + 1, header, "header", 0, NoPayload)
      <3>1. r = SetHeader(Reader(offset, h, "header", 0, NoPayload), header, offset + 1)
        BY <1>3, <2>2 DEF SetHeader
      <3> HIDE DEF r
      <3> QED BY <3>1, UpdateHeader
    <2> HIDE DEF r
    <2>4. done = Reader(offset + 1, header, "payload", 0, NoPayload)
      <3>1. done = SetReading(Reader(offset + 1, header, "header", 0, NoPayload), "payload")
        BY <2>3 DEF SetReading
      <3> HIDE DEF done
      <3> QED BY <3>1, UpdateReading
    <2> HIDE DEF done
    <2> DEFINE cells == [k \in 0..(header.length - 1) |-> Uninit]
               left == U8(header.length)
    <2>5. filled = Reader(offset + 1, header, "payload", left, cells)
      <3>1. filled = SetPayload(Reader(offset + 1, header, "payload", 0, NoPayload),
                                cells, left)
        BY <2>4 DEF SetPayload
      <3> HIDE DEF cells, left, filled
      <3> QED BY <3>1, UpdatePayload
    <2> QED BY <2>3, <2>4, <2>5
  <1> HIDE DEF r, done, filled
  <1>9. offset = 3 => b = f.type
    BY <1>4, SMT DEF HeaderByte
  <1>10. offset > 3 => f.type \in KnownTypes
    BY <1>1 DEF IInv, Aligned
  <1>11. CASE /\ reader.pos = 3 /\ b \notin KnownTypes
              /\ connState' = "Failed"
              /\ UNCHANGED <<reader, frames>>
    <2>1. frameNo' = frameNo \/ frameNo' = frameNo + 1
      BY <1>1 DEF Read
    <2>2. offset' = 0 \/ offset' = offset + 1
      BY <1>1 DEF Read
    <2>3. TypeOK'
      BY <1>7, <1>11, <2>1, <2>2, SMT DEF IInv, TypeOK
    <2>4. FailsForCause'
      <3>1. f.type \notin KnownTypes
        BY <1>3, <1>9, <1>11
      <3>2. Unreadable(f)
        BY <3>1 DEF Unreadable
      <3>3. /\ Len(frames') + 1 = frameNo /\ frameNo <= Len(sent')
            /\ sent'[frameNo] = f
        BY <1>2, <1>7, <1>11
      <3> QED BY <3>2, <3>3, Zenon DEF FailsForCause
    <2> QED BY <1>7, <1>11, <2>3, <2>4 DEF IInv, FrameIntegrity, Aligned
  <1>12. CASE /\ ~(reader.pos = 3 /\ b \notin KnownTypes)
              /\ reader.pos + 1 # FRAME_HEADER_SIZE
              /\ reader' = r
              /\ UNCHANGED <<connState, frames>>
    <2>1. frameNo' = frameNo /\ offset' = offset + 1
      <3>1. offset + 1 # FRAME_HEADER_SIZE + f.length
        <4> DEFINE length == f.length
        <4>1. length \in Nat
          BY <1>2
        <4> HIDE DEF length, f
        <4>2. offset + 1 # 9 + length
          BY <1>3, <1>12, <4>1, SMT DEF FRAME_HEADER_SIZE
        <4> QED BY <4>2 DEF FRAME_HEADER_SIZE, length
      <3> QED BY <1>1, <3>1, Zenon DEF Read
    <2>2. TypeOK'
      BY <1>3, <1>6, <1>7, <1>8, <1>12, <2>1, SMTT(30) DEF IInv, TypeOK, FRAME_HEADER_SIZE, Reader
    <2>3. offset' > 3 => f.type \in KnownTypes
      BY <1>3, <1>9, <1>10, <1>12, <2>1, SMT
    <2>4. Aligned'
      BY <1>2, <1>3, <1>5, <1>7, <1>8, <1>12, <2>1, <2>3, SMT
         DEF Aligned, Available, FRAME_HEADER_SIZE, Reader
    <2> QED BY <1>1, <1>7, <1>12, <2>2, <2>4
            DEF IInv, FrameIntegrity, FailsForCause
  <1>13. CASE reader.pos + 1 = FRAME_HEADER_SIZE
    <2>1. offset = 8 /\ offset + 1 = 9
      BY <1>3, <1>13, SMT DEF FRAME_HEADER_SIZE
    <2>2. header = Header(f)
      BY <1>2, <1>5, <2>1, PrefixEnds
    <2>3. header.length = f.length
      BY <2>2 DEF Header
    <2>4. f.type \in KnownTypes
      BY <1>10, <2>1
    <2>5. CASE header.length # 0 /\ reader' = filled /\ UNCHANGED <<connState, frames>>
      <3>1. frameNo' = frameNo /\ offset' = 9
        BY <1>1, <1>2, <2>1, <2>3, <2>5, SMT DEF Read, FRAME_HEADER_SIZE
      <3>2. U8(f.length) = f.length /\ f.length \in 1..255
        <4>1. f.length < 256
          BY <1>2 DEF Countable
        <4>2. f.length # 0
          BY <2>3, <2>5
        <4>3. f.length \in 1..255
          <5>1. f.length \in Nat
            BY <1>2
          <5> QED BY <4>1, <4>2, <5>1, SMT
        <4> QED BY <4>3, SMT DEF U8
      <3>3. reader' = Reader(9, header, "payload", f.length,
                             [k \in 0..(f.length - 1) |-> Uninit])
        BY <1>8, <2>1, <2>3, <2>5, <3>2
      <3>4. [k \in 0..(f.length - 1) |-> Uninit] \in [0..(header.length - 1) -> Cell]
        BY <2>3 DEF Cell
      <3>5. TypeOK'
        BY <1>6, <1>7, <2>5, <3>1, <3>2, <3>3, <3>4, SMT
           DEF IInv, TypeOK, FRAME_HEADER_SIZE, Reader
      <3>6. [k \in 0..(f.length - 1) |-> Uninit]
              = [k \in 0..(f.length - 1) |->
                    IF FRAME_HEADER_SIZE + k < offset'
                    THEN <<frameNo, FRAME_HEADER_SIZE + k>> ELSE Uninit]
        <4>1. ASSUME NEW k \in 0..(f.length - 1)
              PROVE  ~(FRAME_HEADER_SIZE + k < offset')
          BY <1>2, <3>1, SMT DEF FRAME_HEADER_SIZE
        <4> QED BY <4>1
      <3>7. Aligned'
        <4>1. /\ reader'.reading = "payload" /\ reader'.header = Header(f)
              /\ reader'.framePayloadBytesLeft = f.length
              /\ reader'.framePayload = [k \in 0..(f.length - 1) |-> Uninit]
          BY <2>2, <3>3 DEF Reader
        <4>2. Available' /\ sent'[frameNo'] = f /\ frameNo' = Len(frames') + 1
          BY <1>2, <1>7, <2>5, <3>1 DEF Available
        <4>3. /\ offset' >= FRAME_HEADER_SIZE
              /\ offset' < FRAME_HEADER_SIZE + f.length
              /\ f.length = FRAME_HEADER_SIZE + f.length - offset'
          BY <3>1, <3>2, SMT DEF FRAME_HEADER_SIZE
        <4> QED BY <2>4, <3>1, <3>6, <4>1, <4>2, <4>3, Zenon DEF Aligned
      <3> QED BY <1>1, <1>7, <2>5, <3>5, <3>7 DEF IInv, FrameIntegrity, FailsForCause
    <2>6. CASE header.length = 0 /\ Complete(done)
      <3>1. done.framePayload = Payload(frameNo, f)
        <4>1. f.length = 0 /\ 0..(0 - 1) = {}
          BY <2>3, <2>6
        <4>2. Payload(frameNo, f) = NoPayload
          BY <4>1, SMT DEF Payload, NoPayload
        <4> QED BY <1>8, <4>2 DEF Reader
      <3>2. offset + 1 = FRAME_HEADER_SIZE + f.length
        BY <2>1, <2>3, <2>6, SMT DEF FRAME_HEADER_SIZE
      <3>3. done.header = Header(f) /\ done \in ReaderType(done.header)
        BY <1>6, <1>8, <2>1, <2>2, SMT DEF ReaderType, Reader, FRAME_HEADER_SIZE
      <3> QED BY <1>1, <2>4, <2>6, <3>1, <3>2, <3>3, CompleteIInv
    <2>7. \/ header.length # 0 /\ reader' = filled /\ UNCHANGED <<connState, frames>>
          \/ header.length = 0 /\ Complete(done)
      BY <1>13, <2>1, SMT DEF PumpHeaderByte, FRAME_HEADER_SIZE, header, r, done, filled
    <2> QED BY <2>5, <2>6, <2>7
  <1>14. \/ /\ reader.pos = 3 /\ b \notin KnownTypes
            /\ connState' = "Failed"
            /\ UNCHANGED <<reader, frames>>
         \/ /\ ~(reader.pos = 3 /\ b \notin KnownTypes)
            /\ reader.pos + 1 # FRAME_HEADER_SIZE
            /\ reader' = r
            /\ UNCHANGED <<connState, frames>>
         \/ reader.pos + 1 = FRAME_HEADER_SIZE
    BY DEF PumpHeaderByte, header, r
  <1> QED BY <1>11, <1>12, <1>13, <1>14

(* A payload byte: it lands in the cell the counter points at. *)
LEMMA PumpPayloadByteIInv ==
    ASSUME IInv, Countable, PumpPayloadByte
    PROVE  IInv'
  <1> DEFINE f == sent[frameNo]
             left == reader.framePayloadBytesLeft
             cell == reader.header.length - left
             cells == [reader.framePayload EXCEPT ![cell] = <<frameNo, offset>>]
             r == [reader EXCEPT
                    !.framePayload = [@ EXCEPT ![cell] = <<frameNo, offset>>],
                    !.framePayloadBytesLeft = left - 1]
  <1>1. connState = "Connected" /\ reader.reading = "payload" /\ Read /\ Available
    BY DEF PumpPayloadByte, Read
  <1>2. /\ f \in Frames /\ f \in FrameFields /\ f.length \in Nat
        /\ frameNo \in 1..MaxFrames /\ frameNo = Len(frames) + 1
        /\ frameNo <= Len(sent)
    BY <1>1, CurrentFrame
  <1>3. /\ reader.header = Header(f)
        /\ offset >= FRAME_HEADER_SIZE
        /\ offset < FRAME_HEADER_SIZE + f.length
        /\ left = FRAME_HEADER_SIZE + f.length - offset
        /\ reader.framePayload = [k \in 0..(f.length - 1) |->
              IF FRAME_HEADER_SIZE + k < offset
              THEN <<frameNo, FRAME_HEADER_SIZE + k>> ELSE Uninit]
    BY <1>1 DEF IInv, Aligned
  <1>4. offset \in Nat /\ left \in 0..255 /\ reader.header.length = f.length
        /\ reader \in ReaderType(reader.header)
    BY <1>3, SMTT(30) DEF IInv, TypeOK, Header, ReaderType
  <1>5. f.type \in KnownTypes
    <2>1. offset > 3
      BY <1>3, <1>4, SMT DEF FRAME_HEADER_SIZE
    <2> QED BY <1>1, <2>1 DEF IInv, Aligned
  <1>6. sent' = sent
    BY <1>1 DEF Read
  <1>7. left > 0 /\ left - 1 \in 0..255 /\ cell = offset - FRAME_HEADER_SIZE
    BY <1>2, <1>3, <1>4, SMT DEF FRAME_HEADER_SIZE
  <1>8. cells = [k \in 0..(f.length - 1) |->
                   IF FRAME_HEADER_SIZE + k < offset + 1
                   THEN <<frameNo, FRAME_HEADER_SIZE + k>> ELSE Uninit]
    <2>1. ASSUME NEW k \in 0..(f.length - 1)
          PROVE  cells[k] = IF FRAME_HEADER_SIZE + k < offset + 1
                            THEN <<frameNo, FRAME_HEADER_SIZE + k>> ELSE Uninit
      BY <1>2, <1>3, <1>4, <1>7, SMTT(30) DEF FRAME_HEADER_SIZE
    <2>2. cells = [k \in 0..(f.length - 1) |-> cells[k]]
      BY <1>3
    <2> QED BY <2>1, <2>2
  <1>9. cells \in [0..(f.length - 1) -> Cell]
    <2>1. ASSUME NEW k \in 0..(f.length - 1)
          PROVE  <<frameNo, FRAME_HEADER_SIZE + k>> \in Cell
      BY <1>2, SMT DEF Cell, FRAME_HEADER_SIZE
    <2>2. Uninit \in Cell
      BY DEF Cell
    <2> HIDE DEF cells
    <2> QED BY <1>8, <2>1, <2>2
  <1>10. r = Reader(reader.pos, reader.header, "payload", left - 1, cells)
    <2>1. reader = Reader(reader.pos, reader.header, reader.reading,
                          reader.framePayloadBytesLeft, reader.framePayload)
      BY <1>4, ReaderFields, Zenon DEF ReaderType
    <2>2. PICK p, h : /\ reader = Reader(p, h, "payload", left, reader.framePayload)
                      /\ p = reader.pos /\ h = reader.header
      BY <1>1, <2>1
    <2>3. r = SetPayload(reader, cells, left - 1)
      BY DEF SetPayload
    <2> HIDE DEF r, cells
    <2>4. SetPayload(Reader(p, h, "payload", left, reader.framePayload), cells, left - 1)
            = Reader(p, h, "payload", left - 1, cells)
      BY UpdatePayload
    <2> QED BY <2>2, <2>3, <2>4, Zenon
  <1>11. \/ left = 1 /\ Complete(r)
         \/ left > 1 /\ reader' = r /\ UNCHANGED <<connState, frames>>
    <2>1. left # 0
      BY <1>7
    <2> QED BY <2>1, Zenon DEF PumpPayloadByte
  <1> HIDE DEF cells, r
  <1>12. r \in ReaderType(r.header)
    <2>1. /\ reader.pos \in 0..FRAME_HEADER_SIZE /\ reader.header \in HeaderType
          /\ left - 1 \in 0..255
      BY <1>3, <1>4, <1>7 DEF ReaderType
    <2>2. r.header.length = f.length /\ r.header = reader.header
      BY <1>3, <1>10 DEF Reader, Header
    <2>3. cells \in [0..(r.header.length - 1) -> Cell]
      BY <1>9, <2>2
    <2> QED BY <1>10, <2>1, <2>2, <2>3, SMTT(20) DEF ReaderType, Reader
  <1>13. CASE left = 1 /\ Complete(r)
    <2>1. offset + 1 = FRAME_HEADER_SIZE + f.length
      BY <1>2, <1>3, <1>4, <1>13, SMT DEF FRAME_HEADER_SIZE
    <2>2. cells = Payload(frameNo, f)
      <3>1. ASSUME NEW k \in 0..(f.length - 1)
            PROVE  FRAME_HEADER_SIZE + k < offset + 1
        BY <1>2, <2>1, SMT DEF FRAME_HEADER_SIZE
      <3> QED BY <1>8, <3>1 DEF Payload
    <2>3. /\ r.header = Header(f) /\ r.framePayload = Payload(frameNo, f)
          /\ r.pos = reader.pos /\ r.reading = "payload"
          /\ r.framePayloadBytesLeft = left - 1
      BY <1>3, <1>10, <2>2 DEF Reader
    <2> QED BY <1>1, <1>5, <1>13, <1>12, <2>1, <2>3, CompleteIInv
  <1>14. CASE left > 1 /\ reader' = r /\ UNCHANGED <<connState, frames>>
    <2>1. frameNo' = frameNo /\ offset' = offset + 1
      BY <1>1, <1>2, <1>3, <1>4, <1>14, SMT DEF Read, FRAME_HEADER_SIZE
    <2>2. /\ reader'.header = Header(f) /\ reader'.framePayload = cells
          /\ reader'.reading = "payload" /\ reader'.framePayloadBytesLeft = left - 1
      BY <1>3, <1>10, <1>14 DEF Reader
    <2>3. reader' \in ReaderType(reader'.header)
      BY <1>14, <1>12
    <2>4. TypeOK'
      BY <1>4, <1>6, <1>14, <2>1, <2>3, SMT DEF IInv, TypeOK, ReaderType
    <2>5. /\ offset' >= FRAME_HEADER_SIZE
          /\ offset' < FRAME_HEADER_SIZE + f.length
          /\ left - 1 = FRAME_HEADER_SIZE + f.length - offset'
      <3>1. offset \in Nat /\ f.length \in Nat
        BY <1>2, <1>4
      <3>2. /\ offset' = offset + 1 /\ left > 1
            /\ left = FRAME_HEADER_SIZE + f.length - offset
            /\ offset >= FRAME_HEADER_SIZE
        BY <1>3, <1>14, <2>1
      <3> HIDE DEF f, left
      <3> QED BY <3>1, <3>2, SMT DEF FRAME_HEADER_SIZE
    <2>6. Available' /\ sent'[frameNo'] = f /\ frameNo' = Len(frames') + 1
      BY <1>2, <1>6, <1>14, <2>1 DEF Available
    <2>7. Aligned'
      BY <1>5, <1>8, <2>1, <2>2, <2>5, <2>6, Zenon DEF Aligned
    <2> QED BY <1>1, <1>6, <1>14, <2>4, <2>7 DEF IInv, FrameIntegrity, FailsForCause
  <1> QED BY <1>11, <1>13, <1>14

LEMMA PumpFailedIInv ==
    ASSUME IInv, PumpFailed
    PROVE  IInv'
  <1>1. /\ connState = "Failed" /\ UNCHANGED <<sent, connState, reader, frames>>
        /\ frameNo' = frameNo + 1 \/ frameNo' = frameNo
        /\ offset' = 0 \/ offset' = offset + 1
    BY DEF PumpFailed, Read
  <1>2. TypeOK'
    BY <1>1, SMT DEF IInv, TypeOK
  <1> QED BY <1>1, <1>2 DEF IInv, FrameIntegrity, Aligned, FailsForCause

LEMMA StutterIInv ==
    ASSUME IInv, UNCHANGED vars
    PROVE  IInv'
  BY DEF IInv, vars, TypeOK, FrameIntegrity, Aligned, FailsForCause, Available

LEMMA NextIInv ==
    ASSUME Countable, IInv, [Next]_vars
    PROVE  IInv'
  <1>1. ASSUME NEW f \in Frames, Send(f) PROVE IInv'
    BY <1>1, SendIInv
  <1>2. ASSUME Available, NEW b \in NextByte, PumpHeaderByte(b) PROVE IInv'
    BY <1>2, PumpHeaderByteIInv
  <1>3. CASE PumpPayloadByte
    BY <1>3, PumpPayloadByteIInv
  <1>4. CASE PumpFailed
    BY <1>4, PumpFailedIInv
  <1>5. CASE UNCHANGED vars
    BY <1>5, StutterIInv
  <1> QED BY <1>1, <1>2, <1>3, <1>4, <1>5 DEF Next, Pump

-----------------------------------------------------------------------------
(* The reader of every connection, at every byte, for any set of frames    *)
(* whose payloads a uint8_t can count, and any number of them.             *)

(* Integrity alone is what the user of the reader sees; the other parts    *)
(* are what it rests on, and say each something of the code.               *)
LEMMA Invariance ==
    ASSUME Countable
    PROVE  Spec => []IInv
  <1>1. Init => IInv
    BY InitIInv
  <1>2. IInv /\ [Next]_vars => IInv'
    BY NextIInv
  <1> QED BY <1>1, <1>2, PTL DEF Spec

(* What Connection::pump dispatches is what was sent, whole and in order:  *)
(* FrameReader::pump and the reset in Connection::pump lose, repeat and    *)
(* mix up nothing.                                                         *)
THEOREM Integrity ==
    ASSUME Countable
    PROVE  Spec => []FrameIntegrity
  <1>1. Spec => []IInv
    BY Invariance
  <1>2. IInv => FrameIntegrity
    BY DEF IInv
  <1> QED BY <1>1, <1>2, PTL

(* The position of FrameReader::pump is that of the peer in the frame it   *)
(* is sending, so no byte is taken for a byte of another field or frame.   *)
THEOREM StaysAligned ==
    ASSUME Countable
    PROVE  Spec => []Aligned
  <1>1. Spec => []IInv
    BY Invariance
  <1>2. IInv => Aligned
    BY DEF IInv
  <1> QED BY <1>1, <1>2, PTL

(* Connection::pump gives up a connection only over a frame that is not to *)
(* be read, and over the first of them.                                    *)
THEOREM FailsOnlyForCause ==
    ASSUME Countable
    PROVE  Spec => []FailsForCause
  <1>1. Spec => []IInv
    BY Invariance
  <1>2. IInv => FailsForCause
    BY DEF IInv
  <1> QED BY <1>1, <1>2, PTL

(* Each header field stays in the range of its C++ type, each state in its *)
(* enumeration, and the payload counter never passes below zero.           *)
THEOREM TypeCorrect ==
    ASSUME Countable
    PROVE  Spec => []TypeOK
  <1>1. Spec => []IInv
    BY Invariance
  <1>2. IInv => TypeOK
    BY DEF IInv
  <1> QED BY <1>1, <1>2, PTL

-----------------------------------------------------------------------------
(* The refinement: a byte is a stutter, a Deliver or a Stop of the channel.*)

(* Handing a frame to the dispatch, or stopping. *)
Completion ==
    \/ /\ UNCHANGED connState
       /\ \E frame : frames' = Append(frames, frame)
    \/ /\ connState' \in {"Failed", "Undefined"}
       /\ UNCHANGED frames

LEMMA CompleteShape ==
    ASSUME NEW r, Complete(r)
    PROVE  Completion
  BY Zenon DEF Complete, Completion

LEMMA PumpShape ==
    ASSUME Pump
    PROVE  /\ UNCHANGED sent
           /\ \/ UNCHANGED <<connState, frames>>
              \/ connState = "Connected" /\ Completion
  <1>1. ASSUME NEW b, PumpHeaderByte(b)
        PROVE  /\ UNCHANGED sent
               /\ \/ UNCHANGED <<connState, frames>>
                  \/ connState = "Connected" /\ Completion
    <2>1. sent' = sent /\ connState = "Connected"
      BY <1>1 DEF PumpHeaderByte, Read
    <2>2. \/ connState' = "Failed" /\ UNCHANGED frames
          \/ UNCHANGED <<connState, frames>>
          \/ \E r : Complete(r)
      BY <1>1, Zenon DEF PumpHeaderByte
    <2> QED BY <2>1, <2>2, CompleteShape DEF Completion
  <1>2. CASE PumpPayloadByte
    <2>1. sent' = sent /\ connState = "Connected"
      BY <1>2 DEF PumpPayloadByte, Read
    <2>2. UNCHANGED <<connState, frames>> \/ \E r : Complete(r)
      BY <1>2, Zenon DEF PumpPayloadByte
    <2> QED BY <2>1, <2>2, CompleteShape
  <1>3. CASE PumpFailed
    BY <1>3 DEF PumpFailed, Read
  <1> QED BY <1>1, <1>2, <1>3 DEF Pump

(* The channel's own copies of the operators of Wire. *)
LEMMA ChannelOperators ==
    /\ \A n, f : Channel!Whole(n, f) = Whole(n, f)
    /\ \A f : Channel!Header(f) = Header(f)
    /\ \A h, d : Channel!FrameResult(h, d) = FrameResult(h, d)
    /\ \A f : Channel!Unreadable(f) = Unreadable(f)
  <1> USE DEF Channel!DATA, Channel!HEADERS, Channel!SETTINGS,
              Channel!PUSH_PROMISE, Channel!GOAWAY, Channel!WINDOW_UPDATE,
              DATA, HEADERS, SETTINGS, PUSH_PROMISE, GOAWAY, WINDOW_UPDATE,
              Channel!FRAME_HEADER_SIZE, FRAME_HEADER_SIZE
  <1>1. \A f : Channel!Header(f) = Header(f)
    BY DEF Channel!Header, Header
  <1>2. \A n, f : Channel!Whole(n, f) = Whole(n, f)
    BY <1>1, Zenon DEF Channel!Whole, Whole, Channel!Payload, Payload
  <1>3. \A h, d : Channel!FrameResult(h, d) = FrameResult(h, d)
    BY Zenon DEF Channel!FrameResult, FrameResult
  <1>4. \A f : Channel!Unreadable(f) = Unreadable(f)
    BY <1>1, <1>3, Zenon DEF Channel!Unreadable, Unreadable,
                             Channel!KnownTypes, KnownTypes
  <1> QED BY <1>1, <1>2, <1>3, <1>4

LEMMA NextRefines ==
    ASSUME Countable, IInv, [Next]_vars
    PROVE  [Channel!Next]_(Channel!vars)
  <1>1. IInv'
    BY NextIInv
  <1>2. ASSUME NEW f \in Frames, Send(f) PROVE Channel!Next
    BY <1>2 DEF Send, Channel!Next, Channel!Send
  <1>3. CASE Pump
    <2>1. sent' = sent
      BY <1>3, PumpShape
    <2>2. CASE UNCHANGED <<connState, frames>>
      BY <2>1, <2>2 DEF Channel!vars
    <2>3. CASE connState = "Connected" /\ UNCHANGED connState
               /\ \E frame : frames' = Append(frames, frame)
      <3> DEFINE n == Len(frames) + 1
      <3>1. PICK frame : frames' = Append(frames, frame)
        BY <2>3
      <3>2. Len(frames') = n /\ frames'[n] = frame
        BY <3>1, SMT DEF IInv, TypeOK
      <3>3. n <= Len(sent) /\ frame = Whole(n, sent[n]) /\ ~Unreadable(sent[n])
        <4>1. n \in 1..Len(frames')
          BY <3>2, SMT DEF IInv, TypeOK
        <4> QED BY <1>1, <2>1, <3>2, <4>1 DEF IInv, FrameIntegrity
      <3>4. Channel!NextNo = n
        BY DEF Channel!NextNo
      <3>5. Channel!Deliver
        BY <2>1, <2>3, <3>1, <3>3, <3>4, ChannelOperators, Zenon DEF Channel!Deliver
      <3> QED BY <3>5 DEF Channel!Next
    <2>4. CASE connState = "Connected" /\ UNCHANGED frames
               /\ connState' \in {"Failed", "Undefined"}
      <3> DEFINE n == Len(frames) + 1
      <3>1. n <= Len(sent) /\ Unreadable(sent[n])
        BY <1>1, <2>1, <2>4 DEF IInv, FailsForCause
      <3>2. Channel!NextNo = n
        BY DEF Channel!NextNo
      <3>3. Channel!Stop
        BY <2>1, <2>4, <3>1, <3>2, ChannelOperators, Zenon DEF Channel!Stop
      <3> QED BY <3>3 DEF Channel!Next
    <2> QED BY <1>3, <2>2, <2>3, <2>4, PumpShape DEF Completion
  <1>4. CASE UNCHANGED vars
    BY <1>4 DEF vars, Channel!vars
  <1> QED BY <1>2, <1>3, <1>4 DEF Next

(* Whoever calls pump() sees a channel of whole frames: the dispatch gets  *)
(* each readable frame once, whole and in order, and nothing after the     *)
(* first unreadable one (FrameReader::pump and Connection::pump).          *)
THEOREM Refinement ==
    ASSUME Countable
    PROVE  Spec => RefinesChannel
  <1>1. Init => Channel!Init
    BY DEF Init, Channel!Init
  <1>2. Init => IInv
    BY InitIInv
  <1>3. IInv /\ [Next]_vars => IInv'
    BY NextIInv
  <1>4. IInv /\ [Next]_vars => [Channel!Next]_(Channel!vars)
    BY NextRefines
  <1> QED BY <1>1, <1>2, <1>3, <1>4, PTL DEF Spec, RefinesChannel, Channel!Spec
=============================================================================
