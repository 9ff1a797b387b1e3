------------------------- MODULE FrameWriterProofs -------------------------
(***************************************************************************)
(* Proofs about FrameWriter, for every set of frames whose DATA payloads   *)
(* the 8-bit loop counter of DataFrame::writePayload can count.            *)
(***************************************************************************)
EXTENDS FrameWriter, TLAPS

Countable == \A f \in Frames : f.type = DATA => f.length < 256

(* The server writes frames of types it would read itself. *)
AllReadable == \A f \in Frames : ~Unreadable(f)

-----------------------------------------------------------------------------
(* The nine bytes of a header, written and put together again.             *)

LEMMA LengthBytes ==
    ASSUME NEW n \in Lengths
    PROVE  /\ (n \div 65536) % 256 \in Nat /\ (n \div 256) % 256 \in Nat /\ n % 256 \in Nat
           /\ 65536 * ((n \div 65536) % 256) + 256 * ((n \div 256) % 256) + (n % 256) = n
  <1>1. n \in Nat /\ n \div 65536 \in 0..255
    BY SMT DEF Lengths, Below
  <1>2. (n \div 65536) % 256 = n \div 65536
    BY <1>1, SMT
  <1>3. 65536 * (n \div 65536) + 256 * ((n \div 256) % 256) = 256 * (n \div 256)
    BY <1>1, SMT
  <1>4. 256 * (n \div 256) + (n % 256) = n
    BY <1>1, SMT
  <1> QED BY <1>1, <1>2, <1>3, <1>4, SMT

LEMMA StreamIDBytes ==
    ASSUME NEW n \in StreamIDs
    PROVE  /\ (n \div (256 * 65536)) % 256 \in Nat /\ (n \div 65536) % 256 \in Nat
           /\ (n \div 256) % 256 \in Nat /\ n % 256 \in Nat
           /\ (256 * 65536) * ((n \div (256 * 65536)) % 256) + 65536 * ((n \div 65536) % 256)
                + 256 * ((n \div 256) % 256) + (n % 256) = n
  <1>1. n \in Nat /\ n \div 65536 < 32768
    BY DEF StreamIDs
  <1>2. n \div (256 * 65536) \in 0..127
    BY <1>1, SMT
  <1>3. (n \div (256 * 65536)) % 256 = n \div (256 * 65536)
    BY <1>2, SMT
  <1>4. (256 * 65536) * (n \div (256 * 65536)) + 65536 * ((n \div 65536) % 256)
            = 65536 * (n \div 65536)
    BY <1>1, SMT
  <1>5. 65536 * (n \div 65536) + 256 * ((n \div 256) % 256) = 256 * (n \div 256)
    BY <1>1, SMT
  <1>6. 256 * (n \div 256) + (n % 256) = n
    BY <1>1, SMT
  <1> QED BY <1>1, <1>2, <1>3, <1>4, <1>5, <1>6, SMT

LEMMA FrameFacts ==
    ASSUME NEW f \in Frames
    PROVE  /\ f.length \in Lengths /\ f.length \in Nat
           /\ f.streamID \in StreamIDs
           /\ f.type \in 0..255 /\ f.flags \in 0..255
           /\ f.type = PING => f.length = 8
           /\ f.type = RST_STREAM => f.length = 4
  BY FramesAssumption DEF FrameFields, FixedSize, Lengths, Below

LEMMA SixBytes ==
    ASSUME NEW n \in Nat, n % 6 = 0
    PROVE  n \div 6 \in Nat /\ 6 * (n \div 6) = n /\ (n \div 6) * 6 = n
  OBVIOUS

(* payloadLength counts what the loop of writePayload writes. *)
LEMMA Sizes ==
    ASSUME NEW f \in Frames
    PROVE  /\ PayloadLength(f) = f.length
           /\ Turns(f) \in Nat
           /\ TurnSize(f) \in {1, 4, 6}
           /\ Turns(f) * TurnSize(f) = f.length
           /\ f.type \in {DATA, PING} => Turns(f) = f.length
  <1>1. f.type \in {DATA, HEADERS, RST_STREAM, SETTINGS, PING}
    BY ServerFramesAssumption
  <1>2. f.length \in Nat
    BY FrameFacts
  <1> USE DEF DATA, HEADERS, RST_STREAM, SETTINGS, PING
  <1>3. CASE f.type = SETTINGS
    <2>1. f.length % 6 = 0
      BY <1>3, ServerFramesAssumption
    <2>2. Settings(f) \in Nat /\ 6 * Settings(f) = f.length /\ Settings(f) * 6 = f.length
      BY <1>2, <2>1, SixBytes DEF Settings
    <2>3. PayloadLength(f) = 6 * Settings(f) /\ Turns(f) = Settings(f) /\ TurnSize(f) = 6
      BY <1>3 DEF PayloadLength, Turns, TurnSize
    <2> QED BY <1>3, <2>2, <2>3
  <1>4. CASE f.type = RST_STREAM
    <2>1. PayloadLength(f) = 4 /\ Turns(f) = 1 /\ TurnSize(f) = 4 /\ f.length = 4
      BY <1>4, FrameFacts DEF PayloadLength, Turns, TurnSize
    <2> QED BY <1>4, <2>1
  <1>5. CASE f.type = PING
    <2>1. PayloadLength(f) = 8 /\ Turns(f) = 8 /\ TurnSize(f) = 1 /\ f.length = 8
      BY <1>5, FrameFacts DEF PayloadLength, Turns, TurnSize
    <2> QED BY <1>5, <2>1
  <1>6. CASE f.type \in {DATA, HEADERS}
    <2>1. PayloadLength(f) = f.length /\ Turns(f) = f.length /\ TurnSize(f) = 1
      BY <1>6 DEF PayloadLength, Turns, TurnSize
    <2> QED BY <1>2, <1>6, <2>1
  <1> QED BY <1>1, <1>3, <1>4, <1>5, <1>6

(* The payload is written whole when the loop is at its end, not before;   *)
(* and each byte of a turn takes it on by one.                             *)
LEMMA TurnsFill ==
    ASSUME NEW turns \in Nat, NEW size \in {1, 4, 6}, NEW j \in 0..turns,
           NEW p \in 0..(size - 1), j = turns => p = 0
    PROVE  /\ j * size + p \in 0..(turns * size)
           /\ j * size + p = turns * size <=> j = turns
  <1>1. CASE size = 1
    BY <1>1
  <1>2. CASE size = 4
    BY <1>2
  <1>3. CASE size = 6
    BY <1>3
  <1> QED BY <1>1, <1>2, <1>3

LEMMA TurnGoesOn ==
    ASSUME NEW size \in {1, 4, 6}, NEW j \in Nat, NEW p \in 0..(size - 1)
    PROVE  /\ j * size + (p + 1) = (j * size + p) + 1
           /\ p + 1 = size => (j + 1) * size + 0 = (j * size + p) + 1
  <1>1. CASE size = 1
    BY <1>1
  <1>2. CASE size = 4
    BY <1>2
  <1>3. CASE size = 6
    BY <1>3
  <1> QED BY <1>1, <1>2, <1>3

(* The bytes of the header of f. *)
LEMMA OutBytes ==
    ASSUME NEW f \in Frames
    PROVE  /\ OutHeaderByte(f, 0) = (f.length \div 65536) % 256
           /\ OutHeaderByte(f, 1) = (f.length \div 256) % 256
           /\ OutHeaderByte(f, 2) = f.length % 256
           /\ OutHeaderByte(f, 3) = f.type
           /\ OutHeaderByte(f, 4) = f.flags
           /\ OutHeaderByte(f, 5) = (f.streamID \div (256 * 65536)) % 256
           /\ OutHeaderByte(f, 6) = (f.streamID \div 65536) % 256
           /\ OutHeaderByte(f, 7) = (f.streamID \div 256) % 256
           /\ OutHeaderByte(f, 8) = f.streamID % 256
  <1>1. U8(f.type) = f.type
    BY FrameFacts, SMT DEF U8
  <1>2. /\ OutHeaderByte(f, 0) = (f.length \div 65536) % 256
        /\ OutHeaderByte(f, 1) = (f.length \div 256) % 256
        /\ OutHeaderByte(f, 2) = f.length % 256
    <2>1. PayloadLength(f) = f.length
      BY Sizes
    <2>2. /\ OutHeaderByte(f, 0) = (PayloadLength(f) \div 65536) % 256
          /\ OutHeaderByte(f, 1) = (PayloadLength(f) \div 256) % 256
          /\ OutHeaderByte(f, 2) = PayloadLength(f) % 256
      BY SMT DEF OutHeaderByte
    <2> QED BY <2>1, <2>2
  <1>3. /\ OutHeaderByte(f, 3) = f.type
        /\ OutHeaderByte(f, 4) = f.flags
        /\ OutHeaderByte(f, 5) = (f.streamID \div (256 * 65536)) % 256
    BY <1>1, SMT DEF OutHeaderByte
  <1>4. /\ OutHeaderByte(f, 6) = (f.streamID \div 65536) % 256
        /\ OutHeaderByte(f, 7) = (f.streamID \div 256) % 256
        /\ OutHeaderByte(f, 8) = f.streamID % 256
    BY SMT DEF OutHeaderByte
  <1> QED BY <1>2, <1>3, <1>4

LEMMA OutByteType ==
    ASSUME NEW f \in Frames, NEW p \in 0..8
    PROVE  OutHeaderByte(f, p) \in Nat
  <1>1. /\ f.length \in Lengths /\ f.streamID \in StreamIDs
        /\ f.type \in Nat /\ f.flags \in Nat
    BY FrameFacts
  <1>2. p \in {0, 1, 2, 3, 4, 5, 6, 7, 8}
    BY SMT
  <1> QED BY <1>1, <1>2, OutBytes, LengthBytes, StreamIDBytes

(* The peer's reading of a buffer that begins with the header of f. *)
LEMMA ReadBack ==
    ASSUME NEW f \in Frames, NEW bytes,
           \A p \in 0..8 : bytes[p + 1] = OutHeaderByte(f, p)
    PROVE  HeaderOf(bytes) = Header(f)
  <1>1. /\ bytes[1] = OutHeaderByte(f, 0) /\ bytes[2] = OutHeaderByte(f, 1)
        /\ bytes[3] = OutHeaderByte(f, 2) /\ bytes[4] = OutHeaderByte(f, 3)
        /\ bytes[5] = OutHeaderByte(f, 4) /\ bytes[6] = OutHeaderByte(f, 5)
        /\ bytes[7] = OutHeaderByte(f, 6) /\ bytes[8] = OutHeaderByte(f, 7)
        /\ bytes[9] = OutHeaderByte(f, 8)
    <2>1. /\ bytes[0 + 1] = OutHeaderByte(f, 0) /\ bytes[1 + 1] = OutHeaderByte(f, 1)
          /\ bytes[2 + 1] = OutHeaderByte(f, 2) /\ bytes[3 + 1] = OutHeaderByte(f, 3)
          /\ bytes[4 + 1] = OutHeaderByte(f, 4) /\ bytes[5 + 1] = OutHeaderByte(f, 5)
          /\ bytes[6 + 1] = OutHeaderByte(f, 6) /\ bytes[7 + 1] = OutHeaderByte(f, 7)
          /\ bytes[8 + 1] = OutHeaderByte(f, 8)
      OBVIOUS
    <2> QED BY <2>1, SMT
  <1>2. f.length \in Lengths /\ f.streamID \in StreamIDs
    BY FrameFacts
  <1>3. 65536 * bytes[1] + 256 * bytes[2] + bytes[3] = f.length
    BY <1>1, <1>2, OutBytes, LengthBytes
  <1>4. (256 * 65536) * bytes[6] + 65536 * bytes[7] + 256 * bytes[8] + bytes[9] = f.streamID
    <2>1. /\ bytes[6] = (f.streamID \div (256 * 65536)) % 256
          /\ bytes[7] = (f.streamID \div 65536) % 256
          /\ bytes[8] = (f.streamID \div 256) % 256
          /\ bytes[9] = f.streamID % 256
      BY <1>1, OutBytes
    <2>2. (256 * 65536) * ((f.streamID \div (256 * 65536)) % 256)
              + 65536 * ((f.streamID \div 65536) % 256)
              + 256 * ((f.streamID \div 256) % 256) + (f.streamID % 256) = f.streamID
      BY <1>2, StreamIDBytes
    <2> QED BY <2>1, <2>2
  <1>5. bytes[4] = f.type /\ bytes[5] = f.flags
    BY <1>1, OutBytes
  <1> QED BY <1>3, <1>4, <1>5 DEF HeaderOf, Header

-----------------------------------------------------------------------------
(* The inductive invariant: while a frame is under way the peer has the    *)
(* bytes written of it so far and no other.                                *)

Cell == Nat \cup (Nat \X Nat)
WholeFrames == {Whole(n, f) : n \in Nat, f \in Frames}

(* bytes are the first p bytes of the header of f, as the nth frame of the *)
(* wire, and the first k of its payload.                                   *)
Begins(bytes, n, f, p, k) ==
    /\ Len(bytes) = p + k
    /\ \A q \in 0..8 : q < p => bytes[q + 1] = OutHeaderByte(f, q)
    /\ \A q \in 0..(f.length - 1) :
          q < k => bytes[FRAME_HEADER_SIZE + q + 1] = <<n, FRAME_HEADER_SIZE + q>>

UnderWay ==
    /\ Len(frames) = Len(sent) - 1
    /\ pos < FRAME_HEADER_SIZE => i = 0 /\ part = 0
    /\ pos = FRAME_HEADER_SIZE => i < Turns(Current)
    /\ part < TurnSize(Current)
    /\ Begins(buffer, Len(sent), Current, pos, PayloadWritten)

(* The frame has arrived, and writeFrame has yet to return. *)
Arrived ==
    /\ Len(frames) = Len(sent)
    /\ buffer = <<>>
    /\ pos = FRAME_HEADER_SIZE
    /\ i = Turns(Current)
    /\ part = 0

IInv ==
    /\ TypeOK
    /\ InStep
    /\ buffer \in Seq(Cell)
    /\ frames \in Seq(WholeFrames)
    /\ writing => UnderWay \/ Arrived

-----------------------------------------------------------------------------
(* The peer.                                                               *)

(* A frame is whole when as many bytes are there as its header says. *)
LEMMA WholeAtLength ==
    ASSUME NEW n \in Nat, NEW f \in Frames, NEW p \in 0..9, NEW k \in 0..f.length,
           p < 9 => k = 0, NEW bytes \in Seq(Cell), Begins(bytes, n, f, p, k)
    PROVE  /\ IsWhole(bytes) <=> p = 9 /\ k = f.length
           /\ IsWhole(bytes) => FrameOf(bytes) = Whole(n, f)
  <1>1. f.length \in Nat /\ Len(bytes) = p + k
    <2>1. Len(bytes) = p + k
      BY DEF Begins
    <2> QED BY <2>1, FrameFacts
  <1>2. CASE p < 9
    <2>1. ~(Len(bytes) >= 9)
      BY <1>1, <1>2, SMT
    <2> QED BY <1>2, <2>1 DEF IsWhole, FRAME_HEADER_SIZE
  <1>3. CASE p = 9
    <2>1. \A q \in 0..8 : bytes[q + 1] = OutHeaderByte(f, q)
      BY <1>3 DEF Begins
    <2>2. HeaderOf(bytes) = Header(f) /\ HeaderOf(bytes).length = f.length
      <3>1. HeaderOf(bytes) = Header(f)
        BY <2>1, ReadBack, Zenon
      <3>2. Header(f).length = f.length
        BY DEF Header
      <3> QED BY <3>1, <3>2, Zenon
    <2>3. IsWhole(bytes) <=> k = f.length
      <3>1. IsWhole(bytes) <=> Len(bytes) >= 9 /\ Len(bytes) = 9 + f.length
        BY <2>2 DEF IsWhole, FRAME_HEADER_SIZE
      <3> QED BY <1>1, <1>3, <3>1, SMT
    <2>4. ASSUME k = f.length PROVE FrameOf(bytes) = Whole(n, f)
      <3>1. \A q \in 0..(f.length - 1) :
                bytes[FRAME_HEADER_SIZE + q + 1] = <<n, FRAME_HEADER_SIZE + q>>
        <4>1. \A q \in 0..(f.length - 1) : q < k
          BY <1>1, <2>4, SMT
        <4> QED BY <4>1 DEF Begins
      <3>2. [q \in 0..(f.length - 1) |-> bytes[FRAME_HEADER_SIZE + q + 1]] = Payload(n, f)
        BY <3>1, Zenon DEF Payload
      <3> QED BY <2>2, <3>2, Zenon DEF FrameOf, Whole
    <2> QED BY <1>3, <2>3, <2>4
  <1> QED BY <1>2, <1>3, SMT

(* A byte that continues a frame: it is kept, or completes the frame. *)
Continued(byte) ==
    /\ UNCHANGED lost
    /\ IF IsWhole(Append(buffer, byte))
       THEN buffer' = <<>> /\ frames' = Append(frames, FrameOf(Append(buffer, byte)))
       ELSE buffer' = Append(buffer, byte) /\ UNCHANGED frames

LEMMA ByteReceived ==
    ASSUME ~lost, NEW byte, NEW isPayload \in BOOLEAN, buffer = <<>> => ~isPayload,
           Receive(byte, isPayload)
    PROVE  Continued(byte)
  BY Zenon DEF Receive, Continued

LEMMA BeginsHeader ==
    ASSUME NEW n \in Nat, NEW f \in Frames, NEW p \in 0..8, NEW bytes \in Seq(Cell),
           Begins(bytes, n, f, p, 0)
    PROVE  /\ Append(bytes, OutHeaderByte(f, p)) \in Seq(Cell)
           /\ Begins(Append(bytes, OutHeaderByte(f, p)), n, f, p + 1, 0)
  <1> DEFINE byte == OutHeaderByte(f, p)
             b == Append(bytes, byte)
  <1>1. f.length \in Nat /\ byte \in Cell
    <2>1. byte \in Nat
      BY OutByteType
    <2> QED BY <2>1, FrameFacts DEF Cell
  <1>2. Len(bytes) = p
    <2>1. Len(bytes) = p + 0
      BY DEF Begins
    <2> QED BY <2>1, SMT
  <1>3. /\ b \in Seq(Cell) /\ Len(b) = p + 1 /\ b[p + 1] = byte
        /\ \A q \in 0..8 : q < p => b[q + 1] = bytes[q + 1]
    <2> HIDE DEF byte
    <2> QED BY <1>1, <1>2, SMT
  <1> HIDE DEF b
  <1>4. ASSUME NEW q \in 0..8, q < p + 1 PROVE b[q + 1] = OutHeaderByte(f, q)
    <2>1. CASE q < p
      BY <1>3, <2>1 DEF Begins
    <2>2. CASE q = p
      BY <1>3, <2>2
    <2> QED BY <1>4, <2>1, <2>2, SMT
  <1>5. \A q \in 0..(f.length - 1) : ~(q < 0)
    BY <1>1, SMT
  <1>6. Len(b) = (p + 1) + 0
    BY <1>3, SMT
  <1>7. Begins(b, n, f, p + 1, 0)
    BY <1>4, <1>5, <1>6 DEF Begins
  <1> QED BY <1>3, <1>7 DEF b

LEMMA BeginsPayload ==
    ASSUME NEW n \in Nat, NEW f \in Frames, NEW k \in 0..(f.length - 1),
           NEW bytes \in Seq(Cell), Begins(bytes, n, f, 9, k)
    PROVE  /\ Append(bytes, <<n, FRAME_HEADER_SIZE + k>>) \in Seq(Cell)
           /\ Begins(Append(bytes, <<n, FRAME_HEADER_SIZE + k>>), n, f, 9, k + 1)
  <1> DEFINE byte == <<n, FRAME_HEADER_SIZE + k>>
             b == Append(bytes, byte)
  <1>1. f.length \in Nat /\ k \in Nat
    BY FrameFacts
  <1>2. byte \in Cell
    BY <1>1 DEF Cell, FRAME_HEADER_SIZE
  <1>3. Len(bytes) = 9 + k
    BY DEF Begins
  <1>4. /\ b \in Seq(Cell) /\ Len(b) = 9 + (k + 1)
        /\ b[FRAME_HEADER_SIZE + k + 1] = byte
        /\ \A j \in 1..(9 + k) : b[j] = bytes[j]
    <2> HIDE DEF byte
    <2> QED BY <1>1, <1>2, <1>3, SMT DEF FRAME_HEADER_SIZE
  <1> HIDE DEF b
  <1>5. ASSUME NEW q \in 0..8, q < 9 PROVE b[q + 1] = OutHeaderByte(f, q)
    <2>1. q + 1 \in 1..(9 + k)
      BY <1>1, SMT
    <2> QED BY <1>4, <1>5, <2>1 DEF Begins
  <1>6. ASSUME NEW q \in 0..(f.length - 1), q < k + 1
        PROVE  b[FRAME_HEADER_SIZE + q + 1] = <<n, FRAME_HEADER_SIZE + q>>
    <2>1. CASE q < k
      <3>1. FRAME_HEADER_SIZE + q + 1 \in 1..(9 + k)
        BY <1>1, <2>1, SMT DEF FRAME_HEADER_SIZE
      <3> QED BY <1>4, <2>1, <3>1 DEF Begins
    <2>2. CASE q = k
      BY <1>4, <2>2
    <2> QED BY <1>1, <1>6, <2>1, <2>2, SMT
  <1>7. Begins(b, n, f, 9, k + 1)
    BY <1>4, <1>5, <1>6 DEF Begins
  <1> QED BY <1>4, <1>7 DEF b

-----------------------------------------------------------------------------
(* Each action keeps the invariant, and hands the peer the next frame or   *)
(* none.                                                                   *)

Progress ==
    \/ UNCHANGED frames
    \/ /\ Len(frames) + 1 <= Len(sent)
       /\ frames' = Append(frames, Whole(Len(frames) + 1, sent[Len(frames) + 1]))

LEMMA AppendFact ==
    ASSUME NEW S, NEW s \in Seq(S), NEW e \in S
    PROVE  Append(s, e) \in Seq(S) /\ Len(Append(s, e)) = Len(s) + 1
  OBVIOUS

LEMMA WholeDomain ==
    ASSUME NEW n, NEW f
    PROVE  DOMAIN Whole(n, f) = {"header", "payload"}
  BY DEF Whole

(* The frames read are whole frames. *)
LEMMA FramesDomain ==
    ASSUME NEW g \in Seq(WholeFrames), NEW j \in 1..Len(g)
    PROVE  DOMAIN g[j] = {"header", "payload"}
  <1>1. g[j] \in WholeFrames
    OBVIOUS
  <1>2. PICK n \in Nat, f \in Frames : g[j] = Whole(n, f)
    BY <1>1 DEF WholeFrames
  <1> QED BY <1>2, WholeDomain

LEMMA CurrentFacts ==
    ASSUME IInv, writing
    PROVE  /\ Len(sent) \in Nat /\ Current \in Frames
           /\ Current = sent[Len(sent)] /\ sent # <<>>
           /\ Current.length \in Nat
           /\ pos \in 0..9 /\ i \in 0..Turns(Current) /\ part \in Nat
           /\ Turns(Current) \in Nat /\ TurnSize(Current) \in {1, 4, 6}
           /\ Turns(Current) * TurnSize(Current) = Current.length
  <1>1. sent \in Seq(Frames) /\ sent # <<>> /\ pos \in 0..9 /\ i \in Nat
        /\ i <= Turns(Current) /\ part \in Nat
    BY DEF IInv, TypeOK, FRAME_HEADER_SIZE
  <1>2. Len(sent) \in 1..Len(sent) /\ Len(sent) \in Nat
    BY <1>1, SMT
  <1>3. Current \in Frames /\ Current = sent[Len(sent)]
    BY <1>1, <1>2 DEF Current
  <1>4. Current.length \in Nat
    BY <1>3, FrameFacts
  <1>5. /\ Turns(Current) \in Nat /\ TurnSize(Current) \in {1, 4, 6}
        /\ Turns(Current) * TurnSize(Current) = Current.length
    BY <1>3, Sizes
  <1>6. i \in 0..Turns(Current)
    BY <1>1, <1>5
  <1> QED BY <1>1, <1>2, <1>3, <1>4, <1>5, <1>6

(* One byte more of the frame under way. *)
LEMMA ContinuedStep ==
    ASSUME IInv, writing, UnderWay, UNCHANGED <<sent, writing>>,
           NEW byte, Continued(byte), Append(buffer, byte) \in Seq(Cell),
           pos' \in 0..9, i' \in 0..Turns(Current), part' \in 0..(TurnSize(Current) - 1),
           i' = Turns(Current) => part' = 0, pos' < 9 => i' = 0 /\ part' = 0,
           Begins(Append(buffer, byte), Len(sent), Current, pos', PayloadWritten')
    PROVE  IInv' /\ Progress
  <1> DEFINE n == Len(sent)
             f == Current
             b == Append(buffer, byte)
             k == PayloadWritten'
  <1>1. /\ n \in Nat /\ f \in Frames /\ f = sent[n] /\ f.length \in Nat /\ sent # <<>>
        /\ f' = f
    BY CurrentFacts DEF Current
  <1>0. /\ Turns(f) \in Nat /\ TurnSize(f) \in {1, 4, 6} /\ Turns(f) * TurnSize(f) = f.length
        /\ Turns(f)' = Turns(f) /\ TurnSize(f)' = TurnSize(f)
        /\ k = i' * TurnSize(f) + part'
    <2>1. Turns(f)' = Turns(f) /\ TurnSize(f)' = TurnSize(f)
      BY <1>1 DEF Turns, TurnSize, Settings
    <2> QED BY <2>1, CurrentFacts DEF PayloadWritten
  <1>a. k \in 0..f.length /\ (k = f.length <=> i' = Turns(f)) /\ (pos' < 9 => k = 0)
    <2>1. /\ i' * TurnSize(f) + part' \in 0..(Turns(f) * TurnSize(f))
          /\ i' * TurnSize(f) + part' = Turns(f) * TurnSize(f) <=> i' = Turns(f)
      BY <1>0, TurnsFill
    <2>2. ASSUME i' = 0, part' = 0 PROVE i' * TurnSize(f) + part' = 0
      BY <1>0, <2>2
    <2> QED BY <1>0, <2>1, <2>2, Zenon
  <1>2. /\ IsWhole(b) <=> pos' = 9 /\ k = f.length
        /\ IsWhole(b) => FrameOf(b) = Whole(n, f)
    <2> HIDE DEF k
    <2> QED BY <1>1, <1>a, WholeAtLength DEF k
  <1>3. /\ UNCHANGED lost /\ ~lost
        /\ IsWhole(b) => buffer' = <<>> /\ frames' = Append(frames, FrameOf(b))
        /\ ~IsWhole(b) => buffer' = b /\ UNCHANGED frames
    BY DEF Continued, IInv, InStep
  <1>4. /\ frames \in Seq(WholeFrames)
        /\ Len(frames) \in Nat /\ Len(frames) + 1 = n
    BY <1>1 DEF IInv, UnderWay
  <1>5. sent \in Seq(Frames) /\ Len(sent) <= MaxFrames
    BY DEF IInv, TypeOK
  <1> HIDE DEF f, b, k
  <1>6. CASE IsWhole(b)
    <2>1. frames' = Append(frames, Whole(n, f))
      BY <1>2, <1>3, <1>6
    <2>2. Whole(n, f) \in WholeFrames
      BY <1>1 DEF WholeFrames, f
    <2>3. /\ frames' \in Seq(WholeFrames)
          /\ Len(frames') = n
      BY <1>4, <2>1, <2>2, AppendFact
    <2>4. Progress
      BY <1>1, <1>4, <2>1, SMT DEF Progress, f
    <2>5. Arrived'
      <3>1. i' = Turns(f) /\ part' = 0
        BY <1>2, <1>6, <1>a DEF f
      <3> QED BY <1>0, <1>1, <1>2, <1>3, <1>6, <2>3, <3>1 DEF Arrived, f, FRAME_HEADER_SIZE
    <2>6. TypeOK'
      <3>1. \A j \in 1..Len(frames') : DOMAIN frames'[j] = {"header", "payload"}
        BY <2>3, FramesDomain
      <3>2. i' \in Nat /\ i' <= Turns(f) /\ part' \in 0..5
        BY <1>0, SMT DEF f
      <3> QED BY <1>0, <1>1, <1>3, <1>5, <3>1, <3>2 DEF IInv, TypeOK, FRAME_HEADER_SIZE, f
    <2>7. buffer' \in Seq(Cell)
      BY <1>3, <1>6
    <2> QED BY <1>3, <2>3, <2>4, <2>5, <2>6, <2>7 DEF IInv, InStep
  <1>7. CASE ~IsWhole(b)
    <2>1. UNCHANGED frames /\ buffer' = b
      BY <1>3, <1>7
    <2>2. UnderWay'
      <3>1. pos' = 9 => i' < Turns(f)
        <4>1. pos' = 9 => ~(i' = Turns(f))
          BY <1>2, <1>7, <1>a
        <4> QED BY <1>0, <4>1, SMT DEF f
      <3>2. Begins(buffer', Len(sent'), f', pos', PayloadWritten')
        BY <1>1, <2>1 DEF f, b
      <3>3. Len(frames') = Len(sent') - 1
        BY <2>1 DEF UnderWay
      <3>4. part' < TurnSize(f)
        BY <1>0, SMT DEF f
      <3> QED BY <1>0, <1>1, <3>1, <3>2, <3>3, <3>4 DEF UnderWay, FRAME_HEADER_SIZE, f
    <2>3. TypeOK'
      <3>1. i' \in Nat /\ i' <= Turns(f) /\ part' \in 0..5
        BY <1>0, SMT DEF f
      <3> QED BY <1>0, <1>1, <1>3, <1>5, <2>1, <3>1 DEF IInv, TypeOK, FRAME_HEADER_SIZE, f
    <2> QED BY <1>3, <1>4, <2>1, <2>2, <2>3 DEF IInv, InStep, Progress, b
  <1> QED BY <1>6, <1>7

LEMMA HeaderByteStep ==
    ASSUME IInv, WriteHeaderByte
    PROVE  IInv' /\ Progress
  <1> DEFINE byte == OutHeaderByte(Current, pos)
  <1>1. /\ writing /\ pos < 9 /\ Receive(byte, FALSE)
        /\ pos' = pos + 1 /\ UNCHANGED <<sent, writing, i, part>>
    BY DEF WriteHeaderByte, FRAME_HEADER_SIZE
  <1>2. /\ Len(sent) \in Nat /\ Current \in Frames /\ Current.length \in Nat
        /\ pos \in 0..8 /\ pos' \in 0..9
    <2>1. pos \in 0..9 /\ pos < 9
      BY <1>1, CurrentFacts
    <2> QED BY <1>1, <2>1, CurrentFacts, SMT
  <1>3. UnderWay /\ i = 0 /\ part = 0
    BY <1>1 DEF IInv, Arrived, UnderWay, FRAME_HEADER_SIZE
  <1>a. /\ PayloadWritten = 0 /\ PayloadWritten' = PayloadWritten
        /\ TurnSize(Current) \in {1, 4, 6} /\ Turns(Current) \in Nat
    <2>1. PayloadWritten = 0
      <3>1. 0 * TurnSize(Current) + 0 = 0
        BY <1>1, CurrentFacts
      <3> QED BY <1>3, <3>1, Zenon DEF PayloadWritten
    <2>2. PayloadWritten' = PayloadWritten
      BY <1>1 DEF PayloadWritten, Current, TurnSize
    <2> QED BY <1>1, <2>1, <2>2, CurrentFacts
  <1>4. Begins(buffer, Len(sent), Current, pos, 0) /\ buffer \in Seq(Cell) /\ ~lost
    BY <1>3, <1>a DEF UnderWay, IInv, InStep
  <1>5. /\ Append(buffer, byte) \in Seq(Cell)
        /\ Begins(Append(buffer, byte), Len(sent), Current, pos + 1, 0)
    BY <1>2, <1>4, BeginsHeader
  <1>6. Continued(byte)
    BY <1>1, <1>4, ByteReceived
  <1>7. /\ i' = 0 /\ i' \in 0..Turns(Current)
        /\ part' = 0 /\ part' \in 0..(TurnSize(Current) - 1)
    BY <1>1, <1>3, <1>a, SMT
  <1> HIDE DEF byte
  <1>8. Begins(Append(buffer, byte), Len(sent), Current, pos', PayloadWritten')
    BY <1>1, <1>5, <1>a
  <1> QED BY <1>1, <1>2, <1>3, <1>5, <1>6, <1>7, <1>8, ContinuedStep

(* The counter does not wrap within a payload it can count. *)
LEMMA CounterCounts ==
    ASSUME Countable, NEW f \in Frames, NEW k \in 0..(Turns(f) - 1)
    PROVE  NextTurn(f, k) = k + 1
  <1>1. Turns(f) \in Nat /\ (f.type \in {DATA, PING} => Turns(f) < 256)
    <2>1. f.type \in {DATA, PING} => f.length < 256
      BY FrameFacts, SMT DEF Countable
    <2> QED BY <2>1, Sizes
  <1>2. k \in Nat /\ k < Turns(f)
    BY <1>1, SMT
  <1>3. f.type \in {DATA, PING} => (k + 1) % 256 = k + 1
    BY <1>1, <1>2, SMT
  <1> QED BY <1>3 DEF NextTurn, U8

LEMMA PayloadByteStep ==
    ASSUME Countable, IInv, WritePayloadByte
    PROVE  IInv' /\ Progress
  <1> DEFINE k == PayloadWritten
             byte == <<Len(sent), FRAME_HEADER_SIZE + k>>
             turns == Turns(Current)
             size == TurnSize(Current)
  <1>1. /\ writing /\ pos = 9 /\ i < turns /\ Receive(byte, TRUE)
        /\ \/ part + 1 < size /\ part' = part + 1 /\ i' = i
           \/ part + 1 = size /\ part' = 0 /\ i' = NextTurn(Current, i)
        /\ UNCHANGED <<sent, writing, pos>>
    BY DEF WritePayloadByte, InPayload, FRAME_HEADER_SIZE
  <1>2. /\ Len(sent) \in Nat /\ Current \in Frames /\ Current.length \in Nat
        /\ turns \in Nat /\ size \in {1, 4, 6} /\ turns * size = Current.length
        /\ i \in 0..turns /\ part \in Nat
    BY <1>1, CurrentFacts
  <1>3. UnderWay
    <2>1. ~(i = turns)
      BY <1>1, <1>2, SMT
    <2> QED BY <1>1, <2>1 DEF IInv, Arrived
  <1>4. /\ Begins(buffer, Len(sent), Current, 9, k) /\ buffer \in Seq(Cell) /\ ~lost
        /\ part < size
    BY <1>1, <1>3 DEF UnderWay, IInv, InStep
  <1>a. k = i * size + part /\ k' = i' * size + part'
    BY <1>1 DEF PayloadWritten, Current, TurnSize
  <1>b. i \in Nat /\ i \in 0..(turns - 1) /\ part \in 0..(size - 1)
    <2> HIDE DEF turns, size
    <2> QED BY <1>1, <1>2, <1>4, SMT
  <1>c. NextTurn(Current, i) = i + 1
    BY <1>2, <1>b, CounterCounts
  <1> HIDE DEF k, turns, size
  <1>d. k \in 0..(Current.length - 1)
    <2>1. i * size + part \in 0..(turns * size) /\ ~(i * size + part = turns * size)
      <3>1. i # turns
        BY <1>1, <1>2, SMT
      <3> QED BY <1>2, <1>b, <3>1, TurnsFill
    <2> DEFINE length == Current.length
    <2>2. k \in 0..length /\ ~(k = length) /\ length \in Nat
      BY <1>2, <1>a, <2>1
    <2> HIDE DEF length
    <2>3. k \in 0..(length - 1)
      BY <2>2
    <2> QED BY <2>3 DEF length
  <1>5. buffer # <<>>
    <2>1. Len(buffer) = 9 + k
      BY <1>4 DEF Begins
    <2> QED BY <1>2, <1>d, <2>1, SMT
  <1>6. /\ Append(buffer, byte) \in Seq(Cell)
        /\ Begins(Append(buffer, byte), Len(sent), Current, 9, k + 1)
    BY <1>2, <1>4, <1>d, BeginsPayload
  <1>7. Continued(byte)
    BY <1>1, <1>4, <1>5, ByteReceived
  <1>8. /\ k' = k + 1 /\ pos' = 9
        /\ i' \in 0..turns /\ part' \in 0..(size - 1) /\ (i' = turns => part' = 0)
    <2>1. /\ i * size + (part + 1) = (i * size + part) + 1
          /\ part + 1 = size => (i + 1) * size + 0 = (i * size + part) + 1
      BY <1>2, <1>b, TurnGoesOn
    <2>2. CASE part + 1 < size /\ part' = part + 1 /\ i' = i
      <3>1. k' = k + 1
        BY <1>a, <2>1, <2>2, Zenon
      <3>2. i' \in 0..turns /\ part' \in 0..(size - 1) /\ i' # turns
        BY <1>1, <1>2, <1>b, <2>2, SMT
      <3> QED BY <1>1, <3>1, <3>2
    <2>3. CASE part + 1 = size /\ part' = 0 /\ i' = NextTurn(Current, i)
      <3>1. k' = k + 1
        BY <1>a, <1>c, <2>1, <2>3, Zenon
      <3>2. i' \in 0..turns /\ part' \in 0..(size - 1)
        BY <1>2, <1>b, <1>c, <2>3, SMT
      <3> QED BY <1>1, <2>3, <3>1, <3>2
    <2> QED BY <1>1, <2>2, <2>3
  <1> HIDE DEF byte
  <1>9. Begins(Append(buffer, byte), Len(sent), Current, pos', PayloadWritten')
    BY <1>6, <1>8 DEF k
  <1> USE DEF turns, size
  <1> QED BY <1>1, <1>3, <1>6, <1>7, <1>8, <1>9, ContinuedStep

LEMMA WriteFrameStep ==
    ASSUME IInv, NEW f \in Frames, WriteFrame(f)
    PROVE  IInv' /\ Progress
  <1>1. /\ ~writing /\ Len(sent) < MaxFrames
        /\ sent' = Append(sent, f) /\ writing' = TRUE /\ pos' = 0 /\ i' = 0 /\ part' = 0
        /\ UNCHANGED <<buffer, frames, lost>>
    BY DEF WriteFrame
  <1>2. sent \in Seq(Frames) /\ buffer = <<>> /\ ~lost /\ Len(frames) = Len(sent)
    BY <1>1 DEF IInv, TypeOK, InStep
  <1>3. /\ sent' \in Seq(Frames) /\ Len(sent') = Len(sent) + 1 /\ Len(sent) \in Nat
        /\ sent'[Len(sent')] = f /\ sent' # <<>> /\ Len(sent') <= MaxFrames
    BY <1>1, <1>2, BoundAssumption, SMT
  <1>4. Current' = f /\ f.length \in Nat
    BY <1>3, FrameFacts DEF Current
  <1>a. /\ Turns(f) \in Nat /\ TurnSize(f) \in {1, 4, 6}
        /\ Turns(Current)' = Turns(f) /\ TurnSize(Current)' = TurnSize(f)
    BY <1>4, Sizes DEF Turns, TurnSize, Settings
  <1>b. 0 <= Turns(f) /\ 0 < TurnSize(f) /\ 0 * TurnSize(f) + 0 = 0
    BY <1>a, SMT
  <1>c. PayloadWritten' = 0
    BY <1>1, <1>a, <1>b, Zenon DEF PayloadWritten
  <1>5. TypeOK'
    <2>1. /\ i' \in Nat /\ i' <= Turns(Current)' /\ part' \in 0..5
          /\ pos' \in 0..9 /\ writing' \in BOOLEAN
      BY <1>1, <1>a, <1>b
    <2> QED BY <1>1, <1>3, <2>1 DEF IInv, TypeOK, FRAME_HEADER_SIZE
  <1>6. Begins(<<>>, Len(sent'), f, 0, 0)
    <2>1. Len(<<>>) = 0 + 0
      BY SMT
    <2>2. (\A q \in 0..8 : ~(q < 0)) /\ \A q \in 0..(f.length - 1) : ~(q < 0)
      BY <1>4, SMT
    <2> QED BY <2>1, <2>2 DEF Begins
  <1>7. UnderWay'
    <2>1. Len(frames') = Len(sent') - 1
      BY <1>1, <1>2, <1>3, SMT
    <2>2. pos' < 9 => i' = 0 /\ part' = 0
      BY <1>1
    <2>3. ~(pos' = 9) /\ part' < TurnSize(Current)'
      BY <1>1, <1>a, <1>b, SMT
    <2>4. Begins(buffer', Len(sent'), Current', pos', PayloadWritten')
      BY <1>1, <1>2, <1>4, <1>6, <1>c
    <2> QED BY <2>1, <2>2, <2>3, <2>4 DEF UnderWay, FRAME_HEADER_SIZE
  <1> QED BY <1>1, <1>2, <1>5, <1>7 DEF IInv, InStep, Progress

LEMMA ReturnStep ==
    ASSUME IInv, Return
    PROVE  IInv' /\ Progress
  <1>1. /\ writing /\ pos = 9 /\ ~(i < Turns(Current)) /\ writing' = FALSE
        /\ UNCHANGED <<sent, pos, i, part, buffer, frames, lost>>
    BY DEF Return, InPayload, FRAME_HEADER_SIZE
  <1>2. Arrived
    BY <1>1 DEF IInv, UnderWay, FRAME_HEADER_SIZE
  <1>3. TypeOK' /\ InStep'
    BY <1>1, <1>2 DEF IInv, TypeOK, InStep, Arrived, Current, Turns, Settings
  <1> QED BY <1>1, <1>3 DEF IInv, Progress

LEMMA InitIInv == Init => IInv
  <1> SUFFICES ASSUME Init PROVE IInv
    OBVIOUS
  <1>1. <<>> \in Seq(Frames) /\ Len(<<>>) = 0 /\ 1..Len(<<>>) = {}
    BY SMT
  <1>2. 0 <= MaxFrames /\ 0 \in 0..9 /\ 0 \in 0..5 /\ 0 \in Nat
    BY BoundAssumption, SMT
  <1>3. TypeOK
    BY <1>1, <1>2 DEF Init, TypeOK, FRAME_HEADER_SIZE
  <1> QED BY <1>1, <1>3 DEF Init, IInv, InStep

LEMMA NextStep ==
    ASSUME Countable, IInv, Next
    PROVE  IInv' /\ Progress
  BY WriteFrameStep, HeaderByteStep, PayloadByteStep, ReturnStep DEF Next, Write

LEMMA StutterIInv ==
    ASSUME IInv, UNCHANGED vars
    PROVE  IInv'
  <1>1. UNCHANGED <<sent, writing, pos, i, part, buffer, frames, lost>>
    BY DEF vars
  <1>0. /\ Current' = Current /\ Turns(Current)' = Turns(Current)
        /\ TurnSize(Current)' = TurnSize(Current) /\ PayloadWritten' = PayloadWritten
    BY <1>1 DEF Current, Turns, TurnSize, Settings, PayloadWritten
  <1>2. TypeOK' /\ InStep'
    BY <1>0, <1>1 DEF IInv, TypeOK, InStep
  <1>3. (UnderWay' <=> UnderWay) /\ (Arrived' <=> Arrived)
    BY <1>0, <1>1 DEF UnderWay, Arrived
  <1> QED BY <1>1, <1>2, <1>3 DEF IInv

LEMMA Invariance ==
    ASSUME Countable
    PROVE  Spec => []IInv
  <1>1. IInv /\ [Next]_vars => IInv'
    BY NextStep, StutterIInv
  <1> QED BY InitIInv, <1>1, PTL DEF Spec

-----------------------------------------------------------------------------
(* The results.                                                            *)

(* Header and payload are written by Frame::write and the writePayload of  *)
(* the frame's class, after a length payloadLength computed; the peer is   *)
(* at the beginning of a frame exactly when writeFrame has returned.       *)
THEOREM PeerInStep ==
    ASSUME Countable
    PROVE  Spec => []InStep
  <1>1. Spec => []IInv
    BY Invariance
  <1>2. IInv => InStep
    BY DEF IInv
  <1> QED BY <1>1, <1>2, PTL

(* The loop counter of writePayload never passes the end of its loop.      *)
THEOREM TypeCorrect ==
    ASSUME Countable
    PROVE  Spec => []TypeOK
  <1>1. Spec => []IInv
    BY Invariance
  <1>2. IInv => TypeOK
    BY DEF IInv
  <1> QED BY <1>1, <1>2, PTL

-----------------------------------------------------------------------------
(* The refinement: a byte is a stutter, or delivers the frame it completes. *)

LEMMA ChannelOperators ==
    /\ \A n, f : Channel!Whole(n, f) = Whole(n, f)
    /\ \A f : Channel!Unreadable(f) = Unreadable(f)
  <1> USE DEF Channel!DATA, Channel!HEADERS, Channel!SETTINGS,
              Channel!PUSH_PROMISE, Channel!GOAWAY, Channel!WINDOW_UPDATE,
              DATA, HEADERS, SETTINGS, PUSH_PROMISE, GOAWAY, WINDOW_UPDATE,
              Channel!FRAME_HEADER_SIZE, FRAME_HEADER_SIZE
  <1>1. \A f : Channel!Header(f) = Header(f)
    BY DEF Channel!Header, Header
  <1>2. \A n, f : Channel!Whole(n, f) = Whole(n, f)
    BY <1>1, Zenon DEF Channel!Whole, Whole, Channel!Payload, Payload
  <1>3. \A h, d : Channel!FrameResult(h, d) = FrameResult(h, d)
    BY Zenon DEF Channel!FrameResult, FrameResult
  <1>4. \A f : Channel!Unreadable(f) = Unreadable(f)
    BY <1>1, <1>3, Zenon DEF Channel!Unreadable, Unreadable,
                             Channel!KnownTypes, KnownTypes
  <1> QED BY <1>2, <1>4

LEMMA NextRefines ==
    ASSUME Countable, AllReadable, IInv, [Next]_vars
    PROVE  [Channel!Next]_(Channel!vars)
  <1>1. CASE UNCHANGED vars
    BY <1>1 DEF vars, Channel!vars
  <1>2. ASSUME NEW f \in Frames, WriteFrame(f) PROVE Channel!Next
    BY <1>2 DEF WriteFrame, Channel!Next, Channel!Send
  <1>3. CASE Write
    <2>1. sent' = sent
      BY <1>3 DEF Write, WriteHeaderByte, WritePayloadByte, Return
    <2>2. Progress
      BY <1>3, NextStep DEF Next
    <2>3. CASE UNCHANGED frames
      BY <2>1, <2>3 DEF Channel!vars
    <2>4. CASE ~UNCHANGED frames
      <3> DEFINE n == Len(frames) + 1
      <3>1. n <= Len(sent) /\ frames' = Append(frames, Whole(n, sent[n]))
        BY <2>2, <2>4 DEF Progress
      <3>2. ~Unreadable(sent[n])
        <4>1. sent \in Seq(Frames) /\ frames \in Seq(WholeFrames)
          BY DEF IInv, TypeOK
        <4>2. n \in 1..Len(sent)
          BY <3>1, <4>1, SMT
        <4> HIDE DEF n
        <4>3. sent[n] \in Frames
          BY <4>1, <4>2
        <4> QED BY <4>3 DEF AllReadable
      <3>3. Channel!NextNo = n
        BY DEF Channel!NextNo
      <3>4. Channel!Deliver
        BY <2>1, <3>1, <3>2, <3>3, ChannelOperators, Zenon DEF Channel!Deliver
      <3> QED BY <3>4 DEF Channel!Next
    <2> QED BY <2>3, <2>4
  <1> QED BY <1>1, <1>2, <1>3 DEF Next

(* Through the bytes of writeFrame the peer gets a channel of whole frames, *)
(* in order, each with the payload bytes of its own (Frame::write).        *)
THEOREM Refinement ==
    ASSUME Countable, AllReadable
    PROVE  Spec => RefinesChannel
  <1>1. Init => Channel!Init
    BY DEF Init, Channel!Init
  <1>2. Init => IInv
    BY InitIInv
  <1>3. IInv /\ [Next]_vars => IInv'
    BY NextStep, StutterIInv
  <1>4. IInv /\ [Next]_vars => [Channel!Next]_(Channel!vars)
    BY NextRefines
  <1> QED BY <1>1, <1>2, <1>3, <1>4, PTL DEF Spec, RefinesChannel, Channel!Spec
=============================================================================
