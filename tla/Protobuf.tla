------------------------------ MODULE Protobuf ------------------------------
(***************************************************************************)
(* The messages of a handler: it encodes answers into a buffer, which go   *)
(* to the peer behind gRPC's prefix, and decodes requests, by the peer or  *)
(* echoes of its own answers, into a structure that is used again for each *)
(* of them.  What a message says is defined here from the language guide   *)
(* of Protocol Buffers, apart from the code.                               *)
(***************************************************************************)
EXTENDS PbAnswers, PbDecode

CONSTANTS
    Structs,      \* for each message type, the structures the handler may encode first, second...
    PeerBytes     \* likewise the messages a peer may send

VARIABLES
    turn,     \* messages so far
    wire,     \* the DATA frame under way
    dest,     \* the structure requests are decoded into
    got       \* the last decoding: the bytes, whether pb_decode_ex took them

ASSUME StructsAssumption ==
    \A type_ \in DOMAIN Structs :
        /\ type_ \in DOMAIN Descriptor
        /\ \A structs \in Range(Structs[type_]) : Range(structs) \subseteq Structures[type_]

vars == <<type, flags, turn, sent, wire, dest, got>>

-----------------------------------------------------------------------------
(* The meaning of bytes: records of a tag, a wire type and a payload.      *)

RefEnd(bytes) == CHOOSE i \in DOMAIN bytes : bytes[i] < 128 /\ \A j \in 1..(i - 1) : bytes[j] > 127
RefHasVarint(bytes) == \E i \in DOMAIN bytes : i <= 10 /\ bytes[i] < 128
RefWord(bytes) == Unsigned(Pieces(SubSeq(bytes, 1, RefEnd(bytes)), 7), 64)
RefAfter(bytes, n) == SubSeq(bytes, n + 1, Len(bytes))

Malformed == <<[tag |-> 0, wire |-> 7, payload |-> <<>>]>>

(* The length of the payload at the head of bytes, and where it begins. *)
RefExtent(wire_type, bytes) ==
    CASE wire_type = 0 /\ RefHasVarint(bytes) -> [from |-> 0, length |-> RefEnd(bytes)]
      [] wire_type = 1 -> [from |-> 0, length |-> 8]
      [] wire_type = 5 -> [from |-> 0, length |-> 4]
      [] wire_type = 2 /\ RefHasVarint(bytes) ->
            [from |-> RefEnd(bytes), length |-> Natural(RefWord(bytes))]
      [] OTHER -> [from |-> 0, length |-> Len(bytes) + 1]

RECURSIVE RefRecords(_)
RefRecords(bytes) ==
    CASE bytes = <<>> -> <<>>
      [] bytes # <<>> /\ ~RefHasVarint(bytes) -> Malformed
      [] OTHER ->
            LET key == RefWord(bytes)
                tag == Natural(SubSeq(key, 4, 64))
                wire_type == Natural(SubSeq(key, 1, 3))
                body == RefAfter(bytes, RefEnd(bytes))
                extent == RefExtent(wire_type, body)
            IN IF tag = 0 \/ extent.length > Len(body) - extent.from THEN Malformed
               ELSE <<[tag |-> tag, wire |-> wire_type,
                       payload |-> SubSeq(body, extent.from + 1, extent.from + extent.length)]>>
                      \o RefRecords(RefAfter(body, extent.from + extent.length))

(* The records of a field; of a oneof, those after the last one of another *)
(* member.                                                                 *)
RefOf(field, type_, records) ==
    LET Rival(tag) == /\ field.htype = "ONEOF" /\ tag # field.tag
                      /\ \E f \in Range(Fields(type_)) : f.tag = tag /\ f.place = field.place
        Rivals == {i \in DOMAIN records : Rival(records[i].tag)}
        After(i) == \A j \in Rivals : j < i
        Mine == SetToSortSeq({i \in DOMAIN records : records[i].tag = field.tag /\ After(i)}, <)
    IN [k \in DOMAIN Mine |-> records[Mine[k]]]

(* The packed values of a payload, each as a record. *)
RECURSIVE RefUnpacked(_, _)
RefUnpacked(field, payload) ==
    LET w == WireType(field.ltype)
        n == RefExtent(w, payload).length
    IN CASE payload = <<>> -> <<>>
         [] payload # <<>> /\ n > Len(payload) -> Malformed
         [] OTHER -> <<[tag |-> field.tag, wire |-> w, payload |-> SubSeq(payload, 1, n)]>>
                       \o RefUnpacked(field, RefAfter(payload, n))

RefSpread(field, records) ==
    FlattenSeq([i \in DOMAIN records |->
        IF field.htype = "REPEATED" /\ field.ltype \in Packable /\ records[i].wire = 2
        THEN RefUnpacked(field, records[i].payload) ELSE <<records[i]>>])

UpToZero(bytes) ==
    LET Zs == {i \in DOMAIN bytes : bytes[i] = 0}
    IN IF Zs = {} THEN bytes ELSE SubSeq(bytes, 1, (CHOOSE i \in Zs : \A j \in Zs : i <= j) - 1)

(* Zigzag: 0, -1, 1, -2, 2... *)
RefZigzag(w) == [i \in 1..64 |-> IF i = 64 THEN w[1] ELSE (w[i + 1] + w[1]) % 2]

(* An integer of 64 bits, as the language guide has it for the type. *)
RefInteger(field, payload) ==
    LET w == RefWord(payload)
    IN CASE field.ltype = "SVARINT" -> RefZigzag(w)
         [] field.ltype = "VARINT" /\ field.data_size < 8 ->
               [i \in 1..64 |-> IF i <= 32 THEN w[i] ELSE w[32]]
         [] OTHER -> w

(* Whether a structure has room for a value.  The language guide has every *)
(* integer cast to a bool; nanopb takes one of 32 bits, or its extension   *)
(* by its sign.                                                            *)
RefFits(field, record) ==
    LET n == 8 * field.data_size
        w == RefInteger(field, record.payload)
        top == IF field.ltype = "UVARINT" THEN 0 ELSE w[n]
    IN /\ record.wire = WireType(field.ltype)
       /\ CASE field.ltype = "BOOL" -> SubSeq(w, 33, 64) \in {Word(0, 32), Word(-w[32], 32)}
            [] field.ltype \in Varints \ {"BOOL"} -> \A i \in (n + 1)..64 : w[i] = top
            [] field.ltype = "STRING" -> Len(record.payload) < field.data_size
            [] field.ltype = "BYTES" -> Len(record.payload) <= field.data_size - BytesOffset
            [] field.ltype = "FIXED_LENGTH_BYTES" -> Len(record.payload) \in {0, field.data_size}
            [] OTHER -> TRUE

RefValue(field, record) ==
    CASE field.ltype = "BOOL" ->
            Word(IF \E i \in 1..64 : RefWord(record.payload)[i] = 1 THEN 1 ELSE 0, 8)
      [] field.ltype \in Varints \ {"BOOL"} ->
            SubSeq(RefInteger(field, record.payload), 1, 8 * field.data_size)
      [] field.ltype \in {"FIXED32", "FIXED64"} -> Pieces(record.payload, 8)
      [] field.ltype = "STRING" -> UpToZero(record.payload)
      [] field.ltype = "FIXED_LENGTH_BYTES" /\ record.payload = <<>> -> Zero(field)
      [] OTHER -> record.payload

(* The default of a field, as its payload in default_value, or zero. *)
RefDefault(field, default_value) ==
    LET given == SelectSeq(RefRecords(SubSeq(default_value, 1, Len(default_value) - 1)),
                           LAMBDA r : r.tag = field.tag)
    IN IF given # <<>> THEN RefValue(field, given[1])
       ELSE IF field.ltype = "STRING" THEN <<>> ELSE Zero(field)

Joined(records) == FlattenSeq([i \in DOMAIN records |-> records[i].payload])

(* What bytes say of each field: the values it has, none if it is absent.  *)
(* Several records of a submessage are one message, of their bytes joined. *)
RECURSIVE RefContents(_, _)
RefView(field, record) ==
    IF field.ltype = "SUBMESSAGE" THEN RefContents(field.submsg, record.payload)
    ELSE RefValue(field, record)

RefValues(field, type_, mine) ==
    CASE field.htype = "REPEATED" -> [i \in DOMAIN mine |-> RefView(field, mine[i])]
      [] field.htype # "REPEATED" /\ mine = <<>> /\ (field.counted \/ field.htype = "REQUIRED") -> <<>>
      [] OTHER ->
            << IF mine = <<>> /\ field.ltype # "SUBMESSAGE"
               THEN RefDefault(field, Descriptor[type_].default_value)
               ELSE RefView(field, IF field.ltype # "SUBMESSAGE" THEN Last(mine)
                                   ELSE [payload |-> Joined(mine)]) >>

RefContents(type_, bytes) ==
    LET records == RefRecords(bytes)
        FieldOf(tag) == CHOOSE f \in Range(Fields(type_)) : f.tag = tag
    IN [tag \in {f.tag : f \in Range(Fields(type_))} |->
          RefValues(FieldOf(tag), type_, RefSpread(FieldOf(tag), RefOf(FieldOf(tag), type_, records)))]

(* Whether bytes are a message of the type that a structure has room for.  *)
(* nanopb asks of each record of a submessage that it be one by itself.    *)
RECURSIVE RefValid(_, _)
RefFieldValid(field, mine) ==
    LET Messages == {mine[i].payload : i \in DOMAIN mine}
                      \cup (IF field.htype \in {"REQUIRED", "OPTIONAL"} /\ mine # <<>>
                            THEN {Joined(mine)} ELSE {})
    IN /\ \A i \in DOMAIN mine : RefFits(field, mine[i])
       /\ field.ltype = "SUBMESSAGE" => \A m \in Messages : RefValid(field.submsg, m)
       /\ CASE field.htype = "REQUIRED" -> mine # <<>>
            [] field.htype = "REPEATED" /\ field.counted -> Len(mine) <= field.array_size
            [] field.htype = "REPEATED" /\ ~field.counted -> Len(mine) \in {0, field.array_size}
            [] OTHER -> TRUE

RefValid(type_, bytes) ==
    LET records == RefRecords(bytes)
        Of(field) == SelectSeq(records, LAMBDA r : r.tag = field.tag)
    IN /\ \A i \in DOMAIN records : records[i].tag # 0
       /\ \A field \in Range(Fields(type_)) : RefFieldValid(field, RefSpread(field, Of(field)))

-----------------------------------------------------------------------------
(* The meaning of a structure.                                             *)
RECURSIVE Contents(_, _)
View(field, data) ==
    CASE field.ltype = "STRING" -> UpToZero(data)
      [] field.ltype = "SUBMESSAGE" -> Contents(field.submsg, data)
      [] OTHER -> data

Contents(type_, struct) ==
    LET Values(field) ==
            LET data == struct.data[field.place]
                size == struct.size[field.place]
                n == IF field.counted THEN size ELSE field.array_size
            IN CASE field.htype = "REPEATED" -> [i \in 1..n |-> View(field, data[i])]
                 [] field.htype = "ONEOF" /\ size # field.tag -> <<>>
                 [] field.htype = "OPTIONAL" /\ field.counted /\ size = 0 -> <<>>
                 [] OTHER -> <<View(field, OfUnion(field, data))>>
    IN [tag \in {f.tag : f \in Range(Fields(type_))} |->
          Values(CHOOSE f \in Range(Fields(type_)) : f.tag = tag)]

-----------------------------------------------------------------------------
(* gRPC's prefix, as writeResponse puts it before a message and handle     *)
(* takes it away.                                                          *)

LengthPrefixed(message) == <<0>> \o WriteUint32(Len(message)) \o message

Unprefixed(data) == SubSeq(data, 6, Len(data))

(* What the peer does with it. *)
PeerReadsMessage(data) == SubSeq(data, 6, 5 + ReadUint32(SubSeq(data, 2, 5)))

(* ... and with the framing inside. *)
RefUnframed(bytes) ==
    CASE "DELIMITED" \in flags -> RefAfter(bytes, RefEnd(bytes))
      [] "NULLTERMINATED" \in flags -> SubSeq(bytes, 1, Len(bytes) - 1)
      [] OTHER -> bytes

PeerFrames(bytes) ==
    CASE "DELIMITED" \in flags -> PbEncodeString(PbOstreamFromBuffer(1024), bytes).buf
      [] "NULLTERMINATED" \in flags -> Append(bytes, 0)
      [] OTHER -> bytes

-----------------------------------------------------------------------------
(* encodeResponse and writeResponse, with a buffer of each size up to more *)
(* than it takes.                                                          *)
Answer ==
    /\ turn < Len(PeerBytes[type])
    /\ wire = <<>>
    /\ \E s \in DOMAIN Structs[type][turn + 1] : EncodeAnswer(Structs[type][turn + 1][s])
    /\ wire' = IF sent'.stream.errmsg = "" THEN LengthPrefixed(sent'.stream.buf) ELSE <<>>
    /\ turn' = turn + 1
    /\ got' = None
    /\ UNCHANGED dest

(* A peer that ends its messages with a zero has no other tag of zero. *)
PeerSends ==
    /\ turn < Len(PeerBytes[type])
    /\ wire = <<>>
    /\ \E bytes \in PeerBytes[type][turn + 1] :
         /\ "NULLTERMINATED" \in flags => \A r \in Range(RefRecords(bytes)) : r.tag # 0
         /\ wire' = LengthPrefixed(PeerFrames(bytes))
    /\ turn' = turn + 1
    /\ Turn
    /\ got' = None
    /\ UNCHANGED dest

(* handle and decodeRequest.  What a failed decoding leaves in the         *)
(* structure is not used, and does not show in the next one.               *)
DecodeRequest ==
    /\ wire # <<>>
    /\ \E result \in {PbDecodeEx(Unprefixed(wire), type, dest, flags)} :
          /\ got' = [bytes |-> Unprefixed(wire), ok |-> result.ok]
          /\ dest' = IF result.ok THEN result.value ELSE dest
    /\ wire' = <<>>
    /\ Turn
    /\ UNCHANGED turn

Init ==
    /\ AnswersInit
    /\ type \in DOMAIN Structs
    /\ turn = 0
    /\ wire = <<>>
    /\ dest = Zeros[type]
    /\ got = None

Next == Answer \/ PeerSends \/ DecodeRequest

Spec == Init /\ [][Next]_vars

-----------------------------------------------------------------------------
(* The properties.                                                         *)

(* What the peer takes from the DATA frame is a valid message that says    *)
(* what the structure says, in every field.                                *)
WritesMeaning ==
    sent # None /\ wire # <<>> =>
        LET message == RefUnframed(PeerReadsMessage(wire))
        IN /\ RefValid(type, message)
           /\ RefContents(type, message) = Contents(type, sent.struct)

(* A fixed count array the message does not have keeps what was there. *)
Untouched(bytes) ==
    {f.tag : f \in {f \in Range(Fields(type)) :
        SizeOf(f) = "array_size" /\ RefOf(f, type, RefRecords(bytes)) = <<>>}}

(* A message is taken just when it is valid and fits, and then the         *)
(* structure says what it says in every field: unknown fields skipped, the *)
(* order and the packing of no matter, submessages merged, and nothing     *)
(* left of the messages before.                                            *)
DecodesMeaning ==
    got # None =>
        LET message == RefUnframed(got.bytes)
            tags == {f.tag : f \in Range(Fields(type))} \ Untouched(message)
            said == RefContents(type, message)
            found == Contents(type, dest)
        IN /\ got.ok <=> RefValid(type, message)
           /\ got.ok => \A tag \in tags : found[tag] = said[tag]
=============================================================================
