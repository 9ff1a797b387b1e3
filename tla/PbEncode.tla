------------------------------ MODULE PbEncode ------------------------------
(***************************************************************************)
(* examples/gen/pb_encode.c: a structure to a stream.                      *)
(*                                                                         *)
(* A stream that has failed stays as it is: each caller returns false.     *)
(***************************************************************************)
EXTENDS Pb

CONSTANT Structures  \* for each message type, the structures there are

(* The values of a field. *)
ValuesOf(field) ==
    CASE field.ltype \in Packable -> [1..(8 * field.data_size) -> {0, 1}]
      [] field.ltype = "BYTES" -> Seq(0..255)
      [] field.ltype = "SUBMESSAGE" -> Structures[field.submsg]
      [] OTHER -> [1..field.data_size -> 0..255]

(* A structure has one at its place, or as many as the array is long. *)
Holds(struct, field) ==
    LET data == struct.data[field.place]
        size == struct.size[field.place]
    IN /\ size \in Nat
       /\ CASE field.htype = "REPEATED" -> data \in [1..field.array_size -> ValuesOf(field)]
            [] field.htype = "ONEOF" -> size = field.tag => data[field.tag] \in ValuesOf(field)
            [] OTHER -> data \in ValuesOf(field)

ASSUME StructuresAssumption ==
    \A type \in DOMAIN Descriptor : \A struct \in Structures[type] :
        \A i \in DOMAIN Fields(type) : Holds(struct, Fields(type)[i])

-----------------------------------------------------------------------------
Errors == {"", "stream full", "submsg size changed", "bytes size exceeded", "zero-length string",
           "unterminated string", "array max size exceeded"}

Streams ==
    [callback : BOOLEAN, max_size : Nat, bytes_written : Nat, buf : Seq(Nat), errmsg : Errors]

(* A stream without callback only counts the bytes. *)
Sizing == [callback |-> FALSE, max_size |-> 0, bytes_written |-> 0, buf |-> <<>>, errmsg |-> ""]

PbOstreamFromBuffer(bufsize) == [Sizing EXCEPT !.callback = TRUE, !.max_size = bufsize]

Failed(stream, what) ==
    IF stream.errmsg = "" THEN [stream EXCEPT !.errmsg = what] ELSE stream

PbWrite_Overrun(stream, buf) ==
    CASE stream.errmsg # "" -> stream
      [] stream.errmsg = "" /\ stream.callback /\ stream.bytes_written > stream.max_size ->
            Failed(stream, "stream full")
      [] OTHER -> [stream EXCEPT !.bytes_written = @ + Len(buf),
                                 !.buf = IF stream.callback THEN @ \o buf ELSE @]

PbWrite(stream, buf) ==
    CASE stream.errmsg # "" -> stream
      [] /\ stream.errmsg = "" /\ stream.callback /\ buf # <<>>
         /\ stream.bytes_written + Len(buf) > stream.max_size -> Failed(stream, "stream full")
      [] OTHER -> [stream EXCEPT !.bytes_written = @ + Len(buf),
                                 !.buf = IF stream.callback THEN @ \o buf ELSE @]

(* pb_write(stream, NULL, size), when just sizing. *)
Count(stream, size) ==
    IF stream.errmsg = "" THEN [stream EXCEPT !.bytes_written = @ + size] ELSE stream

-----------------------------------------------------------------------------
(* Helper functions.                                                       *)

(* Seven bits a byte, up to the last byte that is not zero. *)
PbEncodeVarint(stream, value) ==
    LET groups == Cut(Unsigned(value, 70), 7, 10)
        Above(n) == \A k \in (n + 1)..10 : groups[k] = 0
        last == CHOOSE n \in 1..10 : Above(n) /\ (n = 1 \/ groups[n] # 0)
    IN PbWrite(stream, [k \in 1..last |-> IF k < last THEN 128 + groups[k] ELSE groups[k]])

PbEncodeSize(stream, size) == PbEncodeVarint(stream, Word(size, 64))

PbEncodeSvarint(stream, value) ==
    LET twice == Unsigned(<<0>> \o value, 64)
    IN PbEncodeVarint(stream, IF value[64] = 1 THEN Not(twice) ELSE twice)

(* pb_encode_fixed32 and pb_encode_fixed64. *)
PbEncodeFixed(stream, value) == PbWrite(stream, Cut(value, 8, Len(value) \div 8))

PbEncodeTag(stream, wiretype, field_number) ==
    PbEncodeSize(stream, field_number * 8 + wiretype)

PbEncodeTagForField(stream, field) == PbEncodeTag(stream, WireType(field.ltype), field.tag)

PbEncodeString(stream, buffer) == PbWrite(PbEncodeSize(stream, Len(buffer)), buffer)

(* "encode" is pb_encode for the type of the submessage.                  *)

(* What the substream wrote counts for the stream.                         *)
CloseSubmessage(stream, size, substream) ==
    Failed([stream EXCEPT !.bytes_written = @ + substream.bytes_written,
                          !.buf = @ \o substream.buf,
                          !.errmsg = substream.errmsg],
           IF substream.bytes_written = size THEN "" ELSE "submsg size changed")

WriteSubmessage(stream, size, encode, src_struct) ==
    CASE stream.errmsg # "" -> stream
      [] stream.errmsg = "" /\ ~stream.callback -> Count(stream, size)
      [] /\ stream.errmsg = "" /\ stream.callback
         /\ stream.bytes_written + size > stream.max_size -> Failed(stream, "stream full")
      [] OTHER ->
            CloseSubmessage(stream, size,
                encode[src_struct][[stream EXCEPT !.max_size = size, !.bytes_written = 0,
                                                  !.buf = <<>>]])

SizedSubmessage(stream, sized, encode, src_struct) ==
    CASE stream.errmsg # "" -> stream
      [] stream.errmsg = "" /\ sized.errmsg # "" -> Failed(stream, sized.errmsg)
      [] OTHER -> WriteSubmessage(PbEncodeSize(stream, sized.bytes_written),
                                  sized.bytes_written, encode, src_struct)

(* Once to know the size, once to write, into a stream of that size. *)
PbEncodeSubmessage(stream, encode, src_struct) ==
    SizedSubmessage(stream, encode[src_struct][Sizing], encode, src_struct)

-----------------------------------------------------------------------------
(* Field encoders: "data" is what pData points to.                         *)

PbEncBool(stream, data) ==
    PbEncodeSize(stream, IF \E i \in DOMAIN data : data[i] = 1 THEN 1 ELSE 0)

PbEncVarint_Unextended(stream, field, data) ==
    CASE field.ltype = "SVARINT" -> PbEncodeSvarint(stream, Signed(data, 64))
      [] OTHER -> PbEncodeVarint(stream, Unsigned(data, 64))

PbEncVarint(stream, field, data) ==
    CASE field.ltype = "UVARINT" -> PbEncodeVarint(stream, Unsigned(data, 64))
      [] field.ltype = "SVARINT" -> PbEncodeSvarint(stream, Signed(data, 64))
      [] OTHER -> PbEncodeVarint(stream, Signed(data, 64))

PbEncBytes(stream, field, data) ==
    IF Len(data) > field.data_size - BytesOffset THEN Failed(stream, "bytes size exceeded")
    ELSE PbEncodeString(stream, data)

(* Up to the first zero, which must be there. *)
PbEncString(stream, field, data) ==
    LET Zeroes == {i \in 1..field.data_size : data[i] = 0}
        first == CHOOSE i \in Zeroes : \A j \in Zeroes : i <= j
    IN CASE field.data_size = 0 -> Failed(stream, "zero-length string")
         [] field.data_size # 0 /\ Zeroes = {} -> Failed(stream, "unterminated string")
         [] OTHER -> PbEncodeString(stream, SubSeq(data, 1, first - 1))

-----------------------------------------------------------------------------
PbEncSubmessage(stream, encode, data) == PbEncodeSubmessage(stream, encode, data)

EncodeValue(tagged, iter) ==
    LET field == iter.field
        data == iter.data
    IN CASE field.ltype = "BOOL" -> PbEncBool(tagged, data)
         [] field.ltype \in Varints \ {"BOOL"} -> PbEncVarint(tagged, field, data)
         [] field.ltype \in {"FIXED32", "FIXED64"} -> PbEncodeFixed(tagged, data)
         [] field.ltype = "BYTES" -> PbEncBytes(tagged, field, data)
         [] field.ltype = "STRING" -> PbEncString(tagged, field, data)
         [] field.ltype = "SUBMESSAGE" -> PbEncSubmessage(tagged, iter.encode, data)
         [] field.ltype = "FIXED_LENGTH_BYTES" -> PbEncodeString(tagged, data)

EncodeBasicField(stream, iter) == EncodeValue(PbEncodeTagForField(stream, iter.field), iter)

(* One value of a packed array; a bool goes through pb_enc_varint too. *)
EncodePacked(stream, iter) ==
    IF iter.field.ltype \in Varints THEN PbEncVarint(stream, iter.field, iter.data)
    ELSE PbEncodeFixed(stream, iter.data)

EncodeArray(stream, iter, count) ==
    LET field == iter.field
        items == [i \in 1..count |-> [iter EXCEPT !.data = iter.data[i]]]
        size == CASE field.ltype = "FIXED32" -> 4 * count
                  [] field.ltype = "FIXED64" -> 8 * count
                  [] OTHER -> FoldLeft(EncodePacked, Sizing, items).bytes_written
        tagged == PbEncodeSize(PbEncodeTag(stream, PB_WT_STRING, field.tag), size)
    IN CASE count = 0 -> stream
         [] count > field.array_size -> Failed(stream, "array max size exceeded")
         [] count \in 1..field.array_size /\ field.ltype \in Packable ->
               IF ~stream.callback THEN Count(tagged, size)
               ELSE FoldLeft(EncodePacked, tagged, items)
         [] OTHER -> FoldLeft(EncodeBasicField, stream, items)

(* A field of proto3 without a has_ is left out when it is zero; a message *)
(* is when all its fields are ("allDefault").                              *)
PbCheckProto3DefaultValue(type, field, at, allDefault) ==
    CASE field.htype = "REQUIRED" -> FALSE
      [] field.htype = "REPEATED" ->
            (IF field.counted THEN at.size ELSE field.array_size) = 0
      [] field.htype = "ONEOF" \/ (field.htype = "OPTIONAL" /\ field.counted) -> at.size = 0
      [] OTHER ->
            CASE Descriptor[type].default_value # <<>> -> FALSE
              [] Descriptor[type].default_value = <<>> /\ field.ltype = "SUBMESSAGE" ->
                    allDefault[field.submsg][at.data]
              [] Descriptor[type].default_value = <<>> /\ field.ltype = "STRING" ->
                    at.data[1] = 0
              [] Descriptor[type].default_value = <<>> /\ field.ltype = "FIXED_LENGTH_BYTES" ->
                    field.data_size = 0
              [] OTHER -> at.data = Zero(field)

AllDefault[type \in DOMAIN Descriptor] ==
    [struct \in Structures[type] |->
        \A i \in DOMAIN Fields(type) :
            LET field == Fields(type)[i]
            IN PbCheckProto3DefaultValue(type, field,
                   [data |-> struct.data[field.place], size |-> struct.size[field.place]],
                   AllDefault)]

EncodeField(stream, iter) ==
    LET field == iter.field
        absent ==
            \/ field.htype = "ONEOF" /\ iter.size # field.tag
            \/ field.htype = "OPTIONAL" /\ field.counted /\ iter.size = 0
            \/ /\ field.htype = "OPTIONAL" /\ ~field.counted
               /\ PbCheckProto3DefaultValue(iter.type, field, iter, AllDefault)
    IN CASE absent -> stream
         [] ~absent /\ field.htype = "REPEATED" ->
               EncodeArray(stream, iter, IF field.counted THEN iter.size ELSE field.array_size)
         [] OTHER -> EncodeBasicField(stream, [iter EXCEPT !.data = OfUnion(field, @)])

(* The iterator at a field: the descriptor, the field, what pData and      *)
(* pSize point to, and pb_encode for its submsg_desc.                      *)
Iter(type, field, struct, encoders) ==
    [type |-> type, field |-> field,
     data |-> struct.data[field.place], size |-> struct.size[field.place],
     encode |-> IF field.ltype = "SUBMESSAGE" THEN encoders[field.submsg] ELSE <<>>]

PbEncode[type \in DOMAIN Descriptor] ==
    [struct \in Structures[type] |-> [stream \in Streams |->
        FoldLeft(EncodeField, stream,
                 [i \in DOMAIN Fields(type) |-> Iter(type, Fields(type)[i], struct, PbEncode)])]]

(* The framing that the flags ask for, "encode" being pb_encode.           *)
EncodeFramed(stream, encode, src_struct, flags) ==
    IF "DELIMITED" \in flags THEN PbEncodeSubmessage(stream, encode, src_struct)
    ELSE PbWrite(encode[src_struct][stream],
                 IF "NULLTERMINATED" \in flags THEN <<0>> ELSE <<>>)

PbEncodeEx(stream, type, src_struct, flags) ==
    EncodeFramed(stream, PbEncode[type], src_struct, flags)
=============================================================================
