------------------------------ MODULE PbDecode ------------------------------
(***************************************************************************)
(* examples/gen/pb_decode.c: a message from a stream into a structure.     *)
(*                                                                         *)
(* A stream is the bytes left in it; a function that returns true gives Ok *)
(* with what it decoded and the stream after it, else Error with errmsg.   *)
(* Compiled as the examples are: without malloc, streams from a buffer.    *)
(***************************************************************************)
EXTENDS Pb

PbRead(stream, count) ==
    IF Len(stream) < count THEN Error("end-of-stream")
    ELSE Ok(SubSeq(stream, 1, count), SubSeq(stream, count + 1, Len(stream)))

-----------------------------------------------------------------------------
(* Helper functions.                                                       *)

(* How long the varint at the head is, 0 if the stream ends before it. *)
VarintLength(stream) ==
    LET Ends == {i \in DOMAIN stream : stream[i] < 128}
    IN IF Ends = {} THEN 0 ELSE CHOOSE i \in Ends : \A j \in Ends : i <= j

(* A 32-bit value may be followed by its sign extension to 64 bits, or by  *)
(* groups of zeros, up to ten bytes; bits 33 to 35 only by these.          *)
PbDecodeVarint32(stream) ==
    LET n == VarintLength(stream)
        seen == IF n = 0 THEN Len(stream) ELSE n
        result == Unsigned(Pieces(SubSeq(stream, 1, IF seen < 5 THEN seen ELSE 5), 7), 32)
        Extends(k) ==
            /\ k <= 10
            /\ \/ stream[k] % 128 = 0
               \/ result[32] = 1 /\ stream[k] = IF k < 10 THEN 255 ELSE 1
    IN CASE \E k \in 6..seen : ~Extends(k) -> Error("varint overflow")
         [] n = 5 /\ (stream[5] \div 16) % 8 # 0 -> Error("varint overflow")
         [] n = 0 /\ (\A k \in 6..seen : Extends(k)) -> Error("end-of-stream")
         [] OTHER -> Ok(result, SubSeq(stream, n + 1, Len(stream)))

PbDecodeVarint(stream) ==
    LET n == VarintLength(stream)
    IN CASE n \in 1..10 ->
              Ok(Unsigned(Pieces(SubSeq(stream, 1, n), 7), 64), SubSeq(stream, n + 1, Len(stream)))
         [] n = 0 /\ Len(stream) < 10 -> Error("end-of-stream")
         [] OTHER -> Error("varint overflow")

PbSkipVarint(stream) ==
    LET n == VarintLength(stream) IN PbRead(stream, IF n = 0 THEN Len(stream) + 1 ELSE n)

PbSkipString(stream) ==
    Then(PbDecodeVarint32(stream), LAMBDA length, rest : PbRead(rest, Natural(length)))

PbDecodeTag(stream) ==
    Then(PbDecodeVarint32(stream), LAMBDA temp, rest :
        Ok([tag |-> Natural(SubSeq(temp, 4, 32)), wire_type |-> Natural(SubSeq(temp, 1, 3))],
           rest))

PbSkipField(stream, wire_type) ==
    CASE wire_type = PB_WT_VARINT -> PbSkipVarint(stream)
      [] wire_type = PB_WT_64BIT -> PbRead(stream, 8)
      [] wire_type = PB_WT_STRING -> PbSkipString(stream)
      [] wire_type = PB_WT_32BIT -> PbRead(stream, 4)
      [] OTHER -> Error("invalid wire_type")

(* The substream, and the stream after it once it has been closed.         *)
PbMakeStringSubstream(stream) ==
    Then(PbDecodeVarint32(stream), LAMBDA size, rest :
        IF Len(rest) < Natural(size) THEN Error("parent stream too short")
        ELSE PbRead(rest, Natural(size)))

-----------------------------------------------------------------------------
(* Field decoders.                                                         *)

PbDecBool(stream, field) ==
    Then(PbDecodeVarint32(stream), LAMBDA value, rest :
        Ok(Word(IF \E i \in DOMAIN value : value[i] = 1 THEN 1 ELSE 0, 8), rest))

PbDecodeSvarint(stream) ==
    Then(PbDecodeVarint(stream), LAMBDA value, rest :
        LET half == Unsigned(Tail(value), 64)
        IN Ok(IF value[1] = 1 THEN Not(half) ELSE half, rest))

(* The value is cast to the size of the field, which must not change it. *)
Clamp(value, field, Cast(_, _), rest) ==
    LET clamped == Unsigned(value, 8 * field.data_size)
    IN IF Cast(clamped, 64) = value THEN Ok(clamped, rest) ELSE Error("integer too large")

PbDecVarint(stream, field) ==
    CASE field.ltype = "UVARINT" ->
            Then(PbDecodeVarint(stream), LAMBDA value, rest : Clamp(value, field, Unsigned, rest))
      [] field.ltype = "SVARINT" ->
            Then(PbDecodeSvarint(stream), LAMBDA value, rest : Clamp(value, field, Signed, rest))
      [] OTHER ->
            Then(PbDecodeVarint(stream), LAMBDA value, rest :
                LET svalue == IF field.data_size = 8 THEN value
                              ELSE Signed(Unsigned(value, 32), 64)
                IN Clamp(svalue, field, Signed, rest))

(* pb_decode_fixed32 and pb_decode_fixed64. *)
PbDecodeFixed(stream, count) ==
    Then(PbRead(stream, count), LAMBDA bytes, rest : Ok(Pieces(bytes, 8), rest))

PbDecBytes(stream, field) ==
    Then(PbDecodeVarint32(stream), LAMBDA size, rest :
        IF Natural(size) > PB_SIZE_MAX \/ Natural(size) + BytesOffset > field.data_size
        THEN Error("bytes overflow")
        ELSE PbRead(rest, Natural(size)))

(* The bytes after the terminating zero are left as they were. *)
PbDecString(stream, field, dest) ==
    Then(PbDecodeVarint32(stream), LAMBDA size, rest :
        IF Natural(size) >= field.data_size THEN Error("string overflow")
        ELSE Then(PbRead(rest, Natural(size)), LAMBDA bytes, after :
                Ok([i \in 1..field.data_size |->
                       CASE i <= Len(bytes) -> bytes[i]
                         [] i = Len(bytes) + 1 -> 0
                         [] i > Len(bytes) + 1 -> dest[i]], after)))

PbDecFixedLengthBytes(stream, field) ==
    Then(PbDecodeVarint32(stream), LAMBDA size, rest :
        CASE Natural(size) > PB_SIZE_MAX -> Error("bytes overflow")
          [] Natural(size) = 0 -> Ok(Zero(field), rest)
          [] Natural(size) = field.data_size -> PbRead(rest, field.data_size)
          [] OTHER -> Error("incorrect fixed length bytes size"))

-----------------------------------------------------------------------------
(* A field.  "at" is what pData and pSize point to: the data of the field  *)
(* and its has_, which_ or count.                                          *)

RECURSIVE PbDecodeInner(_, _, _, _)

PbDecSubmessage(stream, field, dest) ==
    Then(PbMakeStringSubstream(stream), LAMBDA substream, rest :
        LET flags == IF field.htype # "REPEATED" THEN {"NOINIT"} ELSE {}
        IN Then(PbDecodeInner(substream, field.submsg, dest, flags), LAMBDA message, left :
                Ok(message, rest)))

DecodeBasicField(stream, wire_type, field, dest) ==
    CASE ~ \/ wire_type = WireType(field.ltype)
           \/ wire_type = PB_WT_PACKED /\ field.ltype \in Packable -> Error("wrong wire type")
      [] OTHER ->
            CASE field.ltype = "BOOL" -> PbDecBool(stream, field)
              [] field.ltype \in Varints \ {"BOOL"} -> PbDecVarint(stream, field)
              [] field.ltype = "FIXED32" -> PbDecodeFixed(stream, 4)
              [] field.ltype = "FIXED64" -> PbDecodeFixed(stream, 8)
              [] field.ltype = "BYTES" -> PbDecBytes(stream, field)
              [] field.ltype = "STRING" -> PbDecString(stream, field, dest)
              [] field.ltype = "SUBMESSAGE" -> PbDecSubmessage(stream, field, dest)
              [] field.ltype = "FIXED_LENGTH_BYTES" -> PbDecFixedLengthBytes(stream, field)

(* The values of a packed array, while there is room. *)
RECURSIVE DecodePacked(_, _, _)
DecodePacked(substream, field, at) ==
    IF substream = <<>> \/ at.size >= field.array_size THEN Ok(at, substream)
    ELSE Then(DecodeBasicField(substream, PB_WT_PACKED, field, at.data[at.size + 1]),
              LAMBDA value, left :
                  DecodePacked(left, field, [data |-> [at.data EXCEPT ![at.size + 1] = value],
                                             size |-> at.size + 1]))

DecodeRepeated(stream, wire_type, field, at) ==
    CASE wire_type = PB_WT_STRING /\ field.ltype \in Packable ->
            Then(PbMakeStringSubstream(stream), LAMBDA substream, rest :
                Then(DecodePacked(substream, field, at), LAMBDA after, left :
                    IF left = <<>> THEN Ok(after, rest) ELSE Error("array overflow")))
      [] OTHER ->
            IF at.size >= field.array_size THEN Error("array overflow")
            ELSE Then(DecodeBasicField(stream, wire_type, field, at.data[at.size + 1]),
                      LAMBDA value, rest :
                          Ok([data |-> [at.data EXCEPT ![at.size + 1] = value],
                              size |-> at.size + 1], rest))

-----------------------------------------------------------------------------
(* Defaults.                                                               *)

(* The types whose structures are not all zeros at first. *)
HasDefaults(type) ==
    \/ Descriptor[type].default_value # <<>>
    \/ \E i \in DOMAIN Fields(type) : Fields(type)[i].ltype = "SUBMESSAGE"

RECURSIVE PbMessageSetToDefaults(_, _)
Defaults(field, data) ==
    IF field.ltype = "SUBMESSAGE" /\ HasDefaults(field.submsg)
    THEN PbMessageSetToDefaults(field.submsg, data)
    ELSE Zero(field)

PbFieldSetToDefault_Stale(field, at) ==
    CASE field.htype \in {"REPEATED", "ONEOF"} -> [at EXCEPT !.size = 0]
      [] OTHER -> [at EXCEPT !.data = Defaults(field, at.data)]

(* Neither a fixed count array nor, past a count of zero, any other array  *)
(* is cleared.                                                             *)
PbFieldSetToDefault(field, at) ==
    CASE field.htype \in {"REPEATED", "ONEOF"} -> [at EXCEPT !.size = 0]
      [] OTHER -> [data |-> Defaults(field, at.data), size |-> 0]

(* When a oneof becomes a submessage, it is cleared and set to defaults.   *)
(* What a member of another kind leaves of the one before it is not read.  *)
DecodeStaticField(stream, wire_type, field, at) ==
    LET switched == field.htype = "ONEOF" /\ at.size # field.tag
        size == CASE field.htype = "REQUIRED" -> at.size
                  [] field.htype = "OPTIONAL" -> 1
                  [] field.htype = "ONEOF" -> field.tag
    IN IF field.htype = "REPEATED" THEN DecodeRepeated(stream, wire_type, field, at)
       ELSE Then(DecodeBasicField(stream, wire_type, field,
                                  IF switched THEN Defaults(field, Zero(field))
                                  ELSE OfUnion(field, at.data)),
                 LAMBDA value, rest :
                     Ok([data |-> InUnion(field, value), size |-> size], rest))

Store(message, p, at) ==
    [data |-> [message.data EXCEPT ![p] = at.data], size |-> [message.size EXCEPT ![p] = at.size]]

(* "default_value" is an encoded message that ends with a tag of zero, its *)
(* fields in the order of the descriptor.  "s" holds the structure and     *)
(* what is left of the message after the tag of its next field.            *)
NextDefault(stream) ==
    IF stream = <<>> THEN Ok([tag |-> 0, wire_type |-> 0], <<>>) ELSE PbDecodeTag(stream)

(* A default does not make a field present. *)
TakeDefault(s, field, default) ==
    [message |-> Store(s.message, field.place, [default.value EXCEPT !.size = 0]),
     stream |-> NextDefault(default.rest)]

SetField(s, field, at) ==
    IF s.stream.value.tag \notin {field.tag} \ {0}
    THEN [s EXCEPT !.message = Store(@, field.place, at)]
    ELSE TakeDefault(s, field,
                     DecodeStaticField(s.stream.rest, s.stream.value.wire_type, field, at))

PbMessageSetToDefaults(type, message) ==
    FoldLeft(LAMBDA s, field :
                SetField(s, field, PbFieldSetToDefault(field, [data |-> s.message.data[field.place],
                                                               size |-> s.message.size[field.place]])),
             [message |-> message, stream |-> NextDefault(Descriptor[type].default_value)],
             Fields(type)).message

-----------------------------------------------------------------------------
(* Decode all fields.  "d" holds the structure, the index of the iterator, *)
(* the required fields seen, and the fixed count array last met (index 0:  *)
(* none) with the values read into it.                                     *)

MissingRequired(type, seen) ==
    \E i \in DOMAIN Fields(type) :
        /\ Fields(type)[i].htype = "REQUIRED"
        /\ RequiredBefore(type, i) < PB_MAX_REQUIRED_FIELDS
        /\ i \notin seen

WrongCount(type, d) == d.fixed # 0 /\ d.count # Fields(type)[d.fixed].array_size

Finished(type, d, rest) ==
    CASE WrongCount(type, d) -> Error("wrong size for fixed count field")
      [] ~WrongCount(type, d) /\ MissingRequired(type, d.seen) -> Error("missing required field")
      [] OTHER -> Ok(d.message, rest)

(* A field of the descriptor: pSize of a fixed count array is the count.   *)
DecodeKnown(stream, wire_type, type, index, d) ==
    LET field == Fields(type)[index]
        p == field.place
        fixed == SizeOf(field) = "array_size"
        restart == fixed /\ d.fixed # index
        size == CASE restart -> 0
                  [] fixed /\ ~restart -> d.count
                  [] ~fixed -> d.message.size[p]
        Stored(at) ==
            [message |-> [data |-> [d.message.data EXCEPT ![p] = at.data],
                          size |-> IF SizeOf(field) = "struct"
                                   THEN [d.message.size EXCEPT ![p] = at.size]
                                   ELSE d.message.size],
             index |-> index,
             seen |-> d.seen \cup {index},
             fixed |-> IF fixed THEN index ELSE d.fixed,
             count |-> IF fixed THEN at.size ELSE d.count]
    IN IF restart /\ WrongCount(type, d) THEN Error("wrong size for fixed count field")
       ELSE Then(DecodeStaticField(stream, wire_type, field,
                                   [data |-> d.message.data[p], size |-> size]),
                 LAMBDA at, rest : Ok(Stored(at), rest))

RECURSIVE DecodeFields(_, _, _, _)
DecodeFields(stream, type, d, flags) ==
    IF stream = <<>> THEN Finished(type, d, stream)
    ELSE Then(PbDecodeTag(stream), LAMBDA key, rest :
            LET index == PbFieldIterFind(type, d.index, key.tag)
            IN CASE key.tag = 0 /\ "NULLTERMINATED" \in flags -> Finished(type, d, rest)
                 [] key.tag = 0 /\ "NULLTERMINATED" \notin flags -> Error("zero tag")
                 [] key.tag # 0 /\ index = 0 ->
                       Then(PbSkipField(rest, key.wire_type), LAMBDA skipped, left :
                           DecodeFields(left, type, d, flags))
                 [] key.tag # 0 /\ index # 0 ->
                       Then(DecodeKnown(rest, key.wire_type, type, index, d), LAMBDA after, left :
                           DecodeFields(left, type, after, flags)))

PbDecodeInner(stream, type, dest_struct, flags) ==
    LET message == IF "NOINIT" \in flags THEN dest_struct
                   ELSE PbMessageSetToDefaults(type, dest_struct)
    IN DecodeFields(stream, type,
                    [message |-> message, index |-> 1, seen |-> {}, fixed |-> 0, count |-> 0],
                    flags)

PbDecodeEx(stream, type, dest_struct, flags) ==
    LET delimited == "DELIMITED" \in flags
    IN Then(IF delimited THEN PbMakeStringSubstream(stream) ELSE Ok(stream, <<>>),
            LAMBDA inner, rest :
                Then(PbDecodeInner(inner, type, dest_struct, flags), LAMBDA message, left :
                    Ok(message, IF delimited THEN rest ELSE left)))
=============================================================================
