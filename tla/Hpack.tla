------------------------------- MODULE Hpack -------------------------------
(***************************************************************************)
(* http2/hpack.cpp: header fields to header blocks and back, without a     *)
(* dynamic table.  A name or a value is the sequence of its bytes up to    *)
(* the terminating zero, as strlen and strcmp see it.                      *)
(***************************************************************************)
EXTENDS Huffman

(* From 43 to 122; blanks at the characters no literal here has. *)
ASCII == "+,-./0123456789:      ABCDEFGHIJKLMNOPQRSTUVWXYZ      abcdefghijklmnopqrstuvwxyz"

(* The bytes of a string literal. *)
Chars(text) ==
    [i \in 1..Len(text) |->
        IF SubSeq(text, i, i) = " " THEN 32
        ELSE 42 + CHOOSE j \in 1..Len(ASCII) : SubSeq(ASCII, j, j) = SubSeq(text, i, i)]

HeaderField(name, value) == [name |-> name, value |-> value, sensitive |-> FALSE]

(* STATIC_TABLE_ENTRIES, from index 0. *)
StaticTable == <<
    <<"", "">>, <<":authority", "">>, <<":method", "GET">>,
    <<":method", "POST">>, <<":path", "/">>, <<":path", "/index.html">>,
    <<":scheme", "http">>, <<":scheme", "https">>, <<":status", "200">>,
    <<":status", "204">>, <<":status", "206">>, <<":status", "304">>,
    <<":status", "400">>, <<":status", "404">>, <<":status", "500">>,
    <<"accept-charset", "">>, <<"accept-encoding", "gzip, deflate">>,
    <<"accept-language", "">>, <<"accept-ranges", "">>, <<"accept", "">>,
    <<"access-control-allow-origin", "">>, <<"age", "">>, <<"allow", "">>,
    <<"authorization", "">>, <<"cache-control", "">>,
    <<"content-disposition", "">>, <<"content-encoding", "">>,
    <<"content-language", "">>, <<"content-length", "">>,
    <<"content-location", "">>, <<"content-range", "">>,
    <<"content-type", "">>, <<"cookie", "">>, <<"date", "">>, <<"etag", "">>,
    <<"expect", "">>, <<"expires", "">>, <<"from", "">>, <<"host", "">>,
    <<"if-match", "">>, <<"if-modified-since", "">>, <<"if-none-match", "">>,
    <<"if-range", "">>, <<"if-unmodified-since", "">>, <<"last-modified", "">>,
    <<"link", "">>, <<"location", "">>, <<"max-forwards", "">>,
    <<"proxy-authenticate", "">>, <<"proxy-authorization", "">>,
    <<"range", "">>, <<"referer", "">>, <<"refresh", "">>,
    <<"retry-after", "">>, <<"server", "">>, <<"set-cookie", "">>,
    <<"strict-transport-security", "">>, <<"transfer-encoding", "">>,
    <<"user-agent", "">>, <<"vary", "">>, <<"via", "">>,
    <<"www-authenticate", "">>>>

StaticTableEntry == [index \in 0..61 |->
    HeaderField(Chars(StaticTable[index + 1][1]), Chars(StaticTable[index + 1][2]))]

-----------------------------------------------------------------------------
(* Decoding.                                                               *)

GetIndexedField_OffByOne(index) ==
    IF index > 60 THEN Error("cannot get index with no dyn tab")
    ELSE Ok(StaticTableEntry[index + 1], <<>>)

GetIndexedField(index) ==
    IF index > 60 THEN Error("cannot get index with no dyn tab")
    ELSE Ok(StaticTableEntry[index], <<>>)

(* strncpy stops at a zero. *)
CString(s) ==
    LET Zeros == {i \in 1..Len(s) : s[i] = 0}
    IN IF Zeros = {} THEN s
       ELSE SubSeq(s, 1, (CHOOSE i \in Zeros : \A j \in Zeros : i <= j) - 1)

(* readString, where the whole string is in the buffer. *)
ReadString(rest) ==
    Then(ReadVarInt(7, rest), LAMBDA strLen, left :
        LET s == SubSeq(left, 1, strLen)
            after == SubSeq(left, strLen + 1, Len(left))
        IN IF rest[1] < 128 THEN Ok(CString(s), after)
           ELSE Then(HuffmanDecode(s), LAMBDA str, none : Ok(CString(str), after)))

ParseFieldIndexed(rest) ==
    Then(ReadVarInt(7, rest), LAMBDA index, after :
        Then(GetIndexedField(index), LAMBDA field, none : Ok(field, after)))

FieldName(nameIdx, rest) ==
    IF nameIdx > 0
    THEN Then(GetIndexedField(nameIdx), LAMBDA field, none : Ok(field.name, rest))
    ELSE ReadString(rest)

(* "never": IndexType is Never. *)
ParseFieldLiteral(n, never, rest) ==
    Then(ReadVarInt(n, rest), LAMBDA nameIdx, afterIndex :
        Then(FieldName(nameIdx, afterIndex), LAMBDA name, afterName :
            Then(ReadString(afterName), LAMBDA value, after :
                Ok([name |-> name, value |-> value, sensitive |-> never], after))))

(* One turn of the loop of decodeHeaderFields: the fields it adds, none    *)
(* for an update of the dynamic table's size.                              *)
Add(result) == Then(result, LAMBDA field, after : Ok(<<field>>, after))

DecodeHeaderField(rest) ==
    LET bitPrefix == rest[1]
    IN CASE bitPrefix >= 128 -> Add(ParseFieldIndexed(rest))
         [] bitPrefix \in 0..31 \cup 64..127 ->
               Add(ParseFieldLiteral(IF bitPrefix >= 64 THEN 6 ELSE 4, bitPrefix \in 16..31, rest))
         [] bitPrefix \in 32..63 ->
               Then(ReadVarInt(5, rest), LAMBDA size, after : Ok(<<>>, after))

-----------------------------------------------------------------------------
(* Encoding.                                                               *)

EncodedStringLen(s) ==
    LET len == IF HuffmanEncodeLength(s) < Len(s) THEN HuffmanEncodeLength(s) ELSE Len(s)
    IN VarIntSize(7, len) + len

EncodeHeaderFieldsLen(fields) ==
    FoldLeft(LAMBDA len, f : len + 1 + EncodedStringLen(f.name) + EncodedStringLen(f.value),
             0, fields)

SetTopBit(bytes) == [bytes EXCEPT ![1] = @ + 128]

(* In the Huffman code where that is shorter. *)
EncodeString(s) ==
    IF HuffmanEncodeLength(s) < Len(s)
    THEN SetTopBit(WriteVarInt(7, HuffmanEncodeLength(s))) \o HuffmanEncode(s)
    ELSE WriteVarInt(7, Len(s)) \o s

(* One turn of the loop of encodeHeaderFields: a literal never indexed,    *)
(* with a literal name.                                                    *)
EncodeHeaderField(field) == <<16>> \o EncodeString(field.name) \o EncodeString(field.value)
=============================================================================
