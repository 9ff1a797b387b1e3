----------------------------- MODULE MCProtobuf -----------------------------
(***************************************************************************)
(* Protobuf with the messages of the examples (simple.pb.h) and four types *)
(* more that have each kind of field.                                      *)
(***************************************************************************)
EXTENDS Protobuf

Optional(f) == [f EXCEPT !.counted = TRUE]
Array(f, n) == [f EXCEPT !.counted = TRUE, !.array_size = n]
FixedArray(f, n) == [f EXCEPT !.array_size = n]
Sub(f, type_) == [f EXCEPT !.submsg = type_]
Member(f, place_) == [f EXCEPT !.place = place_]

Desc(fields, default_value) == [fields |-> fields, default_value |-> default_value]

MCDescriptor == [
    Echo |-> Desc(<<Field(1, "STRING", "OPTIONAL", 16)>>, <<>>),
    Numbers |-> Desc(<< Field(1, "UVARINT", "REQUIRED", 1),
                        Optional(Field(2, "VARINT", "OPTIONAL", 4)),
                        Array(Field(3, "SVARINT", "REPEATED", 2), 3),
                        FixedArray(Field(4, "FIXED32", "REPEATED", 4), 2),
                        Field(5, "BOOL", "OPTIONAL", 1) >>,
                     \* 2: -2, 5: true
                     <<16, 254, 255, 255, 255, 255, 255, 255, 255, 255, 1, 40, 1, 0>>),
    Choice |-> Desc(<< Member(Field(1, "STRING", "ONEOF", 4), 1),
                       Member(Sub(Field(2, "SUBMESSAGE", "ONEOF", 0), "Inner"), 1),
                       Member(Field(3, "VARINT", "ONEOF", 8), 1),
                       Field(20, "BYTES", "OPTIONAL", 4) >>, <<>>),
    Tree |-> Desc(<< Optional(Sub(Field(1, "SUBMESSAGE", "OPTIONAL", 0), "Inner")),
                     Array(Sub(Field(2, "SUBMESSAGE", "REPEATED", 0), "Inner"), 2),
                     Optional(Field(3, "FIXED_LENGTH_BYTES", "OPTIONAL", 2)),
                     Sub(Field(4, "SUBMESSAGE", "OPTIONAL", 0), "Echo") >>, <<>>),
    Inner |-> Desc(<< Field(1, "VARINT", "REQUIRED", 1),
                      Array(Field(2, "BOOL", "REPEATED", 1), 2),
                      Optional(Field(17, "FIXED64", "OPTIONAL", 8)) >>, <<>>)
]

-----------------------------------------------------------------------------
With(struct, place, data_, size_) ==
    [data |-> [struct.data EXCEPT ![place] = data_], size |-> [struct.size EXCEPT ![place] = size_]]

Text(s, n) == [i \in 1..n |-> IF i <= Len(s) THEN s[i] ELSE 0]

EchoOf(s) == With(Zeros["Echo"], 1, Text(s, 16), 0)
Fifteen == [i \in 1..15 |-> 96 + i]

NumbersOf(a, b, c) ==
    With(With(With(With(Zeros["Numbers"], 1, Word(a, 8), 0), 2, Word(b, 32), IF b = 0 THEN 0 ELSE 1),
              3, [i \in 1..3 |-> Word(IF i <= Len(c) THEN c[i] ELSE 9, 16)], Len(c)),
         4, <<Word(b, 32), Word(-1 - b, 32)>>, 0)

InnerOf(a, flag, far) ==
    With(With(With(Zeros["Inner"], 1, Word(a, 8), 0), 2, <<Word(flag, 8), Word(1, 8)>>, 2),
         17, Word(far, 64), IF far = 0 THEN 0 ELSE 1)

ChoiceOf(member, value) == With(Zeros["Choice"], 1, [t \in {member} |-> value], member)

First == [
    Echo |-> << Zeros["Echo"], EchoOf(<<102, 111, 111>>), EchoOf(Fifteen),
                EchoOf(Append(Fifteen, 112)) >>,
    Numbers |-> << NumbersOf(0, 0, <<>>), NumbersOf(127, -1, <<0>>),
                   NumbersOf(128, 2147483647, <<-1, 63, -65>>), NumbersOf(255, 127, <<32767, -32768>>),
                   [NumbersOf(1, 1, <<>>) EXCEPT !.size[3] = 4] >>,
    Choice |-> << Zeros["Choice"], ChoiceOf(1, Text(<<97>>, 4)),
                  ChoiceOf(2, InnerOf(-1, 0, -2)),
                  With(ChoiceOf(3, Word(-1, 64)), 20, <<7, 0>>, 0),
                  With(Zeros["Choice"], 20, <<7, 8, 9>>, 0) >>,
    Tree |-> << Zeros["Tree"], With(Zeros["Tree"], 1, InnerOf(5, 1, 0), 1),
                With(With(Zeros["Tree"], 2, <<InnerOf(-128, 1, 1), InnerOf(0, 0, 0)>>, 2),
                     3, <<1, 2>>, 1),
                With(Zeros["Tree"], 4, EchoOf(<<97, 98>>), 0) >>
]

Inners == {Zeros["Inner"], InnerOf(-1, 0, -2), InnerOf(5, 1, 0), InnerOf(-128, 1, 1), InnerOf(0, 0, 0)}

MCStructures ==
    [t \in DOMAIN MCDescriptor |->
        IF t = "Inner" THEN Inners
        ELSE Range(First[t]) \cup (IF t = "Echo" THEN {EchoOf(<<97, 98>>)} ELSE {})]

MCStructs == [t \in DOMAIN First |-> <<First[t], <<>>>>]

-----------------------------------------------------------------------------
(* Records of a peer. *)
Key(tag, wire_type) ==
    IF tag < 16 THEN <<8 * tag + wire_type>>
    ELSE <<128 + ((8 * tag + wire_type) % 128), (8 * tag + wire_type) \div 128>>
Varint(tag, bytes) == Key(tag, 0) \o bytes
String(tag, bytes) == Key(tag, 2) \o <<Len(bytes)>> \o bytes
Fixed32(tag, bytes) == Key(tag, 5) \o bytes
Fixed64(tag, bytes) == Key(tag, 1) \o bytes

Minus1 == <<255, 255, 255, 255, 255, 255, 255, 255, 255, 1>>
Unknown == {Varint(9, Minus1), String(18, <<1, 2>>)}
Bad == {<<0>>, Key(1, 3), <<128>>, Key(1, 2) \o <<200, 1>>}

MCRecords == [
    Echo |-> {String(1, Fifteen), String(1, Append(Fifteen, 1)), String(1, <<97, 0, 98>>),
              String(1, <<>>), <<138, 0, 1, 99>>, Varint(1, <<1>>), Fixed32(2, <<0, 0, 0, 0>>),
              Fixed64(3, [i \in 1..8 |-> 0])} \cup Unknown \cup Bad,
    Numbers |-> {Varint(1, <<128, 2>>), Varint(2, Minus1), Varint(2, <<255, 255, 255, 255, 15>>),
                 Varint(3, <<1>>), String(3, <<254, 255, 3, 4>>), String(3, <<255, 255, 3>>),
                 Fixed32(4, <<1, 2, 3, 4>>), String(4, <<1, 2, 3, 4, 5, 6, 7, 8>>), Varint(5, <<0>>),
                 Varint(5, Minus1), Varint(5, <<128, 128, 128, 128, 16>>)}
                \cup Unknown,
    Choice |-> {String(1, <<97, 98>>), String(1, <<97, 98, 99, 100>>), String(2, <<8, 1>>),
                String(2, <<16, 1>>), String(2, <<8, 2, 16, 1>>), Varint(3, <<255, 1>>),
                String(20, <<9>>), String(20, <<9, 8, 7>>)} \cup Unknown,
    Tree |-> {String(1, <<8, 1, 18, 1, 0>>), String(1, <<8, 2, 137, 1, 1, 2, 3, 4, 5, 6, 7, 8>>),
              String(2, <<8, 1>>), String(2, <<8, 128, 1>>), String(3, <<>>),
              String(3, <<4, 5>>), String(3, <<4>>), String(4, <<10, 1, 97>>)} \cup Unknown
]

Base == [Echo |-> <<>>, Numbers |-> Varint(1, <<1>>), Choice |-> <<>>, Tree |-> <<>>]

(* Messages that leave something behind in the structure. *)
Early == [
    Echo |-> {String(1, Fifteen)},
    Numbers |-> {Varint(1, <<7>>) \o Varint(2, <<5>>) \o String(3, <<1, 2, 3>>)
                   \o String(4, <<1, 2, 3, 4, 5, 6, 7, 8>>) \o Varint(5, <<0>>)},
    Choice |-> {String(2, <<8, 1, 18, 2, 1, 1>>) \o String(20, <<1, 2>>)},
    Tree |-> {String(1, <<8, 1, 18, 1, 1>>) \o String(2, <<8, 3, 16, 1>>)
                \o String(2, <<8, 4, 137, 1, 1, 2, 3, 4, 5, 6, 7, 8>>) \o String(3, <<4, 5>>)
                \o String(4, <<10, 1, 97>>)}
]

(* Messages of two records. *)
Pairs(t) ==
    {<<>>, Base[t]} \cup MCRecords[t]
    \cup {Base[t] \o a \o b : a \in MCRecords[t], b \in MCRecords[t]}

MCPeerBytes == [t \in DOMAIN MCRecords |-> <<Early[t] \cup {Base[t]}, Pairs(t)>>]

MCFramings == {{}, {"DELIMITED"}, {"NULLTERMINATED"}}
=============================================================================
