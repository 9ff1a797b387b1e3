---------------------------- MODULE MCHeaderBlocks ----------------------------
(***************************************************************************)
(* HeaderBlocks with the fields of gRPC, each byte and each pair of code   *)
(* lengths, and strings around the lengths at which integers grow.         *)
(***************************************************************************)
EXTENDS HeaderBlocks, TLC

(* A byte for each length of code. *)
OfEachLength ==
    {CHOOSE c \in 1..255 : CodeLength(c) = n : n \in {CodeLength(c) : c \in 1..255}}

Repeated(c, n) == [i \in 1..n |-> c]

(* Five, seven and ten bits per byte: shorter in Huffman, and longer. *)
Long ==
    {Repeated(97, n) : n \in {126, 127, 128, 201, 202, 203, 204, 205, 206}}
    \cup {Repeated(33, n) : n \in {126, 127, 128, 129, 254, 255, 256}}
    \cup {Repeated(66, n) : n \in {143, 144, 145, 146, 147}}

Values ==
    {<<>>} \cup {<<c>> : c \in 1..255}
    \cup {<<c, d>> : c \in OfEachLength, d \in OfEachLength}
    \cup {<<c, 97, d, 255>> : c \in OfEachLength, d \in OfEachLength}
    \cup Long

ContentType == HeaderField(Chars("content-type"), Chars("application/grpc+proto"))
Ok200 == HeaderField(Chars(":status"), Chars("200"))

MCFieldLists ==
    {<<Ok200, ContentType>>}
    \cup {<<HeaderField(Chars("grpc-status"), Chars(ToString(code)))>> : code \in 0..16}
    \cup {<<HeaderField(Chars("grpc-message"), v)>> : v \in Values}

LiteralForms == {"incremental", "plain", "never"}

Request(form, huffman) ==
    << Resize(0), Indexed(3), Indexed(6),
       Literal(form, 4, <<>>, Chars("/echo.EchoService/Echo"), huffman),
       Literal(form, 1, <<>>, Chars("arduino:8080"), huffman),
       Literal(form, 0, Chars("te"), Chars("trailers"), huffman),
       Literal(form, 58, <<>>, Chars("grpc-c++/1.51.1"), huffman) >>

MCPeerLists ==
    {Request(form, huffman) : form \in LiteralForms, huffman \in BOOLEAN}
    \cup {<<Indexed(index), Indexed(3)>> : index \in 1..62}
    \cup {<<Literal("plain", index, <<>>, <<48>>, TRUE), Indexed(index)>> : index \in 1..62}
    \cup {<<Resize(size), Indexed(2)>> : size \in {0, 30, 31, 32, 4096}}
    \cup {<<Literal("incremental", 0, <<120>>, v, huffman)>> :
            v \in Values, huffman \in BOOLEAN}
=============================================================================
