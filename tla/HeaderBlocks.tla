---------------------------- MODULE HeaderBlocks ----------------------------
(***************************************************************************)
(* Header blocks between the server and a peer that keeps to RFC 7541:     *)
(* one of them encodes a list of header fields, field by field, then the   *)
(* block is decoded, field by field, by decodeHeaderFields.  What the peer *)
(* makes of the fields is defined here from the RFC, apart from the code.  *)
(***************************************************************************)
EXTENDS Hpack

CONSTANTS
    FieldLists,  \* lists of fields the server may encode
    PeerLists    \* lists of representations of fields a peer may send

(* Strings without a zero, which would end them, whose length 32 bits can  *)
(* count, in bytes and in bytes of the Huffman code, which has thirty bits *)
(* at most for each.                                                       *)
Bytes == 0..255
Strings == {s \in Seq(Bytes) : Len(s) < 2^30 /\ \A i \in 1..Len(s) : s[i] # 0}
Fields == [name : Strings, value : Strings, sensitive : BOOLEAN]

ASSUME FieldListsAssumption == FieldLists \subseteq Seq(Fields)

(* How a peer represents a field: by its index in the static table, as a   *)
(* literal whose name is indexed or, with index 0, a literal too, or (no   *)
(* field) as an update of the size of the table.                           *)
Indexed(index) == [form |-> "indexed", index |-> index]
Literal(form, index, name, value, huffman) ==
    [form |-> form, index |-> index, name |-> name, value |-> value, huffman |-> huffman]
Resize(size) == [form |-> "resize", size |-> size]

(* Indices and sizes of 31 bits: an index of zero is a literal's only.     *)
Numbers == {i \in Nat : i <= 2147483647}
Representations ==
    [form : {"indexed"}, index : Numbers \ {0}]
    \cup [form : {"incremental", "plain", "never"}, index : Numbers,
          name : Strings, value : Strings, huffman : BOOLEAN]
    \cup [form : {"resize"}, size : Numbers]

ASSUME PeerListsAssumption == PeerLists \subseteq Seq(Representations)

VARIABLES
    writer,   \* "server" or "peer"
    todo,     \* the fields or representations still to be encoded
    outLen,   \* the size of the buffer encodeHeaderFields allocates
    meant,    \* the fields the whole block stands for
    block,    \* the bytes written
    reading,  \* the block is complete and being decoded
    rest,     \* the bytes still to be decoded
    decoded,  \* headerFields of decodeHeaderFields
    error     \* the error it returned

vars == <<writer, todo, outLen, meant, block, reading, rest, decoded, error>>

-----------------------------------------------------------------------------
(* RFC 7541, for the peer.                                                 *)

(* Section 5.1: an integer in n bits after the flags, less than 2^35. *)
RefInteger(n, flags, i) ==
    LET over == i - (2^n - 1)
        Digits == CHOOSE d \in 1..5 : over < 128^d /\ \A e \in 1..(d - 1) : over >= 128^e
    IN IF over < 0 THEN <<flags + i>>
       ELSE <<flags + 2^n - 1>> \o
            [d \in 1..Digits |-> (IF d < Digits THEN 128 ELSE 0)
                                    + ((over \div 128^(d - 1)) % 128)]

(* Section 5.2: the codes of the bytes one after the other, then ones. *)
RefBits(s) ==
    FlattenSeq([i \in 1..Len(s) |->
        [b \in 1..CodeLength(s[i]) |-> (Code(s[i]) \div 2^(CodeLength(s[i]) - b)) % 2]])

RefHuffman(s) ==
    LET bits == RefBits(s)
        Bit(i) == IF i <= Len(bits) THEN bits[i] ELSE 1
        Octet(k) == 128 * Bit(8 * k - 7) + 64 * Bit(8 * k - 6) + 32 * Bit(8 * k - 5)
                      + 16 * Bit(8 * k - 4) + 8 * Bit(8 * k - 3) + 4 * Bit(8 * k - 2)
                      + 2 * Bit(8 * k - 1) + Bit(8 * k)
    IN [k \in 1..((Len(bits) + 7) \div 8) |-> Octet(k)]

RefString(s, huffman) ==
    IF huffman THEN RefInteger(7, 128, Len(RefHuffman(s))) \o RefHuffman(s)
    ELSE RefInteger(7, 0, Len(s)) \o s

Forms == [incremental |-> [bits |-> 6, flags |-> 64],
          plain |-> [bits |-> 4, flags |-> 0],
          never |-> [bits |-> 4, flags |-> 16]]

(* Section 6. *)
Represent(rep) ==
    CASE rep.form = "indexed" -> RefInteger(7, 128, rep.index)
      [] rep.form = "resize" -> RefInteger(5, 32, rep.size)
      [] OTHER ->
            RefInteger(Forms[rep.form].bits, Forms[rep.form].flags, rep.index)
              \o (IF rep.index = 0 THEN RefString(rep.name, rep.huffman) ELSE <<>>)
              \o RefString(rep.value, rep.huffman)

(* The entries of the static table; those past it are in the dynamic table, *)
(* which the server's SETTINGS take away from the peer: no bytes name them. *)
Unknown == [name |-> <<256>>, value |-> <<256>>, sensitive |-> FALSE]
Entry(index) == IF index <= 61 THEN StaticTableEntry[index] ELSE Unknown

(* The field a representation stands for. *)
Meaning(rep) ==
    CASE rep.form = "indexed" -> <<Entry(rep.index)>>
      [] rep.form = "resize" -> <<>>
      [] OTHER ->
            << [name |-> IF rep.index = 0 THEN rep.name ELSE Entry(rep.index).name,
                value |-> rep.value, sensitive |-> rep.form = "never"] >>

(* The server's blocks, as the RFC would have them. *)
ShorterHuffman(s) == Len(RefHuffman(s)) < Len(s)

RefBlock(fields) ==
    FlattenSeq([i \in 1..Len(fields) |->
        <<16>> \o RefString(fields[i].name, ShorterHuffman(fields[i].name))
               \o RefString(fields[i].value, ShorterHuffman(fields[i].value))])

-----------------------------------------------------------------------------
ServerEncodes ==
    /\ writer = "server"
    /\ todo # <<>>
    /\ block' = block \o EncodeHeaderField(Head(todo))
    /\ todo' = Tail(todo)
    /\ UNCHANGED <<writer, outLen, meant, reading, rest, decoded, error>>

PeerEncodes ==
    /\ writer = "peer"
    /\ todo # <<>>
    /\ block' = block \o Represent(Head(todo))
    /\ todo' = Tail(todo)
    /\ UNCHANGED <<writer, outLen, meant, reading, rest, decoded, error>>

Deliver ==
    /\ todo = <<>>
    /\ ~reading
    /\ reading' = TRUE
    /\ rest' = block
    /\ UNCHANGED <<writer, todo, outLen, meant, block, decoded, error>>

(* One turn of the loop of decodeHeaderFields. *)
Decode ==
    /\ rest # <<>>
    /\ error = ""
    /\ \E result \in {DecodeHeaderField(rest)} :
          \/ /\ result.ok
             /\ decoded' = decoded \o result.value
             /\ rest' = result.rest
             /\ UNCHANGED error
          \/ /\ ~result.ok
             /\ error' = result.error
             /\ UNCHANGED <<rest, decoded>>
    /\ UNCHANGED <<writer, todo, outLen, meant, block, reading>>

Init ==
    /\ \/ /\ writer = "server"
          /\ todo \in FieldLists
          /\ outLen = EncodeHeaderFieldsLen(todo)
          /\ meant = [i \in 1..Len(todo) |-> [todo[i] EXCEPT !.sensitive = TRUE]]
       \/ /\ writer = "peer"
          /\ todo \in PeerLists
          /\ outLen = 0
          /\ meant = FlattenSeq([i \in 1..Len(todo) |-> Meaning(todo[i])])
    /\ block = <<>>
    /\ reading = FALSE
    /\ rest = <<>>
    /\ decoded = <<>>
    /\ error = ""

Next == ServerEncodes \/ PeerEncodes \/ Deliver \/ Decode

Spec == Init /\ [][Next]_vars

-----------------------------------------------------------------------------
(* The properties.                                                         *)

(* The pass that computes the length and the pass that writes agree: the   *)
(* buffer is never too small, and in the end it is full.                   *)
FitsBuffer ==
    writer = "server" =>
        /\ Len(block) <= outLen
        /\ todo = <<>> => Len(block) = outLen

(* What the server writes is a header block of RFC 7541 for its fields,    *)
(* whatever bytes are in them and however long they are.                   *)
PeerReads ==
    writer = "server" /\ reading => block = RefBlock(meant)

(* decodeHeaderFields finds the fields a block stands for, in order, and   *)
(* nothing else; it refuses a block only at a reference past index 60.     *)
DecodesMeaning ==
    /\ IsPrefix(decoded, meant)
    /\ reading /\ rest = <<>> => decoded = meant
    /\ error # "" => meant[Len(decoded) + 1].name \in {Entry(61).name, Unknown.name}
=============================================================================
