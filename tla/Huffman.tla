------------------------------ MODULE Huffman ------------------------------
(***************************************************************************)
(* http2/huffman.cpp and its tables: the Huffman code of HPACK, whose      *)
(* symbols are the 256 bytes.                                              *)
(***************************************************************************)
EXTENDS NetIntegers

(* HUFFMAN_CODES of the bytes 0..127, *)
LowCodes == <<
    8184, 8388568, 268435426, 268435427, 268435428, 268435429,
    268435430, 268435431, 268435432, 16777194, 1073741820, 268435433,
    268435434, 1073741821, 268435435, 268435436, 268435437, 268435438,
    268435439, 268435440, 268435441, 268435442, 1073741822, 268435443,
    268435444, 268435445, 268435446, 268435447, 268435448, 268435449,
    268435450, 268435451, 20, 1016, 1017, 4090, 8185, 21, 248, 2042,
    1018, 1019, 249, 2043, 250, 22, 23, 24, 0, 1, 2, 25, 26, 27, 28,
    29, 30, 31, 92, 251, 32764, 32, 4091, 1020, 8186, 33, 93, 94, 95,
    96, 97, 98, 99, 100, 101, 102, 103, 104, 105, 106, 107, 108, 109,
    110, 111, 112, 113, 114, 252, 115, 253, 8187, 524272, 8188, 16380,
    34, 32765, 3, 35, 4, 36, 5, 37, 38, 39, 6, 116, 117, 40, 41, 42, 7,
    43, 118, 44, 8, 9, 45, 119, 120, 121, 122, 123, 32766, 2044, 16381,
    8189, 268435452>>

(* and of the bytes 128..255. *)
HighCodes == <<
    1048550, 4194258, 1048551, 1048552, 4194259, 4194260, 4194261,
    8388569, 4194262, 8388570, 8388571, 8388572, 8388573, 8388574,
    16777195, 8388575, 16777196, 16777197, 4194263, 8388576, 16777198,
    8388577, 8388578, 8388579, 8388580, 2097116, 4194264, 8388581,
    4194265, 8388582, 8388583, 16777199, 4194266, 2097117, 1048553,
    4194267, 4194268, 8388584, 8388585, 2097118, 8388586, 4194269,
    4194270, 16777200, 2097119, 4194271, 8388587, 8388588, 2097120,
    2097121, 4194272, 2097122, 8388589, 4194273, 8388590, 8388591,
    1048554, 4194274, 4194275, 4194276, 8388592, 4194277, 4194278,
    8388593, 67108832, 67108833, 1048555, 524273, 4194279, 8388594,
    4194280, 33554412, 67108834, 67108835, 67108836, 134217694,
    134217695, 67108837, 16777201, 33554413, 524274, 2097123, 67108838,
    134217696, 134217697, 67108839, 134217698, 16777202, 2097124,
    2097125, 67108840, 67108841, 268435453, 134217699, 134217700,
    134217701, 1048556, 16777203, 1048557, 2097126, 4194281, 2097127,
    2097128, 8388595, 4194282, 4194283, 33554414, 33554415, 16777204,
    16777205, 67108842, 8388596, 67108843, 134217702, 67108844,
    67108845, 134217703, 134217704, 134217705, 134217706, 134217707,
    268435454, 134217708, 134217709, 134217710, 134217711, 134217712,
    67108846>>

Lengths == <<
    13, 23, 28, 28, 28, 28, 28, 28, 28, 24, 30, 28, 28, 30, 28, 28, 28,
    28, 28, 28, 28, 28, 30, 28, 28, 28, 28, 28, 28, 28, 28, 28, 6, 10,
    10, 12, 13, 6, 8, 11, 10, 10, 8, 11, 8, 6, 6, 6, 5, 5, 5, 6, 6, 6,
    6, 6, 6, 6, 7, 8, 15, 6, 12, 10, 13, 6, 7, 7, 7, 7, 7, 7, 7, 7, 7,
    7, 7, 7, 7, 7, 7, 7, 7, 7, 7, 7, 7, 7, 8, 7, 8, 13, 19, 13, 14, 6,
    15, 5, 6, 5, 6, 5, 6, 6, 6, 5, 7, 7, 6, 6, 6, 5, 6, 7, 6, 5, 5, 6,
    7, 7, 7, 7, 7, 15, 11, 14, 13, 28, 20, 22, 20, 20, 22, 22, 22, 23,
    22, 23, 23, 23, 23, 23, 24, 23, 24, 24, 22, 23, 24, 23, 23, 23, 23,
    21, 22, 23, 22, 23, 23, 24, 22, 21, 20, 22, 22, 23, 23, 21, 23, 22,
    22, 24, 21, 22, 23, 23, 21, 21, 22, 21, 23, 22, 23, 23, 20, 22, 22,
    22, 23, 22, 22, 23, 26, 26, 20, 19, 22, 23, 22, 25, 26, 26, 26, 27,
    27, 26, 24, 25, 19, 21, 26, 27, 27, 26, 27, 24, 21, 21, 26, 26, 28,
    27, 27, 27, 20, 24, 20, 21, 22, 21, 21, 23, 22, 22, 25, 25, 24, 24,
    26, 23, 26, 27, 26, 26, 27, 27, 27, 27, 27, 28, 27, 27, 27, 27, 27,
    26>>

Code(sym) == IF sym < 128 THEN LowCodes[sym + 1] ELSE HighCodes[sym - 127]
CodeLength(sym) == Lengths[sym + 1]

(* static_cast<uint8_t>(code >> n) and (code << n). *)
HighByte(code, n) == (code \div 2^n) % 256
LowByte(code, n) == ((code % 256) * 2^n) % 256

-----------------------------------------------------------------------------
(* The decoding tree.  An internal node is named by the bytes of code that *)
(* lead to it; it has 256 children.                                        *)

(* The internal nodes addDecoderNode passes through for a symbol, and the  *)
(* bits of its code that are left at the last.                             *)
Depth(sym) == (CodeLength(sym) - 1) \div 8
Way(sym) == [d \in 1..Depth(sym) |-> HighByte(Code(sym), CodeLength(sym) - 8 * d)]
BitsLeft(sym) == CodeLength(sym) - 8 * Depth(sym)

Internal == UNION {{SubSeq(Way(sym), 1, d) : d \in 1..Depth(sym)} : sym \in 0..255}
Inside(way) == [kind |-> "internal", way |-> way, sym |-> 0, codeLen |-> 0]
Root == Inside(<<>>)
NullPtr == [kind |-> "null", way |-> <<>>, sym |-> 0, codeLen |-> 0]
Leaf(sym) == [kind |-> "leaf", way |-> <<>>, sym |-> sym, codeLen |-> BitsLeft(sym)]

(* The indices at which the last internal node has a leaf for the symbol.  *)
LeafIndices(sym) ==
    LET shift == 8 - BitsLeft(sym)
        start == LowByte(Code(sym), shift)
    IN start..(start + 2^shift - 1)

(* What buildRootHuffmanNode leaves at an index of an internal node. *)
ChildrenOf(way) ==
    LET Syms == {sym \in 0..255 : Way(sym) = way}
        At(i) == {sym \in Syms : i \in LeafIndices(sym)}
    IN [i \in 0..255 |->
          CASE At(i) # {} -> Leaf(CHOOSE sym \in At(i) : TRUE)
            [] At(i) = {} /\ Append(way, i) \in Internal -> Inside(Append(way, i))
            [] OTHER -> NullPtr]

Children == [way \in Internal \cup {<<>>} |-> ChildrenOf(way)]

-----------------------------------------------------------------------------
(* huffmanDecode.  Of the bit buffer "cur" the low 16 bits are kept: cbits *)
(* is at most 15.                                                          *)

DecodeStart == [n |-> Root, cur |-> 0, cbits |-> 0, sbits |-> 0, out |-> <<>>,
                done |-> FALSE, error |-> ""]

(* A leaf is reached: its symbol goes out. *)
Emit(d, leaf) ==
    [d EXCEPT !.out = Append(@, leaf.sym), !.cbits = @ - leaf.codeLen, !.n = Root,
              !.sbits = d.cbits - leaf.codeLen]

Fail(d, what) == [d EXCEPT !.done = TRUE, !.error = what]

(* A turn of the loop while (cbits >= 8); it takes at least one of at most *)
(* fifteen bits, so that eight turns are all there are.                    *)
Turns == <<1, 2, 3, 4, 5, 6, 7, 8>>

FeedTurn(d) ==
    LET child == Children[d.n.way][HighByte(d.cur, d.cbits - 8)]
    IN CASE d.done \/ d.cbits < 8 -> d
         [] ~d.done /\ d.cbits >= 8 ->
               CASE child.kind = "null" -> Fail(d, "ErrInvalidHuffman1")
                 [] child.kind = "leaf" -> Emit(d, child)
                 [] child.kind = "internal" -> [d EXCEPT !.n = child, !.cbits = @ - 8]

Feed(d) == FoldLeft(LAMBDA e, turn : FeedTurn(e), d, Turns)

DecodeByte(d, b) ==
    IF d.done THEN d
    ELSE Feed([d EXCEPT !.cur = (@ * 256 + b) % 2^16, !.cbits = @ + 8, !.sbits = @ + 8])

(* A turn of the loop while (cbits > 0), of at most seven bits. *)
FlushTurn(d) ==
    LET child == Children[d.n.way][LowByte(d.cur, 8 - d.cbits)]
    IN CASE d.done \/ d.cbits = 0 -> d
         [] ~d.done /\ d.cbits > 0 ->
               CASE child.kind = "null" -> Fail(d, "ErrInvalidHuffman2")
                 [] child.kind = "leaf" /\ child.codeLen <= d.cbits -> Emit(d, child)
                 [] OTHER -> d

Flush(d) == FoldLeft(LAMBDA e, turn : FlushTurn(e), d, Turns)

(* At most seven bits may be left, a prefix of EOS, which is all ones. *)
Finish(d) ==
    LET mask == 2^d.cbits - 1
    IN CASE d.done -> d
         [] ~d.done /\ d.sbits > 7 -> Fail(d, "ErrInvalidHuffman3")
         [] ~d.done /\ d.sbits <= 7 /\ d.cur % 2^d.cbits # mask -> Fail(d, "ErrInvalidHuffman4")
         [] OTHER -> [d EXCEPT !.done = TRUE]

Decoded(d) == IF d.error = "" THEN Ok(d.out, <<>>) ELSE Error(d.error)

(* The bytes v decode to.  Both passes of the code, to count and to write, *)
(* are this one: they agree where there is no error.                       *)
HuffmanDecode(v) == Decoded(Finish(Flush(FoldLeft(DecodeByte, DecodeStart, v))))

-----------------------------------------------------------------------------
HuffmanEncodeLength_Down(s) ==
    FoldLeft(LAMBDA n, c : n + CodeLength(c), 0, s) \div 8

HuffmanEncodeLength(s) ==
    (FoldLeft(LAMBDA n, c : n + CodeLength(c), 0, s) + 7) \div 8

(* encoded[last] |= t: the bits of t are zero there so far. *)
OrLast(encoded, t) == [encoded EXCEPT ![Len(encoded)] = @ + t]

(* appendByteToHuffmanCode: the last byte has room for rembits.  If they   *)
(* are not more than the code's they are used up, then a byte is added for *)
(* each eight bits of the code that are left, and one for the last few.    *)
AppendBits(e, code, nbits) ==
    LET left == nbits - e.rembits
        few == left % 8
    IN IF e.rembits > nbits
       THEN [encoded |-> OrLast(e.encoded, LowByte(code, e.rembits - nbits)),
             rembits |-> e.rembits - nbits]
       ELSE [encoded |-> OrLast(e.encoded, HighByte(code, left))
                           \o [j \in 1..(left \div 8) |-> HighByte(code, left - 8 * j)]
                           \o (IF few = 0 THEN <<>> ELSE <<LowByte(code, 8 - few)>>),
             rembits |-> 8 - few]

AppendByteToHuffmanCode(e, c) ==
    AppendBits(IF e.rembits = 8 THEN [e EXCEPT !.encoded = Append(@, 0)] ELSE e,
               Code(c), CodeLength(c))

HuffmanEncode_NoEOS(s) ==
    FoldLeft(AppendByteToHuffmanCode, [encoded |-> <<>>, rembits |-> 8], s).encoded

(* The last byte is filled up with the first bits of EOS, thirty ones. *)
HuffmanEncode(s) ==
    LET e == FoldLeft(AppendByteToHuffmanCode, [encoded |-> <<>>, rembits |-> 8], s)
        eos == 2^30 - 1
    IN IF e.rembits = 8 THEN e.encoded
       ELSE OrLast(e.encoded, HighByte(eos, 30 - e.rembits))
=============================================================================
