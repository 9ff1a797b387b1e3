-------------------------------- MODULE Pb --------------------------------
(***************************************************************************)
(* nanopb's descriptors of message types, the C structures they describe   *)
(* and the iterator over the fields (examples/gen/pb.h, pb_common.c), for  *)
(* fields of static allocation, which are all the examples have.           *)
(*                                                                         *)
(* An integer of the C program is the sequence of its bits, the low one    *)
(* first: what overflows, is cut off or changes sign does so as in C.      *)
(***************************************************************************)
EXTENDS NetIntegers

CONSTANT Descriptor  \* the descriptor of each message type

-----------------------------------------------------------------------------
(* Bits.                                                                   *)

Word(v, n) ==
    [i \in 1..n |-> CASE i <= 31 -> (v \div 2^(i - 1)) % 2
                      [] i > 31 -> IF v < 0 THEN 1 ELSE 0]

(* An unsigned word as a number; from 2^31 on all are the same, too many. *)
Natural(w) ==
    LET From[i \in 1..32] == IF i > Len(w) \/ i = 32 THEN 0 ELSE w[i] + 2 * From[i + 1]
    IN IF \E i \in 32..Len(w) : w[i] = 1 THEN 2147483647 ELSE From[1]

(* Casts to n bits: of an unsigned type, of a signed type. *)
Unsigned(w, n) == [i \in 1..n |-> IF i <= Len(w) THEN w[i] ELSE 0]
Signed(w, n) == [i \in 1..n |-> IF i <= Len(w) THEN w[i] ELSE w[Len(w)]]

Not(w) == [i \in DOMAIN w |-> 1 - w[i]]

(* The low n bits of each of the bytes, the first byte lowest. *)
Pieces(bytes, n) ==
    [i \in 1..(n * Len(bytes)) |->
        (bytes[((i - 1) \div n) + 1] \div 2^((i - 1) % n)) % 2]

(* The word cut into k bytes of n bits. *)
Cut(w, n, k) ==
    [j \in 1..k |-> Natural(Unsigned(SubSeq(w, n * (j - 1) + 1, Len(w)), n))]

-----------------------------------------------------------------------------
(* A field of a message type.  The members of a oneof have one place in    *)
(* the structure; "counted" fields have a has_, which_ or count there too. *)
Field(tag, ltype, htype, data_size) ==
    [tag |-> tag, ltype |-> ltype, htype |-> htype, data_size |-> data_size,
     array_size |-> 1, counted |-> htype = "ONEOF", place |-> tag, submsg |-> ""]

Fields(type) == Descriptor[type].fields

(* PB_LTYPE up to LAST_PACKABLE. *)
Varints == {"BOOL", "VARINT", "UVARINT", "SVARINT"}
Packable == Varints \cup {"FIXED32", "FIXED64"}

Descriptors ==
    {field \in [tag : Nat,
                ltype : Packable \cup {"BYTES", "STRING", "SUBMESSAGE", "FIXED_LENGTH_BYTES"},
                htype : {"REQUIRED", "OPTIONAL", "REPEATED", "ONEOF"},
                data_size : Nat, array_size : Nat, counted : BOOLEAN, place : Nat,
                submsg : STRING] :
        /\ field.ltype \in Varints => field.data_size \in {1, 2, 4, 8}
        /\ field.ltype = "FIXED32" => field.data_size = 4
        /\ field.ltype = "FIXED64" => field.data_size = 8}

(* What pb.h asks of the descriptors; and a structure of the C program     *)
(* cannot be a part of itself.                                             *)
ASSUME DescriptorAssumption ==
    /\ IsFiniteSet(DOMAIN Descriptor)
    /\ \A type \in DOMAIN Descriptor : Fields(type) \in Seq(Descriptors)
    /\ \E depth \in [DOMAIN Descriptor -> 0..Cardinality(DOMAIN Descriptor)] :
         \A type \in DOMAIN Descriptor : \A i \in DOMAIN Fields(type) :
            Fields(type)[i].ltype = "SUBMESSAGE" =>
                /\ Fields(type)[i].submsg \in DOMAIN Descriptor
                /\ depth[Fields(type)[i].submsg] < depth[type]

PB_WT_VARINT == 0
PB_WT_64BIT == 1
PB_WT_STRING == 2
PB_WT_32BIT == 5
PB_WT_PACKED == 255
PB_SIZE_MAX == 65535
PB_MAX_REQUIRED_FIELDS == 64

WireType(ltype) ==
    CASE ltype \in Varints -> PB_WT_VARINT
      [] ltype = "FIXED32" -> PB_WT_32BIT
      [] ltype = "FIXED64" -> PB_WT_64BIT
      [] OTHER -> PB_WT_STRING

(* pSize: a word of the structure, the array_size of the iterator, NULL. *)
SizeOf(field) ==
    CASE field.counted -> "struct"
      [] ~field.counted /\ field.htype = "REPEATED" -> "array_size"
      [] OTHER -> "null"

(* sizeof(pb_bytes_array_t) before its bytes. *)
BytesOffset == 2

(* A structure: what is at each place, and the has_, which_ or count.      *)
Places(type) == {Fields(type)[i].place : i \in DOMAIN Fields(type)}

At(type, place) ==
    LET first == CHOOSE i \in DOMAIN Fields(type) : Fields(type)[i].place = place
    IN Fields(type)[first]

(* What memset leaves.  A bytes array is the bytes in use. *)
Cleared(field, zeros) ==
    CASE field.ltype \in Packable -> Word(0, 8 * field.data_size)
      [] field.ltype = "BYTES" -> <<>>
      [] field.ltype = "SUBMESSAGE" -> zeros[field.submsg]
      [] OTHER -> [i \in 1..field.data_size |-> 0]

(* The members of a oneof are a union, which holds a value of one of them. *)
InUnion(field, value) == IF field.htype = "ONEOF" THEN [t \in {field.tag} |-> value] ELSE value
OfUnion(field, data) == IF field.htype = "ONEOF" THEN data[field.tag] ELSE data

Zeros[type \in DOMAIN Descriptor] ==
    LET ZeroData(field) ==
            IF field.htype = "REPEATED" THEN [i \in 1..field.array_size |-> Cleared(field, Zeros)]
            ELSE InUnion(field, Cleared(field, Zeros))
    IN [data |-> [p \in Places(type) |-> ZeroData(At(type, p))],
        size |-> [p \in Places(type) |-> 0]]

Zero(field) == Cleared(field, Zeros)

-----------------------------------------------------------------------------
(* The iterator: the index of a field.                                     *)

(* required_field_index, counted by advance_iterator. *)
RequiredBefore(type, index) ==
    Cardinality({i \in 1..(index - 1) : Fields(type)[i].htype = "REQUIRED"})

LargestTag(type) == LET fields == Fields(type) IN fields[Len(fields)].tag

(* The fields pb_field_iter_find looks at, from the one after "start" to   *)
(* "start": for a smaller tag it restarts from the first.                  *)
Searched(type, start, tag) ==
    LET n == Len(Fields(type))
        first == IF tag < Fields(type)[start].tag THEN 1 ELSE (start % n) + 1
        count == ((start - first) % n) + 1
    IN [k \in 1..count |-> ((first + k - 2) % n) + 1]

(* The index of the field with the tag, 0 if there is none. *)
PbFieldIterFind(type, start, tag) ==
    LET found == SelectSeq(Searched(type, start, tag), LAMBDA i : Fields(type)[i].tag = tag)
    IN CASE Fields(type)[start].tag = tag -> start
         [] Fields(type)[start].tag # tag /\ (tag > LargestTag(type) \/ found = <<>>) -> 0
         [] OTHER -> found[1]
=============================================================================
