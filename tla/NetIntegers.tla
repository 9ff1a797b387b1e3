---------------------------- MODULE NetIntegers ----------------------------
(***************************************************************************)
(* utils/net.cpp: big-endian words, and the integers of HPACK, which start *)
(* in the low n bits of a byte.  A pointer and the length left of a buffer *)
(* are the sequence of bytes they delimit.                                 *)
(***************************************************************************)
EXTENDS Integers, SequencesExt

(* Result<T>: a value and the bytes after it, or an error. *)
Ok(value, rest) == [ok |-> TRUE, value |-> value, rest |-> rest]
Error(what) == [ok |-> FALSE, error |-> what]

(* What needs the result of the step before. *)
Then(result, Step(_, _)) == IF result.ok THEN Step(result.value, result.rest) ELSE result

-----------------------------------------------------------------------------
ReadUint32(buffer) ==
    buffer[1] * 2^24 + buffer[2] * 2^16 + buffer[3] * 2^8 + buffer[4]

WriteUint32(i) ==
    <<(i \div 2^24) % 2^8, (i \div 2^16) % 2^8, (i \div 2^8) % 2^8, i % 2^8>>

-----------------------------------------------------------------------------
(* The byte that ends a value of several bytes is the first without the    *)
(* top bit; nine with it are too many.                                     *)
LastBytes(rest) == {i \in 2..Len(rest) : rest[i] < 128}

ReadVarInt(n, rest) ==
    LET k == 2^n - 1
        last == CHOOSE i \in LastBytes(rest) : \A j \in LastBytes(rest) : i <= j
        Digit(i) == (rest[i] % 128) * 2^(7 * (i - 2))
    IN CASE n \notin 1..8 -> Error("bad n")
         [] n \in 1..8 /\ rest = <<>> -> Error("errNeedMore")
         [] n \in 1..8 /\ rest # <<>> ->
               CASE rest[1] % 2^n < k -> Ok(rest[1] % 2^n, Tail(rest))
                 [] rest[1] % 2^n = k /\ LastBytes(rest) \cap 2..10 = {} ->
                       Error(IF Len(rest) < 10 THEN "errNeedMore" ELSE "errVarintOverflow")
                 [] OTHER ->
                       Ok(FoldLeft(LAMBDA sum, digit : sum + digit, k,
                                   [j \in 1..(last - 1) |-> Digit(j + 1)]),
                          SubSeq(rest, last + 1, Len(rest)))

(* for (; i >= 128; i >>= 7) *)
Sevens[i \in Nat] ==
    IF i < 128 THEN <<i>> ELSE <<128 + (i % 128)>> \o Sevens[i \div 128]

WriteVarInt(n, i) ==
    IF i < 2^n - 1 THEN <<i>> ELSE <<2^n - 1>> \o Sevens[i - (2^n - 1)]

Shifts[i \in Nat] == IF i < 128 THEN 0 ELSE 1 + Shifts[i \div 128]

VarIntSize(n, i) == IF i < 2^n - 1 THEN 1 ELSE 2 + Shifts[i - (2^n - 1)]
=============================================================================
