------------------------- MODULE HeaderBlocksProofs -------------------------
(***************************************************************************)
(* The server's header blocks fit the buffer encodeHeaderFields allocates  *)
(* for them, and are those of RFC 7541.  On the way: what the Huffman      *)
(* encoder writes, byte by byte, is the codes of the bytes one after the   *)
(* other, the Huffman decoder finds the string again in them, and what     *)
(* writeVarInt writes is the RFC's integers.                               *)
(***************************************************************************)
EXTENDS HeaderBlocks, TLAPS

-----------------------------------------------------------------------------
(* Sums, and with the laws of folds those of the numbers they rest on.     *)

Plus(sum, digit) == sum + digit
Adding == INSTANCE FoldLaws WITH V <- Nat, B <- Nat, op <- Plus

-----------------------------------------------------------------------------
(* Powers of two, as far as the codes need them.                           *)

Powers == <<
    1, 2, 4, 8, 16, 32, 64, 128, 256, 512, 1024, 2048, 4096, 8192, 16384,
    32768, 65536, 131072, 262144, 524288, 1048576, 2097152, 4194304,
    8388608, 16777216, 33554432, 67108864, 134217728, 268435456, 536870912,
    1073741824>>

(* The powers are the table's, and so *)
LEMMA PowersTable ==
    \A n \in 0..30 : 2^n = Powers[n + 1]
  <1>1. /\ 2^0 = Powers[0 + 1] /\ 2^1 = Powers[1 + 1] /\ 2^2 = Powers[2 + 1]
        /\ 2^3 = Powers[3 + 1] /\ 2^4 = Powers[4 + 1] /\ 2^5 = Powers[5 + 1]
        /\ 2^6 = Powers[6 + 1] /\ 2^7 = Powers[7 + 1] /\ 2^8 = Powers[8 + 1]
        /\ 2^9 = Powers[9 + 1] /\ 2^10 = Powers[10 + 1] /\ 2^11 = Powers[11 + 1]
        /\ 2^12 = Powers[12 + 1] /\ 2^13 = Powers[13 + 1] /\ 2^14 = Powers[14 + 1]
        /\ 2^15 = Powers[15 + 1] /\ 2^16 = Powers[16 + 1] /\ 2^17 = Powers[17 + 1]
        /\ 2^18 = Powers[18 + 1] /\ 2^19 = Powers[19 + 1] /\ 2^20 = Powers[20 + 1]
        /\ 2^21 = Powers[21 + 1] /\ 2^22 = Powers[22 + 1] /\ 2^23 = Powers[23 + 1]
        /\ 2^24 = Powers[24 + 1] /\ 2^25 = Powers[25 + 1] /\ 2^26 = Powers[26 + 1]
        /\ 2^27 = Powers[27 + 1] /\ 2^28 = Powers[28 + 1] /\ 2^29 = Powers[29 + 1]
        /\ 2^30 = Powers[30 + 1]
    BY DEF Powers
  <1>2. ASSUME NEW n \in 0..30 PROVE 2^n = Powers[n + 1]
    <2>1. \/ n = 0 \/ n = 1 \/ n = 2 \/ n = 3 \/ n = 4 \/ n = 5 \/ n = 6 \/ n = 7
          \/ n = 8 \/ n = 9 \/ n = 10 \/ n = 11 \/ n = 12 \/ n = 13 \/ n = 14 \/ n = 15
          \/ n = 16 \/ n = 17 \/ n = 18 \/ n = 19 \/ n = 20 \/ n = 21 \/ n = 22
          \/ n = 23 \/ n = 24 \/ n = 25 \/ n = 26 \/ n = 27 \/ n = 28 \/ n = 29 \/ n = 30
      OBVIOUS
    <2> QED
      BY <1>1, <2>1, Zenon
  <1> QED
    BY <1>2

(* each is twice the one before. *)
LEMMA Doubling ==
    /\ 2^0 = 1
    /\ \A n \in 0..30 : 2^n \in Nat \ {0}
    /\ \A n \in 0..29 : 2^(n + 1) = 2 * 2^n
  <1>1. ASSUME NEW n \in 0..30 PROVE 2^n \in Nat \ {0}
    <2>1. \A i \in 1..31 : Powers[i] \in Nat \ {0}
      BY DEF Powers
    <2>2. n + 1 \in 1..31
      OBVIOUS
    <2> QED
      BY <2>1, <2>2, PowersTable
  <1>2. ASSUME NEW n \in 0..29 PROVE 2^(n + 1) = 2 * 2^n
    <2>1. n \in 0..30 /\ n + 1 \in 0..30
      OBVIOUS
    <2>2. 2^n = Powers[n + 1] /\ 2^(n + 1) = Powers[(n + 1) + 1]
      BY <2>1, PowersTable
    <2>3. \A i \in 1..30 : Powers[i + 1] = 2 * Powers[i]
      BY DEF Powers
    <2>4. n + 1 \in 1..30
      OBVIOUS
    <2> QED
      BY <2>2, <2>3, <2>4
  <1> QED
    BY <1>1, <1>2

(* The product of two powers. *)
LEMMA PowerProduct ==
    ASSUME NEW a \in 0..30, NEW b \in 0..30, a + b <= 30
    PROVE  2^(a + b) = 2^a * 2^b
  <1> DEFINE S == {i \in Nat : a + i <= 30 => 2^(a + i) = 2^a * 2^i}
  <1>1. 0 \in S
    BY Doubling
  <1>2. ASSUME NEW i \in Nat, i \in S PROVE i + 1 \in S
    <2> SUFFICES ASSUME a + (i + 1) <= 30 PROVE 2^(a + (i + 1)) = 2^a * 2^(i + 1)
      OBVIOUS
    <2>1. a + i \in 0..29 /\ i \in 0..29 /\ (a + i) + 1 = a + (i + 1)
      OBVIOUS
    <2>2. 2^(a + i) = 2^a * 2^i
      BY <1>2, <2>1
    <2>3. 2^((a + i) + 1) = 2 * 2^(a + i) /\ 2^(i + 1) = 2 * 2^i
      BY <2>1, Doubling
    <2>4. 2^a \in Int /\ 2^i \in Int
      BY <2>1, Doubling
    <2>5. \A x, y \in Int : 2 * (x * y) = x * (2 * y)
      OBVIOUS
    <2> QED
      BY <2>1, <2>2, <2>3, <2>4, <2>5
  <1> HIDE DEF S
  <1>3. b \in S
    BY <1>1, <1>2, Adding!NatSetInduction
  <1> QED
    BY <1>3 DEF S

-----------------------------------------------------------------------------
(* The tables.                                                             *)

(* Every code has 5 to 30 bits. *)
LEMMA CodeLengths ==
    \A c \in Bytes : CodeLength(c) \in 5..30
  BY DEF Bytes, CodeLength, Lengths

(* Each code fits in the bits Lengths gives it. *)
LEMMA CodesFit ==
    \A c \in Bytes : Code(c) \in Nat /\ Code(c) < 2^CodeLength(c)
  <1>1. \A i \in 1..128 : LowCodes[i] \in Nat /\ LowCodes[i] < Powers[Lengths[i] + 1]
    BY DEF LowCodes, Lengths, Powers
  <1>2. \A i \in 129..256 : /\ HighCodes[i - 128] \in Nat
                            /\ HighCodes[i - 128] < Powers[Lengths[i] + 1]
    BY DEF HighCodes, Lengths, Powers
  <1>3. ASSUME NEW c \in Bytes PROVE Code(c) \in Nat /\ Code(c) < 2^CodeLength(c)
    <2>1. c + 1 \in 1..256 /\ (c < 128 => c + 1 \in 1..128) /\ (c >= 128 => c + 1 \in 129..256)
          /\ c - 127 = (c + 1) - 128
      BY DEF Bytes
    <2>2. Lengths[c + 1] \in 0..30
      BY CodeLengths DEF CodeLength
    <2>3. 2^CodeLength(c) = Powers[Lengths[c + 1] + 1]
      BY <2>2, PowersTable DEF CodeLength
    <2>4. CASE c < 128
      BY <1>1, <2>1, <2>3, <2>4 DEF Code
    <2>5. CASE c >= 128
      BY <1>2, <2>1, <2>3, <2>5 DEF Code, Bytes
    <2> QED
      BY <2>4, <2>5 DEF Bytes
  <1> QED
    BY <1>3

-----------------------------------------------------------------------------
(* The integers.                                                           *)

(* An integer of several bytes ends in groups of seven bits, *)
LEMMA SevensStep ==
    \A i \in Nat :
      /\ Sevens[i] \in Seq(Nat)
      /\ i < 128 => Sevens[i] = <<i>>
      /\ i >= 128 => Sevens[i] = <<128 + (i % 128)>> \o Sevens[i \div 128]
  <1> DEFINE V == Seq(Nat)
             D == [i \in Nat |-> i \div 128]
             A == [i \in Nat |-> <<i>>]
             G == [i \in Nat |-> [s \in V |-> <<128 + (i % 128)>> \o s]]
             Fixed(f) == f = [i \in Nat |-> IF i < 128 THEN <<i>>
                                            ELSE <<128 + (i % 128)>> \o f[i \div 128]]
  <1>1. D \in [Nat -> Nat] /\ \A i \in Nat : 128 <= i => D[i] < i
    OBVIOUS
  <1>2. A \in [Nat -> V]
    OBVIOUS
  <1>3. G \in [Nat -> [V -> V]]
    <2>1. \A i \in Nat : 128 + (i % 128) \in Nat
      OBVIOUS
    <2>2. \A j \in Nat, s \in V : <<j>> \o s \in V
      OBVIOUS
    <2> QED
      BY <2>1, <2>2
  <1>4. PICK f : Adding!IsRecursive(V, 128, D, A, G, f)
    <2>1. 128 \in Nat \ {0} /\ Adding!Shrinks(128, D)
      BY <1>1 DEF Adding!Shrinks
    <2> HIDE DEF V, D, A, G
    <2> QED
      BY <1>2, <1>3, <2>1, Adding!RecursiveFunction
  <1>5. Fixed(f)
    <2>1. \A i \in Nat : i \div 128 \in Nat
      OBVIOUS
    <2>2. \A i \in Nat : i >= 128 => f[i] = <<128 + (i % 128)>> \o f[i \div 128]
      BY <1>4, <2>1, ZenonT(60) DEF Adding!IsRecursive
    <2>3. \A i \in Nat : i < 128 => f[i] = <<i>>
      BY <1>4 DEF Adding!IsRecursive
    <2>4. ASSUME NEW i \in Nat
          PROVE  f[i] = IF i < 128 THEN <<i>> ELSE <<128 + (i % 128)>> \o f[i \div 128]
      <3>1. i < 128 \/ (i >= 128 /\ ~(i < 128))
        OBVIOUS
      <3> QED
        BY <2>2, <2>3, <3>1, Zenon
    <2>5. f \in [Nat -> V]
      BY <1>4 DEF Adding!IsRecursive
    <2> QED
      BY <2>4, <2>5, Zenon
  <1>6. Fixed(Sevens)
    BY <1>5, ZenonT(60) DEF Sevens
  <1>7. \A i \in Nat :
          /\ i < 128 => Sevens[i] = <<i>>
          /\ i >= 128 => Sevens[i] = <<128 + (i % 128)>> \o Sevens[i \div 128]
    <2>1. \A i \in Nat : Sevens[i] = IF i < 128 THEN <<i>>
                                    ELSE <<128 + (i % 128)>> \o Sevens[i \div 128]
      BY <1>6
    <2>2. \A i \in Nat : i >= 128 => ~(i < 128)
      OBVIOUS
    <2> QED
      BY <2>1, <2>2, ZenonT(60)
  <1> DEFINE S == {i \in Nat : Sevens[i] \in V}
  <1>8. ASSUME NEW i \in Nat, \A j \in 0..(i - 1) : j \in S PROVE i \in S
    <2>1. CASE i < 128
      <3>1. <<i>> \in V
        OBVIOUS
      <3> QED
        BY <1>7, <2>1, <3>1
    <2>2. CASE i >= 128
      <3>1. i \div 128 \in 0..(i - 1) /\ 128 + (i % 128) \in Nat
        BY <2>2
      <3>2. Sevens[i \div 128] \in V
        BY <1>8, <3>1
      <3>3. \A j \in Nat, s \in V : <<j>> \o s \in V
        OBVIOUS
      <3>4. <<128 + (i % 128)>> \o Sevens[i \div 128] \in V
        BY <3>1, <3>2, <3>3
      <3> QED
        BY <1>7, <2>2, <3>4
    <2> QED
      BY <2>1, <2>2
  <1> HIDE DEF S
  <1>9. \A i \in Nat : i \in S
    BY <1>8, Adding!NatSetStrongInduction
  <1> QED
    BY <1>7, <1>9 DEF S

(* which varIntSize counts. *)
LEMMA ShiftsStep ==
    \A i \in Nat :
      /\ Shifts[i] \in Nat
      /\ i < 128 => Shifts[i] = 0
      /\ i >= 128 => Shifts[i] = 1 + Shifts[i \div 128]
  <1> DEFINE D == [i \in Nat |-> i \div 128]
             A == [i \in Nat |-> 0]
             G == [i \in Nat |-> [n \in Nat |-> 1 + n]]
             Fixed(f) == f = [i \in Nat |-> IF i < 128 THEN 0 ELSE 1 + f[i \div 128]]
  <1>1. D \in [Nat -> Nat] /\ \A i \in Nat : 128 <= i => D[i] < i
    OBVIOUS
  <1>2. A \in [Nat -> Nat] /\ G \in [Nat -> [Nat -> Nat]]
    OBVIOUS
  <1>3. PICK f : Adding!IsRecursive(Nat, 128, D, A, G, f)
    <2>1. 128 \in Nat \ {0} /\ Adding!Shrinks(128, D)
      BY <1>1 DEF Adding!Shrinks
    <2> HIDE DEF D, A, G
    <2> QED
      BY <1>2, <2>1, Adding!RecursiveFunction
  <1>4. Fixed(f)
    <2>1. \A i \in Nat : i \div 128 \in Nat
      OBVIOUS
    <2>2. \A i \in Nat : i >= 128 => f[i] = 1 + f[i \div 128]
      BY <1>3, <2>1 DEF Adding!IsRecursive
    <2>3. \A i \in Nat : i < 128 => f[i] = 0
      BY <1>3 DEF Adding!IsRecursive
    <2> QED
      BY <1>3, <2>2, <2>3 DEF Adding!IsRecursive
  <1>5. Fixed(Shifts)
    BY <1>4 DEF Shifts
  <1>6. \A i \in Nat :
          /\ i < 128 => Shifts[i] = 0
          /\ i >= 128 => Shifts[i] = 1 + Shifts[i \div 128]
    BY <1>5
  <1> DEFINE S == {i \in Nat : Shifts[i] \in Nat}
  <1>7. ASSUME NEW i \in Nat, \A j \in 0..(i - 1) : j \in S PROVE i \in S
    <2>1. CASE i < 128
      BY <1>6, <2>1
    <2>2. CASE i >= 128
      <3>1. i \div 128 \in 0..(i - 1)
        BY <2>2
      <3>2. Shifts[i \div 128] \in Nat
        BY <1>7, <3>1
      <3> QED
        BY <1>6, <2>2, <3>2
    <2> QED
      BY <2>1, <2>2
  <1> HIDE DEF S
  <1>8. \A i \in Nat : i \in S
    BY <1>7, Adding!NatSetStrongInduction
  <1> QED
    BY <1>6, <1>8 DEF S

(* There are as many bytes as the loop of varIntSize counts. *)
LEMMA SevensSize ==
    \A i \in Nat : Len(Sevens[i]) = 1 + Shifts[i]
  <1> DEFINE S == {i \in Nat : Len(Sevens[i]) = 1 + Shifts[i]}
  <1>1. ASSUME NEW i \in Nat, \A j \in 0..(i - 1) : j \in S PROVE i \in S
    <2>1. CASE i < 128
      <3>1. Sevens[i] = <<i>> /\ Shifts[i] = 0
        BY <2>1, SevensStep, ShiftsStep
      <3>2. Len(<<i>>) = 1 + 0
        OBVIOUS
      <3> QED
        BY <3>1, <3>2
    <2>2. CASE i >= 128
      <3>1. i \div 128 \in 0..(i - 1) /\ 128 + (i % 128) \in Nat /\ i \div 128 \in Nat
        BY <2>2
      <3>2. Len(Sevens[i \div 128]) = 1 + Shifts[i \div 128] /\ Shifts[i \div 128] \in Nat
            /\ Sevens[i \div 128] \in Seq(Nat)
        BY <1>1, <3>1, SevensStep, ShiftsStep, ZenonT(60)
      <3>3. /\ Sevens[i] = <<128 + (i % 128)>> \o Sevens[i \div 128]
            /\ Shifts[i] = 1 + Shifts[i \div 128]
        BY <2>2, SevensStep, ShiftsStep
      <3>4. \A j \in Nat, s \in Seq(Nat) : Len(<<j>> \o s) = 1 + Len(s)
        OBVIOUS
      <3>5. Len(Sevens[i]) = 1 + Len(Sevens[i \div 128])
        BY <3>1, <3>2, <3>3, <3>4
      <3> QED
        BY <3>2, <3>3, <3>5, SMTT(60)
    <2> QED
      BY <2>1, <2>2
  <1> HIDE DEF S
  <1>2. \A i \in Nat : i \in S
    BY <1>1, Adding!NatSetStrongInduction
  <1> QED
    BY <1>2 DEF S

(* varIntSize is the number of bytes writeVarInt writes. *)
LEMMA VarIntSizes ==
    ASSUME NEW n \in 1..8, NEW i \in Nat
    PROVE  /\ WriteVarInt(n, i) \in Seq(Nat)
           /\ WriteVarInt(n, i) # <<>>
           /\ Len(WriteVarInt(n, i)) = VarIntSize(n, i)
  <1> DEFINE k == 2^n - 1
  <1>1. k \in Nat
    <2>1. n \in 0..30
      OBVIOUS
    <2>2. 2^n \in Nat \ {0}
      BY <2>1, Doubling
    <2> QED
      BY <2>2
  <1> HIDE DEF k
  <1>2. CASE i < k
    <2>1. WriteVarInt(n, i) = <<i>> /\ VarIntSize(n, i) = 1
      BY <1>2 DEF WriteVarInt, VarIntSize, k
    <2> QED
      BY <2>1
  <1>3. CASE i >= k
    <2>1. i - k \in Nat /\ ~(i < k)
      BY <1>1, <1>3
    <2>2. WriteVarInt(n, i) = <<k>> \o Sevens[i - k] /\ VarIntSize(n, i) = 2 + Shifts[i - k]
      BY <2>1 DEF WriteVarInt, VarIntSize, k
    <2>3. /\ Sevens[i - k] \in Seq(Nat)
          /\ Len(Sevens[i - k]) = 1 + Shifts[i - k] /\ Shifts[i - k] \in Nat
      BY <2>1, SevensStep, SevensSize, ShiftsStep
    <2>4. \A j \in Nat, s \in Seq(Nat) : <<j>> \o s \in Seq(Nat) /\ Len(<<j>> \o s) = 1 + Len(s)
      OBVIOUS
    <2>5. WriteVarInt(n, i) \in Seq(Nat) /\ Len(WriteVarInt(n, i)) = 1 + Len(Sevens[i - k])
      BY <1>1, <2>2, <2>3, <2>4
    <2>6. Len(WriteVarInt(n, i)) = VarIntSize(n, i) /\ Len(WriteVarInt(n, i)) # 0
      BY <2>2, <2>3, <2>5
    <2> QED
      BY <2>5, <2>6
  <1> QED
    BY <1>1, <1>2, <1>3

-----------------------------------------------------------------------------
(* Sequences.                                                              *)

(* Induction from the empty sequence, one element at the end at a time.    *)
LEMMA SeqInduction ==
    ASSUME NEW B, NEW S, <<>> \in S,
           \A s \in Seq(B), b \in B : s \in S => Append(s, b) \in S
    PROVE  \A s \in Seq(B) : s \in S
  <1> DEFINE T == {n \in Nat : \A s \in Seq(B) : Len(s) = n => s \in S}
  <1>1. 0 \in T
    <2>1. \A s \in Seq(B) : Len(s) = 0 => s = <<>>
      OBVIOUS
    <2> QED
      BY <2>1
  <1>2. ASSUME NEW n \in Nat, n \in T PROVE n + 1 \in T
    <2> SUFFICES ASSUME NEW s \in Seq(B), Len(s) = n + 1 PROVE s \in S
      OBVIOUS
    <2> DEFINE front == SubSeq(s, 1, n)
    <2>1. front \in Seq(B) /\ Len(front) = n /\ s[n + 1] \in B /\ s = Append(front, s[n + 1])
      OBVIOUS
    <2>2. front \in S
      BY <1>2, <2>1
    <2> HIDE DEF front
    <2>3. Append(front, s[n + 1]) \in S
      BY <2>1, <2>2
    <2> QED
      BY <2>1, <2>3
  <1> HIDE DEF T
  <1>3. \A n \in Nat : n \in T
    BY <1>1, <1>2, Adding!NatSetInduction
  <1>4. ASSUME NEW s \in Seq(B) PROVE s \in S
    <2>1. Len(s) \in Nat /\ Len(s) \in T
      BY <1>3
    <2> QED
      BY <2>1 DEF T
  <1> QED
    BY <1>4

(* FlattenSeq asks a function of the position for the sequences up to it. *)
IsFlattening(f, ss) ==
    /\ f = [i \in 1..Len(ss) |-> IF i = 1 THEN ss[i] ELSE f[i - 1] \o ss[i]]

(* There is such a function: it is defined by recursion on the position. *)
LEMMA FlatteningExists ==
    ASSUME NEW B, NEW ss \in Seq(Seq(B)), ss # <<>>
    PROVE  \E f : IsFlattening(f, ss)
  <1> DEFINE V == Seq(B)
             n == Len(ss)
             D == [i \in Nat |-> IF i = 0 THEN 0 ELSE i - 1]
             A == [i \in Nat |-> ss[1]]
             G == [i \in Nat |-> [v \in V |-> IF i \in 1..n THEN v \o ss[i] ELSE v]]
  <1>1. n \in Nat /\ n >= 1 /\ \A i \in 1..n : ss[i] \in V
    OBVIOUS
  <1>2. Adding!Shrinks(2, D)
    BY DEF Adding!Shrinks
  <1>3. A \in [Nat -> V]
    BY <1>1
  <1>4. G \in [Nat -> [V -> V]]
    <2>1. \A i \in Nat, v \in V : (IF i \in 1..n THEN v \o ss[i] ELSE v) \in V
      BY <1>1
    <2> QED
      BY <2>1, Zenon
  <1>5. PICK g : Adding!IsRecursive(V, 2, D, A, G, g)
    <2>1. 2 \in Nat \ {0}
      OBVIOUS
    <2> HIDE DEF V, D, A, G
    <2> QED
      BY <1>2, <1>3, <1>4, <2>1, Adding!RecursiveFunction
  <1> DEFINE f == [i \in 1..n |-> g[i]]
  <1>6. ASSUME NEW i \in 1..n
        PROVE  f[i] = IF i = 1 THEN ss[i] ELSE f[i - 1] \o ss[i]
    <2>1. CASE i = 1
      <3>1. g[1] = A[1] /\ A[1] = ss[1]
        BY <1>5 DEF Adding!IsRecursive
      <3> QED
        BY <1>1, <2>1, <3>1
    <2>2. CASE i # 1
      <3>1. i \in Nat /\ 2 <= i /\ i - 1 \in 1..n /\ D[i] = i - 1
        BY <2>2
      <3>2. g[i] = G[i][g[i - 1]] /\ g[i - 1] \in V
        <4>1. i - 1 \in Nat
          BY <3>1
        <4> HIDE DEF V, D, A, G
        <4> QED
          BY <1>5, <3>1, <4>1 DEF Adding!IsRecursive
      <3>3. g[i] = g[i - 1] \o ss[i]
        BY <3>1, <3>2
      <3> QED
        BY <2>2, <3>1, <3>3
    <2> QED
      BY <2>1, <2>2
  <1>7. IsFlattening(f, ss)
    <2> HIDE DEF n
    <2> DEFINE h == [i \in 1..n |-> IF i = 1 THEN ss[i] ELSE f[i - 1] \o ss[i]]
    <2>1. \A i \in 1..n : f[i] = h[i]
      BY <1>6
    <2>2. f = h
      <3> HIDE DEF h
      <3>1. h = [i \in 1..n |-> h[i]]
        BY DEF h
      <3> QED
        BY <2>1, <3>1
    <2> QED
      BY <2>2 DEF IsFlattening, n
  <1> QED
    BY <1>7

(* What the function of a sequence is. *)
LEMMA FlattenValue ==
    ASSUME NEW B, NEW ss \in Seq(Seq(B)), ss # <<>>
    PROVE  \E f : /\ f[1] = ss[1]
                  /\ \A i \in 2..Len(ss) : f[i] = f[i - 1] \o ss[i]
                  /\ FlattenSeq(ss) = f[Len(ss)]
  <1> DEFINE flatten == CHOOSE f : IsFlattening(f, ss)
  <1>1. IsFlattening(flatten, ss)
    BY FlatteningExists
  <1>2. FlattenSeq(ss) = flatten[Len(ss)]
    <2>1. Len(ss) # 0
      OBVIOUS
    <2> QED
      BY <2>1 DEF FlattenSeq, IsFlattening
  <1> HIDE DEF flatten
  <1>3. Len(ss) \in Nat /\ Len(ss) >= 1
    OBVIOUS
  <1>4. \A i \in 1..Len(ss) : flatten[i] = IF i = 1 THEN ss[i] ELSE flatten[i - 1] \o ss[i]
    BY <1>1 DEF IsFlattening
  <1>5. flatten[1] = ss[1]
    BY <1>3, <1>4
  <1>6. ASSUME NEW i \in 2..Len(ss) PROVE flatten[i] = flatten[i - 1] \o ss[i]
    <2>1. i \in 1..Len(ss) /\ i # 1
      OBVIOUS
    <2> QED
      BY <1>4, <2>1
  <1> QED
    BY <1>2, <1>5, <1>6

(* The sequences one after the other: one more sequence comes at the end.  *)
LEMMA FlattenAppend ==
    ASSUME NEW B, NEW ss \in Seq(Seq(B)), NEW s \in Seq(B)
    PROVE  FlattenSeq(Append(ss, s)) = FlattenSeq(ss) \o s
  <1> DEFINE longer == Append(ss, s)
             n == Len(ss)
  <1>1. /\ longer \in Seq(Seq(B)) /\ longer # <<>> /\ Len(longer) = n + 1 /\ n \in Nat
        /\ longer[n + 1] = s /\ \A i \in 1..n : longer[i] = ss[i]
    <2> DEFINE T == Seq(B)
    <2>1. ss \in Seq(T) /\ s \in T
      OBVIOUS
    <2> HIDE DEF T
    <2>2. /\ longer \in Seq(T) /\ longer # <<>> /\ Len(longer) = n + 1 /\ n \in Nat
          /\ longer[n + 1] = s /\ \A i \in 1..n : longer[i] = ss[i]
      BY <2>1
    <2> QED
      BY <2>2 DEF T
  <1> HIDE DEF longer
  <1>2. PICK g : /\ g[1] = longer[1]
                 /\ \A i \in 2..Len(longer) : g[i] = g[i - 1] \o longer[i]
                 /\ FlattenSeq(longer) = g[Len(longer)]
    BY <1>1, FlattenValue
  <1>3. CASE ss = <<>>
    <2>1. n = 0 /\ FlattenSeq(ss) = <<>>
      BY <1>3 DEF FlattenSeq
    <2>2. FlattenSeq(longer) = s
      BY <1>1, <1>2, <2>1
    <2> QED
      BY <2>1, <2>2 DEF longer
  <1>4. CASE ss # <<>>
    <2>1. PICK f : /\ f[1] = ss[1]
                   /\ \A i \in 2..n : f[i] = f[i - 1] \o ss[i]
                   /\ FlattenSeq(ss) = f[n]
      BY <1>4, FlattenValue
    <2>2. n >= 1
      BY <1>4
    <2> DEFINE S == {i \in Nat : i + 1 <= n => f[i + 1] = g[i + 1]}
    <2>3. 0 \in S
      BY <1>1, <1>2, <2>1
    <2>4. ASSUME NEW i \in Nat, i \in S PROVE i + 1 \in S
      <3> SUFFICES ASSUME (i + 1) + 1 <= n PROVE f[(i + 1) + 1] = g[(i + 1) + 1]
        OBVIOUS
      <3> DEFINE j == (i + 1) + 1
      <3>1. j \in 2..n /\ j \in 2..Len(longer) /\ j - 1 = i + 1 /\ j \in 1..n
        BY <1>1
      <3>2. f[i + 1] = g[i + 1]
        BY <1>1, <2>4, <3>1
      <3> HIDE DEF j
      <3>3. f[j] = f[j - 1] \o ss[j] /\ g[j] = g[j - 1] \o longer[j] /\ longer[j] = ss[j]
        BY <1>1, <1>2, <2>1, <3>1
      <3>4. f[j] = g[j]
        BY <3>1, <3>2, <3>3
      <3> QED
        BY <3>4 DEF j
    <2> HIDE DEF S
    <2>5. \A i \in Nat : i \in S
      BY <2>3, <2>4, Adding!NatSetInduction
    <2>6. f[n] = g[n]
      <3>1. n - 1 \in Nat /\ n - 1 \in S /\ (n - 1) + 1 = n
        BY <1>1, <2>2, <2>5
      <3> QED
        BY <1>1, <3>1 DEF S
    <2>7. n + 1 \in 2..Len(longer) /\ (n + 1) - 1 = n
      BY <1>1, <2>2
    <2>8. g[n + 1] = g[n] \o s
      BY <1>1, <1>2, <2>7
    <2> QED
      BY <1>1, <1>2, <2>1, <2>6, <2>8 DEF longer
  <1> QED
    BY <1>3, <1>4

(* The elements of the whole are those of the parts. *)
LEMMA FlattenType ==
    ASSUME NEW B
    PROVE  FlattenSeq(<<>>) = <<>> /\ \A ss \in Seq(Seq(B)) : FlattenSeq(ss) \in Seq(B)
  <1> DEFINE T == Seq(B)
             S == {ss \in Seq(T) : FlattenSeq(ss) \in T}
  <1>1. FlattenSeq(<<>>) = <<>> /\ <<>> \in T
    BY DEF FlattenSeq
  <1>2. \A ss \in Seq(T), s \in T : FlattenSeq(Append(ss, s)) = FlattenSeq(ss) \o s
    BY FlattenAppend
  <1>3. \A s, t \in T : s \o t \in T
    OBVIOUS
  <1> HIDE DEF T
  <1>4. <<>> \in S
    BY <1>1
  <1>5. ASSUME NEW ss \in Seq(T), NEW s \in T, ss \in S PROVE Append(ss, s) \in S
    <2>1. Append(ss, s) \in Seq(T) /\ FlattenSeq(ss) \in T
      BY <1>5
    <2> QED
      BY <1>2, <1>3, <2>1
  <1> HIDE DEF S
  <1>6. \A ss \in Seq(T) : ss \in S
    BY <1>4, <1>5, SeqInduction
  <1> QED
    BY <1>1, <1>6 DEF S, T

-----------------------------------------------------------------------------
(* The bits of a code.                                                     *)

(* Shifting twice is shifting by the sum of both, and *)
LEMMA DivDiv ==
    ASSUME NEW x \in Nat, NEW a \in Nat \ {0}, NEW b \in Nat \ {0}
    PROVE  (x \div a) \div b = x \div (a * b)
  <1> DEFINE q == x \div a
             r == x % a
             p == q \div b
             s == q % b
  <1>1. q \in Nat /\ r \in 0..(a - 1) /\ x = a * q + r
    OBVIOUS
  <1> HIDE DEF q, r
  <1>2. p \in Nat /\ s \in 0..(b - 1) /\ q = b * p + s
    BY <1>1
  <1> HIDE DEF p, s
  <1>3. a * s + r \in Nat /\ a * s + r < a * b
    <2>1. a * s <= a * (b - 1)
      BY <1>2
    <2>2. a * (b - 1) = a * b - a /\ a * s \in Nat /\ a * b \in Nat
      BY <1>2
    <2> QED
      BY <1>1, <2>1, <2>2
  <1>4. x = (a * b) * p + (a * s + r)
    BY <1>1, <1>2
  <1>5. \A m \in Nat \ {0}, y, z \in Nat : z < m => (m * y + z) \div m = y
    OBVIOUS
  <1>6. a * b \in Nat \ {0}
    OBVIOUS
  <1>7. x \div (a * b) = p
    BY <1>2, <1>3, <1>4, <1>5, <1>6
  <1> QED
    BY <1>7 DEF p, q

(* what is shifted is smaller by the shift. *)
LEMMA DivLess ==
    ASSUME NEW x \in Nat, NEW a \in Nat \ {0}, NEW b \in Nat \ {0}, x < a * b
    PROVE  x \div a \in Nat /\ x \div a < b
  <1> DEFINE q == x \div a
             r == x % a
  <1>1. q \in Nat /\ r \in 0..(a - 1) /\ x = a * q + r
    OBVIOUS
  <1> HIDE DEF q, r
  <1>2. ASSUME q >= b PROVE FALSE
    <2>1. a * q >= a * b
      BY <1>1, <1>2
    <2> QED
      BY <1>1, <2>1
  <1> QED
    BY <1>1, <1>2 DEF q

(* A longer shift is by a larger power. *)
LEMMA PowersGrow ==
    ASSUME NEW a \in 0..30, NEW b \in 0..30, a <= b
    PROVE  2^a <= 2^b
  <1> DEFINE d == b - a
  <1>1. d \in 0..30 /\ a + d = b /\ a + d <= 30
    OBVIOUS
  <1> HIDE DEF d
  <1>2. 2^(a + d) = 2^a * 2^d
    BY <1>1, PowerProduct
  <1>3. 2^a \in Nat \ {0} /\ 2^d \in Nat \ {0}
    BY <1>1, Doubling
  <1>4. \A x, y \in Nat \ {0} : x <= x * y
    OBVIOUS
  <1> QED
    BY <1>1, <1>2, <1>3, <1>4

(* The bits of a byte's code, the highest first. *)
CodeBits(c) ==
    [b \in 1..CodeLength(c) |-> (Code(c) \div 2^(CodeLength(c) - b)) % 2]

(* The bits of a byte's code by their places, zeros before and after them. *)
CodeBit(c, b) == IF b \in 1..CodeLength(c) THEN CodeBits(c)[b] ELSE 0

(* A byte of eight bits. *)
Octet8(b7, b6, b5, b4, b3, b2, b1, b0) ==
    128 * b7 + 64 * b6 + 32 * b5 + 16 * b4 + 8 * b3 + 4 * b2 + 2 * b1 + b0

(* The eight of them up to a place. *)
ByteAt(c, p) ==
    Octet8(CodeBit(c, p - 7), CodeBit(c, p - 6), CodeBit(c, p - 5), CodeBit(c, p - 4),
           CodeBit(c, p - 3), CodeBit(c, p - 2), CodeBit(c, p - 1), CodeBit(c, p))

(* There are as many bits as the code is long. *)
LEMMA CodeBitsType ==
    ASSUME NEW c \in Bytes
    PROVE  /\ CodeBits(c) \in Seq({0, 1})
           /\ Len(CodeBits(c)) = CodeLength(c)
           /\ \A b \in Int : CodeBit(c, b) \in {0, 1}
  <1> DEFINE L == CodeLength(c)
  <1>1. L \in 5..30 /\ Code(c) \in Nat
    BY CodeLengths, CodesFit
  <1> HIDE DEF L
  <1>2. ASSUME NEW b \in 1..L PROVE (Code(c) \div 2^(L - b)) % 2 \in {0, 1}
    <2>1. L - b \in 0..30
      BY <1>1
    <2>2. 2^(L - b) \in Nat \ {0}
      BY <2>1, Doubling
    <2> HIDE DEF L
    <2>3. \A x \in Nat, m \in Nat \ {0} : (x \div m) % 2 \in {0, 1}
      OBVIOUS
    <2> QED
      BY <1>1, <2>2, <2>3
  <1>3. CodeBits(c) = [b \in 1..L |-> (Code(c) \div 2^(L - b)) % 2]
    BY DEF CodeBits, L
  <1>4. CodeBits(c) \in [1..L -> {0, 1}]
    BY <1>2, <1>3
  <1>5. CodeBits(c) \in Seq({0, 1}) /\ Len(CodeBits(c)) = L
    BY <1>1, <1>3, <1>4
  <1>6. \A b \in Int : CodeBit(c, b) \in {0, 1}
    BY <1>4 DEF CodeBit, L
  <1> QED
    BY <1>5, <1>6 DEF L

(* A bit of a code shifted to the right. *)
LEMMA ShiftedBit ==
    ASSUME NEW c \in Bytes, NEW m \in 0..CodeLength(c), NEW j \in 0..7
    PROVE  ((Code(c) \div 2^m) \div 2^j) % 2 = CodeBit(c, CodeLength(c) - m - j)
  <1> DEFINE L == CodeLength(c)
             x == Code(c)
  <1>1. L \in 5..30 /\ x \in Nat /\ x < 2^L
    BY CodeLengths, CodesFit
  <1>2. m \in 0..30 /\ m <= L /\ L - m \in 0..30
    BY <1>1
  <1> HIDE DEF L, x
  <1>3. 2^m \in Nat \ {0} /\ 2^j \in Nat \ {0}
    <2>1. j \in 0..30
      OBVIOUS
    <2> QED
      BY <1>2, <2>1, Doubling
  <1>4. CASE m + j < L
    <2>1. m + j <= 30 /\ L - m - j \in 1..L /\ L - (L - m - j) = m + j /\ j \in 0..30
      BY <1>1, <1>2, <1>4
    <2>2. 2^(m + j) = 2^m * 2^j
      BY <1>2, <2>1, PowerProduct
    <2>3. (x \div 2^m) \div 2^j = x \div 2^(m + j)
      <3>1. (x \div 2^m) \div 2^j = x \div (2^m * 2^j)
        BY <1>1, <1>3, DivDiv
      <3> QED
        BY <2>2, <3>1
    <2>4. CodeBit(c, L - m - j) = (x \div 2^(m + j)) % 2
      BY <2>1 DEF CodeBit, CodeBits, L, x
    <2> QED
      BY <2>3, <2>4 DEF L, x
  <1>5. CASE m + j >= L
    <2> DEFINE d == L - m
    <2>1. m + d = L /\ d <= j /\ j \in 0..30 /\ d \in 0..30 /\ m + d <= 30
      BY <1>1, <1>2, <1>5
    <2> HIDE DEF d
    <2>2. 2^(m + d) = 2^m * 2^d /\ 2^d \in Nat \ {0}
      BY <1>2, <2>1, PowerProduct, Doubling
    <2>3. x \div 2^m \in Nat /\ x \div 2^m < 2^d
      BY <1>1, <1>3, <2>1, <2>2, DivLess
    <2>4. 2^d <= 2^j
      BY <2>1, PowersGrow
    <2>5. x \div 2^m < 2^j
      BY <1>3, <2>2, <2>3, <2>4
    <2>6. \A y, n \in Nat : y < n => y \div n = 0
      OBVIOUS
    <2>7. (x \div 2^m) \div 2^j = 0
      BY <1>3, <2>3, <2>5, <2>6
    <2>8. L - m - j \notin 1..L
      BY <1>1, <1>2, <1>5
    <2>9. CodeBit(c, L - m - j) = 0
      BY <2>8 DEF CodeBit, L
    <2> QED
      BY <2>7, <2>9 DEF L, x
  <1> QED
    BY <1>1, <1>2, <1>4, <1>5

(* static_cast<uint8_t> keeps eight bits of a number. *)
LEMMA ByteOfBits ==
    ASSUME NEW x \in Nat
    PROVE  x % 256 = Octet8((x \div 128) % 2, (x \div 64) % 2, (x \div 32) % 2, (x \div 16) % 2,
                            (x \div 8) % 2, (x \div 4) % 2, (x \div 2) % 2, x % 2)
  <1>1. /\ x = 2 * (x \div 2) + (x % 2)
        /\ x \div 2 = 2 * (x \div 4) + ((x \div 2) % 2)
        /\ x \div 4 = 2 * (x \div 8) + ((x \div 4) % 2)
        /\ x \div 8 = 2 * (x \div 16) + ((x \div 8) % 2)
        /\ x \div 16 = 2 * (x \div 32) + ((x \div 16) % 2)
        /\ x \div 32 = 2 * (x \div 64) + ((x \div 32) % 2)
        /\ x \div 64 = 2 * (x \div 128) + ((x \div 64) % 2)
        /\ x \div 128 = 2 * (x \div 256) + ((x \div 128) % 2)
    <2>1. \A y \in Nat : y = 2 * (y \div 2) + (y % 2)
      OBVIOUS
    <2>2. /\ x \div 4 = (x \div 2) \div 2 /\ x \div 8 = (x \div 4) \div 2
          /\ x \div 16 = (x \div 8) \div 2 /\ x \div 32 = (x \div 16) \div 2
          /\ x \div 64 = (x \div 32) \div 2 /\ x \div 128 = (x \div 64) \div 2
          /\ x \div 256 = (x \div 128) \div 2
      OBVIOUS
    <2>3. /\ x \div 2 \in Nat /\ x \div 4 \in Nat /\ x \div 8 \in Nat /\ x \div 16 \in Nat
          /\ x \div 32 \in Nat /\ x \div 64 \in Nat /\ x \div 128 \in Nat
      OBVIOUS
    <2> QED
      BY <2>1, <2>2, <2>3
  <1>2. /\ x % 2 \in 0..1 /\ (x \div 2) % 2 \in 0..1 /\ (x \div 4) % 2 \in 0..1
        /\ (x \div 8) % 2 \in 0..1 /\ (x \div 16) % 2 \in 0..1 /\ (x \div 32) % 2 \in 0..1
        /\ (x \div 64) % 2 \in 0..1 /\ (x \div 128) % 2 \in 0..1 /\ x \div 256 \in Nat
    OBVIOUS
  <1>3. \A q \in Nat, b7, b6, b5, b4, b3, b2, b1, b0 \in 0..1 :
           x = 2*(2*(2*(2*(2*(2*(2*(2*q + b7) + b6) + b5) + b4) + b3) + b2) + b1) + b0
             => x % 256 = Octet8(b7, b6, b5, b4, b3, b2, b1, b0)
    BY DEF Octet8
  <1> QED
    BY <1>1, <1>2, <1>3

(* The bytes the code is cut into. *)
LEMMA HighByteAt ==
    ASSUME NEW c \in Bytes, NEW m \in 0..CodeLength(c)
    PROVE  HighByte(Code(c), m) = ByteAt(c, CodeLength(c) - m)
  <1> DEFINE x == Code(c) \div 2^m
             p == CodeLength(c) - m
  <1>1. CodeLength(c) \in 5..30 /\ Code(c) \in Nat
    BY CodeLengths, CodesFit
  <1>2. m \in 0..30 /\ p \in Int
    BY <1>1
  <1>3. x \in Nat
    <2>1. 2^m \in Nat \ {0}
      BY <1>2, Doubling
    <2> QED
      BY <1>1, <2>1
  <1>4. \A j \in 0..7 : (x \div 2^j) % 2 = CodeBit(c, p - j)
    BY ShiftedBit
  <1> HIDE DEF x, p
  <1>5. /\ 2^0 = 1 /\ 2^1 = 2 /\ 2^2 = 4 /\ 2^3 = 8 /\ 2^4 = 16 /\ 2^5 = 32
        /\ 2^6 = 64 /\ 2^7 = 128
    OBVIOUS
  <1>6. /\ (x \div 2^0) % 2 = CodeBit(c, p - 0) /\ (x \div 2^1) % 2 = CodeBit(c, p - 1)
        /\ (x \div 2^2) % 2 = CodeBit(c, p - 2) /\ (x \div 2^3) % 2 = CodeBit(c, p - 3)
        /\ (x \div 2^4) % 2 = CodeBit(c, p - 4) /\ (x \div 2^5) % 2 = CodeBit(c, p - 5)
        /\ (x \div 2^6) % 2 = CodeBit(c, p - 6) /\ (x \div 2^7) % 2 = CodeBit(c, p - 7)
    BY <1>4
  <1>7. x \div 1 = x /\ p - 0 = p
    BY <1>2, <1>3
  <1>8. /\ x % 2 = CodeBit(c, p) /\ (x \div 2) % 2 = CodeBit(c, p - 1)
        /\ (x \div 4) % 2 = CodeBit(c, p - 2) /\ (x \div 8) % 2 = CodeBit(c, p - 3)
        /\ (x \div 16) % 2 = CodeBit(c, p - 4) /\ (x \div 32) % 2 = CodeBit(c, p - 5)
        /\ (x \div 64) % 2 = CodeBit(c, p - 6) /\ (x \div 128) % 2 = CodeBit(c, p - 7)
    BY <1>5, <1>6, <1>7
  <1>9. x % 256 = ByteAt(c, p)
    BY <1>3, <1>8, ByteOfBits DEF ByteAt
  <1> QED
    BY <1>9 DEF HighByte, x, p

(* The low eight bits of a byte shifted to the left. *)
ShiftsOf(y, b7, b6, b5, b4, b3, b2, b1, b0) ==
    /\ (y * 1) % 256 = Octet8(b7, b6, b5, b4, b3, b2, b1, b0)
    /\ (y * 2) % 256 = Octet8(b6, b5, b4, b3, b2, b1, b0, 0)
    /\ (y * 4) % 256 = Octet8(b5, b4, b3, b2, b1, b0, 0, 0)
    /\ (y * 8) % 256 = Octet8(b4, b3, b2, b1, b0, 0, 0, 0)
    /\ (y * 16) % 256 = Octet8(b3, b2, b1, b0, 0, 0, 0, 0)
    /\ (y * 32) % 256 = Octet8(b2, b1, b0, 0, 0, 0, 0, 0)
    /\ (y * 64) % 256 = Octet8(b1, b0, 0, 0, 0, 0, 0, 0)
    /\ (y * 128) % 256 = Octet8(b0, 0, 0, 0, 0, 0, 0, 0)

(* They are the last ones of the byte, and zeros. *)
LEMMA ShiftedByte ==
    ASSUME NEW b7 \in 0..1, NEW b6 \in 0..1, NEW b5 \in 0..1, NEW b4 \in 0..1,
           NEW b3 \in 0..1, NEW b2 \in 0..1, NEW b1 \in 0..1, NEW b0 \in 0..1,
           NEW y, y = Octet8(b7, b6, b5, b4, b3, b2, b1, b0)
    PROVE  ShiftsOf(y, b7, b6, b5, b4, b3, b2, b1, b0)
  <1>1. \A q \in Nat, r \in 0..255 : (256 * q + r) % 256 = r
    OBVIOUS
  <1> USE DEF Octet8
  <1>2. y \in 0..255
    OBVIOUS
  <1>3. (y * 1) % 256 = Octet8(b7, b6, b5, b4, b3, b2, b1, b0)
    BY <1>2
  <1>4. y * 2 = 256 * b7 + Octet8(b6, b5, b4, b3, b2, b1, b0, 0)
        /\ Octet8(b6, b5, b4, b3, b2, b1, b0, 0) \in 0..255
    OBVIOUS
  <1>5. y * 4 = 256 * (2 * b7 + b6) + Octet8(b5, b4, b3, b2, b1, b0, 0, 0)
        /\ Octet8(b5, b4, b3, b2, b1, b0, 0, 0) \in 0..255
    OBVIOUS
  <1>6. y * 8 = 256 * (4 * b7 + 2 * b6 + b5) + Octet8(b4, b3, b2, b1, b0, 0, 0, 0)
        /\ Octet8(b4, b3, b2, b1, b0, 0, 0, 0) \in 0..255
    OBVIOUS
  <1>7. y * 16 = 256 * (8 * b7 + 4 * b6 + 2 * b5 + b4) + Octet8(b3, b2, b1, b0, 0, 0, 0, 0)
        /\ Octet8(b3, b2, b1, b0, 0, 0, 0, 0) \in 0..255
    OBVIOUS
  <1>8. y * 32 = 256 * (16 * b7 + 8 * b6 + 4 * b5 + 2 * b4 + b3)
                   + Octet8(b2, b1, b0, 0, 0, 0, 0, 0)
        /\ Octet8(b2, b1, b0, 0, 0, 0, 0, 0) \in 0..255
    OBVIOUS
  <1>9. y * 64 = 256 * (32 * b7 + 16 * b6 + 8 * b5 + 4 * b4 + 2 * b3 + b2)
                   + Octet8(b1, b0, 0, 0, 0, 0, 0, 0)
        /\ Octet8(b1, b0, 0, 0, 0, 0, 0, 0) \in 0..255
    OBVIOUS
  <1>10. y * 128 = 256 * (64 * b7 + 32 * b6 + 16 * b5 + 8 * b4 + 4 * b3 + 2 * b2 + b1)
                     + Octet8(b0, 0, 0, 0, 0, 0, 0, 0)
        /\ Octet8(b0, 0, 0, 0, 0, 0, 0, 0) \in 0..255
    OBVIOUS
  <1> HIDE DEF Octet8
  <1>11. /\ b7 \in Nat /\ 2 * b7 + b6 \in Nat /\ 4 * b7 + 2 * b6 + b5 \in Nat
         /\ 8 * b7 + 4 * b6 + 2 * b5 + b4 \in Nat
         /\ 16 * b7 + 8 * b6 + 4 * b5 + 2 * b4 + b3 \in Nat
         /\ 32 * b7 + 16 * b6 + 8 * b5 + 4 * b4 + 2 * b3 + b2 \in Nat
         /\ 64 * b7 + 32 * b6 + 16 * b5 + 8 * b4 + 4 * b3 + 2 * b2 + b1 \in Nat
    OBVIOUS
  <1>12. (y * 2) % 256 = Octet8(b6, b5, b4, b3, b2, b1, b0, 0)
    BY <1>1, <1>4, <1>11
  <1>13. (y * 4) % 256 = Octet8(b5, b4, b3, b2, b1, b0, 0, 0)
    BY <1>1, <1>5, <1>11
  <1>14. (y * 8) % 256 = Octet8(b4, b3, b2, b1, b0, 0, 0, 0)
    BY <1>1, <1>6, <1>11
  <1>15. (y * 16) % 256 = Octet8(b3, b2, b1, b0, 0, 0, 0, 0)
    BY <1>1, <1>7, <1>11
  <1>16. (y * 32) % 256 = Octet8(b2, b1, b0, 0, 0, 0, 0, 0)
    BY <1>1, <1>8, <1>11
  <1>17. (y * 64) % 256 = Octet8(b1, b0, 0, 0, 0, 0, 0, 0)
    BY <1>1, <1>9, <1>11
  <1>18. (y * 128) % 256 = Octet8(b0, 0, 0, 0, 0, 0, 0, 0)
    BY <1>1, <1>10, <1>11
  <1> QED
    BY <1>3, <1>12, <1>13, <1>14, <1>15, <1>16, <1>17, <1>18 DEF ShiftsOf

(* The last byte of a code, which may end within the byte. *)
LEMMA LowByteAt ==
    ASSUME NEW c \in Bytes, NEW m \in 0..7
    PROVE  LowByte(Code(c), m) = ByteAt(c, CodeLength(c) + m)
  <1> DEFINE L == CodeLength(c)
             y == Code(c) % 256
             B(i) == CodeBit(c, L - i)
  <1>1. L \in 5..30 /\ Code(c) \in Nat
    BY CodeLengths, CodesFit
  <1>2. y = Octet8(B(7), B(6), B(5), B(4), B(3), B(2), B(1), B(0))
    <2>1. 0 \in 0..L /\ L - 0 = L
      BY <1>1
    <2>2. HighByte(Code(c), 0) = ByteAt(c, L - 0)
      BY <2>1, HighByteAt
    <2>3. HighByte(Code(c), 0) = y
      BY <1>1 DEF HighByte
    <2> QED
      BY <2>1, <2>2, <2>3 DEF ByteAt
  <1>3. /\ B(7) \in 0..1 /\ B(6) \in 0..1 /\ B(5) \in 0..1 /\ B(4) \in 0..1
        /\ B(3) \in 0..1 /\ B(2) \in 0..1 /\ B(1) \in 0..1 /\ B(0) \in 0..1
    BY <1>1, CodeBitsType, SMTT(60)
  <1>4. /\ CodeBit(c, L + 1) = 0 /\ CodeBit(c, L + 2) = 0 /\ CodeBit(c, L + 3) = 0
        /\ CodeBit(c, L + 4) = 0 /\ CodeBit(c, L + 5) = 0 /\ CodeBit(c, L + 6) = 0
        /\ CodeBit(c, L + 7) = 0
    BY <1>1 DEF CodeBit
  <1>5. L - 0 = L
    BY <1>1
  <1>6. /\ ByteAt(c, L + 0) = Octet8(B(7), B(6), B(5), B(4), B(3), B(2), B(1), B(0))
        /\ ByteAt(c, L + 1) = Octet8(B(6), B(5), B(4), B(3), B(2), B(1), B(0), 0)
        /\ ByteAt(c, L + 2) = Octet8(B(5), B(4), B(3), B(2), B(1), B(0), 0, 0)
        /\ ByteAt(c, L + 3) = Octet8(B(4), B(3), B(2), B(1), B(0), 0, 0, 0)
        /\ ByteAt(c, L + 4) = Octet8(B(3), B(2), B(1), B(0), 0, 0, 0, 0)
        /\ ByteAt(c, L + 5) = Octet8(B(2), B(1), B(0), 0, 0, 0, 0, 0)
        /\ ByteAt(c, L + 6) = Octet8(B(1), B(0), 0, 0, 0, 0, 0, 0)
        /\ ByteAt(c, L + 7) = Octet8(B(0), 0, 0, 0, 0, 0, 0, 0)
    <2> HIDE DEF L
    <2>1. ByteAt(c, L + 0) =
            Octet8(CodeBit(c, L - 7), CodeBit(c, L - 6), CodeBit(c, L - 5),
                   CodeBit(c, L - 4), CodeBit(c, L - 3), CodeBit(c, L - 2),
                   CodeBit(c, L - 1), CodeBit(c, L - 0))
      BY <1>1, <1>4, <1>5 DEF ByteAt
    <2>2. ByteAt(c, L + 1) =
            Octet8(CodeBit(c, L - 6), CodeBit(c, L - 5), CodeBit(c, L - 4),
                   CodeBit(c, L - 3), CodeBit(c, L - 2), CodeBit(c, L - 1),
                   CodeBit(c, L - 0), 0)
      BY <1>1, <1>4, <1>5 DEF ByteAt
    <2>3. ByteAt(c, L + 2) =
            Octet8(CodeBit(c, L - 5), CodeBit(c, L - 4), CodeBit(c, L - 3),
                   CodeBit(c, L - 2), CodeBit(c, L - 1), CodeBit(c, L - 0),
                   0, 0)
      BY <1>1, <1>4, <1>5 DEF ByteAt
    <2>4. ByteAt(c, L + 3) =
            Octet8(CodeBit(c, L - 4), CodeBit(c, L - 3), CodeBit(c, L - 2),
                   CodeBit(c, L - 1), CodeBit(c, L - 0), 0,
                   0, 0)
      BY <1>1, <1>4, <1>5 DEF ByteAt
    <2>5. ByteAt(c, L + 4) =
            Octet8(CodeBit(c, L - 3), CodeBit(c, L - 2), CodeBit(c, L - 1),
                   CodeBit(c, L - 0), 0, 0,
                   0, 0)
      BY <1>1, <1>4, <1>5 DEF ByteAt
    <2>6. ByteAt(c, L + 5) =
            Octet8(CodeBit(c, L - 2), CodeBit(c, L - 1), CodeBit(c, L - 0),
                   0, 0, 0,
                   0, 0)
      BY <1>1, <1>4, <1>5 DEF ByteAt
    <2>7. ByteAt(c, L + 6) =
            Octet8(CodeBit(c, L - 1), CodeBit(c, L - 0), 0,
                   0, 0, 0,
                   0, 0)
      BY <1>1, <1>4, <1>5 DEF ByteAt
    <2>8. ByteAt(c, L + 7) =
            Octet8(CodeBit(c, L - 0), 0, 0,
                   0, 0, 0,
                   0, 0)
      BY <1>1, <1>4, <1>5 DEF ByteAt
    <2> QED
      BY <2>1, <2>2, <2>3, <2>4, <2>5, <2>6, <2>7, <2>8
  <1> HIDE DEF y, B, L
  <1>7. /\ (y * 1) % 256 = ByteAt(c, L + 0)
        /\ (y * 2) % 256 = ByteAt(c, L + 1)
        /\ (y * 4) % 256 = ByteAt(c, L + 2)
        /\ (y * 8) % 256 = ByteAt(c, L + 3)
        /\ (y * 16) % 256 = ByteAt(c, L + 4)
        /\ (y * 32) % 256 = ByteAt(c, L + 5)
        /\ (y * 64) % 256 = ByteAt(c, L + 6)
        /\ (y * 128) % 256 = ByteAt(c, L + 7)
    <2>1. ShiftsOf(y, B(7), B(6), B(5), B(4), B(3), B(2), B(1), B(0))
      BY <1>2, <1>3, ShiftedByte
    <2> QED
      BY <1>6, <2>1 DEF ShiftsOf
  <1>8. /\ (y * 2^0) % 256 = ByteAt(c, L + 0)
        /\ (y * 2^1) % 256 = ByteAt(c, L + 1)
        /\ (y * 2^2) % 256 = ByteAt(c, L + 2)
        /\ (y * 2^3) % 256 = ByteAt(c, L + 3)
        /\ (y * 2^4) % 256 = ByteAt(c, L + 4)
        /\ (y * 2^5) % 256 = ByteAt(c, L + 5)
        /\ (y * 2^6) % 256 = ByteAt(c, L + 6)
        /\ (y * 2^7) % 256 = ByteAt(c, L + 7)
    BY <1>7
  <1>9. \/ m = 0 \/ m = 1 \/ m = 2 \/ m = 3 \/ m = 4 \/ m = 5 \/ m = 6 \/ m = 7
    OBVIOUS
  <1>10. (y * 2^m) % 256 = ByteAt(c, L + m)
    BY <1>8, <1>9, ZenonT(60)
  <1> QED
    BY <1>10 DEF LowByte, y, L

-----------------------------------------------------------------------------
(* A sequence of bits cut into bytes, the last one filled up.              *)

(* The bits, then as many of "fill" as are asked for, *)
Bit(bits, fill, i) == IF i <= Len(bits) THEN bits[i] ELSE fill

(* and the k-th eight of them. *)
Octet(bits, fill, k) ==
    Octet8(Bit(bits, fill, 8 * k - 7), Bit(bits, fill, 8 * k - 6), Bit(bits, fill, 8 * k - 5),
           Bit(bits, fill, 8 * k - 4), Bit(bits, fill, 8 * k - 3), Bit(bits, fill, 8 * k - 2),
           Bit(bits, fill, 8 * k - 1), Bit(bits, fill, 8 * k))

(* A bit is 0 or 1. *)
LEMMA BitType ==
    ASSUME NEW bits \in Seq({0, 1}), NEW fill \in {0, 1}, NEW i \in Nat \ {0}
    PROVE  Bit(bits, fill, i) \in {0, 1}
  <1>1. i <= Len(bits) => bits[i] \in {0, 1}
    OBVIOUS
  <1> QED
    BY <1>1 DEF Bit

(* The bits of one more code come after those before. *)
LEMMA BitGrows ==
    ASSUME NEW bits \in Seq({0, 1}), NEW c \in Bytes, NEW i \in Nat \ {0}
    PROVE  Bit(bits \o CodeBits(c), 0, i) = Bit(bits, 0, i) + CodeBit(c, i - Len(bits))
  <1> DEFINE n == Len(bits)
             L == CodeLength(c)
             d == CodeBits(c)
  <1>1. n \in Nat /\ L \in 5..30 /\ d \in Seq({0, 1}) /\ Len(d) = L
    BY CodeLengths, CodeBitsType
  <1> HIDE DEF L, d
  <1>2. /\ Len(bits \o d) = n + L
        /\ \A j \in 1..(n + L) : (bits \o d)[j] = IF j <= n THEN bits[j] ELSE d[j - n]
    BY <1>1
  <1>3. CASE i <= n
    <2>1. i \in 1..(n + L) /\ i <= Len(bits \o d) /\ i - n \notin 1..L
      BY <1>1, <1>2, <1>3
    <2>2. Bit(bits \o d, 0, i) = bits[i]
      BY <1>2, <1>3, <2>1 DEF Bit
    <2>3. Bit(bits, 0, i) = bits[i] /\ CodeBit(c, i - n) = 0
      BY <1>3, <2>1 DEF Bit, CodeBit, L
    <2>4. bits[i] \in Int
      BY <1>3
    <2> QED
      BY <2>2, <2>3, <2>4 DEF d
  <1>4. CASE n < i /\ i <= n + L
    <2>1. i \in 1..(n + L) /\ i <= Len(bits \o d) /\ i - n \in 1..L /\ ~(i <= n)
      BY <1>1, <1>2, <1>4
    <2>2. Bit(bits \o d, 0, i) = d[i - n]
      BY <1>2, <2>1 DEF Bit
    <2>3. Bit(bits, 0, i) = 0 /\ CodeBit(c, i - n) = d[i - n]
      BY <2>1 DEF Bit, CodeBit, L, d
    <2>4. d[i - n] \in Int
      BY <1>1, <2>1
    <2> QED
      BY <2>2, <2>3, <2>4 DEF d
  <1>5. CASE n + L < i
    <2>1. ~(i <= Len(bits \o d)) /\ i - n \notin 1..L /\ ~(i <= n)
      BY <1>1, <1>2, <1>5
    <2>2. Bit(bits \o d, 0, i) = 0
      BY <2>1 DEF Bit
    <2>3. Bit(bits, 0, i) = 0 /\ CodeBit(c, i - n) = 0
      BY <2>1 DEF Bit, CodeBit, L
    <2> QED
      BY <2>2, <2>3 DEF d
  <1> QED
    BY <1>1, <1>3, <1>4, <1>5

(* The bits from a function of their places, added place by place. *)
OctetOf(f) == Octet8(f[7], f[6], f[5], f[4], f[3], f[2], f[1], f[0])

(* Octets add up bit by bit. *)
LEMMA OctetSum ==
    ASSUME NEW a \in [0..7 -> Int], NEW b \in [0..7 -> Int], NEW e,
           \A j \in 0..7 : e[j] = a[j] + b[j]
    PROVE  OctetOf(e) = OctetOf(a) + OctetOf(b)
  <1>1. /\ e[7] = a[7] + b[7] /\ e[6] = a[6] + b[6] /\ e[5] = a[5] + b[5] /\ e[4] = a[4] + b[4]
        /\ e[3] = a[3] + b[3] /\ e[2] = a[2] + b[2] /\ e[1] = a[1] + b[1] /\ e[0] = a[0] + b[0]
    OBVIOUS
  <1>2. /\ a[7] \in Int /\ a[6] \in Int /\ a[5] \in Int /\ a[4] \in Int
        /\ a[3] \in Int /\ a[2] \in Int /\ a[1] \in Int /\ a[0] \in Int
        /\ b[7] \in Int /\ b[6] \in Int /\ b[5] \in Int /\ b[4] \in Int
        /\ b[3] \in Int /\ b[2] \in Int /\ b[1] \in Int /\ b[0] \in Int
    OBVIOUS
  <1>3. \A i, j \in Int : /\ 128 * (i + j) = 128 * i + 128 * j /\ 64 * (i + j) = 64 * i + 64 * j
                          /\ 32 * (i + j) = 32 * i + 32 * j /\ 16 * (i + j) = 16 * i + 16 * j
                          /\ 8 * (i + j) = 8 * i + 8 * j /\ 4 * (i + j) = 4 * i + 4 * j
                          /\ 2 * (i + j) = 2 * i + 2 * j
    OBVIOUS
  <1> QED
    BY <1>1, <1>2, <1>3 DEF OctetOf, Octet8

(* A byte has the bits before a code and those of the code. *)
LEMMA OctetGrows ==
    ASSUME NEW bits \in Seq({0, 1}), NEW c \in Bytes, NEW k \in Nat \ {0}
    PROVE  Octet(bits \o CodeBits(c), 0, k) = Octet(bits, 0, k) + ByteAt(c, 8 * k - Len(bits))
  <1> DEFINE n == Len(bits)
             more == bits \o CodeBits(c)
             p == 8 * k - n
  <1>1. n \in Nat /\ p \in Int
    OBVIOUS
  <1>2. ASSUME NEW j \in 0..7
        PROVE  /\ Bit(more, 0, 8 * k - j) = Bit(bits, 0, 8 * k - j) + CodeBit(c, p - j)
               /\ Bit(bits, 0, 8 * k - j) \in Int
               /\ CodeBit(c, p - j) \in Int
    <2>1. 8 * k - j \in Nat \ {0} /\ (8 * k - j) - n = p - j /\ p - j \in Int
      BY <1>1
    <2>2. Bit(more, 0, 8 * k - j) = Bit(bits, 0, 8 * k - j) + CodeBit(c, (8 * k - j) - n)
      BY <2>1, BitGrows
    <2>3. Bit(bits, 0, 8 * k - j) \in {0, 1} /\ CodeBit(c, p - j) \in {0, 1}
      BY <2>1, BitType, CodeBitsType
    <2> QED
      BY <2>1, <2>2, <2>3
  <1> HIDE DEF more, p, n
  <1>3. 8 * k - 0 = 8 * k /\ p - 0 = p
    BY <1>1
  <1> DEFINE a == [j \in 0..7 |-> Bit(bits, 0, 8 * k - j)]
             b == [j \in 0..7 |-> CodeBit(c, p - j)]
             e == [j \in 0..7 |-> Bit(more, 0, 8 * k - j)]
  <1>4. a \in [0..7 -> Int] /\ b \in [0..7 -> Int] /\ \A j \in 0..7 : e[j] = a[j] + b[j]
    BY <1>2
  <1>5. /\ Octet(more, 0, k) = OctetOf(e) /\ Octet(bits, 0, k) = OctetOf(a)
        /\ ByteAt(c, p) = OctetOf(b)
    BY <1>3 DEF Octet, ByteAt, OctetOf
  <1> HIDE DEF a, b, e
  <1>6. OctetOf(e) = OctetOf(a) + OctetOf(b)
    BY <1>4, OctetSum
  <1> QED
    BY <1>5, <1>6 DEF more, p, n

(* Eight bits are a byte. *)
LEMMA OctetType ==
    ASSUME NEW bits \in Seq({0, 1}), NEW fill \in {0, 1}, NEW k \in Nat \ {0}
    PROVE  Octet(bits, fill, k) \in Bytes
  <1>1. \A j \in 0..7 : 8 * k - j \in Nat \ {0}
    OBVIOUS
  <1>2. \A j \in 0..7 : Bit(bits, fill, 8 * k - j) \in 0..1
    BY <1>1, BitType
  <1>3. 8 * k - 0 = 8 * k
    OBVIOUS
  <1>4. \A b7, b6, b5, b4, b3, b2, b1, b0 \in 0..1 :
          Octet8(b7, b6, b5, b4, b3, b2, b1, b0) \in 0..255
    BY DEF Octet8
  <1>5. /\ Bit(bits, fill, 8 * k - 7) \in 0..1 /\ Bit(bits, fill, 8 * k - 6) \in 0..1
        /\ Bit(bits, fill, 8 * k - 5) \in 0..1 /\ Bit(bits, fill, 8 * k - 4) \in 0..1
        /\ Bit(bits, fill, 8 * k - 3) \in 0..1 /\ Bit(bits, fill, 8 * k - 2) \in 0..1
        /\ Bit(bits, fill, 8 * k - 1) \in 0..1 /\ Bit(bits, fill, 8 * k) \in 0..1
    BY <1>2, <1>3
  <1> QED
    BY <1>4, <1>5 DEF Octet, Bytes

(* Past the bits there are zeros, *)
LEMMA OctetPast ==
    ASSUME NEW bits \in Seq({0, 1}), NEW k \in Nat \ {0}, Len(bits) <= 8 * (k - 1)
    PROVE  Octet(bits, 0, k) = 0
  <1>1. \A j \in 0..7 : ~(8 * k - j <= Len(bits))
    OBVIOUS
  <1>2. \A j \in 0..7 : Bit(bits, 0, 8 * k - j) = 0
    BY <1>1 DEF Bit
  <1>3. 8 * k - 0 = 8 * k
    OBVIOUS
  <1>4. /\ Bit(bits, 0, 8 * k - 7) = 0 /\ Bit(bits, 0, 8 * k - 6) = 0
        /\ Bit(bits, 0, 8 * k - 5) = 0 /\ Bit(bits, 0, 8 * k - 4) = 0
        /\ Bit(bits, 0, 8 * k - 3) = 0 /\ Bit(bits, 0, 8 * k - 2) = 0
        /\ Bit(bits, 0, 8 * k - 1) = 0 /\ Bit(bits, 0, 8 * k) = 0
    BY <1>2, <1>3
  <1> QED
    BY <1>4, SMTT(60) DEF Octet, Octet8

(* and before a code nothing of it. *)
LEMMA ByteBefore ==
    ASSUME NEW c \in Bytes, NEW p \in Int, p <= 0
    PROVE  ByteAt(c, p) = 0
  <1>1. \A j \in 0..7 : p - j \notin 1..CodeLength(c)
    BY CodeLengths
  <1>2. \A j \in 0..7 : CodeBit(c, p - j) = 0
    BY <1>1 DEF CodeBit
  <1>3. p - 0 = p
    OBVIOUS
  <1>4. /\ CodeBit(c, p - 7) = 0 /\ CodeBit(c, p - 6) = 0 /\ CodeBit(c, p - 5) = 0
        /\ CodeBit(c, p - 4) = 0 /\ CodeBit(c, p - 3) = 0 /\ CodeBit(c, p - 2) = 0
        /\ CodeBit(c, p - 1) = 0 /\ CodeBit(c, p) = 0
    BY <1>2, <1>3, SMTT(60)
  <1> QED
    BY <1>4 DEF ByteAt, Octet8

(* So are eight bits of a code. *)
LEMMA ByteAtType ==
    ASSUME NEW c \in Bytes, NEW p \in Int
    PROVE  ByteAt(c, p) \in Bytes
  <1>1. \A j \in 0..7 : CodeBit(c, p - j) \in 0..1
    BY CodeBitsType
  <1>2. p - 0 = p
    OBVIOUS
  <1>3. /\ CodeBit(c, p - 7) \in 0..1 /\ CodeBit(c, p - 6) \in 0..1
        /\ CodeBit(c, p - 5) \in 0..1 /\ CodeBit(c, p - 4) \in 0..1
        /\ CodeBit(c, p - 3) \in 0..1 /\ CodeBit(c, p - 2) \in 0..1
        /\ CodeBit(c, p - 1) \in 0..1 /\ CodeBit(c, p) \in 0..1
    BY <1>1, <1>2
  <1>4. \A b7, b6, b5, b4, b3, b2, b1, b0 \in 0..1 :
          Octet8(b7, b6, b5, b4, b3, b2, b1, b0) \in 0..255
    BY DEF Octet8
  <1> QED
    BY <1>3, <1>4 DEF ByteAt, Bytes

(* The last byte filled up with ones. *)
LEMMA OctetFilled ==
    ASSUME NEW bits \in Seq({0, 1}), NEW k \in Nat \ {0}
    PROVE  /\ 8 * k <= Len(bits) => Octet(bits, 1, k) = Octet(bits, 0, k)
           /\ \A r \in 1..7 : 8 * k = Len(bits) + r
                                => Octet(bits, 1, k) = Octet(bits, 0, k) + (2^r - 1)
  <1> DEFINE n == Len(bits)
             a == [j \in 0..7 |-> Bit(bits, 0, 8 * k - j)]
             e == [j \in 0..7 |-> Bit(bits, 1, 8 * k - j)]
  <1>1. n \in Nat /\ 8 * k - 0 = 8 * k
    OBVIOUS
  <1>2. ASSUME NEW j \in 0..7
        PROVE  /\ 8 * k - j <= n => e[j] = a[j]
               /\ ~(8 * k - j <= n) => a[j] = 0 /\ e[j] = 1
               /\ a[j] \in 0..1
    <2>1. 8 * k - j \in Nat \ {0}
      OBVIOUS
    <2>2. a[j] \in {0, 1}
      BY <2>1, BitType
    <2> QED
      BY <2>2 DEF Bit
  <1>3. Octet(bits, 1, k) = OctetOf(e) /\ Octet(bits, 0, k) = OctetOf(a)
    BY <1>1 DEF Octet, OctetOf
  <1>4. a \in [0..7 -> Int]
    BY <1>2, SMTT(60)
  <1> HIDE DEF n, a, e
  <1>5. CASE 8 * k <= n
    <2>1. \A j \in 0..7 : e[j] = a[j]
      BY <1>1, <1>2, <1>5
    <2>2. /\ e[7] = a[7] /\ e[6] = a[6] /\ e[5] = a[5] /\ e[4] = a[4]
          /\ e[3] = a[3] /\ e[2] = a[2] /\ e[1] = a[1] /\ e[0] = a[0]
      BY <2>1
    <2> QED
      BY <1>1, <1>3, <1>5, <2>2 DEF n, OctetOf
  <1>6. ASSUME NEW r \in 1..7, 8 * k = n + r
        PROVE  Octet(bits, 1, k) = Octet(bits, 0, k) + (2^r - 1)
    <2> DEFINE b == [j \in 0..7 |-> IF j < r THEN 1 ELSE 0]
    <2>1. b \in [0..7 -> Int] /\ \A j \in 0..7 : (j < r => b[j] = 1) /\ (~(j < r) => b[j] = 0)
      OBVIOUS
    <2>2. OctetOf(b) = 2^r - 1
      <3> HIDE DEF b
      <3>1. CASE r = 1
        <4>1. /\ b[0] = 1 /\ b[1] = 0 /\ b[2] = 0 /\ b[3] = 0
            /\ b[4] = 0 /\ b[5] = 0 /\ b[6] = 0 /\ b[7] = 0
          BY <2>1, <3>1
        <4>2. OctetOf(b) = 1
          BY <4>1 DEF OctetOf, Octet8
        <4>3. 2^1 = 2
          OBVIOUS
        <4> QED
          BY <3>1, <4>2, <4>3
      <3>2. CASE r = 2
        <4>1. /\ b[0] = 1 /\ b[1] = 1 /\ b[2] = 0 /\ b[3] = 0
            /\ b[4] = 0 /\ b[5] = 0 /\ b[6] = 0 /\ b[7] = 0
          BY <2>1, <3>2
        <4>2. OctetOf(b) = 3
          BY <4>1 DEF OctetOf, Octet8
        <4>3. 2^2 = 4
          OBVIOUS
        <4> QED
          BY <3>2, <4>2, <4>3
      <3>3. CASE r = 3
        <4>1. /\ b[0] = 1 /\ b[1] = 1 /\ b[2] = 1 /\ b[3] = 0
            /\ b[4] = 0 /\ b[5] = 0 /\ b[6] = 0 /\ b[7] = 0
          BY <2>1, <3>3
        <4>2. OctetOf(b) = 7
          BY <4>1 DEF OctetOf, Octet8
        <4>3. 2^3 = 8
          OBVIOUS
        <4> QED
          BY <3>3, <4>2, <4>3
      <3>4. CASE r = 4
        <4>1. /\ b[0] = 1 /\ b[1] = 1 /\ b[2] = 1 /\ b[3] = 1
            /\ b[4] = 0 /\ b[5] = 0 /\ b[6] = 0 /\ b[7] = 0
          BY <2>1, <3>4
        <4>2. OctetOf(b) = 15
          BY <4>1 DEF OctetOf, Octet8
        <4>3. 2^4 = 16
          OBVIOUS
        <4> QED
          BY <3>4, <4>2, <4>3
      <3>5. CASE r = 5
        <4>1. /\ b[0] = 1 /\ b[1] = 1 /\ b[2] = 1 /\ b[3] = 1
            /\ b[4] = 1 /\ b[5] = 0 /\ b[6] = 0 /\ b[7] = 0
          BY <2>1, <3>5
        <4>2. OctetOf(b) = 31
          BY <4>1 DEF OctetOf, Octet8
        <4>3. 2^5 = 32
          OBVIOUS
        <4> QED
          BY <3>5, <4>2, <4>3
      <3>6. CASE r = 6
        <4>1. /\ b[0] = 1 /\ b[1] = 1 /\ b[2] = 1 /\ b[3] = 1
            /\ b[4] = 1 /\ b[5] = 1 /\ b[6] = 0 /\ b[7] = 0
          BY <2>1, <3>6
        <4>2. OctetOf(b) = 63
          BY <4>1 DEF OctetOf, Octet8
        <4>3. 2^6 = 64
          OBVIOUS
        <4> QED
          BY <3>6, <4>2, <4>3
      <3>7. CASE r = 7
        <4>1. /\ b[0] = 1 /\ b[1] = 1 /\ b[2] = 1 /\ b[3] = 1
            /\ b[4] = 1 /\ b[5] = 1 /\ b[6] = 1 /\ b[7] = 0
          BY <2>1, <3>7
        <4>2. OctetOf(b) = 127
          BY <4>1 DEF OctetOf, Octet8
        <4>3. 2^7 = 128
          OBVIOUS
        <4> QED
          BY <3>7, <4>2, <4>3
      <3> QED
        BY <3>1, <3>2, <3>3, <3>4, <3>5, <3>6, <3>7
    <2> HIDE DEF b
    <2>3. ASSUME NEW j \in 0..7 PROVE e[j] = a[j] + b[j]
      <3>1. a[j] \in Int
        BY <1>2, SMTT(60)
      <3>2. CASE j < r
        <4>1. ~(8 * k - j <= n)
          BY <1>1, <1>6, <3>2
        <4>2. a[j] = 0 /\ e[j] = 1
          BY <1>2, <4>1
        <4> QED
          BY <2>1, <3>2, <4>2, SMTT(60)
      <3>3. CASE ~(j < r)
        <4>1. 8 * k - j <= n
          BY <1>1, <1>6, <3>3
        <4>2. e[j] = a[j]
          BY <1>2, <4>1
        <4>3. b[j] = 0
          BY <2>1, <3>3
        <4> QED
          BY <3>1, <4>2, <4>3
      <3> QED
        BY <3>2, <3>3
    <2>4. OctetOf(e) = OctetOf(a) + OctetOf(b)
      BY <1>4, <2>1, <2>3, OctetSum
    <2> QED
      BY <1>3, <2>2, <2>4
  <1> QED
    BY <1>5, <1>6 DEF n

-----------------------------------------------------------------------------
(* The encoder.                                                            *)

(* Where the elements of two sequences are in both together. *)
LEMMA ConcatParts ==
    ASSUME NEW B, NEW s \in Seq(B), NEW t \in Seq(B)
    PROVE  /\ s \o t \in Seq(B) /\ Len(s \o t) = Len(s) + Len(t)
           /\ \A k \in 1..Len(s) : (s \o t)[k] = s[k]
           /\ \A k \in (Len(s) + 1)..(Len(s) + Len(t)) : (s \o t)[k] = t[k - Len(s)]
  <1>1. s \o t \in Seq(B) /\ Len(s \o t) = Len(s) + Len(t)
    OBVIOUS
  <1>2. ASSUME NEW k \in 1..Len(s) PROVE (s \o t)[k] = s[k]
    OBVIOUS
  <1>3. ASSUME NEW k \in (Len(s) + 1)..(Len(s) + Len(t)) PROVE (s \o t)[k] = t[k - Len(s)]
    OBVIOUS
  <1> QED
    BY <1>1, <1>2, <1>3

(* encoded[last] |= t touches the last byte only. *)
LEMMA OrLastValue ==
    ASSUME NEW enc \in Seq(Nat), enc # <<>>, NEW t \in Nat
    PROVE  /\ OrLast(enc, t) \in Seq(Nat) /\ Len(OrLast(enc, t)) = Len(enc)
           /\ OrLast(enc, t)[Len(enc)] = enc[Len(enc)] + t
           /\ \A k \in 1..(Len(enc) - 1) : OrLast(enc, t)[k] = enc[k]
  <1>1. Len(enc) \in 1..Len(enc) /\ enc[Len(enc)] \in Nat /\ enc[Len(enc)] + t \in Nat
    OBVIOUS
  <1> QED
    BY <1>1 DEF OrLast

(* What appendByteToHuffmanCode makes of a last byte with room for r bits: *)
(* bytes of the code are added from that byte on.                          *)
AppendedTo(enc, r, c, res) ==
    /\ res.encoded \in Seq(Nat) /\ res.rembits \in 1..8
    /\ Len(res.encoded) >= Len(enc)
    /\ 8 * Len(res.encoded) = 8 * Len(enc) - r + CodeLength(c)
                                + (IF res.rembits = 8 THEN 0 ELSE res.rembits)
    /\ \A k \in 1..(Len(enc) - 1) : res.encoded[k] = enc[k]
    /\ res.encoded[Len(enc)] = enc[Len(enc)] + ByteAt(c, r)
    /\ \A k \in (Len(enc) + 1)..Len(res.encoded) :
          res.encoded[k] = ByteAt(c, 8 * (k - Len(enc)) + r)

(* Whatever room the last byte has: the cases of appendByteToHuffmanCode. *)
LEMMA AppendBitsValue ==
    ASSUME NEW enc \in Seq(Nat), enc # <<>>, NEW r \in 1..8, NEW c \in Bytes
    PROVE  AppendedTo(enc, r, c, AppendBits([encoded |-> enc, rembits |-> r],
                                            Code(c), CodeLength(c)))
  <1> DEFINE L == CodeLength(c)
             n == Len(enc)
             res == AppendBits([encoded |-> enc, rembits |-> r], Code(c), L)
  <1>1. L \in 5..30 /\ n \in Nat /\ n >= 1
    BY CodeLengths
  <1> HIDE DEF L, n
  <1>2. \A p \in Int : ByteAt(c, p) \in Nat
    <2>1. \A p \in Int : ByteAt(c, p) \in Bytes
      BY ByteAtType
    <2>2. \A b \in Bytes : b \in Nat
      BY DEF Bytes
    <2> QED
      BY <2>1, <2>2
  <1>3. CASE r > L
    <2> DEFINE t == LowByte(Code(c), r - L)
               o == OrLast(enc, t)
    <2>1. r - L \in 0..7 /\ r - L \in 1..8 /\ r - L # 8 /\ L + (r - L) = r
      BY <1>1, <1>3
    <2>2. t = ByteAt(c, r)
      BY <2>1, LowByteAt DEF L
    <2>3. t \in Nat
      BY <1>2, <2>2
    <2>4. res.encoded = o /\ res.rembits = r - L
      BY <1>3 DEF AppendBits
    <2> HIDE DEF t, res
    <2>5. /\ o \in Seq(Nat) /\ Len(o) = n /\ o[n] = enc[n] + t
          /\ \A k \in 1..(n - 1) : o[k] = enc[k]
      BY <2>3, OrLastValue DEF n
    <2> HIDE DEF o
    <2>6. \A k \in (n + 1)..Len(res.encoded) : FALSE
      BY <1>1, <2>4, <2>5
    <2>7. 8 * n = 8 * n - r + L + (r - L)
      BY <1>1
    <2>8. AppendedTo(enc, r, c, res)
      BY <1>1, <2>1, <2>2, <2>4, <2>5, <2>6, <2>7 DEF AppendedTo, n, L
    <2> QED
      BY <2>8 DEF res, L
  <1>4. CASE ~(r > L)
    <2> DEFINE left == L - r
               few == left % 8
               q == left \div 8
               t == HighByte(Code(c), left)
               o == OrLast(enc, t)
               m == [j \in 1..q |-> HighByte(Code(c), left - 8 * j)]
               f == IF few = 0 THEN <<>> ELSE <<LowByte(Code(c), 8 - few)>>
    <2>1. /\ left \in 0..L /\ few \in 0..7 /\ q \in Nat /\ left = 8 * q + few
          /\ L - left = r
      BY <1>1, <1>4
    <2>2. res.encoded = (o \o m) \o f /\ res.rembits = 8 - few
      BY <1>4 DEF AppendBits
    <2> HIDE DEF res, few, q, left
    <2>3. t = ByteAt(c, r) /\ t \in Nat
      <3>1. t = ByteAt(c, L - left)
        BY <2>1, HighByteAt DEF L
      <3> QED
        BY <1>2, <2>1, <3>1
    <2>4. \A j \in 1..q : m[j] = ByteAt(c, 8 * j + r) /\ m[j] \in Nat
      <3> SUFFICES ASSUME NEW j \in 1..q PROVE m[j] = ByteAt(c, 8 * j + r) /\ m[j] \in Nat
        OBVIOUS
      <3>1. left - 8 * j \in 0..L /\ L - (left - 8 * j) = 8 * j + r /\ 8 * j + r \in Int
        BY <1>1, <2>1
      <3>2. HighByte(Code(c), left - 8 * j) = ByteAt(c, L - (left - 8 * j))
        BY <3>1, HighByteAt DEF L
      <3> QED
        BY <1>2, <3>1, <3>2
    <2>5. m \in Seq(Nat) /\ Len(m) = q
      BY <2>1, <2>4
    <2>6. few # 0 => f = <<ByteAt(c, 8 * (q + 1) + r)>>
      <3>1. few # 0 => 8 - few \in 0..7 /\ L + (8 - few) = 8 * (q + 1) + r
        BY <1>1, <2>1
      <3>2. few # 0 => LowByte(Code(c), 8 - few) = ByteAt(c, L + (8 - few))
        BY <3>1, LowByteAt DEF L
      <3> QED
        BY <3>1, <3>2
    <2>7. few = 0 => f = <<>>
      OBVIOUS
    <2> HIDE DEF t, m, f
    <2>8. /\ o \in Seq(Nat) /\ Len(o) = n /\ o[n] = enc[n] + t
          /\ \A k \in 1..(n - 1) : o[k] = enc[k]
      BY <2>3, OrLastValue DEF n
    <2> HIDE DEF o
    <2>9. f \in Seq(Nat) /\ Len(f) = (IF few = 0 THEN 0 ELSE 1)
      <3>1. 8 * (q + 1) + r \in Int
        BY <2>1
      <3>2. ByteAt(c, 8 * (q + 1) + r) \in Nat
        BY <1>2, <3>1
      <3>3. CASE few = 0
        BY <2>7, <3>3
      <3>4. CASE few # 0
        <4>1. \A x \in Nat : <<x>> \in Seq(Nat) /\ Len(<<x>>) = 1
          OBVIOUS
        <4> QED
          BY <2>6, <3>2, <3>4, <4>1
      <3> QED
        BY <3>3, <3>4
    <2> DEFINE all == (o \o m) \o f
    <2>10. /\ all \in Seq(Nat) /\ Len(all) = n + q + Len(f)
           /\ \A k \in 1..n : all[k] = o[k]
           /\ \A k \in (n + 1)..(n + q) : all[k] = m[k - n]
           /\ \A k \in (n + q + 1)..(n + q + Len(f)) : all[k] = f[k - (n + q)]
      <3> DEFINE front == o \o m
      <3>1. /\ front \in Seq(Nat) /\ Len(front) = n + q
            /\ \A k \in 1..n : front[k] = o[k]
            /\ \A k \in (n + 1)..(n + q) : front[k] = m[k - n]
        <4>1. /\ o \o m \in Seq(Nat) /\ Len(o \o m) = Len(o) + Len(m)
              /\ \A k \in 1..Len(o) : (o \o m)[k] = o[k]
              /\ \A k \in (Len(o) + 1)..(Len(o) + Len(m)) : (o \o m)[k] = m[k - Len(o)]
          BY <2>5, <2>8, ConcatParts
        <4> QED
          BY <2>5, <2>8, <4>1
      <3> HIDE DEF front
      <3>2. /\ front \o f \in Seq(Nat) /\ Len(front \o f) = n + q + Len(f)
            /\ \A k \in 1..(n + q) : (front \o f)[k] = front[k]
            /\ \A k \in (n + q + 1)..(n + q + Len(f)) : (front \o f)[k] = f[k - (n + q)]
        <4>1. /\ front \o f \in Seq(Nat) /\ Len(front \o f) = Len(front) + Len(f)
              /\ \A k \in 1..Len(front) : (front \o f)[k] = front[k]
              /\ \A k \in (Len(front) + 1)..(Len(front) + Len(f)) :
                    (front \o f)[k] = f[k - Len(front)]
          BY <2>9, <3>1, ConcatParts
        <4> QED
          BY <3>1, <4>1
      <3>3. \A k \in 1..n : k \in 1..(n + q)
        BY <1>1, <2>1
      <3>4. \A k \in (n + 1)..(n + q) : k \in 1..(n + q)
        BY <1>1, <2>1
      <3>5. all = front \o f
        BY DEF front
      <3> QED
        BY <3>1, <3>2, <3>3, <3>4, <3>5
    <2> HIDE DEF all
    <2>11. ASSUME NEW k \in (n + 1)..Len(all) PROVE all[k] = ByteAt(c, 8 * (k - n) + r)
      <3>1. CASE k <= n + q
        <4>1. k \in (n + 1)..(n + q) /\ k - n \in 1..q
          BY <1>1, <2>1, <3>1
        <4> QED
          BY <2>4, <2>10, <4>1
      <3>2. CASE ~(k <= n + q)
        <4>1. few # 0 /\ k = n + q + 1
          BY <1>1, <2>1, <2>9, <2>10, <3>2
        <4>2. k - n = q + 1 /\ k - (n + q) = 1 /\ k \in (n + q + 1)..(n + q + Len(f))
          BY <1>1, <2>1, <2>9, <4>1
        <4>3. all[k] = f[1]
          BY <2>10, <4>2
        <4> QED
          BY <2>6, <4>1, <4>2, <4>3
      <3> QED
        BY <3>1, <3>2
    <2>12. 8 * Len(all) = 8 * n - r + L + (IF 8 - few = 8 THEN 0 ELSE 8 - few)
      <3>1. CASE few = 0
        BY <1>1, <2>1, <2>9, <2>10, <3>1
      <3>2. CASE few # 0
        BY <1>1, <2>1, <2>9, <2>10, <3>2
      <3> QED
        BY <3>1, <3>2
    <2>13. /\ 8 - few \in 1..8 /\ Len(all) >= n
           /\ all[n] = enc[n] + ByteAt(c, r)
           /\ \A k \in 1..(n - 1) : all[k] = enc[k]
      <3>1. 8 - few \in 1..8 /\ Len(all) >= n
        BY <1>1, <2>1, <2>9, <2>10
      <3>2. n \in 1..n /\ \A k \in 1..(n - 1) : k \in 1..n
        BY <1>1
      <3> QED
        BY <2>3, <2>8, <2>10, <3>1, <3>2
    <2>14. AppendedTo(enc, r, c, res)
      <3>1. res.encoded = all
        BY <2>2 DEF all
      <3> QED
        BY <2>2, <2>10, <2>11, <2>12, <2>13, <3>1 DEF AppendedTo, n, L
    <2> QED
      BY <2>14 DEF res, L
  <1> QED
    BY <1>3, <1>4

(* The bits of a string: those of one more byte come after them. *)
LEMMA RefBitsGrow ==
    /\ RefBits(<<>>) = <<>>
    /\ \A s \in Seq(Bytes), c \in Bytes : RefBits(Append(s, c)) = RefBits(s) \o CodeBits(c)
    /\ \A s \in Seq(Bytes) : RefBits(s) \in Seq({0, 1})
  <1> DEFINE Codes(s) == [i \in 1..Len(s) |-> CodeBits(s[i])]
  <1>1. \A s : RefBits(s) = FlattenSeq(Codes(s))
    BY DEF RefBits, CodeBits
  <1>2. RefBits(<<>>) = <<>>
    <2>1. Codes(<<>>) = <<>>
      OBVIOUS
    <2> QED
      BY <1>1, <2>1, FlattenType
  <1>3. \A c \in Bytes : CodeBits(c) \in Seq({0, 1})
    BY CodeBitsType
  <1>4. ASSUME NEW s \in Seq(Bytes) PROVE Codes(s) \in Seq(Seq({0, 1}))
    <2> DEFINE V == Seq({0, 1})
    <2>1. \A i \in 1..Len(s) : CodeBits(s[i]) \in V
      BY <1>3
    <2> HIDE DEF V
    <2>2. Codes(s) \in Seq(V)
      BY <2>1
    <2> QED
      BY <2>2 DEF V
  <1>5. ASSUME NEW s \in Seq(Bytes), NEW c \in Bytes
        PROVE  Codes(Append(s, c)) = Append(Codes(s), CodeBits(c))
    <2> DEFINE t == Append(s, c)
    <2>1. /\ Len(t) = Len(s) + 1 /\ Len(s) \in Nat /\ t[Len(s) + 1] = c
          /\ \A i \in 1..Len(s) : t[i] = s[i]
      OBVIOUS
    <2>2. Len(Codes(s)) = Len(s) /\ Codes(s) \in Seq(Seq({0, 1}))
      BY <1>4
    <2> DEFINE V == Seq({0, 1})
    <2> HIDE DEF t
    <2>3. Codes(t) = Append(Codes(s), CodeBits(c))
      BY <2>1, <2>2
    <2> QED
      BY <2>3 DEF t
  <1> HIDE DEF Codes
  <1>6. ASSUME NEW s \in Seq(Bytes), NEW c \in Bytes
        PROVE  RefBits(Append(s, c)) = RefBits(s) \o CodeBits(c)
    BY <1>1, <1>3, <1>4, <1>5, FlattenAppend
  <1>7. \A s \in Seq(Bytes) : RefBits(s) \in Seq({0, 1})
    BY <1>1, <1>4, FlattenType
  <1> QED
    BY <1>2, <1>6, <1>7

-----------------------------------------------------------------------------
(* The fold of appendByteToHuffmanCode over a string, and that of the      *)
(* lengths of the codes.                                                   *)

(* What the loop of huffmanEncode keeps between two bytes of the string. *)
Encoders == {e \in [encoded : Seq(Nat), rembits : 1..8] : e.rembits < 8 => e.encoded # <<>>}
NothingEncoded == [encoded |-> <<>>, rembits |-> 8]

Encoding == INSTANCE FoldLaws WITH V <- Encoders, B <- Bytes, op <- AppendByteToHuffmanCode

(* The loop of huffmanEncodeLength. *)
AddLength(n, c) == n + CodeLength(c)

Counting == INSTANCE FoldLaws WITH V <- Nat, B <- Bytes, op <- AddLength

(* The bytes so far hold the bits so far and, in the last, rembits zeros. *)
Holds(e, bits) ==
    /\ e \in Encoders
    /\ 8 * Len(e.encoded) = Len(bits) + (IF e.rembits = 8 THEN 0 ELSE e.rembits)
    /\ \A k \in 1..Len(e.encoded) : e.encoded[k] = Octet(bits, 0, k)

(* With a byte that has room for the next code. *)
Room(e) == IF e.rembits = 8 THEN Append(e.encoded, 0) ELSE e.encoded

(* appendByteToHuffmanCode adds the code behind what is there, in a new    *)
(* byte where the last is full.                                            *)
LEMMA AppendByteValue ==
    ASSUME NEW e \in Encoders, NEW c \in Bytes
    PROVE  /\ Room(e) \in Seq(Nat) /\ Room(e) # <<>> /\ e.rembits \in 1..8
           /\ AppendedTo(Room(e), e.rembits, c, AppendByteToHuffmanCode(e, c))
  <1>1. e \in [encoded : Seq(Nat), rembits : 1..8] /\ (e.rembits < 8 => e.encoded # <<>>)
    BY DEF Encoders
  <1>2. /\ e.encoded \in Seq(Nat) /\ e.rembits \in 1..8
        /\ e = [encoded |-> e.encoded, rembits |-> e.rembits]
    BY <1>1
  <1>3. Room(e) \in Seq(Nat) /\ Room(e) # <<>>
    <2>1. ASSUME NEW s \in Seq(Nat) PROVE Append(s, 0) \in Seq(Nat) /\ Append(s, 0) # <<>>
      <3>1. Append(s, 0) \in Seq(Nat) /\ Len(Append(s, 0)) = Len(s) + 1 /\ Len(s) + 1 # 0
        OBVIOUS
      <3>2. Len(<<>>) = 0
        OBVIOUS
      <3> QED
        BY <3>1, <3>2, Zenon
    <2>2. CASE e.rembits = 8
      BY <1>2, <2>1, <2>2 DEF Room
    <2>3. CASE e.rembits # 8
      <3>1. e.rembits < 8
        BY <1>2, <2>3
      <3> QED
        BY <1>1, <1>2, <2>3, <3>1 DEF Room
    <2> QED
      BY <2>2, <2>3
  <1>4. (IF e.rembits = 8 THEN [e EXCEPT !.encoded = Append(@, 0)] ELSE e)
          = [encoded |-> Room(e), rembits |-> e.rembits]
    <2>1. CASE e.rembits = 8
      BY <1>1, <2>1 DEF Room
    <2>2. CASE e.rembits # 8
      BY <1>2, <2>2 DEF Room
    <2> QED
      BY <2>1, <2>2
  <1>5. AppendByteToHuffmanCode(e, c) =
          AppendBits([encoded |-> Room(e), rembits |-> e.rembits], Code(c), CodeLength(c))
    BY <1>4 DEF AppendByteToHuffmanCode
  <1>6. AppendedTo(Room(e), e.rembits, c,
                   AppendBits([encoded |-> Room(e), rembits |-> e.rembits],
                              Code(c), CodeLength(c)))
    BY <1>2, <1>3, AppendBitsValue
  <1> QED
    BY <1>2, <1>3, <1>5, <1>6

(* It leaves what it can be called with again, *)
LEMMA EncoderSteps ==
    ASSUME NEW e \in Encoders, NEW c \in Bytes
    PROVE  AppendByteToHuffmanCode(e, c) \in Encoders
  <1> DEFINE res == AppendByteToHuffmanCode(e, c)
             enc == Room(e)
  <1>1. /\ enc \in Seq(Nat) /\ enc # <<>> /\ e.rembits \in 1..8
        /\ AppendedTo(enc, e.rembits, c, res)
    BY AppendByteValue
  <1>2. /\ res.encoded \in Seq(Nat) /\ res.rembits \in 1..8 /\ Len(res.encoded) >= Len(enc)
    BY <1>1 DEF AppendedTo
  <1>3. Len(enc) > 0
    BY <1>1
  <1>4. res.encoded # <<>>
    BY <1>2, <1>3
  <1>5. \E x, y : res = [encoded |-> x, rembits |-> y]
    BY DEF AppendByteToHuffmanCode, AppendBits
  <1> HIDE DEF res
  <1>6. res \in [encoded : Seq(Nat), rembits : 1..8]
    BY <1>2, <1>5
  <1> QED
    BY <1>4, <1>6 DEF Encoders, res

(* and what it leaves holds the bits of one byte more. *)
LEMMA HoldsSteps ==
    ASSUME NEW e, NEW bits \in Seq({0, 1}), Holds(e, bits), NEW c \in Bytes
    PROVE  Holds(AppendByteToHuffmanCode(e, c), bits \o CodeBits(c))
  <1> DEFINE res == AppendByteToHuffmanCode(e, c)
             enc == Room(e)
             r == e.rembits
             L == CodeLength(c)
             n == Len(enc)
             more == bits \o CodeBits(c)
  <1>1. /\ e \in Encoders
        /\ 8 * Len(e.encoded) = Len(bits) + (IF r = 8 THEN 0 ELSE r)
        /\ \A k \in 1..Len(e.encoded) : e.encoded[k] = Octet(bits, 0, k)
    BY DEF Holds
  <1>2. enc \in Seq(Nat) /\ enc # <<>> /\ r \in 1..8 /\ AppendedTo(enc, r, c, res)
    BY <1>1, AppendByteValue
  <1>3. res \in Encoders
    BY <1>1, EncoderSteps
  <1>4. e.encoded \in Seq(Nat) /\ Len(bits) \in Nat /\ n \in Nat /\ n >= 1
    BY <1>1, <1>2 DEF Encoders
  <1>5. 8 * n = Len(bits) + r /\ \A k \in 1..n : enc[k] = Octet(bits, 0, k)
    <2>1. CASE r = 8
      <3>1. enc = Append(e.encoded, 0)
        BY <2>1 DEF Room
      <3>2. n = Len(e.encoded) + 1 /\ enc[n] = 0 /\ \A k \in 1..(n - 1) : enc[k] = e.encoded[k]
        BY <1>4, <3>1
      <3>3. 8 * n = Len(bits) + 8 /\ \A k \in 1..(n - 1) : enc[k] = Octet(bits, 0, k)
        <4>1. Len(e.encoded) = n - 1 /\ 8 * Len(e.encoded) = Len(bits)
          BY <1>1, <1>4, <2>1, <3>2
        <4>2. 8 * n = Len(bits) + 8
          BY <1>4, <4>1
        <4> HIDE DEF n, enc
        <4> QED
          BY <1>1, <3>2, <4>1, <4>2
      <3>4. Octet(bits, 0, n) = 0
        <4>1. n \in Nat \ {0} /\ Len(bits) <= 8 * (n - 1)
          BY <1>4, <3>3
        <4> HIDE DEF n
        <4> QED
          BY <4>1, OctetPast
      <3>5. \A k \in 1..n : k \in 1..(n - 1) \/ k = n
        BY <1>4
      <3> QED
        BY <2>1, <3>2, <3>3, <3>4, <3>5
    <2>2. CASE r # 8
      <3>1. enc = e.encoded
        BY <2>2 DEF Room
      <3> QED
        BY <1>1, <2>2, <3>1
    <2> QED
      BY <2>1, <2>2
  <1>6. /\ Len(CodeBits(c)) = L /\ L \in Nat /\ CodeBits(c) \in Seq({0, 1})
        /\ Len(more) = Len(bits) + L
    <2>1. Len(CodeBits(c)) = L /\ CodeBits(c) \in Seq({0, 1}) /\ L \in Nat
      BY CodeBitsType, CodeLengths
    <2> QED
      BY <2>1
  <1> HIDE DEF res, enc, n, L, more, r
  <1>7. 8 * Len(res.encoded) = Len(more) + (IF res.rembits = 8 THEN 0 ELSE res.rembits)
    <2>1. 8 * Len(res.encoded) = 8 * n - r + L + (IF res.rembits = 8 THEN 0 ELSE res.rembits)
      BY <1>2 DEF AppendedTo, n, L
    <2>2. 8 * n - r + L = Len(more)
      <3>1. r \in Int /\ n \in Int /\ L \in Int /\ Len(bits) \in Int
        BY <1>2, <1>4, <1>6
      <3>2. 8 * n = Len(bits) + r /\ Len(more) = Len(bits) + L
        BY <1>5, <1>6
      <3> QED
        BY <3>1, <3>2
    <2> QED
      BY <2>1, <2>2
  <1>8. ASSUME NEW k \in 1..Len(res.encoded) PROVE res.encoded[k] = Octet(more, 0, k)
    <2> DEFINE p == 8 * k - Len(bits)
    <2>1. k \in Nat \ {0} /\ p \in Int
      BY <1>4
    <2>2. Octet(more, 0, k) = Octet(bits, 0, k) + ByteAt(c, p)
      BY <2>1, OctetGrows DEF more
    <2>3. Octet(bits, 0, k) \in Int /\ ByteAt(c, p) \in Int
      <3>1. Octet(bits, 0, k) \in Bytes /\ ByteAt(c, p) \in Bytes
        BY <2>1, OctetType, ByteAtType
      <3>2. \A b \in Bytes : b \in Int
        BY DEF Bytes
      <3> QED
        BY <3>1, <3>2
    <2> HIDE DEF p
    <2>4. CASE k < n
      <3>1. k \in 1..(n - 1) /\ k \in 1..n /\ p <= 0
        BY <1>2, <1>4, <1>5, <2>1, <2>4 DEF p
      <3>2. res.encoded[k] = enc[k]
        BY <1>2, <3>1 DEF AppendedTo, n
      <3>3. ByteAt(c, p) = 0
        BY <2>1, <3>1, ByteBefore
      <3> QED
        BY <1>5, <2>2, <2>3, <3>1, <3>2, <3>3
    <2>5. CASE k = n
      <3>1. res.encoded[k] = enc[k] + ByteAt(c, r)
        BY <1>2, <2>5 DEF AppendedTo, n
      <3>2. p = r /\ k \in 1..n
        BY <1>2, <1>4, <1>5, <2>5 DEF p
      <3> QED
        BY <1>5, <2>2, <3>1, <3>2
    <2>6. CASE k > n
      <3>1. k \in (n + 1)..Len(res.encoded)
        BY <1>4, <2>1, <2>6
      <3>2. res.encoded[k] = ByteAt(c, 8 * (k - n) + r)
        BY <1>2, <3>1 DEF AppendedTo, n
      <3>3. p = 8 * (k - n) + r /\ Len(bits) <= 8 * (k - 1)
        <4>1. r \in 1..8 /\ n \in Int /\ Len(bits) \in Int /\ 8 * n = Len(bits) + r
          BY <1>2, <1>4, <1>5
        <4> QED
          BY <2>1, <2>6, <4>1 DEF p
      <3>4. Octet(bits, 0, k) = 0
        BY <2>1, <3>3, OctetPast
      <3> QED
        BY <2>2, <2>3, <3>2, <3>3, <3>4
    <2> QED
      BY <1>4, <2>1, <2>4, <2>5, <2>6
  <1> QED
    BY <1>3, <1>7, <1>8 DEF Holds, res, more

(* The encoder's fold holds the bits of the string. *)
LEMMA EncodingHolds ==
    \A s \in Seq(Bytes) : Holds(Encoding!Fold(NothingEncoded, s), RefBits(s))
  <1> DEFINE S == {s \in Seq(Bytes) : Holds(Encoding!Fold(NothingEncoded, s), RefBits(s))}
  <1>1. Encoding!Closed
    BY EncoderSteps DEF Encoding!Closed
  <1>2. NothingEncoded \in Encoders
    BY DEF NothingEncoded, Encoders
  <1>3. <<>> \in S
    <2>1. Encoding!Fold(NothingEncoded, <<>>) = NothingEncoded
      BY <1>1, <1>2, Encoding!FoldEmpty
    <2>2. Holds(NothingEncoded, <<>>)
      BY <1>2 DEF Holds, NothingEncoded
    <2>3. RefBits(<<>>) = <<>>
      BY RefBitsGrow
    <2> QED
      BY <2>1, <2>2, <2>3
  <1>4. ASSUME NEW s \in Seq(Bytes), NEW c \in Bytes, s \in S PROVE Append(s, c) \in S
    <2>1. Encoding!Fold(NothingEncoded, Append(s, c)) =
            AppendByteToHuffmanCode(Encoding!Fold(NothingEncoded, s), c)
      BY <1>1, <1>2, Encoding!FoldAppend
    <2>2. RefBits(s) \in Seq({0, 1}) /\ RefBits(Append(s, c)) = RefBits(s) \o CodeBits(c)
      BY RefBitsGrow
    <2>3. Holds(AppendByteToHuffmanCode(Encoding!Fold(NothingEncoded, s), c),
                RefBits(s) \o CodeBits(c))
      BY <1>4, <2>2, HoldsSteps
    <2>4. Append(s, c) \in Seq(Bytes)
      OBVIOUS
    <2> QED
      BY <2>1, <2>2, <2>3, <2>4
  <1> HIDE DEF S
  <1>5. \A s \in Seq(Bytes) : s \in S
    BY <1>3, <1>4, SeqInduction
  <1> QED
    BY <1>5 DEF S

(* HuffmanEncodeLength counts those bits, in bytes. *)
LEMMA CountingBits ==
    \A s \in Seq(Bytes) : Counting!Fold(0, s) = Len(RefBits(s))
  <1> DEFINE S == {s \in Seq(Bytes) : Counting!Fold(0, s) = Len(RefBits(s))}
  <1>1. Counting!Closed
    <2>1. \A c \in Bytes : CodeLength(c) \in Nat
      BY CodeLengths
    <2> QED
      BY <2>1 DEF Counting!Closed, AddLength
  <1>2. <<>> \in S
    <2>1. Counting!Fold(0, <<>>) = 0
      BY <1>1, Counting!FoldEmpty
    <2>2. Len(RefBits(<<>>)) = 0
      BY RefBitsGrow
    <2> QED
      BY <2>1, <2>2
  <1>3. ASSUME NEW s \in Seq(Bytes), NEW c \in Bytes, s \in S PROVE Append(s, c) \in S
    <2>1. Counting!Fold(0, Append(s, c)) = Counting!Fold(0, s) + CodeLength(c)
      BY <1>1, Counting!FoldAppend DEF AddLength
    <2>2. /\ RefBits(s) \in Seq({0, 1}) /\ RefBits(Append(s, c)) = RefBits(s) \o CodeBits(c)
          /\ CodeBits(c) \in Seq({0, 1}) /\ Len(CodeBits(c)) = CodeLength(c)
      BY RefBitsGrow, CodeBitsType
    <2>3. \A x, y \in Seq({0, 1}) : Len(x \o y) = Len(x) + Len(y)
      OBVIOUS
    <2>4. Len(RefBits(Append(s, c))) = Len(RefBits(s)) + CodeLength(c)
      BY <2>2, <2>3
    <2> QED
      BY <1>3, <2>1, <2>4
  <1> HIDE DEF S
  <1>4. \A s \in Seq(Bytes) : s \in S
    BY <1>2, <1>3, SeqInduction
  <1> QED
    BY <1>4 DEF S

(* huffmanEncodeLength rounds the number of bits up to bytes. *)
LEMMA HuffmanEncodeLengthValue ==
    ASSUME NEW s \in Seq(Bytes)
    PROVE  /\ HuffmanEncodeLength(s) = (Len(RefBits(s)) + 7) \div 8
           /\ HuffmanEncodeLength(s) \in Nat
  <1>1. HuffmanEncodeLength(s) = (Counting!Fold(0, s) + 7) \div 8
    BY DEF HuffmanEncodeLength, Counting!Fold, AddLength, Counting!FoldLeft, FoldLeft,
           Counting!MapThenFoldSet, MapThenFoldSet, Counting!Max, Max
  <1>2. RefBits(s) \in Seq({0, 1})
    BY RefBitsGrow
  <1>3. Len(RefBits(s)) \in Nat
    BY <1>2
  <1> QED
    BY <1>1, <1>3, CountingBits

(* The last byte is filled up with ones. *)
LEMMA EosBits ==
    ASSUME NEW r \in 1..7
    PROVE  HighByte(2^30 - 1, 30 - r) = 2^r - 1
  <1> DEFINE ones == 1073741823
  <1>1. 2^30 - 1 = ones
    OBVIOUS
  <1>2. /\ (ones \div 2^(30 - 1)) % 256 = 2^1 - 1
        /\ (ones \div 2^(30 - 2)) % 256 = 2^2 - 1
        /\ (ones \div 2^(30 - 3)) % 256 = 2^3 - 1
        /\ (ones \div 2^(30 - 4)) % 256 = 2^4 - 1
        /\ (ones \div 2^(30 - 5)) % 256 = 2^5 - 1
        /\ (ones \div 2^(30 - 6)) % 256 = 2^6 - 1
        /\ (ones \div 2^(30 - 7)) % 256 = 2^7 - 1
    OBVIOUS
  <1> HIDE DEF ones
  <1>3. r = 1 \/ r = 2 \/ r = 3 \/ r = 4 \/ r = 5 \/ r = 6 \/ r = 7
    OBVIOUS
  <1>4. (ones \div 2^(30 - r)) % 256 = 2^r - 1
    BY <1>2, <1>3, ZenonT(60)
  <1> QED
    BY <1>1, <1>4 DEF HighByte

(* huffmanEncode writes what the RFC has for the string. *)
LEMMA HuffmanEncodeValue ==
    ASSUME NEW s \in Seq(Bytes)
    PROVE  /\ HuffmanEncode(s) = RefHuffman(s)
           /\ HuffmanEncode(s) \in Seq(Nat)
           /\ Len(HuffmanEncode(s)) = HuffmanEncodeLength(s)
  <1> DEFINE e == Encoding!Fold(NothingEncoded, s)
             bits == RefBits(s)
             n == Len(e.encoded)
             r == e.rembits
             out == HuffmanEncode(s)
  <1>1. out = IF r = 8 THEN e.encoded ELSE OrLast(e.encoded, HighByte(2^30 - 1, 30 - r))
    BY DEF HuffmanEncode, Encoding!Fold, NothingEncoded, Encoding!FoldLeft, FoldLeft,
           Encoding!MapThenFoldSet, MapThenFoldSet, Encoding!Max, Max
  <1>2. Holds(e, bits) /\ bits \in Seq({0, 1})
    BY EncodingHolds, RefBitsGrow
  <1> HIDE DEF e, bits, out
  <1>3. /\ e.encoded \in Seq(Nat) /\ r \in 1..8 /\ (r < 8 => e.encoded # <<>>)
        /\ 8 * n = Len(bits) + (IF r = 8 THEN 0 ELSE r)
        /\ \A k \in 1..n : e.encoded[k] = Octet(bits, 0, k)
    BY <1>2 DEF Holds, Encoders
  <1>4. n \in Nat /\ Len(bits) \in Nat
    BY <1>2, <1>3
  <1>5. /\ out \in Seq(Nat) /\ Len(out) = n
        /\ \A k \in 1..n : out[k] = Octet(bits, 1, k)
        /\ n = (Len(bits) + 7) \div 8
    <2>1. CASE r = 8
      <3>1. out = e.encoded /\ 8 * n = Len(bits)
        BY <1>1, <1>3, <2>1
      <3>2. n = (Len(bits) + 7) \div 8
        BY <1>4, <3>1
      <3>3. ASSUME NEW k \in 1..n PROVE out[k] = Octet(bits, 1, k)
        <4>1. k \in Nat \ {0} /\ 8 * k <= Len(bits)
          BY <1>4, <3>1
        <4>2. Octet(bits, 1, k) = Octet(bits, 0, k)
          BY <1>2, <4>1, OctetFilled
        <4> QED
          BY <1>3, <3>1, <4>2
      <3> QED
        BY <1>3, <3>1, <3>2, <3>3
    <2>2. CASE r # 8
      <3> DEFINE t == HighByte(2^30 - 1, 30 - r)
      <3>1. r \in 1..7 /\ 8 * n = Len(bits) + r /\ e.encoded # <<>>
        BY <1>3, <2>2
      <3>2. out = OrLast(e.encoded, t)
        BY <1>1, <2>2
      <3>3. t = 2^r - 1 /\ t \in Nat
        <4>1. r \in 0..30
          BY <3>1
        <4>2. 2^r \in Nat \ {0}
          BY <4>1, Doubling
        <4>3. t = 2^r - 1
          BY <3>1, EosBits
        <4> QED
          BY <4>2, <4>3
      <3> HIDE DEF t
      <3>4. /\ out \in Seq(Nat) /\ Len(out) = n /\ out[n] = e.encoded[n] + t
            /\ \A k \in 1..(n - 1) : out[k] = e.encoded[k]
        BY <1>3, <3>1, <3>2, <3>3, OrLastValue
      <3>5. n = (Len(bits) + 7) \div 8
        <4>1. \A x, y \in Nat, z \in 1..7 : 8 * x = y + z => x = (y + 7) \div 8
          OBVIOUS
        <4> QED
          BY <1>4, <3>1, <4>1
      <3>6. ASSUME NEW k \in 1..n PROVE out[k] = Octet(bits, 1, k)
        <4>1. CASE k = n
          <5>1. k \in Nat \ {0} /\ 8 * k = Len(bits) + r
            BY <3>1, <4>1
          <5>2. Octet(bits, 1, k) = Octet(bits, 0, k) + (2^r - 1)
            BY <1>2, <3>1, <5>1, OctetFilled
          <5> QED
            BY <1>3, <3>3, <3>4, <4>1, <5>2
        <4>2. CASE k # n
          <5>1. k \in Nat \ {0} /\ 8 * k <= Len(bits) /\ k \in 1..(n - 1)
            <6>1. \A x, y \in Nat, z \in 1..7 : \A i \in 1..x :
                    8 * x = y + z /\ i # x => i \in Nat \ {0} /\ 8 * i <= y /\ i \in 1..(x - 1)
              OBVIOUS
            <6> QED
              BY <1>4, <3>1, <4>2, <6>1
          <5>2. Octet(bits, 1, k) = Octet(bits, 0, k)
            BY <1>2, <5>1, OctetFilled
          <5> QED
            BY <1>3, <3>4, <5>1, <5>2
        <4> QED
          BY <4>1, <4>2
      <3> QED
        BY <3>4, <3>5, <3>6
    <2> QED
      BY <2>1, <2>2
  <1>6. RefHuffman(s) = [k \in 1..((Len(bits) + 7) \div 8) |-> Octet(bits, 1, k)]
    BY DEF RefHuffman, bits, Octet, Octet8, Bit
  <1>7. out = [k \in 1..n |-> Octet(bits, 1, k)]
    <2>1. out = [k \in 1..n |-> out[k]]
      BY <1>5
    <2> QED
      BY <1>5, <2>1
  <1>8. Len(out) = HuffmanEncodeLength(s)
    BY <1>5, HuffmanEncodeLengthValue DEF bits
  <1> QED
    BY <1>5, <1>6, <1>7, <1>8 DEF out

-----------------------------------------------------------------------------
(* The integers are those of the RFC.                                      *)

(* The powers by which it cuts an integer up. *)
Grouping(d) == 128^d

(* Each is the one before shifted by seven. *)
LEMMA Groupings ==
    /\ Grouping(0) = 1 /\ Grouping(1) = 128
    /\ \A d \in 0..5 : Grouping(d) \in Nat \ {0}
    /\ \A d \in 0..4 : Grouping(d + 1) = 128 * Grouping(d)
  <1>1. 128^0 = 1 /\ 128^1 = 128
    OBVIOUS
  <1>2. /\ 128^0 \in Nat \ {0} /\ 128^1 \in Nat \ {0} /\ 128^2 \in Nat \ {0}
        /\ 128^3 \in Nat \ {0} /\ 128^4 \in Nat \ {0} /\ 128^5 \in Nat \ {0}
    OBVIOUS
  <1>3. /\ 128^(0 + 1) = 128 * 128^0 /\ 128^(1 + 1) = 128 * 128^1 /\ 128^(2 + 1) = 128 * 128^2
        /\ 128^(3 + 1) = 128 * 128^3 /\ 128^(4 + 1) = 128 * 128^4
    OBVIOUS
  <1>4. ASSUME NEW d \in 0..5 PROVE 128^d \in Nat \ {0}
    <2>1. d = 0 \/ d = 1 \/ d = 2 \/ d = 3 \/ d = 4 \/ d = 5
      OBVIOUS
    <2> QED
      BY <1>2, <2>1, ZenonT(60)
  <1>5. ASSUME NEW d \in 0..4 PROVE 128^(d + 1) = 128 * 128^d
    <2>1. d = 0 \/ d = 1 \/ d = 2 \/ d = 3 \/ d = 4
      OBVIOUS
    <2> QED
      BY <1>3, <2>1, ZenonT(60)
  <1>6. /\ \A d \in 0..5 : 128^d \in Nat \ {0}
        /\ \A d \in 0..4 : 128^(d + 1) = 128 * 128^d
    BY <1>4, <1>5
  <1> QED
    BY <1>1, <1>6, Zenon DEF Grouping

(* The groups of seven bits of an integer that takes D of them. *)
HasGroups(i, D) == i < Grouping(D) /\ \A e \in 1..(D - 1) : i >= Grouping(e)

(* What the RFC makes of them. *)
Groups(i, D) ==
    [d \in 1..D |-> (IF d < D THEN 128 ELSE 0) + ((i \div Grouping(d - 1)) % 128)]

(* Every integer less than 2^35 takes one to five groups, *)
LEMMA GroupsExist ==
    ASSUME NEW i \in Nat, i < Grouping(5)
    PROVE  \E D \in 1..5 : HasGroups(i, D)
  <1> DEFINE T == {d \in 1..5 : i < Grouping(d)}
  <1>1. T \subseteq Nat /\ T # {}
    <2>1. 5 \in 1..5 /\ i < Grouping(5) /\ 1..5 \subseteq Nat
      OBVIOUS
    <2> QED
      BY <2>1
  <1>2. PICK D \in T : \A d \in T : D <= d
    BY <1>1, Adding!LeastNat
  <1>3. D \in 1..5 /\ i < Grouping(D)
    BY <1>2
  <1>4. ASSUME NEW e \in 1..(D - 1) PROVE i >= Grouping(e)
    <2>1. e \in 1..5 /\ ~(D <= e)
      BY <1>3
    <2>2. e \notin T
      BY <1>2, <2>1
    <2>3. ~(i < Grouping(e))
      BY <2>1, <2>2
    <2>4. Grouping(e) \in Int
      BY <2>1, Groupings
    <2> HIDE DEF T
    <2> QED
      BY <2>3, <2>4
  <1> QED
    BY <1>3, <1>4 DEF HasGroups

(* and only one number of them has the first group not zero. *)
LEMMA GroupsUnique ==
    ASSUME NEW i \in Nat, NEW D \in 1..5, NEW E \in 1..5, HasGroups(i, D), HasGroups(i, E)
    PROVE  D = E
  <1>1. ASSUME NEW d \in 1..5, NEW e \in 1..5, HasGroups(i, d), HasGroups(i, e)
        PROVE  ~(d < e)
    <2> SUFFICES ASSUME d < e PROVE FALSE
      OBVIOUS
    <2>1. d \in 1..(e - 1) /\ Grouping(d) \in Int
      BY Groupings
    <2>2. i >= Grouping(d) /\ i < Grouping(d)
      BY <1>1, <2>1 DEF HasGroups
    <2> QED
      BY <2>1, <2>2
  <1>2. ~(D < E) /\ ~(E < D)
    BY <1>1
  <1> QED
    BY <1>2

(* They are what Sevens writes. *)
LEMMA SevensGroups ==
    \A D \in 1..5 : \A i \in Nat : HasGroups(i, D) => Sevens[i] = Groups(i, D)
  <1> DEFINE S == {n \in Nat : n \in 0..4 => \A i \in Nat :
                                HasGroups(i, n + 1) => Sevens[i] = Groups(i, n + 1)}
  <1>1. 0 \in S
    <2>1. ASSUME NEW i \in Nat, HasGroups(i, 1) PROVE Sevens[i] = Groups(i, 1)
      <3>1. i < 128 /\ i \div Grouping(0) = i /\ i % 128 = i
        <4>1. i < 128
          BY <2>1, Groupings DEF HasGroups
        <4>2. i \div 1 = i /\ i % 128 = i
          BY <4>1
        <4> QED
          BY <4>1, <4>2, Groupings
      <3>2. Sevens[i] = <<i>>
        BY <3>1, SevensStep
      <3>3. Groups(i, 1) = [d \in 1..1 |-> i]
        <4>1. ASSUME NEW d \in 1..1
              PROVE  (IF d < 1 THEN 128 ELSE 0) + ((i \div Grouping(d - 1)) % 128) = i
          <5>1. d = 1
            OBVIOUS
          <5>2. (i \div Grouping(1 - 1)) % 128 = i
            BY <3>1
          <5> QED
            BY <5>1, <5>2
        <4> QED
          BY <4>1 DEF Groups
      <3> QED
        BY <3>2, <3>3
    <2> QED
      BY <2>1
  <1>2. ASSUME NEW n \in Nat, n \in S PROVE n + 1 \in S
    <2> SUFFICES ASSUME n + 1 \in 0..4, NEW i \in Nat, HasGroups(i, (n + 1) + 1)
                 PROVE  Sevens[i] = Groups(i, (n + 1) + 1)
      OBVIOUS
    <2> DEFINE D == n + 1
               j == i \div 128
    <2>1. D \in 1..4 /\ D - 1 = n /\ n \in 0..4 /\ j \in Nat
      OBVIOUS
    <2>2. i < 128 * Grouping(D) /\ \A e \in 1..D : i >= Grouping(e)
      <3>1. i < Grouping(D + 1) /\ \A e \in 1..((D + 1) - 1) : i >= Grouping(e)
        BY DEF HasGroups
      <3>2. Grouping(D + 1) = 128 * Grouping(D) /\ (D + 1) - 1 = D
        BY <2>1, Groupings
      <3> QED
        BY <3>1, <3>2
    <2>3. i >= 128
      <3>1. 1 \in 1..D
        BY <2>1
      <3> QED
        BY <2>2, <3>1, Groupings
    <2>4. HasGroups(j, D)
      <3>1. j < Grouping(D)
        <4>1. Grouping(D) \in Nat \ {0} /\ 128 \in Nat \ {0}
          BY <2>1, Groupings
        <4> QED
          BY <2>2, <4>1, DivLess
      <3>2. ASSUME NEW e \in 1..(D - 1) PROVE j >= Grouping(e)
        <4>1. e + 1 \in 1..D /\ e \in 0..4
          BY <2>1
        <4>2. i >= 128 * Grouping(e) /\ Grouping(e) \in Nat
          BY <2>2, <4>1, Groupings
        <4>3. \A x \in Nat : i >= 128 * x => i \div 128 >= x
          OBVIOUS
        <4> QED
          BY <4>2, <4>3
      <3> QED
        BY <3>1, <3>2 DEF HasGroups
    <2>5. Sevens[j] = Groups(j, D)
      BY <1>2, <2>1, <2>4
    <2>6. Sevens[i] = <<128 + (i % 128)>> \o Groups(j, D)
      BY <2>3, <2>5, SevensStep
    <2> DEFINE G(d) == (IF d < D THEN 128 ELSE 0) + ((j \div Grouping(d - 1)) % 128)
               H(d) == (IF d < D + 1 THEN 128 ELSE 0) + ((i \div Grouping(d - 1)) % 128)
    <2>7. H(1) = 128 + (i % 128)
      <3>1. 1 < D + 1
        BY <2>1
      <3>2. i \div Grouping(1 - 1) = i
        <4>1. i \div 1 = i
          OBVIOUS
        <4> QED
          BY <4>1, Groupings
      <3> QED
        BY <3>1, <3>2
    <2>8. ASSUME NEW d \in 1..D PROVE H(d + 1) = G(d)
      <3>1. (d + 1 < D + 1) <=> (d < D)
        BY <2>1
      <3>2. d - 1 \in 0..4 /\ (d - 1) + 1 = d /\ (d + 1) - 1 = d
        BY <2>1
      <3>3. Grouping(d) = 128 * Grouping(d - 1) /\ Grouping(d - 1) \in Nat \ {0}
        <4>1. Grouping((d - 1) + 1) = 128 * Grouping(d - 1)
          BY <3>2, Groupings
        <4>2. Grouping(d - 1) \in Nat \ {0}
          BY <3>2, Groupings
        <4> QED
          BY <3>2, <4>1, <4>2, Zenon
      <3>4. i \div Grouping(d) = j \div Grouping(d - 1)
        <4>1. 128 \in Nat \ {0}
          OBVIOUS
        <4>2. (i \div 128) \div Grouping(d - 1) = i \div (128 * Grouping(d - 1))
          BY <3>3, <4>1, DivDiv
        <4> QED
          BY <3>3, <4>2
      <3> QED
        BY <3>1, <3>2, <3>4
    <2> HIDE DEF D, j
    <2>9. <<128 + (i % 128)>> \o [d \in 1..D |-> G(d)] = [d \in 1..(D + 1) |-> H(d)]
      <3>1. \A d \in 2..(D + 1) : d - 1 \in 1..D /\ (d - 1) + 1 = d
        BY <2>1
      <3>2. \A d \in 2..(D + 1) : H(d) = G(d - 1)
        BY <2>8, <3>1
      <3> DEFINE g == [d \in 1..D |-> G(d)]
                 h == [d \in 1..(D + 1) |-> H(d)]
                 a == 128 + (i % 128)
      <3>3. g \in [1..D -> Int] /\ h \in [1..(D + 1) -> Int] /\ a \in Int
        <4>1. \A d \in 1..D : G(d) \in Int
          <5>1. ASSUME NEW d \in 1..D PROVE Grouping(d - 1) \in Nat \ {0}
            BY <2>1, Groupings
          <5>2. \A x \in Nat \ {0} : (j \div x) % 128 \in Int
            BY <2>1
          <5> QED
            BY <5>1, <5>2
        <4>2. \A d \in 1..(D + 1) : d = 1 \/ d \in 2..(D + 1)
          BY <2>1
        <4>3. a \in Int
          OBVIOUS
        <4> HIDE DEF G, H, a
        <4>4. \A d \in 1..(D + 1) : H(d) \in Int
          BY <2>7, <3>1, <3>2, <4>1, <4>2, <4>3 DEF a
        <4> QED
          BY <4>1, <4>3, <4>4
      <3>4. h[1] = a /\ \A d \in 2..(D + 1) : h[d] = g[d - 1]
        <4> HIDE DEF G, H
        <4> QED
          BY <2>1, <2>7, <3>1, <3>2
      <3> HIDE DEF g, h, a
      <3>5. g \in Seq(Int) /\ Len(g) = D
        BY <2>1, <3>3
      <3> DEFINE c == <<a>> \o g
      <3>6. /\ c \in [1..(D + 1) -> Int]
            /\ c[1] = a /\ \A d \in 2..(D + 1) : c[d] = g[d - 1]
        <4>1. <<a>> \in Seq(Int) /\ Len(<<a>>) = 1 /\ <<a>>[1] = a
          BY <3>3
        <4>2. c \in Seq(Int) /\ Len(c) = 1 + D
          BY <2>1, <3>5, <4>1
        <4>3. c \in [1..Len(c) -> Int] /\ Len(c) = D + 1
          <5>1. Len(c) = D + 1
            BY <2>1, <4>2
          <5> HIDE DEF c
          <5>2. c \in [1..Len(c) -> Int]
            BY <4>2
          <5> QED
            BY <5>1, <5>2
        <4>4. c[1] = a
          BY <2>1, <3>5, <4>1
        <4>5. \A d \in 2..(D + 1) : c[d] = g[d - 1]
          BY <2>1, <3>5, <4>1
        <4> HIDE DEF c
        <4> QED
          BY <4>3, <4>4, <4>5
      <3> HIDE DEF c
      <3>7. \A d \in 1..(D + 1) : c[d] = h[d]
        <4>1. \A d \in 1..(D + 1) : d = 1 \/ d \in 2..(D + 1)
          BY <2>1
        <4> QED
          BY <3>4, <3>6, <4>1
      <3>8. c = h
        <4> DEFINE N == 1..(D + 1)
        <4>1. c \in [N -> Int] /\ h \in [N -> Int] /\ \A d \in N : c[d] = h[d]
          BY <3>3, <3>6, <3>7
        <4> HIDE DEF N
        <4> QED
          BY <4>1
      <3> QED
        BY <3>8 DEF c, g, h, a
    <2> QED
      BY <2>6, <2>9 DEF Groups, D
  <1> HIDE DEF S
  <1>3. \A n \in Nat : n \in S
    BY <1>1, <1>2, Adding!NatSetInduction
  <1>4. ASSUME NEW D \in 1..5, NEW i \in Nat, HasGroups(i, D) PROVE Sevens[i] = Groups(i, D)
    <2>1. D - 1 \in Nat /\ D - 1 \in 0..4 /\ (D - 1) + 1 = D
      OBVIOUS
    <2>2. HasGroups(i, (D - 1) + 1) => Sevens[i] = Groups(i, (D - 1) + 1)
      BY <1>3, <2>1 DEF S
    <2> QED
      BY <1>4, <2>1, <2>2
  <1> QED
    BY <1>4

(* The RFC's integer in seven bits goes on with the same groups. *)
LEMMA RefIntegerValue ==
    ASSUME NEW flags \in {0, 128}, NEW i \in Nat, i < Grouping(5)
    PROVE  /\ i < 127 => RefInteger(7, flags, i) = <<flags + i>>
           /\ i >= 127 => RefInteger(7, flags, i) = <<flags + 127>> \o Sevens[i - 127]
  <1> DEFINE over == i - 127
             D == CHOOSE d \in 1..5 : HasGroups(over, d)
  <1>1. 2^7 - 1 = 127 /\ flags + 2^7 - 1 = flags + 127
    OBVIOUS
  <1>2. RefInteger(7, flags, i) =
          IF over < 0 THEN <<flags + i>> ELSE <<flags + 127>> \o Groups(over, D)
    <2> DEFINE Ref(k, top) ==
                 IF i - k < 0 THEN <<flags + i>>
                 ELSE <<top>> \o Groups(i - k, CHOOSE d \in 1..5 : HasGroups(i - k, d))
    <2>1. RefInteger(7, flags, i) = Ref(2^7 - 1, flags + 2^7 - 1)
      BY DEF RefInteger, HasGroups, Groups, Grouping
    <2>2. Ref(127, flags + 127) =
            IF over < 0 THEN <<flags + i>> ELSE <<flags + 127>> \o Groups(over, D)
      OBVIOUS
    <2> HIDE DEF Ref
    <2> QED
      BY <1>1, <2>1, <2>2, Zenon
  <1>3. CASE i < 127
    <2>1. over < 0 /\ ~(i >= 127)
      BY <1>3
    <2> HIDE DEF over, D
    <2> QED
      BY <1>2, <2>1
  <1>4. CASE i >= 127
    <2>1. over \in Nat /\ over < Grouping(5) /\ ~(over < 0) /\ ~(i < 127)
      <3>1. Grouping(5) \in Int
        BY Groupings
      <3> QED
        BY <1>4, <3>1
    <2> HIDE DEF over
    <2>2. D \in 1..5 /\ HasGroups(over, D)
      BY <2>1, GroupsExist
    <2> HIDE DEF D
    <2>3. Sevens[over] = Groups(over, D)
      BY <2>1, <2>2, SevensGroups
    <2>4. RefInteger(7, flags, i) = <<flags + 127>> \o Sevens[over]
      BY <1>2, <2>1, <2>3, Zenon
    <2> QED
      BY <2>1, <2>4 DEF over
  <1> QED
    BY <1>3, <1>4

(* writeVarInt writes the integers of the RFC, with the flag of the        *)
(* Huffman code set or not.                                                *)
LEMMA IntegersMatch ==
    ASSUME NEW i \in Nat, i < Grouping(5)
    PROVE  /\ WriteVarInt(7, i) = RefInteger(7, 0, i)
           /\ SetTopBit(WriteVarInt(7, i)) = RefInteger(7, 128, i)
  <1>1. 2^7 - 1 = 127
    OBVIOUS
  <1>2. WriteVarInt(7, i) = IF i < 127 THEN <<i>> ELSE <<127>> \o Sevens[i - 127]
    BY <1>1, Zenon DEF WriteVarInt
  <1>3. 0 \in {0, 128} /\ 128 \in {0, 128}
    OBVIOUS
  <1>4. CASE i < 127
    <2>1. WriteVarInt(7, i) = <<i>>
      BY <1>2, <1>4
    <2>2. RefInteger(7, 0, i) = <<0 + i>> /\ RefInteger(7, 128, i) = <<128 + i>>
      BY <1>3, <1>4, RefIntegerValue
    <2>3. SetTopBit(<<i>>) = <<i + 128>>
      BY DEF SetTopBit
    <2>4. 0 + i = i /\ 128 + i = i + 128
      OBVIOUS
    <2> QED
      BY <2>1, <2>2, <2>3, <2>4, Zenon
  <1>5. CASE i >= 127
    <2>1. ~(i < 127) /\ i - 127 \in Nat
      BY <1>5
    <2>2. WriteVarInt(7, i) = <<127>> \o Sevens[i - 127]
      BY <1>2, <2>1
    <2>3. /\ RefInteger(7, 0, i) = <<0 + 127>> \o Sevens[i - 127]
          /\ RefInteger(7, 128, i) = <<128 + 127>> \o Sevens[i - 127]
      BY <1>3, <1>5, RefIntegerValue
    <2>4. Sevens[i - 127] \in Seq(Nat)
      BY <2>1, SevensStep
    <2>5. \A s \in Seq(Nat) : SetTopBit(<<127>> \o s) = <<128 + 127>> \o s
      <3> TAKE s \in Seq(Nat)
      <3> DEFINE b == <<127>> \o s
                 c == <<255>> \o s
      <3>1. b \in Seq(Nat) /\ Len(b) = 1 + Len(s) /\ b[1] = 127
        OBVIOUS
      <3>2. c \in Seq(Nat) /\ Len(c) = 1 + Len(s) /\ c[1] = 255
        OBVIOUS
      <3>3. \A k \in 2..(1 + Len(s)) : b[k] = s[k - 1] /\ c[k] = s[k - 1]
        OBVIOUS
      <3>4. Len(s) \in Nat
        OBVIOUS
      <3> HIDE DEF b, c
      <3> DEFINE d == [b EXCEPT ![1] = @ + 128]
      <3>5. d \in Seq(Nat) /\ Len(d) = 1 + Len(s) /\ d[1] = 255
        BY <3>1, <3>4
      <3>6. \A k \in 2..(1 + Len(s)) : d[k] = b[k]
        BY <3>1, <3>4
      <3> HIDE DEF d
      <3>7. \A k \in 1..(1 + Len(s)) : d[k] = c[k]
        <4>1. \A k \in 1..(1 + Len(s)) : k = 1 \/ k \in 2..(1 + Len(s))
          BY <3>4
        <4>2. d[1] = c[1]
          BY <3>2, <3>5
        <4>3. \A k \in 2..(1 + Len(s)) : d[k] = c[k]
          BY <3>3, <3>6, Zenon
        <4> QED
          BY <4>1, <4>2, <4>3, Zenon
      <3>8. d = c
        BY <3>2, <3>5, <3>7
      <3>9. 128 + 127 = 255
        OBVIOUS
      <3> QED
        BY <3>8, <3>9 DEF SetTopBit, b, c, d
    <2>6. 0 + 127 = 127
      OBVIOUS
    <2> QED
      BY <2>2, <2>3, <2>4, <2>5, <2>6, ZenonT(60)
  <1> QED
    BY <1>4, <1>5

(* encodeString writes as many bytes as encodedStringLen counts, and what  *)
(* the RFC has for the string if its length is less than 2^35.             *)
LEMMA EncodeStringValue ==
    ASSUME NEW s \in Seq(Bytes)
    PROVE  /\ EncodeString(s) \in Seq(Nat)
           /\ EncodedStringLen(s) \in Nat
           /\ Len(EncodeString(s)) = EncodedStringLen(s)
           /\ Len(s) < Grouping(5) => EncodeString(s) = RefString(s, ShorterHuffman(s))
  <1> DEFINE m == HuffmanEncodeLength(s)
             code == HuffmanEncode(s)
             n == Len(s)
  <1>1. code = RefHuffman(s) /\ code \in Seq(Nat) /\ Len(code) = m /\ m \in Nat
    BY HuffmanEncodeValue, HuffmanEncodeLengthValue
  <1>2. n \in Nat /\ s \in Seq(Nat)
    <2>1. \A b \in Bytes : b \in Nat
      BY DEF Bytes
    <2>2. n \in Nat /\ \A i \in 1..n : s[i] \in Bytes
      OBVIOUS
    <2>3. \A i \in 1..n : s[i] \in Nat
      BY <2>1, <2>2
    <2> QED
      BY <2>2, <2>3
  <1>3. ShorterHuffman(s) <=> m < n
    BY <1>1, Zenon DEF ShorterHuffman
  <1> HIDE DEF m, code, n
  <1>4. ASSUME NEW i \in Nat
        PROVE  /\ WriteVarInt(7, i) \in Seq(Nat) /\ Len(WriteVarInt(7, i)) = VarIntSize(7, i)
               /\ VarIntSize(7, i) \in Nat
               /\ SetTopBit(WriteVarInt(7, i)) \in Seq(Nat)
               /\ Len(SetTopBit(WriteVarInt(7, i))) = VarIntSize(7, i)
    <2> DEFINE w == WriteVarInt(7, i)
    <2>1. w \in Seq(Nat) /\ w # <<>> /\ Len(w) = VarIntSize(7, i)
      <3>1. 7 \in 1..8
        OBVIOUS
      <3> QED
        BY <3>1, VarIntSizes
    <2> HIDE DEF w
    <2>2. Len(w) \in Nat /\ SetTopBit(w) \in Seq(Nat) /\ Len(SetTopBit(w)) = Len(w)
      BY <2>1 DEF SetTopBit
    <2> QED
      BY <2>1, <2>2 DEF w
  <1>5. \A x, y \in Seq(Nat) : x \o y \in Seq(Nat) /\ Len(x \o y) = Len(x) + Len(y)
    OBVIOUS
  <1>6. CASE m < n
    <2>1. /\ EncodeString(s) = SetTopBit(WriteVarInt(7, m)) \o code
          /\ EncodedStringLen(s) = VarIntSize(7, m) + m
      BY <1>6 DEF EncodeString, EncodedStringLen, m, n, code
    <2>2. n < Grouping(5) => EncodeString(s) = RefString(s, ShorterHuffman(s))
      <3> SUFFICES ASSUME n < Grouping(5)
                   PROVE  EncodeString(s) = RefString(s, ShorterHuffman(s))
        OBVIOUS
      <3>1. m < Grouping(5)
        <4>1. Grouping(5) \in Int
          BY Groupings
        <4> QED
          BY <1>1, <1>2, <1>6, <4>1
      <3>2. SetTopBit(WriteVarInt(7, m)) = RefInteger(7, 128, m)
        BY <1>1, <3>1, IntegersMatch
      <3>3. RefString(s, ShorterHuffman(s)) = RefInteger(7, 128, m) \o code
        BY <1>1, <1>3, <1>6, Zenon DEF RefString
      <3> QED
        BY <2>1, <3>2, <3>3
    <2>3. /\ EncodeString(s) \in Seq(Nat) /\ EncodedStringLen(s) \in Nat
          /\ Len(EncodeString(s)) = EncodedStringLen(s)
      <3> DEFINE w == SetTopBit(WriteVarInt(7, m))
                 v == VarIntSize(7, m)
      <3>1. w \in Seq(Nat) /\ Len(w) = v /\ v \in Nat
        BY <1>1, <1>4
      <3> HIDE DEF w, v
      <3>2. w \o code \in Seq(Nat) /\ Len(w \o code) = v + m /\ v + m \in Nat
        <4>1. code \in Seq(Nat) /\ Len(code) = m /\ m \in Nat
          BY <1>1
        <4>2. w \o code \in Seq(Nat) /\ Len(w \o code) = Len(w) + Len(code)
          BY <1>5, <3>1, <4>1, Zenon
        <4> QED
          BY <3>1, <4>1, <4>2
      <3> QED
        BY <2>1, <3>2 DEF w, v
    <2> QED
      BY <2>2, <2>3 DEF n
  <1>7. CASE ~(m < n)
    <2>1. /\ EncodeString(s) = WriteVarInt(7, n) \o s
          /\ EncodedStringLen(s) = VarIntSize(7, n) + n
      BY <1>7 DEF EncodeString, EncodedStringLen, m, n
    <2>2. n < Grouping(5) => EncodeString(s) = RefString(s, ShorterHuffman(s))
      <3> SUFFICES ASSUME n < Grouping(5)
                   PROVE  EncodeString(s) = RefString(s, ShorterHuffman(s))
        OBVIOUS
      <3>1. WriteVarInt(7, n) = RefInteger(7, 0, n)
        BY <1>2, IntegersMatch
      <3>2. RefString(s, ShorterHuffman(s)) = RefInteger(7, 0, n) \o s
        BY <1>3, <1>7, Zenon DEF RefString, n
      <3> QED
        BY <2>1, <3>1, <3>2
    <2>3. /\ EncodeString(s) \in Seq(Nat) /\ EncodedStringLen(s) \in Nat
          /\ Len(EncodeString(s)) = EncodedStringLen(s)
      <3> DEFINE w == WriteVarInt(7, n)
                 v == VarIntSize(7, n)
      <3>1. w \in Seq(Nat) /\ Len(w) = v /\ v \in Nat
        BY <1>2, <1>4
      <3>2. Len(s) = n
        BY DEF n
      <3> HIDE DEF w, v
      <3>3. w \o s \in Seq(Nat) /\ Len(w \o s) = v + n /\ v + n \in Nat
        BY <1>2, <1>5, <3>1, <3>2
      <3> QED
        BY <2>1, <3>3 DEF w, v
    <2> QED
      BY <2>2, <2>3 DEF n
  <1> QED
    BY <1>6, <1>7

-----------------------------------------------------------------------------
(* The code is canonical: sorted by length, each code is the next number,  *)
(* doubled where the length grows.                                         *)

(* One past the last code of each length, from 4, which none has. *)
Ends == <<
    0, 10, 46, 124, 254, 508, 1021, 2045, 4092, 8190, 16382, 32767, 65534,
    131068, 262136, 524275, 1048558, 2097129, 4194284, 8388597, 16777206,
    33554416, 67108847, 134217713, 268435455, 536870910, 1073741823>>

(* What makes a code of each length, from 5, the rank of its byte, *)
Before == <<
    0, -10, -56, -180, -434, -942, -1963, -4008, -8100, -16290, -32672,
    -65439, -130973, -262041, -524177, -1048452, -2097010, -4194139,
    -8388423, -16777020, -33554226, -67108642, -134217489, -268435202,
    -536870657, -1073741567>>

(* and the bytes by their ranks. *)
Ranked == <<
    48, 49, 50, 97, 99, 101, 105, 111, 115, 116, 32, 37, 45, 46, 47, 51,
    52, 53, 54, 55, 56, 57, 61, 65, 95, 98, 100, 102, 103, 104, 108, 109,
    110, 112, 114, 117, 58, 66, 67, 68, 69, 70, 71, 72, 73, 74, 75, 76,
    77, 78, 79, 80, 81, 82, 83, 84, 85, 86, 87, 89, 106, 107, 113, 118,
    119, 120, 121, 122, 38, 42, 44, 59, 88, 90, 33, 34, 40, 41, 63, 39,
    43, 124, 35, 62, 0, 36, 64, 91, 93, 126, 94, 125, 60, 96, 123, 92,
    195, 208, 128, 130, 131, 162, 184, 194, 224, 226, 153, 161, 167, 172,
    176, 177, 179, 209, 216, 217, 227, 229, 230, 129, 132, 133, 134, 136,
    146, 154, 156, 160, 163, 164, 169, 170, 173, 178, 181, 185, 186, 187,
    189, 190, 196, 198, 228, 232, 233, 1, 135, 137, 138, 139, 140, 141,
    143, 147, 149, 150, 151, 152, 155, 157, 158, 165, 166, 168, 174, 175,
    180, 182, 183, 188, 191, 197, 231, 239, 9, 142, 144, 145, 148, 159,
    171, 206, 215, 225, 236, 237, 199, 207, 234, 235, 192, 193, 200, 201,
    202, 205, 210, 213, 218, 219, 238, 240, 242, 243, 255, 203, 204, 211,
    212, 214, 221, 222, 223, 241, 244, 245, 246, 247, 248, 250, 251, 252,
    253, 254, 2, 3, 4, 5, 6, 7, 8, 11, 12, 14, 15, 16, 17, 18, 19, 20, 21,
    23, 24, 25, 26, 27, 28, 29, 30, 31, 127, 220, 249, 10, 13, 22>>

(* The codes of each length are those between the ends, *)
LEMMA CodesBetween ==
    \A c \in Bytes : /\ 2 * Ends[CodeLength(c) - 4] <= Code(c)
                     /\ Code(c) < Ends[CodeLength(c) - 3]
  <1>1. \A i \in 1..128 : /\ 2 * Ends[Lengths[i] - 4] <= LowCodes[i]
                          /\ LowCodes[i] < Ends[Lengths[i] - 3]
    BY DEF LowCodes, Lengths, Ends
  <1>2. \A i \in 129..256 : /\ 2 * Ends[Lengths[i] - 4] <= HighCodes[i - 128]
                            /\ HighCodes[i - 128] < Ends[Lengths[i] - 3]
    BY DEF HighCodes, Lengths, Ends
  <1>3. ASSUME NEW c \in Bytes
        PROVE  /\ 2 * Ends[CodeLength(c) - 4] <= Code(c)
               /\ Code(c) < Ends[CodeLength(c) - 3]
    <2>1. /\ c < 128 => c + 1 \in 1..128
          /\ c >= 128 => c + 1 \in 129..256
          /\ c - 127 = (c + 1) - 128 /\ (c < 128 \/ c >= 128)
      BY DEF Bytes
    <2>2. CASE c < 128
      BY <1>1, <2>1, <2>2 DEF Code, CodeLength
    <2>3. CASE c >= 128
      <3>1. ~(c < 128)
        BY <2>3 DEF Bytes
      <3> QED
        BY <1>2, <2>1, <2>3, <3>1, SMTT(60) DEF Code, CodeLength
    <2> QED
      BY <2>1, <2>2, <2>3
  <1> QED
    BY <1>3

(* and no two bytes have the same. *)
LEMMA CodesRanked ==
    \A c \in Bytes : Ranked[Before[CodeLength(c) - 4] + Code(c) + 1] = c
  <1>1. \A i \in 1..128 : Ranked[Before[Lengths[i] - 4] + LowCodes[i] + 1] = i - 1
    BY DEF LowCodes, Lengths, Ranked, Before
  <1>2. \A i \in 129..256 : Ranked[Before[Lengths[i] - 4] + HighCodes[i - 128] + 1] = i - 1
    BY DEF HighCodes, Lengths, Ranked, Before
  <1>3. ASSUME NEW c \in Bytes
        PROVE  Ranked[Before[CodeLength(c) - 4] + Code(c) + 1] = c
    <2>1. /\ c < 128 => c + 1 \in 1..128
          /\ c >= 128 => c + 1 \in 129..256
          /\ c - 127 = (c + 1) - 128 /\ (c < 128 \/ c >= 128) /\ (c + 1) - 1 = c
      BY DEF Bytes
    <2>2. CASE c < 128
      BY <1>1, <2>1, <2>2 DEF Code, CodeLength
    <2>3. CASE c >= 128
      <3>1. ~(c < 128)
        BY <2>3 DEF Bytes
      <3> QED
        BY <1>2, <2>1, <2>3, <3>1 DEF Code, CodeLength
    <2> QED
      BY <2>1, <2>2, <2>3
  <1> QED
    BY <1>3

(* Each length goes on where the one before ended, *)
LEMMA EndsGrow ==
    /\ \A i \in 1..27 : Ends[i] \in Nat
    /\ \A i \in 1..26 : Ends[i + 1] >= 2 * Ends[i]
  BY DEF Ends

(* so that longer codes are past the shorter ones. *)
LEMMA EndsFar ==
    ASSUME NEW i \in 1..27, NEW d \in Nat, i + d <= 27
    PROVE  Ends[i + d] >= Ends[i] * 2^d
  <1> DEFINE S == {n \in Nat : i + n <= 27 => Ends[i + n] >= Ends[i] * 2^n}
  <1>1. 0 \in S
    <2>1. Ends[i] \in Nat /\ 2^0 = 1 /\ i + 0 = i
      BY EndsGrow, Doubling
    <2> QED
      BY <2>1
  <1>2. ASSUME NEW n \in Nat, n \in S PROVE n + 1 \in S
    <2> SUFFICES ASSUME i + (n + 1) <= 27 PROVE Ends[i + (n + 1)] >= Ends[i] * 2^(n + 1)
      OBVIOUS
    <2>1. /\ i + n \in 1..26 /\ n \in 0..29 /\ (i + n) + 1 = i + (n + 1)
          /\ i + n \in 1..27 /\ n \in 0..30
      OBVIOUS
    <2>2. Ends[i + n] >= Ends[i] * 2^n
      BY <1>2, <2>1
    <2>3. Ends[(i + n) + 1] >= 2 * Ends[i + n] /\ Ends[i + n] \in Nat /\ Ends[i] \in Nat
          /\ Ends[(i + n) + 1] \in Nat
      BY <2>1, EndsGrow
    <2>4. 2^(n + 1) = 2 * 2^n /\ 2^n \in Nat
      BY <2>1, Doubling
    <2>5. \A x, y \in Nat : x * (2 * y) = 2 * (x * y) /\ x * y \in Nat
      OBVIOUS
    <2> QED
      BY <2>1, <2>2, <2>3, <2>4, <2>5
  <1> HIDE DEF S
  <1>3. d \in S
    BY <1>1, <1>2, Adding!NatSetInduction
  <1> QED
    BY <1>3 DEF S

(* A code without its last bit. *)
LEMMA BitSplit ==
    ASSUME NEW c \in Bytes, NEW k \in Nat, k + 1 <= CodeLength(c)
    PROVE  /\ Code(c) \div 2^(CodeLength(c) - (k + 1))
                = 2 * (Code(c) \div 2^(CodeLength(c) - k)) + CodeBits(c)[k + 1]
           /\ Code(c) \div 2^(CodeLength(c) - k) \in Nat
  <1> DEFINE L == CodeLength(c)
             x == Code(c)
             m == L - (k + 1)
  <1>1. L \in 5..30 /\ x \in Nat
    BY CodeLengths, CodesFit
  <1>2. CodeBits(c)[k + 1] = (x \div 2^m) % 2
    BY <1>1 DEF CodeBits
  <1>3. m \in 0..29 /\ m \in 0..30 /\ m + 1 = L - k
    BY <1>1
  <1> HIDE DEF L, x, m
  <1>4. 2^(m + 1) = 2^m * 2 /\ 2^m \in Nat \ {0}
    <2>1. 2^(m + 1) = 2 * 2^m /\ 2^m \in Nat \ {0}
      BY <1>3, Doubling
    <2>2. \A y \in Nat : 2 * y = y * 2
      OBVIOUS
    <2> QED
      BY <2>1, <2>2
  <1>5. (x \div 2^m) \div 2 = x \div 2^(L - k)
    BY <1>1, <1>3, <1>4, DivDiv
  <1>6. x \div 2^m \in Nat
    BY <1>1, <1>4
  <1>7. \A y \in Nat : y = 2 * (y \div 2) + (y % 2) /\ y \div 2 \in Nat
    OBVIOUS
  <1>8. /\ x \div 2^m = 2 * (x \div 2^(L - k)) + CodeBits(c)[k + 1]
        /\ x \div 2^(L - k) \in Nat
    BY <1>2, <1>5, <1>6, <1>7
  <1> QED
    BY <1>8 DEF L, x, m

(* Codes that begin with the same bits. *)
LEMMA PrefixValue ==
    ASSUME NEW b \in Bytes, NEW c \in Bytes, CodeLength(b) <= CodeLength(c),
           \A k \in 1..CodeLength(b) : CodeBits(b)[k] = CodeBits(c)[k]
    PROVE  Code(b) = Code(c) \div 2^(CodeLength(c) - CodeLength(b))
  <1> DEFINE Lb == CodeLength(b)
             Lc == CodeLength(c)
             S == {k \in Nat : k <= Lb =>
                     Code(b) \div 2^(Lb - k) = Code(c) \div 2^(Lc - k)}
  <1>1. /\ Lb \in 5..30 /\ Code(b) \in Nat /\ Code(b) < 2^Lb
        /\ Lc \in 5..30 /\ Code(c) \in Nat /\ Code(c) < 2^Lc
    BY CodeLengths, CodesFit
  <1>2. 0 \in S
    <2>1. 2^Lb \in Nat \ {0} /\ 2^Lc \in Nat \ {0} /\ Lb - 0 = Lb /\ Lc - 0 = Lc
      BY <1>1, Doubling
    <2>2. \A x \in Nat, y \in Nat \ {0} : x < y => x \div y = 0
      OBVIOUS
    <2> QED
      BY <1>1, <2>1, <2>2
  <1>3. ASSUME NEW k \in Nat, k \in S PROVE k + 1 \in S
    <2> SUFFICES ASSUME k + 1 <= Lb
                 PROVE  Code(b) \div 2^(Lb - (k + 1)) = Code(c) \div 2^(Lc - (k + 1))
      OBVIOUS
    <2>1. k <= Lb /\ k + 1 <= Lc /\ k + 1 \in 1..Lb
      BY <1>1
    <2>2. Code(b) \div 2^(Lb - k) = Code(c) \div 2^(Lc - k)
      BY <1>3, <2>1
    <2>3. CodeBits(b)[k + 1] = CodeBits(c)[k + 1]
      BY <2>1
    <2> QED
      BY <2>1, <2>2, <2>3, BitSplit
  <1> HIDE DEF S
  <1>4. Lb \in S
    BY <1>1, <1>2, <1>3, Adding!NatSetInduction
  <1>5. Code(b) \div 2^(Lb - Lb) = Code(c) \div 2^(Lc - Lb)
    BY <1>1, <1>4 DEF S
  <1>6. Lb - Lb = 0 /\ 2^0 = 1 /\ Code(b) \div 1 = Code(b)
    BY <1>1, Doubling
  <1> QED
    BY <1>5, <1>6

(* No code of HUFFMAN_CODES is the beginning of another, so that the tree  *)
(* of addDecoderNode has one leaf at most at each place.                   *)
THEOREM PrefixFree ==
    ASSUME NEW b \in Bytes, NEW c \in Bytes, CodeLength(b) <= CodeLength(c),
           \A k \in 1..CodeLength(b) : CodeBits(b)[k] = CodeBits(c)[k]
    PROVE  b = c
  <1> DEFINE Lb == CodeLength(b)
             Lc == CodeLength(c)
  <1>1. /\ Lb \in 5..30 /\ Code(b) \in Nat /\ Lc \in 5..30 /\ Code(c) \in Nat
    BY CodeLengths, CodesFit
  <1>2. Code(b) = Code(c) \div 2^(Lc - Lb)
    BY PrefixValue
  <1>3. CASE Lb = Lc
    <2>1. Lc - Lb = 0 /\ 2^0 = 1 /\ Code(c) \div 1 = Code(c)
      BY <1>1, <1>3, Doubling
    <2>2. Code(b) = Code(c)
      BY <1>2, <2>1
    <2> QED
      BY <1>3, <2>2, CodesRanked
  <1>4. CASE Lb < Lc
    <2> DEFINE i == Lb - 3
               d == Lc - 1 - Lb
    <2>1. i \in 1..27 /\ d \in Nat /\ i + d <= 27 /\ i + d = Lc - 4 /\ d \in 0..29
          /\ d + 1 = Lc - Lb /\ d \in 0..30 /\ d + 1 \in 0..30
      BY <1>1, <1>4
    <2>2. Code(b) < Ends[i] /\ 2 * Ends[i + d] <= Code(c)
      BY <2>1, CodesBetween
    <2> HIDE DEF i, d
    <2>3. Ends[i + d] >= Ends[i] * 2^d /\ Ends[i] \in Nat /\ Ends[i + d] \in Nat
      <3>1. i + d \in 1..27
        BY <2>1
      <3> QED
        BY <2>1, <3>1, EndsFar, EndsGrow
    <2>4. 2^(d + 1) = 2 * 2^d /\ 2^d \in Nat \ {0} /\ 2^(d + 1) \in Nat \ {0}
      BY <2>1, Doubling
    <2>5. \A x, y \in Nat : 2 * (x * y) = x * (2 * y)
      OBVIOUS
    <2>6. Ends[i] * 2^(d + 1) <= Code(c)
      <3>1. Ends[i] * 2^(d + 1) = 2 * (Ends[i] * 2^d)
        BY <2>3, <2>4, <2>5
      <3>2. Ends[i] * 2^d \in Nat
        BY <2>3, <2>4
      <3> QED
        BY <1>1, <2>2, <2>3, <3>1, <3>2
    <2>7. Code(c) \div 2^(d + 1) >= Ends[i]
      <3> DEFINE q == Code(c) \div 2^(d + 1)
                 p == 2^(d + 1)
      <3>1. q \in Nat /\ Code(c) < p * (q + 1) /\ p \in Nat \ {0}
        BY <1>1, <2>4
      <3>2. ASSUME q < Ends[i] PROVE FALSE
        <4> HIDE DEF q, p
        <4>1. \A x, y, z \in Nat : x + 1 <= y => z * (x + 1) <= y * z
          OBVIOUS
        <4>2. p * (q + 1) <= Ends[i] * p
          BY <2>3, <3>1, <3>2, <4>1
        <4>3. p * (q + 1) \in Nat /\ Ends[i] * p \in Nat
          BY <2>3, <3>1
        <4> QED
          BY <1>1, <2>6, <3>1, <4>2, <4>3 DEF p
      <3> HIDE DEF q, p
      <3> QED
        BY <2>3, <3>1, <3>2 DEF q, p
    <2>8. Code(b) >= Ends[i]
      BY <1>2, <2>1, <2>7
    <2> QED
      BY <1>1, <2>2, <2>3, <2>8
  <1> QED
    BY <1>1, <1>3, <1>4

-----------------------------------------------------------------------------
(* The decoding tree.                                                      *)

(* The bits of a byte, by the powers they stand for. *)
BitOctets == [0..7 -> {0, 1}]

(* A byte is an octet of bits; a shift finds each. *)
HasBits(y, b7, b6, b5, b4, b3, b2, b1, b0) ==
    /\ y \in 0..255
    /\ (y \div 1) % 2 = b0 /\ (y \div 2) % 2 = b1
    /\ (y \div 4) % 2 = b2 /\ (y \div 8) % 2 = b3
    /\ (y \div 16) % 2 = b4 /\ (y \div 32) % 2 = b5
    /\ (y \div 64) % 2 = b6 /\ (y \div 128) % 2 = b7

(* An octet made of eight bits has those bits, *)
LEMMA OctetNumber ==
    \A b7, b6, b5, b4, b3, b2, b1, b0 \in 0..1 :
        HasBits(Octet8(b7, b6, b5, b4, b3, b2, b1, b0), b7, b6, b5, b4, b3, b2, b1, b0)
  <1> TAKE b7, b6, b5, b4, b3, b2, b1, b0 \in 0..1
  <1> DEFINE y == Octet8(b7, b6, b5, b4, b3, b2, b1, b0)
  <1> USE DEF Octet8
  <1>1. y \in 0..255
    OBVIOUS
  <1>2. \A h \in Nat, b \in 0..1 : (2 * h + b) \div 2 = h /\ (2 * h + b) % 2 = b
    OBVIOUS
  <1>3. /\ y \div 1 = y
        /\ y = 2 * (64 * b7 + 32 * b6 + 16 * b5 + 8 * b4 + 4 * b3 + 2 * b2 + b1) + b0
        /\ 64 * b7 + 32 * b6 + 16 * b5 + 8 * b4 + 4 * b3 + 2 * b2 + b1 \in Nat
    OBVIOUS
  <1>4. /\ y \div 2 = 2 * (32 * b7 + 16 * b6 + 8 * b5 + 4 * b4 + 2 * b3 + b2) + b1
        /\ 32 * b7 + 16 * b6 + 8 * b5 + 4 * b4 + 2 * b3 + b2 \in Nat
    <2>1. y = 2 * (64 * b7 + 32 * b6 + 16 * b5 + 8 * b4 + 4 * b3 + 2 * b2 + b1) + (b0)
          /\ b0 \in 0..1
          /\ 64 * b7 + 32 * b6 + 16 * b5 + 8 * b4 + 4 * b3 + 2 * b2 + b1 \in Nat
      OBVIOUS
    <2>2. \A q \in Nat, r \in 0..1 : (2 * q + r) \div 2 = q
      OBVIOUS
    <2>3. y \div 2 = 64 * b7 + 32 * b6 + 16 * b5 + 8 * b4 + 4 * b3 + 2 * b2 + b1
      BY <2>1, <2>2
    <2> QED
      BY <2>3
  <1>5. /\ y \div 4 = 2 * (16 * b7 + 8 * b6 + 4 * b5 + 2 * b4 + b3) + b2
        /\ 16 * b7 + 8 * b6 + 4 * b5 + 2 * b4 + b3 \in Nat
    <2>1. y = 4 * (32 * b7 + 16 * b6 + 8 * b5 + 4 * b4 + 2 * b3 + b2) + (2 * b1 + b0)
          /\ 2 * b1 + b0 \in 0..3
          /\ 32 * b7 + 16 * b6 + 8 * b5 + 4 * b4 + 2 * b3 + b2 \in Nat
      OBVIOUS
    <2>2. \A q \in Nat, r \in 0..3 : (4 * q + r) \div 4 = q
      OBVIOUS
    <2>3. y \div 4 = 32 * b7 + 16 * b6 + 8 * b5 + 4 * b4 + 2 * b3 + b2
      BY <2>1, <2>2
    <2> QED
      BY <2>3
  <1>6. y \div 8 = 2 * (8 * b7 + 4 * b6 + 2 * b5 + b4) + b3 /\ 8 * b7 + 4 * b6 + 2 * b5 + b4 \in Nat
    <2>1. y = 8 * (16 * b7 + 8 * b6 + 4 * b5 + 2 * b4 + b3) + (4 * b2 + 2 * b1 + b0)
          /\ 4 * b2 + 2 * b1 + b0 \in 0..7
          /\ 16 * b7 + 8 * b6 + 4 * b5 + 2 * b4 + b3 \in Nat
      OBVIOUS
    <2>2. \A q \in Nat, r \in 0..7 : (8 * q + r) \div 8 = q
      OBVIOUS
    <2>3. y \div 8 = 16 * b7 + 8 * b6 + 4 * b5 + 2 * b4 + b3
      BY <2>1, <2>2
    <2> QED
      BY <2>3
  <1>7. y \div 16 = 2 * (4 * b7 + 2 * b6 + b5) + b4 /\ 4 * b7 + 2 * b6 + b5 \in Nat
    <2>1. y = 16 * (8 * b7 + 4 * b6 + 2 * b5 + b4) + (8 * b3 + 4 * b2 + 2 * b1 + b0)
          /\ 8 * b3 + 4 * b2 + 2 * b1 + b0 \in 0..15
          /\ 8 * b7 + 4 * b6 + 2 * b5 + b4 \in Nat
      OBVIOUS
    <2>2. \A q \in Nat, r \in 0..15 : (16 * q + r) \div 16 = q
      OBVIOUS
    <2>3. y \div 16 = 8 * b7 + 4 * b6 + 2 * b5 + b4
      BY <2>1, <2>2
    <2> QED
      BY <2>3
  <1>8. y \div 32 = 2 * (2 * b7 + b6) + b5 /\ 2 * b7 + b6 \in Nat
    <2>1. y = 32 * (4 * b7 + 2 * b6 + b5) + (16 * b4 + 8 * b3 + 4 * b2 + 2 * b1 + b0)
          /\ 16 * b4 + 8 * b3 + 4 * b2 + 2 * b1 + b0 \in 0..31
          /\ 4 * b7 + 2 * b6 + b5 \in Nat
      OBVIOUS
    <2>2. \A q \in Nat, r \in 0..31 : (32 * q + r) \div 32 = q
      OBVIOUS
    <2>3. y \div 32 = 4 * b7 + 2 * b6 + b5
      BY <2>1, <2>2
    <2> QED
      BY <2>3
  <1>9. y \div 64 = 2 * (b7) + b6 /\ b7 \in Nat
    <2>1. y = 64 * (2 * b7 + b6) + (32 * b5 + 16 * b4 + 8 * b3 + 4 * b2 + 2 * b1 + b0)
          /\ 32 * b5 + 16 * b4 + 8 * b3 + 4 * b2 + 2 * b1 + b0 \in 0..63
          /\ 2 * b7 + b6 \in Nat
      OBVIOUS
    <2>2. \A q \in Nat, r \in 0..63 : (64 * q + r) \div 64 = q
      OBVIOUS
    <2>3. y \div 64 = 2 * b7 + b6
      BY <2>1, <2>2
    <2> QED
      BY <2>3
  <1>10. y \div 128 = 2 * (0) + b7 /\ 0 \in Nat
    <2>1. y = 128 * (b7) + (64 * b6 + 32 * b5 + 16 * b4 + 8 * b3 + 4 * b2 + 2 * b1 + b0)
          /\ 64 * b6 + 32 * b5 + 16 * b4 + 8 * b3 + 4 * b2 + 2 * b1 + b0 \in 0..127
          /\ b7 \in Nat
      OBVIOUS
    <2>2. \A q \in Nat, r \in 0..127 : (128 * q + r) \div 128 = q
      OBVIOUS
    <2>3. y \div 128 = b7
      BY <2>1, <2>2
    <2> QED
      BY <2>3
  <1> HIDE DEF Octet8, y
  <1> QED
    BY <1>1, <1>2, <1>3, <1>4, <1>5, <1>6, <1>7, <1>8, <1>9, <1>10 DEF y, HasBits

(* and so has the number of eight bits; *)
LEMMA OctetBits ==
    ASSUME NEW f \in BitOctets
    PROVE  /\ OctetOf(f) \in Bytes
           /\ \A j \in 0..7 : (OctetOf(f) \div 2^j) % 2 = f[j]
  <1>1. /\ f[0] \in 0..1 /\ f[1] \in 0..1 /\ f[2] \in 0..1 /\ f[3] \in 0..1
        /\ f[4] \in 0..1 /\ f[5] \in 0..1 /\ f[6] \in 0..1 /\ f[7] \in 0..1
    BY DEF BitOctets
  <1> DEFINE y == OctetOf(f)
  <1>2. y = Octet8(f[7], f[6], f[5], f[4], f[3], f[2], f[1], f[0])
    BY DEF OctetOf
  <1> HIDE DEF y
  <1>3. /\ y \in 0..255
        /\ (y \div 1) % 2 = f[0] /\ (y \div 2) % 2 = f[1]
        /\ (y \div 4) % 2 = f[2] /\ (y \div 8) % 2 = f[3]
        /\ (y \div 16) % 2 = f[4] /\ (y \div 32) % 2 = f[5]
        /\ (y \div 64) % 2 = f[6] /\ (y \div 128) % 2 = f[7]
    <2>1. HasBits(y, f[7], f[6], f[5], f[4], f[3], f[2], f[1], f[0])
      BY <1>1, <1>2, OctetNumber, Zenon
    <2> QED
      BY <2>1 DEF HasBits
  <1>4. /\ 2^0 = 1 /\ 2^1 = 2 /\ 2^2 = 4 /\ 2^3 = 8
        /\ 2^4 = 16 /\ 2^5 = 32 /\ 2^6 = 64 /\ 2^7 = 128
    OBVIOUS
  <1>5. ASSUME NEW j \in 0..7 PROVE (y \div 2^j) % 2 = f[j]
    <2>1. j = 0 \/ j = 1 \/ j = 2 \/ j = 3 \/ j = 4 \/ j = 5 \/ j = 6 \/ j = 7
      OBVIOUS
    <2>2. CASE j = 0
      BY <1>3, <1>4, <2>2, Zenon
    <2>3. CASE j = 1
      BY <1>3, <1>4, <2>3, Zenon
    <2>4. CASE j = 2
      BY <1>3, <1>4, <2>4, Zenon
    <2>5. CASE j = 3
      BY <1>3, <1>4, <2>5, Zenon
    <2>6. CASE j = 4
      BY <1>3, <1>4, <2>6, Zenon
    <2>7. CASE j = 5
      BY <1>3, <1>4, <2>7, Zenon
    <2>8. CASE j = 6
      BY <1>3, <1>4, <2>8, Zenon
    <2>9. CASE j = 7
      BY <1>3, <1>4, <2>9, Zenon
    <2> QED
      BY <2>1, <2>2, <2>3, <2>4, <2>5, <2>6, <2>7, <2>8, <2>9
  <1> QED
    BY <1>3, <1>5 DEF y, Bytes

(* so they are the byte's only ones. *)
LEMMA OctetsEqual ==
    ASSUME NEW f \in BitOctets, NEW g \in BitOctets, OctetOf(f) = OctetOf(g)
    PROVE  \A j \in 0..7 : f[j] = g[j]
  BY OctetBits

(* The bits shifted to the right. *)
ShiftBits(f, r) == [j \in 0..7 |-> IF j + r <= 7 THEN f[j + r] ELSE 0]

(* The number of the shifted bits is the quotient. *)
LEMMA ShiftedOctet ==
    ASSUME NEW f \in BitOctets, NEW r \in 0..7
    PROVE  /\ ShiftBits(f, r) \in BitOctets
           /\ OctetOf(f) >= 2^r * OctetOf(ShiftBits(f, r))
           /\ OctetOf(f) <= 2^r * OctetOf(ShiftBits(f, r)) + 2^r - 1
           /\ (\A j \in 0..(r - 1) : f[j] = 0) => OctetOf(f) = 2^r * OctetOf(ShiftBits(f, r))
  <1> DEFINE h == ShiftBits(f, r)
             Goal(m) == /\ OctetOf(f) >= m * OctetOf(h)
                        /\ OctetOf(f) <= m * OctetOf(h) + m - 1
                        /\ (\A j \in 0..(r - 1) : f[j] = 0) => OctetOf(f) = m * OctetOf(h)
  <1>1. /\ f[0] \in 0..1 /\ f[1] \in 0..1 /\ f[2] \in 0..1 /\ f[3] \in 0..1
        /\ f[4] \in 0..1 /\ f[5] \in 0..1 /\ f[6] \in 0..1 /\ f[7] \in 0..1
    BY DEF BitOctets
  <1>2. h \in BitOctets
    BY DEF ShiftBits, BitOctets
  <1>3. CASE r = 0
    <2>1. h[0] = f[0] /\ h[1] = f[1] /\ h[2] = f[2] /\ h[3] = f[3]
          /\ h[4] = f[4] /\ h[5] = f[5] /\ h[6] = f[6] /\ h[7] = f[7]
      BY <1>3 DEF ShiftBits
    <2>2. (\A j \in 0..(r - 1) : f[j] = 0) => TRUE
      BY <1>3
    <2>3. Goal(1)
      BY <1>1, <2>1, <2>2 DEF OctetOf, Octet8
    <2> QED
      BY <1>2, <1>3, <2>3
  <1>4. CASE r = 1
    <2>1. h[0] = f[1] /\ h[1] = f[2] /\ h[2] = f[3] /\ h[3] = f[4]
          /\ h[4] = f[5] /\ h[5] = f[6] /\ h[6] = f[7] /\ h[7] = 0
      BY <1>4 DEF ShiftBits
    <2>2. (\A j \in 0..(r - 1) : f[j] = 0) => f[0] = 0
      BY <1>4
    <2>3. Goal(2)
      BY <1>1, <2>1, <2>2 DEF OctetOf, Octet8
    <2> QED
      BY <1>2, <1>4, <2>3
  <1>5. CASE r = 2
    <2>1. h[0] = f[2] /\ h[1] = f[3] /\ h[2] = f[4] /\ h[3] = f[5]
          /\ h[4] = f[6] /\ h[5] = f[7] /\ h[6] = 0 /\ h[7] = 0
      BY <1>5 DEF ShiftBits
    <2>2. (\A j \in 0..(r - 1) : f[j] = 0) => f[0] = 0 /\ f[1] = 0
      BY <1>5
    <2>3. Goal(4)
      BY <1>1, <2>1, <2>2, SMTT(60) DEF OctetOf, Octet8
    <2> QED
      BY <1>2, <1>5, <2>3
  <1>6. CASE r = 3
    <2>1. h[0] = f[3] /\ h[1] = f[4] /\ h[2] = f[5] /\ h[3] = f[6]
          /\ h[4] = f[7] /\ h[5] = 0 /\ h[6] = 0 /\ h[7] = 0
      BY <1>6 DEF ShiftBits
    <2>2. (\A j \in 0..(r - 1) : f[j] = 0) => f[0] = 0 /\ f[1] = 0 /\ f[2] = 0
      BY <1>6
    <2>3. Goal(8)
      BY <1>1, <2>1, <2>2, SMTT(60) DEF OctetOf, Octet8
    <2> QED
      BY <1>2, <1>6, <2>3
  <1>7. CASE r = 4
    <2>1. h[0] = f[4] /\ h[1] = f[5] /\ h[2] = f[6] /\ h[3] = f[7]
          /\ h[4] = 0 /\ h[5] = 0 /\ h[6] = 0 /\ h[7] = 0
      BY <1>7 DEF ShiftBits
    <2>2. (\A j \in 0..(r - 1) : f[j] = 0) => f[0] = 0 /\ f[1] = 0 /\ f[2] = 0 /\ f[3] = 0
      BY <1>7
    <2>3. Goal(16)
      BY <1>1, <2>1, <2>2 DEF OctetOf, Octet8
    <2> QED
      BY <1>2, <1>7, <2>3
  <1>8. CASE r = 5
    <2>1. h[0] = f[5] /\ h[1] = f[6] /\ h[2] = f[7] /\ h[3] = 0
          /\ h[4] = 0 /\ h[5] = 0 /\ h[6] = 0 /\ h[7] = 0
      BY <1>8 DEF ShiftBits
    <2>2. (\A j \in 0..(r - 1) : f[j] = 0) => f[0] = 0 /\ f[1] = 0 /\ f[2] = 0 /\ f[3] = 0 /\ f[4] = 0
      BY <1>8
    <2>3. Goal(32)
      BY <1>1, <2>1, <2>2 DEF OctetOf, Octet8
    <2> QED
      BY <1>2, <1>8, <2>3
  <1>9. CASE r = 6
    <2>1. h[0] = f[6] /\ h[1] = f[7] /\ h[2] = 0 /\ h[3] = 0
          /\ h[4] = 0 /\ h[5] = 0 /\ h[6] = 0 /\ h[7] = 0
      BY <1>9 DEF ShiftBits
    <2>2. (\A j \in 0..(r - 1) : f[j] = 0) =>
            /\ f[0] = 0 /\ f[1] = 0 /\ f[2] = 0 /\ f[3] = 0
            /\ f[4] = 0 /\ f[5] = 0
      BY <1>9
    <2>3. Goal(64)
      BY <1>1, <2>1, <2>2 DEF OctetOf, Octet8
    <2> QED
      BY <1>2, <1>9, <2>3
  <1>10. CASE r = 7
    <2>1. h[0] = f[7] /\ h[1] = 0 /\ h[2] = 0 /\ h[3] = 0
          /\ h[4] = 0 /\ h[5] = 0 /\ h[6] = 0 /\ h[7] = 0
      BY <1>10 DEF ShiftBits
    <2>2. (\A j \in 0..(r - 1) : f[j] = 0) =>
            /\ f[0] = 0 /\ f[1] = 0 /\ f[2] = 0 /\ f[3] = 0
            /\ f[4] = 0 /\ f[5] = 0 /\ f[6] = 0
      BY <1>10
    <2>3. Goal(128)
      BY <1>1, <2>1, <2>2 DEF OctetOf, Octet8
    <2> QED
      BY <1>2, <1>10, <2>3
  <1> QED
    BY <1>3, <1>4, <1>5, <1>6, <1>7, <1>8, <1>9, <1>10

(* The bytes from one with r zeros at the end on have its other bits. *)
LEMMA OctetRange ==
    ASSUME NEW f \in BitOctets, NEW g \in BitOctets, NEW r \in 0..7,
           \A j \in 0..(r - 1) : g[j] = 0
    PROVE  OctetOf(f) \in OctetOf(g)..(OctetOf(g) + 2^r - 1)
             <=> \A j \in r..7 : f[j] = g[j]
  <1> DEFINE F == ShiftBits(f, r)
             G == ShiftBits(g, r)
             m == 2^r
  <1>1. /\ F \in BitOctets /\ G \in BitOctets
        /\ OctetOf(f) >= m * OctetOf(F) /\ OctetOf(f) <= m * OctetOf(F) + m - 1
        /\ OctetOf(g) = m * OctetOf(G)
    BY ShiftedOctet
  <1>2. /\ m \in Nat \ {0} /\ OctetOf(f) \in Nat /\ OctetOf(g) \in Nat
        /\ OctetOf(F) \in Nat /\ OctetOf(G) \in Nat
    <2>1. m \in Nat \ {0}
      <3>1. r \in 0..30
        OBVIOUS
      <3> QED
        BY <3>1, Doubling
    <2>2. \A e \in BitOctets : OctetOf(e) \in Nat
      BY OctetBits DEF Bytes
    <2> QED
      BY <1>1, <2>1, <2>2
  <1>3. (\A j \in r..7 : f[j] = g[j]) <=> (\A j \in 0..7 : F[j] = G[j])
    <2>1. ASSUME \A j \in r..7 : f[j] = g[j], NEW j \in 0..7 PROVE F[j] = G[j]
      BY <2>1 DEF ShiftBits
    <2>2. ASSUME \A j \in 0..7 : F[j] = G[j], NEW j \in r..7 PROVE f[j] = g[j]
      <3>1. j - r \in 0..7 /\ (j - r) + r = j /\ (j - r) + r <= 7
        OBVIOUS
      <3>2. F[j - r] = G[j - r]
        BY <2>2, <3>1
      <3> QED
        BY <3>1, <3>2 DEF ShiftBits
    <2> QED
      BY <2>1, <2>2
  <1>4. (\A j \in 0..7 : F[j] = G[j]) <=> OctetOf(F) = OctetOf(G)
    <2>1. (\A j \in 0..7 : F[j] = G[j]) => OctetOf(F) = OctetOf(G)
      BY DEF OctetOf
    <2>2. OctetOf(F) = OctetOf(G) => \A j \in 0..7 : F[j] = G[j]
      BY <1>1, OctetsEqual
    <2> QED
      BY <2>1, <2>2
  <1> HIDE DEF F, G, m
  <1> DEFINE x == OctetOf(F)
             y == OctetOf(G)
             u == OctetOf(f)
             v == OctetOf(g)
  <1>5. u \in v..(v + m - 1) <=> x = y
    <2>1. /\ u \in Nat /\ v \in Nat /\ x \in Nat /\ y \in Nat /\ m \in Nat \ {0}
          /\ u >= m * x /\ u <= m * x + m - 1 /\ v = m * y
      BY <1>1, <1>2
    <2> HIDE DEF x, y, u, v
    <2>2. \A a, b \in Nat : a + 1 <= b => m * a + m <= m * b
      BY <2>1
    <2>3. ASSUME x = y PROVE u \in v..(v + m - 1)
      BY <2>1, <2>3
    <2>4. ASSUME u \in v..(v + m - 1) PROVE x = y
      <3>1. ~(x + 1 <= y)
        <4> SUFFICES ASSUME x + 1 <= y PROVE FALSE
          OBVIOUS
        <4>1. m * x + m <= m * y /\ m * x \in Nat /\ m * y \in Nat
          BY <2>1, <2>2
        <4> QED
          BY <2>1, <2>4, <4>1
      <3>2. ~(y + 1 <= x)
        <4> SUFFICES ASSUME y + 1 <= x PROVE FALSE
          OBVIOUS
        <4>1. m * y + m <= m * x /\ m * x \in Nat /\ m * y \in Nat
          BY <2>1, <2>2
        <4> QED
          BY <2>1, <2>4, <4>1
      <3> QED
        BY <2>1, <3>1, <3>2
    <2> QED
      BY <2>3, <2>4
  <1> QED
    BY <1>3, <1>4, <1>5 DEF m

(* Eight bits of a code. *)
BitsAt(c, p) == [j \in 0..7 |-> CodeBit(c, p - j)]

(* They make the byte of the code at that place. *)
LEMMA BitsAtType ==
    ASSUME NEW c \in Bytes, NEW p \in Int
    PROVE  BitsAt(c, p) \in BitOctets /\ OctetOf(BitsAt(c, p)) = ByteAt(c, p)
  <1>1. \A j \in 0..7 : CodeBit(c, p - j) \in {0, 1}
    BY CodeBitsType
  <1>2. BitsAt(c, p) \in BitOctets
    BY <1>1 DEF BitsAt, BitOctets
  <1>3. p - 0 = p
    OBVIOUS
  <1>4. OctetOf(BitsAt(c, p)) = ByteAt(c, p)
    BY <1>3 DEF BitsAt, OctetOf, ByteAt
  <1> QED
    BY <1>2, <1>4

(* The last internal node on a code's way has the code's last bits, one to *)
(* eight.                                                                  *)
LEMMA WayType ==
    ASSUME NEW c \in Bytes
    PROVE  /\ Depth(c) \in 0..3
           /\ BitsLeft(c) \in 1..8
           /\ CodeLength(c) = 8 * Depth(c) + BitsLeft(c)
           /\ CodeLength(c) \in 5..30
           /\ Way(c) \in Seq(Bytes)
           /\ Len(Way(c)) = Depth(c)
           /\ \A d \in 1..Depth(c) : Way(c)[d] = ByteAt(c, 8 * d)
  <1> DEFINE L == CodeLength(c)
             D == Depth(c)
  <1>1. L \in 5..30
    BY CodeLengths
  <1>2. D = (L - 1) \div 8 /\ BitsLeft(c) = L - 8 * D
    BY DEF Depth, BitsLeft
  <1>3. Way(c) = [d \in 1..D |-> HighByte(Code(c), L - 8 * d)]
    BY DEF Way
  <1> HIDE DEF L, D
  <1>4. D \in 0..3 /\ L - 8 * D \in 1..8
    BY <1>1, <1>2
  <1>5. ASSUME NEW d \in 1..D PROVE HighByte(Code(c), L - 8 * d) = ByteAt(c, 8 * d)
    <2>1. L - 8 * d \in 0..L /\ L - (L - 8 * d) = 8 * d
      BY <1>1, <1>4
    <2> QED
      BY <2>1, HighByteAt DEF L
  <1>6. \A d \in 1..D : 8 * d \in Int /\ ByteAt(c, 8 * d) \in Bytes
    BY <1>4, ByteAtType
  <1>7. \A d \in 1..D : Way(c)[d] = ByteAt(c, 8 * d)
    BY <1>3, <1>5
  <1>8. Way(c) \in [1..D -> Bytes]
    BY <1>3, <1>5, <1>6
  <1>9. D \in Nat
    BY <1>4
  <1>10. Way(c) \in Seq(Bytes) /\ Len(Way(c)) = D
    BY <1>3, <1>8, <1>9
  <1>11. L = 8 * D + (L - 8 * D)
    BY <1>1, <1>4
  <1>12. /\ D \in 0..3 /\ BitsLeft(c) \in 1..8 /\ L = 8 * D + BitsLeft(c) /\ L \in 5..30
         /\ Way(c) \in Seq(Bytes) /\ Len(Way(c)) = D
         /\ \A d \in 1..D : Way(c)[d] = ByteAt(c, 8 * d)
    BY <1>1, <1>2, <1>4, <1>7, <1>10, <1>11
  <1> QED
    BY <1>12 DEF L, D

(* A leaf's indices there begin with those bits. *)
LEMMA LeafIndex ==
    ASSUME NEW c \in Bytes, NEW f \in BitOctets
    PROVE  OctetOf(f) \in LeafIndices(c)
             <=> \A j \in 0..7 : (8 * Depth(c) + 8) - j <= CodeLength(c)
                                   => f[j] = CodeBit(c, (8 * Depth(c) + 8) - j)
  <1> DEFINE D == Depth(c)
             r == 8 - BitsLeft(c)
             p == 8 * D + 8
             g == BitsAt(c, p)
             L == CodeLength(c)
  <1>1. D \in 0..3 /\ r \in 0..7 /\ L = p - r /\ p \in Int /\ L \in Int /\ L + r = p
    <2>1. /\ D \in 0..3 /\ BitsLeft(c) \in 1..8
          /\ L = 8 * D + BitsLeft(c) /\ L \in 5..30
      BY WayType
    <2> QED
      BY <2>1
  <1>2. LeafIndices(c) = LowByte(Code(c), r)..(LowByte(Code(c), r) + 2^r - 1)
    BY DEF LeafIndices
  <1>3. LowByte(Code(c), r) = ByteAt(c, p)
    BY <1>1, LowByteAt
  <1>4. g \in BitOctets /\ OctetOf(g) = ByteAt(c, p)
    BY <1>1, BitsAtType
  <1>5. ASSUME NEW j \in 0..(r - 1) PROVE g[j] = 0
    <2>1. j \in 0..7 /\ p - j \notin 1..L
      BY <1>1
    <2> QED
      BY <2>1 DEF BitsAt, CodeBit
  <1>6. \A j \in 0..7 : g[j] = CodeBit(c, p - j)
    BY DEF BitsAt
  <1>7. \A j \in 0..7 : p - j <= L <=> j \in r..7
    BY <1>1
  <1> HIDE DEF D, r, p, g, L
  <1>8. OctetOf(f) \in LeafIndices(c) <=> \A j \in r..7 : f[j] = g[j]
    <2>1. OctetOf(f) \in OctetOf(g)..(OctetOf(g) + 2^r - 1) <=> \A j \in r..7 : f[j] = g[j]
      BY <1>1, <1>4, <1>5, OctetRange, ZenonT(60)
    <2> QED
      BY <1>1, <1>2, <1>3, <1>4, <2>1
  <1>9. r..7 \subseteq 0..7
    BY <1>1
  <1>10. OctetOf(f) \in LeafIndices(c) <=> \A j \in 0..7 : p - j <= L => f[j] = CodeBit(c, p - j)
    BY <1>6, <1>7, <1>8, <1>9
  <1>11. p = 8 * Depth(c) + 8 /\ L = CodeLength(c)
    BY DEF p, D, L
  <1> QED
    BY <1>10, Zenon DEF p, D, L

(* Bits of the codes that go the same way. *)
LEMMA SameWay ==
    ASSUME NEW b \in Bytes, NEW c \in Bytes, NEW e \in 0..Depth(c), Way(b) = SubSeq(Way(c), 1, e)
    PROVE  /\ Depth(b) = e
           /\ \A k \in 1..(8 * e) : CodeBit(b, k) = CodeBit(c, k)
  <1>1. /\ Depth(b) \in 0..3 /\ Depth(c) \in 0..3
        /\ Way(b) \in Seq(Bytes) /\ Way(c) \in Seq(Bytes)
        /\ Len(Way(b)) = Depth(b) /\ Len(Way(c)) = Depth(c)
        /\ \A d \in 1..Depth(b) : Way(b)[d] = ByteAt(b, 8 * d)
        /\ \A d \in 1..Depth(c) : Way(c)[d] = ByteAt(c, 8 * d)
    BY WayType
  <1>2. e \in 0..3 /\ Len(SubSeq(Way(c), 1, e)) = e
        /\ \A d \in 1..e : SubSeq(Way(c), 1, e)[d] = Way(c)[d]
    BY <1>1
  <1>3. Depth(b) = e
    BY <1>1, <1>2
  <1>4. ASSUME NEW k \in 1..(8 * e) PROVE CodeBit(b, k) = CodeBit(c, k)
    <2> DEFINE d == (k + 7) \div 8
               j == 8 * d - k
    <2>1. d \in 1..e /\ j \in 0..7 /\ 8 * d - j = k /\ 8 * d \in Int
      BY <1>2
    <2> HIDE DEF d, j
    <2>2. ByteAt(b, 8 * d) = ByteAt(c, 8 * d)
      BY <1>1, <1>2, <1>3, <2>1
    <2>3. /\ BitsAt(b, 8 * d) \in BitOctets /\ BitsAt(c, 8 * d) \in BitOctets
          /\ OctetOf(BitsAt(b, 8 * d)) = OctetOf(BitsAt(c, 8 * d))
      BY <2>1, <2>2, BitsAtType
    <2>4. BitsAt(b, 8 * d)[j] = BitsAt(c, 8 * d)[j]
      BY <2>1, <2>3, OctetsEqual
    <2> QED
      BY <2>1, <2>4 DEF BitsAt
  <1> QED
    BY <1>3, <1>4

(* The places of the shorter of two codes are places of the other. *)
LEMMA PlacesOfShorter ==
    \A x, y \in 5..30 : x <= y => \A k \in 1..x : k \in 1..30 /\ k <= x /\ k <= y
  OBVIOUS

(* A leaf among the children of a node on a code's way whose bits go on    *)
(* like the code's is the code's own.                                      *)
LEMMA OnlyOne ==
    ASSUME NEW b \in Bytes, NEW c \in Bytes, NEW e \in 0..Depth(c), Way(b) = SubSeq(Way(c), 1, e),
           NEW f \in BitOctets, OctetOf(f) \in LeafIndices(b),
           \A j \in 0..7 : (8 * e + 8) - j <= CodeLength(c) => f[j] = CodeBit(c, (8 * e + 8) - j)
    PROVE  b = c
  <1>1. Depth(b) = e /\ \A k \in 1..(8 * e) : CodeBit(b, k) = CodeBit(c, k)
    BY SameWay
  <1>2. /\ Depth(c) \in 0..3 /\ e \in 0..3
        /\ CodeLength(b) \in 5..30 /\ CodeLength(c) \in 5..30
        /\ CodeLength(b) <= 8 * e + 8
    <2>1. /\ Depth(b) \in 0..3 /\ BitsLeft(b) \in 1..8
          /\ CodeLength(b) = 8 * Depth(b) + BitsLeft(b) /\ CodeLength(b) \in 5..30
      BY WayType, Zenon
    <2>2. Depth(c) \in 0..3 /\ CodeLength(c) \in 5..30
      BY WayType, Zenon
    <2> QED
      BY <1>1, <2>1, <2>2
  <1>3. \A j \in 0..7 : (8 * e + 8) - j <= CodeLength(b) => f[j] = CodeBit(b, (8 * e + 8) - j)
    BY <1>1, LeafIndex
  <1>4. ASSUME NEW k \in 1..30, k <= CodeLength(b), k <= CodeLength(c)
        PROVE  CodeBits(b)[k] = CodeBits(c)[k]
    <2>1. CodeBit(b, k) = CodeBit(c, k)
      <3>1. CASE k <= 8 * e
        BY <1>1, <1>2, <3>1
      <3>2. CASE k > 8 * e
        <4> DEFINE j == (8 * e + 8) - k
        <4>1. j \in 0..7 /\ (8 * e + 8) - j = k
          BY <1>2, <1>4, <3>2, SMTT(60)
        <4> HIDE DEF j
        <4> QED
          BY <1>3, <1>4, <4>1
      <3> QED
        BY <1>2, <3>1, <3>2
    <2> QED
      BY <1>2, <1>4, <2>1 DEF CodeBit
  <1> DEFINE B == CodeLength(b)
             C == CodeLength(c)
  <1>a. B \in 5..30 /\ C \in 5..30 /\ B = CodeLength(b) /\ C = CodeLength(c)
    BY <1>2
  <1> HIDE DEF B, C
  <1>5. CASE B <= C
    <2>1. ASSUME NEW k \in 1..B PROVE CodeBits(b)[k] = CodeBits(c)[k]
      <3>1. k \in 1..30 /\ k <= B /\ k <= C
        BY <1>a, <1>5, PlacesOfShorter, Zenon
      <3> QED
        BY <1>4, <1>a, <3>1, Zenon
    <2>2. CodeLength(b) <= CodeLength(c)
      BY <1>5, <1>a, Zenon
    <2>3. \A k \in 1..CodeLength(b) : CodeBits(b)[k] = CodeBits(c)[k]
      BY <1>a, <2>1, Zenon
    <2> QED
      BY <2>2, <2>3, PrefixFree, Zenon
  <1>6. CASE C <= B
    <2>1. ASSUME NEW k \in 1..C PROVE CodeBits(c)[k] = CodeBits(b)[k]
      <3>1. k \in 1..30 /\ k <= B /\ k <= C
        BY <1>a, <1>6, PlacesOfShorter, Zenon
      <3> QED
        BY <1>4, <1>a, <3>1, Zenon
    <2>2. CodeLength(c) <= CodeLength(b)
      BY <1>6, <1>a, Zenon
    <2>3. \A k \in 1..CodeLength(c) : CodeBits(c)[k] = CodeBits(b)[k]
      BY <1>a, <2>1, Zenon
    <2> QED
      BY <2>2, <2>3, PrefixFree, Zenon
  <1>7. B <= C \/ C <= B
    BY <1>a
  <1> QED
    BY <1>5, <1>6, <1>7

(* The nodes of the tree on a code's way. *)
Nodes == Internal \cup {<<>>}

(* The tree has a node for every beginning of the way, from the root on. *)
LEMMA WayNodes ==
    ASSUME NEW c \in Bytes, NEW e \in 0..Depth(c)
    PROVE  /\ SubSeq(Way(c), 1, e) \in Nodes
           /\ SubSeq(Way(c), 1, 0) = <<>>
           /\ SubSeq(Way(c), 1, Depth(c)) = Way(c)
  <1>1. /\ Depth(c) \in 0..3 /\ Way(c) \in Seq(Bytes) /\ Len(Way(c)) = Depth(c)
    BY WayType
  <1>2. SubSeq(Way(c), 1, 0) = <<>> /\ SubSeq(Way(c), 1, Depth(c)) = Way(c)
    BY <1>1
  <1>3. CASE e = 0
    BY <1>2, <1>3 DEF Nodes
  <1>4. CASE e > 0
    <2>1. e \in 1..Depth(c)
      BY <1>1, <1>4
    <2>2. SubSeq(Way(c), 1, e) \in {SubSeq(Way(c), 1, d) : d \in 1..Depth(c)}
      BY <2>1
    <2>3. SubSeq(Way(c), 1, e) \in Internal
      BY <2>2, ZenonT(60) DEF Internal, Bytes
    <2> QED
      BY <1>2, <2>3 DEF Nodes
  <1> QED
    BY <1>1, <1>2, <1>3, <1>4

(* At the last node on its way, the bits of a code find its leaf, *)
LEMMA TreeLeaf ==
    ASSUME NEW c \in Bytes, NEW f \in BitOctets,
           \A j \in 0..7 : (8 * Depth(c) + 8) - j <= CodeLength(c)
                             => f[j] = CodeBit(c, (8 * Depth(c) + 8) - j)
    PROVE  Children[Way(c)][OctetOf(f)] = Leaf(c)
  <1> DEFINE i == OctetOf(f)
             At == {sym \in {sym \in 0..255 : Way(sym) = Way(c)} : i \in LeafIndices(sym)}
  <1>1. Depth(c) \in 0..3 /\ Depth(c) \in 0..Depth(c)
    BY WayType
  <1>2. Way(c) = SubSeq(Way(c), 1, Depth(c)) /\ Way(c) \in Nodes
    BY <1>1, WayNodes
  <1>3. i \in 0..255
    BY OctetBits DEF Bytes
  <1>4. c \in At
    BY LeafIndex DEF Bytes
  <1>5. ASSUME NEW b \in At PROVE b = c
    <2>1. b \in Bytes /\ Way(b) = SubSeq(Way(c), 1, Depth(c)) /\ OctetOf(f) \in LeafIndices(b)
      BY <1>2 DEF Bytes
    <2> QED
      BY <1>1, <2>1, OnlyOne
  <1>6. At # {} /\ (CHOOSE sym \in At : TRUE) = c
    <2> HIDE DEF At
    <2> QED
      BY <1>4, <1>5, SMTT(60)
  <1>7. ChildrenOf(Way(c))[i] =
          CASE At # {} -> Leaf(CHOOSE sym \in At : TRUE)
            [] At = {} /\ Append(Way(c), i) \in Internal -> Inside(Append(Way(c), i))
            [] OTHER -> NullPtr
    BY <1>3 DEF ChildrenOf
  <1> HIDE DEF At, i
  <1>8. ChildrenOf(Way(c))[i] = Leaf(c)
    BY <1>6, <1>7
  <1> QED
    BY <1>2, <1>8 DEF Children, Nodes, i

(* A place above a leaf is one of the tree's levels, *)
LEMMA AboveTheLeaf ==
    ASSUME NEW d \in 0..3, NEW e \in 0..(d - 1)
    PROVE  e \in 0..2 /\ e + 1 \in 1..d /\ e \in 0..d
  OBVIOUS

(* and the beginning of a string of bytes has the bytes of the string. *)
LEMMA Beginning ==
    ASSUME NEW s \in Seq(Bytes), NEW n \in 0..Len(s)
    PROVE  /\ SubSeq(s, 1, n) \in Seq(Bytes) /\ Len(SubSeq(s, 1, n)) = n
           /\ \A k \in 1..n : SubSeq(s, 1, n)[k] = s[k]
  OBVIOUS

(* At the places before the leaf the next eight bits find the next. *)
LEMMA TreeInside ==
    ASSUME NEW c \in Bytes, NEW e \in 0..(Depth(c) - 1), NEW f \in BitOctets,
           \A j \in 0..7 : f[j] = CodeBit(c, (8 * e + 8) - j)
    PROVE  Children[SubSeq(Way(c), 1, e)][OctetOf(f)] = Inside(SubSeq(Way(c), 1, e + 1))
  <1> DEFINE i == OctetOf(f)
             w == SubSeq(Way(c), 1, e)
             At == {sym \in {sym \in 0..255 : Way(sym) = w} : i \in LeafIndices(sym)}
  <1>1. /\ Depth(c) \in 0..3 /\ Way(c) \in Seq(Bytes) /\ Len(Way(c)) = Depth(c)
        /\ \A d \in 1..Depth(c) : Way(c)[d] = ByteAt(c, 8 * d)
    BY WayType
  <1>2. e \in 0..2 /\ e + 1 \in 1..Depth(c) /\ e \in 0..Depth(c)
    BY <1>1, AboveTheLeaf, Zenon
  <1>3. w \in Nodes /\ Len(w) = e
    BY <1>1, <1>2, WayNodes
  <1>4. i \in 0..255
    BY OctetBits DEF Bytes
  <1>5. i = Way(c)[e + 1]
    <2>1. 8 * (e + 1) \in Int /\ 8 * (e + 1) = 8 * e + 8
      BY <1>2
    <2>2. f = BitsAt(c, 8 * (e + 1))
      BY <2>1 DEF BitsAt, BitOctets
    <2> QED
      BY <1>1, <1>2, <2>1, <2>2, BitsAtType
  <1>6. ASSUME NEW b \in At PROVE FALSE
    <2>1. b \in Bytes /\ Way(b) = SubSeq(Way(c), 1, e) /\ OctetOf(f) \in LeafIndices(b)
      BY DEF Bytes
    <2>2. b = c
      BY <1>2, <2>1, OnlyOne
    <2> QED
      BY <1>1, <1>2, <1>3, <2>1, <2>2, SMTT(60)
  <1>7. Append(w, i) = SubSeq(Way(c), 1, e + 1)
    <2>1. SubSeq(Way(c), 1, e + 1) \in Seq(Bytes) /\ Len(SubSeq(Way(c), 1, e + 1)) = e + 1
          /\ \A k \in 1..(e + 1) : SubSeq(Way(c), 1, e + 1)[k] = Way(c)[k]
      <3>1. e + 1 \in 0..Depth(c)
        BY <1>1, <1>2
      <3> QED
        BY <1>1, <3>1, Beginning, Zenon
    <2>2. w \in Seq(Bytes) /\ \A k \in 1..e : w[k] = Way(c)[k]
      BY <1>1, <1>2, Beginning, Zenon
    <2>3. Append(w, i) \in Seq(Bytes) /\ Len(Append(w, i)) = e + 1
          /\ \A k \in 1..e : Append(w, i)[k] = w[k]
          /\ Append(w, i)[e + 1] = i
      <3>1. i \in Bytes
        BY <1>4 DEF Bytes
      <3> HIDE DEF w, i
      <3> QED
        BY <1>2, <1>3, <2>2, <3>1, SMTT(60)
    <2> HIDE DEF w, i
    <2>4. \A k \in 1..(e + 1) : Append(w, i)[k] = SubSeq(Way(c), 1, e + 1)[k]
      BY <1>2, <1>5, <2>1, <2>2, <2>3, SMTT(60)
    <2> QED
      BY <1>2, <2>1, <2>3, <2>4, SMTT(60)
  <1>8. Append(w, i) \in Internal
    <2>1. SubSeq(Way(c), 1, e + 1) \in Internal
      <3>1. SubSeq(Way(c), 1, e + 1) \in {SubSeq(Way(c), 1, d) : d \in 1..Depth(c)}
        BY <1>2
      <3> QED
        BY <3>1, ZenonT(60) DEF Internal, Bytes
    <2> QED
      BY <1>7, <2>1
  <1>9. At = {}
    BY <1>6
  <1>10. ChildrenOf(w)[i] =
           CASE At # {} -> Leaf(CHOOSE sym \in At : TRUE)
             [] At = {} /\ Append(w, i) \in Internal -> Inside(Append(w, i))
             [] OTHER -> NullPtr
    BY <1>4 DEF ChildrenOf
  <1> HIDE DEF At, i, w
  <1>11. ChildrenOf(w)[i] = Inside(SubSeq(Way(c), 1, e + 1))
    BY <1>7, <1>8, <1>9, <1>10
  <1> QED
    BY <1>3, <1>11 DEF Children, Nodes, i, w

(* The last eight bits of a number. *)
LowBits(x) == [u \in 0..7 |-> (x \div 2^u) % 2]

(* The byte a number is cut to has them. *)
LEMMA LowByteBits ==
    ASSUME NEW x \in Nat
    PROVE  LowBits(x) \in BitOctets /\ x % 256 = OctetOf(LowBits(x))
  <1> DEFINE f == LowBits(x)
  <1>1. ASSUME NEW u \in 0..7 PROVE (x \div 2^u) % 2 \in {0, 1}
    <2>1. u \in 0..30
      OBVIOUS
    <2>2. 2^u \in Nat \ {0}
      BY <2>1, Doubling
    <2>3. \A a \in Nat, b \in Nat \ {0} : a \div b \in Nat
      OBVIOUS
    <2>4. x \div 2^u \in Nat
      BY <2>2, <2>3
    <2>5. \A a \in Nat : a % 2 \in {0, 1}
      OBVIOUS
    <2> QED
      BY <2>4, <2>5
  <1>2. f \in BitOctets
    BY <1>1 DEF LowBits, BitOctets
  <1>3. /\ 2^0 = 1 /\ 2^1 = 2 /\ 2^2 = 4 /\ 2^3 = 8
        /\ 2^4 = 16 /\ 2^5 = 32 /\ 2^6 = 64 /\ 2^7 = 128
    OBVIOUS
  <1>4. x \div 1 = x
    OBVIOUS
  <1>5. /\ f[0] = x % 2 /\ f[1] = (x \div 2) % 2 /\ f[2] = (x \div 4) % 2
        /\ f[3] = (x \div 8) % 2 /\ f[4] = (x \div 16) % 2 /\ f[5] = (x \div 32) % 2
        /\ f[6] = (x \div 64) % 2 /\ f[7] = (x \div 128) % 2
    BY <1>3, <1>4 DEF LowBits
  <1> HIDE DEF f
  <1>6. x % 256 = OctetOf(f)
    <2>1. x % 256 = Octet8((x \div 128) % 2, (x \div 64) % 2, (x \div 32) % 2, (x \div 16) % 2,
                           (x \div 8) % 2, (x \div 4) % 2, (x \div 2) % 2, x % 2)
      BY ByteOfBits, Zenon
    <2>2. x % 256 = Octet8(f[7], f[6], f[5], f[4], f[3], f[2], f[1], f[0])
      BY <1>5, <2>1, Zenon
    <2> QED
      BY <2>2, Zenon DEF OctetOf
  <1> QED
    BY <1>2, <1>6 DEF f

(* static_cast<uint8_t>(x >> m) *)
LEMMA HighByteBits ==
    ASSUME NEW x \in Nat, NEW m \in 0..22
    PROVE  /\ HighByte(x, m) = OctetOf([u \in 0..7 |-> (x \div 2^(m + u)) % 2])
           /\ [u \in 0..7 |-> (x \div 2^(m + u)) % 2] \in BitOctets
  <1> DEFINE y == x \div 2^m
  <1>1. 2^m \in Nat \ {0}
    <2>1. m \in 0..30
      OBVIOUS
    <2> QED
      BY <2>1, Doubling
  <1>2. y \in Nat
    <2>1. \A a \in Nat, b \in Nat \ {0} : a \div b \in Nat
      OBVIOUS
    <2> QED
      BY <1>1, <2>1
  <1>3. ASSUME NEW u \in 0..7 PROVE y \div 2^u = x \div 2^(m + u)
    <2>1. m \in 0..30 /\ u \in 0..30 /\ m + u <= 30
      OBVIOUS
    <2>2. 2^u \in Nat \ {0}
      BY <2>1, Doubling
    <2>3. 2^(m + u) = 2^m * 2^u
      BY <2>1, PowerProduct
    <2>4. (x \div 2^m) \div 2^u = x \div (2^m * 2^u)
      BY <1>1, <2>2, DivDiv, Zenon
    <2> QED
      BY <2>3, <2>4, Zenon DEF y
  <1>4. LowBits(y) = [u \in 0..7 |-> (x \div 2^(m + u)) % 2]
    BY <1>3 DEF LowBits
  <1> HIDE DEF y
  <1>5. LowBits(y) \in BitOctets /\ y % 256 = OctetOf(LowBits(y))
    BY <1>2, LowByteBits
  <1> QED
    BY <1>4, <1>5, Zenon DEF HighByte, y

(* static_cast<uint8_t>(x << m) *)
ShiftedUp(x, m) == [u \in 0..7 |-> IF u >= m THEN (x \div 2^(u - m)) % 2 ELSE 0]

(* The byte has the bits m places lower, and zeros. *)
LEMMA LowByteShifted ==
    ASSUME NEW x \in Nat, NEW m \in 0..7
    PROVE  ShiftedUp(x, m) \in BitOctets /\ LowByte(x, m) = OctetOf(ShiftedUp(x, m))
  <1> DEFINE b == LowBits(x)
             g == ShiftedUp(x, m)
             y == x % 256
  <1>1. b \in BitOctets /\ y = OctetOf(b)
    BY LowByteBits
  <1>2. \A u \in 0..7 : b[u] = (x \div 2^u) % 2
    BY DEF LowBits
  <1>3. \A u \in 0..7 : g[u] = IF u >= m THEN b[u - m] ELSE 0
    <2>1. \A u \in 0..7 : u >= m => u - m \in 0..7
      OBVIOUS
    <2> QED
      BY <1>2, <2>1 DEF ShiftedUp
  <1>4. LowByte(x, m) = (y * 2^m) % 256
    BY DEF LowByte
  <1>5. g = [u \in 0..7 |-> g[u]]
    BY DEF ShiftedUp
  <1> HIDE DEF b, g, y
  <1>6. g \in BitOctets
    <2>1. \A u \in 0..7 : g[u] \in {0, 1}
      <3>1. \A u \in 0..7 : u >= m => u - m \in 0..7
        OBVIOUS
      <3> QED
        BY <1>1, <1>3, <3>1 DEF BitOctets
    <2> QED
      BY <1>5, <2>1 DEF BitOctets
  <1>7. /\ b[0] \in 0..1 /\ b[1] \in 0..1 /\ b[2] \in 0..1 /\ b[3] \in 0..1
        /\ b[4] \in 0..1 /\ b[5] \in 0..1 /\ b[6] \in 0..1 /\ b[7] \in 0..1
    BY <1>1 DEF BitOctets
  <1>8. y = Octet8(b[7], b[6], b[5], b[4], b[3], b[2], b[1], b[0])
    BY <1>1 DEF OctetOf
  <1>9. ShiftsOf(y, b[7], b[6], b[5], b[4], b[3], b[2], b[1], b[0])
    BY <1>7, <1>8, ShiftedByte, Zenon
  <1>10. /\ 2^0 = 1 /\ 2^1 = 2 /\ 2^2 = 4 /\ 2^3 = 8
         /\ 2^4 = 16 /\ 2^5 = 32 /\ 2^6 = 64 /\ 2^7 = 128
    OBVIOUS
  <1>11. CASE m = 0
    <2>1. g[0] = b[0] /\ g[1] = b[1] /\ g[2] = b[2] /\ g[3] = b[3]
          /\ g[4] = b[4] /\ g[5] = b[5] /\ g[6] = b[6] /\ g[7] = b[7]
      BY <1>3, <1>11
    <2>2. (y * 1) % 256 = OctetOf(g)
      BY <1>9, <2>1, Zenon DEF OctetOf, ShiftsOf
    <2>3. (y * 2^m) % 256 = (y * 1) % 256
      BY <1>10, <1>11, Zenon
    <2> QED
      BY <1>4, <1>6, <2>2, <2>3, Zenon DEF g
  <1>12. CASE m = 1
    <2>1. g[0] = 0 /\ g[1] = b[0] /\ g[2] = b[1] /\ g[3] = b[2]
          /\ g[4] = b[3] /\ g[5] = b[4] /\ g[6] = b[5] /\ g[7] = b[6]
      BY <1>3, <1>12
    <2>2. (y * 2) % 256 = OctetOf(g)
      BY <1>9, <2>1, Zenon DEF OctetOf, ShiftsOf
    <2>3. (y * 2^m) % 256 = (y * 2) % 256
      BY <1>10, <1>12, Zenon
    <2> QED
      BY <1>4, <1>6, <2>2, <2>3, Zenon DEF g
  <1>13. CASE m = 2
    <2>1. g[0] = 0 /\ g[1] = 0 /\ g[2] = b[0] /\ g[3] = b[1]
          /\ g[4] = b[2] /\ g[5] = b[3] /\ g[6] = b[4] /\ g[7] = b[5]
      BY <1>3, <1>13
    <2>2. (y * 4) % 256 = OctetOf(g)
      BY <1>9, <2>1, Zenon DEF OctetOf, ShiftsOf
    <2>3. (y * 2^m) % 256 = (y * 4) % 256
      BY <1>10, <1>13, Zenon
    <2> QED
      BY <1>4, <1>6, <2>2, <2>3, Zenon DEF g
  <1>14. CASE m = 3
    <2>1. g[0] = 0 /\ g[1] = 0 /\ g[2] = 0 /\ g[3] = b[0]
          /\ g[4] = b[1] /\ g[5] = b[2] /\ g[6] = b[3] /\ g[7] = b[4]
      BY <1>3, <1>14
    <2>2. (y * 8) % 256 = OctetOf(g)
      BY <1>9, <2>1, Zenon DEF OctetOf, ShiftsOf
    <2>3. (y * 2^m) % 256 = (y * 8) % 256
      BY <1>10, <1>14, Zenon
    <2> QED
      BY <1>4, <1>6, <2>2, <2>3, Zenon DEF g
  <1>15. CASE m = 4
    <2>1. g[0] = 0 /\ g[1] = 0 /\ g[2] = 0 /\ g[3] = 0
          /\ g[4] = b[0] /\ g[5] = b[1] /\ g[6] = b[2] /\ g[7] = b[3]
      BY <1>3, <1>15
    <2>2. (y * 16) % 256 = OctetOf(g)
      BY <1>9, <2>1, Zenon DEF OctetOf, ShiftsOf
    <2>3. (y * 2^m) % 256 = (y * 16) % 256
      BY <1>10, <1>15, Zenon
    <2> QED
      BY <1>4, <1>6, <2>2, <2>3, Zenon DEF g
  <1>16. CASE m = 5
    <2>1. g[0] = 0 /\ g[1] = 0 /\ g[2] = 0 /\ g[3] = 0
          /\ g[4] = 0 /\ g[5] = b[0] /\ g[6] = b[1] /\ g[7] = b[2]
      BY <1>3, <1>16
    <2>2. (y * 32) % 256 = OctetOf(g)
      BY <1>9, <2>1, Zenon DEF OctetOf, ShiftsOf
    <2>3. (y * 2^m) % 256 = (y * 32) % 256
      BY <1>10, <1>16, Zenon
    <2> QED
      BY <1>4, <1>6, <2>2, <2>3, Zenon DEF g
  <1>17. CASE m = 6
    <2>1. g[0] = 0 /\ g[1] = 0 /\ g[2] = 0 /\ g[3] = 0
          /\ g[4] = 0 /\ g[5] = 0 /\ g[6] = b[0] /\ g[7] = b[1]
      BY <1>3, <1>17
    <2>2. (y * 64) % 256 = OctetOf(g)
      BY <1>9, <2>1, Zenon DEF OctetOf, ShiftsOf
    <2>3. (y * 2^m) % 256 = (y * 64) % 256
      BY <1>10, <1>17, Zenon
    <2> QED
      BY <1>4, <1>6, <2>2, <2>3, Zenon DEF g
  <1>18. CASE m = 7
    <2>1. g[0] = 0 /\ g[1] = 0 /\ g[2] = 0 /\ g[3] = 0
          /\ g[4] = 0 /\ g[5] = 0 /\ g[6] = 0 /\ g[7] = b[0]
      BY <1>3, <1>18
    <2>2. (y * 128) % 256 = OctetOf(g)
      BY <1>9, <2>1, Zenon DEF OctetOf, ShiftsOf
    <2>3. (y * 2^m) % 256 = (y * 128) % 256
      BY <1>10, <1>18, Zenon
    <2> QED
      BY <1>4, <1>6, <2>2, <2>3, Zenon DEF g
  <1>19. m = 0 \/ m = 1 \/ m = 2 \/ m = 3 \/ m = 4 \/ m = 5 \/ m = 6 \/ m = 7
    OBVIOUS
  <1> QED
    BY <1>11, <1>12, <1>13, <1>14, <1>15, <1>16, <1>17, <1>18, <1>19

(* Ones at the end of a number. *)
OnesAt(x, b7, b6, b5, b4, b3, b2, b1, b0) ==
    /\ b0 = 1 => x % 2 = 1
    /\ b0 = 1 /\ b1 = 1 => x % 4 = 3
    /\ b0 = 1 /\ b1 = 1 /\ b2 = 1 => x % 8 = 7
    /\ b0 = 1 /\ b1 = 1 /\ b2 = 1 /\ b3 = 1 => x % 16 = 15
    /\ b0 = 1 /\ b1 = 1 /\ b2 = 1 /\ b3 = 1 /\ b4 = 1 => x % 32 = 31
    /\ b0 = 1 /\ b1 = 1 /\ b2 = 1 /\ b3 = 1 /\ b4 = 1 /\ b5 = 1 => x % 64 = 63
    /\ b0 = 1 /\ b1 = 1 /\ b2 = 1 /\ b3 = 1 /\ b4 = 1 /\ b5 = 1 /\ b6 = 1 => x % 128 = 127

(* They come from those of its last byte, bit by bit. *)
LEMMA OnesOctet ==
    ASSUME NEW b7 \in 0..1, NEW b6 \in 0..1, NEW b5 \in 0..1, NEW b4 \in 0..1,
           NEW b3 \in 0..1, NEW b2 \in 0..1, NEW b1 \in 0..1, NEW b0 \in 0..1,
           NEW x \in Nat, x % 256 = Octet8(b7, b6, b5, b4, b3, b2, b1, b0)
    PROVE  OnesAt(x, b7, b6, b5, b4, b3, b2, b1, b0)
  <1> DEFINE q == x \div 256
  <1>1. q \in Nat /\ x = 256 * q + (128 * b7 + 64 * b6 + 32 * b5 + 16 * b4 + 8 * b3 + 4 * b2 + 2 * b1 + b0)
    BY DEF Octet8
  <1> HIDE DEF q
  <1>2. x % 2 = 1 * b0
    <2> DEFINE h == 128 * q + 64 * b7 + 32 * b6 + 16 * b5 + 8 * b4 + 4 * b3 + 2 * b2 + 1 * b1
    <2>1. h \in Nat /\ x = 2 * h + (1 * b0) /\ 1 * b0 \in 0..1
      BY <1>1
    <2> HIDE DEF h
    <2>2. \A g \in Nat, l \in 0..1 : (2 * g + l) % 2 = l
      OBVIOUS
    <2> QED
      BY <2>1, <2>2
  <1>3. x % 4 = 2 * b1 + 1 * b0
    <2> DEFINE h == 64 * q + 32 * b7 + 16 * b6 + 8 * b5 + 4 * b4 + 2 * b3 + 1 * b2
    <2>1. h \in Nat /\ x = 4 * h + (2 * b1 + 1 * b0) /\ 2 * b1 + 1 * b0 \in 0..3
      BY <1>1
    <2> HIDE DEF h
    <2>2. \A g \in Nat, l \in 0..3 : (4 * g + l) % 4 = l
      OBVIOUS
    <2> QED
      BY <2>1, <2>2
  <1>4. x % 8 = 4 * b2 + 2 * b1 + 1 * b0
    <2> DEFINE h == 32 * q + 16 * b7 + 8 * b6 + 4 * b5 + 2 * b4 + 1 * b3
    <2>1. h \in Nat /\ x = 8 * h + (4 * b2 + 2 * b1 + 1 * b0) /\ 4 * b2 + 2 * b1 + 1 * b0 \in 0..7
      BY <1>1
    <2> HIDE DEF h
    <2>2. \A g \in Nat, l \in 0..7 : (8 * g + l) % 8 = l
      OBVIOUS
    <2> QED
      BY <2>1, <2>2
  <1>5. x % 16 = 8 * b3 + 4 * b2 + 2 * b1 + 1 * b0
    <2> DEFINE h == 16 * q + 8 * b7 + 4 * b6 + 2 * b5 + 1 * b4
    <2>1. /\ h \in Nat
          /\ x = 16 * h + (8 * b3 + 4 * b2 + 2 * b1 + 1 * b0)
          /\ 8 * b3 + 4 * b2 + 2 * b1 + 1 * b0 \in 0..15
      BY <1>1
    <2> HIDE DEF h
    <2>2. \A g \in Nat, l \in 0..15 : (16 * g + l) % 16 = l
      OBVIOUS
    <2> QED
      BY <2>1, <2>2
  <1>6. x % 32 = 16 * b4 + 8 * b3 + 4 * b2 + 2 * b1 + 1 * b0
    <2> DEFINE h == 8 * q + 4 * b7 + 2 * b6 + 1 * b5
    <2>1. /\ h \in Nat
          /\ x = 32 * h + (16 * b4 + 8 * b3 + 4 * b2 + 2 * b1 + 1 * b0)
          /\ 16 * b4 + 8 * b3 + 4 * b2 + 2 * b1 + 1 * b0 \in 0..31
      BY <1>1
    <2> HIDE DEF h
    <2>2. \A g \in Nat, l \in 0..31 : (32 * g + l) % 32 = l
      OBVIOUS
    <2> QED
      BY <2>1, <2>2
  <1>7. x % 64 = 32 * b5 + 16 * b4 + 8 * b3 + 4 * b2 + 2 * b1 + 1 * b0
    <2> DEFINE h == 4 * q + 2 * b7 + 1 * b6
    <2>1. /\ h \in Nat
          /\ x = 64 * h + (32 * b5 + 16 * b4 + 8 * b3 + 4 * b2 + 2 * b1 + 1 * b0)
          /\ 32 * b5 + 16 * b4 + 8 * b3 + 4 * b2 + 2 * b1 + 1 * b0 \in 0..63
      BY <1>1
    <2> HIDE DEF h
    <2>2. \A g \in Nat, l \in 0..63 : (64 * g + l) % 64 = l
      OBVIOUS
    <2> QED
      BY <2>1, <2>2
  <1>8. x % 128 = 64 * b6 + 32 * b5 + 16 * b4 + 8 * b3 + 4 * b2 + 2 * b1 + 1 * b0
    <2> DEFINE h == 2 * q + 1 * b7
    <2>1. /\ h \in Nat
          /\ x = 128 * h + (64 * b6 + 32 * b5 + 16 * b4 + 8 * b3 + 4 * b2 + 2 * b1 + 1 * b0)
          /\ 64 * b6 + 32 * b5 + 16 * b4 + 8 * b3 + 4 * b2 + 2 * b1 + 1 * b0 \in 0..127
      BY <1>1
    <2> HIDE DEF h
    <2>2. \A g \in Nat, l \in 0..127 : (128 * g + l) % 128 = l
      OBVIOUS
    <2> QED
      BY <2>1, <2>2
  <1> QED
    BY <1>2, <1>3, <1>4, <1>5, <1>6, <1>7, <1>8 DEF OnesAt

(* A number that ends in r ones is one less than a multiple of 2^r. *)
LEMMA LowOnes ==
    ASSUME NEW x \in Nat, NEW r \in 0..7, \A t \in 0..(r - 1) : (x \div 2^t) % 2 = 1
    PROVE  x % 2^r = 2^r - 1
  <1> DEFINE b == LowBits(x)
  <1>1. /\ 2^0 = 1 /\ 2^1 = 2 /\ 2^2 = 4 /\ 2^3 = 8
        /\ 2^4 = 16 /\ 2^5 = 32 /\ 2^6 = 64 /\ 2^7 = 128
    OBVIOUS
  <1>2. b \in BitOctets /\ x % 256 = OctetOf(b)
    BY LowByteBits
  <1>3. \A t \in 0..(r - 1) : b[t] = 1
    BY DEF LowBits
  <1> HIDE DEF b
  <1>4. /\ b[0] \in 0..1 /\ b[1] \in 0..1 /\ b[2] \in 0..1 /\ b[3] \in 0..1
        /\ b[4] \in 0..1 /\ b[5] \in 0..1 /\ b[6] \in 0..1 /\ b[7] \in 0..1
    BY <1>2 DEF BitOctets
  <1>5. x % 256 = Octet8(b[7], b[6], b[5], b[4], b[3], b[2], b[1], b[0])
    BY <1>2 DEF OctetOf
  <1>6. OnesAt(x, b[7], b[6], b[5], b[4], b[3], b[2], b[1], b[0])
    BY <1>4, <1>5, OnesOctet, Zenon
  <1>7. CASE r = 0
    BY <1>1, <1>7
  <1>8. CASE r = 1
    <2>1. b[0] = 1
      BY <1>3, <1>8
    <2>2. x % 2 = 1
      BY <1>6, <2>1, Zenon DEF OnesAt
    <2> QED
      BY <1>1, <1>8, <2>2
  <1>9. CASE r = 2
    <2>1. b[0] = 1 /\ b[1] = 1
      BY <1>3, <1>9
    <2>2. x % 4 = 3
      BY <1>6, <2>1, Zenon DEF OnesAt
    <2> QED
      BY <1>1, <1>9, <2>2
  <1>10. CASE r = 3
    <2>1. b[0] = 1 /\ b[1] = 1 /\ b[2] = 1
      BY <1>3, <1>10
    <2>2. x % 8 = 7
      BY <1>6, <2>1, Zenon DEF OnesAt
    <2> QED
      BY <1>1, <1>10, <2>2
  <1>11. CASE r = 4
    <2>1. b[0] = 1 /\ b[1] = 1 /\ b[2] = 1 /\ b[3] = 1
      BY <1>3, <1>11
    <2>2. x % 16 = 15
      BY <1>6, <2>1, Zenon DEF OnesAt
    <2> QED
      BY <1>1, <1>11, <2>2
  <1>12. CASE r = 5
    <2>1. b[0] = 1 /\ b[1] = 1 /\ b[2] = 1 /\ b[3] = 1 /\ b[4] = 1
      BY <1>3, <1>12
    <2>2. x % 32 = 31
      BY <1>6, <2>1, Zenon DEF OnesAt
    <2> QED
      BY <1>1, <1>12, <2>2
  <1>13. CASE r = 6
    <2>1. b[0] = 1 /\ b[1] = 1 /\ b[2] = 1 /\ b[3] = 1 /\ b[4] = 1 /\ b[5] = 1
      BY <1>3, <1>13
    <2>2. x % 64 = 63
      BY <1>6, <2>1, Zenon DEF OnesAt
    <2> QED
      BY <1>1, <1>13, <2>2
  <1>14. CASE r = 7
    <2>1. b[0] = 1 /\ b[1] = 1 /\ b[2] = 1 /\ b[3] = 1 /\ b[4] = 1 /\ b[5] = 1 /\ b[6] = 1
      BY <1>3, <1>14
    <2>2. x % 128 = 127
      BY <1>6, <2>1, Zenon DEF OnesAt
    <2> QED
      BY <1>1, <1>14, <2>2
  <1>15. r = 0 \/ r = 1 \/ r = 2 \/ r = 3 \/ r = 4 \/ r = 5 \/ r = 6 \/ r = 7
    OBVIOUS
  <1> QED
    BY <1>7, <1>8, <1>9, <1>10, <1>11, <1>12, <1>13, <1>14, <1>15

(* The byte is the lower half, the old lower half is the upper one, *)
LEMMA ShiftInNumber ==
    ASSUME NEW a \in Nat, NEW b \in Bytes, NEW z, z = (a * 256 + b) % 65536
    PROVE  z \in Nat /\ z < 65536 /\ z % 256 = b /\ z \div 256 = a % 256
  <1>0. b \in 0..255
    BY DEF Bytes
  <1>1. PICK q \in Nat, r \in 0..255 : a = 256 * q + r /\ r = a % 256
    <2>1. a \div 256 \in Nat /\ a % 256 \in 0..255 /\ a = 256 * (a \div 256) + (a % 256)
      OBVIOUS
    <2> QED
      BY <2>1
  <1>2. PICK l \in Nat : l = 256 * r + b /\ l < 65536
    BY <1>0
  <1>3. a * 256 + b = 65536 * q + l
    BY <1>0, <1>1, <1>2
  <1>4. (65536 * q + l) % 65536 = l
    BY <1>2
  <1>5. z = l
    BY <1>3, <1>4
  <1>6. (256 * r + b) % 256 = b /\ (256 * r + b) \div 256 = r
    BY <1>0
  <1> QED
    BY <1>1, <1>2, <1>5, <1>6

(* A byte shifted into sixteen bits. *)
Word16 == {x \in Nat : x < 65536}
ShiftedIn(x, b) == (x * 256 + b) % 2^16

(* so that the bits of both are where they were, or eight places higher. *)
LEMMA ShiftIn ==
    ASSUME NEW x \in Nat, NEW f \in BitOctets
    PROVE  LET y == ShiftedIn(x, OctetOf(f))
           IN /\ y \in Word16
              /\ \A t \in 0..7 : (y \div 2^t) % 2 = f[t]
              /\ \A t \in 8..15 : (y \div 2^t) % 2 = (x \div 2^(t - 8)) % 2
  <1> DEFINE y == ShiftedIn(x, OctetOf(f))
  <1>1. 2^16 = 65536 /\ OctetOf(f) \in Bytes
    BY OctetBits
  <1>2. y = (x * 256 + OctetOf(f)) % 65536
    BY <1>1 DEF ShiftedIn
  <1>3. y \in Nat /\ y < 65536 /\ y % 256 = OctetOf(f) /\ y \div 256 = x % 256
    <2> HIDE DEF y
    <2> QED
      BY <1>1, <1>2, ShiftInNumber
  <1> HIDE DEF y
  <1>4. y \in Nat
    BY <1>3
  <1>5. ASSUME NEW t \in 0..7 PROVE (y \div 2^t) % 2 = f[t]
    <2>1. LowBits(y) \in BitOctets /\ OctetOf(LowBits(y)) = OctetOf(f)
      BY <1>3, <1>4, LowByteBits
    <2>2. LowBits(y)[t] = f[t]
      BY <2>1, OctetsEqual
    <2> QED
      BY <2>2 DEF LowBits
  <1>6. ASSUME NEW t \in 8..15 PROVE (y \div 2^t) % 2 = (x \div 2^(t - 8)) % 2
    <2> DEFINE u == t - 8
    <2>1. u \in 0..7 /\ u \in 0..30 /\ t = 8 + u /\ 8 \in 0..30 /\ 8 + u <= 30
      OBVIOUS
    <2> HIDE DEF u
    <2>2. 2^t = 256 * 2^u /\ 2^u \in Nat \ {0} /\ 256 \in Nat \ {0}
      <3>1. 2^8 = 256 /\ 256 \in Nat \ {0}
        OBVIOUS
      <3>2. 2^(8 + u) = 2^8 * 2^u
        BY <2>1, PowerProduct
      <3> QED
        BY <2>1, <3>1, <3>2, Doubling, Zenon
    <2>3. y \div 2^t = (x % 256) \div 2^u
      <3> DEFINE P == 256
                 K == 2^u
      <3>1. P \in Nat \ {0} /\ K \in Nat \ {0} /\ y \div P = x % 256 /\ 2^t = P * K
        BY <1>3, <2>2
      <3> HIDE DEF P
      <3>2. (y \div P) \div K = y \div (P * K)
        <4> HIDE DEF K
        <4> QED
          BY <1>4, <3>1, DivDiv, Zenon
      <3> QED
        BY <3>1, <3>2, Zenon
    <2>4. LowBits(x) \in BitOctets /\ x % 256 = OctetOf(LowBits(x))
      BY LowByteBits
    <2>5. ((x % 256) \div 2^u) % 2 = LowBits(x)[u]
      BY <2>1, <2>4, OctetBits
    <2> QED
      BY <2>1, <2>3, <2>5 DEF LowBits, u
  <1>8. y \in Word16
    BY <1>3 DEF Word16
  <1>7. /\ y \in Word16
        /\ \A t \in 0..7 : (y \div 2^t) % 2 = f[t]
        /\ \A t \in 8..15 : (y \div 2^t) % 2 = (x \div 2^(t - 8)) % 2
    BY <1>5, <1>6, <1>8, Zenon
  <1> QED
    BY <1>7, Zenon DEF y

(* Where the code of each byte of a string ends in the string's bits. *)
IsLayout(s, p) ==
    /\ p \in [0..Len(s) -> Nat]
    /\ p[0] = 0
    /\ p[Len(s)] = Len(RefBits(s))
    /\ \A j \in 1..Len(s) :
          /\ p[j] = p[j - 1] + CodeLength(s[j])
          /\ p[j] <= Len(RefBits(s))
          /\ \A k \in 1..CodeLength(s[j]) : RefBits(s)[p[j - 1] + k] = CodeBits(s[j])[k]

(* There is one for every string. *)
LEMMA LayoutExists ==
    \A s \in Seq(Bytes) : \E p : IsLayout(s, p)
  <1> DEFINE S == {s \in Seq(Bytes) : \E p : IsLayout(s, p)}
  <1>1. <<>> \in S
    <2> DEFINE p == [i \in 0..0 |-> 0]
    <2>1. RefBits(<<>>) = <<>>
      BY RefBitsGrow
    <2>2. IsLayout(<<>>, p)
      BY <2>1 DEF IsLayout
    <2> QED
      BY <2>2
  <1>2. ASSUME NEW s \in Seq(Bytes), NEW c \in Bytes, s \in S PROVE Append(s, c) \in S
    <2>1. PICK p : IsLayout(s, p)
      BY <1>2
    <2> DEFINE n == Len(s)
               t == Append(s, c)
               q == [i \in 0..(n + 1) |-> IF i = n + 1 THEN p[n] + CodeLength(c) ELSE p[i]]
               old == RefBits(s)
               new == RefBits(t)
    <2>2. /\ n \in Nat /\ t \in Seq(Bytes) /\ Len(t) = n + 1 /\ t[n + 1] = c
          /\ \A i \in 1..n : t[i] = s[i]
      OBVIOUS
    <2>3. /\ old \in Seq({0, 1}) /\ new = old \o CodeBits(c)
          /\ CodeBits(c) \in Seq({0, 1}) /\ Len(CodeBits(c)) = CodeLength(c)
          /\ CodeLength(c) \in 5..30
      BY RefBitsGrow, CodeBitsType, CodeLengths
    <2>4. /\ p \in [0..n -> Nat] /\ p[0] = 0 /\ p[n] = Len(old)
          /\ \A j \in 1..n : /\ p[j] = p[j - 1] + CodeLength(s[j])
                             /\ p[j] <= Len(old)
                             /\ \A k \in 1..CodeLength(s[j]) : old[p[j - 1] + k] = CodeBits(s[j])[k]
      BY <2>1 DEF IsLayout
    <2> HIDE DEF n, t, old, new
    <2>5. /\ Len(new) = Len(old) + CodeLength(c) /\ Len(old) \in Nat
          /\ \A k \in 1..Len(old) : new[k] = old[k]
          /\ \A k \in (Len(old) + 1)..(Len(old) + CodeLength(c)) : new[k] = CodeBits(c)[k - Len(old)]
      <3>1. \A x, y \in Seq({0, 1}) :
              /\ Len(x \o y) = Len(x) + Len(y)
              /\ \A k \in 1..Len(x) : (x \o y)[k] = x[k]
              /\ \A k \in (Len(x) + 1)..(Len(x) + Len(y)) : (x \o y)[k] = y[k - Len(x)]
        BY ConcatParts
      <3>2. Len(old) \in Nat
        BY <2>3
      <3> QED
        BY <2>3, <3>1, <3>2, Zenon
    <2>6. q \in [0..(n + 1) -> Nat] /\ q[0] = 0 /\ q[n + 1] = Len(new)
      BY <2>2, <2>3, <2>4, <2>5, SMTT(60)
    <2>7. ASSUME NEW j \in 1..(n + 1)
          PROVE  /\ q[j] = q[j - 1] + CodeLength(t[j])
                 /\ q[j] <= Len(new)
                 /\ \A k \in 1..CodeLength(t[j]) : new[q[j - 1] + k] = CodeBits(t[j])[k]
      <3>1. CASE j = n + 1
        <4>1. q[j] = Len(new) /\ q[j - 1] = Len(old) /\ t[j] = c
          BY <2>2, <2>4, <2>6, <3>1
        <4>2. ASSUME NEW k \in 1..CodeLength(c) PROVE new[Len(old) + k] = CodeBits(c)[k]
          <5>1. Len(old) + k \in (Len(old) + 1)..(Len(old) + CodeLength(c)) /\ (Len(old) + k) - Len(old) = k
            BY <2>3, <2>5
          <5> QED
            BY <2>5, <5>1
        <4>3. Len(new) = Len(old) + CodeLength(c) /\ Len(new) <= Len(new)
          BY <2>3, <2>5
        <4> QED
          BY <4>1, <4>2, <4>3, Zenon
      <3>2. CASE j # n + 1
        <4>1. j \in 1..n /\ j - 1 \in 0..n
          BY <2>2, <3>2
        <4>2. q[j] = p[j] /\ q[j - 1] = p[j - 1] /\ t[j] = s[j]
          BY <2>2, <4>1
        <4>3. /\ p[j] = p[j - 1] + CodeLength(s[j]) /\ p[j] <= Len(old)
              /\ p[j] \in Nat /\ p[j - 1] \in Nat /\ CodeLength(s[j]) \in 5..30
          <5>1. s[j] \in Bytes
            BY <4>1 DEF n
          <5>2. CodeLength(s[j]) \in 5..30
            BY <5>1, CodeLengths
          <5>3. j \in 0..n
            BY <2>2, <4>1
          <5>4. p[j] \in Nat /\ p[j - 1] \in Nat
            BY <2>4, <4>1, <5>3
          <5> QED
            BY <2>4, <4>1, <5>2, <5>4
        <4>4. ASSUME NEW k \in 1..CodeLength(s[j]) PROVE new[p[j - 1] + k] = CodeBits(s[j])[k]
          <5>1. p[j - 1] + k \in 1..Len(old)
            <6>1. \A x, y, z \in Nat, l \in 5..30 : x = y + l /\ x <= z =>
                     \A i \in 1..l : y + i \in 1..z
              OBVIOUS
            <6> QED
              BY <2>5, <4>3, <6>1
          <5>2. old[p[j - 1] + k] = CodeBits(s[j])[k]
            BY <2>4, <4>1
          <5> QED
            BY <2>5, <5>1, <5>2
        <4>5. p[j] <= Len(new)
          BY <2>3, <2>5, <4>3
        <4> QED
          BY <4>2, <4>3, <4>4, <4>5
      <3> QED
        BY <3>1, <3>2
    <2> HIDE DEF q
    <2>8. IsLayout(t, q)
      BY <2>2, <2>6, <2>7 DEF IsLayout, new
    <2> QED
      BY <2>2, <2>8 DEF t
  <1> HIDE DEF S
  <1>3. \A s \in Seq(Bytes) : s \in S
    BY <1>1, <1>2, SeqInduction
  <1> QED
    BY <1>3 DEF S

(* The bits sent for a string: those of its bytes, then ones. *)
Sent(s, i) == Bit(RefBits(s), 1, i)

SentOctet(s, k) == [u \in 0..7 |-> Sent(s, 8 * k - u)]

(* What a peer writes for a string are those bits, eight in a byte. *)
LEMMA RefHuffmanValue ==
    ASSUME NEW s \in Seq(Bytes)
    PROVE  /\ RefHuffman(s) \in Seq(Bytes)
           /\ Len(RefBits(s)) \in Nat
           /\ Len(RefHuffman(s)) = (Len(RefBits(s)) + 7) \div 8
           /\ \A i \in Nat \ {0} : Sent(s, i) \in {0, 1}
           /\ \A k \in 1..Len(RefHuffman(s)) : /\ SentOctet(s, k) \in BitOctets
                                               /\ RefHuffman(s)[k] = OctetOf(SentOctet(s, k))
  <1> DEFINE bits == RefBits(s)
             n == (Len(bits) + 7) \div 8
  <1>1. RefHuffman(s) = [k \in 1..n |-> Octet(bits, 1, k)]
    BY DEF RefHuffman, Octet, Octet8, Bit
  <1>2. bits \in Seq({0, 1})
    BY RefBitsGrow
  <1> HIDE DEF bits
  <1>3. n \in Nat /\ Len(bits) \in Nat
    BY <1>2
  <1> HIDE DEF n
  <1>4. ASSUME NEW k \in 1..n PROVE Octet(bits, 1, k) \in Bytes
    BY <1>2, OctetType
  <1>5. RefHuffman(s) \in Seq(Bytes) /\ Len(RefHuffman(s)) = n
    <2>1. RefHuffman(s) \in [1..n -> Bytes]
      BY <1>1, <1>4
    <2> QED
      BY <1>1, <1>3, <2>1
  <1>6. ASSUME NEW i \in Nat \ {0} PROVE Sent(s, i) \in {0, 1}
    BY <1>2, BitType DEF Sent, bits
  <1>7. ASSUME NEW k \in 1..n
        PROVE  SentOctet(s, k) \in BitOctets /\ RefHuffman(s)[k] = OctetOf(SentOctet(s, k))
    <2>1. \A u \in 0..7 : 8 * k - u \in Nat \ {0}
      BY <1>3
    <2>2. SentOctet(s, k) \in BitOctets
      BY <1>6, <2>1 DEF SentOctet, BitOctets
    <2>3. 8 * k - 0 = 8 * k
      BY <1>3
    <2>4. OctetOf(SentOctet(s, k)) = Octet(bits, 1, k)
      BY <2>3 DEF SentOctet, OctetOf, Octet, Sent, bits
    <2> QED
      BY <1>1, <2>2, <2>4
  <1> QED
    BY <1>3, <1>5, <1>6, <1>7 DEF n, bits

-----------------------------------------------------------------------------
(* The decoder.                                                            *)

DecoderErrors == {"", "ErrInvalidHuffman1", "ErrInvalidHuffman2", "ErrInvalidHuffman3",
                  "ErrInvalidHuffman4"}

(* What the loops of huffmanDecode keep, and what they have between two    *)
(* bytes.                                                                  *)
Decoders ==
    [n : {Inside(w) : w \in Nodes}, cur : Word16, cbits : 0..15, sbits : Int,
     out : Seq(Bytes), done : BOOLEAN, error : DecoderErrors]
Fed == {d \in Decoders : d.done \/ d.cbits <= 7}

(* The children of a node. *)
LEMMA ChildKinds ==
    ASSUME NEW w \in Nodes, NEW i \in Bytes
    PROVE  \/ Children[w][i] = NullPtr
           \/ \E c \in Bytes : Children[w][i] = Leaf(c)
           \/ \E v \in Nodes : Children[w][i] = Inside(v)
  <1> DEFINE At == {sym \in {sym \in 0..255 : Way(sym) = w} : i \in LeafIndices(sym)}
  <1>1. Children[w] = ChildrenOf(w)
    BY SMTT(60) DEF Children, Nodes
  <1>2. ChildrenOf(w)[i] =
          CASE At # {} -> Leaf(CHOOSE sym \in At : TRUE)
            [] At = {} /\ Append(w, i) \in Internal -> Inside(Append(w, i))
            [] OTHER -> NullPtr
    BY DEF ChildrenOf, Bytes
  <1>3. At # {} => (CHOOSE sym \in At : TRUE) \in Bytes
    <2>1. At \subseteq Bytes
      BY DEF Bytes
    <2> HIDE DEF At
    <2> QED
      BY <2>1
  <1> HIDE DEF At
  <1>4. CASE At # {}
    BY <1>1, <1>2, <1>3, <1>4
  <1>5. CASE At = {} /\ Append(w, i) \in Internal
    <2>1. Children[w][i] = Inside(Append(w, i))
      BY <1>1, <1>2, <1>5
    <2>2. Append(w, i) \in Nodes
      BY <1>5 DEF Nodes
    <2> QED
      BY <2>1, <2>2
  <1>6. CASE At = {} /\ Append(w, i) \notin Internal
    BY <1>1, <1>2, <1>6
  <1> QED
    BY <1>4, <1>5, <1>6

(* A symbol goes out, *)
LEMMA EmitValue ==
    ASSUME NEW d \in Decoders, NEW c \in Bytes, BitsLeft(c) <= d.cbits
    PROVE  LET e == Emit(d, Leaf(c))
           IN /\ e \in Decoders
              /\ e.n = Root /\ e.cur = d.cur /\ e.out = Append(d.out, c)
              /\ e.cbits = d.cbits - BitsLeft(c) /\ e.sbits = d.cbits - BitsLeft(c)
              /\ e.done = d.done /\ e.error = d.error
              /\ e.cbits < d.cbits
  <1>1. BitsLeft(c) \in 1..8
    BY WayType
  <1>2. d.cbits \in 0..15
    BY DEF Decoders
  <1>3. d.cbits - BitsLeft(c) \in 0..15 /\ d.cbits - BitsLeft(c) < d.cbits
    BY <1>1, <1>2
  <1>4. Root \in {Inside(w) : w \in Nodes}
    BY DEF Root, Nodes
  <1>5. Leaf(c).sym = c /\ Leaf(c).codeLen = BitsLeft(c)
    BY DEF Leaf
  <1>6. Emit(d, Leaf(c)) =
          [d EXCEPT !.out = Append(@, c), !.cbits = @ - BitsLeft(c), !.n = Root,
                    !.sbits = d.cbits - BitsLeft(c)]
    BY <1>5 DEF Emit
  <1> DEFINE e == Emit(d, Leaf(c))
  <1>7. /\ e.n = Root /\ e.cur = d.cur /\ e.out = Append(d.out, c)
        /\ e.cbits = d.cbits - BitsLeft(c) /\ e.sbits = d.cbits - BitsLeft(c)
        /\ e.done = d.done /\ e.error = d.error
        /\ e = [n |-> e.n, cur |-> e.cur, cbits |-> e.cbits, sbits |-> e.sbits,
                out |-> e.out, done |-> e.done, error |-> e.error]
    BY <1>6 DEF Decoders
  <1> HIDE DEF e
  <1>8. /\ e.n \in {Inside(w) : w \in Nodes} /\ e.cur \in Word16 /\ e.cbits \in 0..15
        /\ e.sbits \in Int /\ e.out \in Seq(Bytes) /\ e.done \in BOOLEAN /\ e.error \in DecoderErrors
    <2>1. /\ d.cur \in Word16 /\ d.out \in Seq(Bytes) /\ d.done \in BOOLEAN /\ d.error \in DecoderErrors
      BY DEF Decoders
    <2>2. d.cbits - BitsLeft(c) \in Int
      BY <1>3
    <2>3. Append(d.out, c) \in Seq(Bytes)
      BY <2>1
    <2> QED
      BY <1>3, <1>4, <1>7, <2>1, <2>2, <2>3
  <1>9. e \in Decoders
    BY <1>7, <1>8 DEF Decoders
  <1> QED
    BY <1>3, <1>7, <1>9 DEF e

(* a node is entered, *)
LEMMA EnterValue ==
    ASSUME NEW d \in Decoders, NEW v \in Nodes, d.cbits >= 8
    PROVE  LET e == [d EXCEPT !.n = Inside(v), !.cbits = @ - 8]
           IN /\ e \in Decoders
              /\ e.n = Inside(v) /\ e.cur = d.cur /\ e.out = d.out
              /\ e.cbits = d.cbits - 8 /\ e.sbits = d.sbits
              /\ e.done = d.done /\ e.error = d.error
              /\ e.cbits < d.cbits
  <1>1. d.cbits - 8 \in 0..15 /\ d.cbits - 8 < d.cbits
    BY DEF Decoders
  <1>2. Inside(v) \in {Inside(w) : w \in Nodes}
    OBVIOUS
  <1> QED
    BY <1>1, <1>2 DEF Decoders

(* or the code is no symbol's. *)
LEMMA FailValue ==
    ASSUME NEW d \in Decoders, NEW what \in DecoderErrors
    PROVE  Fail(d, what) \in Decoders /\ Fail(d, what).done
  BY DEF Decoders, Fail

(* A turn of the loop over eight bits or more. *)
LEMMA FeedTurnCases ==
    ASSUME NEW d \in Decoders, ~d.done, d.cbits >= 8, NEW w, d.n = Inside(w),
           NEW child, child = Children[w][HighByte(d.cur, d.cbits - 8)]
    PROVE  /\ child = NullPtr => FeedTurn(d) = Fail(d, "ErrInvalidHuffman1")
           /\ \A c \in Bytes : child = Leaf(c) => FeedTurn(d) = Emit(d, Leaf(c))
           /\ \A v \in Nodes : child = Inside(v) =>
                 FeedTurn(d) = [d EXCEPT !.n = Inside(v), !.cbits = @ - 8]
  <1>1. d.n.way = w
    BY DEF Inside
  <1>2. child.kind = "null" => FeedTurn(d) = Fail(d, "ErrInvalidHuffman1")
    BY <1>1 DEF FeedTurn
  <1>3. child.kind = "leaf" => FeedTurn(d) = Emit(d, child)
    BY <1>1 DEF FeedTurn
  <1>4. child.kind = "internal" => FeedTurn(d) = [d EXCEPT !.n = child, !.cbits = @ - 8]
    BY <1>1 DEF FeedTurn
  <1>5. NullPtr.kind = "null"
    BY DEF NullPtr
  <1>6. \A c \in Bytes : Leaf(c).kind = "leaf"
    BY DEF Leaf
  <1>7. \A v \in Nodes : Inside(v).kind = "internal"
    BY DEF Inside
  <1> QED
    BY <1>2, <1>3, <1>4, <1>5, <1>6, <1>7

(* The loop's turns keep the decoder's types, and each takes a bit or more. *)
LEMMA FeedTurnType ==
    ASSUME NEW d \in Decoders
    PROVE  /\ FeedTurn(d) \in Decoders
           /\ FeedTurn(d) \in Fed \/ (~d.done /\ FeedTurn(d).cbits < d.cbits)
  <1>1. CASE d.done \/ d.cbits < 8
    <2>1. FeedTurn(d) = d
      <3>1. d.done \/ d.cbits < 8 <=> ~(~d.done /\ d.cbits >= 8)
        BY DEF Decoders
      <3> QED
        BY <1>1, <3>1 DEF FeedTurn
    <2>2. d.cbits < 8 => d.cbits <= 7
      BY DEF Decoders
    <2> QED
      BY <1>1, <2>1, <2>2 DEF Fed
  <1>2. CASE ~(d.done \/ d.cbits < 8)
    <2>1. PICK w \in Nodes : d.n = Inside(w)
      BY DEF Decoders
    <2>2. ~d.done /\ d.cbits >= 8 /\ d.cbits - 8 \in 0..22 /\ d.cur \in Nat
      BY <1>2 DEF Decoders, Word16
    <2> DEFINE i == HighByte(d.cur, d.cbits - 8)
               child == Children[w][i]
    <2>3. i \in Bytes
      BY <2>2, HighByteBits, OctetBits
    <2>4. \/ child = NullPtr
          \/ \E c \in Bytes : child = Leaf(c)
          \/ \E v \in Nodes : child = Inside(v)
      BY <2>3, ChildKinds
    <2>5. /\ child = NullPtr => FeedTurn(d) = Fail(d, "ErrInvalidHuffman1")
          /\ \A c \in Bytes : child = Leaf(c) => FeedTurn(d) = Emit(d, Leaf(c))
          /\ \A v \in Nodes : child = Inside(v) =>
                FeedTurn(d) = [d EXCEPT !.n = Inside(v), !.cbits = @ - 8]
      BY <2>1, <2>2, FeedTurnCases
    <2> HIDE DEF child
    <2>6. CASE child = NullPtr
      <3> DEFINE e == Fail(d, "ErrInvalidHuffman1")
      <3>0. "ErrInvalidHuffman1" \in DecoderErrors
        BY DEF DecoderErrors
      <3>1. e \in Decoders /\ e.done
        BY <3>0, FailValue, Zenon
      <3> HIDE DEF e
      <3>2. e \in Fed
        BY <3>1 DEF Fed
      <3> QED
        BY <2>5, <2>6, <3>1, <3>2 DEF e
    <2>7. CASE \E c \in Bytes : child = Leaf(c)
      <3>1. PICK c \in Bytes : child = Leaf(c)
        BY <2>7
      <3>2. BitsLeft(c) <= d.cbits
        <4>1. BitsLeft(c) \in 1..8
          BY WayType
        <4> QED
          BY <2>2, <4>1
      <3>3. FeedTurn(d) = Emit(d, Leaf(c))
        BY <2>5, <3>1
      <3>4. Emit(d, Leaf(c)) \in Decoders /\ Emit(d, Leaf(c)).cbits < d.cbits
        BY <3>2, EmitValue
      <3> QED
        BY <2>2, <3>3, <3>4
    <2>8. CASE \E v \in Nodes : child = Inside(v)
      <3>1. PICK v \in Nodes : child = Inside(v)
        BY <2>8
      <3> DEFINE e == [d EXCEPT !.n = Inside(v), !.cbits = @ - 8]
      <3>2. FeedTurn(d) = e
        BY <2>5, <3>1
      <3>3. e \in Decoders /\ e.cbits < d.cbits
        BY <2>2, EnterValue
      <3> HIDE DEF e
      <3> QED
        BY <2>2, <3>2, <3>3
    <2> QED
      BY <2>4, <2>6, <2>7, <2>8
  <1> QED
    BY <1>1, <1>2

(* A turn of the loop over the last bits. *)
LEMMA FlushTurnCases ==
    ASSUME NEW d \in Decoders, ~d.done, d.cbits > 0, NEW w, d.n = Inside(w),
           NEW child, child = Children[w][LowByte(d.cur, 8 - d.cbits)]
    PROVE  /\ child = NullPtr => FlushTurn(d) = Fail(d, "ErrInvalidHuffman2")
           /\ \A c \in Bytes : child = Leaf(c) =>
                 FlushTurn(d) = IF BitsLeft(c) <= d.cbits THEN Emit(d, Leaf(c)) ELSE d
           /\ \A v \in Nodes : child = Inside(v) => FlushTurn(d) = d
  <1>1. d.n.way = w /\ d.cbits # 0
    BY DEF Inside, Decoders
  <1>2. child.kind = "null" => FlushTurn(d) = Fail(d, "ErrInvalidHuffman2")
    BY <1>1 DEF FlushTurn
  <1>3. child.kind = "leaf" => FlushTurn(d) = IF child.codeLen <= d.cbits THEN Emit(d, child) ELSE d
    BY <1>1 DEF FlushTurn
  <1>4. child.kind = "internal" => FlushTurn(d) = d
    BY <1>1 DEF FlushTurn
  <1>5. NullPtr.kind = "null"
    BY DEF NullPtr
  <1>6. \A c \in Bytes : Leaf(c).kind = "leaf" /\ Leaf(c).codeLen = BitsLeft(c)
    BY DEF Leaf
  <1>7. \A v \in Nodes : Inside(v).kind = "internal"
    BY DEF Inside
  <1> QED
    BY <1>2, <1>3, <1>4, <1>5, <1>6, <1>7

(* These turns keep the decoder's types, too. *)
LEMMA FlushTurnType ==
    ASSUME NEW d \in Fed
    PROVE  FlushTurn(d) \in Fed
  <1>0. d \in Decoders
    BY DEF Fed
  <1>1. CASE d.done \/ d.cbits = 0
    <2>1. FlushTurn(d) = d
      BY <1>1 DEF FlushTurn
    <2> QED
      BY <2>1
  <1>2. CASE ~(d.done \/ d.cbits = 0)
    <2>1. PICK w \in Nodes : d.n = Inside(w)
      BY <1>0 DEF Decoders
    <2>2. ~d.done /\ d.cbits > 0 /\ d.cbits <= 7 /\ 8 - d.cbits \in 0..7 /\ d.cur \in Nat
          /\ d.cbits \in 0..15
      BY <1>2, SMTT(60) DEF Fed, Decoders, Word16
    <2> DEFINE i == LowByte(d.cur, 8 - d.cbits)
               child == Children[w][i]
    <2>3. i \in Bytes
      BY <2>2, LowByteShifted, OctetBits
    <2>4. \/ child = NullPtr
          \/ \E c \in Bytes : child = Leaf(c)
          \/ \E v \in Nodes : child = Inside(v)
      BY <2>3, ChildKinds
    <2>5. /\ child = NullPtr => FlushTurn(d) = Fail(d, "ErrInvalidHuffman2")
          /\ \A c \in Bytes : child = Leaf(c) =>
                FlushTurn(d) = IF BitsLeft(c) <= d.cbits THEN Emit(d, Leaf(c)) ELSE d
          /\ \A v \in Nodes : child = Inside(v) => FlushTurn(d) = d
      BY <1>0, <2>1, <2>2, FlushTurnCases
    <2> HIDE DEF child
    <2>6. CASE child = NullPtr
      <3> DEFINE e == Fail(d, "ErrInvalidHuffman2")
      <3>0. "ErrInvalidHuffman2" \in DecoderErrors
        BY DEF DecoderErrors
      <3>1. e \in Decoders /\ e.done
        BY <1>0, <3>0, FailValue, Zenon
      <3> HIDE DEF e
      <3>2. e \in Fed
        BY <3>1 DEF Fed
      <3> QED
        BY <2>5, <2>6, <3>1, <3>2 DEF e
    <2>7. CASE \E c \in Bytes : child = Leaf(c)
      <3>1. PICK c \in Bytes : child = Leaf(c)
        BY <2>7
      <3>2. CASE BitsLeft(c) <= d.cbits
        <4>1. FlushTurn(d) = Emit(d, Leaf(c))
          BY <2>5, <3>1, <3>2
        <4>2. Emit(d, Leaf(c)) \in Decoders /\ Emit(d, Leaf(c)).cbits < d.cbits
          BY <1>0, <3>2, EmitValue
        <4>3. Emit(d, Leaf(c)).cbits \in 0..15
          BY <4>2 DEF Decoders
        <4>4. Emit(d, Leaf(c)).cbits <= 7
          BY <2>2, <4>2, <4>3
        <4> QED
          BY <4>1, <4>2, <4>4 DEF Fed
      <3>3. CASE ~(BitsLeft(c) <= d.cbits)
        BY <2>5, <3>1, <3>3
      <3> QED
        BY <3>2, <3>3
    <2>8. CASE \E v \in Nodes : child = Inside(v)
      BY <2>5, <2>8
    <2> QED
      BY <2>4, <2>6, <2>7, <2>8
  <1> QED
    BY <1>1, <1>2

(* After k bytes of what is sent for the string s the decoder has put out  *)
(* the first j bytes of s, is e nodes far on the way of the next, and has  *)
(* the rest of the bits it was given.                                      *)
Position(s, j, e, n) ==
    /\ j < Len(s) => e \in 0..Depth(s[j + 1]) /\ n = Inside(SubSeq(Way(s[j + 1]), 1, e))
    /\ j = Len(s) => e = 0 /\ n = Root

GoodAt(s, p, k, d, j, e) ==
    /\ d \in Decoders /\ ~d.done /\ d.error = ""
    /\ j \in 0..Len(s) /\ e \in 0..3
    /\ d.out = SubSeq(s, 1, j)
    /\ Position(s, j, e, d.n)
    /\ p[j] + (8 * e + d.cbits) = 8 * k
    /\ d.sbits = 8 * k - p[j]
    /\ \A t \in 0..(d.cbits - 1) : (d.cur \div 2^t) % 2 = Sent(s, 8 * k - t)

(* What is sent for the next byte is its code. *)
LEMMA LayoutParts ==
    ASSUME NEW s \in Seq(Bytes), NEW p, IsLayout(s, p), NEW j \in 0..Len(s)
    PROVE  /\ p[j] \in Nat /\ Len(RefBits(s)) \in Nat /\ Len(s) \in Nat
           /\ j = Len(s) => p[j] = Len(RefBits(s))
           /\ j < Len(s) =>
                /\ j + 1 \in 1..Len(s) /\ s[j + 1] \in Bytes
                /\ CodeLength(s[j + 1]) \in 5..30
                /\ p[j + 1] \in Nat
                /\ p[j + 1] = p[j] + CodeLength(s[j + 1])
                /\ p[j + 1] <= Len(RefBits(s))
                /\ \A i \in 1..CodeLength(s[j + 1]) :
                      Sent(s, p[j] + i) = CodeBit(s[j + 1], i)
  <1>1. /\ p \in [0..Len(s) -> Nat] /\ p[Len(s)] = Len(RefBits(s))
        /\ \A i \in 1..Len(s) :
              /\ p[i] = p[i - 1] + CodeLength(s[i])
              /\ p[i] <= Len(RefBits(s))
              /\ \A l \in 1..CodeLength(s[i]) : RefBits(s)[p[i - 1] + l] = CodeBits(s[i])[l]
    BY DEF IsLayout
  <1>2. Len(s) \in Nat /\ p[j] \in Nat /\ Len(RefBits(s)) \in Nat
    <2>1. Len(s) \in Nat
      OBVIOUS
    <2>2. Len(s) \in 0..Len(s)
      BY <2>1
    <2> QED
      BY <1>1, <2>1, <2>2
  <1>3. ASSUME j < Len(s)
        PROVE  /\ j + 1 \in 1..Len(s) /\ s[j + 1] \in Bytes
               /\ CodeLength(s[j + 1]) \in 5..30
               /\ p[j + 1] \in Nat
               /\ p[j + 1] = p[j] + CodeLength(s[j + 1])
               /\ p[j + 1] <= Len(RefBits(s))
               /\ \A i \in 1..CodeLength(s[j + 1]) :
                     Sent(s, p[j] + i) = CodeBit(s[j + 1], i)
    <2>1. j + 1 \in 1..Len(s) /\ (j + 1) - 1 = j /\ j + 1 \in 0..Len(s)
      BY <1>2, <1>3
    <2>2. s[j + 1] \in Bytes
      BY <2>1
    <2>3. CodeLength(s[j + 1]) \in 5..30
      BY <2>2, CodeLengths
    <2>4. p[j + 1] \in Nat /\ p[j + 1] = p[j] + CodeLength(s[j + 1]) /\ p[j + 1] <= Len(RefBits(s))
      BY <1>1, <2>1
    <2>5. ASSUME NEW i \in 1..CodeLength(s[j + 1])
          PROVE  Sent(s, p[j] + i) = CodeBit(s[j + 1], i)
      <3>1. RefBits(s)[p[j] + i] = CodeBits(s[j + 1])[i]
        BY <1>1, <2>1
      <3>2. p[j] + i <= Len(RefBits(s))
        <4>1. \A x, y, z \in Nat, l \in 5..30 : x = y + l /\ x <= z =>
                 \A h \in 1..l : y + h <= z
          OBVIOUS
        <4> QED
          BY <1>2, <2>3, <2>4, <4>1
      <3> QED
        BY <3>1, <3>2 DEF Sent, Bit, CodeBit
    <2> QED
      BY <2>1, <2>2, <2>3, <2>4, <2>5
  <1> QED
    BY <1>1, <1>2, <1>3

(* One byte more is put out. *)
LEMMA InitialGrows ==
    ASSUME NEW s \in Seq(Bytes), NEW j \in Nat, j + 1 <= Len(s)
    PROVE  SubSeq(s, 1, j + 1) = Append(SubSeq(s, 1, j), s[j + 1])
  OBVIOUS

(* The numbers of it. *)
LEMMA GoodNumbers ==
    ASSUME NEW s \in Seq(Bytes), NEW p, IsLayout(s, p), NEW k \in Nat, NEW d, NEW j, NEW e,
           GoodAt(s, p, k, d, j, e)
    PROVE  /\ d.cbits \in 0..15 /\ d.cur \in Nat /\ Len(s) \in Nat /\ p[j] \in Nat
           /\ j \in 0..Len(s) /\ e \in 0..3
           /\ p[j] + (8 * e + d.cbits) = 8 * k /\ d.sbits = 8 * k - p[j]
  <1>1. d \in Decoders /\ j \in 0..Len(s)
    BY DEF GoodAt
  <1>2. d.cbits \in 0..15 /\ d.cur \in Nat
    BY <1>1 DEF Decoders, Word16
  <1>3. p[j] \in Nat /\ Len(s) \in Nat
    BY <1>1, LayoutParts
  <1> QED
    BY <1>1, <1>2, <1>3 DEF GoodAt

(* The way goes on to the next node, *)
LEMMA GoodEnter ==
    ASSUME NEW s \in Seq(Bytes), NEW p, IsLayout(s, p), NEW k \in Nat, NEW d, NEW j, NEW e,
           GoodAt(s, p, k, d, j, e), j < Len(s), e < Depth(s[j + 1]), d.cbits >= 8
    PROVE  GoodAt(s, p, k, [d EXCEPT !.n = Inside(SubSeq(Way(s[j + 1]), 1, e + 1)), !.cbits = @ - 8],
                  j, e + 1)
  <1> DEFINE c == s[j + 1]
             v == SubSeq(Way(c), 1, e + 1)
             g == [d EXCEPT !.n = Inside(v), !.cbits = @ - 8]
  <1>1. /\ d \in Decoders /\ ~d.done /\ d.error = "" /\ j \in 0..Len(s) /\ e \in 0..3
        /\ d.out = SubSeq(s, 1, j)
        /\ p[j] + (8 * e + d.cbits) = 8 * k /\ d.sbits = 8 * k - p[j]
    BY DEF GoodAt
  <1>b. \A t \in 0..(d.cbits - 1) : (d.cur \div 2^t) % 2 = Sent(s, 8 * k - t)
    BY DEF GoodAt
  <1>2. /\ d.cbits \in 0..15 /\ e \in 0..3 /\ p[j] \in Nat
        /\ p[j] + (8 * e + d.cbits) = 8 * k
    BY GoodNumbers
  <1>3. c \in Bytes
    BY <1>1, LayoutParts
  <1>4. Depth(c) \in 0..3 /\ e + 1 \in 0..Depth(c) /\ e + 1 \in 0..3
    <2>1. Depth(c) \in 0..3 /\ e < Depth(c)
      BY <1>3, WayType
    <2> HIDE DEF c
    <2> QED
      BY <1>2, <2>1
  <1>5. v \in Nodes
    BY <1>3, <1>4, WayNodes
  <1> HIDE DEF c, v
  <1>6. /\ g \in Decoders /\ g.n = Inside(v) /\ g.cur = d.cur /\ g.out = d.out
        /\ g.cbits = d.cbits - 8 /\ g.sbits = d.sbits /\ g.done = d.done /\ g.error = d.error
    BY <1>1, <1>5, EnterValue
  <1> HIDE DEF g
  <1>7. Position(s, j, e + 1, g.n)
    BY <1>3, <1>4, <1>6 DEF Position, c, v
  <1>8. p[j] + (8 * (e + 1) + g.cbits) = 8 * k
    <2> DEFINE C == d.cbits
               G == g.cbits
               P == p[j]
    <2>1. G = C - 8
      BY <1>6
    <2>2. C \in 0..15 /\ P \in Nat /\ P + (8 * e + C) = 8 * k
      BY <1>2
    <2> HIDE DEF C, G, P
    <2>3. P + (8 * (e + 1) + G) = 8 * k
      BY <1>2, <2>1, <2>2
    <2> QED
      BY <2>3 DEF G, P
  <1>9. \A t \in 0..(g.cbits - 1) : t \in 0..(d.cbits - 1)
    <2> DEFINE C == d.cbits
               G == g.cbits
    <2>1. G = C - 8 /\ C \in 0..15
      BY <1>2, <1>6
    <2> HIDE DEF C, G
    <2>2. \A t \in 0..(G - 1) : t \in 0..(C - 1)
      BY <2>1
    <2> QED
      BY <2>2 DEF C, G
  <1>10. GoodAt(s, p, k, g, j, e + 1)
    BY <1>1, <1>b, <1>4, <1>6, <1>7, <1>8, <1>9 DEF GoodAt
  <1> QED
    BY <1>10 DEF g, v, c

(* or ends at the leaf of the next byte. *)
LEMMA GoodEmit ==
    ASSUME NEW s \in Seq(Bytes), NEW p, IsLayout(s, p), NEW k \in Nat, NEW d, NEW j, NEW e,
           GoodAt(s, p, k, d, j, e), j < Len(s), e = Depth(s[j + 1]),
           BitsLeft(s[j + 1]) <= d.cbits
    PROVE  GoodAt(s, p, k, Emit(d, Leaf(s[j + 1])), j + 1, 0)
  <1> DEFINE c == s[j + 1]
             g == Emit(d, Leaf(c))
  <1>1. /\ d \in Decoders /\ ~d.done /\ d.error = "" /\ j \in 0..Len(s) /\ e \in 0..3
        /\ d.out = SubSeq(s, 1, j)
        /\ p[j] + (8 * e + d.cbits) = 8 * k
    BY DEF GoodAt
  <1>b. \A t \in 0..(d.cbits - 1) : (d.cur \div 2^t) % 2 = Sent(s, 8 * k - t)
    BY DEF GoodAt
  <1>2. /\ d.cbits \in 0..15 /\ e \in 0..3 /\ p[j] \in Nat /\ j \in 0..Len(s) /\ Len(s) \in Nat
        /\ p[j] + (8 * e + d.cbits) = 8 * k
    BY GoodNumbers
  <1>3. c \in Bytes /\ j + 1 \in 1..Len(s)
        /\ p[j + 1] \in Nat /\ p[j + 1] = p[j] + CodeLength(c)
    BY <1>1, LayoutParts
  <1>4. /\ Depth(c) \in 0..3 /\ BitsLeft(c) \in 1..8
        /\ CodeLength(c) = 8 * Depth(c) + BitsLeft(c) /\ CodeLength(c) \in 5..30
    BY <1>3, WayType, Zenon
  <1>5. BitsLeft(c) <= d.cbits /\ e = Depth(c)
    OBVIOUS
  <1>6. SubSeq(s, 1, j + 1) = Append(SubSeq(s, 1, j), c)
    <2>1. j \in Nat /\ j + 1 <= Len(s)
      BY <1>2, <1>3
    <2> QED
      BY <2>1, InitialGrows, Zenon
  <1>7. /\ j + 1 < Len(s) => SubSeq(Way(s[(j + 1) + 1]), 1, 0) = <<>>
        /\ j + 1 < Len(s) => 0 \in 0..Depth(s[(j + 1) + 1])
    <2> SUFFICES ASSUME j + 1 < Len(s)
                 PROVE  SubSeq(Way(s[(j + 1) + 1]), 1, 0) = <<>> /\ 0 \in 0..Depth(s[(j + 1) + 1])
      OBVIOUS
    <2>1. (j + 1) + 1 \in 1..Len(s)
      BY <1>2
    <2>2. s[(j + 1) + 1] \in Bytes
      BY <2>1
    <2>3. Depth(s[(j + 1) + 1]) \in 0..3
      BY <2>2, WayType, Zenon
    <2>4. 0 \in 0..Depth(s[(j + 1) + 1])
      BY <2>3
    <2> QED
      BY <2>2, <2>4, WayNodes
  <1> HIDE DEF c
  <1>8. /\ g \in Decoders /\ g.n = Root /\ g.cur = d.cur /\ g.out = Append(d.out, c)
        /\ g.cbits = d.cbits - BitsLeft(c) /\ g.sbits = d.cbits - BitsLeft(c)
        /\ g.done = d.done /\ g.error = d.error
    BY <1>1, <1>3, <1>5, EmitValue
  <1> HIDE DEF g
  <1>9. Position(s, j + 1, 0, g.n)
    BY <1>7, <1>8 DEF Position, Root
  <1>10. /\ p[j + 1] + (8 * 0 + g.cbits) = 8 * k /\ g.sbits = 8 * k - p[j + 1]
         /\ j + 1 \in 0..Len(s)
    <2> DEFINE C == d.cbits
               G == g.cbits
               P == p[j]
               Q == p[j + 1]
               S == g.sbits
               B == BitsLeft(c)
               D == Depth(c)
    <2>1. G = C - B /\ S = C - B
      BY <1>8
    <2>2. Q = P + (8 * D + B) /\ P + (8 * e + C) = 8 * k /\ e = D
      BY <1>2, <1>3, <1>4, <1>5
    <2>3. C \in 0..15 /\ P \in Nat /\ B \in 1..8 /\ D \in 0..3
      BY <1>2, <1>4
    <2>4. j + 1 \in 0..Len(s)
      BY <1>2
    <2> HIDE DEF C, G, P, Q, S, B, D
    <2>5. Q + (8 * 0 + G) = 8 * k /\ S = 8 * k - Q
      BY <2>1, <2>2, <2>3
    <2> QED
      BY <2>4, <2>5 DEF G, Q, S
  <1>11. \A t \in 0..(g.cbits - 1) : t \in 0..(d.cbits - 1)
    <2> DEFINE C == d.cbits
               G == g.cbits
               B == BitsLeft(c)
    <2>1. G = C - B /\ B \in 1..8 /\ C \in 0..15
      BY <1>2, <1>4, <1>8
    <2> HIDE DEF C, G, B
    <2>2. \A t \in 0..(G - 1) : t \in 0..(C - 1)
      BY <2>1
    <2> QED
      BY <2>2 DEF C, G
  <1>12. GoodAt(s, p, k, g, j + 1, 0)
    <2>1. g.out = SubSeq(s, 1, j + 1) /\ ~g.done /\ g.error = ""
      BY <1>1, <1>6, <1>8
    <2>2. \A t \in 0..(g.cbits - 1) : (g.cur \div 2^t) % 2 = Sent(s, 8 * k - t)
      BY <1>b, <1>8, <1>11
    <2>3. 0 \in 0..3
      OBVIOUS
    <2> QED
      BY <1>8, <1>9, <1>10, <2>1, <2>2, <2>3 DEF GoodAt
  <1> QED
    BY <1>12 DEF g, c

(* A turn of the loop over eight bits or more takes the decoder on. *)
LEMMA GoodFeedTurn ==
    ASSUME NEW s \in Seq(Bytes), NEW p, IsLayout(s, p), NEW k \in Nat, 8 * k <= Len(RefBits(s)) + 7,
           NEW d, NEW j, NEW e, GoodAt(s, p, k, d, j, e)
    PROVE  \E i, h : GoodAt(s, p, k, FeedTurn(d), i, h)
  <1>1. /\ d \in Decoders /\ ~d.done /\ j \in 0..Len(s) /\ e \in 0..3
        /\ Position(s, j, e, d.n)
        /\ p[j] + (8 * e + d.cbits) = 8 * k
    BY DEF GoodAt
  <1>b. \A t \in 0..(d.cbits - 1) : (d.cur \div 2^t) % 2 = Sent(s, 8 * k - t)
    BY DEF GoodAt
  <1>2. /\ d.cbits \in 0..15 /\ d.cur \in Nat /\ Len(s) \in Nat /\ p[j] \in Nat
        /\ j \in 0..Len(s) /\ e \in 0..3
        /\ p[j] + (8 * e + d.cbits) = 8 * k
    BY GoodNumbers
  <1>3. Len(RefBits(s)) \in Nat
    BY <1>1, LayoutParts
  <1>4. CASE d.cbits < 8
    <2>1. FeedTurn(d) = d
      <3> DEFINE C == d.cbits
      <3>1. C \in 0..15 /\ C < 8
        BY <1>2, <1>4
      <3> HIDE DEF C
      <3>2. ~(~d.done /\ C >= 8)
        BY <3>1
      <3> QED
        BY <1>4, <3>2 DEF FeedTurn, C
    <2> QED
      BY <2>1
  <1>5. CASE d.cbits >= 8
    <2>1. j < Len(s)
      <3>1. CASE j = Len(s)
        <4>1. p[j] = Len(RefBits(s)) /\ e = 0
          BY <1>1, <3>1, LayoutParts DEF Position
        <4> DEFINE C == d.cbits
                   L == Len(RefBits(s))
        <4>2. L + (8 * 0 + C) = 8 * k /\ C \in 0..15 /\ C >= 8 /\ L \in Nat /\ 8 * k <= L + 7
          BY <1>2, <1>3, <1>5, <4>1
        <4> HIDE DEF C, L
        <4> QED
          BY <4>2
      <3>2. \A x, y \in Nat : x \in 0..y /\ x # y => x < y
        OBVIOUS
      <3> QED
        BY <1>2, <3>1, <3>2
    <2> DEFINE c == s[j + 1]
               w == SubSeq(Way(c), 1, e)
               m == d.cbits - 8
               f == [u \in 0..7 |-> (d.cur \div 2^(m + u)) % 2]
               child == Children[w][HighByte(d.cur, m)]
    <2>2. c \in Bytes /\ e \in 0..Depth(c) /\ d.n = Inside(w)
      BY <1>1, <2>1, LayoutParts DEF Position
    <2>3. m \in 0..7 /\ m \in 0..22
      <3>1. \A C \in 0..15 : C >= 8 => C - 8 \in 0..7 /\ C - 8 \in 0..22
        OBVIOUS
      <3> QED
        BY <1>2, <1>5, <3>1
    <2>4. f \in BitOctets /\ HighByte(d.cur, m) = OctetOf(f)
      BY <1>2, <2>3, HighByteBits
    <2>5. /\ Depth(c) \in 0..3 /\ BitsLeft(c) \in 1..8 /\ CodeLength(c) \in 5..30
          /\ CodeLength(c) = 8 * Depth(c) + BitsLeft(c)
      BY <2>2, WayType, Zenon
    <2>6. \A i \in 1..CodeLength(c) : Sent(s, p[j] + i) = CodeBit(c, i)
      BY <1>1, <2>1, LayoutParts
    <2> HIDE DEF c, child
    <2>7. ASSUME NEW u \in 0..7, (8 * e + 8) - u <= CodeLength(c)
          PROVE  f[u] = CodeBit(c, (8 * e + 8) - u)
      <3>1. m + u \in 0..(d.cbits - 1) /\ 8 * k - (m + u) = p[j] + ((8 * e + 8) - u)
        <4> DEFINE C == d.cbits
                   P == p[j]
        <4>1. C \in 0..15 /\ C >= 8 /\ P \in Nat /\ P + (8 * e + C) = 8 * k
          BY <1>2, <1>5
        <4> HIDE DEF C, P
        <4>2. (C - 8) + u \in 0..(C - 1) /\ 8 * k - ((C - 8) + u) = P + ((8 * e + 8) - u)
          BY <1>2, <4>1
        <4> QED
          BY <4>2 DEF C, P
      <3>2. f[u] = Sent(s, 8 * k - (m + u))
        BY <1>b, <3>1
      <3>3. 8 * k - (m + u) = p[j] + ((8 * e + 8) - u)
        BY <3>1
      <3>4. (8 * e + 8) - u \in 1..CodeLength(c)
        <4>1. \A L \in 5..30 : (8 * e + 8) - u <= L => (8 * e + 8) - u \in 1..L
          BY <1>2, SMTT(60)
        <4> QED
          BY <2>5, <2>7, <4>1
      <3> HIDE DEF f
      <3> QED
        BY <2>6, <3>2, <3>3, <3>4
    <2>8. /\ \A b \in Bytes : child = Leaf(b) => FeedTurn(d) = Emit(d, Leaf(b))
          /\ \A v \in Nodes : child = Inside(v) =>
                FeedTurn(d) = [d EXCEPT !.n = Inside(v), !.cbits = @ - 8]
      BY <1>1, <1>5, <2>2, FeedTurnCases DEF child
    <2> HIDE DEF f, m
    <2>9. CASE e = Depth(c)
      <3>1. child = Leaf(c)
        <4>1. Children[Way(c)][OctetOf(f)] = Leaf(c)
          BY <2>2, <2>4, <2>7, <2>9, TreeLeaf
        <4>2. w = Way(c)
          BY <2>2, <2>9, WayNodes
        <4> QED
          BY <2>4, <4>1, <4>2 DEF child
      <3>2. BitsLeft(c) <= d.cbits
        <4>1. \A B \in 1..8, C \in 0..15 : C >= 8 => B <= C
          OBVIOUS
        <4> QED
          BY <1>2, <1>5, <2>5, <4>1
      <3>3. GoodAt(s, p, k, Emit(d, Leaf(c)), j + 1, 0)
        BY <2>1, <2>9, <3>2, GoodEmit DEF c
      <3>4. FeedTurn(d) = Emit(d, Leaf(c))
        BY <2>2, <2>8, <3>1
      <3> QED
        BY <3>3, <3>4
    <2>10. CASE e # Depth(c)
      <3>1. e \in 0..(Depth(c) - 1) /\ e + 1 \in 0..Depth(c) /\ e < Depth(c)
        <4>1. \A D \in 0..3 : e \in 0..D /\ e # D => e \in 0..(D - 1) /\ e + 1 \in 0..D /\ e < D
          BY <1>2
        <4> QED
          BY <2>2, <2>5, <2>10, <4>1
      <3>2. \A u \in 0..7 : f[u] = CodeBit(c, (8 * e + 8) - u)
        <4> DEFINE D == Depth(c)
                   B == BitsLeft(c)
        <4>0. D \in 0..3 /\ B \in 1..8 /\ CodeLength(c) = 8 * D + B /\ e < D /\ e \in 0..3
          BY <1>2, <2>5, <3>1
        <4> HIDE DEF D, B
        <4>1. \A u \in 0..7 : (8 * e + 8) - u <= CodeLength(c)
          <5>1. \A u \in 0..7 : (8 * e + 8) - u <= 8 * D + B
            BY <4>0
          <5> QED
            BY <4>0, <5>1
        <4> QED
          BY <2>7, <4>1
      <3> DEFINE v == SubSeq(Way(c), 1, e + 1)
      <3>3. child = Inside(v) /\ v \in Nodes
        <4>1. Children[w][OctetOf(f)] = Inside(v)
          BY <2>2, <2>4, <3>1, <3>2, TreeInside
        <4> QED
          BY <2>2, <2>4, <3>1, <4>1, WayNodes DEF child
      <3>4. GoodAt(s, p, k, [d EXCEPT !.n = Inside(v), !.cbits = @ - 8], j, e + 1)
        BY <1>5, <2>1, <3>1, GoodEnter DEF c
      <3> HIDE DEF v
      <3>5. FeedTurn(d) = [d EXCEPT !.n = Inside(v), !.cbits = @ - 8]
        BY <2>8, <3>3
      <3> QED
        BY <3>4, <3>5
    <2> QED
      BY <2>9, <2>10
  <1>6. d.cbits < 8 \/ d.cbits >= 8
    <2>1. \A C \in 0..15 : C < 8 \/ C >= 8
      OBVIOUS
    <2> QED
      BY <1>2, <2>1
  <1> QED
    BY <1>4, <1>5, <1>6

(* The loops of turns. *)
FeedOnce(e, turn) == FeedTurn(e)
Feeding == INSTANCE FoldLaws WITH V <- Decoders, B <- 1..8, op <- FeedOnce

FlushOnce(e, turn) == FlushTurn(e)
Flushing == INSTANCE FoldLaws WITH V <- Fed, B <- 1..8, op <- FlushOnce

(* Each loop is allowed eight turns. *)
LEMMA TurnsType ==
    Turns \in Seq(1..8) /\ Len(Turns) = 8
  BY DEF Turns

(* The loop over eight bits or more, turn by turn, *)
LEMMA FeedWalk ==
    ASSUME NEW d \in Decoders
    PROVE  \E w \in [0..8 -> Decoders] :
              w[0] = d /\ w[8] = Feed(d) /\ \A i \in 0..7 : w[i + 1] = FeedTurn(w[i])
  <1>1. Feed(d) = Feeding!Fold(d, Turns)
    BY DEF Feed, Feeding!Fold, FeedOnce, Feeding!FoldLeft, FoldLeft,
           Feeding!MapThenFoldSet, MapThenFoldSet, Feeding!Max, Max
  <1>2. Feeding!Closed
    BY FeedTurnType DEF Feeding!Closed, FeedOnce
  <1>3. PICK w : Feeding!IsWalk(w, d, Turns) /\ w[Len(Turns)] = Feeding!Fold(d, Turns)
    BY <1>2, TurnsType, Feeding!FoldWalk
  <1>4. /\ w \in [0..8 -> Decoders] /\ w[0] = d
        /\ \A i \in 1..8 : w[i] = FeedTurn(w[i - 1])
    BY <1>3, TurnsType DEF Feeding!IsWalk, FeedOnce
  <1>5. ASSUME NEW i \in 0..7 PROVE w[i + 1] = FeedTurn(w[i])
    <2>1. i + 1 \in 1..8 /\ (i + 1) - 1 = i
      OBVIOUS
    <2> QED
      BY <1>4, <2>1
  <1> QED
    BY <1>1, <1>3, <1>4, <1>5, TurnsType

(* and the one over the last bits. *)
LEMMA FlushWalk ==
    ASSUME NEW d \in Fed
    PROVE  \E w \in [0..8 -> Fed] :
              w[0] = d /\ w[8] = Flush(d) /\ \A i \in 0..7 : w[i + 1] = FlushTurn(w[i])
  <1>1. Flush(d) = Flushing!Fold(d, Turns)
    BY DEF Flush, Flushing!Fold, FlushOnce, Flushing!FoldLeft, FoldLeft,
           Flushing!MapThenFoldSet, MapThenFoldSet, Flushing!Max, Max
  <1>2. Flushing!Closed
    BY FlushTurnType DEF Flushing!Closed, FlushOnce
  <1>3. PICK w : Flushing!IsWalk(w, d, Turns) /\ w[Len(Turns)] = Flushing!Fold(d, Turns)
    BY <1>2, TurnsType, Flushing!FoldWalk
  <1>4. /\ w \in [0..8 -> Fed] /\ w[0] = d
        /\ \A i \in 1..8 : w[i] = FlushTurn(w[i - 1])
    BY <1>3, TurnsType DEF Flushing!IsWalk, FlushOnce
  <1>5. ASSUME NEW i \in 0..7 PROVE w[i + 1] = FlushTurn(w[i])
    <2>1. i + 1 \in 1..8 /\ (i + 1) - 1 = i
      OBVIOUS
    <2> QED
      BY <1>4, <2>1
  <1> QED
    BY <1>1, <1>3, <1>4, <1>5, TurnsType

(* Fifteen bits are no more than seven after eight turns. *)
LEMMA FeedType ==
    ASSUME NEW d \in Decoders
    PROVE  Feed(d) \in Fed
  <1>1. PICK w \in [0..8 -> Decoders] :
            w[0] = d /\ w[8] = Feed(d) /\ \A i \in 0..7 : w[i + 1] = FeedTurn(w[i])
    BY FeedWalk
  <1> DEFINE S == {i \in Nat : i <= 8 => w[i] \in Fed \/ w[i].cbits <= 15 - i}
  <1>2. 0 \in S
    <2>1. d.cbits \in 0..15
      BY DEF Decoders
    <2>2. d.cbits <= 15 - 0
      BY <2>1
    <2> QED
      BY <1>1, <2>2
  <1>3. ASSUME NEW i \in Nat, i \in S PROVE i + 1 \in S
    <2> SUFFICES ASSUME i + 1 <= 8
                 PROVE  w[i + 1] \in Fed \/ w[i + 1].cbits <= 15 - (i + 1)
      OBVIOUS
    <2>1. i \in 0..7 /\ i + 1 \in 0..8 /\ i \in 0..8 /\ i <= 8
      OBVIOUS
    <2> DEFINE e == w[i]
    <2>2. e \in Decoders /\ (e \in Fed \/ e.cbits <= 15 - i) /\ w[i + 1] = FeedTurn(e)
      BY <1>1, <1>3, <2>1
    <2> HIDE DEF e
    <2>3. FeedTurn(e) \in Decoders /\ (FeedTurn(e) \in Fed \/ (~e.done /\ FeedTurn(e).cbits < e.cbits))
      BY <2>2, FeedTurnType
    <2> DEFINE g == FeedTurn(e)
               C == e.cbits
               G == g.cbits
    <2>4. C \in 0..15 /\ G \in 0..15
      BY <2>2, <2>3 DEF Decoders
    <2>5. CASE g \notin Fed
      <3>1. ~e.done /\ G < C
        BY <2>3, <2>5
      <3>2. e \in Fed => C <= 7
        BY <3>1 DEF Fed
      <3>3. g \in Fed \/ ~(G <= 7)
        BY <2>3 DEF Fed
      <3>4. G < C /\ (C <= 7 \/ C <= 15 - i) /\ (g \in Fed \/ ~(G <= 7))
        BY <2>2, <3>1, <3>2, <3>3
      <3>5. w[i + 1].cbits = G
        BY <2>2
      <3> HIDE DEF g, C, G
      <3>6. G <= 15 - (i + 1)
        BY <2>1, <2>4, <2>5, <3>4
      <3> QED
        BY <3>5, <3>6
    <2>6. CASE g \in Fed
      BY <2>2, <2>6
    <2> QED
      BY <2>5, <2>6
  <1> HIDE DEF S
  <1>4. 8 \in Nat /\ 8 \in S
    BY <1>2, <1>3, Adding!NatSetInduction
  <1>5. w[8] \in Fed \/ w[8].cbits <= 15 - 8
    BY <1>4 DEF S
  <1>6. w[8] \in Decoders
    BY <1>1
  <1>7. w[8] \in Fed
    BY <1>5, <1>6 DEF Fed, Decoders
  <1> QED
    BY <1>1, <1>7

(* A byte is taken in, *)
TakenIn(d, b) == [d EXCEPT !.cur = (@ * 256 + b) % 2^16, !.cbits = @ + 8, !.sbits = @ + 8]

(* before the loop goes over the bits; *)
LEMMA DecodeByteType ==
    ASSUME NEW d \in Fed, NEW b \in Bytes
    PROVE  /\ DecodeByte(d, b) \in Fed
           /\ ~d.done => /\ TakenIn(d, b) \in Decoders
                         /\ TakenIn(d, b).n = d.n /\ TakenIn(d, b).out = d.out
                         /\ TakenIn(d, b).done = d.done /\ TakenIn(d, b).error = d.error
                         /\ TakenIn(d, b).cur = ShiftedIn(d.cur, b)
                         /\ TakenIn(d, b).cbits = d.cbits + 8
                         /\ TakenIn(d, b).sbits = d.sbits + 8
                         /\ DecodeByte(d, b) = Feed(TakenIn(d, b))
  <1>1. d \in Decoders /\ (d.done \/ d.cbits <= 7)
    BY DEF Fed
  <1>2. CASE d.done
    BY <1>2 DEF DecodeByte
  <1>3. CASE ~d.done
    <2> DEFINE g == TakenIn(d, b)
    <2>1. d.cbits + 8 \in 0..15 /\ d.sbits + 8 \in Int
      BY <1>1, <1>3, SMTT(60) DEF Decoders
    <2>2. ShiftedIn(d.cur, b) \in Word16
      <3>1. d.cur \in Nat
        BY <1>1 DEF Decoders, Word16
      <3>2. PICK f \in BitOctets : b = OctetOf(f)
        <4>1. b \in Nat /\ b % 256 = b
          BY DEF Bytes
        <4> QED
          BY <4>1, LowByteBits
      <3> QED
        BY <3>1, <3>2, ShiftIn
    <2>3. g = [n |-> d.n, cur |-> ShiftedIn(d.cur, b), cbits |-> d.cbits + 8, sbits |-> d.sbits + 8,
               out |-> d.out, done |-> d.done, error |-> d.error]
      <3>1. d = [n |-> d.n, cur |-> d.cur, cbits |-> d.cbits, sbits |-> d.sbits, out |-> d.out,
                 done |-> d.done, error |-> d.error]
        BY <1>1 DEF Decoders
      <3>2. g = [d EXCEPT !.cur = ShiftedIn(d.cur, b), !.cbits = d.cbits + 8, !.sbits = d.sbits + 8]
        BY DEF TakenIn, ShiftedIn
      <3> HIDE DEF g
      <3> QED
        BY <3>1, <3>2
    <2>4. /\ d.n \in {Inside(w) : w \in Nodes} /\ d.out \in Seq(Bytes) /\ d.done \in BOOLEAN
          /\ d.error \in DecoderErrors
      BY <1>1 DEF Decoders
    <2>5. g \in Decoders
      BY <2>1, <2>2, <2>3, <2>4 DEF Decoders
    <2>6. DecodeByte(d, b) = Feed(g)
      BY <1>3 DEF DecodeByte, TakenIn
    <2>7. /\ g.n = d.n /\ g.out = d.out /\ g.done = d.done /\ g.error = d.error
          /\ g.cur = ShiftedIn(d.cur, b) /\ g.cbits = d.cbits + 8 /\ g.sbits = d.sbits + 8
      BY <2>3
    <2> HIDE DEF g
    <2>8. Feed(g) \in Fed
      BY <2>5, FeedType
    <2> QED
      BY <2>5, <2>6, <2>7, <2>8 DEF g
  <1> QED
    BY <1>2, <1>3

(* which is where the bits before it end. *)
LEMMA GoodTakenIn ==
    ASSUME NEW s \in Seq(Bytes), NEW p, IsLayout(s, p), NEW k \in Nat, NEW d \in Fed, NEW j, NEW e,
           GoodAt(s, p, k, d, j, e), NEW b, SentOctet(s, k + 1) \in BitOctets,
           b = OctetOf(SentOctet(s, k + 1))
    PROVE  /\ b \in Bytes /\ ~d.done
           /\ GoodAt(s, p, k + 1, TakenIn(d, b), j, e)
  <1>1. /\ d \in Decoders /\ ~d.done /\ d.error = "" /\ j \in 0..Len(s) /\ e \in 0..3
        /\ d.out = SubSeq(s, 1, j) /\ Position(s, j, e, d.n)
    BY DEF GoodAt
  <1>b. \A t \in 0..(d.cbits - 1) : (d.cur \div 2^t) % 2 = Sent(s, 8 * k - t)
    BY DEF GoodAt
  <1>2. /\ d.cbits \in 0..15 /\ e \in 0..3 /\ p[j] \in Nat /\ d.cur \in Nat
        /\ p[j] + (8 * e + d.cbits) = 8 * k /\ d.sbits = 8 * k - p[j]
    BY GoodNumbers
  <1>3. d.cbits <= 7
    BY <1>1 DEF Fed
  <1> DEFINE f == SentOctet(s, k + 1)
             g == TakenIn(d, b)
             C == d.cbits
             G == g.cbits
             P == p[j]
             S == d.sbits
             T == g.sbits
  <1>4. b \in Bytes
    BY OctetBits
  <1>5. /\ g \in Decoders
        /\ g.n = d.n /\ g.out = d.out /\ g.done = d.done /\ g.error = d.error
        /\ g.cur = ShiftedIn(d.cur, b) /\ G = C + 8 /\ T = S + 8
    BY <1>1, <1>4, DecodeByteType
  <1>6. /\ \A t \in 0..7 : (g.cur \div 2^t) % 2 = f[t]
        /\ \A t \in 8..15 : (g.cur \div 2^t) % 2 = (d.cur \div 2^(t - 8)) % 2
    <2> DEFINE y == ShiftedIn(d.cur, OctetOf(f))
    <2>1. g.cur = y /\ f \in BitOctets /\ d.cur \in Nat
      BY <1>2, <1>5
    <2>2. /\ \A t \in 0..7 : (y \div 2^t) % 2 = f[t]
          /\ \A t \in 8..15 : (y \div 2^t) % 2 = (d.cur \div 2^(t - 8)) % 2
      <3> HIDE DEF f
      <3> QED
        BY <2>1, ShiftIn
    <2> HIDE DEF y, f, g
    <2> QED
      BY <2>1, <2>2, Zenon
  <1> HIDE DEF g
  <1>7. C \in 0..7 /\ P \in Nat /\ P + (8 * e + C) = 8 * k /\ S = 8 * k - P
    <2>1. \A c \in 0..15 : c <= 7 => c \in 0..7
      OBVIOUS
    <2> QED
      BY <1>2, <1>3, <2>1
  <1>8. P + (8 * e + G) = 8 * (k + 1) /\ T = 8 * (k + 1) - P
    <2> HIDE DEF C, G, P, S, T
    <2> QED
      BY <1>2, <1>5, <1>7
  <1>9. ASSUME NEW t \in 0..(G - 1) PROVE (g.cur \div 2^t) % 2 = Sent(s, 8 * (k + 1) - t)
    <2>1. /\ t \in 0..7 \/ t \in 8..15
          /\ t \in 8..15 => t - 8 \in 0..(C - 1) /\ 8 * k - (t - 8) = 8 * (k + 1) - t
      <3>1. G = C + 8 /\ C \in 0..7
        BY <1>5, <1>7
      <3> HIDE DEF C, G
      <3> QED
        BY <3>1
    <2>2. CASE t \in 0..7
      <3>1. f[t] = Sent(s, 8 * (k + 1) - t)
        BY <2>2 DEF SentOctet
      <3> QED
        BY <1>6, <2>2, <3>1
    <2>3. CASE t \in 8..15
      <3>1. t - 8 \in 0..(d.cbits - 1) /\ 8 * k - (t - 8) = 8 * (k + 1) - t
        BY <2>1, <2>3
      <3>2. (d.cur \div 2^(t - 8)) % 2 = Sent(s, 8 * k - (t - 8))
        BY <1>b, <3>1
      <3>3. (g.cur \div 2^t) % 2 = (d.cur \div 2^(t - 8)) % 2
        BY <1>6, <2>3
      <3> QED
        BY <3>1, <3>2, <3>3
    <2> QED
      BY <2>1, <2>2, <2>3
  <1>10. GoodAt(s, p, k + 1, g, j, e)
    BY <1>1, <1>5, <1>8, <1>9 DEF GoodAt
  <1> QED
    BY <1>1, <1>4, <1>10 DEF g

(* The loop over eight bits or more leaves at most seven of them. *)
LEMMA GoodFeed ==
    ASSUME NEW s \in Seq(Bytes), NEW p, IsLayout(s, p), NEW k \in Nat, 8 * k <= Len(RefBits(s)) + 7,
           NEW d, \E j, e : GoodAt(s, p, k, d, j, e)
    PROVE  \E j, e : GoodAt(s, p, k, Feed(d), j, e)
  <1> DEFINE Good(x) == \E j, e : GoodAt(s, p, k, x, j, e)
  <1>1. d \in Decoders
    BY DEF GoodAt
  <1>2. PICK w \in [0..8 -> Decoders] :
            w[0] = d /\ w[8] = Feed(d) /\ \A i \in 0..7 : w[i + 1] = FeedTurn(w[i])
    BY <1>1, FeedWalk
  <1> DEFINE S == {i \in Nat : i <= 8 => Good(w[i])}
  <1>3. 0 \in S
    BY <1>2
  <1>4. ASSUME NEW i \in Nat, i \in S PROVE i + 1 \in S
    <2> SUFFICES ASSUME i + 1 <= 8 PROVE Good(w[i + 1])
      OBVIOUS
    <2>1. i \in 0..7 /\ i <= 8
      OBVIOUS
    <2>2. Good(w[i]) /\ w[i + 1] = FeedTurn(w[i])
      BY <1>2, <1>4, <2>1
    <2>3. PICK j, e : GoodAt(s, p, k, w[i], j, e)
      BY <2>2
    <2>4. \E x, h : GoodAt(s, p, k, FeedTurn(w[i]), x, h)
      BY <2>3, GoodFeedTurn
    <2> QED
      BY <2>2, <2>4
  <1> HIDE DEF S
  <1>5. 8 \in Nat /\ 8 \in S
    BY <1>3, <1>4, Adding!NatSetInduction
  <1>6. Good(w[8])
    BY <1>5 DEF S
  <1> QED
    BY <1>2, <1>6

Decoding == INSTANCE FoldLaws WITH V <- Fed, B <- Bytes, op <- DecodeByte

(* All bytes are taken in. *)
LEMMA GoodDecoding ==
    ASSUME NEW s \in Seq(Bytes), NEW p, IsLayout(s, p)
    PROVE  LET d == FoldLeft(DecodeByte, DecodeStart, RefHuffman(s))
           IN /\ d \in Fed
              /\ \E j, e : GoodAt(s, p, Len(RefHuffman(s)), d, j, e)
  <1> DEFINE v == RefHuffman(s)
             n == Len(v)
             L == Len(RefBits(s))
             d == FoldLeft(DecodeByte, DecodeStart, v)
             Good(k, x) == \E j, e : GoodAt(s, p, k, x, j, e)
  <1>1. /\ v \in Seq(Bytes) /\ L \in Nat /\ n = (L + 7) \div 8
        /\ \A k \in 1..n : SentOctet(s, k) \in BitOctets /\ v[k] = OctetOf(SentOctet(s, k))
    BY RefHuffmanValue
  <1>2. d = Decoding!Fold(DecodeStart, v)
    BY DEF Decoding!Fold, Decoding!FoldLeft, FoldLeft,
           Decoding!MapThenFoldSet, MapThenFoldSet, Decoding!Max, Max
  <1>3. Decoding!Closed
    BY DecodeByteType DEF Decoding!Closed
  <1>4. DecodeStart \in Fed
    <2>1. <<>> \in Nodes /\ 0 \in Word16 /\ <<>> \in Seq(Bytes) /\ "" \in DecoderErrors
      BY DEF Nodes, Word16, DecoderErrors
    <2>2. Root \in {Inside(w) : w \in Nodes}
      BY <2>1 DEF Root
    <2>3. 0 \in 0..15 /\ 0 <= 7 /\ 0 \in Int /\ FALSE \in BOOLEAN
      OBVIOUS
    <2>4. DecodeStart \in Decoders
      BY <2>1, <2>2, <2>3 DEF DecodeStart, Decoders
    <2> QED
      BY <2>3, <2>4 DEF DecodeStart, Fed
  <1> HIDE DEF v, d
  <1>5. PICK w : Decoding!IsWalk(w, DecodeStart, v) /\ w[n] = d
    BY <1>1, <1>2, <1>3, <1>4, Decoding!FoldWalk
  <1>6. /\ w \in [0..n -> Fed] /\ w[0] = DecodeStart
        /\ \A i \in 1..n : w[i] = DecodeByte(w[i - 1], v[i])
    BY <1>5 DEF Decoding!IsWalk
  <1>7. n \in Nat /\ 8 * n <= L + 7
    <2> HIDE DEF L
    <2> QED
      BY <1>1
  <1> DEFINE S == {k \in Nat : k <= n => Good(k, w[k])}
  <1>8. 0 \in S
    <2>1. p[0] = 0 /\ Len(s) \in Nat
      BY DEF IsLayout
    <2>2. Position(s, 0, 0, Root)
      <3>1. ASSUME 0 < Len(s)
            PROVE  0 \in 0..Depth(s[0 + 1]) /\ Root = Inside(SubSeq(Way(s[0 + 1]), 1, 0))
        <4>1. s[0 + 1] \in Bytes
          BY <3>1, <2>1
        <4>2. Depth(s[0 + 1]) \in 0..3
          BY <4>1, WayType, Zenon
        <4>3. 0 \in 0..Depth(s[0 + 1])
          BY <4>2
        <4> QED
          BY <4>1, <4>3, WayNodes DEF Root
      <3> QED
        BY <3>1 DEF Position
    <2>3. SubSeq(s, 1, 0) = <<>> /\ 0 \in 0..Len(s) /\ 0 \in 0..3
      BY <2>1
    <2>4. DecodeStart \in Decoders
      BY <1>4 DEF Fed
    <2>5. GoodAt(s, p, 0, DecodeStart, 0, 0)
      <3>1. /\ DecodeStart.done = FALSE /\ DecodeStart.error = "" /\ DecodeStart.out = <<>>
            /\ DecodeStart.n = Root /\ DecodeStart.cbits = 0 /\ DecodeStart.sbits = 0
        BY DEF DecodeStart
      <3>2. p[0] + (8 * 0 + 0) = 8 * 0 /\ 0 = 8 * 0 - p[0]
        BY <2>1
      <3>3. \A t \in 0..(0 - 1) : FALSE
        OBVIOUS
      <3> QED
        BY <2>2, <2>3, <2>4, <3>1, <3>2, <3>3 DEF GoodAt
    <2> QED
      BY <1>6, <2>5
  <1>9. ASSUME NEW k \in Nat, k \in S PROVE k + 1 \in S
    <2> SUFFICES ASSUME k + 1 <= n PROVE Good(k + 1, w[k + 1])
      OBVIOUS
    <2>1. k <= n /\ k \in 0..n /\ k + 1 \in 1..n /\ (k + 1) - 1 = k
      BY <1>7
    <2>2. PICK j, e : GoodAt(s, p, k, w[k], j, e)
      BY <1>9, <2>1
    <2> DEFINE b == v[k + 1]
               x == w[k]
    <2>3. /\ x \in Fed /\ w[k + 1] = DecodeByte(x, b)
          /\ SentOctet(s, k + 1) \in BitOctets /\ b = OctetOf(SentOctet(s, k + 1))
      BY <1>1, <1>6, <2>1
    <2> HIDE DEF b, x
    <2>4. b \in Bytes /\ ~x.done /\ GoodAt(s, p, k + 1, TakenIn(x, b), j, e)
      BY <2>2, <2>3, GoodTakenIn DEF x
    <2>5. DecodeByte(x, b) = Feed(TakenIn(x, b))
      BY <2>3, <2>4, DecodeByteType
    <2>6. 8 * (k + 1) <= Len(RefBits(s)) + 7
      <3>1. 8 * (k + 1) <= L + 7
        <4> HIDE DEF L, n
        <4> QED
          BY <1>1, <1>7
      <3> QED
        BY <3>1
    <2>7. k + 1 \in Nat
      OBVIOUS
    <2>8. Good(k + 1, Feed(TakenIn(x, b)))
      BY <2>4, <2>6, <2>7, GoodFeed
    <2> QED
      BY <2>3, <2>5, <2>8
  <1> HIDE DEF S
  <1>10. n \in S
    BY <1>7, <1>8, <1>9, Adding!NatSetInduction
  <1>11. Good(n, d) /\ d \in Fed
    <2>1. n \in 0..n
      BY <1>7
    <2> QED
      BY <1>5, <1>6, <1>7, <1>10, <2>1 DEF S
  <1> QED
    BY <1>11 DEF v, d

(* Whatever leaf the index is of, *)
LEMMA TreeLeafAt ==
    ASSUME NEW c \in Bytes, NEW f \in BitOctets, OctetOf(f) \in LeafIndices(c)
    PROVE  Children[Way(c)][OctetOf(f)] = Leaf(c)
  BY LeafIndex, TreeLeaf

(* A run of ones, and then zeros, as the last bits are that only fill up   *)
(* the last byte, *)
Ones(f, r) == \A u \in 0..7 : f[u] = IF u >= 8 - r THEN 1 ELSE 0

(* is one of seven bytes: *)
LEMMA OnesNumber ==
    ASSUME NEW f \in BitOctets
    PROVE  /\ Ones(f, 1) => OctetOf(f) = 128
           /\ Ones(f, 2) => OctetOf(f) = 192
           /\ Ones(f, 3) => OctetOf(f) = 224
           /\ Ones(f, 4) => OctetOf(f) = 240
           /\ Ones(f, 5) => OctetOf(f) = 248
           /\ Ones(f, 6) => OctetOf(f) = 252
           /\ Ones(f, 7) => OctetOf(f) = 254
  <1>1. \A r \in 1..7 : Ones(f, r) =>
            OctetOf(f) = Octet8(1, IF 6 >= 8 - r THEN 1 ELSE 0, IF 5 >= 8 - r THEN 1 ELSE 0,
                                IF 4 >= 8 - r THEN 1 ELSE 0, IF 3 >= 8 - r THEN 1 ELSE 0,
                                IF 2 >= 8 - r THEN 1 ELSE 0, IF 1 >= 8 - r THEN 1 ELSE 0,
                                IF 0 >= 8 - r THEN 1 ELSE 0)
    <2> SUFFICES ASSUME NEW r \in 1..7, Ones(f, r)
                 PROVE  /\ f[7] = 1 /\ f[6] = (IF 6 >= 8 - r THEN 1 ELSE 0)
                        /\ f[5] = (IF 5 >= 8 - r THEN 1 ELSE 0)
                        /\ f[4] = (IF 4 >= 8 - r THEN 1 ELSE 0)
                        /\ f[3] = (IF 3 >= 8 - r THEN 1 ELSE 0)
                        /\ f[2] = (IF 2 >= 8 - r THEN 1 ELSE 0)
                        /\ f[1] = (IF 1 >= 8 - r THEN 1 ELSE 0)
                        /\ f[0] = (IF 0 >= 8 - r THEN 1 ELSE 0)
      BY DEF OctetOf
    <2> QED
      BY DEF Ones
  <1>2. /\ Octet8(1, 0, 0, 0, 0, 0, 0, 0) = 128 /\ Octet8(1, 1, 0, 0, 0, 0, 0, 0) = 192
        /\ Octet8(1, 1, 1, 0, 0, 0, 0, 0) = 224 /\ Octet8(1, 1, 1, 1, 0, 0, 0, 0) = 240
        /\ Octet8(1, 1, 1, 1, 1, 0, 0, 0) = 248 /\ Octet8(1, 1, 1, 1, 1, 1, 0, 0) = 252
        /\ Octet8(1, 1, 1, 1, 1, 1, 1, 0) = 254
    BY DEF Octet8
  <1> QED
    BY <1>1, <1>2

(* is the start of a longer code. *)
PaddingByte == <<61, 69, 85, 119, 38, 88>>
PaddingOctet == <<128, 192, 224, 240, 248, 252>>

(* Such a code for up to six ones; seven are on the way of the longest, *)
LEMMA PaddingCodes ==
    \A r \in 1..6 : LET c == PaddingByte[r]
                    IN /\ c \in Bytes /\ Depth(c) = 0 /\ BitsLeft(c) > r
                       /\ PaddingOctet[r] \in LeafIndices(c)
  <1>1. /\ Code(61) = 32 /\ CodeLength(61) = 6 /\ Code(69) = 96 /\ CodeLength(69) = 7
        /\ Code(85) = 112 /\ CodeLength(85) = 7 /\ Code(119) = 120 /\ CodeLength(119) = 7
        /\ Code(38) = 248 /\ CodeLength(38) = 8 /\ Code(88) = 252 /\ CodeLength(88) = 8
    BY DEF Code, LowCodes, CodeLength, Lengths
  <1>2. /\ (6 - 1) \div 8 = 0 /\ (7 - 1) \div 8 = 0 /\ (8 - 1) \div 8 = 0
    OBVIOUS
  <1>3. /\ Depth(61) = 0 /\ Depth(69) = 0 /\ Depth(85) = 0 /\ Depth(119) = 0 /\ Depth(38) = 0 /\ Depth(88) = 0
    BY <1>1, <1>2 DEF Depth
  <1>4. /\ BitsLeft(61) = 6 /\ BitsLeft(69) = 7 /\ BitsLeft(85) = 7 /\ BitsLeft(119) = 7
        /\ BitsLeft(38) = 8 /\ BitsLeft(88) = 8
    BY <1>1, <1>3 DEF BitsLeft
  <1>5. 2^0 = 1 /\ 2^1 = 2 /\ 2^2 = 4
    OBVIOUS
  <1>6. /\ LowByte(32, 2) = 128 /\ LowByte(96, 1) = 192 /\ LowByte(112, 1) = 224
        /\ LowByte(120, 1) = 240 /\ LowByte(248, 0) = 248 /\ LowByte(252, 0) = 252
    BY <1>5 DEF LowByte
  <1>7. 8 - 6 = 2 /\ 8 - 7 = 1 /\ 8 - 8 = 0
    OBVIOUS
  <1>8. /\ 128 \in LeafIndices(61) /\ 192 \in LeafIndices(69) /\ 224 \in LeafIndices(85)
        /\ 240 \in LeafIndices(119) /\ 248 \in LeafIndices(38) /\ 252 \in LeafIndices(88)
    <2> DEFINE First(c) == LowByte(Code(c), 8 - BitsLeft(c))
    <2>1. ASSUME NEW c, NEW x \in Nat, First(c) = x, NEW m \in 0..7, 8 - BitsLeft(c) = m
          PROVE  x \in LeafIndices(c)
      <3>1. LeafIndices(c) = x..(x + 2^m - 1)
        BY <2>1 DEF LeafIndices
      <3>2. 2^m \in Nat \ {0}
        <4>1. m \in 0..30
          OBVIOUS
        <4> QED
          BY <4>1, Doubling
      <3> QED
        BY <3>1, <3>2
    <2>2. /\ First(61) = 128 /\ First(69) = 192 /\ First(85) = 224
          /\ First(119) = 240 /\ First(38) = 248 /\ First(88) = 252
      BY <1>1, <1>4, <1>6, <1>7
    <2>3. /\ 8 - BitsLeft(61) = 2 /\ 8 - BitsLeft(69) = 1 /\ 8 - BitsLeft(85) = 1
          /\ 8 - BitsLeft(119) = 1 /\ 8 - BitsLeft(38) = 0 /\ 8 - BitsLeft(88) = 0
      BY <1>4, <1>7
    <2> HIDE DEF First
    <2> QED
      BY <2>1, <2>2, <2>3
  <1>9. ASSUME NEW r \in 1..6
        PROVE  LET c == PaddingByte[r]
               IN /\ c \in Bytes /\ Depth(c) = 0 /\ BitsLeft(c) > r
                  /\ PaddingOctet[r] \in LeafIndices(c)
    <2>1. r = 1 \/ r = 2 \/ r = 3 \/ r = 4 \/ r = 5 \/ r = 6
      OBVIOUS
    <2>2. /\ 61 \in Bytes /\ 69 \in Bytes /\ 85 \in Bytes /\ 119 \in Bytes /\ 38 \in Bytes /\ 88 \in Bytes
      BY DEF Bytes
    <2> QED
      BY <1>3, <1>4, <1>8, <2>1, <2>2 DEF PaddingByte, PaddingOctet
  <1> QED
    BY <1>9

(* so that ones at the end are never taken for a byte. *)
LEMMA Padding ==
    ASSUME NEW f \in BitOctets, NEW r \in 1..7, Ones(f, r)
    PROVE  \/ \E c \in Bytes : Children[<<>>][OctetOf(f)] = Leaf(c) /\ BitsLeft(c) > r
           \/ \E v \in Nodes : Children[<<>>][OctetOf(f)] = Inside(v)
  <1>1. CASE r \in 1..6
    <2> DEFINE c == PaddingByte[r]
    <2>1. c \in Bytes /\ Depth(c) = 0 /\ BitsLeft(c) > r /\ PaddingOctet[r] \in LeafIndices(c)
      BY <1>1, PaddingCodes
    <2>2. OctetOf(f) = PaddingOctet[r]
      <3>1. r = 1 \/ r = 2 \/ r = 3 \/ r = 4 \/ r = 5 \/ r = 6
        BY <1>1
      <3>2. /\ PaddingOctet[1] = 128 /\ PaddingOctet[2] = 192 /\ PaddingOctet[3] = 224
            /\ PaddingOctet[4] = 240 /\ PaddingOctet[5] = 248 /\ PaddingOctet[6] = 252
        BY DEF PaddingOctet
      <3> QED
        BY <3>1, <3>2, OnesNumber
    <2> HIDE DEF c
    <2>3. Way(c) = <<>>
      <3>1. 0 \in 0..Depth(c)
        BY <2>1
      <3> QED
        BY <2>1, <3>1, WayNodes
    <2>4. Children[<<>>][OctetOf(f)] = Leaf(c)
      <3>1. OctetOf(f) \in LeafIndices(c)
        BY <2>1, <2>2
      <3>2. Children[Way(c)][OctetOf(f)] = Leaf(c)
        BY <2>1, <3>1, TreeLeafAt
      <3> QED
        BY <2>3, <3>2
    <2> QED
      BY <2>1, <2>4
  <1>2. CASE r = 7
    <2> DEFINE g == BitsAt(33, 8)
    <2>1. Code(33) = 1016 /\ CodeLength(33) = 10
      BY DEF Code, LowCodes, CodeLength, Lengths
    <2>2. 33 \in Bytes /\ 8 \in Int
      BY DEF Bytes
    <2>3. Depth(33) = 1
      <3>1. (10 - 1) \div 8 = 1
        OBVIOUS
      <3> QED
        BY <2>1, <3>1 DEF Depth
    <2>4. HighByte(Code(33), 2) = 254
      <3>1. (1016 \div 4) % 256 = 254 /\ 2^2 = 4
        OBVIOUS
      <3> QED
        BY <2>1, <3>1 DEF HighByte
    <2>5. ByteAt(33, 8) = 254
      <3>1. 2 \in 0..CodeLength(33) /\ CodeLength(33) - 2 = 8
        BY <2>1
      <3> QED
        BY <2>2, <2>4, <3>1, HighByteAt
    <2>6. g \in BitOctets /\ OctetOf(g) = 254
      BY <2>2, <2>5, BitsAtType
    <2>7. OctetOf(f) = 254
      BY <1>2, OnesNumber
    <2>8. \A u \in 0..7 : f[u] = CodeBit(33, (8 * 0 + 8) - u)
      <3>1. \A u \in 0..7 : f[u] = g[u]
        BY <2>6, <2>7, OctetsEqual
      <3>2. \A u \in 0..7 : g[u] = CodeBit(33, 8 - u)
        BY DEF BitsAt
      <3>3. 8 * 0 + 8 = 8
        OBVIOUS
      <3> QED
        BY <3>1, <3>2, <3>3
    <2>9. 0 \in 0..(Depth(33) - 1) /\ 0 \in 0..Depth(33) /\ 0 + 1 \in 0..Depth(33)
      BY <2>3
    <2>10. Children[SubSeq(Way(33), 1, 0)][OctetOf(f)] = Inside(SubSeq(Way(33), 1, 0 + 1))
      BY <2>2, <2>8, <2>9, TreeInside
    <2>11. SubSeq(Way(33), 1, 0) = <<>> /\ SubSeq(Way(33), 1, 0 + 1) \in Nodes
      BY <2>2, <2>9, WayNodes
    <2> QED
      BY <2>10, <2>11
  <1>3. r \in 1..6 \/ r = 7
    OBVIOUS
  <1> QED
    BY <1>1, <1>2, <1>3

(* Past the string's bits, ones are sent. *)
LEMMA OnesSent ==
    ASSUME NEW s \in Seq(Bytes), NEW p, IsLayout(s, p), NEW k \in Nat, NEW d, NEW j, NEW e,
           GoodAt(s, p, k, d, j, e), j = Len(s)
    PROVE  /\ e = 0 /\ d.n = Root /\ d.sbits = d.cbits
           /\ \A t \in 0..(d.cbits - 1) : (d.cur \div 2^t) % 2 = 1
  <1>1. e = 0 /\ d.n = Root
    BY DEF GoodAt, Position
  <1> DEFINE C == d.cbits
             P == p[j]
             L == Len(RefBits(s))
             S == d.sbits
  <1>2. C \in 0..15 /\ P \in Nat /\ P + (8 * 0 + C) = 8 * k /\ S = 8 * k - P
    BY <1>1, GoodNumbers
  <1>3. P = L
    <2>1. j \in 0..Len(s)
      BY GoodNumbers
    <2> QED
      BY <2>1, LayoutParts
  <1>4. ASSUME NEW t \in 0..(C - 1) PROVE Sent(s, 8 * k - t) = 1
    <2>1. ~(8 * k - t <= L)
      <3> HIDE DEF C, P, L
      <3> QED
        BY <1>2, <1>3
    <2> QED
      BY <2>1 DEF Sent, Bit
  <1>5. S = C
    <2> HIDE DEF S, C, P
    <2> QED
      BY <1>2
  <1>6. \A t \in 0..(d.cbits - 1) : (d.cur \div 2^t) % 2 = Sent(s, 8 * k - t)
    BY DEF GoodAt
  <1> QED
    BY <1>1, <1>4, <1>5, <1>6

(* A turn of the loop over the last bits finds the byte they end, and      *)
(* takes no bits for a byte that only fill up.                             *)
LEMMA GoodFlushTurn ==
    ASSUME NEW s \in Seq(Bytes), NEW p, IsLayout(s, p), NEW k \in Nat,
           8 * k >= Len(RefBits(s)),
           NEW d \in Fed, NEW j, NEW e, GoodAt(s, p, k, d, j, e)
    PROVE  /\ j = Len(s) => FlushTurn(d) = d
           /\ j # Len(s) =>
                 \E i, h : GoodAt(s, p, k, FlushTurn(d), i, h) /\ FlushTurn(d).cbits < d.cbits
  <1>1. /\ d \in Decoders /\ ~d.done /\ j \in 0..Len(s)
        /\ Position(s, j, e, d.n)
    BY DEF GoodAt
  <1>b. \A t \in 0..(d.cbits - 1) : (d.cur \div 2^t) % 2 = Sent(s, 8 * k - t)
    BY DEF GoodAt
  <1>2. /\ d.cbits \in 0..15 /\ d.cur \in Nat /\ Len(s) \in Nat /\ p[j] \in Nat
        /\ j \in 0..Len(s) /\ e \in 0..3
        /\ p[j] + (8 * e + d.cbits) = 8 * k
    BY GoodNumbers
  <1>3. d.cbits <= 7
    BY <1>1 DEF Fed
  <1> DEFINE m == 8 - d.cbits
             f == ShiftedUp(d.cur, m)
  <1>4. d.cbits > 0 => /\ m \in 0..7 /\ f \in BitOctets
                       /\ LowByte(d.cur, 8 - d.cbits) = OctetOf(f)
    <2>1. \A C \in 0..15 : C <= 7 /\ C > 0 => 8 - C \in 0..7
      OBVIOUS
    <2>2. d.cbits > 0 => m \in 0..7
      BY <1>2, <1>3, <2>1
    <2> QED
      BY <1>2, <2>2, LowByteShifted
  <1>5. CASE j = Len(s)
    <2>1. e = 0 /\ d.n = Inside(<<>>) /\ \A t \in 0..(d.cbits - 1) : (d.cur \div 2^t) % 2 = 1
      BY <1>5, OnesSent DEF Root
    <2>2. CASE d.cbits = 0
      BY <1>5, <2>2 DEF FlushTurn
    <2>3. CASE d.cbits # 0
      <3>1. d.cbits > 0 /\ d.cbits \in 1..7
        <4>1. \A C \in 0..15 : C <= 7 /\ C # 0 => C > 0 /\ C \in 1..7
          OBVIOUS
        <4> QED
          BY <1>2, <1>3, <2>3, <4>1
      <3>2. Ones(f, d.cbits)
        <4> DEFINE C == d.cbits
        <4>1. ASSUME NEW u \in 0..7 PROVE f[u] = IF u >= 8 - C THEN 1 ELSE 0
          <5>1. u >= 8 - C => u - (8 - C) \in 0..(C - 1)
            <6>1. C \in 1..7
              BY <3>1
            <6> HIDE DEF C
            <6> QED
              BY <6>1
          <5>2. f[u] = IF u >= 8 - C THEN (d.cur \div 2^(u - (8 - C))) % 2 ELSE 0
            BY DEF ShiftedUp
          <5> QED
            BY <2>1, <5>1, <5>2
        <4> HIDE DEF f
        <4> QED
          BY <4>1 DEF Ones
      <3> DEFINE child == Children[<<>>][OctetOf(f)]
      <3>3. child = Children[<<>>][LowByte(d.cur, 8 - d.cbits)]
        BY <1>4, <3>1
      <3>4. \/ \E c \in Bytes : child = Leaf(c) /\ BitsLeft(c) > d.cbits
            \/ \E v \in Nodes : child = Inside(v)
        BY <1>4, <3>1, <3>2, Padding
      <3> HIDE DEF child
      <3>5. /\ \A c \in Bytes : child = Leaf(c) =>
                  FlushTurn(d) = IF BitsLeft(c) <= d.cbits THEN Emit(d, Leaf(c)) ELSE d
            /\ \A v \in Nodes : child = Inside(v) => FlushTurn(d) = d
        BY <1>1, <2>1, <3>1, <3>3, FlushTurnCases
      <3>6. CASE \E c \in Bytes : child = Leaf(c) /\ BitsLeft(c) > d.cbits
        <4>1. PICK c \in Bytes : child = Leaf(c) /\ BitsLeft(c) > d.cbits
          BY <3>6
        <4>2. ~(BitsLeft(c) <= d.cbits)
          <5>1. BitsLeft(c) \in 1..8
            BY WayType, Zenon
          <5>2. \A B \in 1..8, C \in 0..15 : B > C => ~(B <= C)
            OBVIOUS
          <5> QED
            BY <1>2, <4>1, <5>1, <5>2
        <4> QED
          BY <1>5, <3>5, <4>1, <4>2
      <3>7. CASE \E v \in Nodes : child = Inside(v)
        BY <1>5, <3>5, <3>7
      <3> QED
        BY <3>4, <3>6, <3>7
    <2> QED
      BY <2>2, <2>3
  <1>6. CASE j # Len(s)
    <2>1. j < Len(s)
      <3>1. \A x, y \in Nat : x \in 0..y /\ x # y => x < y
        OBVIOUS
      <3> QED
        BY <1>2, <1>6, <3>1
    <2> DEFINE c == s[j + 1]
               w == SubSeq(Way(c), 1, e)
    <2>2. c \in Bytes /\ e \in 0..Depth(c) /\ d.n = Inside(w)
      BY <1>1, <2>1, LayoutParts DEF Position
    <2>3. /\ Depth(c) \in 0..3 /\ BitsLeft(c) \in 1..8 /\ CodeLength(c) \in 5..30
          /\ CodeLength(c) = 8 * Depth(c) + BitsLeft(c)
      BY <2>2, WayType, Zenon
    <2>4. /\ \A i \in 1..CodeLength(c) : Sent(s, p[j] + i) = CodeBit(c, i)
          /\ p[j + 1] \in Nat /\ p[j + 1] = p[j] + CodeLength(c) /\ p[j + 1] <= Len(RefBits(s))
          /\ Len(RefBits(s)) \in Nat
      BY <1>1, <2>1, LayoutParts
    <2> HIDE DEF c
    <2>5. e = Depth(c) /\ BitsLeft(c) <= d.cbits /\ d.cbits > 0
      <3> DEFINE C == d.cbits
                 P == p[j]
                 Q == p[j + 1]
                 L == Len(RefBits(s))
                 D == Depth(c)
                 B == BitsLeft(c)
      <3>1. /\ C \in 0..15 /\ C <= 7 /\ P \in Nat /\ Q \in Nat /\ L \in Nat /\ D \in 0..3 /\ B \in 1..8
            /\ P + (8 * e + C) = 8 * k /\ Q = P + (8 * D + B) /\ Q <= L /\ 8 * k >= L
            /\ e \in 0..D
        BY <1>2, <1>3, <2>2, <2>3, <2>4
      <3> HIDE DEF C, P, Q, L, D, B
      <3>2. 8 * e + C >= 8 * D + B
        BY <1>2, <3>1
      <3>3. e = D /\ B <= C /\ C > 0
        BY <1>2, <3>1, <3>2
      <3> QED
        BY <3>3 DEF C, D, B
    <2>6. ASSUME NEW u \in 0..7, (8 * Depth(c) + 8) - u <= CodeLength(c)
          PROVE  f[u] = CodeBit(c, (8 * Depth(c) + 8) - u)
      <3> DEFINE C == d.cbits
                 P == p[j]
                 D == Depth(c)
                 B == BitsLeft(c)
      <3>1. /\ C \in 0..15 /\ C <= 7 /\ P \in Nat /\ D \in 0..3 /\ B \in 1..8
            /\ P + (8 * D + C) = 8 * k /\ B <= C
            /\ (8 * D + 8) - u <= 8 * D + B
        BY <1>2, <1>3, <2>3, <2>5, <2>6
      <3>2. /\ u >= 8 - C /\ u - (8 - C) \in 0..(C - 1)
            /\ 8 * k - (u - (8 - C)) = P + ((8 * D + 8) - u)
            /\ (8 * D + 8) - u \in 1..(8 * D + B)
        <4> HIDE DEF C, P, D, B
        <4>1. u >= 8 - B
          BY <3>1
        <4> QED
          BY <3>1, <4>1
      <3>3. f[u] = (d.cur \div 2^(u - (8 - C))) % 2
        BY <3>2 DEF ShiftedUp
      <3>4. f[u] = Sent(s, P + ((8 * D + 8) - u))
        BY <1>b, <3>2, <3>3
      <3>5. (8 * D + 8) - u \in 1..CodeLength(c)
        BY <2>3, <3>2
      <3> HIDE DEF f
      <3> QED
        BY <2>4, <3>4, <3>5
    <2>7. Children[w][LowByte(d.cur, 8 - d.cbits)] = Leaf(c)
      <3>1. f \in BitOctets /\ LowByte(d.cur, 8 - d.cbits) = OctetOf(f)
        BY <1>4, <2>5
      <3> HIDE DEF f
      <3>2. Children[Way(c)][OctetOf(f)] = Leaf(c)
        BY <2>2, <2>6, <3>1, TreeLeaf
      <3>3. w = Way(c)
        BY <2>2, <2>5, WayNodes
      <3> QED
        BY <3>1, <3>2, <3>3
    <2>8. FlushTurn(d) = Emit(d, Leaf(c))
      BY <1>1, <2>2, <2>5, <2>7, FlushTurnCases
    <2>9. GoodAt(s, p, k, Emit(d, Leaf(c)), j + 1, 0)
      BY <2>1, <2>5, GoodEmit DEF c
    <2>10. Emit(d, Leaf(c)).cbits < d.cbits
      BY <1>1, <2>2, <2>5, EmitValue
    <2> QED
      BY <1>6, <2>8, <2>9, <2>10
  <1> QED
    BY <1>5, <1>6

(* At the end of the loop all bytes are out, *)
LEMMA GoodFlush ==
    ASSUME NEW s \in Seq(Bytes), NEW p, IsLayout(s, p), NEW k \in Nat,
           8 * k >= Len(RefBits(s)),
           NEW d \in Fed, \E j, e : GoodAt(s, p, k, d, j, e)
    PROVE  \E e : GoodAt(s, p, k, Flush(d), Len(s), e) /\ Flush(d) \in Fed
  <1> DEFINE Good(x) == \E j, e : GoodAt(s, p, k, x, j, e)
             Over(x) == \E e : GoodAt(s, p, k, x, Len(s), e)
  <1>1. PICK w \in [0..8 -> Fed] :
            w[0] = d /\ w[8] = Flush(d) /\ \A i \in 0..7 : w[i + 1] = FlushTurn(w[i])
    BY FlushWalk
  <1> DEFINE S == {i \in Nat : i <= 8 => Over(w[i]) \/ (Good(w[i]) /\ w[i].cbits <= 7 - i)}
  <1>2. 0 \in S
    <2>1. Good(w[0]) /\ d \in Decoders /\ ~d.done
      BY <1>1 DEF GoodAt
    <2>2. d.cbits <= 7 /\ 7 - 0 = 7
      BY <2>1 DEF Fed
    <2>3. w[0].cbits <= 7 - 0
      BY <1>1, <2>2
    <2> QED
      BY <2>1, <2>3
  <1>3. ASSUME NEW i \in Nat, i \in S PROVE i + 1 \in S
    <2> SUFFICES ASSUME i + 1 <= 8
                 PROVE  Over(w[i + 1]) \/ (Good(w[i + 1]) /\ w[i + 1].cbits <= 7 - (i + 1))
      OBVIOUS
    <2>1. i \in 0..7 /\ i \in 0..8 /\ i <= 8
      OBVIOUS
    <2> DEFINE x == w[i]
    <2>2. /\ x \in Fed /\ (Over(x) \/ (Good(x) /\ x.cbits <= 7 - i)) /\ w[i + 1] = FlushTurn(x)
      BY <1>1, <1>3, <2>1
    <2> HIDE DEF x
    <2>3. CASE Over(x)
      <3>1. PICK e : GoodAt(s, p, k, x, Len(s), e)
        BY <2>3
      <3>2. FlushTurn(x) = x
        BY <2>2, <3>1, GoodFlushTurn
      <3> QED
        BY <2>2, <2>3, <3>2
    <2>4. CASE ~Over(x)
      <3>1. Good(x) /\ x.cbits <= 7 - i
        BY <2>2, <2>4
      <3>2. PICK j, e : GoodAt(s, p, k, x, j, e)
        BY <3>1
      <3>3. j # Len(s)
        BY <2>4, <3>2
      <3>4. \E y, h : GoodAt(s, p, k, FlushTurn(x), y, h) /\ FlushTurn(x).cbits < x.cbits
        BY <2>2, <3>2, <3>3, GoodFlushTurn
      <3> DEFINE C == x.cbits
                 G == FlushTurn(x).cbits
      <3>5. C \in 0..15 /\ G \in 0..15
        <4>1. x \in Decoders /\ FlushTurn(x) \in Decoders
          BY <3>2, <3>4 DEF GoodAt
        <4> QED
          BY <4>1 DEF Decoders
      <3>6. G < C /\ C <= 7 - i
        BY <3>1, <3>4
      <3> HIDE DEF C, G
      <3>7. G <= 7 - (i + 1)
        BY <2>1, <3>5, <3>6
      <3> QED
        BY <2>2, <3>4, <3>7 DEF G
    <2> QED
      BY <2>3, <2>4
  <1> HIDE DEF S
  <1>4. 8 \in Nat /\ 8 \in S
    BY <1>2, <1>3, Adding!NatSetInduction
  <1>5. Over(w[8])
    <2>1. Over(w[8]) \/ (Good(w[8]) /\ w[8].cbits <= 7 - 8)
      BY <1>4 DEF S
    <2>2. CASE Good(w[8]) /\ w[8].cbits <= 7 - 8
      <3>1. w[8] \in Decoders
        BY <2>2 DEF GoodAt
      <3>2. w[8].cbits \in 0..15
        BY <3>1 DEF Decoders
      <3>3. \A C \in 0..15 : ~(C <= 7 - 8)
        OBVIOUS
      <3> QED
        BY <2>2, <3>2, <3>3
    <2> QED
      BY <2>1, <2>2
  <1> QED
    BY <1>1, <1>5

(* and what is left is a prefix of EOS. *)
LEMMA GoodFinish ==
    ASSUME NEW s \in Seq(Bytes), NEW p, IsLayout(s, p), NEW k \in Nat,
           NEW d \in Fed, NEW e, GoodAt(s, p, k, d, Len(s), e)
    PROVE  Finish(d).out = s /\ Finish(d).error = ""
  <1>1. d \in Decoders /\ ~d.done /\ d.error = "" /\ d.out = SubSeq(s, 1, Len(s))
    BY DEF GoodAt
  <1>2. d.cbits \in 0..15 /\ d.cur \in Nat /\ d.cbits <= 7
    BY <1>1, GoodNumbers DEF Fed
  <1>3. d.sbits = d.cbits /\ \A t \in 0..(d.cbits - 1) : (d.cur \div 2^t) % 2 = 1
    BY OnesSent
  <1>4. d.cbits \in 0..7
    <2>1. \A C \in 0..15 : C <= 7 => C \in 0..7
      OBVIOUS
    <2> QED
      BY <1>2, <2>1
  <1>5. d.cur % 2^d.cbits = 2^d.cbits - 1
    BY <1>2, <1>3, <1>4, LowOnes
  <1>6. ~(d.sbits > 7) /\ d.sbits <= 7
    <2>1. \A C \in 0..7 : ~(C > 7) /\ C <= 7
      OBVIOUS
    <2> QED
      BY <1>3, <1>4, <2>1
  <1>7. Finish(d) = [d EXCEPT !.done = TRUE]
    BY <1>1, <1>5, <1>6 DEF Finish
  <1>8. Finish(d).out = d.out /\ Finish(d).error = d.error
    BY <1>1, <1>7 DEF Decoders
  <1>9. SubSeq(s, 1, Len(s)) = s
    OBVIOUS
  <1> QED
    BY <1>1, <1>8, <1>9

(* For every string of bytes, of whatever length, huffmanDecode finds the  *)
(* string in what the RFC has for it, and takes none of the ones that fill *)
(* up the last byte for another symbol.                                    *)
THEOREM StringsAreDecoded ==
    ASSUME NEW s \in Seq(Bytes)
    PROVE  HuffmanDecode(RefHuffman(s)) = Ok(s, <<>>)
  <1>1. PICK p : IsLayout(s, p)
    BY LayoutExists
  <1> DEFINE d == FoldLeft(DecodeByte, DecodeStart, RefHuffman(s))
             k == Len(RefHuffman(s))
             L == Len(RefBits(s))
  <1>2. d \in Fed /\ \E j, e : GoodAt(s, p, k, d, j, e)
    BY <1>1, GoodDecoding
  <1>3. k = (L + 7) \div 8 /\ L \in Nat
    BY RefHuffmanValue
  <1> HIDE DEF d, k, L
  <1>4. k \in Nat /\ 8 * k >= L
    BY <1>3
  <1>5. PICK e : GoodAt(s, p, k, Flush(d), Len(s), e) /\ Flush(d) \in Fed
    BY <1>1, <1>2, <1>4, GoodFlush DEF L
  <1>6. Finish(Flush(d)).out = s /\ Finish(Flush(d)).error = ""
    BY <1>1, <1>4, <1>5, GoodFinish
  <1>7. HuffmanDecode(RefHuffman(s)) = Decoded(Finish(Flush(d)))
    BY DEF HuffmanDecode, d
  <1> QED
    BY <1>6, <1>7 DEF Decoded

(* What huffmanEncode writes for a string, huffmanDecode turns back into   *)
(* it.                                                                     *)
THEOREM HuffmanRoundTrip ==
    ASSUME NEW s \in Seq(Bytes)
    PROVE  HuffmanDecode(HuffmanEncode(s)) = Ok(s, <<>>)
  <1>1. HuffmanEncode(s) = RefHuffman(s)
    BY HuffmanEncodeValue
  <1>2. HuffmanDecode(RefHuffman(s)) = Ok(s, <<>>)
    BY StringsAreDecoded
  <1> QED
    BY <1>1, <1>2, Zenon

-----------------------------------------------------------------------------
(* Fields and blocks.                                                      *)

(* The length of what is written for a field, as encodeHeaderFields counts *)
(* it, and the field as the RFC would have it.                             *)
AddField(len, f) == len + 1 + EncodedStringLen(f.name) + EncodedStringLen(f.value)

FieldLen(f) == AddField(0, f)

RefField(f) ==
    <<16>> \o RefString(f.name, ShorterHuffman(f.name))
           \o RefString(f.value, ShorterHuffman(f.value))

Sizing == INSTANCE FoldLaws WITH V <- Nat, B <- Fields, op <- AddField

(* What is counted for a field does not depend on the fields before. *)
LEMMA FieldLenType ==
    \A f \in Fields :
      /\ FieldLen(f) \in Nat
      /\ \A n \in Nat : AddField(n, f) = n + FieldLen(f)
  <1>1. ASSUME NEW f \in Fields
        PROVE  EncodedStringLen(f.name) \in Nat /\ EncodedStringLen(f.value) \in Nat
    BY EncodeStringValue DEF Fields, Strings
  <1>2. \A n, a, b \in Nat : n + 1 + a + b = n + (0 + 1 + a + b) /\ 0 + 1 + a + b \in Nat
    OBVIOUS
  <1> QED
    BY <1>1, <1>2 DEF FieldLen, AddField

(* What is counted for the first field comes on top of the rest. *)
LEMMA FieldsLenSteps ==
    /\ EncodeHeaderFieldsLen(<<>>) = 0
    /\ \A fields \in Seq(Fields) : EncodeHeaderFieldsLen(fields) \in Nat
    /\ \A fields \in Seq(Fields) : fields # <<>> =>
         EncodeHeaderFieldsLen(fields) =
           FieldLen(Head(fields)) + EncodeHeaderFieldsLen(Tail(fields))
  <1>1. \A fields : EncodeHeaderFieldsLen(fields) = Sizing!Fold(0, fields)
    BY DEF EncodeHeaderFieldsLen, Sizing!Fold, AddField, Sizing!FoldLeft, FoldLeft,
           Sizing!MapThenFoldSet, MapThenFoldSet, Sizing!Max, Max
  <1>2. Sizing!Closed
    <2>1. \A n \in Nat, f \in Fields : AddField(n, f) \in Nat
      BY FieldLenType
    <2> QED
      BY <2>1 DEF Sizing!Closed
  <1>3. \A n \in Nat : Sizing!Fold(n, <<>>) = n
    BY <1>2, Sizing!FoldEmpty
  <1> DEFINE S == {fields \in Seq(Fields) :
                     /\ Sizing!Fold(0, fields) \in Nat
                     /\ \A n \in Nat : Sizing!Fold(n, fields) = n + Sizing!Fold(0, fields)}
  <1>4. <<>> \in S
    BY <1>3
  <1>5. ASSUME NEW fields \in Seq(Fields), NEW f \in Fields, fields \in S
        PROVE  Append(fields, f) \in S
    <2>1. Sizing!Fold(0, fields) \in Nat /\ FieldLen(f) \in Nat
      BY <1>5, FieldLenType
    <2>2. ASSUME NEW n \in Nat
          PROVE  Sizing!Fold(n, Append(fields, f)) = (n + Sizing!Fold(0, fields)) + FieldLen(f)
      <3>1. Sizing!Fold(n, Append(fields, f)) = AddField(Sizing!Fold(n, fields), f)
        BY <1>2, Sizing!FoldAppend
      <3>2. Sizing!Fold(n, fields) = n + Sizing!Fold(0, fields)
        BY <1>5
      <3>3. n + Sizing!Fold(0, fields) \in Nat
        BY <2>1
      <3> QED
        BY <3>1, <3>2, <3>3, FieldLenType, SMTT(60)
    <2>3. Append(fields, f) \in Seq(Fields) /\ 0 \in Nat
      OBVIOUS
    <2>4. Sizing!Fold(0, Append(fields, f)) = Sizing!Fold(0, fields) + FieldLen(f)
      BY <2>1, <2>2
    <2>5. \A n \in Nat :
            Sizing!Fold(n, Append(fields, f)) = n + Sizing!Fold(0, Append(fields, f))
      BY <2>1, <2>2, <2>4
    <2> QED
      BY <2>1, <2>3, <2>4, <2>5
  <1> HIDE DEF S
  <1>6. \A fields \in Seq(Fields) : fields \in S
    BY <1>4, <1>5, SeqInduction
  <1>7. ASSUME NEW fields \in Seq(Fields), fields # <<>>
        PROVE  Sizing!Fold(0, fields) = FieldLen(Head(fields)) + Sizing!Fold(0, Tail(fields))
    <2>1. Head(fields) \in Fields /\ Tail(fields) \in Seq(Fields) /\ 0 \in Nat
      BY <1>7
    <2>2. Sizing!Fold(0, fields) = Sizing!Fold(AddField(0, Head(fields)), Tail(fields))
      BY <1>2, <1>7, <2>1, Sizing!FoldCons
    <2>3. AddField(0, Head(fields)) = FieldLen(Head(fields)) /\ FieldLen(Head(fields)) \in Nat
      BY <2>1, FieldLenType DEF FieldLen
    <2>4. \A n \in Nat : Sizing!Fold(n, Tail(fields)) = n + Sizing!Fold(0, Tail(fields))
      BY <1>6, <2>1 DEF S
    <2> QED
      BY <2>2, <2>3, <2>4
  <1> QED
    BY <1>1, <1>3, <1>6, <1>7 DEF S

(* A field takes what is counted for it, and is the RFC's. *)
LEMMA EncodeHeaderFieldValue ==
    ASSUME NEW f \in Fields
    PROVE  /\ EncodeHeaderField(f) \in Seq(Nat)
           /\ Len(EncodeHeaderField(f)) = FieldLen(f)
           /\ EncodeHeaderField(f) = RefField(f)
  <1> DEFINE n == EncodeString(f.name)
             v == EncodeString(f.value)
             a == EncodedStringLen(f.name)
             b == EncodedStringLen(f.value)
  <1>1. /\ f.name \in Seq(Bytes) /\ Len(f.name) < Grouping(5)
        /\ f.value \in Seq(Bytes) /\ Len(f.value) < Grouping(5)
    <2>1. /\ f.name \in Seq(Bytes) /\ Len(f.name) < 2^30
          /\ f.value \in Seq(Bytes) /\ Len(f.value) < 2^30
      BY DEF Fields, Strings
    <2>2. \A x \in Nat : x < 2^30 => x < 128^5
      OBVIOUS
    <2>3. Len(f.name) \in Nat /\ Len(f.value) \in Nat
      BY <2>1
    <2> QED
      BY <2>1, <2>2, <2>3 DEF Grouping
  <1>2. /\ n \in Seq(Nat) /\ a \in Nat /\ Len(n) = a
        /\ v \in Seq(Nat) /\ b \in Nat /\ Len(v) = b
    BY <1>1, EncodeStringValue
  <1>3. EncodeHeaderField(f) = <<16>> \o n \o v /\ FieldLen(f) = 0 + 1 + a + b
    BY DEF EncodeHeaderField, FieldLen, AddField
  <1>4. EncodeHeaderField(f) = RefField(f)
    <2>1. /\ n = RefString(f.name, ShorterHuffman(f.name))
          /\ v = RefString(f.value, ShorterHuffman(f.value))
      BY <1>1, EncodeStringValue
    <2> QED
      BY <1>3, <2>1 DEF RefField
  <1> HIDE DEF n, v, a, b
  <1>5. <<16>> \o n \o v \in Seq(Nat) /\ Len(<<16>> \o n \o v) = 0 + 1 + a + b
    <2> DEFINE w == <<16>> \o n
    <2>1. w \in Seq(Nat) /\ Len(w) = 1 + a
      BY <1>2
    <2> HIDE DEF w
    <2>2. w \o v \in Seq(Nat) /\ Len(w \o v) = (1 + a) + b
      <3>1. \A x, y \in Seq(Nat) : x \o y \in Seq(Nat) /\ Len(x \o y) = Len(x) + Len(y)
        OBVIOUS
      <3>2. w \o v \in Seq(Nat) /\ Len(w \o v) = Len(w) + Len(v)
        BY <1>2, <2>1, <3>1, Zenon
      <3> QED
        BY <1>2, <2>1, <3>2, Zenon
    <2>3. 0 + 1 + a + b = (1 + a) + b
      BY <1>2
    <2> QED
      BY <2>2, <2>3 DEF w
  <1> QED
    BY <1>3, <1>4, <1>5

(* The block of one more field. *)
LEMMA RefBlockGrows ==
    /\ RefBlock(<<>>) = <<>>
    /\ \A fields \in Seq(Fields), f \in Fields :
         RefBlock(Append(fields, f)) = RefBlock(fields) \o RefField(f)
  <1> DEFINE Parts(fields) == [i \in 1..Len(fields) |-> RefField(fields[i])]
  <1>1. \A fields : RefBlock(fields) = FlattenSeq(Parts(fields))
    BY DEF RefBlock, RefField
  <1>2. RefBlock(<<>>) = <<>>
    <2>1. Parts(<<>>) = <<>>
      OBVIOUS
    <2> QED
      BY <1>1, <2>1, FlattenType
  <1>3. \A f \in Fields : RefField(f) \in Seq(Nat)
    BY EncodeHeaderFieldValue
  <1>4. ASSUME NEW fields \in Seq(Fields), NEW f \in Fields
        PROVE  /\ Parts(fields) \in Seq(Seq(Nat))
               /\ Parts(Append(fields, f)) = Append(Parts(fields), RefField(f))
    <2> DEFINE T == Seq(Nat)
               t == Append(fields, f)
               n == Len(fields)
    <2>1. n \in Nat /\ \A i \in 1..n : RefField(fields[i]) \in T
      BY <1>3
    <2>2. Len(t) = n + 1 /\ t[n + 1] = f /\ \A i \in 1..n : t[i] = fields[i]
      OBVIOUS
    <2> HIDE DEF T, t, n
    <2>3. Parts(fields) \in Seq(T) /\ Len(Parts(fields)) = n
      BY <2>1 DEF n
    <2>4. Parts(t) = Append(Parts(fields), RefField(f))
      <3> DEFINE p == Parts(fields)
      <3>1. p \in Seq(T) /\ Len(p) = n /\ \A i \in 1..n : p[i] = RefField(fields[i])
        BY <2>3 DEF n
      <3> HIDE DEF p
      <3> DEFINE x == RefField(f)
                 q == Append(p, x)
                 u == [i \in 1..(n + 1) |-> RefField(t[i])]
      <3>2. x \in T
        BY <1>3 DEF T
      <3>3. u[n + 1] = x /\ \A i \in 1..n : u[i] = p[i]
        BY <2>1, <2>2, <3>1
      <3> HIDE DEF x
      <3>4. q \in [1..(n + 1) -> T] /\ q[n + 1] = x /\ \A i \in 1..n : q[i] = p[i]
        <4>1. q \in Seq(T) /\ Len(q) = n + 1
          BY <2>1, <3>1, <3>2
        <4>2. q[n + 1] = x /\ \A i \in 1..n : q[i] = p[i]
          BY <2>1, <3>1, <3>2
        <4> HIDE DEF q
        <4>3. q \in [1..Len(q) -> T]
          BY <4>1
        <4> QED
          BY <4>1, <4>2, <4>3
      <3>5. \A i \in 1..(n + 1) : i = n + 1 \/ i \in 1..n
        BY <2>1
      <3> HIDE DEF q
      <3>6. \A i \in 1..(n + 1) : q[i] = u[i]
        <4> HIDE DEF u
        <4> QED
          BY <3>3, <3>4, <3>5
      <3>7. q = u
        <4> DEFINE N == 1..(n + 1)
        <4>1. q = [i \in N |-> q[i]]
          BY <3>4
        <4> QED
          BY <3>6, <4>1
      <3> QED
        BY <2>2, <3>7 DEF p, q, u, x
    <2> QED
      BY <2>3, <2>4 DEF T, t
  <1> HIDE DEF Parts
  <1>5. ASSUME NEW fields \in Seq(Fields), NEW f \in Fields
        PROVE  RefBlock(Append(fields, f)) = RefBlock(fields) \o RefField(f)
    BY <1>1, <1>3, <1>4, FlattenAppend
  <1> QED
    BY <1>2, <1>5

-----------------------------------------------------------------------------
(* The server's blocks.                                                    *)

(* What is written and what is still counted for make up the buffer. *)
SizeInv ==
    writer = "server" =>
        /\ todo \in Seq(Fields)
        /\ block \in Seq(Nat)
        /\ Len(block) + EncodeHeaderFieldsLen(todo) = outLen

(* encodeHeaderFields marks every field as never to be indexed. *)
Marked(f) == [f EXCEPT !.sensitive = TRUE]
Written == Len(meant) - Len(todo)

(* What is written is the block of the fields that are done, and what is   *)
(* left to do are the others.                                              *)
BlockInv ==
    writer = "server" =>
        /\ todo \in Seq(Fields)
        /\ meant \in Seq(Fields)
        /\ Written \in Nat
        /\ \A i \in 1..Len(todo) : meant[Written + i] = Marked(todo[i])
        /\ reading => todo = <<>>
        /\ block = RefBlock(SubSeq(meant, 1, Written))

(* Every step but ServerEncodes leaves the server's writing as it is. *)
LEMMA OtherSteps ==
    ASSUME [Next]_vars, ~ServerEncodes, writer' = "server"
    PROVE  /\ writer = "server"
           /\ UNCHANGED <<todo, meant, outLen, block>>
           /\ reading' => reading \/ todo = <<>>
  <1>1. CASE PeerEncodes
    BY <1>1 DEF PeerEncodes
  <1>2. CASE Deliver
    BY <1>2 DEF Deliver
  <1>3. CASE Decode
    BY <1>3 DEF Decode
  <1>4. CASE UNCHANGED vars
    BY <1>4 DEF vars
  <1> QED
    BY <1>1, <1>2, <1>3, <1>4 DEF Next

(* The buffer is allocated for all the fields, *)
LEMMA SizeInvInit ==
    ASSUME Init
    PROVE  SizeInv
  <1> SUFFICES ASSUME writer = "server"
               PROVE  /\ todo \in Seq(Fields)
                      /\ block \in Seq(Nat)
                      /\ Len(block) + EncodeHeaderFieldsLen(todo) = outLen
    BY DEF SizeInv
  <1>1. todo \in FieldLists /\ outLen = EncodeHeaderFieldsLen(todo) /\ block = <<>>
    BY DEF Init
  <1>2. todo \in Seq(Fields)
    BY <1>1, FieldListsAssumption
  <1>3. EncodeHeaderFieldsLen(todo) \in Nat
    BY <1>2, FieldsLenSteps
  <1>4. <<>> \in Seq(Nat) /\ Len(<<>>) = 0 /\ \A n \in Nat : 0 + n = n
    OBVIOUS
  <1> QED
    BY <1>1, <1>2, <1>3, <1>4

(* and each field written takes what was counted for it. *)
LEMMA SizeInvNext ==
    ASSUME SizeInv, [Next]_vars
    PROVE  SizeInv'
  <1>1. CASE ServerEncodes
    <2> SUFFICES ASSUME writer' = "server"
                 PROVE  /\ todo' \in Seq(Fields)
                        /\ block' \in Seq(Nat)
                        /\ Len(block') + EncodeHeaderFieldsLen(todo') = outLen'
      BY DEF SizeInv
    <2> DEFINE f == Head(todo)
               bytes == EncodeHeaderField(f)
    <2>1. /\ todo # <<>> /\ block' = block \o bytes /\ todo' = Tail(todo)
          /\ outLen' = outLen /\ writer = "server"
      BY <1>1 DEF ServerEncodes
    <2>2. /\ todo \in Seq(Fields) /\ block \in Seq(Nat)
          /\ Len(block) + EncodeHeaderFieldsLen(todo) = outLen
      BY <2>1 DEF SizeInv
    <2>3. f \in Fields /\ Tail(todo) \in Seq(Fields)
      BY <2>1, <2>2
    <2>4. bytes \in Seq(Nat) /\ Len(bytes) = FieldLen(f) /\ FieldLen(f) \in Nat
      BY <2>3, EncodeHeaderFieldValue, FieldLenType
    <2>5. EncodeHeaderFieldsLen(todo) = FieldLen(f) + EncodeHeaderFieldsLen(Tail(todo))
      BY <2>1, <2>2, FieldsLenSteps
    <2>6. EncodeHeaderFieldsLen(Tail(todo)) \in Nat
      BY <2>3, FieldsLenSteps
    <2>7. \A x, y \in Seq(Nat) : x \o y \in Seq(Nat) /\ Len(x \o y) = Len(x) + Len(y)
      OBVIOUS
    <2> HIDE DEF f, bytes
    <2>8. block \o bytes \in Seq(Nat) /\ Len(block \o bytes) = Len(block) + FieldLen(f)
      BY <2>2, <2>4, <2>7, Zenon
    <2>9. \A l, m, n \in Nat : (l + m) + n = l + (m + n)
      OBVIOUS
    <2>10. Len(block) \in Nat
      BY <2>2
    <2>11. Len(block') + EncodeHeaderFieldsLen(todo') = outLen'
      <3> DEFINE p == EncodeHeaderFieldsLen(Tail(todo))
      <3>1. Len(block') + EncodeHeaderFieldsLen(todo') = (Len(block) + FieldLen(f)) + p
        BY <2>1, <2>8
      <3>2. (Len(block) + FieldLen(f)) + p = Len(block) + (FieldLen(f) + p)
        BY <2>4, <2>6, <2>9, <2>10
      <3>3. Len(block) + (FieldLen(f) + p) = outLen'
        BY <2>1, <2>2, <2>5
      <3> QED
        BY <3>1, <3>2, <3>3
    <2> QED
      BY <2>1, <2>3, <2>8, <2>11
  <1>2. CASE ~ServerEncodes
    <2> SUFFICES ASSUME writer' = "server"
                 PROVE  /\ todo' \in Seq(Fields)
                        /\ block' \in Seq(Nat)
                        /\ Len(block') + EncodeHeaderFieldsLen(todo') = outLen'
      BY DEF SizeInv
    <2> QED
      BY <1>2, OtherSteps DEF SizeInv
  <1> QED
    BY <1>1, <1>2

(* The buffer is never too small for the server's block, and full in the   *)
(* end: encodeHeaderFields never writes past what it allocated.            *)
THEOREM BufferFits == Spec => []FitsBuffer
  <1>1. Init => SizeInv
    BY SizeInvInit
  <1>2. SizeInv /\ [Next]_vars => SizeInv'
    BY SizeInvNext
  <1>3. SizeInv => FitsBuffer
    <2> SUFFICES ASSUME SizeInv, writer = "server"
                 PROVE  Len(block) <= outLen /\ (todo = <<>> => Len(block) = outLen)
      BY DEF FitsBuffer
    <2>1. /\ todo \in Seq(Fields) /\ block \in Seq(Nat)
          /\ Len(block) + EncodeHeaderFieldsLen(todo) = outLen
      BY DEF SizeInv
    <2>2. Len(block) \in Nat /\ EncodeHeaderFieldsLen(todo) \in Nat
      BY <2>1, FieldsLenSteps
    <2>3. todo = <<>> => EncodeHeaderFieldsLen(todo) = 0
      BY FieldsLenSteps
    <2> QED
      BY <2>1, <2>2, <2>3
  <1> QED
    BY <1>1, <1>2, <1>3, PTL DEF Spec

(* At first nothing is written, *)
LEMMA BlockInvInit ==
    ASSUME Init
    PROVE  BlockInv
  <1> SUFFICES ASSUME writer = "server" PROVE BlockInv
    BY DEF BlockInv
  <1>1. /\ todo \in FieldLists /\ block = <<>> /\ reading = FALSE
        /\ meant = [i \in 1..Len(todo) |-> Marked(todo[i])]
    BY DEF Init, Marked
  <1>2. todo \in Seq(Fields)
    BY <1>1, FieldListsAssumption
  <1>3. \A f \in Fields : Marked(f) \in Fields
    BY DEF Fields, Marked
  <1>4. /\ Len(todo) \in Nat /\ meant \in Seq(Fields) /\ Len(meant) = Len(todo)
        /\ \A i \in 1..Len(todo) : meant[i] = Marked(todo[i])
    <2>1. Len(todo) \in Nat /\ \A i \in 1..Len(todo) : Marked(todo[i]) \in Fields
      BY <1>2, <1>3
    <2> QED
      BY <1>1, <2>1
  <1>5. Written = 0
    BY <1>4 DEF Written
  <1>6. SubSeq(meant, 1, 0) = <<>>
    BY <1>4
  <1>7. block = RefBlock(SubSeq(meant, 1, Written))
    BY <1>1, <1>5, <1>6, RefBlockGrows
  <1>8. \A i \in 1..Len(todo) : meant[0 + i] = Marked(todo[i])
    BY <1>4
  <1> QED
    BY <1>1, <1>2, <1>4, <1>5, <1>7, <1>8 DEF BlockInv

(* then each field comes behind those written. *)
LEMMA BlockInvNext ==
    ASSUME BlockInv, [Next]_vars
    PROVE  BlockInv'
  <1>1. CASE ServerEncodes
    <2> SUFFICES ASSUME writer' = "server" PROVE BlockInv'
      BY DEF BlockInv
    <2> DEFINE f == Head(todo)
               k == Len(meant) - Len(todo)
    <2>1. /\ todo # <<>> /\ block' = block \o EncodeHeaderField(f) /\ todo' = Tail(todo)
          /\ meant' = meant /\ reading' = reading /\ writer = "server"
      BY <1>1 DEF ServerEncodes
    <2>2. /\ todo \in Seq(Fields) /\ meant \in Seq(Fields) /\ k \in Nat
          /\ \A i \in 1..Len(todo) : meant[k + i] = Marked(todo[i])
          /\ reading => todo = <<>>
          /\ block = RefBlock(SubSeq(meant, 1, k))
      BY <2>1 DEF BlockInv, Written
    <2>3. /\ f \in Fields /\ f = todo[1] /\ Tail(todo) \in Seq(Fields)
          /\ Len(todo) \in Nat /\ Len(todo) >= 1 /\ Len(Tail(todo)) = Len(todo) - 1
          /\ Len(meant) \in Nat
          /\ \A i \in 1..(Len(todo) - 1) : Tail(todo)[i] = todo[i + 1]
      BY <2>1, <2>2
    <2>4. EncodeHeaderField(f) = RefField(f)
      BY <2>3, EncodeHeaderFieldValue
    <2>5. meant[k + 1] = Marked(f)
      <3>1. 1 \in 1..Len(todo)
        BY <2>3
      <3> QED
        BY <2>2, <2>3, <3>1
    <2>6. RefField(Marked(f)) = RefField(f)
      <3>1. Marked(f).name = f.name /\ Marked(f).value = f.value
        BY <2>3 DEF Marked, Fields
      <3> QED
        BY <3>1 DEF RefField
    <2>7. k + 1 = (Len(meant) - Len(Tail(todo))) /\ k + 1 \in 1..Len(meant)
      BY <2>2, <2>3
    <2> HIDE DEF f, k
    <2>8. /\ SubSeq(meant, 1, k) \in Seq(Fields)
          /\ meant[k + 1] \in Fields
          /\ SubSeq(meant, 1, k + 1) = Append(SubSeq(meant, 1, k), meant[k + 1])
      <3> DEFINE S == Fields
      <3>1. /\ meant \in Seq(S) /\ k \in Nat /\ k + 1 \in 1..Len(meant)
        BY <2>2, <2>7
      <3> HIDE DEF S
      <3>2. ASSUME NEW m \in Seq(S), NEW j \in Nat, j + 1 \in 1..Len(m)
            PROVE  /\ SubSeq(m, 1, j) \in Seq(S) /\ m[j + 1] \in S
                   /\ SubSeq(m, 1, j + 1) = Append(SubSeq(m, 1, j), m[j + 1])
        BY <3>2
      <3> QED
        BY <3>1, <3>2 DEF S
    <2>9. RefBlock(SubSeq(meant, 1, k + 1)) = RefBlock(SubSeq(meant, 1, k)) \o RefField(f)
      <3>1. RefBlock(Append(SubSeq(meant, 1, k), meant[k + 1])) =
              RefBlock(SubSeq(meant, 1, k)) \o RefField(meant[k + 1])
        BY <2>8, RefBlockGrows
      <3> QED
        BY <2>5, <2>6, <2>8, <3>1
    <2>10. Written' = k + 1
      BY <2>1, <2>7 DEF Written
    <2>11. \A i \in 1..Len(todo') : meant[(k + 1) + i] = Marked(todo'[i])
      <3> SUFFICES ASSUME NEW i \in 1..(Len(todo) - 1)
                   PROVE  meant[(k + 1) + i] = Marked(Tail(todo)[i])
        BY <2>1, <2>3
      <3>1. i + 1 \in 1..Len(todo) /\ k + (i + 1) = (k + 1) + i
        BY <2>2, <2>3
      <3>2. meant[k + (i + 1)] = Marked(todo[i + 1])
        BY <2>2, <3>1
      <3> QED
        BY <2>3, <3>1, <3>2
    <2>12. block' = RefBlock(SubSeq(meant, 1, k + 1))
      BY <2>1, <2>2, <2>4, <2>9
    <2>13. ~reading /\ k + 1 \in Nat
      BY <2>1, <2>2
    <2> QED
      BY <2>1, <2>2, <2>3, <2>10, <2>11, <2>12, <2>13 DEF BlockInv
  <1>2. CASE ~ServerEncodes
    <2> SUFFICES ASSUME writer' = "server" PROVE BlockInv'
      BY DEF BlockInv
    <2>1. /\ writer = "server" /\ todo' = todo /\ meant' = meant /\ block' = block
          /\ reading' => reading \/ todo = <<>>
      BY <1>2, OtherSteps
    <2>2. Written' = Written
      BY <2>1 DEF Written
    <2> QED
      BY <2>1, <2>2 DEF BlockInv
  <1> QED
    BY <1>1, <1>2

(* For every list of fields, of whatever bytes, what encodeHeaderFields    *)
(* writes is the header block of RFC 7541.                                 *)
THEOREM BlocksAreRead == Spec => []PeerReads
  <1>1. Init => BlockInv
    BY BlockInvInit
  <1>2. BlockInv /\ [Next]_vars => BlockInv'
    BY BlockInvNext
  <1>3. BlockInv => PeerReads
    <2> SUFFICES ASSUME BlockInv, writer = "server", reading
                 PROVE  block = RefBlock(meant)
      BY DEF PeerReads
    <2>1. /\ todo = <<>> /\ meant \in Seq(Fields)
          /\ block = RefBlock(SubSeq(meant, 1, Len(meant) - Len(todo)))
      BY DEF BlockInv, Written
    <2>2. SubSeq(meant, 1, Len(meant) - Len(todo)) = meant
      BY <2>1
    <2> QED
      BY <2>1, <2>2
  <1> QED
    BY <1>1, <1>2, <1>3, PTL DEF Spec
=============================================================================
