------------------------ MODULE HeaderDecodingProofs ------------------------
(***************************************************************************)
(* What decodeHeaderFields finds in a block are the fields it stands for,  *)
(* in order and nothing else, whether the server wrote the block or a peer *)
(* that keeps to RFC 7541.  A block is a sequence of items, each of which  *)
(* the decoder understands whatever follows it.                            *)
(***************************************************************************)
EXTENDS HeaderBlocksProofs

-----------------------------------------------------------------------------
(* readVarInt.                                                             *)

(* A sequence is taken apart where it was put together. *)
LEMMA ConcatSplit ==
    ASSUME NEW B, NEW s \in Seq(B), NEW t \in Seq(B)
    PROVE  /\ SubSeq(s \o t, 1, Len(s)) = s
           /\ SubSeq(s \o t, Len(s) + 1, Len(s \o t)) = t
  <1> DEFINE c == s \o t
             n == Len(s)
             m == Len(t)
  <1>1. /\ n \in Nat /\ m \in Nat /\ c \in Seq(B) /\ Len(c) = n + m
        /\ \A i \in 1..n : c[i] = s[i]
        /\ \A i \in (n + 1)..(n + m) : c[i] = t[i - n]
    BY ConcatParts
  <1>2. s = [i \in 1..n |-> s[i]] /\ t = [i \in 1..m |-> t[i]]
    OBVIOUS
  <1> HIDE DEF c, n, m
  <1>3. SubSeq(c, 1, n) = [i \in 1..n |-> c[i]]
    BY <1>1
  <1>4. SubSeq(c, n + 1, n + m) = [i \in 1..m |-> c[n + i]]
    BY <1>1
  <1>5. \A i \in 1..m : n + i \in (n + 1)..(n + m) /\ (n + i) - n = i
    BY <1>1
  <1>6. \A i \in 1..m : c[n + i] = t[i]
    BY <1>1, <1>5
  <1>7. SubSeq(c, 1, n) = s
    BY <1>1, <1>2, <1>3
  <1>8. SubSeq(c, n + 1, n + m) = t
    BY <1>2, <1>4, <1>6
  <1> QED
    BY <1>1, <1>7, <1>8 DEF c, n

(* An integer in the bits after the flags. *)
LEMMA ReadVarIntShort ==
    ASSUME NEW n \in 1..8, NEW given, given # <<>>, NEW k \in Nat, 2^n - 1 = k,
           NEW i \in Nat, given[1] % 2^n = i, i < k
    PROVE  ReadVarInt(n, given) = Ok(i, Tail(given))
  <1>1. ~(n \notin 1..8) /\ ~(i = k) /\ ~(n \in 1..8 /\ given = <<>>)
        /\ ~(given[1] % 2^n = k /\ LastBytes(given) \cap 2..10 = {})
    <2>1. ~(i = k)
      OBVIOUS
    <2> QED
      BY <2>1
  <1> QED
    BY <1>1, Zenon DEF ReadVarInt

(* The digit of seven bits in a byte of a longer integer. *)
DigitAt(given, i) == (given[i] % 128) * 2^(7 * (i - 2))

(* An integer of several bytes, up to the first without a continuation     *)
(* bit.                                                                    *)
LEMMA ReadVarIntLong ==
    ASSUME NEW n \in 1..8, NEW given, given # <<>>, NEW k \in Nat, 2^n - 1 = k, given[1] % 2^n = k,
           NEW last \in LastBytes(given) \cap 2..10, \A j \in LastBytes(given) : last <= j,
           LastBytes(given) \subseteq Int
    PROVE  ReadVarInt(n, given) =
              Ok(Adding!Fold(k, [j \in 1..(last - 1) |-> DigitAt(given, j + 1)]),
                 SubSeq(given, last + 1, Len(given)))
  <1> DEFINE L == CHOOSE i \in LastBytes(given) : \A j \in LastBytes(given) : i <= j
             Sum(l) == FoldLeft(LAMBDA sum, digit : sum + digit, k,
                                [j \in 1..(l - 1) |-> DigitAt(given, j + 1)])
  <1>1. ~(n \notin 1..8) /\ ~(given[1] % 2^n < k) /\ LastBytes(given) \cap 2..10 # {}
    <2>1. ~(given[1] % 2^n < k)
      <3>1. \A x \in Nat : ~(x < x)
        OBVIOUS
      <3> QED
        BY <3>1
    <2> QED
      BY <2>1, Zenon
  <1>2. L = last
    <2>1. L \in LastBytes(given) /\ \A j \in LastBytes(given) : L <= j
      BY Zenon
    <2>2. L \in Int /\ last \in Int /\ L <= last /\ last <= L
      BY <2>1
    <2> HIDE DEF L
    <2> QED
      BY <2>2
  <1>3. ReadVarInt(n, given) = Ok(Sum(L), SubSeq(given, L + 1, Len(given)))
    <2>1. \A i : DigitAt(given, i) = (given[i] % 128) * 2^(7 * (i - 2))
      BY Zenon DEF DigitAt
    <2> QED
      BY <1>1, Zenon DEF ReadVarInt, DigitAt
  <1>4. \A s : FoldLeft(LAMBDA sum, digit : sum + digit, k, s) = Adding!Fold(k, s)
    BY DEF Adding!Fold, Plus, Adding!FoldLeft, FoldLeft,
           Adding!MapThenFoldSet, MapThenFoldSet, Adding!Max, Max
  <1>5. Sum(last) = Adding!Fold(k, [j \in 1..(last - 1) |-> DigitAt(given, j + 1)])
    BY <1>4, Zenon
  <1> HIDE DEF L, Sum
  <1> QED
    BY <1>2, <1>3, <1>5, Zenon

(* The weight of each digit. *)
LEMMA DigitWeights ==
    \A d \in 0..4 : 2^(7 * d) = Grouping(d)
  <1>1. /\ 2^0 = 1 /\ 2^7 = 128 /\ 2^14 = 128 * 128 /\ 2^21 = 128 * (128 * 128)
        /\ 2^28 = 128 * (128 * (128 * 128))
    OBVIOUS
  <1>2. /\ Grouping(0) = 1 /\ Grouping(1) = 128 /\ Grouping(2) = 128 * 128
        /\ Grouping(3) = 128 * (128 * 128) /\ Grouping(4) = 128 * (128 * (128 * 128))
    <2>1. /\ Grouping(1 + 1) = 128 * Grouping(1) /\ Grouping(2 + 1) = 128 * Grouping(2)
          /\ Grouping(3 + 1) = 128 * Grouping(3)
      BY Groupings
    <2>2. 1 + 1 = 2 /\ 2 + 1 = 3 /\ 3 + 1 = 4
      OBVIOUS
    <2> QED
      BY <2>1, <2>2, Groupings, ZenonT(60)
  <1>3. /\ 7 * 0 = 0 /\ 7 * 1 = 7 /\ 7 * 2 = 14 /\ 7 * 3 = 21 /\ 7 * 4 = 28
        /\ \A d \in 0..4 : d = 0 \/ d = 1 \/ d = 2 \/ d = 3 \/ d = 4
    OBVIOUS
  <1>4. /\ 2^(7 * 0) = Grouping(0) /\ 2^(7 * 1) = Grouping(1) /\ 2^(7 * 2) = Grouping(2)
        /\ 2^(7 * 3) = Grouping(3) /\ 2^(7 * 4) = Grouping(4)
    BY <1>1, <1>2, <1>3, Zenon
  <1>5. ASSUME NEW d \in 0..4 PROVE 2^(7 * d) = Grouping(d)
    BY <1>3, <1>4, Zenon
  <1> QED
    BY <1>5

(* An integer is the sum of its digits: after i of them, what is left are  *)
(* its multiples of the next weight.                                       *)
LEMMA DigitSum ==
    ASSUME NEW x \in Nat, NEW k \in Nat, NEW D \in 1..5, HasGroups(x, D),
           NEW s, s = [d \in 1..D |-> ((x \div Grouping(d - 1)) % 128) * Grouping(d - 1)]
    PROVE  Adding!Fold(k, s) = k + x
  <1> DEFINE Q(d) == x \div Grouping(d)
             P(d) == x - Grouping(d) * Q(d)
  <1>1. ASSUME NEW d \in 0..5 PROVE Grouping(d) \in Nat \ {0} /\ Q(d) \in Nat
    <2>1. Grouping(d) \in Nat \ {0}
      BY Groupings
    <2>2. \A g \in Nat \ {0} : x \div g \in Nat
      OBVIOUS
    <2> QED
      BY <2>1, <2>2
  <1>2. ASSUME NEW d \in 1..D
        PROVE  /\ P(d) = P(d - 1) + s[d] /\ s[d] \in Nat
    <2> DEFINE g == Grouping(d - 1)
               a == Q(d - 1)
               b == Q(d)
               t == a % 128
    <2>1. g \in Nat \ {0} /\ a \in Nat /\ b \in Nat
      <3>1. d - 1 \in 0..5 /\ d \in 0..5
        OBVIOUS
      <3> QED
        BY <1>1, <3>1
    <2>2. Grouping(d) = 128 * g
      <3>1. d - 1 \in 0..4 /\ (d - 1) + 1 = d
        OBVIOUS
      <3>2. Grouping((d - 1) + 1) = 128 * Grouping(d - 1)
        BY <3>1, Groupings
      <3> QED
        BY <3>1, <3>2
    <2>3. b = a \div 128
      <3>2. (x \div g) \div 128 = x \div (g * 128)
        <4> DEFINE c == 128
        <4>1. g \in Nat \ {0} /\ c \in Nat \ {0}
          BY <2>1
        <4> HIDE DEF g, c
        <4>2. (x \div g) \div c = x \div (g * c)
          BY <4>1, DivDiv, Zenon
        <4> QED
          BY <4>2 DEF c
      <3>3. g * 128 = 128 * g
        <4> HIDE DEF g
        <4> QED
          BY <2>1
      <3> QED
        BY <2>2, <3>2, <3>3
    <2>4. s[d] = t * g
      OBVIOUS
    <2> DEFINE G == Grouping(d)
               p == P(d)
               q == P(d - 1)
    <2>5. p = x - G * b /\ q = x - g * a /\ G = 128 * g
      BY <2>2
    <2> HIDE DEF g, a, b, G, p, q
    <2>6. a = 128 * b + t /\ t \in Nat
      BY <2>1, <2>3
    <2> HIDE DEF t
    <2>7. p = q + t * g /\ t * g \in Nat
      <3>1. g * a = (128 * g) * b + t * g
        BY <2>1, <2>6
      <3>2. t * g \in Nat /\ g * a \in Nat /\ (128 * g) * b \in Nat
        BY <2>1, <2>6
      <3> QED
        BY <2>5, <3>1, <3>2, SMTT(60)
    <2> QED
      BY <2>4, <2>7 DEF p, q
  <1>3. s \in Seq(Nat) /\ Len(s) = D
    <2>1. \A d \in 1..D : s[d] \in Nat
      BY <1>2
    <2>2. s = [d \in 1..D |-> s[d]]
      OBVIOUS
    <2> QED
      BY <2>1, <2>2
  <1>4. Adding!Closed
    BY DEF Adding!Closed, Plus
  <1>5. PICK w : Adding!IsWalk(w, k, s) /\ w[D] = Adding!Fold(k, s)
    BY <1>3, <1>4, Adding!FoldWalk
  <1>6. w[0] = k /\ \A d \in 1..D : w[d] = w[d - 1] + s[d]
    BY <1>3, <1>5 DEF Adding!IsWalk, Plus
  <1>7. P(0) = 0
    <2>1. x - 1 * (x \div 1) = 0
      OBVIOUS
    <2>2. Grouping(0) = 1
      BY Groupings
    <2> QED
      BY <2>1, <2>2, Zenon
  <1>8. P(D) = x
    <2>1. x < Grouping(D) /\ Grouping(D) \in Nat \ {0}
      <3>1. x < Grouping(D)
        BY Zenon DEF HasGroups
      <3>2. D \in 0..5
        OBVIOUS
      <3>3. Grouping(D) \in Nat \ {0}
        BY <3>2, Groupings, Zenon
      <3> QED
        BY <3>1, <3>3, Zenon
    <2>2. \A g \in Nat \ {0} : x < g => x \div g = 0
      OBVIOUS
    <2>3. Q(D) = 0
      BY <2>1, <2>2
    <2>4. Grouping(D) * 0 = 0
      BY <2>1
    <2> QED
      BY <2>3, <2>4
  <1>9. ASSUME NEW d \in 0..D PROVE P(d) \in Int
    <2>1. d \in 0..5
      OBVIOUS
    <2>2. Grouping(d) \in Nat /\ Q(d) \in Nat
      BY <1>1, <2>1
    <2>3. \A g, q \in Nat : x - g * q \in Int
      OBVIOUS
    <2> QED
      BY <2>2, <2>3
  <1> HIDE DEF P
  <1> DEFINE S == {d \in Nat : d <= D => w[d] = k + P(d)}
  <1>10. 0 \in S
    BY <1>6, <1>7
  <1>11. ASSUME NEW d \in Nat, d \in S PROVE d + 1 \in S
    <2> SUFFICES ASSUME d + 1 <= D PROVE w[d + 1] = k + P(d + 1)
      OBVIOUS
    <2>1. d \in 0..D /\ d + 1 \in 1..D /\ (d + 1) - 1 = d
      OBVIOUS
    <2>2. w[d] = k + P(d)
      BY <1>11, <2>1
    <2>3. w[d + 1] = w[d] + s[d + 1] /\ P(d + 1) = P(d) + s[d + 1] /\ s[d + 1] \in Nat /\ P(d) \in Int
      BY <1>2, <1>6, <1>9, <2>1
    <2> QED
      BY <2>2, <2>3
  <1> HIDE DEF S
  <1>12. D \in S
    BY <1>10, <1>11, Adding!NatSetInduction
  <1> QED
    BY <1>5, <1>8, <1>12 DEF S

(* The groups are read as the integer they were made of. *)
GroupsRead(n, k, top, x, D, tail) ==
    /\ Groups(x, D) \in Seq(Nat)
    /\ ReadVarInt(n, (<<top>> \o Groups(x, D)) \o tail) = Ok(k + x, tail)

(* The sum of the digits is the integer, and the tail is left. *)
LEMMA ReadGroups ==
    ASSUME NEW n \in 1..8, NEW k \in Nat, 2^n - 1 = k, NEW top \in Nat, top % 2^n = k,
           NEW x \in Nat, NEW D \in 1..5, HasGroups(x, D), NEW tail \in Seq(Nat)
    PROVE  GroupsRead(n, k, top, x, D, tail)
  <1> DEFINE g == Groups(x, D)
             given == (<<top>> \o g) \o tail
             digit(d) == (x \div Grouping(d - 1)) % 128
  <1>1. ASSUME NEW d \in 1..D
        PROVE  /\ digit(d) \in 0..127 /\ Grouping(d - 1) \in Nat \ {0}
               /\ g[d] = (IF d < D THEN 128 ELSE 0) + digit(d) /\ g[d] \in Nat
               /\ g[d] % 128 = digit(d) /\ (g[d] < 128 <=> d = D)
    <2>1. Grouping(d - 1) \in Nat \ {0}
      <3>1. d - 1 \in 0..5
        OBVIOUS
      <3> QED
        BY <3>1, Groupings
    <2>2. digit(d) \in 0..127
      <3>1. \A h \in Nat \ {0} : (x \div h) % 128 \in 0..127
        OBVIOUS
      <3> QED
        BY <2>1, <3>1
    <2>3. g[d] = (IF d < D THEN 128 ELSE 0) + digit(d)
      BY DEF Groups
    <2> HIDE DEF digit, g
    <2>4. \A y \in 0..127 : (128 + y) % 128 = y /\ (0 + y) % 128 = y
      OBVIOUS
    <2>5. g[d] % 128 = digit(d)
      BY <2>2, <2>3, <2>4, ZenonT(60)
    <2>a. \A y \in 0..127 : 128 + y \in Nat /\ 0 + y \in Nat /\ ~(128 + y < 128) /\ 0 + y < 128
      OBVIOUS
    <2>b. (d < D /\ d # D) \/ (~(d < D) /\ d = D)
      OBVIOUS
    <2>6. g[d] < 128 <=> d = D
      BY <2>2, <2>3, <2>a, <2>b, Zenon
    <2>7. g[d] \in Nat
      BY <2>2, <2>3, <2>a, <2>b, Zenon
    <2> QED
      BY <2>1, <2>2, <2>3, <2>5, <2>6, <2>7
  <1>2. g \in Seq(Nat) /\ Len(g) = D
    <2>1. g = [d \in 1..D |-> g[d]]
      BY DEF Groups
    <2>2. \A d \in 1..D : g[d] \in Nat
      BY <1>1
    <2> HIDE DEF g
    <2>3. g \in [1..D -> Nat]
      BY <2>1, <2>2, Zenon
    <2> QED
      BY <2>3
  <1> HIDE DEF g, digit
  <1>3. /\ given \in Seq(Nat) /\ Len(given) = 1 + D + Len(tail) /\ Len(tail) \in Nat
        /\ given[1] = top /\ \A d \in 1..D : given[d + 1] = g[d]
        /\ SubSeq(given, (D + 1) + 1, Len(given)) = tail
    <2> DEFINE h == <<top>> \o g
    <2>1. h \in Seq(Nat) /\ Len(h) = 1 + D /\ h[1] = top /\ \A d \in 1..D : h[d + 1] = g[d]
      BY <1>2
    <2> HIDE DEF h
    <2>2. /\ given = h \o tail
      BY DEF h
    <2>3. /\ h \o tail \in Seq(Nat) /\ Len(h \o tail) = Len(h) + Len(tail)
          /\ \A i \in 1..Len(h) : (h \o tail)[i] = h[i]
          /\ Len(tail) \in Nat
      BY <2>1, SMTT(60)
    <2>4. SubSeq(h \o tail, Len(h) + 1, Len(h \o tail)) = tail
      BY <2>1, ConcatSplit
    <2>5. 1 \in 1..(1 + D) /\ \A d \in 1..D : d + 1 \in 1..(1 + D)
      OBVIOUS
    <2>6. (1 + D) + 1 = (D + 1) + 1
      OBVIOUS
    <2> HIDE DEF given
    <2> QED
      BY <2>1, <2>2, <2>3, <2>4, <2>5, <2>6
  <1> HIDE DEF given
  <1>4. D + 1 \in LastBytes(given) \cap 2..10
    <2>1. D + 1 \in 2..10 /\ D + 1 \in 2..Len(given) /\ D \in 1..D
      BY <1>3
    <2>2. given[D + 1] < 128
      BY <1>1, <1>3, <2>1
    <2> QED
      BY <2>1, <2>2 DEF LastBytes
  <1>5. LastBytes(given) \subseteq Int /\ \A j \in LastBytes(given) : D + 1 <= j
    <2>1. ASSUME NEW j \in LastBytes(given) PROVE D + 1 <= j /\ j \in Int
      <3>1. j \in 2..Len(given) /\ given[j] < 128
        BY DEF LastBytes
      <3>2. j \in Int
        BY <1>3, <3>1
      <3>3. CASE j <= D
        <4> DEFINE d == j - 1
        <4>1. d \in 1..D /\ d # D /\ d + 1 = j
          BY <1>3, <3>1, <3>2, <3>3
        <4>2. ~(g[d] < 128)
          BY <1>1, <4>1
        <4> QED
          BY <1>3, <3>1, <4>1, <4>2
      <3> QED
        BY <3>2, <3>3
    <2> QED
      BY <2>1
  <1> DEFINE s == [j \in 1..((D + 1) - 1) |-> DigitAt(given, j + 1)]
  <1>6. ReadVarInt(n, given) = Ok(Adding!Fold(k, s), SubSeq(given, (D + 1) + 1, Len(given)))
    <2>1. given # <<>>
      BY <1>3
    <2> QED
      BY <1>3, <1>4, <1>5, <2>1, ReadVarIntLong
  <1>7. s = [d \in 1..D |-> ((x \div Grouping(d - 1)) % 128) * Grouping(d - 1)]
    <2>1. (D + 1) - 1 = D
      OBVIOUS
    <2>2. ASSUME NEW d \in 1..D
          PROVE  DigitAt(given, d + 1) = ((x \div Grouping(d - 1)) % 128) * Grouping(d - 1)
      <3>1. given[d + 1] % 128 = (x \div Grouping(d - 1)) % 128
        BY <1>1, <1>3, ZenonT(60) DEF digit
      <3>2. (d + 1) - 2 = d - 1 /\ d - 1 \in 0..4
        OBVIOUS
      <3>3. 2^(7 * (d - 1)) = Grouping(d - 1)
        BY <3>2, DigitWeights
      <3> QED
        BY <3>1, <3>2, <3>3, Zenon DEF DigitAt
    <2> QED
      BY <2>1, <2>2
  <1> HIDE DEF s
  <1>8. Adding!Fold(k, s) = k + x
    BY <1>7, DigitSum
  <1> QED
    BY <1>2, <1>3, <1>6, <1>8 DEF given, g, GroupsRead

(* The RFC's integer, with whatever flags before it. *)
IntegerWritten(n, flags, i, k) ==
    /\ i < k => RefInteger(n, flags, i) = <<flags + i>>
    /\ i >= k => \E D \in 1..5 :
                    /\ i - k \in Nat /\ HasGroups(i - k, D)
                    /\ RefInteger(n, flags, i) = <<flags + k>> \o Groups(i - k, D)

(* It is in the first byte or in groups of seven bits after it. *)
LEMMA RefIntegerGroups ==
    ASSUME NEW n \in 4..7, NEW flags \in Nat, NEW i \in Nat, i < Grouping(5),
           NEW k \in Nat, 2^n - 1 = k
    PROVE  IntegerWritten(n, flags, i, k)
  <1> DEFINE over == i - k
             D == CHOOSE d \in 1..5 : HasGroups(over, d)
             m == 2^n
  <1>1. m \in Nat /\ flags + m - 1 = flags + k
    <2>1. n \in 0..30
      OBVIOUS
    <2>2. m \in Nat
      BY <2>1, Doubling
    <2>3. m - 1 = k
      OBVIOUS
    <2> HIDE DEF m
    <2> QED
      BY <2>2, <2>3
  <1>2. RefInteger(n, flags, i) =
          IF over < 0 THEN <<flags + i>> ELSE <<flags + k>> \o Groups(over, D)
    <2> DEFINE Ref(y, top) ==
                 IF i - y < 0 THEN <<flags + i>>
                 ELSE <<top>> \o Groups(i - y, CHOOSE d \in 1..5 : HasGroups(i - y, d))
    <2>1. RefInteger(n, flags, i) = Ref(2^n - 1, flags + 2^n - 1)
      BY DEF RefInteger, HasGroups, Groups, Grouping
    <2>2. Ref(k, flags + k) =
            IF over < 0 THEN <<flags + i>> ELSE <<flags + k>> \o Groups(over, D)
      OBVIOUS
    <2> HIDE DEF Ref
    <2> QED
      BY <1>1, <2>1, <2>2, Zenon
  <1>3. ASSUME i < k PROVE RefInteger(n, flags, i) = <<flags + i>>
    <2>1. over < 0
      BY <1>3
    <2> HIDE DEF over, D
    <2> QED
      BY <1>2, <2>1
  <1>4. ASSUME i >= k
        PROVE  \E d \in 1..5 : /\ i - k \in Nat /\ HasGroups(i - k, d)
                               /\ RefInteger(n, flags, i) = <<flags + k>> \o Groups(i - k, d)
    <2>1. over \in Nat /\ over < Grouping(5) /\ ~(over < 0)
      <3>1. Grouping(5) \in Int
        BY Groupings
      <3> QED
        BY <1>4, <3>1
    <2> HIDE DEF over
    <2>2. D \in 1..5 /\ HasGroups(over, D)
      BY <2>1, GroupsExist
    <2> HIDE DEF D
    <2>3. RefInteger(n, flags, i) = <<flags + k>> \o Groups(over, D)
      BY <1>2, <2>1, Zenon
    <2> QED
      BY <2>1, <2>2, <2>3 DEF over
  <1>5. /\ i < k => RefInteger(n, flags, i) = <<flags + i>>
        /\ i >= k => \E d \in 1..5 :
                        /\ i - k \in Nat /\ HasGroups(i - k, d)
                        /\ RefInteger(n, flags, i) = <<flags + k>> \o Groups(i - k, d)
    BY <1>3, <1>4
  <1> QED
    BY <1>5, Zenon DEF IntegerWritten

(* The bits an integer starts in, the flags that may come before them, and *)
(* what readVarInt finds.                                                  *)
PrefixBits == 4..7
Flags(n) == {flags \in {0, 16, 32, 64, 128} : flags % 2^n = 0}

IntegerRead(n, flags, i, tail) ==
    /\ RefInteger(n, flags, i) \in Seq(Nat)
    /\ RefInteger(n, flags, i) # <<>>
    /\ RefInteger(n, flags, i)[1] \in flags..(flags + 2^n - 1)
    /\ ReadVarInt(n, RefInteger(n, flags, i) \o tail) = Ok(i, tail)

(* For every prefix of 4 to 7 bits, whatever flags come before it and      *)
(* bytes after it, readVarInt finds the integer the RFC wrote and leaves   *)
(* the bytes after it.                                                     *)
THEOREM IntegersAreRead ==
    ASSUME NEW n \in PrefixBits, NEW flags \in Flags(n),
           NEW i \in Nat, i < Grouping(5), NEW tail \in Seq(Nat)
    PROVE  IntegerRead(n, flags, i, tail)
  <1> DEFINE r == RefInteger(n, flags, i)
             k == 2^n - 1
  <1>0. n \in 4..7 /\ flags \in {0, 16, 32, 64, 128} /\ flags % 2^n = 0
    BY DEF PrefixBits, Flags
  <1>1. 2^4 = 16 /\ 2^5 = 32 /\ 2^6 = 64 /\ 2^7 = 128
    OBVIOUS
  <1>2. n = 4 \/ n = 5 \/ n = 6 \/ n = 7
    BY <1>0
  <1> DEFINE m == 2^n
  <1>3. m \in {16, 32, 64, 128}
    <2>1. CASE n = 4
      BY <1>1, <2>1
    <2>2. CASE n = 5
      BY <1>1, <2>2
    <2>3. CASE n = 6
      BY <1>1, <2>3
    <2>4. CASE n = 7
      BY <1>1, <2>4
    <2> QED
      BY <1>2, <2>1, <2>2, <2>3, <2>4
  <1>4. k = m - 1 /\ flags % m = 0 /\ n \in 1..8 /\ n \in 4..7 /\ flags \in Nat
    BY <1>0
  <1> HIDE DEF m, k
  <1>5. k \in Nat
    BY <1>3, <1>4
  <1>6. /\ i < k => r = <<flags + i>>
        /\ i >= k => \E D \in 1..5 :
                        /\ i - k \in Nat /\ HasGroups(i - k, D)
                        /\ r = <<flags + k>> \o Groups(i - k, D)
    <2>1. 2^n - 1 = k
      BY DEF k
    <2> QED
      <3>1. IntegerWritten(n, flags, i, k)
        BY <1>4, <1>5, <2>1, RefIntegerGroups, Zenon
      <3> QED
        BY <3>1, Zenon DEF IntegerWritten, r
  <1>7. \A y \in Nat : y <= k => (flags + y) % m = y /\ flags + y \in Nat
                                 /\ flags + y \in flags..(flags + m - 1)
    BY <1>0, <1>3, <1>4, SMTT(60)
  <1> HIDE DEF r
  <1>8. CASE i < k
    <2>1. r = <<flags + i>> /\ (flags + i) % m = i /\ flags + i \in Nat
          /\ flags + i \in flags..(flags + m - 1)
      BY <1>5, <1>6, <1>7, <1>8
    <2>2. r \in Seq(Nat) /\ r # <<>> /\ r[1] = flags + i
      BY <2>1
    <2>3. r \o tail # <<>> /\ (r \o tail)[1] = flags + i /\ Tail(r \o tail) = tail
      BY <2>1, SMTT(60)
    <2>4. (r \o tail)[1] % 2^n = i /\ 2^n - 1 = k
      <3>1. (r \o tail)[1] % m = i
        BY <2>1, <2>3, Zenon
      <3>2. 2^n - 1 = k
        BY DEF k
      <3> QED
        BY <3>1, <3>2, Zenon DEF m
    <2>5. ReadVarInt(n, r \o tail) = Ok(i, Tail(r \o tail))
      <3> DEFINE got == r \o tail
      <3>1. got # <<>> /\ got[1] % 2^n = i /\ 2^n - 1 = k /\ i < k /\ i \in Nat /\ k \in Nat /\ n \in 1..8
        BY <1>4, <1>5, <1>8, <2>3, <2>4
      <3> HIDE DEF got
      <3>2. ReadVarInt(n, got) = Ok(i, Tail(got))
        BY <3>1, ReadVarIntShort
      <3> QED
        BY <3>2 DEF got
    <2>6. /\ r \in Seq(Nat) /\ r # <<>>
          /\ r[1] \in flags..(flags + 2^n - 1)
          /\ ReadVarInt(n, r \o tail) = Ok(i, tail)
      BY <2>1, <2>2, <2>3, <2>5 DEF m
    <2> QED
      BY <2>6, Zenon DEF IntegerRead, r
  <1>9. CASE i >= k
    <2>1. PICK D \in 1..5 : /\ i - k \in Nat /\ HasGroups(i - k, D)
                            /\ r = <<flags + k>> \o Groups(i - k, D)
      BY <1>6, <1>9
    <2>2. k <= k /\ (flags + k) % m = k /\ flags + k \in Nat /\ flags + k \in flags..(flags + m - 1)
      BY <1>5, <1>7
    <2> DEFINE x == i - k
               g == Groups(x, D)
    <2>3. x \in Nat /\ HasGroups(x, D) /\ r = <<flags + k>> \o g
      BY <2>1
    <2> HIDE DEF x
    <2>4. g \in Seq(Nat) /\ ReadVarInt(n, (<<flags + k>> \o g) \o tail) = Ok(k + x, tail)
      <3> DEFINE top == flags + k
      <3>1. 2^n - 1 = k /\ top % 2^n = k
        BY <2>2 DEF k, m
      <3>2. n \in 1..8 /\ k \in Nat /\ top \in Nat /\ x \in Nat /\ D \in 1..5 /\ HasGroups(x, D)
        BY <1>4, <1>5, <2>2, <2>3
      <3> HIDE DEF top
      <3>3. GroupsRead(n, k, top, x, D, tail)
        BY <3>1, <3>2, ReadGroups, Zenon
      <3> QED
        BY <3>3, Zenon DEF top, GroupsRead
    <2> HIDE DEF g
    <2>5. r \in Seq(Nat) /\ r # <<>> /\ r[1] = flags + k
      BY <2>2, <2>3, <2>4
    <2>6. k + x = i
      BY <1>5 DEF x
    <2>7. /\ r \in Seq(Nat) /\ r # <<>>
          /\ r[1] \in flags..(flags + 2^n - 1)
          /\ ReadVarInt(n, r \o tail) = Ok(i, tail)
      BY <2>2, <2>3, <2>4, <2>5, <2>6 DEF m
    <2> QED
      BY <2>7, Zenon DEF IntegerRead, r
  <1>10. i < k \/ i >= k
    BY <1>5
  <1> QED
    BY <1>8, <1>9, <1>10

-----------------------------------------------------------------------------
(* Strings.                                                                *)

(* It does not matter which sequences are put together first. *)
Associate(s, t, u) == (s \o t) \o u = s \o (t \o u)

(* Each element of either is the same one of s, t or u. *)
LEMMA ConcatAssoc ==
    ASSUME NEW B, NEW s \in Seq(B), NEW t \in Seq(B), NEW u \in Seq(B)
    PROVE  Associate(s, t, u)
  <1> DEFINE a == (s \o t) \o u
             b == s \o (t \o u)
             n == Len(s) + Len(t) + Len(u)
  <1>1. a \in Seq(B) /\ b \in Seq(B) /\ Len(a) = n /\ Len(b) = n /\ n \in Nat
    OBVIOUS
  <1> DEFINE l == Len(s)
             m == Len(t)
             st == s \o t
             tu == t \o u
  <1>5. /\ l \in Nat /\ m \in Nat /\ Len(u) \in Nat /\ n = l + m + Len(u)
        /\ st \in Seq(B) /\ tu \in Seq(B) /\ Len(st) = l + m /\ Len(tu) = m + Len(u)
        /\ \A i \in 1..l : st[i] = s[i]
        /\ \A i \in (l + 1)..(l + m) : st[i] = t[i - l]
        /\ \A i \in 1..m : tu[i] = t[i]
        /\ \A i \in (m + 1)..(m + Len(u)) : tu[i] = u[i - m]
    BY ConcatParts
  <1> HIDE DEF st, tu
  <1>6. /\ \A i \in 1..Len(st) : (st \o u)[i] = st[i]
        /\ \A i \in (Len(st) + 1)..(Len(st) + Len(u)) : (st \o u)[i] = u[i - Len(st)]
    BY <1>5, ConcatParts, SMTT(60)
  <1>7. /\ \A i \in 1..l : (s \o tu)[i] = s[i]
        /\ \A i \in (l + 1)..(l + Len(tu)) : (s \o tu)[i] = tu[i - l]
    BY <1>5, ConcatParts
  <1>2. ASSUME NEW i \in 1..n PROVE a[i] = b[i]
    <2> DEFINE k == Len(u)
    <2>5. l \in Nat /\ m \in Nat /\ k \in Nat /\ n = (l + m) + k
      BY <1>5
    <2>6. i \in 1..n
      OBVIOUS
    <2> HIDE DEF n, l, m, k
    <2>1. a[i] = (st \o u)[i] /\ b[i] = (s \o tu)[i]
      BY DEF st, tu
    <2>2. CASE i <= l
      <3>1. i \in 1..l /\ i \in 1..(l + m)
        BY <2>2, <2>5, <2>6
      <3> QED
        BY <1>5, <1>6, <1>7, <2>1, <3>1
    <2>3. CASE i > l /\ i <= l + m
      <3>1. i \in (l + 1)..(l + m) /\ i \in 1..(l + m) /\ i - l \in 1..m
            /\ i \in (l + 1)..(l + (m + k))
        BY <2>3, <2>5, <2>6
      <3>2. a[i] = t[i - l] /\ b[i] = t[i - l]
        BY <1>5, <1>6, <1>7, <2>1, <3>1 DEF k
      <3> QED
        BY <3>2
    <2>4. CASE i > l + m
      <3>1. i \in ((l + m) + 1)..((l + m) + k) /\ i - l \in (m + 1)..(m + k)
            /\ (i - l) - m = i - (l + m) /\ i \in (l + 1)..(l + (m + k))
        BY <2>4, <2>5, <2>6
      <3>2. a[i] = u[i - (l + m)] /\ b[i] = u[(i - l) - m]
        BY <1>5, <1>6, <1>7, <2>1, <3>1 DEF k
      <3> QED
        BY <3>1, <3>2
    <2>7. i <= l \/ (i > l /\ i <= l + m) \/ i > l + m
      BY <2>5, <2>6
    <2> QED
      BY <2>2, <2>3, <2>4, <2>7
  <1> HIDE DEF a, b, n
  <1>3. a = [i \in 1..Len(a) |-> a[i]] /\ b = [i \in 1..Len(b) |-> b[i]]
    BY <1>1
  <1>4. a = b
    BY <1>1, <1>2, <1>3
  <1> QED
    BY <1>4, Zenon DEF Associate, a, b

(* No byte takes more than thirty bits. *)
LEMMA BitsCounted ==
    \A s \in Seq(Bytes) : Len(RefBits(s)) <= 30 * Len(s)
  <1> DEFINE S == {s \in Seq(Bytes) : Len(RefBits(s)) <= 30 * Len(s)}
  <1>1. <<>> \in S
    BY RefBitsGrow
  <1>2. ASSUME NEW s \in Seq(Bytes), NEW c \in Bytes, s \in S PROVE Append(s, c) \in S
    <2> DEFINE t == RefBits(s)
               u == CodeBits(c)
    <2>1. t \in Seq({0, 1}) /\ u \in Seq({0, 1}) /\ RefBits(Append(s, c)) = t \o u
      BY RefBitsGrow, CodeBitsType
    <2>2. Len(u) = CodeLength(c) /\ CodeLength(c) \in 5..30
      BY CodeBitsType, CodeLengths
    <2> HIDE DEF t, u
    <2>3. Len(t \o u) = Len(t) + Len(u) /\ Len(t) \in Nat
      BY <2>1
    <2>4. Len(t) <= 30 * Len(s)
      BY <1>2 DEF t
    <2> DEFINE n == Len(s)
               m == Len(t)
               l == Len(u)
    <2>5. n \in Nat /\ m \in Nat /\ l \in 5..30 /\ m <= 30 * n
      BY <2>2, <2>3, <2>4
    <2> HIDE DEF n, m, l
    <2>6. m + l <= 30 * (n + 1)
      BY <2>5
    <2>7. Len(Append(s, c)) = n + 1 /\ Append(s, c) \in Seq(Bytes)
      BY DEF n
    <2>8. Len(RefBits(Append(s, c))) = m + l
      BY <2>1, <2>3 DEF m, l
    <2> QED
      BY <2>6, <2>7, <2>8
  <1> HIDE DEF S
  <1>3. \A s \in Seq(Bytes) : s \in S
    BY <1>1, <1>2, SeqInduction
  <1> QED
    BY <1>3 DEF S

(* A string, coded or not, has a length that readVarInt can read, and      *)
(* strncpy copies the whole of it.                                         *)
LEMMA StringLengths ==
    ASSUME NEW s \in Strings
    PROVE  /\ s \in Seq(Bytes) /\ s \in Seq(Nat)
           /\ Len(s) \in Nat /\ Len(s) < Grouping(5)
           /\ RefHuffman(s) \in Seq(Nat)
           /\ Len(RefHuffman(s)) \in Nat /\ Len(RefHuffman(s)) < Grouping(5)
           /\ CString(s) = s
  <1>1. s \in Seq(Bytes) /\ Len(s) < 2^30 /\ \A i \in 1..Len(s) : s[i] # 0
    BY DEF Strings
  <1>2. \A t \in Seq(Bytes) : t \in Seq(Nat)
    <2>1. \A b \in Bytes : b \in Nat
      BY DEF Bytes
    <2> SUFFICES ASSUME NEW t \in Seq(Bytes) PROVE t \in Seq(Nat)
      OBVIOUS
    <2>2. t = [i \in 1..Len(t) |-> t[i]] /\ Len(t) \in Nat /\ \A i \in 1..Len(t) : t[i] \in Nat
      BY <2>1
    <2>3. [i \in 1..Len(t) |-> t[i]] \in Seq(Nat)
      BY <2>2
    <2> QED
      BY <2>2, <2>3
  <1>3. Len(s) \in Nat /\ Len(RefBits(s)) \in Nat /\ Len(RefBits(s)) <= 30 * Len(s)
        /\ RefHuffman(s) \in Seq(Bytes) /\ Len(RefHuffman(s)) = (Len(RefBits(s)) + 7) \div 8
    BY <1>1, BitsCounted, RefHuffmanValue
  <1>4. \A x, l \in Nat : l <= 30 * x => (l + 7) \div 8 \in Nat /\ (l + 7) \div 8 <= 4 * x + 1
    OBVIOUS
  <1>5. \A x, y \in Nat : x < 2^30 /\ y <= 4 * x + 1 => x < 128^5 /\ y < 128^5
    <2>1. \A x \in Nat : x < 2^30 => x < 128^5
      OBVIOUS
    <2>2. \A x \in Nat : x < 2^30 => 4 * x + 1 < 128^5
      OBVIOUS
    <2> QED
      <3> DEFINE top == 128^5
                 bound == 2^30
      <3>1. top \in Int
        OBVIOUS
      <3>2. /\ \A x \in Nat : x < bound => x < top
            /\ \A x \in Nat : x < bound => 4 * x + 1 < top
        BY <2>1, <2>2
      <3> HIDE DEF top, bound
      <3>3. \A x, y \in Nat : x < bound /\ y <= 4 * x + 1 => x < top /\ y < top
        BY <3>1, <3>2
      <3> QED
        BY <3>3 DEF top, bound
  <1> DEFINE n == Len(s)
             m == Len(RefBits(s))
             k == Len(RefHuffman(s))
  <1>6. n \in Nat /\ m \in Nat /\ m <= 30 * n /\ k = (m + 7) \div 8 /\ n < 2^30
    BY <1>1, <1>3
  <1> HIDE DEF n, m, k
  <1>7. k \in Nat /\ k <= 4 * n + 1
    BY <1>4, <1>6, Zenon
  <1>8. n < 128^5 /\ k < 128^5
    BY <1>5, <1>6, <1>7, Zenon
  <1>9. CString(s) = s
    BY <1>1 DEF CString
  <1> QED
    BY <1>1, <1>2, <1>3, <1>7, <1>8, <1>9 DEF Grouping, n, k

(* readString finds the string, coded or not. *)
LEMMA ReadStringValue ==
    ASSUME NEW s \in Strings, NEW huffman \in BOOLEAN, NEW tail \in Seq(Nat)
    PROVE  /\ RefString(s, huffman) \in Seq(Nat)
           /\ ReadString(RefString(s, huffman) \o tail) = Ok(s, tail)
  <1> DEFINE code == IF huffman THEN RefHuffman(s) ELSE s
             flags == IF huffman THEN 128 ELSE 0
             n == Len(code)
             r == RefInteger(7, flags, n)
             left == code \o tail
             given == (r \o code) \o tail
  <1>1. RefString(s, huffman) = r \o code
    BY DEF RefString
  <1>2. s \in Seq(Bytes) /\ code \in Seq(Nat) /\ n \in Nat /\ n < Grouping(5) /\ CString(s) = s
    BY StringLengths
  <1>3. flags \in {0, 128} /\ flags % 2^7 = 0
    OBVIOUS
  <1>4. huffman => HuffmanDecode(code) = Ok(s, <<>>)
    BY <1>2, StringsAreDecoded
  <1>5. (huffman => flags = 128) /\ (~huffman => flags = 0 /\ code = s)
    OBVIOUS
  <1> HIDE DEF code, flags, n
  <1>6. left \in Seq(Nat) /\ SubSeq(left, 1, n) = code /\ SubSeq(left, n + 1, Len(left)) = tail
    BY <1>2, ConcatSplit DEF n
  <1>7. /\ r \in Seq(Nat) /\ r # <<>>
        /\ r[1] \in flags..(flags + 127)
        /\ ReadVarInt(7, r \o left) = Ok(n, left)
    <2>1. 7 \in PrefixBits /\ flags \in Flags(7)
      BY <1>3 DEF PrefixBits, Flags
    <2>2. /\ r \in Seq(Nat) /\ r # <<>>
          /\ r[1] \in flags..(flags + 2^7 - 1)
          /\ ReadVarInt(7, r \o left) = Ok(n, left)
      <3>1. IntegerRead(7, flags, n, left)
        BY <1>2, <1>6, <2>1, IntegersAreRead, Zenon
      <3> QED
        BY <3>1, Zenon DEF IntegerRead
    <2>3. flags + 2^7 - 1 = flags + 127
      BY <1>3
    <2> HIDE DEF r
    <2> QED
      BY <2>2, <2>3
  <1> HIDE DEF r
  <1>8. given = r \o left /\ r \o code \in Seq(Nat)
    <2>1. r \o code \in Seq(Nat)
      BY <1>2, <1>7
    <2>2. Associate(r, code, tail)
      BY <1>2, <1>7, ConcatAssoc, Zenon
    <2> QED
      BY <2>1, <2>2, Zenon DEF given, left, Associate
  <1>9. given[1] = r[1] /\ (given[1] < 128 <=> ~huffman)
    <2>1. given[1] = r[1]
      <3>1. 1 \in 1..Len(r)
        BY <1>7
      <3>2. \A i \in 1..Len(r) : (r \o left)[i] = r[i]
        BY <1>6, <1>7, ConcatParts
      <3> QED
        BY <1>8, <3>1, <3>2
    <2>2. r[1] < 128 <=> ~huffman
      <3> DEFINE first == r[1]
      <3>1. first \in flags..(flags + 127)
        BY <1>7
      <3> HIDE DEF first
      <3>2. /\ \A y \in 0..127 : y < 128
            /\ \A y \in 128..255 : ~(y < 128)
        OBVIOUS
      <3>3. 0 + 127 = 127 /\ 128 + 127 = 255
        OBVIOUS
      <3>4. first < 128 <=> ~huffman
        BY <1>5, <3>1, <3>2, <3>3
      <3> QED
        BY <3>4 DEF first
    <2> QED
      BY <2>1, <2>2
  <1> HIDE DEF given, left
  <1>10. ReadString(given) =
           IF given[1] < 128 THEN Ok(CString(code), tail)
           ELSE IF HuffmanDecode(code).ok THEN Ok(CString(HuffmanDecode(code).value), tail)
           ELSE HuffmanDecode(code)
    <2> DEFINE result == ReadVarInt(7, given)
               Body(len, after) ==
                 IF given[1] < 128 THEN Ok(CString(SubSeq(after, 1, len)), SubSeq(after, len + 1, Len(after)))
                 ELSE IF HuffmanDecode(SubSeq(after, 1, len)).ok
                 THEN Ok(CString(HuffmanDecode(SubSeq(after, 1, len)).value),
                         SubSeq(after, len + 1, Len(after)))
                 ELSE HuffmanDecode(SubSeq(after, 1, len))
    <2>1. ReadString(given) = IF result.ok THEN Body(result.value, result.rest) ELSE result
      BY Zenon DEF ReadString, Then
    <2>2. result = Ok(n, left)
      BY <1>7, <1>8
    <2> HIDE DEF result
    <2>3. result.ok /\ result.value = n /\ result.rest = left
      BY <2>2 DEF Ok
    <2>4. ReadString(given) = Body(n, left)
      BY <2>1, <2>3, Zenon
    <2> QED
      BY <1>6, <2>4, Zenon
  <1>11. ReadString(given) = Ok(s, tail)
    <2>1. CASE huffman
      <3> DEFINE result == HuffmanDecode(code)
      <3>1. result.ok /\ result.value = s
        BY <1>4, <2>1 DEF Ok
      <3>2. ReadString(given) = Ok(CString(result.value), tail)
        BY <1>9, <1>10, <2>1, <3>1, Zenon
      <3> QED
        BY <1>2, <3>1, <3>2, Zenon
    <2>2. CASE ~huffman
      BY <1>2, <1>5, <1>9, <1>10, <2>2, Zenon
    <2> QED
      BY <2>1, <2>2
  <1> QED
    BY <1>1, <1>8, <1>11 DEF given

-----------------------------------------------------------------------------
(* Representations.                                                        *)

NoDynamicTable == "cannot get index with no dyn tab"

(* The field a literal stands for, and the bytes it is written in. *)
LiteralField(index, name, value, never) ==
    [name |-> IF index = 0 THEN name ELSE StaticTableEntry[index].name,
     value |-> value, sensitive |-> never]

LiteralName(index, name, huffman) ==
    IF index = 0 THEN RefString(name, huffman) ELSE <<>>

(* parseFieldLiteral once the name is known, and from the index on. *)
ReadsValue(name, never, afterName) ==
    IF ReadString(afterName).ok
    THEN Ok([name |-> name, value |-> ReadString(afterName).value, sensitive |-> never],
            ReadString(afterName).rest)
    ELSE ReadString(afterName)

ReadsName(nameIdx, never, afterIndex) ==
    IF FieldName(nameIdx, afterIndex).ok
    THEN ReadsValue(FieldName(nameIdx, afterIndex).value, never, FieldName(nameIdx, afterIndex).rest)
    ELSE FieldName(nameIdx, afterIndex)

(* It does what parseFieldLiteral does once it has the index; *)
LEMMA ParseFieldLiteralValue ==
    ASSUME NEW n, NEW never, NEW given, NEW index, NEW left, ReadVarInt(n, given) = Ok(index, left)
    PROVE  ParseFieldLiteral(n, never, given) = ReadsName(index, never, left)
  <1> DEFINE result == ReadVarInt(n, given)
  <1>1. ParseFieldLiteral(n, never, given) =
          IF result.ok THEN ReadsName(result.value, never, result.rest) ELSE result
    BY Zenon DEF ParseFieldLiteral, Then, ReadsName, ReadsValue
  <1> HIDE DEF result
  <1>2. result.ok /\ result.value = index /\ result.rest = left
    BY DEF Ok, result
  <1> QED
    BY <1>1, <1>2, Zenon

(* the name is spelt out, past the table or in it. *)
LEMMA FieldNameValue ==
    ASSUME NEW index \in Nat, NEW left
    PROVE  /\ index = 0 => FieldName(index, left) = ReadString(left)
           /\ index > 60 => FieldName(index, left) = Error(NoDynamicTable)
           /\ index > 0 /\ ~(index > 60) =>
                 FieldName(index, left) = Ok(StaticTableEntry[index].name, left)
  <1>1. ASSUME index = 0 PROVE FieldName(index, left) = ReadString(left)
    BY <1>1 DEF FieldName
  <1>2. ASSUME index > 0
        PROVE  FieldName(index, left) =
                 IF GetIndexedField(index).ok THEN Ok(GetIndexedField(index).value.name, left)
                 ELSE GetIndexedField(index)
    BY <1>2, Zenon DEF FieldName, Then
  <1>3. ASSUME index > 60 PROVE FieldName(index, left) = Error(NoDynamicTable)
    <2>1. index > 0
      BY <1>3
    <2>2. GetIndexedField(index) = Error(NoDynamicTable)
      BY <1>3 DEF GetIndexedField, NoDynamicTable
    <2>3. ~Error(NoDynamicTable).ok
      BY DEF Error
    <2> QED
      BY <1>2, <2>1, <2>2, <2>3, Zenon
  <1>4. ASSUME index > 0, ~(index > 60)
        PROVE  FieldName(index, left) = Ok(StaticTableEntry[index].name, left)
    <2> DEFINE field == StaticTableEntry[index]
    <2>1. GetIndexedField(index) = Ok(field, <<>>)
      BY <1>4, Zenon DEF GetIndexedField
    <2> HIDE DEF field
    <2>2. Ok(field, <<>>).ok /\ Ok(field, <<>>).value = field
      BY DEF Ok
    <2>3. FieldName(index, left) = Ok(field.name, left)
      BY <1>2, <1>4, <2>1, <2>2, Zenon
    <2> QED
      BY <2>3 DEF field
  <1> QED
    BY <1>1, <1>3, <1>4

(* The parts of a literal and what comes after it. *)
FourParts(x, y, z, w) ==
    /\ (x \o y) \o z \in Seq(Nat)
    /\ (x \o y) \o z # <<>>
    /\ ((x \o y) \o z) \o w = x \o (y \o (z \o w))

(* They can be split off one at a time. *)
LEMMA ConcatFour ==
    ASSUME NEW x \in Seq(Nat), NEW y \in Seq(Nat), NEW z \in Seq(Nat), NEW w \in Seq(Nat),
           x # <<>>
    PROVE  FourParts(x, y, z, w)
  <1> DEFINE xy == x \o y
             zw == z \o w
  <1>1. xy \in Seq(Nat) /\ zw \in Seq(Nat) /\ xy # <<>>
    OBVIOUS
  <1>2. xy \o zw = x \o (y \o zw)
    <2> HIDE DEF zw
    <2>1. Associate(x, y, zw)
      BY <1>1, ConcatAssoc, Zenon
    <2> QED
      BY <2>1, Zenon DEF Associate, xy
  <1> HIDE DEF xy
  <1>3. xy \o z \in Seq(Nat) /\ xy \o z # <<>> /\ (xy \o z) \o w = xy \o zw
    <2>1. xy \o z \in Seq(Nat) /\ xy \o z # <<>>
      BY <1>1
    <2>2. Associate(xy, z, w)
      BY <1>1, ConcatAssoc, Zenon
    <2> QED
      BY <2>1, <2>2, Zenon DEF Associate, zw
  <1> QED
    BY <1>2, <1>3, Zenon DEF FourParts, xy, zw

(* What parseFieldLiteral finds in the bytes of a literal. *)
LiteralRead(n, flags, never, index, name, h, value, g, tail) ==
    LET bytes == (RefInteger(n, flags, index) \o LiteralName(index, name, h)) \o RefString(value, g)
    IN /\ bytes \in Seq(Nat)
       /\ bytes # <<>>
       /\ (bytes \o tail)[1] \in flags..(flags + 2^n - 1)
       /\ ParseFieldLiteral(n, never, bytes \o tail) =
            IF index > 60 THEN Error(NoDynamicTable)
            ELSE Ok(LiteralField(index, name, value, never), tail)

(* The name and the value are found, and the tail is left. *)
LEMMA ReadLiteral ==
    ASSUME NEW n \in PrefixBits, NEW flags \in Flags(n), NEW never \in BOOLEAN,
           NEW index \in Numbers, NEW name \in Strings, NEW h \in BOOLEAN,
           NEW value \in Strings, NEW g \in BOOLEAN, NEW tail \in Seq(Nat)
    PROVE  LiteralRead(n, flags, never, index, name, h, value, g, tail)
  <1> DEFINE r == RefInteger(n, flags, index)
             a == LiteralName(index, name, h)
             b == RefString(value, g)
             afterName == b \o tail
             afterIndex == a \o afterName
             bytes == (r \o a) \o b
  <1>1. index \in Nat /\ index < Grouping(5)
    <2>1. \A x \in Nat : x <= 2147483647 => x < 128^5
      OBVIOUS
    <2> QED
      BY <2>1 DEF Numbers, Grouping
  <1>2. b \in Seq(Nat) /\ afterName \in Seq(Nat) /\ ReadString(afterName) = Ok(value, tail)
    <2>1. b \in Seq(Nat) /\ ReadString(b \o tail) = Ok(value, tail)
      BY ReadStringValue
    <2> HIDE DEF b
    <2> QED
      BY <2>1
  <1> HIDE DEF b
  <1>3. a \in Seq(Nat)
        /\ (index = 0 => ReadString(afterIndex) = Ok(name, afterName))
        /\ (index # 0 => afterIndex = afterName)
    <2>1. CASE index = 0
      <3>1. a = RefString(name, h)
        BY <2>1 DEF LiteralName
      <3> HIDE DEF afterName
      <3>2. RefString(name, h) \in Seq(Nat)
            /\ ReadString(RefString(name, h) \o afterName) = Ok(name, afterName)
        BY <1>2, ReadStringValue
      <3> QED
        BY <2>1, <3>1, <3>2
    <2>2. CASE index # 0
      <3>1. a = <<>>
        BY <2>2 DEF LiteralName
      <3> HIDE DEF afterName, a
      <3>2. <<>> \o afterName = afterName
        BY <1>2
      <3> QED
        BY <2>2, <3>1, <3>2
    <2> QED
      BY <2>1, <2>2
  <1> HIDE DEF a
  <1>4. afterIndex \in Seq(Nat)
    BY <1>2, <1>3
  <1>5. IntegerRead(n, flags, index, afterIndex)
    BY <1>1, <1>4, IntegersAreRead, Zenon
  <1>6. /\ r \in Seq(Nat) /\ r # <<>> /\ r[1] \in flags..(flags + 2^n - 1)
        /\ ReadVarInt(n, r \o afterIndex) = Ok(index, afterIndex)
    BY <1>5, Zenon DEF IntegerRead
  <1> HIDE DEF r
  <1>7. bytes \in Seq(Nat) /\ bytes # <<>> /\ bytes \o tail = r \o afterIndex
    <2>1. FourParts(r, a, b, tail)
      BY <1>2, <1>3, <1>6, ConcatFour, Zenon
    <2> QED
      BY <2>1, Zenon DEF FourParts
  <1>8. (bytes \o tail)[1] = r[1]
    <2>1. 1 \in 1..Len(r)
      BY <1>6
    <2>2. \A i \in 1..Len(r) : (r \o afterIndex)[i] = r[i]
      BY <1>4, <1>6, ConcatParts
    <2> QED
      BY <1>7, <2>1, <2>2
  <1> HIDE DEF afterIndex, afterName, bytes
  <1>9. ParseFieldLiteral(n, never, bytes \o tail) = ReadsName(index, never, afterIndex)
    <2> DEFINE given == r \o afterIndex
    <2>1. ReadVarInt(n, given) = Ok(index, afterIndex)
      BY <1>6
    <2> HIDE DEF given
    <2>2. ParseFieldLiteral(n, never, given) = ReadsName(index, never, afterIndex)
      BY <2>1, ParseFieldLiteralValue
    <2> QED
      BY <1>7, <2>2 DEF given
  <1> DEFINE field == LiteralField(index, name, value, never)
             found == IF index = 0 THEN name ELSE StaticTableEntry[index].name
  <1>10. ASSUME index > 60 PROVE ReadsName(index, never, afterIndex) = Error(NoDynamicTable)
    <2>1. FieldName(index, afterIndex) = Error(NoDynamicTable)
      BY <1>1, <1>10, FieldNameValue
    <2>2. ~Error(NoDynamicTable).ok
      BY DEF Error
    <2> QED
      BY <2>1, <2>2, Zenon DEF ReadsName
  <1>11. ASSUME ~(index > 60) PROVE ReadsName(index, never, afterIndex) = Ok(field, tail)
    <2>1. FieldName(index, afterIndex) = Ok(found, afterName)
      <3>1. CASE index = 0
        BY <1>1, <1>3, <3>1, FieldNameValue
      <3>2. CASE index # 0
        <4>1. index > 0
          BY <1>1, <3>2
        <4>2. FieldName(index, afterIndex) = Ok(StaticTableEntry[index].name, afterIndex)
          BY <1>1, <1>11, <4>1, FieldNameValue
        <4> QED
          BY <1>3, <3>2, <4>2
      <3> QED
        BY <3>1, <3>2
    <2>2. field = [name |-> found, value |-> value, sensitive |-> never]
      BY DEF LiteralField
    <2> HIDE DEF found, field
    <2>3. FieldName(index, afterIndex).ok /\ FieldName(index, afterIndex).value = found
          /\ FieldName(index, afterIndex).rest = afterName
      BY <2>1 DEF Ok
    <2>4. ReadsName(index, never, afterIndex) = ReadsValue(found, never, afterName)
      BY <2>3, Zenon DEF ReadsName
    <2>5. ReadString(afterName).ok /\ ReadString(afterName).value = value
          /\ ReadString(afterName).rest = tail
      BY <1>2 DEF Ok
    <2>6. ReadsValue(found, never, afterName) =
            Ok([name |-> found, value |-> value, sensitive |-> never], tail)
      BY <2>5, Zenon DEF ReadsValue
    <2> QED
      BY <2>2, <2>4, <2>6
  <1>12. (bytes \o tail)[1] \in flags..(flags + 2^n - 1)
    BY <1>6, <1>8
  <1>13. ParseFieldLiteral(n, never, bytes \o tail) =
           IF index > 60 THEN Error(NoDynamicTable) ELSE Ok(field, tail)
    BY <1>9, <1>10, <1>11
  <1> QED
    BY <1>7, <1>12, <1>13, Zenon DEF LiteralRead, bytes, r, a, b, field

(* One turn of the loop of decodeHeaderFields, by the first byte. *)
Added(result) == IF result.ok THEN Ok(<<result.value>>, result.rest) ELSE result

(* The field is added to the list, an error is passed on; *)
LEMMA AddValue ==
    /\ \A result : Add(result) = Added(result)
    /\ \A field, after : Added(Ok(field, after)) = Ok(<<field>>, after)
    /\ \A what : Added(Error(what)) = Error(what)
  <1>1. \A result : Add(result) = Added(result)
    BY Zenon DEF Add, Added, Then
  <1>2. ASSUME NEW field, NEW after PROVE Added(Ok(field, after)) = Ok(<<field>>, after)
    <2> DEFINE result == Ok(field, after)
    <2>1. result.ok /\ result.value = field /\ result.rest = after
      BY DEF Ok
    <2> HIDE DEF result
    <2>2. Added(result) = Ok(<<field>>, after)
      BY <2>1, Zenon DEF Added
    <2> QED
      BY <2>2 DEF result
  <1>3. ASSUME NEW what PROVE Added(Error(what)) = Error(what)
    <2>1. ~Error(what).ok
      BY DEF Error
    <2> QED
      BY <2>1, Zenon DEF Added
  <1> QED
    BY <1>1, <1>2, <1>3

(* five ranges of the first byte choose who parses the rest. *)
LEMMA DecodeDispatch ==
    ASSUME NEW given, NEW b \in 0..255, given[1] = b
    PROVE  /\ b \in 128..255 => DecodeHeaderField(given) = Added(ParseFieldIndexed(given))
           /\ b \in 64..127 => DecodeHeaderField(given) = Added(ParseFieldLiteral(6, FALSE, given))
           /\ b \in 16..31 => DecodeHeaderField(given) = Added(ParseFieldLiteral(4, TRUE, given))
           /\ b \in 0..15 => DecodeHeaderField(given) = Added(ParseFieldLiteral(4, FALSE, given))
           /\ b \in 32..63 =>
                DecodeHeaderField(given) =
                  IF ReadVarInt(5, given).ok THEN Ok(<<>>, ReadVarInt(5, given).rest)
                  ELSE ReadVarInt(5, given)
  <1> DEFINE resized == Then(ReadVarInt(5, given), LAMBDA size, after : Ok(<<>>, after))
             literal == Add(ParseFieldLiteral(IF b >= 64 THEN 6 ELSE 4, b \in 16..31, given))
             indexed == Add(ParseFieldIndexed(given))
  <1>1. DecodeHeaderField(given) =
          CASE b >= 128 -> indexed
            [] b \in 0..31 \cup 64..127 -> literal
            [] b \in 32..63 -> resized
    BY Zenon DEF DecodeHeaderField
  <1>2. resized = IF ReadVarInt(5, given).ok THEN Ok(<<>>, ReadVarInt(5, given).rest)
                  ELSE ReadVarInt(5, given)
    BY Zenon DEF Then
  <1>3. indexed = Added(ParseFieldIndexed(given))
    BY AddValue
  <1>4. literal = Added(ParseFieldLiteral(IF b >= 64 THEN 6 ELSE 4, b \in 16..31, given))
    BY AddValue
  <1> HIDE DEF resized, literal, indexed
  <1>5. ASSUME b \in 128..255 PROVE DecodeHeaderField(given) = indexed
    <2>1. b >= 128 /\ ~(b \in 0..31 \cup 64..127) /\ ~(b \in 32..63)
      BY <1>5
    <2> QED
      BY <1>1, <2>1
  <1>6. ASSUME b \in 0..31 \cup 64..127 PROVE DecodeHeaderField(given) = literal
    <2>1. ~(b >= 128) /\ ~(b \in 32..63)
      BY <1>6
    <2> QED
      BY <1>1, <1>6, <2>1
  <1>7. ASSUME b \in 32..63 PROVE DecodeHeaderField(given) = resized
    <2>1. ~(b >= 128) /\ ~(b \in 0..31 \cup 64..127)
      BY <1>7
    <2> QED
      BY <1>1, <1>7, <2>1
  <1>8. ASSUME b \in 64..127
        PROVE  DecodeHeaderField(given) = Added(ParseFieldLiteral(6, FALSE, given))
    <2>1. b >= 64 /\ (b \in 16..31) = FALSE /\ b \in 0..31 \cup 64..127
      BY <1>8
    <2>2. ParseFieldLiteral(IF b >= 64 THEN 6 ELSE 4, b \in 16..31, given) =
            ParseFieldLiteral(6, FALSE, given)
      BY <2>1, ZenonT(60)
    <2> QED
      BY <1>4, <1>6, <2>1, <2>2, ZenonT(60)
  <1>9. ASSUME b \in 16..31
        PROVE  DecodeHeaderField(given) = Added(ParseFieldLiteral(4, TRUE, given))
    <2>1. ~(b >= 64) /\ (b \in 16..31) = TRUE /\ b \in 0..31 \cup 64..127
      BY <1>9
    <2>2. ParseFieldLiteral(IF b >= 64 THEN 6 ELSE 4, b \in 16..31, given) =
            ParseFieldLiteral(4, TRUE, given)
      BY <2>1, Zenon
    <2> QED
      BY <1>4, <1>6, <2>1, <2>2, Zenon
  <1>10. ASSUME b \in 0..15
         PROVE  DecodeHeaderField(given) = Added(ParseFieldLiteral(4, FALSE, given))
    <2>1. ~(b >= 64) /\ (b \in 16..31) = FALSE /\ b \in 0..31 \cup 64..127
      BY <1>10
    <2>2. ParseFieldLiteral(IF b >= 64 THEN 6 ELSE 4, b \in 16..31, given) =
            ParseFieldLiteral(4, FALSE, given)
      BY <2>1, ZenonT(60)
    <2> QED
      BY <1>4, <1>6, <2>1, <2>2, ZenonT(60)
  <1> QED
    BY <1>2, <1>3, <1>5, <1>7, <1>8, <1>9, <1>10

(* The bytes of a field, or of nothing, are read as what they stand for,   *)
(* whatever comes after them; a field past the index 60 is refused.        *)
Understood(bytes, fields) ==
    \/ \A tail \in Seq(Nat) : DecodeHeaderField(bytes \o tail) = Ok(fields, tail)
    \/ /\ \A tail \in Seq(Nat) : DecodeHeaderField(bytes \o tail) = Error(NoDynamicTable)
       /\ fields # <<>>
       /\ fields[1].name \in {Entry(61).name, Unknown.name}

(* An index or a size is an integer that readVarInt can read, *)
LEMMA Fits ==
    \A i \in Numbers : i \in Nat /\ i < Grouping(5)
  <1>1. \A x \in Nat : x <= 2147483647 => x < 128^5
    OBVIOUS
  <1> QED
    BY <1>1 DEF Numbers, Grouping

(* the flags of each representation leave its bits free, *)
LEMMA FlagsFit ==
    /\ 128 \in Flags(7) /\ 32 \in Flags(5) /\ 64 \in Flags(6) /\ 0 \in Flags(4) /\ 16 \in Flags(4)
    /\ 7 \in PrefixBits /\ 6 \in PrefixBits /\ 5 \in PrefixBits /\ 4 \in PrefixBits
  BY DEF Flags, PrefixBits

(* these are the first bytes each can have, *)
LEMMA FlagRanges ==
    /\ 128 + 2^7 - 1 = 255 /\ 32 + 2^5 - 1 = 63 /\ 64 + 2^6 - 1 = 127
    /\ 0 + 2^4 - 1 = 15 /\ 16 + 2^4 - 1 = 31
  OBVIOUS

(* and the first byte does not depend on what follows. *)
LEMMA FirstOf ==
    ASSUME NEW s \in Seq(Nat), s # <<>>, NEW tail \in Seq(Nat)
    PROVE  (s \o tail)[1] = s[1]
  <1>1. 1 \in 1..Len(s)
    OBVIOUS
  <1> QED
    BY <1>1, ConcatParts

(* A reference past the index 60 is to the name of the last entry or of an *)
(* unknown one.                                                            *)
LEMMA PastTable ==
    \A i \in Numbers : i > 60 => Entry(i).name \in {Entry(61).name, Unknown.name}
  <1> SUFFICES ASSUME NEW i \in Numbers, i > 60
               PROVE  Entry(i).name \in {Entry(61).name, Unknown.name}
    OBVIOUS
  <1>1. i = 61 \/ (i # 61 /\ ~(i <= 61))
    BY DEF Numbers
  <1>2. i # 61 /\ ~(i <= 61) => Entry(i) = Unknown
    BY Zenon DEF Entry
  <1> QED
    BY <1>1, <1>2, Zenon

(* An indexed field is understood, or is past the table. *)
LEMMA IndexedUnderstood ==
    ASSUME NEW i \in Numbers \ {0}
    PROVE  /\ RefInteger(7, 128, i) \in Seq(Nat) /\ RefInteger(7, 128, i) # <<>>
           /\ Understood(RefInteger(7, 128, i), <<Entry(i)>>)
  <1> DEFINE r == RefInteger(7, 128, i)
  <1>1. i \in Nat /\ i < Grouping(5) /\ i # 0 /\ i \in Numbers
    BY Fits
  <1>2. \A tail \in Seq(Nat) : IntegerRead(7, 128, i, tail)
    BY <1>1, FlagsFit, IntegersAreRead, Zenon
  <1>3. r \in Seq(Nat) /\ r # <<>> /\ r[1] \in 128..255
        /\ \A tail \in Seq(Nat) : ReadVarInt(7, r \o tail) = Ok(i, tail)
    <2>1. <<>> \in Seq(Nat)
      OBVIOUS
    <2> QED
      BY <1>2, <2>1, FlagRanges, Zenon DEF IntegerRead
  <1> HIDE DEF r
  <1>4. ASSUME NEW tail \in Seq(Nat)
        PROVE  DecodeHeaderField(r \o tail) =
                 IF i > 60 THEN Error(NoDynamicTable) ELSE Ok(<<Entry(i)>>, tail)
    <2> DEFINE given == r \o tail
               result == ReadVarInt(7, given)
    <2>1. given[1] = r[1] /\ r[1] \in 128..255 /\ r[1] \in 0..255
      BY <1>3, FirstOf
    <2>2. result.ok /\ result.value = i /\ result.rest = tail
      BY <1>3 DEF Ok
    <2> HIDE DEF given
    <2>3. DecodeHeaderField(given) = Added(ParseFieldIndexed(given))
      BY <2>1, DecodeDispatch
    <2>4. ParseFieldIndexed(given) =
            IF result.ok
            THEN IF GetIndexedField(result.value).ok
                 THEN Ok(GetIndexedField(result.value).value, result.rest)
                 ELSE GetIndexedField(result.value)
            ELSE result
      BY Zenon DEF ParseFieldIndexed, Then
    <2> HIDE DEF result
    <2>5. ParseFieldIndexed(given) =
            IF GetIndexedField(i).ok THEN Ok(GetIndexedField(i).value, tail) ELSE GetIndexedField(i)
      BY <2>2, <2>4, Zenon
    <2>6. CASE i > 60
      <3>1. GetIndexedField(i) = Error(NoDynamicTable)
        BY <2>6 DEF GetIndexedField, NoDynamicTable
      <3>2. ~Error(NoDynamicTable).ok
        BY DEF Error
      <3>3. ParseFieldIndexed(given) = Error(NoDynamicTable)
        BY <2>5, <3>1, <3>2, Zenon
      <3> QED
        BY <2>3, <2>6, <3>3, AddValue DEF given
    <2>7. CASE ~(i > 60)
      <3>1. GetIndexedField(i) = Ok(Entry(i), <<>>)
        <4>1. i <= 61
          BY <1>1, <2>7
        <4> QED
          BY <2>7, <4>1, Zenon DEF GetIndexedField, Entry
      <3> DEFINE field == Entry(i)
      <3>2. Ok(field, <<>>).ok /\ Ok(field, <<>>).value = field
        BY DEF Ok
      <3> HIDE DEF field
      <3>3. ParseFieldIndexed(given) = Ok(field, tail)
        BY <2>5, <3>1, <3>2, Zenon DEF field
      <3>4. DecodeHeaderField(given) = Ok(<<field>>, tail)
        BY <2>3, <3>3, AddValue
      <3> QED
        BY <2>7, <3>4 DEF given, field
    <2> QED
      BY <2>6, <2>7
  <1>5. CASE i > 60
    <2>1. \A tail \in Seq(Nat) : DecodeHeaderField(r \o tail) = Error(NoDynamicTable)
      BY <1>4, <1>5
    <2>2. Entry(i).name \in {Entry(61).name, Unknown.name}
      BY <1>1, <1>5, PastTable
    <2> DEFINE field == Entry(i)
    <2> HIDE DEF field
    <2>3. <<field>> # <<>> /\ <<field>>[1] = field
      OBVIOUS
    <2> QED
      BY <1>3, <2>1, <2>2, <2>3, Zenon DEF Understood, r, field
  <1>6. CASE ~(i > 60)
    <2>1. \A tail \in Seq(Nat) : DecodeHeaderField(r \o tail) = Ok(<<Entry(i)>>, tail)
      BY <1>4, <1>6, Zenon
    <2> QED
      BY <1>3, <2>1, Zenon DEF Understood, r
  <1> QED
    BY <1>5, <1>6

(* A new size of the table is read and stands for no field. *)
LEMMA ResizeUnderstood ==
    ASSUME NEW i \in Numbers
    PROVE  /\ RefInteger(5, 32, i) \in Seq(Nat) /\ RefInteger(5, 32, i) # <<>>
           /\ Understood(RefInteger(5, 32, i), <<>>)
  <1> DEFINE r == RefInteger(5, 32, i)
  <1>1. i \in Nat /\ i < Grouping(5)
    BY Fits
  <1>2. \A tail \in Seq(Nat) : IntegerRead(5, 32, i, tail)
    BY <1>1, FlagsFit, IntegersAreRead, Zenon
  <1>3. r \in Seq(Nat) /\ r # <<>> /\ r[1] \in 32..63
        /\ \A tail \in Seq(Nat) : ReadVarInt(5, r \o tail) = Ok(i, tail)
    <2>1. <<>> \in Seq(Nat)
      OBVIOUS
    <2> QED
      BY <1>2, <2>1, FlagRanges, Zenon DEF IntegerRead
  <1> HIDE DEF r
  <1>4. ASSUME NEW tail \in Seq(Nat)
        PROVE  DecodeHeaderField(r \o tail) = Ok(<<>>, tail)
    <2> DEFINE given == r \o tail
               result == ReadVarInt(5, given)
    <2>1. given[1] = r[1] /\ r[1] \in 32..63 /\ r[1] \in 0..255
      BY <1>3, FirstOf
    <2>2. result.ok /\ result.value = i /\ result.rest = tail
      BY <1>3 DEF Ok
    <2> HIDE DEF given
    <2>3. DecodeHeaderField(given) = IF result.ok THEN Ok(<<>>, result.rest) ELSE result
      BY <2>1, DecodeDispatch, ZenonT(60)
    <2> HIDE DEF result
    <2>4. DecodeHeaderField(given) = Ok(<<>>, tail)
      BY <2>2, <2>3, Zenon
    <2> QED
      BY <2>4 DEF given
  <1> QED
    BY <1>3, <1>4, Zenon DEF Understood, r

(* decodeHeaderFields takes a first byte for the literal it is of. *)
Dispatches(n, flags, never) ==
    \A given : given[1] \in flags..(flags + 2^n - 1) =>
        DecodeHeaderField(given) = Added(ParseFieldLiteral(n, never, given))

(* So it does for all three kinds of literals. *)
LEMMA Dispatching ==
    Dispatches(6, 64, FALSE) /\ Dispatches(4, 0, FALSE) /\ Dispatches(4, 16, TRUE)
  <1>1. ASSUME NEW given, given[1] \in 64..127
        PROVE  DecodeHeaderField(given) = Added(ParseFieldLiteral(6, FALSE, given))
    <2> DEFINE b == given[1]
    <2>1. b \in 64..127 /\ b \in 0..255
      BY <1>1
    <2> HIDE DEF b
    <2>2. given[1] = b
      BY DEF b
    <2>3. b \in 64..127 => DecodeHeaderField(given) = Added(ParseFieldLiteral(6, FALSE, given))
      BY <2>1, <2>2, DecodeDispatch, ZenonT(60)
    <2> QED
      BY <2>1, <2>3, Zenon
  <1>2. ASSUME NEW given, given[1] \in 0..15
        PROVE  DecodeHeaderField(given) = Added(ParseFieldLiteral(4, FALSE, given))
    <2> DEFINE b == given[1]
    <2>1. b \in 0..15 /\ b \in 0..255
      BY <1>2
    <2> HIDE DEF b
    <2>2. given[1] = b
      BY DEF b
    <2>3. b \in 0..15 => DecodeHeaderField(given) = Added(ParseFieldLiteral(4, FALSE, given))
      BY <2>1, <2>2, DecodeDispatch, ZenonT(60)
    <2> QED
      BY <2>1, <2>3, Zenon
  <1>3. ASSUME NEW given, given[1] \in 16..31
        PROVE  DecodeHeaderField(given) = Added(ParseFieldLiteral(4, TRUE, given))
    <2> DEFINE b == given[1]
    <2>1. b \in 16..31 /\ b \in 0..255
      BY <1>3
    <2> HIDE DEF b
    <2>2. given[1] = b
      BY DEF b
    <2>3. b \in 16..31 => DecodeHeaderField(given) = Added(ParseFieldLiteral(4, TRUE, given))
      BY <2>1, <2>2, DecodeDispatch, ZenonT(60)
    <2> QED
      BY <2>1, <2>3, Zenon
  <1> QED
    BY <1>1, <1>2, <1>3, FlagRanges, Zenon DEF Dispatches

(* A literal is understood. *)
LiteralBytes(n, flags, index, name, h, value, g) ==
    (RefInteger(n, flags, index) \o LiteralName(index, name, h)) \o RefString(value, g)

LiteralMeaning(index, name, value, never) ==
    << [name |-> IF index = 0 THEN name ELSE Entry(index).name,
        value |-> value, sensitive |-> never] >>

IsUnderstood(bytes, fields) ==
    bytes \in Seq(Nat) /\ bytes # <<>> /\ Understood(bytes, fields)

(* Whatever its index, its name, its value and how these are coded. *)
LEMMA LiteralUnderstood ==
    ASSUME NEW n \in PrefixBits, NEW flags \in Flags(n), NEW never \in BOOLEAN,
           Dispatches(n, flags, never),
           NEW index \in Numbers, NEW name \in Strings, NEW h \in BOOLEAN,
           NEW value \in Strings, NEW g \in BOOLEAN
    PROVE  IsUnderstood(LiteralBytes(n, flags, index, name, h, value, g),
                        LiteralMeaning(index, name, value, never))
  <1> DEFINE bytes == LiteralBytes(n, flags, index, name, h, value, g)
             fields == LiteralMeaning(index, name, value, never)
  <1>1. \A tail \in Seq(Nat) : LiteralRead(n, flags, never, index, name, h, value, g, tail)
    BY ReadLiteral
  <1>2. <<>> \in Seq(Nat)
    OBVIOUS
  <1>3. bytes \in Seq(Nat) /\ bytes # <<>>
    BY <1>1, <1>2, Zenon DEF LiteralRead, LiteralBytes
  <1>4. ASSUME NEW tail \in Seq(Nat)
        PROVE  /\ (bytes \o tail)[1] \in flags..(flags + 2^n - 1)
               /\ ParseFieldLiteral(n, never, bytes \o tail) =
                    IF index > 60 THEN Error(NoDynamicTable)
                    ELSE Ok(LiteralField(index, name, value, never), tail)
    BY <1>1, Zenon DEF LiteralRead, LiteralBytes
  <1> HIDE DEF bytes
  <1>5. ASSUME NEW tail \in Seq(Nat)
        PROVE  DecodeHeaderField(bytes \o tail) =
                 Added(IF index > 60 THEN Error(NoDynamicTable)
                       ELSE Ok(LiteralField(index, name, value, never), tail))
    BY <1>4, Zenon DEF Dispatches
  <1>6. CASE index > 60
    <2>1. \A tail \in Seq(Nat) : DecodeHeaderField(bytes \o tail) = Error(NoDynamicTable)
      <3> TAKE tail \in Seq(Nat)
      <3>1. DecodeHeaderField(bytes \o tail) = Added(Error(NoDynamicTable))
        BY <1>5, <1>6, Zenon
      <3> QED
        BY <3>1, AddValue
    <2> DEFINE field == [name |-> Entry(index).name, value |-> value, sensitive |-> never]
    <2>2. field.name \in {Entry(61).name, Unknown.name}
      BY <1>6, PastTable
    <2>3. fields = <<field>>
      <3>1. index # 0
        BY <1>6 DEF Numbers
      <3> QED
        BY <3>1, Zenon DEF LiteralMeaning
    <2> HIDE DEF field, fields
    <2>4. fields # <<>> /\ fields[1] = field
      BY <2>3
    <2> QED
      BY <1>3, <2>1, <2>2, <2>4, Zenon DEF IsUnderstood, Understood, bytes, fields
  <1>7. CASE ~(index > 60)
    <2>1. fields = <<LiteralField(index, name, value, never)>>
      <3>1. index <= 61 /\ index \in Nat
        BY <1>7 DEF Numbers
      <3>2. Entry(index) = StaticTableEntry[index]
        BY <3>1, Zenon DEF Entry
      <3> QED
        BY <3>2, Zenon DEF LiteralMeaning, LiteralField
    <2> HIDE DEF fields
    <2>2. \A tail \in Seq(Nat) : DecodeHeaderField(bytes \o tail) = Ok(fields, tail)
      <3> TAKE tail \in Seq(Nat)
      <3> DEFINE field == LiteralField(index, name, value, never)
      <3>1. DecodeHeaderField(bytes \o tail) = Added(Ok(field, tail))
        BY <1>5, <1>7, Zenon
      <3> HIDE DEF field
      <3>2. Added(Ok(field, tail)) = Ok(<<field>>, tail)
        BY AddValue
      <3> QED
        BY <2>1, <3>1, <3>2, Zenon DEF field
    <2> QED
      BY <1>3, <2>2, Zenon DEF IsUnderstood, Understood, bytes, fields
  <1> QED
    BY <1>6, <1>7

(* Whatever a peer sends. *)
LEMMA RepresentationUnderstood ==
    ASSUME NEW rep \in Representations
    PROVE  IsUnderstood(Represent(rep), Meaning(rep))
  <1>1. CASE rep \in [form : {"indexed"}, index : Numbers \ {0}]
    <2>1. rep.form = "indexed" /\ rep.index \in Numbers \ {0}
      BY <1>1
    <2>2. rep.form # "resize"
      BY <2>1
    <2>3. Represent(rep) = RefInteger(7, 128, rep.index) /\ Meaning(rep) = <<Entry(rep.index)>>
      BY <2>1, <2>2 DEF Represent, Meaning
    <2> DEFINE i == rep.index
    <2>4. i \in Numbers \ {0}
      BY <2>1
    <2> HIDE DEF i
    <2>5. IsUnderstood(RefInteger(7, 128, i), <<Entry(i)>>)
      BY <2>4, IndexedUnderstood, Zenon DEF IsUnderstood
    <2> QED
      BY <2>3, <2>5, Zenon DEF i
  <1>2. CASE rep \in [form : {"resize"}, size : Numbers]
    <2>1. rep.form = "resize" /\ rep.size \in Numbers
      BY <1>2
    <2>2. rep.form # "indexed"
      BY <2>1
    <2>3. Represent(rep) = RefInteger(5, 32, rep.size) /\ Meaning(rep) = <<>>
      BY <2>1, <2>2 DEF Represent, Meaning
    <2> DEFINE i == rep.size
    <2>4. i \in Numbers
      BY <2>1
    <2> HIDE DEF i
    <2>5. IsUnderstood(RefInteger(5, 32, i), <<>>)
      BY <2>4, ResizeUnderstood, Zenon DEF IsUnderstood
    <2> QED
      BY <2>3, <2>5, Zenon DEF i
  <1>3. CASE rep \in [form : {"incremental", "plain", "never"}, index : Numbers,
                      name : Strings, value : Strings, huffman : BOOLEAN]
    <2>1. /\ rep.form \in {"incremental", "plain", "never"}
          /\ rep.index \in Numbers /\ rep.name \in Strings /\ rep.value \in Strings
          /\ rep.huffman \in BOOLEAN
      BY <1>3
    <2>2. rep.form # "indexed" /\ rep.form # "resize"
      BY <2>1
    <2> DEFINE n == Forms[rep.form].bits
               flags == Forms[rep.form].flags
               never == rep.form = "never"
               index == rep.index
               name == rep.name
               value == rep.value
               h == rep.huffman
    <2>3. n \in PrefixBits /\ flags \in Flags(n) /\ Dispatches(n, flags, never)
      <3>1. CASE rep.form = "incremental"
        <4>1. n = 6 /\ flags = 64 /\ never = FALSE
          BY <3>1 DEF Forms
        <4> QED
          BY <4>1, FlagsFit, Dispatching, Zenon
      <3>2. CASE rep.form = "plain"
        <4>1. n = 4 /\ flags = 0 /\ never = FALSE
          BY <3>2 DEF Forms
        <4> QED
          BY <4>1, FlagsFit, Dispatching, Zenon
      <3>3. CASE rep.form = "never"
        <4>1. n = 4 /\ flags = 16 /\ never = TRUE
          BY <3>3 DEF Forms
        <4> QED
          BY <4>1, FlagsFit, Dispatching, Zenon
      <3> QED
        BY <2>1, <3>1, <3>2, <3>3
    <2>4. Represent(rep) = LiteralBytes(n, flags, index, name, h, value, h)
      BY <2>2 DEF Represent, LiteralBytes, LiteralName
    <2>5. Meaning(rep) = LiteralMeaning(index, name, value, never)
      BY <2>2 DEF Meaning, LiteralMeaning
    <2>6. never \in BOOLEAN /\ index \in Numbers /\ name \in Strings /\ value \in Strings
          /\ h \in BOOLEAN
      BY <2>1
    <2> HIDE DEF n, flags, never, index, name, value, h
    <2>7. IsUnderstood(LiteralBytes(n, flags, index, name, h, value, h),
                       LiteralMeaning(index, name, value, never))
      BY <2>3, <2>6, LiteralUnderstood, Zenon
    <2> QED
      BY <2>4, <2>5, <2>7, Zenon
  <1> QED
    BY <1>1, <1>2, <1>3 DEF Representations

(* And what the server writes. *)
LEMMA FieldUnderstood ==
    ASSUME NEW f \in Fields
    PROVE  /\ IsUnderstood(EncodeHeaderField(f), <<Marked(f)>>)
           /\ Marked(f) \in Fields
  <1> DEFINE name == f.name
             value == f.value
             h == ShorterHuffman(name)
             g == ShorterHuffman(value)
  <1>1. name \in Strings /\ value \in Strings /\ h \in BOOLEAN /\ g \in BOOLEAN
    BY DEF Fields, ShorterHuffman
  <1>2. EncodeHeaderField(f) = (<<16>> \o RefString(name, h)) \o RefString(value, g)
    BY EncodeHeaderFieldValue DEF RefField
  <1>3. Marked(f) = [name |-> name, value |-> value, sensitive |-> TRUE]
    <2> DEFINE m == Marked(f)
    <2>1. m \in Fields /\ m.name = f.name /\ m.value = f.value /\ m.sensitive = TRUE
      BY DEF Marked, Fields
    <2> HIDE DEF m
    <2>2. m = [name |-> m.name, value |-> m.value, sensitive |-> m.sensitive]
      BY <2>1 DEF Fields
    <2> QED
      BY <2>1, <2>2 DEF m
  <1>4. Marked(f) \in Fields
    BY <1>1, <1>3 DEF Fields
  <1> HIDE DEF name, value, h, g
  <1>5. 0 \in Numbers
    BY DEF Numbers
  <1>6. RefInteger(4, 16, 0) = <<16>>
    <2>1. 0 \in Nat /\ 0 < Grouping(5) /\ 15 \in Nat /\ 2^4 - 1 = 15 /\ 4 \in 4..7 /\ 16 \in Nat
      BY <1>5, Fits
    <2>2. IntegerWritten(4, 16, 0, 15)
      BY <2>1, RefIntegerGroups, Zenon
    <2>3. 0 < 15 /\ 16 + 0 = 16
      OBVIOUS
    <2> QED
      BY <2>2, <2>3, Zenon DEF IntegerWritten
  <1>7. LiteralName(0, name, h) = RefString(name, h)
    BY Zenon DEF LiteralName
  <1>8. LiteralBytes(4, 16, 0, name, h, value, g) = EncodeHeaderField(f)
    BY <1>2, <1>6, <1>7, Zenon DEF LiteralBytes
  <1>9. LiteralMeaning(0, name, value, TRUE) = <<Marked(f)>>
    BY <1>3, Zenon DEF LiteralMeaning
  <1>10. IsUnderstood(LiteralBytes(4, 16, 0, name, h, value, g),
                      LiteralMeaning(0, name, value, TRUE))
    <2>1. TRUE \in BOOLEAN
      OBVIOUS
    <2> QED
      BY <1>1, <1>5, <2>1, FlagsFit, Dispatching, LiteralUnderstood, Zenon
  <1> QED
    BY <1>4, <1>8, <1>9, <1>10

-----------------------------------------------------------------------------
(* Sequences of sequences, from the front.                                 *)

(* The images of the elements of s, one after the other. *)
Images(g, s) == [i \in 1..Len(s) |-> g[s[i]]]
Strung(g, s) == FlattenSeq(Images(g, s))

(* One more element has one more image. *)
ImagesGrow(B, g, s, x) ==
    /\ Images(g, s) \in Seq(Seq(B))
    /\ Images(g, Append(s, x)) = Append(Images(g, s), g[x])

(* The sequence of the images grows with the sequence. *)
LEMMA StrungImages ==
    ASSUME NEW A, NEW B, NEW g \in [A -> Seq(B)], NEW s \in Seq(A), NEW x \in A
    PROVE  ImagesGrow(B, g, s, x)
  <1> DEFINE T == Seq(B)
             n == Len(s)
             t == Append(s, x)
             p == [i \in 1..n |-> g[s[i]]]
             q == Append(p, g[x])
             u == [i \in 1..(n + 1) |-> g[t[i]]]
  <1>1. n \in Nat /\ \A i \in 1..n : s[i] \in A
    OBVIOUS
  <1>2. Len(t) = n + 1 /\ t[n + 1] = x /\ \A i \in 1..n : t[i] = s[i]
    OBVIOUS
  <1>3. g[x] \in T /\ \A y \in A : g[y] \in T
    OBVIOUS
  <1> DEFINE y == g[x]
  <1> HIDE DEF T, t, n, y
  <1>4. p \in Seq(T) /\ Len(p) = n /\ \A i \in 1..n : p[i] = g[s[i]]
    BY <1>1, <1>3
  <1>5. u[n + 1] = y /\ \A i \in 1..n : u[i] = p[i]
    <2>1. n + 1 \in 1..(n + 1) /\ \A i \in 1..n : i \in 1..(n + 1)
      BY <1>1
    <2>2. u[n + 1] = g[t[n + 1]] /\ \A i \in 1..n : u[i] = g[t[i]]
      BY <2>1, Zenon
    <2>3. g[x] = y
      BY DEF y
    <2> HIDE DEF u, p
    <2> QED
      BY <1>2, <1>4, <2>2, <2>3
  <1> HIDE DEF p
  <1> DEFINE r == Append(p, y)
  <1>6. r \in Seq(T) /\ Len(r) = n + 1 /\ r[n + 1] = y /\ \A i \in 1..n : r[i] = p[i]
    <2>1. y \in T
      BY <1>3 DEF y
    <2> QED
      BY <1>1, <1>4, <2>1
  <1>7. \A i \in 1..(n + 1) : i = n + 1 \/ i \in 1..n
    BY <1>1
  <1> HIDE DEF r
  <1>8. r = u
    <2> DEFINE N == 1..(n + 1)
    <2>1. r = [i \in N |-> r[i]]
      BY <1>6
    <2>2. \A i \in N : r[i] = u[i]
      <3> HIDE DEF u
      <3> QED
        BY <1>5, <1>6, <1>7
    <2> QED
      BY <2>1, <2>2
  <1>9. /\ Images(g, s) \in Seq(Seq(B))
        /\ Images(g, Append(s, x)) = Append(Images(g, s), g[x])
    BY <1>2, <1>4, <1>8 DEF r, u, p, n, t, y, T, Images
  <1> QED
    BY <1>9, Zenon DEF ImagesGrow

(* They grow at the end by the image of one more element, and begin with   *)
(* that of the first.                                                      *)
StrungLaws(A, B, g) ==
    /\ Strung(g, <<>>) = <<>>
    /\ \A s \in Seq(A) : Strung(g, s) \in Seq(B)
    /\ \A s \in Seq(A), x \in A : Strung(g, Append(s, x)) = Strung(g, s) \o g[x]
    /\ \A s \in Seq(A) : s # <<>> => Strung(g, s) = g[Head(s)] \o Strung(g, Tail(s))

(* From the same for FlattenSeq. *)
LEMMA StrungSteps ==
    ASSUME NEW A, NEW B, NEW g \in [A -> Seq(B)]
    PROVE  StrungLaws(A, B, g)
  <1>1. Strung(g, <<>>) = <<>>
    <2>1. Images(g, <<>>) = <<>>
      BY DEF Images
    <2> QED
      BY <2>1, FlattenType DEF Strung
  <1>2. ASSUME NEW s \in Seq(A) PROVE Strung(g, s) \in Seq(B)
    <2>1. CASE s = <<>>
      <3>1. <<>> \in Seq(B)
        OBVIOUS
      <3> QED
        BY <1>1, <2>1, <3>1
    <2>2. CASE s # <<>>
      <3>1. s[1] \in A
        BY <2>2
      <3>2. Images(g, s) \in Seq(Seq(B))
        BY <3>1, StrungImages, Zenon DEF ImagesGrow
      <3> QED
        BY <3>2, FlattenType DEF Strung
    <2> QED
      BY <2>1, <2>2
  <1>3. ASSUME NEW s \in Seq(A), NEW x \in A
        PROVE  Strung(g, Append(s, x)) = Strung(g, s) \o g[x]
    <2> DEFINE p == Images(g, s)
               y == g[x]
    <2>4. p \in Seq(Seq(B)) /\ Images(g, Append(s, x)) = Append(p, y)
      <3>1. ImagesGrow(B, g, s, x)
        BY StrungImages, Zenon
      <3> QED
        BY <3>1, Zenon DEF ImagesGrow
    <2>1. p \in Seq(Seq(B)) /\ y \in Seq(B) /\ Strung(g, Append(s, x)) = FlattenSeq(Append(p, y))
      BY <2>4 DEF Strung
    <2>2. Strung(g, s) = FlattenSeq(p)
      BY DEF Strung
    <2> HIDE DEF p, y
    <2>3. FlattenSeq(Append(p, y)) = FlattenSeq(p) \o y
      BY <2>1, FlattenAppend
    <2> QED
      BY <2>1, <2>2, <2>3 DEF y
  <1> DEFINE FromFront(s) == s # <<>> => Strung(g, s) = g[Head(s)] \o Strung(g, Tail(s))
             S == {s \in Seq(A) : FromFront(s)}
  <1>4. <<>> \in S
    OBVIOUS
  <1>5. ASSUME NEW s \in Seq(A), NEW x \in A, s \in S PROVE Append(s, x) \in S
    <2>1. Append(s, x) \in Seq(A) /\ g[x] \in Seq(B)
      OBVIOUS
    <2>2. CASE s = <<>>
      <3>1. Head(Append(s, x)) = x /\ Tail(Append(s, x)) = <<>>
        BY <2>2
      <3>2. Strung(g, Append(s, x)) = <<>> \o g[x]
        BY <1>1, <1>3, <2>2
      <3>3. <<>> \o g[x] = g[x] /\ g[x] \o <<>> = g[x]
        BY <2>1
      <3>4. FromFront(Append(s, x))
        BY <1>1, <3>1, <3>2, <3>3
      <3> QED
        BY <2>1, <3>4
    <2>3. CASE s # <<>>
      <3>1. /\ Head(s) \in A /\ Tail(s) \in Seq(A)
            /\ Head(Append(s, x)) = Head(s) /\ Tail(Append(s, x)) = Append(Tail(s), x)
        <4>1. Head(s) \in A /\ Tail(s) \in Seq(A)
          BY <2>3
        <4>2. Head(Append(s, x)) = Head(s)
          BY <2>3
        <4>3. Tail(Append(s, x)) = Append(Tail(s), x)
          <5> DEFINE a == Tail(Append(s, x))
                     b == Append(Tail(s), x)
                     n == Len(s)
          <5>1. a \in Seq(A) /\ b \in Seq(A) /\ Len(a) = n /\ Len(b) = n /\ n \in Nat /\ n >= 1
            <6> DEFINE w == Append(s, x)
                       v == Tail(s)
            <6>1. w \in Seq(A) /\ Len(w) = n + 1 /\ n \in Nat
              OBVIOUS
            <6>2. n >= 1 /\ v \in Seq(A) /\ Len(v) = n - 1
              BY <2>3
            <6> HIDE DEF w, v, n
            <6>3. w # <<>>
              BY <6>1
            <6>4. Tail(w) \in Seq(A) /\ Len(Tail(w)) = n
              BY <6>1, <6>3
            <6>5. Append(v, x) \in Seq(A) /\ Len(Append(v, x)) = n
              BY <6>1, <6>2
            <6> QED
              BY <6>1, <6>2, <6>4, <6>5 DEF w, v
          <5>2. ASSUME NEW i \in 1..n PROVE a[i] = b[i]
            <6>1. CASE i = n
              BY <2>3, <6>1
            <6>2. CASE i # n
              BY <2>3, <6>2
            <6> QED
              BY <6>1, <6>2
          <5> HIDE DEF a, b, n
          <5>3. a = [i \in 1..Len(a) |-> a[i]] /\ b = [i \in 1..Len(b) |-> b[i]]
            BY <5>1
          <5>4. a = b
            BY <5>1, <5>2, <5>3
          <5> QED
            BY <5>4 DEF a, b
        <4> QED
          BY <4>1, <4>2, <4>3
      <3> DEFINE h == g[Head(s)]
                 t == Strung(g, Tail(s))
                 y == g[x]
      <3>2. Strung(g, s) = h \o t
        BY <1>5, <2>3
      <3>3. h \in Seq(B) /\ t \in Seq(B) /\ y \in Seq(B)
        BY <1>2, <3>1
      <3>4. Strung(g, Append(s, x)) = (h \o t) \o y
        BY <1>3, <3>2
      <3>5. Strung(g, Append(Tail(s), x)) = t \o y
        BY <1>3, <3>1
      <3> HIDE DEF h, t, y
      <3>6. (h \o t) \o y = h \o (t \o y)
        <4>1. Associate(h, t, y)
          BY <3>3, ConcatAssoc, Zenon
        <4> QED
          BY <4>1, Zenon DEF Associate
      <3>7. Strung(g, Append(s, x)) = g[Head(Append(s, x))] \o Strung(g, Tail(Append(s, x)))
        BY <3>1, <3>4, <3>5, <3>6 DEF h
      <3> QED
        BY <2>1, <3>7
    <2> QED
      BY <2>2, <2>3
  <1> HIDE DEF FromFront
  <1> HIDE DEF S
  <1>6. \A s \in Seq(A) : s \in S
    BY <1>4, <1>5, SeqInduction
  <1>7. \A s \in Seq(A) : FromFront(s)
    BY <1>6 DEF S
  <1> QED
    BY <1>1, <1>2, <1>3, <1>7 DEF FromFront, StrungLaws

-----------------------------------------------------------------------------
(* Blocks, in the items they are made of.                                  *)

(* All the fields a block can mean; the bytes of an item and the fields    *)
(* they stand for, none or one; what an item of w's list is written as.    *)
Met == Fields \cup {Meaning(rep)[1] : rep \in Representations}
Items == {x \in [bytes : Seq(Nat), fields : Seq(Met)] : IsUnderstood(x.bytes, x.fields)}
Sources(w) == IF w = "server" THEN Fields ELSE Representations
ItemBytes(w, x) == IF w = "server" THEN EncodeHeaderField(x) ELSE Represent(x)
ItemFields(w, x) == IF w = "server" THEN <<Marked(x)>> ELSE Meaning(x)
Item(w, x) == [bytes |-> ItemBytes(w, x), fields |-> ItemFields(w, x)]
Pending(w, t) == [i \in 1..Len(t) |-> Item(w, t[i])]

BytesOf == [x \in Items |-> x.bytes]
FieldsOf == [x \in Items |-> x.fields]
WholeBlock(items) == Strung(BytesOf, items)
AllFields(items) == Strung(FieldsOf, items)

(* A block grows by an item at its end, and begins with the first of them, *)
LEMMA WholeBlockSteps ==
    /\ WholeBlock(<<>>) = <<>>
    /\ \A s \in Seq(Items) : WholeBlock(s) \in Seq(Nat)
    /\ \A s \in Seq(Items), x \in Items : WholeBlock(Append(s, x)) = WholeBlock(s) \o x.bytes
    /\ \A s \in Seq(Items) :
         s # <<>> => WholeBlock(s) = Head(s).bytes \o WholeBlock(Tail(s))
  <1>1. BytesOf \in [Items -> Seq(Nat)]
    BY DEF BytesOf, Items
  <1>2. \A x \in Items : BytesOf[x] = x.bytes
    BY DEF BytesOf
  <1>3. \A s \in Seq(Items) : s # <<>> => Head(s) \in Items
    OBVIOUS
  <1>4. /\ Strung(BytesOf, <<>>) = <<>>
        /\ \A s \in Seq(Items) : Strung(BytesOf, s) \in Seq(Nat)
        /\ \A s \in Seq(Items), x \in Items :
             Strung(BytesOf, Append(s, x)) = Strung(BytesOf, s) \o BytesOf[x]
        /\ \A s \in Seq(Items) :
             s # <<>> => Strung(BytesOf, s) = BytesOf[Head(s)] \o Strung(BytesOf, Tail(s))
    <2>1. StrungLaws(Items, Nat, BytesOf)
      BY <1>1, StrungSteps, Zenon
    <2> QED
      BY <2>1, Zenon DEF StrungLaws
  <1> QED
    BY <1>2, <1>3, <1>4 DEF WholeBlock

(* and so do the fields it stands for. *)
LEMMA AllFieldsSteps ==
    /\ AllFields(<<>>) = <<>>
    /\ \A s \in Seq(Items) : AllFields(s) \in Seq(Met)
    /\ \A s \in Seq(Items), x \in Items : AllFields(Append(s, x)) = AllFields(s) \o x.fields
    /\ \A s \in Seq(Items) :
         s # <<>> => AllFields(s) = Head(s).fields \o AllFields(Tail(s))
  <1>1. FieldsOf \in [Items -> Seq(Met)]
    BY DEF FieldsOf, Items
  <1>2. \A x \in Items : FieldsOf[x] = x.fields
    BY DEF FieldsOf
  <1>3. \A s \in Seq(Items) : s # <<>> => Head(s) \in Items
    OBVIOUS
  <1>4. /\ Strung(FieldsOf, <<>>) = <<>>
        /\ \A s \in Seq(Items) : Strung(FieldsOf, s) \in Seq(Met)
        /\ \A s \in Seq(Items), x \in Items :
             Strung(FieldsOf, Append(s, x)) = Strung(FieldsOf, s) \o FieldsOf[x]
        /\ \A s \in Seq(Items) :
             s # <<>> => Strung(FieldsOf, s) = FieldsOf[Head(s)] \o Strung(FieldsOf, Tail(s))
    <2>1. StrungLaws(Items, Met, FieldsOf)
      BY <1>1, StrungSteps, Zenon
    <2> QED
      BY <2>1, Zenon DEF StrungLaws
  <1> QED
    BY <1>2, <1>3, <1>4 DEF AllFields

(* What is in a list of the server or of a peer makes an item. *)
LEMMA ItemType ==
    ASSUME NEW w \in {"server", "peer"}, NEW x \in Sources(w)
    PROVE  Item(w, x) \in Items
  <1> DEFINE bytes == ItemBytes(w, x)
             fields == ItemFields(w, x)
  <1>1. IsUnderstood(bytes, fields) /\ fields \in Seq(Met)
    <2>1. CASE w = "server"
      <3>1. x \in Fields /\ bytes = EncodeHeaderField(x) /\ fields = <<Marked(x)>>
        BY <2>1 DEF Sources, ItemBytes, ItemFields
      <3>2. IsUnderstood(EncodeHeaderField(x), <<Marked(x)>>) /\ Marked(x) \in Met
        BY <3>1, FieldUnderstood DEF Met
      <3> DEFINE f == Marked(x)
      <3> HIDE DEF f, bytes, fields
      <3>3. <<f>> \in Seq(Met)
        BY <3>2 DEF f
      <3> QED
        BY <3>1, <3>2, <3>3 DEF f
    <2>2. CASE w # "server"
      <3>1. x \in Representations /\ bytes = Represent(x) /\ fields = Meaning(x)
        BY <2>2 DEF Sources, ItemBytes, ItemFields
      <3>2. IsUnderstood(Represent(x), Meaning(x))
        BY <3>1, RepresentationUnderstood
      <3>3. Meaning(x) = <<>> \/ Meaning(x) = <<Meaning(x)[1]>>
        <4>1. CASE x.form = "indexed"
          <5> DEFINE e == Entry(x.index)
          <5>1. Meaning(x) = <<e>>
            BY <4>1 DEF Meaning
          <5> HIDE DEF e
          <5> QED
            BY <5>1
        <4>2. CASE x.form # "indexed" /\ x.form = "resize"
          BY <4>2 DEF Meaning
        <4>3. CASE x.form # "indexed" /\ x.form # "resize"
          <5> DEFINE e == [name |-> IF x.index = 0 THEN x.name ELSE Entry(x.index).name,
                           value |-> x.value, sensitive |-> x.form = "never"]
          <5>1. Meaning(x) = <<e>>
            BY <4>3 DEF Meaning
          <5> HIDE DEF e
          <5> QED
            BY <5>1
        <4> QED
          BY <4>1, <4>2, <4>3
      <3>4. Meaning(x)[1] \in Met
        BY <3>1 DEF Met
      <3> DEFINE f == Meaning(x)[1]
                 m == Meaning(x)
      <3>5. m = <<>> \/ m = <<f>>
        BY <3>3
      <3>6. f \in Met
        BY <3>4
      <3> HIDE DEF f, m, bytes, fields
      <3>7. m \in Seq(Met)
        <4>1. <<>> \in Seq(Met) /\ <<f>> \in Seq(Met)
          BY <3>6
        <4> QED
          BY <3>5, <4>1, Zenon
      <3> QED
        BY <3>1, <3>2, <3>7 DEF m
    <2> QED
      BY <2>1, <2>2
  <1> HIDE DEF bytes, fields
  <1>2. bytes \in Seq(Nat)
    BY <1>1, Zenon DEF IsUnderstood
  <1> DEFINE item == [bytes |-> bytes, fields |-> fields]
  <1>3. item \in [bytes : Seq(Nat), fields : Seq(Met)] /\ item.bytes = bytes /\ item.fields = fields
    BY <1>1, <1>2
  <1>4. Item(w, x) = item
    BY Zenon DEF Item, bytes, fields
  <1> HIDE DEF item
  <1>5. item \in Items
    BY <1>1, <1>3, Zenon DEF Items
  <1> QED
    BY <1>4, <1>5

(* The first item of a list, and the others. *)
LEMMA PendingSteps ==
    ASSUME NEW w \in {"server", "peer"}, NEW t \in Seq(Sources(w))
    PROVE  /\ Pending(w, t) \in Seq(Items)
           /\ t = <<>> => Pending(w, t) = <<>>
           /\ t # <<>> => /\ Tail(t) \in Seq(Sources(w)) /\ Head(t) \in Sources(w)
                          /\ Pending(w, t) # <<>>
                          /\ Head(Pending(w, t)) = Item(w, Head(t))
                          /\ Tail(Pending(w, t)) = Pending(w, Tail(t))
  <1> DEFINE A == Sources(w)
             n == Len(t)
             p == Pending(w, t)
  <1>1. t \in Seq(A) /\ n \in Nat /\ \A i \in 1..n : t[i] \in A
    OBVIOUS
  <1>2. \A x \in A : Item(w, x) \in Items
    BY ItemType
  <1> HIDE DEF A
  <1>3. p \in Seq(Items) /\ Len(p) = n /\ \A i \in 1..n : p[i] = Item(w, t[i])
    BY <1>1, <1>2 DEF Pending
  <1>4. t = <<>> => p = <<>>
    BY <1>1, <1>3
  <1>5. ASSUME t # <<>>
        PROVE  /\ Tail(t) \in Seq(A) /\ Head(t) \in A /\ p # <<>>
               /\ Head(p) = Item(w, Head(t)) /\ Tail(p) = Pending(w, Tail(t))
    <2>1. /\ n >= 1 /\ Tail(t) \in Seq(A) /\ Head(t) \in A /\ Head(t) = t[1] /\ Len(Tail(t)) = n - 1
          /\ \A i \in 1..(n - 1) : Tail(t)[i] = t[i + 1]
      BY <1>1, <1>5
    <2> DEFINE u == Tail(t)
               q == Tail(p)
    <2> HIDE DEF n, p, u
    <2>2. p # <<>> /\ q \in Seq(Items) /\ Len(q) = n - 1 /\ Head(p) = p[1]
          /\ \A i \in 1..(n - 1) : q[i] = p[i + 1]
      BY <1>1, <1>3, <2>1
    <2> HIDE DEF q
    <2>3. \A i \in 1..(n - 1) : i + 1 \in 1..n
      BY <1>1, <2>1
    <2>4. \A i \in 1..(n - 1) : q[i] = Item(w, u[i])
      BY <1>3, <2>1, <2>2, <2>3 DEF u
    <2>5. q = [i \in 1..(n - 1) |-> q[i]]
      BY <2>2
    <2>6. q = [i \in 1..(n - 1) |-> Item(w, u[i])]
      BY <2>4, <2>5
    <2>7. q = Pending(w, u)
      BY <2>1, <2>6, Zenon DEF Pending, u
    <2>8. 1 \in 1..n
      BY <1>1, <2>1
    <2> QED
      BY <1>3, <2>1, <2>2, <2>7, <2>8 DEF q, u
  <1> QED
    BY <1>3, <1>4, <1>5 DEF A

(* One element more. *)
LEMMA ConcatOne ==
    ASSUME NEW B, NEW s \in Seq(B), NEW x \in B
    PROVE  /\ s \o <<x>> \in Seq(B) /\ Len(s \o <<x>>) = Len(s) + 1
           /\ (s \o <<x>>)[Len(s) + 1] = x
           /\ \A i \in 1..Len(s) : (s \o <<x>>)[i] = s[i]
  OBVIOUS

(* The fields of a list are those its items stand for. *)
LEMMA MeantByServer ==
    ASSUME NEW t \in Seq(Fields)
    PROVE  [i \in 1..Len(t) |-> Marked(t[i])] = AllFields(Pending("server", t))
  <1> DEFINE h == [f \in Fields |-> <<Marked(f)>>]
             M(s) == [i \in 1..Len(s) |-> Marked(s[i])]
             S == {s \in Seq(Fields) : Strung(h, s) = M(s)}
  <1>1. \A f \in Fields : Marked(f) \in Fields
    BY FieldUnderstood
  <1>2. h \in [Fields -> Seq(Fields)]
    <2>1. \A f \in Fields : <<Marked(f)>> \in Seq(Fields)
      <3> TAKE f \in Fields
      <3> DEFINE m == Marked(f)
      <3>1. m \in Fields
        BY <1>1
      <3> HIDE DEF m
      <3>2. <<m>> \in Seq(Fields)
        BY <3>1
      <3> QED
        BY <3>2 DEF m
    <2> QED
      BY <2>1
  <1>3. /\ Strung(h, <<>>) = <<>>
        /\ \A s \in Seq(Fields), f \in Fields : Strung(h, Append(s, f)) = Strung(h, s) \o h[f]
    <2> HIDE DEF h
    <2>1. StrungLaws(Fields, Fields, h)
      BY <1>2, StrungSteps, Zenon
    <2> QED
      BY <2>1, Zenon DEF StrungLaws
  <1>4. <<>> \in S
    <2>1. M(<<>>) = <<>>
      OBVIOUS
    <2> QED
      BY <1>3, <2>1
  <1>5. ASSUME NEW s \in Seq(Fields), NEW f \in Fields, s \in S PROVE Append(s, f) \in S
    <2> DEFINE n == Len(s)
               u == Append(s, f)
               e == Marked(f)
               m == M(s)
    <2>1. /\ n \in Nat /\ Len(u) = n + 1 /\ u \in Seq(Fields) /\ u[n + 1] = f
          /\ \A i \in 1..n : u[i] = s[i] /\ s[i] \in Fields
      OBVIOUS
    <2>2. Strung(h, s) = m
      BY <1>5
    <2>3. h[f] = <<e>>
      OBVIOUS
    <2>4. Strung(h, u) = m \o <<e>>
      BY <1>3, <2>2, <2>3
    <2>5. e \in Fields /\ m \in Seq(Fields) /\ Len(m) = n /\ \A i \in 1..n : m[i] = Marked(s[i])
      BY <1>1, <2>1
    <2> HIDE DEF m, e, u, n
    <2> DEFINE c == m \o <<e>>
    <2>6. /\ c \in Seq(Fields) /\ Len(c) = n + 1 /\ c[n + 1] = e
          /\ \A i \in 1..n : c[i] = m[i]
      BY <2>5, ConcatOne
    <2> HIDE DEF c
    <2>7. \A i \in 1..(n + 1) : i = n + 1 \/ i \in 1..n
      BY <2>1
    <2>8. \A i \in 1..(n + 1) : c[i] = Marked(u[i])
      BY <2>1, <2>5, <2>6, <2>7 DEF e
    <2>9. c = [i \in 1..(n + 1) |-> c[i]]
      BY <2>6
    <2>10. c = [i \in 1..(n + 1) |-> Marked(u[i])]
      BY <2>8, <2>9
    <2>11. M(u) = c
      BY <2>1, <2>10
    <2> QED
      BY <2>1, <2>4, <2>11 DEF c, u
  <1> HIDE DEF h
  <1>6. \A s \in Seq(Fields) : s \in S
    <2> HIDE DEF S
    <2> QED
      BY <1>4, <1>5, SeqInduction
  <1>7. Images(FieldsOf, Pending("server", t)) = Images(h, t)
    <2> DEFINE p == Pending("server", t)
               n == Len(t)
    <2>1. t \in Seq(Sources("server")) /\ "server" \in {"server", "peer"}
      BY DEF Sources
    <2>2. n \in Nat /\ \A i \in 1..n : t[i] \in Fields
      OBVIOUS
    <2>3. p = [i \in 1..n |-> Item("server", t[i])]
      BY Zenon DEF Pending
    <2>4. \A f \in Fields : Item("server", f) \in Items /\ FieldsOf[Item("server", f)] = h[f]
      <3> TAKE f \in Fields
      <3>1. Item("server", f) \in Items
        BY <2>1, ItemType DEF Sources
      <3>2. Item("server", f).fields = <<Marked(f)>>
        BY DEF Item, ItemFields
      <3> QED
        BY <3>1, <3>2 DEF FieldsOf, h
    <2> HIDE DEF p, n
    <2>5. Len(p) = n /\ \A i \in 1..n : p[i] = Item("server", t[i])
      BY <2>2, <2>3
    <2>6. [i \in 1..n |-> FieldsOf[p[i]]] = [i \in 1..n |-> h[t[i]]]
      BY <2>2, <2>4, <2>5
    <2> QED
      BY <2>5, <2>6, Zenon DEF Images, p, n
  <1> QED
    BY <1>6, <1>7 DEF AllFields, Strung

(* The same for a peer's representations, some of which stand for none. *)
LEMMA MeantByPeer ==
    ASSUME NEW t \in Seq(Representations)
    PROVE  FlattenSeq([i \in 1..Len(t) |-> Meaning(t[i])]) = AllFields(Pending("peer", t))
  <1> DEFINE p == Pending("peer", t)
             n == Len(t)
  <1>1. t \in Seq(Sources("peer")) /\ "peer" \in {"server", "peer"}
    BY DEF Sources
  <1>2. n \in Nat /\ \A i \in 1..n : t[i] \in Representations
    OBVIOUS
  <1>3. p = [i \in 1..n |-> Item("peer", t[i])]
    BY Zenon DEF Pending
  <1>4. \A x \in Representations : Item("peer", x) \in Items /\ FieldsOf[Item("peer", x)] = Meaning(x)
    <2> TAKE x \in Representations
    <2>1. Item("peer", x) \in Items
      BY <1>1, ItemType DEF Sources
    <2>2. Item("peer", x).fields = Meaning(x)
      BY DEF Item, ItemFields
    <2> QED
      BY <2>1, <2>2 DEF FieldsOf
  <1> HIDE DEF p, n
  <1>5. Len(p) = n /\ \A i \in 1..n : p[i] = Item("peer", t[i])
    BY <1>2, <1>3
  <1>6. [i \in 1..n |-> FieldsOf[p[i]]] = [i \in 1..n |-> Meaning(t[i])]
    BY <1>2, <1>4, <1>5
  <1>7. Images(FieldsOf, p) = [i \in 1..n |-> Meaning(t[i])]
    BY <1>5, <1>6, Zenon DEF Images
  <1> QED
    BY <1>7, Zenon DEF AllFields, Strung, p, n

-----------------------------------------------------------------------------
(* decodeHeaderFields.                                                     *)

(* While the block is written: the items in it and those still to come.    *)
BeforeReading ==
    /\ rest = <<>> /\ decoded = <<>> /\ error = ""
    /\ \E written \in Seq(Items) :
          /\ block = WholeBlock(written)
          /\ meant = AllFields(written) \o AllFields(Pending(writer, todo))

(* Then: the items decoded, and those that are not; at an error the first  *)
(* of these refers past the static table.                                  *)
AfterReading ==
    /\ todo = <<>>
    /\ \E read, unread \in Seq(Items) :
          /\ meant = AllFields(read) \o AllFields(unread)
          /\ decoded = AllFields(read)
          /\ rest = WholeBlock(unread)
          /\ error # "" =>
                /\ unread # <<>>
                /\ Head(unread).fields # <<>>
                /\ Head(unread).fields[1].name \in {Entry(61).name, Unknown.name}

DecodingInv ==
    /\ writer \in {"server", "peer"}
    /\ todo \in Seq(Sources(writer))
    /\ ~reading => BeforeReading
    /\ reading => AfterReading

(* At first nothing is written, and all items are to come. *)
LEMMA DecodingInvInit ==
    ASSUME Init
    PROVE  DecodingInv
  <1>1. /\ block = <<>> /\ reading = FALSE /\ rest = <<>> /\ decoded = <<>> /\ error = ""
        /\ writer \in {"server", "peer"}
    BY DEF Init
  <1>2. todo \in Seq(Sources(writer)) /\ meant = AllFields(Pending(writer, todo))
    <2>1. CASE writer = "server"
      <3>1. todo \in FieldLists /\ meant = [i \in 1..Len(todo) |-> Marked(todo[i])]
        BY <2>1 DEF Init, Marked
      <3>2. todo \in Seq(Fields)
        BY <3>1, FieldListsAssumption
      <3> QED
        BY <2>1, <3>1, <3>2, MeantByServer DEF Sources
    <2>2. CASE writer = "peer"
      <3>1. todo \in PeerLists /\ meant = FlattenSeq([i \in 1..Len(todo) |-> Meaning(todo[i])])
        BY <2>2 DEF Init
      <3>2. todo \in Seq(Representations)
        BY <3>1, PeerListsAssumption
      <3> QED
        BY <2>2, <3>1, <3>2, MeantByPeer DEF Sources
    <2> QED
      BY <1>1, <2>1, <2>2
  <1>3. Pending(writer, todo) \in Seq(Items)
    BY <1>1, <1>2, PendingSteps
  <1> DEFINE m == AllFields(Pending(writer, todo))
  <1>4. m \in Seq(Met)
    BY <1>3, AllFieldsSteps
  <1>5. <<>> \in Seq(Items) /\ block = WholeBlock(<<>>) /\ meant = AllFields(<<>>) \o m
    <2> HIDE DEF m
    <2>1. <<>> \o m = m
      BY <1>4
    <2>2. <<>> \in Seq(Items)
      OBVIOUS
    <2>3. block = WholeBlock(<<>>) /\ AllFields(<<>>) = <<>>
      BY <1>1, WholeBlockSteps, AllFieldsSteps
    <2>4. meant = m
      BY <1>2 DEF m
    <2> QED
      BY <2>1, <2>2, <2>3, <2>4
  <1>6. BeforeReading
    BY <1>1, <1>5, Zenon DEF BeforeReading
  <1> QED
    BY <1>1, <1>2, <1>6 DEF DecodingInv

(* The first of several items, and the others. *)
LEMMA ItemsParts ==
    \A s \in Seq(Items) : s # <<>> => Head(s) \in Items /\ Tail(s) \in Seq(Items)
  OBVIOUS

(* One more item is written. *)
LEMMA ItemWritten ==
    ASSUME BeforeReading, writer \in {"server", "peer"}, todo \in Seq(Sources(writer)),
           todo # <<>>, block' = block \o ItemBytes(writer, Head(todo)), todo' = Tail(todo),
           UNCHANGED <<writer, meant, reading, rest, decoded, error>>
    PROVE  BeforeReading' /\ todo' \in Seq(Sources(writer'))
  <1> DEFINE p == Pending(writer, todo)
             x == Item(writer, Head(todo))
             q == Pending(writer, Tail(todo))
  <1>1. /\ rest = <<>> /\ decoded = <<>> /\ error = ""
        /\ \E written \in Seq(Items) :
              /\ block = WholeBlock(written)
              /\ meant = AllFields(written) \o AllFields(p)
    BY Zenon DEF BeforeReading
  <1>2. PICK written \in Seq(Items) : /\ block = WholeBlock(written)
                                      /\ meant = AllFields(written) \o AllFields(p)
    BY <1>1
  <1>3. /\ p \in Seq(Items) /\ p # <<>> /\ Head(p) = x /\ Tail(p) = q
        /\ Tail(todo) \in Seq(Sources(writer))
    BY PendingSteps
  <1>4. x.bytes = ItemBytes(writer, Head(todo))
    BY DEF Item
  <1> HIDE DEF p, x, q
  <1>5. x \in Items /\ q \in Seq(Items) /\ AllFields(p) = x.fields \o AllFields(q)
    <2>1. x \in Items /\ q \in Seq(Items)
      BY <1>3, ItemsParts
    <2> QED
      BY <1>3, <2>1, AllFieldsSteps
  <1> DEFINE more == Append(written, x)
  <1>6. more \in Seq(Items)
    BY <1>2, <1>5
  <1>7. WholeBlock(more) = block'
    BY <1>2, <1>4, <1>5, WholeBlockSteps
  <1>8. AllFields(more) \o AllFields(q) = meant
    <2> DEFINE a == AllFields(written)
               b == x.fields
               c == AllFields(q)
    <2>1. a \in Seq(Met) /\ b \in Seq(Met) /\ c \in Seq(Met)
      BY <1>2, <1>5, AllFieldsSteps DEF Items
    <2>2. AllFields(more) = a \o b
      BY <1>2, <1>5, AllFieldsSteps
    <2>3. meant = a \o (b \o c)
      BY <1>2, <1>5
    <2> HIDE DEF a, b, c, more
    <2>4. Associate(a, b, c)
      BY <2>1, ConcatAssoc, Zenon
    <2> QED
      BY <2>2, <2>3, <2>4, Zenon DEF Associate, c
  <1> HIDE DEF more
  <1>9. q = Pending(writer', todo')
    BY DEF q
  <1>10. /\ rest' = <<>> /\ decoded' = <<>> /\ error' = ""
         /\ \E w \in Seq(Items) :
               /\ block' = WholeBlock(w)
               /\ meant' = AllFields(w) \o AllFields(Pending(writer', todo'))
    BY <1>1, <1>6, <1>7, <1>8, <1>9
  <1> QED
    BY <1>3, <1>10 DEF BeforeReading

(* The block is complete: all its items are to be decoded. *)
LEMMA BlockDelivered ==
    ASSUME BeforeReading, writer \in {"server", "peer"}, Deliver
    PROVE  AfterReading'
  <1>1. /\ todo = <<>> /\ rest' = block /\ todo' = <<>>
        /\ meant' = meant /\ decoded' = decoded /\ error' = error
    BY DEF Deliver
  <1>2. PICK written \in Seq(Items) :
            /\ block = WholeBlock(written)
            /\ meant = AllFields(written) \o AllFields(Pending(writer, todo))
    BY Zenon DEF BeforeReading
  <1>3. Pending(writer, todo) = <<>>
    <2>1. <<>> \in Seq(Sources(writer))
      OBVIOUS
    <2> QED
      BY <1>1, <2>1, PendingSteps
  <1> DEFINE a == AllFields(written)
  <1>4. a \in Seq(Met) /\ AllFields(<<>>) = <<>>
    BY <1>2, AllFieldsSteps
  <1>5. meant = a \o <<>>
    BY <1>2, <1>3, <1>4
  <1>6. <<>> \o a = a /\ a \o <<>> = a
    <2> HIDE DEF a
    <2> QED
      BY <1>4
  <1>7. decoded = <<>> /\ error = ""
    BY Zenon DEF BeforeReading
  <1>8. /\ <<>> \in Seq(Items) /\ written \in Seq(Items)
        /\ meant' = AllFields(<<>>) \o AllFields(written)
        /\ decoded' = AllFields(<<>>)
        /\ rest' = WholeBlock(written)
        /\ ~(error' # "")
    <2>1. <<>> \in Seq(Items)
      OBVIOUS
    <2> QED
      BY <1>1, <1>2, <1>4, <1>5, <1>6, <1>7, <2>1
  <1>9. \E read, unread \in Seq(Items) :
          /\ meant' = AllFields(read) \o AllFields(unread)
          /\ decoded' = AllFields(read)
          /\ rest' = WholeBlock(unread)
          /\ error' # "" =>
                /\ unread # <<>>
                /\ Head(unread).fields # <<>>
                /\ Head(unread).fields[1].name \in {Entry(61).name, Unknown.name}
    BY <1>8, Zenon
  <1> QED
    BY <1>1, <1>9 DEF AfterReading

(* The first of the items left is decoded, or refused. *)
LEMMA ItemDecoded ==
    ASSUME AfterReading, Decode
    PROVE  AfterReading'
  <1>1. /\ rest # <<>> /\ error = "" /\ meant' = meant /\ todo' = todo
        /\ \/ /\ DecodeHeaderField(rest).ok
              /\ decoded' = decoded \o DecodeHeaderField(rest).value
              /\ rest' = DecodeHeaderField(rest).rest
              /\ error' = error
           \/ /\ ~DecodeHeaderField(rest).ok
              /\ rest' = rest /\ decoded' = decoded
    BY DEF Decode
  <1>2. PICK read \in Seq(Items), unread \in Seq(Items) :
            /\ meant = AllFields(read) \o AllFields(unread)
            /\ decoded = AllFields(read)
            /\ rest = WholeBlock(unread)
    BY Zenon DEF AfterReading
  <1>3. unread # <<>>
    BY <1>1, <1>2, WholeBlockSteps
  <1> DEFINE x == Head(unread)
             left == Tail(unread)
             bytes == x.bytes
             fields == x.fields
             tail == WholeBlock(left)
  <1>4. x \in Items /\ left \in Seq(Items)
    BY <1>2, <1>3, ItemsParts
  <1>5. /\ rest = bytes \o tail /\ AllFields(unread) = fields \o AllFields(left)
        /\ tail \in Seq(Nat) /\ fields \in Seq(Met) /\ Understood(bytes, fields)
    <2>1. x \in Items => fields \in Seq(Met) /\ IsUnderstood(bytes, fields)
      <3> HIDE DEF x
      <3> QED
        BY DEF Items
    <2>2. rest = bytes \o tail /\ AllFields(unread) = fields \o AllFields(left) /\ tail \in Seq(Nat)
      BY <1>2, <1>3, <1>4, WholeBlockSteps, AllFieldsSteps
    <2> HIDE DEF x, left, bytes, fields, tail
    <2> QED
      BY <1>4, <2>1, <2>2, Zenon DEF IsUnderstood
  <1> HIDE DEF bytes, fields, tail
  <1> DEFINE Known(r, u) == /\ meant' = AllFields(r) \o AllFields(u)
                            /\ decoded' = AllFields(r)
                            /\ rest' = WholeBlock(u)
                            /\ error' # "" =>
                                  /\ u # <<>>
                                  /\ Head(u).fields # <<>>
                                  /\ Head(u).fields[1].name \in {Entry(61).name, Unknown.name}
  <1>6. ASSUME DecodeHeaderField(rest) = Ok(fields, tail)
        PROVE  \E r, u \in Seq(Items) : Known(r, u)
    <2>1. /\ DecodeHeaderField(rest).ok /\ DecodeHeaderField(rest).value = fields
          /\ DecodeHeaderField(rest).rest = tail
      BY <1>6 DEF Ok
    <2>2. decoded' = decoded \o fields /\ rest' = tail /\ error' = ""
      BY <1>1, <2>1
    <2> DEFINE a == AllFields(read)
               c == AllFields(left)
               more == Append(read, x)
    <2> HIDE DEF x, left
    <2>3. more \in Seq(Items) /\ AllFields(more) = a \o fields /\ a \in Seq(Met) /\ c \in Seq(Met)
      <3>1. more \in Seq(Items)
        BY <1>2, <1>4
      <3> QED
        BY <1>2, <1>4, <3>1, AllFieldsSteps DEF fields
    <2>4. meant = a \o (fields \o c)
      BY <1>2, <1>5
    <2>5. decoded = a
      BY <1>2
    <2> HIDE DEF a, c, more
    <2>6. Associate(a, fields, c)
      BY <1>5, <2>3, ConcatAssoc, Zenon
    <2>7. meant = AllFields(more) \o c
      BY <2>3, <2>4, <2>6, Zenon DEF Associate
    <2>8. Known(more, left)
      BY <1>1, <2>2, <2>3, <2>5, <2>7 DEF tail, c
    <2> HIDE DEF Known
    <2> QED
      BY <1>4, <2>3, <2>8 DEF left
  <1>7. ASSUME DecodeHeaderField(rest) = Error(NoDynamicTable),
               fields # <<>>, fields[1].name \in {Entry(61).name, Unknown.name}
        PROVE  \E r, u \in Seq(Items) : Known(r, u)
    <2>1. ~DecodeHeaderField(rest).ok
      BY <1>7 DEF Error
    <2>2. rest' = rest /\ decoded' = decoded
      BY <1>1, <2>1
    <2>3. Known(read, unread)
      BY <1>1, <1>2, <1>3, <1>7, <2>2 DEF fields
    <2> HIDE DEF Known
    <2> QED
      BY <1>2, <2>3
  <1>8. \/ DecodeHeaderField(rest) = Ok(fields, tail)
        \/ /\ DecodeHeaderField(rest) = Error(NoDynamicTable)
           /\ fields # <<>> /\ fields[1].name \in {Entry(61).name, Unknown.name}
    BY <1>5, Zenon DEF Understood
  <1>9. \E r, u \in Seq(Items) : Known(r, u)
    <2> HIDE DEF Known
    <2> QED
      BY <1>6, <1>7, <1>8
  <1>10. todo' = <<>>
    BY <1>1, Zenon DEF AfterReading
  <1> QED
    BY <1>9, <1>10, Zenon DEF AfterReading

(* Every step keeps it. *)
LEMMA DecodingInvNext ==
    ASSUME DecodingInv, [Next]_vars
    PROVE  DecodingInv'
  <1>1. writer \in {"server", "peer"} /\ todo \in Seq(Sources(writer))
    BY DEF DecodingInv
  <1>2. CASE ServerEncodes
    <2>1. /\ writer = "server" /\ todo # <<>> /\ todo' = Tail(todo)
          /\ block' = block \o EncodeHeaderField(Head(todo))
          /\ UNCHANGED <<writer, meant, reading, rest, decoded, error>>
      BY <1>2 DEF ServerEncodes
    <2>2. ~reading /\ BeforeReading
      BY <2>1, Zenon DEF DecodingInv, AfterReading
    <2>3. block' = block \o ItemBytes(writer, Head(todo))
      BY <2>1 DEF ItemBytes
    <2>4. BeforeReading' /\ todo' \in Seq(Sources(writer'))
      BY <1>1, <2>1, <2>2, <2>3, ItemWritten
    <2> QED
      BY <1>1, <2>1, <2>2, <2>4 DEF DecodingInv
  <1>3. CASE PeerEncodes
    <2>1. /\ writer = "peer" /\ todo # <<>> /\ todo' = Tail(todo)
          /\ block' = block \o Represent(Head(todo))
          /\ UNCHANGED <<writer, meant, reading, rest, decoded, error>>
      BY <1>3 DEF PeerEncodes
    <2>2. ~reading /\ BeforeReading
      BY <2>1, Zenon DEF DecodingInv, AfterReading
    <2>3. block' = block \o ItemBytes(writer, Head(todo))
      BY <2>1 DEF ItemBytes
    <2>4. BeforeReading' /\ todo' \in Seq(Sources(writer'))
      BY <1>1, <2>1, <2>2, <2>3, ItemWritten
    <2> QED
      BY <1>1, <2>1, <2>2, <2>4 DEF DecodingInv
  <1>4. CASE Deliver
    <2>1. ~reading /\ reading' = TRUE /\ UNCHANGED <<writer, todo>>
      BY <1>4 DEF Deliver
    <2>2. BeforeReading
      BY <2>1, Zenon DEF DecodingInv
    <2>3. AfterReading'
      BY <1>1, <1>4, <2>2, BlockDelivered
    <2> QED
      BY <1>1, <2>1, <2>3 DEF DecodingInv
  <1>5. CASE Decode
    <2>1. rest # <<>> /\ UNCHANGED <<writer, todo, reading>>
      BY <1>5 DEF Decode
    <2>2. reading /\ AfterReading
      BY <2>1, Zenon DEF DecodingInv, BeforeReading
    <2>3. AfterReading'
      BY <1>5, <2>2, ItemDecoded
    <2> QED
      BY <1>1, <2>1, <2>2, <2>3 DEF DecodingInv
  <1>6. CASE UNCHANGED vars
    BY <1>6 DEF vars, DecodingInv, BeforeReading, AfterReading
  <1> QED
    BY <1>2, <1>3, <1>4, <1>5, <1>6 DEF Next

(* What is decoded so far is the beginning of what was meant; it is all of *)
(* it when no bytes are left, as an item has at least one.                 *)
LEMMA DecodingInvMeaning ==
    ASSUME DecodingInv
    PROVE  DecodesMeaning
  <1>1. CASE ~reading
    <2>1. decoded = <<>> /\ error = "" /\ rest = <<>>
      BY <1>1, Zenon DEF DecodingInv, BeforeReading
    <2>2. PICK written \in Seq(Items) :
              meant = AllFields(written) \o AllFields(Pending(writer, todo))
      BY <1>1, Zenon DEF DecodingInv, BeforeReading
    <2>3. Pending(writer, todo) \in Seq(Items)
      BY PendingSteps DEF DecodingInv
    <2> DEFINE a == AllFields(written)
               b == AllFields(Pending(writer, todo))
    <2>4. a \in Seq(Met) /\ b \in Seq(Met)
      BY <2>2, <2>3, AllFieldsSteps
    <2>5. meant \in Seq(Met)
      <3> HIDE DEF a, b
      <3>1. a \o b \in Seq(Met)
        BY <2>4
      <3> QED
        BY <2>2, <3>1 DEF a, b
    <2>6. Len(<<>>) <= Len(meant) /\ SubSeq(<<>>, 1, Len(<<>>)) = SubSeq(meant, 1, Len(<<>>))
      BY <2>5
    <2> QED
      BY <1>1, <2>1, <2>6 DEF DecodesMeaning, IsPrefix
  <1>2. CASE reading
    <2>1. PICK read \in Seq(Items), unread \in Seq(Items) :
              /\ meant = AllFields(read) \o AllFields(unread)
              /\ decoded = AllFields(read)
              /\ rest = WholeBlock(unread)
              /\ error # "" =>
                    /\ unread # <<>>
                    /\ Head(unread).fields # <<>>
                    /\ Head(unread).fields[1].name \in {Entry(61).name, Unknown.name}
      BY <1>2, Zenon DEF DecodingInv, AfterReading
    <2> DEFINE a == AllFields(read)
               b == AllFields(unread)
    <2>2. a \in Seq(Met) /\ b \in Seq(Met) /\ meant = a \o b /\ decoded = a
      BY <2>1, AllFieldsSteps
    <2>3. IsPrefix(decoded, meant)
      <3> HIDE DEF a, b
      <3>1. SubSeq(a \o b, 1, Len(a)) = a /\ SubSeq(a, 1, Len(a)) = a /\ Len(a) <= Len(a \o b)
        <4>1. SubSeq(a, 1, Len(a)) = a /\ Len(a) <= Len(a \o b)
          BY <2>2
        <4>2. SubSeq(a \o b, 1, Len(a)) = a
          BY <2>2, ConcatSplit
        <4> QED
          BY <4>1, <4>2
      <3> QED
        BY <2>2, <3>1 DEF IsPrefix
    <2>4. ASSUME rest = <<>> PROVE decoded = meant
      <3>1. unread = <<>>
        <4> SUFFICES ASSUME unread # <<>> PROVE FALSE
          OBVIOUS
        <4> DEFINE x == Head(unread)
                   bytes == x.bytes
                   tail == WholeBlock(Tail(unread))
        <4>1. x \in Items /\ Tail(unread) \in Seq(Items)
          BY <2>1, ItemsParts
        <4>2. rest = bytes \o tail /\ tail \in Seq(Nat)
          BY <2>1, <4>1, WholeBlockSteps
        <4>3. bytes \in Seq(Nat) /\ bytes # <<>>
          <5>1. IsUnderstood(x.bytes, x.fields)
            <6> HIDE DEF x
            <6> QED
              BY <4>1 DEF Items
          <5> HIDE DEF x
          <5> QED
            BY <5>1, Zenon DEF IsUnderstood
        <4> HIDE DEF bytes, tail
        <4>4. bytes \o tail # <<>>
          BY <4>2, <4>3
        <4> QED
          BY <2>4, <4>2, <4>4
      <3>2. b = <<>>
        BY <3>1, AllFieldsSteps
      <3> HIDE DEF a, b
      <3>3. a \o <<>> = a
        BY <2>2
      <3> QED
        BY <2>2, <3>2, <3>3
    <2>5. ASSUME error # ""
          PROVE  meant[Len(decoded) + 1].name \in {Entry(61).name, Unknown.name}
      <3> DEFINE x == Head(unread)
                 fields == x.fields
                 c == AllFields(Tail(unread))
      <3>1. unread # <<>> /\ fields # <<>> /\ fields[1].name \in {Entry(61).name, Unknown.name}
        BY <2>1, <2>5
      <3>2. x \in Items /\ Tail(unread) \in Seq(Items)
        BY <2>1, <3>1, ItemsParts
      <3>3. b = fields \o c /\ c \in Seq(Met)
        BY <2>1, <3>1, <3>2, AllFieldsSteps
      <3>4. fields \in Seq(Met)
        <4> HIDE DEF x
        <4> QED
          BY <3>2 DEF Items
      <3> HIDE DEF a, b, x, fields, c
      <3>5. 1 \in 1..Len(fields)
        BY <3>1, <3>4
      <3>6. b[1] = fields[1] /\ Len(b) >= 1
        <4>1. \A i \in 1..Len(fields) : (fields \o c)[i] = fields[i]
          BY <3>3, <3>4, ConcatParts
        <4>2. Len(fields \o c) = Len(fields) + Len(c)
          BY <3>3, <3>4
        <4> QED
          BY <3>3, <3>4, <3>5, <4>1, <4>2
      <3>7. Len(a) + 1 \in (Len(a) + 1)..(Len(a) + Len(b)) /\ (Len(a) + 1) - Len(a) = 1
        BY <2>2, <3>6
      <3>8. (a \o b)[Len(a) + 1] = b[1]
        <4>1. \A i \in (Len(a) + 1)..(Len(a) + Len(b)) : (a \o b)[i] = b[i - Len(a)]
          BY <2>2, ConcatParts
        <4> QED
          BY <3>7, <4>1
      <3> QED
        BY <2>2, <3>1, <3>6, <3>8
    <2> QED
      BY <2>3, <2>4, <2>5 DEF DecodesMeaning
  <1> QED
    BY <1>1, <1>2

(* For every list of fields the server writes, and every list of           *)
(* representations a peer sends, decodeHeaderFields finds the fields they  *)
(* stand for, in order and nothing else, and it refuses a block only at a  *)
(* reference past index 60 of the static table.                            *)
THEOREM BlocksAreDecoded == Spec => []DecodesMeaning
  <1>1. Init => DecodingInv
    BY DecodingInvInit
  <1>2. DecodingInv /\ [Next]_vars => DecodingInv'
    BY DecodingInvNext
  <1>3. DecodingInv => DecodesMeaning
    BY DecodingInvMeaning
  <1> QED
    BY <1>1, <1>2, <1>3, PTL DEF Spec
=============================================================================
