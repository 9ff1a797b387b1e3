-------------------------- MODULE PbAnswersProofs --------------------------
(***************************************************************************)
(* What PbAnswers states, for all descriptors, structures and buffers.     *)
(***************************************************************************)
EXTENDS PbAnswers, FiniteSetTheorems, TLAPS

Nats == INSTANCE FoldLaws WITH V <- Nat, B <- Nat, op <- +

-----------------------------------------------------------------------------
(* Words of bits.                                                          *)

Bit == {0, 1}

(* The powers a word is cut up by. *)
LEMMA PowersPositive == \A n \in 0..30 : 2^n \in Nat \ {0}
  <1> DEFINE P == Nat \ {0}
  <1>1. /\ 2^0 \in P /\ 2^1 \in P /\ 2^2 \in P /\ 2^3 \in P /\ 2^4 \in P /\ 2^5 \in P
        /\ 2^6 \in P /\ 2^7 \in P /\ 2^8 \in P /\ 2^9 \in P /\ 2^10 \in P /\ 2^11 \in P
        /\ 2^12 \in P /\ 2^13 \in P /\ 2^14 \in P /\ 2^15 \in P /\ 2^16 \in P /\ 2^17 \in P
        /\ 2^18 \in P /\ 2^19 \in P /\ 2^20 \in P /\ 2^21 \in P /\ 2^22 \in P /\ 2^23 \in P
        /\ 2^24 \in P /\ 2^25 \in P /\ 2^26 \in P /\ 2^27 \in P /\ 2^28 \in P /\ 2^29 \in P
        /\ 2^30 \in P
    OBVIOUS
  <1>2. ASSUME NEW n \in 0..30 PROVE 2^n \in P
    <2>1. n \in {0, 1, 2, 3, 4, 5, 6, 7, 8, 9, 10, 11, 12, 13, 14, 15, 16, 17, 18, 19, 20,
                 21, 22, 23, 24, 25, 26, 27, 28, 29, 30}
      OBVIOUS
    <2> HIDE DEF P
    <2> QED
      BY <1>1, <2>1
  <1> QED
    BY <1>2

LEMMA WordType ==
    ASSUME NEW v \in Nat, NEW n \in Nat
    PROVE  Word(v, n) \in Seq(Bit) /\ Len(Word(v, n)) = n
  <1>1. ASSUME NEW i \in 1..n
        PROVE  (CASE i <= 31 -> (v \div 2^(i - 1)) % 2 [] i > 31 -> IF v < 0 THEN 1 ELSE 0) \in Bit
    <2>1. CASE i <= 31
      <3> DEFINE p == 2^(i - 1)
      <3>1. i - 1 \in 0..30
        BY <2>1
      <3>2. p \in Nat \ {0}
        BY <3>1, PowersPositive
      <3> HIDE DEF p
      <3>3. v \div p \in Nat
        BY <3>2
      <3>4. \A x \in Nat : x % 2 \in Bit
        BY DEF Bit
      <3>5. (v \div p) % 2 \in Bit
        BY <3>3, <3>4
      <3> QED
        BY <2>1, <3>5 DEF p
    <2>2. CASE i > 31
      BY <2>2 DEF Bit
    <2> QED
      BY <2>1, <2>2
  <1> QED
    BY <1>1 DEF Word

LEMMA UnsignedType ==
    ASSUME NEW w \in Seq(Bit), NEW n \in Nat
    PROVE  Unsigned(w, n) \in Seq(Bit) /\ Len(Unsigned(w, n)) = n
  <1>1. \A i \in 1..n : (IF i <= Len(w) THEN w[i] ELSE 0) \in Bit
    BY DEF Bit
  <1> QED
    BY <1>1 DEF Unsigned

LEMMA SignedType ==
    ASSUME NEW w \in Seq(Bit), w # <<>>, NEW n \in Nat
    PROVE  Signed(w, n) \in Seq(Bit) /\ Len(Signed(w, n)) = n
  <1>1. \A i \in 1..n : (IF i <= Len(w) THEN w[i] ELSE w[Len(w)]) \in Bit
    OBVIOUS
  <1> QED
    BY <1>1 DEF Signed

LEMMA NotType ==
    ASSUME NEW w \in Seq(Bit)
    PROVE  Not(w) \in Seq(Bit)
  <1>1. \A i \in DOMAIN w : 1 - w[i] \in Bit
    BY DEF Bit
  <1>2. DOMAIN w = 1..Len(w) /\ Len(w) \in Nat
    OBVIOUS
  <1> QED
    BY <1>1, <1>2 DEF Not

(* The number of a word, counted from its high end. *)
LEMMA NaturalType ==
    ASSUME NEW w \in Seq(Bit)
    PROVE  Natural(w) \in Nat
  <1> DEFINE Body(From, i) == IF i > Len(w) \/ i = 32 THEN 0 ELSE w[i] + 2 * From[i + 1]
             From[i \in 1..32] == IF i > Len(w) \/ i = 32 THEN 0 ELSE w[i] + 2 * From[i + 1]
             IsFrom(f) == f = [i \in 1..32 |-> Body(f, i)]
             G == [n \in Nat |-> [v \in Nat |->
                     IF 32 - n \in 1..Len(w) THEN w[32 - n] + 2 * v ELSE 0]]
             D == [n \in Nat |-> IF n = 0 THEN 0 ELSE n - 1]
             A == [n \in Nat |-> 0]
  <1>1. D \in [Nat -> Nat] /\ (\A n \in Nat : 1 <= n => D[n] < n) /\ A \in [Nat -> Nat]
    OBVIOUS
  <1>2. G \in [Nat -> [Nat -> Nat]]
    <2>1. \A n, v \in Nat : (IF 32 - n \in 1..Len(w) THEN w[32 - n] + 2 * v ELSE 0) \in Nat
      BY DEF Bit
    <2> QED
      BY <2>1
  <1>3. PICK g : Nats!IsRecursive(Nat, 1, D, A, G, g)
    <2>1. Nats!Shrinks(1, D)
      BY <1>1 DEF Nats!Shrinks
    <2>2. 1 \in Nat \ {0}
      OBVIOUS
    <2> HIDE DEF D, A, G
    <2> QED
      BY <1>1, <1>2, <2>1, <2>2, Nats!RecursiveFunction
  <1>4. g \in [Nat -> Nat] /\ g[0] = 0
    <2>1. g \in [Nat -> Nat] /\ (\A i \in Nat : i < 1 => g[i] = A[i])
      <3> HIDE DEF D, A, G
      <3> QED
        BY <1>3 DEF Nats!IsRecursive
    <2> QED
      BY <2>1
  <1>5. \A n \in Nat : 1 <= n => g[n] = IF 32 - n \in 1..Len(w) THEN w[32 - n] + 2 * g[n - 1] ELSE 0
    <2>1. \A i \in Nat : 1 <= i => g[i] = G[i][g[D[i]]]
      <3> HIDE DEF D, A, G
      <3> QED
        BY <1>3 DEF Nats!IsRecursive
    <2>2. ASSUME NEW n \in Nat, 1 <= n
          PROVE  g[n] = IF 32 - n \in 1..Len(w) THEN w[32 - n] + 2 * g[n - 1] ELSE 0
      <3>1. D[n] = n - 1 /\ n - 1 \in Nat /\ g[n - 1] \in Nat
        BY <1>4, <2>2
      <3>2. \A v \in Nat : G[n][v] = IF 32 - n \in 1..Len(w) THEN w[32 - n] + 2 * v ELSE 0
        BY Zenon
      <3> HIDE DEF D, G
      <3>3. g[n] = G[n][g[n - 1]]
        BY <2>1, <2>2, <3>1
      <3> QED
        BY <3>1, <3>2, <3>3
    <2> QED
      BY <2>2
  <1> DEFINE f == [i \in 1..32 |-> g[32 - i]]
  <1>6. IsFrom(f)
    <2>1. ASSUME NEW i \in 1..32 PROVE g[32 - i] = Body(f, i)
      <3>1. CASE i = 32
        BY <1>4, <3>1
      <3>2. CASE i # 32
        <4>1. /\ 32 - i \in Nat /\ 1 <= 32 - i /\ 32 - (32 - i) = i /\ i + 1 \in 1..32
              /\ (32 - i) - 1 = 32 - (i + 1)
          BY <3>2
        <4>2. f[i + 1] = g[(32 - i) - 1]
          BY <4>1
        <4>3. g[32 - i] = IF i \in 1..Len(w) THEN w[i] + 2 * g[(32 - i) - 1] ELSE 0
          BY <1>5, <4>1
        <4>4. i \in 1..Len(w) <=> ~(i > Len(w))
          OBVIOUS
        <4> HIDE DEF f
        <4> QED
          BY <3>2, <4>2, <4>3, <4>4
      <3> QED
        BY <3>1, <3>2
    <2> HIDE DEF Body
    <2> QED
      BY <2>1
  <1>7. IsFrom(From)
    <2> HIDE DEF f
    <2> QED
      BY <1>6
  <1> HIDE DEF f, D, A, G
  <1> DEFINE S == {n \in Nat : n <= 31 => From[32 - n] \in Nat}
  <1>8. \A i \in 1..32 : From[i] = Body(From, i)
    <2> HIDE DEF From
    <2> QED
      BY <1>7
  <1> HIDE DEF From
  <1>9. 0 \in S
    <2>1. From[32 - 0] = 0
      BY <1>8
    <2> QED
      BY <2>1
  <1>10. ASSUME NEW n \in Nat, n \in S PROVE n + 1 \in S
    <2> SUFFICES ASSUME n + 1 <= 31 PROVE From[32 - (n + 1)] \in Nat
      OBVIOUS
    <2>1. 32 - (n + 1) \in 1..32 /\ (32 - (n + 1)) + 1 = 32 - n /\ From[32 - n] \in Nat
      BY <1>10
    <2>2. From[32 - (n + 1)] = Body(From, 32 - (n + 1))
      BY <1>8, <2>1
    <2>3. \A b \in Bit, x \in Nat : b + 2 * x \in Nat
      BY DEF Bit
    <2>4. 32 - (n + 1) <= Len(w) => w[32 - (n + 1)] \in Bit
      BY <2>1
    <2> QED
      BY <2>1, <2>2, <2>3, <2>4
  <1> HIDE DEF S
  <1>11. 31 \in S
    BY <1>9, <1>10, Nats!NatSetInduction
  <1>12. From[1] \in Nat
    BY <1>11 DEF S
  <1>13. Natural(w) = IF \E i \in 32..Len(w) : w[i] = 1 THEN 2147483647 ELSE From[1]
    BY DEF Natural, From
  <1> QED
    BY <1>12, <1>13

(* The bytes of a word. *)
LEMMA CutType ==
    ASSUME NEW w \in Seq(Bit), NEW n \in Nat, NEW k \in Nat
    PROVE  Cut(w, n, k) \in [1..k -> Nat] /\ Cut(w, n, k) \in Seq(Nat) /\ Len(Cut(w, n, k)) = k
  <1>1. ASSUME NEW j \in 1..k
        PROVE  Natural(Unsigned(SubSeq(w, n * (j - 1) + 1, Len(w)), n)) \in Nat
    <2> DEFINE a == n * (j - 1) + 1
    <2>1. a \in Nat \ {0}
      OBVIOUS
    <2> HIDE DEF a
    <2>2. SubSeq(w, a, Len(w)) \in Seq(Bit)
      BY <2>1
    <2> QED
      BY <2>2, UnsignedType, NaturalType DEF a
  <1>2. Cut(w, n, k) \in [1..k -> Nat]
    BY <1>1 DEF Cut
  <1>3. \A f \in [1..k -> Nat] : f \in Seq(Nat) /\ Len(f) = k
    OBVIOUS
  <1> QED
    BY <1>2, <1>3

-----------------------------------------------------------------------------
(* The two passes side by side.                                            *)

(* z only counts; s has a buffer of max bytes and began when z was d short *)
(* of it.  While s has not failed, z has not either and both have counted  *)
(* the same since; it fails when z has, or when z is past the buffer.      *)
Counts(z) == z \in Streams /\ z.callback = FALSE

Writes(s, max) ==
    s \in Streams /\ s.callback = TRUE /\ s.max_size = max /\ Len(s.buf) = s.bytes_written

InStep(zerr, zb, serr, sb, d, max) ==
    /\ zb \in Nat /\ sb \in Nat /\ d \in Int /\ max \in Nat /\ sb <= max
    /\ serr = "" => zerr = "" /\ sb = zb + d
    /\ serr # "" => zerr # "" \/ zb + d > max

Agree(z, s, d, max) ==
    /\ Counts(z)
    /\ Writes(s, max)
    /\ InStep(z.errmsg, z.bytes_written, s.errmsg, s.bytes_written, d, max)

LEMMA StreamParts ==
    ASSUME NEW s \in Streams
    PROVE  /\ s.callback \in BOOLEAN /\ s.max_size \in Nat /\ s.bytes_written \in Nat
           /\ s.buf \in Seq(Nat) /\ s.errmsg \in Errors
  BY DEF Streams

(* What is changed of a stream. *)
BytesOf(s, n, b, r) ==
    /\ r \in Streams /\ r.callback = s.callback /\ r.max_size = s.max_size
    /\ r.bytes_written = n /\ r.buf = b /\ r.errmsg = s.errmsg

LEMMA BytesPut ==
    ASSUME NEW s \in Streams, NEW n \in Nat, NEW b \in Seq(Nat)
    PROVE  BytesOf(s, n, b, [s EXCEPT !.bytes_written = n, !.buf = b])
  BY DEF Streams, BytesOf

StreamOf(c, m, n, b, e, r) ==
    /\ r \in Streams /\ r.callback = c /\ r.max_size = m
    /\ r.bytes_written = n /\ r.buf = b /\ r.errmsg = e

LEMMA StreamStarted ==
    ASSUME NEW s \in Streams, NEW m \in Nat, NEW n \in Nat, NEW b \in Seq(Nat)
    PROVE  StreamOf(s.callback, m, n, b, s.errmsg,
                    [s EXCEPT !.max_size = m, !.bytes_written = n, !.buf = b])
  BY DEF Streams, StreamOf

LEMMA StreamMade ==
    ASSUME NEW c \in BOOLEAN, NEW m \in Nat, NEW n \in Nat, NEW b \in Seq(Nat), NEW e \in Errors
    PROVE  StreamOf(c, m, n, b, e,
               [callback |-> c, max_size |-> m, bytes_written |-> n, buf |-> b, errmsg |-> e])
  BY DEF Streams, StreamOf

LEMMA StreamGiven ==
    ASSUME NEW s \in Streams, NEW c \in BOOLEAN, NEW m \in Nat
    PROVE  StreamOf(c, m, s.bytes_written, s.buf, s.errmsg,
                    [s EXCEPT !.callback = c, !.max_size = m])
  BY DEF Streams, StreamOf

LEMMA Nothing == "" \in Errors /\ <<>> \in Seq(Nat) /\ Len(<<>>) = 0
  <1>1. "" \in Errors
    BY DEF Errors
  <1>2. <<>> \in Seq(Nat) /\ Len(<<>>) = 0
    OBVIOUS
  <1> QED
    BY <1>1, <1>2

LEMMA Joins == \A q, r \in Seq(Nat) : q \o r \in Seq(Nat) /\ Len(q \o r) = Len(q) + Len(r)
  OBVIOUS

(* They do after a failure of the data, *)
FailedOf(r, ff) ==
    /\ ff \in Streams /\ ff.errmsg # "" /\ ff.callback = r.callback /\ ff.max_size = r.max_size
    /\ ff.buf = r.buf /\ ff.bytes_written = r.bytes_written

LEMMA FailedIs ==
    ASSUME NEW r \in Streams, NEW what \in Errors, what # ""
    PROVE  FailedOf(r, Failed(r, what))
  <1>1. CASE r.errmsg = ""
    <2> DEFINE ff == [r EXCEPT !.errmsg = what]
    <2>1. ff \in Streams /\ ff.callback = r.callback /\ ff.max_size = r.max_size
          /\ ff.bytes_written = r.bytes_written /\ ff.buf = r.buf /\ ff.errmsg = what
      BY DEF Streams
    <2> HIDE DEF ff
    <2>2. FailedOf(r, ff)
      BY <2>1, Zenon DEF FailedOf
    <2>3. Failed(r, what) = ff
      BY <1>1, Zenon DEF Failed, ff
    <2> QED
      BY <2>2, <2>3, Zenon
  <1>2. CASE r.errmsg # ""
    BY <1>2, Zenon DEF Failed, FailedOf
  <1> QED
    BY <1>1, <1>2

LEMMA FailedAgrees ==
    ASSUME NEW z, NEW s, NEW d, NEW max, Agree(z, s, d, max), NEW what \in Errors, what # ""
    PROVE  Agree(Failed(z, what), Failed(s, what), d, max)
  <1> DEFINE zz == Failed(z, what)
             ss == Failed(s, what)
  <1>1. FailedOf(z, zz) /\ FailedOf(s, ss)
    BY FailedIs, Zenon DEF Agree, Counts, Writes
  <1> HIDE DEF zz, ss
  <1>2. Counts(zz) /\ Writes(ss, max)
    BY <1>1, Zenon DEF FailedOf, Agree, Counts, Writes
  <1>3. \A ze, se, ff, gg, zb, sb : InStep(ze, zb, se, sb, d, max) /\ ff # "" /\ gg # ""
          => InStep(ff, zb, gg, sb, d, max)
    BY Zenon DEF InStep
  <1>4. InStep(zz.errmsg, zz.bytes_written, ss.errmsg, ss.bytes_written, d, max)
    BY <1>1, <1>3, Zenon DEF FailedOf, Agree
  <1>6. Agree(zz, ss, d, max)
    BY <1>2, <1>4, Zenon DEF Agree
  <1> QED
    BY <1>6, Zenon DEF zz, ss

(* and after the same bytes, *)
Counted(z, n, zz) ==
    /\ Counts(zz)
    /\ zz.errmsg = z.errmsg
    /\ z.errmsg = "" => zz.bytes_written = z.bytes_written + n
    /\ z.errmsg # "" => zz.bytes_written = z.bytes_written

LEMMA WriteCounted ==
    ASSUME NEW z, Counts(z), NEW buf \in Seq(Nat)
    PROVE  Counted(z, Len(buf), PbWrite(z, buf))
  <1>1. CASE z.errmsg # ""
    <2>1. PbWrite(z, buf) = z
      BY <1>1 DEF PbWrite
    <2> QED
      BY <1>1, <2>1, Zenon DEF Counted
  <1>2. CASE z.errmsg = ""
    <2> DEFINE n == z.bytes_written + Len(buf)
               zz == [z EXCEPT !.bytes_written = n, !.buf = z.buf]
    <2>1. z \in Streams /\ z.callback = FALSE /\ n \in Nat /\ z.buf \in Seq(Nat)
      BY DEF Counts, Streams
    <2>2. PbWrite(z, buf) = zz
      BY <1>2, <2>1 DEF PbWrite
    <2> HIDE DEF n
    <2>6. BytesOf(z, n, z.buf, zz)
      BY <2>1, BytesPut
    <2> HIDE DEF zz
    <2>3. zz \in Streams /\ zz.callback = z.callback /\ zz.max_size = z.max_size
          /\ zz.bytes_written = n /\ zz.buf = z.buf /\ zz.errmsg = z.errmsg
      BY <2>6, Zenon DEF BytesOf
    <2> HIDE DEF zz
    <2>4. Counted(z, Len(buf), zz)
      BY <1>2, <2>1, <2>3, Zenon DEF Counted, Counts, n
    <2> QED
      BY <2>2, <2>4, Zenon
  <1> QED
    BY <1>1, <1>2

Written(s, n, max, ss) ==
    /\ Writes(ss, max)
    /\ ss.bytes_written \in Nat /\ ss.bytes_written <= max
    /\ ss.errmsg = "" <=> s.errmsg = "" /\ s.bytes_written + n <= max
    /\ ss.errmsg = "" => ss.bytes_written = s.bytes_written + n

LEMMA Sums ==
    \A a, n, max \in Nat :
        /\ a + n \in Nat
        /\ a + n <= max \/ a + n > max
        /\ ~(a + n <= max /\ a + n > max)
  OBVIOUS

LEMMA Commutes == \A m, x, y \in Nat : x + y = y + x /\ (x + y > m <=> ~(y + x <= m))
  OBVIOUS

LEMMA PastAll == \A m, b, x \in Nat : b <= m => b # x + (m + 1)
  OBVIOUS

LEMMA Zero0 == \A m \in Nat : 0 \in Nat /\ 0 \in Int /\ 0 <= m /\ 0 = 0 + 0
  OBVIOUS

LEMMA Offsets0 == \A x \in Nat : x + 0 = x /\ ~(x + 0 > x)
  OBVIOUS

LEMMA Offsets ==
    \A a, n, max \in Nat, d \in Int :
        /\ a + d > max => (a + n) + d > max
        /\ (a + d) + n > max => (a + n) + d > max
        /\ (a + d) + n = (a + n) + d
  OBVIOUS

(* What Written asks once it is clear what became of s. *)
LEMMA WrittenCases ==
    ASSUME NEW s \in Streams, NEW max \in Nat, s.bytes_written <= max, NEW n \in Nat,
           NEW ss, Writes(ss, max),
           \/ /\ s.errmsg # "" \/ s.bytes_written + n > max
              /\ ss.errmsg # "" /\ ss.bytes_written = s.bytes_written
           \/ /\ s.errmsg = "" /\ s.bytes_written + n <= max
              /\ ss.errmsg = "" /\ ss.bytes_written = s.bytes_written + n
    PROVE  Written(s, n, max, ss)
  <1> DEFINE sb == s.bytes_written
  <1>1. sb \in Nat /\ sb <= max
    BY StreamParts
  <1> HIDE DEF sb
  <1>2. sb + n \in Nat /\ (sb + n > max => ~(sb + n <= max))
    BY <1>1, Sums, Zenon
  <1>3. CASE (s.errmsg # "" \/ sb + n > max) /\ ss.errmsg # "" /\ ss.bytes_written = sb
    BY <1>1, <1>2, <1>3, Zenon DEF Written, sb
  <1>4. CASE s.errmsg = "" /\ sb + n <= max /\ ss.errmsg = "" /\ ss.bytes_written = sb + n
    BY <1>1, <1>2, <1>4, Zenon DEF Written, sb
  <1> QED
    BY <1>3, <1>4, Zenon DEF sb

LEMMA WriteWritten ==
    ASSUME NEW s, NEW max \in Nat, Writes(s, max), s.bytes_written <= max, NEW buf \in Seq(Nat)
    PROVE  Written(s, Len(buf), max, PbWrite(s, buf))
  <1>0. s \in Streams /\ s.callback = TRUE /\ s.max_size = max /\ Len(s.buf) = s.bytes_written
        /\ s.bytes_written \in Nat /\ s.buf \in Seq(Nat)
    BY StreamParts DEF Writes
  <1>a. Len(buf) \in Nat
    OBVIOUS
  <1>1. CASE s.errmsg # ""
    <2>1. PbWrite(s, buf) = s
      BY <1>1 DEF PbWrite
    <2> QED
      BY <1>0, <1>1, <1>a, <2>1, WrittenCases, Zenon
  <1>2. buf = <<>> => Len(buf) = 0
    OBVIOUS
  <1>3. CASE s.errmsg = "" /\ s.bytes_written + Len(buf) > max
    <2>0. buf # <<>>
      <3> DEFINE sb == s.bytes_written
      <3>1. sb \in Nat /\ sb <= max /\ sb + Len(buf) > max
        BY <1>0, <1>3
      <3> HIDE DEF sb
      <3> QED
        BY <1>2, <3>1
    <2>1. PbWrite(s, buf) = Failed(s, "stream full")
      BY <1>0, <1>3, <2>0 DEF PbWrite
    <2>2. FailedOf(s, Failed(s, "stream full"))
      <3>1. "stream full" \in Errors
        BY DEF Errors
      <3>2. "stream full" # ""
        OBVIOUS
      <3> QED
        BY <1>0, <3>1, <3>2, FailedIs, Zenon
    <2> DEFINE ss == Failed(s, "stream full")
    <2> HIDE DEF ss
    <2>3. Writes(ss, max)
      BY <1>0, <2>2, Zenon DEF FailedOf, Writes, ss
    <2>4. ss.errmsg # "" /\ ss.bytes_written = s.bytes_written
      BY <2>2, Zenon DEF FailedOf, ss
    <2>5. Written(s, Len(buf), max, ss)
      BY <1>0, <1>3, <1>a, <2>3, <2>4, WrittenCases, Zenon
    <2> QED
      BY <2>1, <2>5, Zenon DEF ss
  <1>4. CASE s.errmsg = "" /\ s.bytes_written + Len(buf) <= max
    <2> DEFINE n == s.bytes_written + Len(buf)
               b == s.buf \o buf
               ss == [s EXCEPT !.bytes_written = n, !.buf = b]
    <2>1. n \in Nat /\ b \in Seq(Nat) /\ Len(b) = n
      <3>1. \A q \in Seq(Nat) : q \o buf \in Seq(Nat) /\ Len(q \o buf) = Len(q) + Len(buf)
        OBVIOUS
      <3>2. \A q \in Nat : q + Len(buf) \in Nat
        OBVIOUS
      <3> QED
        BY <1>0, <3>1, <3>2, Zenon
    <2>0. ~(n > max)
      <3>1. n <= max
        BY <1>4
      <3> HIDE DEF n
      <3> QED
        BY <2>1, <3>1
    <2>2. PbWrite(s, buf) = ss
      BY <1>0, <1>4, <2>0 DEF PbWrite
    <2> HIDE DEF n, b
    <2>3. BytesOf(s, n, b, ss)
      BY <1>0, <2>1, BytesPut
    <2> HIDE DEF ss
    <2>4. ss \in Streams /\ ss.callback = s.callback /\ ss.max_size = s.max_size
          /\ ss.bytes_written = n /\ ss.buf = b /\ ss.errmsg = s.errmsg
      BY <2>3, Zenon DEF BytesOf
    <2>5. Writes(ss, max)
      BY <1>0, <2>1, <2>4, Zenon DEF Writes
    <2>6. ss.errmsg = "" /\ ss.bytes_written = s.bytes_written + Len(buf)
      BY <1>4, <2>4, Zenon DEF n
    <2>7. Written(s, Len(buf), max, ss)
      BY <1>0, <1>4, <1>a, <2>5, <2>6, WrittenCases, Zenon
    <2> QED
      BY <2>2, <2>7, Zenon
  <1>5. s.bytes_written + Len(buf) > max \/ s.bytes_written + Len(buf) <= max
    <2> DEFINE sb == s.bytes_written
    <2>1. sb \in Nat
      BY <1>0
    <2> HIDE DEF sb
    <2>2. sb + Len(buf) > max \/ sb + Len(buf) <= max
      BY <2>1
    <2> QED
      BY <2>2 DEF sb
  <1> QED
    BY <1>1, <1>3, <1>4, <1>5, Zenon

(* The numbers of a write of n bytes. *)
NumbersOfWrite(zerr, zb, serr, sb, n, max, zzb, sserr, ssb) ==
    /\ zerr = "" => zzb = zb + n
    /\ zerr # "" => zzb = zb
    /\ ssb \in Nat /\ ssb <= max
    /\ sserr = "" <=> serr = "" /\ sb + n <= max
    /\ sserr = "" => ssb = sb + n

LEMMA InStepWrite ==
    ASSUME NEW zerr, NEW serr, NEW zb, NEW sb, NEW d, NEW max,
           InStep(zerr, zb, serr, sb, d, max),
           NEW n \in Nat, NEW zzb, NEW sserr, NEW ssb,
           NumbersOfWrite(zerr, zb, serr, sb, n, max, zzb, sserr, ssb)
    PROVE  InStep(zerr, zzb, sserr, ssb, d, max)
  <1>0. /\ zerr = "" => zzb = zb + n
        /\ zerr # "" => zzb = zb
        /\ ssb \in Nat /\ ssb <= max
        /\ sserr = "" <=> serr = "" /\ sb + n <= max
        /\ sserr = "" => ssb = sb + n
    BY Zenon DEF NumbersOfWrite
  <1>1. zb \in Nat /\ sb \in Nat /\ d \in Int /\ max \in Nat
    BY Zenon DEF InStep
  <1>2. (sb + n <= max \/ sb + n > max) /\ ~(sb + n <= max /\ sb + n > max) /\ zb + n \in Nat
    BY <1>1, Sums, Zenon
  <1>3. CASE zerr # ""
    <2>1. serr # "" /\ sserr # ""
      BY <1>0, <1>3, Zenon DEF InStep
    <2> QED
      BY <1>0, <1>1, <1>3, <2>1, Zenon DEF InStep
  <1>4. CASE zerr = "" /\ serr # ""
    <2>1. zb + d > max
      BY <1>4, Zenon DEF InStep
    <2>2. (zb + n) + d > max
      BY <1>1, <2>1, Offsets, Zenon
    <2> QED
      BY <1>0, <1>1, <1>2, <1>4, <2>2, Zenon DEF InStep
  <1>5. CASE zerr = "" /\ serr = "" /\ sb + n > max
    <2>1. sb = zb + d
      BY <1>5, Zenon DEF InStep
    <2>2. (zb + n) + d > max
      BY <1>1, <1>5, <2>1, Offsets, Zenon
    <2> QED
      BY <1>0, <1>1, <1>2, <1>5, <2>2, Zenon DEF InStep
  <1>6. CASE zerr = "" /\ serr = "" /\ sb + n <= max
    <2>1. sb = zb + d
      BY <1>6, Zenon DEF InStep
    <2>2. (zb + d) + n = (zb + n) + d
      BY <1>1, Offsets, Zenon
    <2>3. sb + n = (zb + n) + d
      BY <2>1, <2>2, Zenon
    <2> QED
      BY <1>0, <1>1, <1>2, <1>6, <2>3, Zenon DEF InStep
  <1> QED
    BY <1>2, <1>3, <1>4, <1>5, <1>6, Zenon

LEMMA CountedWritten ==
    ASSUME NEW z, NEW s, NEW d, NEW max, Agree(z, s, d, max), NEW n \in Nat, NEW zz, NEW ss,
           Counted(z, n, zz), Written(s, n, max, ss)
    PROVE  Agree(zz, ss, d, max)
  <1>1. InStep(z.errmsg, z.bytes_written, s.errmsg, s.bytes_written, d, max)
    BY Zenon DEF Agree
  <1>2. /\ z.errmsg = "" => zz.bytes_written = z.bytes_written + n
        /\ z.errmsg # "" => zz.bytes_written = z.bytes_written
        /\ zz.errmsg = z.errmsg
    BY Zenon DEF Counted
  <1>3. /\ ss.bytes_written \in Nat /\ ss.bytes_written <= max
        /\ ss.errmsg = "" <=> s.errmsg = "" /\ s.bytes_written + n <= max
        /\ ss.errmsg = "" => ss.bytes_written = s.bytes_written + n
    BY Zenon DEF Written
  <1>4. InStep(z.errmsg, zz.bytes_written, ss.errmsg, ss.bytes_written, d, max)
    <2>1. NumbersOfWrite(z.errmsg, z.bytes_written, s.errmsg, s.bytes_written, n, max,
                         zz.bytes_written, ss.errmsg, ss.bytes_written)
      BY <1>2, <1>3, Zenon DEF NumbersOfWrite
    <2> QED
      BY <1>1, <2>1, InStepWrite, Zenon
  <1> QED
    BY <1>2, <1>4, Zenon DEF Agree, Counted, Written

LEMMA WriteAgrees ==
    ASSUME NEW z, NEW s, NEW d, NEW max, Agree(z, s, d, max), NEW buf \in Seq(Nat)
    PROVE  Agree(PbWrite(z, buf), PbWrite(s, buf), d, max)
  <1>1. Len(buf) \in Nat
    OBVIOUS
  <1>2. max \in Nat /\ s.bytes_written <= max /\ Counts(z) /\ Writes(s, max)
    BY Zenon DEF Agree, InStep
  <1>3. Counted(z, Len(buf), PbWrite(z, buf)) /\ Written(s, Len(buf), max, PbWrite(s, buf))
    BY <1>2, WriteCounted, WriteWritten, Zenon
  <1> QED
    BY <1>1, <1>3, CountedWritten, Zenon

(* which the encoders of values write: a varint, *)
LEMMA VarintBytes ==
    ASSUME NEW value \in Seq(Bit)
    PROVE  \E buf \in Seq(Nat) : \A stream : PbEncodeVarint(stream, value) = PbWrite(stream, buf)
  <1> DEFINE groups == Cut(Unsigned(value, 70), 7, 10)
             Above(n) == \A k \in (n + 1)..10 : groups[k] = 0
             last == CHOOSE n \in 1..10 : Above(n) /\ (n = 1 \/ groups[n] # 0)
             buf == [k \in 1..last |-> IF k < last THEN 128 + groups[k] ELSE groups[k]]
  <1>1. \A stream : PbEncodeVarint(stream, value) = PbWrite(stream, buf)
    BY Zenon DEF PbEncodeVarint
  <1>2. groups \in [1..10 -> Nat]
    <2>1. Unsigned(value, 70) \in Seq(Bit)
      BY UnsignedType
    <2> QED
      BY <2>1, CutType
  <1> HIDE DEF groups
  <1>3. \E n \in 1..10 : Above(n) /\ (n = 1 \/ groups[n] # 0)
    <2> DEFINE T == {n \in 1..10 : Above(n)}
    <2>1. 10 \in T /\ T \subseteq Nat
      OBVIOUS
    <2> HIDE DEF T
    <2>2. PICK x \in T : \A y \in T : x <= y
      BY <2>1, Nats!LeastNat
    <2>3. ASSUME x # 1, groups[x] = 0 PROVE FALSE
      <3>1. x \in 1..10 /\ Above(x)
        BY <2>2 DEF T
      <3>2. x - 1 \in 1..10 /\ Above(x - 1)
        BY <2>3, <3>1
      <3>3. x - 1 \in T
        BY <3>2 DEF T
      <3> QED
        BY <2>2, <3>1, <3>3
    <2> QED
      BY <2>2, <2>3 DEF T
  <1>4. last \in 1..10
    BY <1>3
  <1> HIDE DEF last
  <1>5. ASSUME NEW k \in 1..last PROVE (IF k < last THEN 128 + groups[k] ELSE groups[k]) \in Nat
    <2>1. groups[k] \in Nat
      <3>1. k \in 1..10
        BY <1>4
      <3> QED
        BY <1>2, <3>1
    <2>2. \A x \in Nat : 128 + x \in Nat
      OBVIOUS
    <2> QED
      BY <2>1, <2>2
  <1>6. buf \in Seq(Nat)
    <2>1. last \in Nat
      BY <1>4
    <2> QED
      BY <1>5, <2>1
  <1> HIDE DEF buf
  <1> QED
    BY <1>1, <1>6

LEMMA VarintAgrees ==
    ASSUME NEW z, NEW s, NEW d, NEW max, Agree(z, s, d, max), NEW value \in Seq(Bit)
    PROVE  Agree(PbEncodeVarint(z, value), PbEncodeVarint(s, value), d, max)
  <1>1. PICK buf \in Seq(Nat) : \A stream : PbEncodeVarint(stream, value) = PbWrite(stream, buf)
    BY VarintBytes
  <1> QED
    BY <1>1, WriteAgrees

LEMMA SizeAgrees ==
    ASSUME NEW z, NEW s, NEW d, NEW max, Agree(z, s, d, max), NEW size \in Nat
    PROVE  Agree(PbEncodeSize(z, size), PbEncodeSize(s, size), d, max)
  <1>1. Word(size, 64) \in Seq(Bit)
    BY WordType
  <1> QED
    BY <1>1, VarintAgrees DEF PbEncodeSize

LEMMA TagAgrees ==
    ASSUME NEW z, NEW s, NEW d, NEW max, Agree(z, s, d, max),
           NEW wiretype \in Nat, NEW field_number \in Nat
    PROVE  Agree(PbEncodeTag(z, wiretype, field_number), PbEncodeTag(s, wiretype, field_number), d, max)
  <1>1. field_number * 8 + wiretype \in Nat
    OBVIOUS
  <1> QED
    BY <1>1, SizeAgrees DEF PbEncodeTag

LEMMA SvarintBits ==
    ASSUME NEW value \in Seq(Bit)
    PROVE  LET twice == Unsigned(<<0>> \o value, 64)
           IN (IF value[64] = 1 THEN Not(twice) ELSE twice) \in Seq(Bit)
  <1>1. <<0>> \o value \in Seq(Bit)
    BY DEF Bit
  <1>2. Unsigned(<<0>> \o value, 64) \in Seq(Bit)
    BY <1>1, UnsignedType
  <1> QED
    BY <1>2, NotType

LEMMA SvarintBytes ==
    ASSUME NEW value \in Seq(Bit)
    PROVE  \E buf \in Seq(Nat) : \A stream : PbEncodeSvarint(stream, value) = PbWrite(stream, buf)
  <1> DEFINE w == IF value[64] = 1 THEN Not(Unsigned(<<0>> \o value, 64))
                  ELSE Unsigned(<<0>> \o value, 64)
  <1>1. w \in Seq(Bit)
    BY SvarintBits
  <1>2. \A stream : PbEncodeSvarint(stream, value) = PbEncodeVarint(stream, w)
    BY DEF PbEncodeSvarint
  <1> HIDE DEF w
  <1>3. PICK buf \in Seq(Nat) : \A stream : PbEncodeVarint(stream, w) = PbWrite(stream, buf)
    BY <1>1, VarintBytes
  <1>4. \A stream : PbEncodeSvarint(stream, value) = PbWrite(stream, buf)
    BY <1>2, <1>3, Zenon
  <1> QED
    BY <1>4

(* an integer of fixed size, *)
LEMMA FixedBytes ==
    ASSUME NEW value \in Seq(Bit), NEW k \in Nat, Len(value) = 8 * k
    PROVE  \E buf \in Seq(Nat) : /\ Len(buf) = k
                                 /\ \A stream : PbEncodeFixed(stream, value) = PbWrite(stream, buf)
  <1>1. Len(value) \div 8 = k
    OBVIOUS
  <1> DEFINE buf == Cut(value, 8, k)
  <1>2. buf \in Seq(Nat) /\ Len(buf) = k
    BY CutType
  <1>3. \A stream : PbEncodeFixed(stream, value) = PbWrite(stream, buf)
    BY <1>1, Zenon DEF PbEncodeFixed
  <1> HIDE DEF buf
  <1> QED
    BY <1>2, <1>3

(* a length and as many bytes. *)
LEMMA StringAgrees ==
    ASSUME NEW z, NEW s, NEW d, NEW max, Agree(z, s, d, max), NEW buffer \in Seq(Nat)
    PROVE  Agree(PbEncodeString(z, buffer), PbEncodeString(s, buffer), d, max)
  <1>1. Agree(PbEncodeSize(z, Len(buffer)), PbEncodeSize(s, Len(buffer)), d, max)
    BY SizeAgrees
  <1> QED
    BY <1>1, WriteAgrees DEF PbEncodeString

-----------------------------------------------------------------------------
(* Submessages.                                                            *)

LEMMA SizingIs ==
    /\ Sizing \in Streams /\ Sizing.callback = FALSE /\ Sizing.bytes_written = 0
    /\ Sizing.buf = <<>> /\ Sizing.errmsg = ""
  <1>1. FALSE \in BOOLEAN /\ 0 \in Nat
    OBVIOUS
  <1>2. StreamOf(FALSE, 0, 0, <<>>, "", Sizing)
    BY <1>1, Nothing, StreamMade, Zenon DEF Sizing
  <1> QED
    BY <1>2, Zenon DEF StreamOf

(* Both passes start in step. *)
LEMMA StartAgrees ==
    ASSUME NEW s, NEW max \in Nat, Writes(s, max), s.errmsg = "", s.bytes_written = 0
    PROVE  Agree(Sizing, s, 0, max)
  <1>1. Counts(Sizing)
    BY SizingIs, Zenon DEF Counts
  <1>2. InStep("", 0, "", 0, 0, max)
    BY Zero0, Zenon DEF InStep
  <1> QED
    BY <1>1, <1>2, SizingIs, Zenon DEF Agree

LEMMA BufferAgrees ==
    ASSUME NEW bufsize \in Nat
    PROVE  Agree(Sizing, PbOstreamFromBuffer(bufsize), 0, bufsize)
  <1> DEFINE s == PbOstreamFromBuffer(bufsize)
  <1>1. TRUE \in BOOLEAN
    OBVIOUS
  <1>2. StreamOf(TRUE, bufsize, Sizing.bytes_written, Sizing.buf, Sizing.errmsg, s)
    BY <1>1, SizingIs, StreamGiven, Zenon DEF PbOstreamFromBuffer
  <1> HIDE DEF s
  <1>3. s \in Streams /\ s.callback = TRUE /\ s.max_size = bufsize /\ s.bytes_written = 0
        /\ s.buf = <<>> /\ s.errmsg = ""
    BY <1>2, SizingIs, Zenon DEF StreamOf
  <1>4. Writes(s, bufsize)
    BY <1>3, Nothing, Zenon DEF Writes
  <1>5. Agree(Sizing, s, 0, bufsize)
    BY <1>3, <1>4, StartAgrees, Zenon
  <1> QED
    BY <1>5 DEF s

(* What pb_encode must be for a submessage. *)
KeepsStep(encode, structs) ==
    \A src \in structs : \A z, s, d, max :
        Agree(z, s, d, max) => Agree(encode[src][z], encode[src][s], d, max)

(* The substream of a submessage that needs size bytes. *)
LEMMA SubstreamAgrees ==
    ASSUME NEW s, NEW max \in Nat, Writes(s, max), s.errmsg = "", NEW size \in Nat
    PROVE  Agree(Sizing, [s EXCEPT !.max_size = size, !.bytes_written = 0, !.buf = <<>>], 0, size)
  <1> DEFINE t == [s EXCEPT !.max_size = size, !.bytes_written = 0, !.buf = <<>>]
  <1>1. s \in Streams /\ s.callback = TRUE
    BY Zenon DEF Writes
  <1>2. /\ t \in Streams /\ t.callback = s.callback /\ t.max_size = size /\ t.bytes_written = 0
        /\ t.buf = <<>> /\ t.errmsg = s.errmsg
    <2>1. 0 \in Nat
      OBVIOUS
    <2>2. StreamOf(s.callback, size, 0, <<>>, s.errmsg, t)
      BY <1>1, <2>1, Nothing, StreamStarted
    <2> HIDE DEF t
    <2> QED
      BY <2>2, Zenon DEF StreamOf
  <1> HIDE DEF t
  <1>3. Len(<<>>) = 0
    OBVIOUS
  <1>4. Writes(t, size)
    BY <1>1, <1>2, <1>3, Zenon DEF Writes
  <1>5. Agree(Sizing, t, 0, size)
    BY <1>2, <1>4, StartAgrees, Zenon
  <1> QED
    BY <1>5 DEF t

LEMMA CountCounted ==
    ASSUME NEW z, Counts(z), NEW size \in Nat
    PROVE  Counted(z, size, Count(z, size))
  <1>1. CASE z.errmsg # ""
    <2>1. Count(z, size) = z
      BY <1>1 DEF Count
    <2> QED
      BY <1>1, <2>1, Zenon DEF Counted
  <1>2. CASE z.errmsg = ""
    <2> DEFINE n == z.bytes_written + size
               zz == [z EXCEPT !.bytes_written = n]
    <2>1. z \in Streams /\ z.callback = FALSE /\ n \in Nat
      BY DEF Counts, Streams
    <2>2. Count(z, size) = zz
      BY <1>2 DEF Count
    <2> HIDE DEF n
    <2>3. zz \in Streams /\ zz.callback = z.callback /\ zz.bytes_written = n /\ zz.errmsg = z.errmsg
      BY <2>1 DEF Streams
    <2> HIDE DEF zz
    <2>4. Counted(z, size, zz)
      BY <1>2, <2>1, <2>3, Zenon DEF Counted, Counts, n
    <2> QED
      BY <2>2, <2>4, Zenon
  <1> QED
    BY <1>1, <1>2

(* Closing a substream that has its size bytes. *)
LEMMA CloseWritten ==
    ASSUME NEW s, NEW max \in Nat, Writes(s, max), s.bytes_written <= max, s.errmsg = "",
           NEW size \in Nat, s.bytes_written + size <= max,
           NEW sub, Writes(sub, size), sub.errmsg = "", sub.bytes_written = size
    PROVE  Written(s, size, max, CloseSubmessage(s, size, sub))
  <1> DEFINE n == s.bytes_written + size
             b == s.buf \o sub.buf
             ss == [s EXCEPT !.bytes_written = n, !.buf = b]
  <1>0. s \in Streams /\ s.callback = TRUE /\ s.max_size = max /\ Len(s.buf) = s.bytes_written
        /\ s.bytes_written \in Nat /\ s.buf \in Seq(Nat) /\ sub.buf \in Seq(Nat) /\ Len(sub.buf) = size
    BY StreamParts, Zenon DEF Writes
  <1>1. n \in Nat /\ b \in Seq(Nat) /\ Len(b) = n
    <2>1. b \in Seq(Nat) /\ Len(b) = Len(s.buf) + Len(sub.buf)
      BY <1>0, Joins, Zenon
    <2>2. n \in Nat
      BY <1>0, Sums, Zenon
    <2> HIDE DEF b
    <2> QED
      BY <1>0, <2>1, <2>2, Zenon
  <1>2. CloseSubmessage(s, size, sub) = ss
    <2> DEFINE t == [s EXCEPT !.bytes_written = @ + sub.bytes_written, !.buf = @ \o sub.buf,
                              !.errmsg = sub.errmsg]
    <2>1. CloseSubmessage(s, size, sub) = Failed(t, "")
      BY Zenon DEF CloseSubmessage
    <2>2. t = ss
      BY <1>0 DEF Streams
    <2>3. ss.errmsg = "" /\ [ss EXCEPT !.errmsg = ""] = ss
      BY <1>0 DEF Streams
    <2> HIDE DEF t, ss
    <2>4. Failed(ss, "") = ss
      BY <2>3, Zenon DEF Failed
    <2> QED
      BY <2>1, <2>2, <2>4, Zenon
  <1> HIDE DEF n, b
  <1>3. BytesOf(s, n, b, ss)
    BY <1>0, <1>1, BytesPut
  <1> HIDE DEF ss
  <1>4. Writes(ss, max)
    BY <1>0, <1>1, <1>3, Zenon DEF Writes, BytesOf
  <1>5. ss.errmsg = "" /\ ss.bytes_written = s.bytes_written + size
    BY <1>3, Zenon DEF BytesOf, n
  <1>6. Written(s, size, max, ss)
    BY <1>0, <1>4, <1>5, WrittenCases, Zenon
  <1> QED
    BY <1>2, <1>6, Zenon

(* The second pass over the submessage writes what the first one counted. *)
FirstPass(sized, encode, src) ==
    sized = encode[src][Sizing] /\ sized.errmsg = "" /\ sized.bytes_written \in Nat

SecondPass(sub, size) == Writes(sub, size) /\ sub.errmsg = "" /\ sub.bytes_written = size

LEMMA SubmessageExact ==
    ASSUME NEW structs, NEW encode, KeepsStep(encode, structs), NEW src \in structs,
           NEW sized, FirstPass(sized, encode, src),
           NEW t, Agree(Sizing, t, 0, sized.bytes_written)
    PROVE  SecondPass(encode[src][t], sized.bytes_written)
  <1> DEFINE sub == encode[src][t]
             size == sized.bytes_written
             sb == sub.bytes_written
  <1>1. Agree(sized, sub, 0, size)
    BY Zenon DEF KeepsStep, FirstPass
  <1> HIDE DEF sub
  <1>2. /\ size \in Nat /\ sb \in Nat
        /\ sub.errmsg = "" => sb = size + 0
        /\ sub.errmsg # "" => sized.errmsg # "" \/ size + 0 > size
    BY <1>1, Zenon DEF Agree, InStep
  <1>3. size + 0 = size /\ ~(size + 0 > size)
    BY <1>2, Offsets0, Zenon
  <1>4. sub.errmsg = "" /\ sb = size
    BY <1>2, <1>3, Zenon DEF FirstPass
  <1> QED
    BY <1>1, <1>4, Zenon DEF Agree, SecondPass, sub

LEMMA WriteSubmessageAgrees ==
    ASSUME NEW structs, NEW encode, KeepsStep(encode, structs), NEW src \in structs,
           NEW sized, FirstPass(sized, encode, src),
           NEW z, NEW s, NEW d, NEW max, Agree(z, s, d, max)
    PROVE  Agree(WriteSubmessage(z, sized.bytes_written, encode, src),
                 WriteSubmessage(s, sized.bytes_written, encode, src), d, max)
  <1> DEFINE size == sized.bytes_written
             zz == WriteSubmessage(z, size, encode, src)
             ss == WriteSubmessage(s, size, encode, src)
             t == [s EXCEPT !.max_size = size, !.bytes_written = 0, !.buf = <<>>]
             sub == encode[src][t]
  <1>0. Counts(z) /\ Writes(s, max) /\ max \in Nat /\ s.bytes_written <= max
        /\ s.bytes_written \in Nat /\ size \in Nat
    BY Zenon DEF Agree, InStep, FirstPass
  <1>1. s \in Streams /\ s.callback = TRUE /\ s.max_size = max /\ z.callback = FALSE
    BY <1>0, Zenon DEF Counts, Writes
  <1>2. zz = Count(z, size)
    BY <1>1 DEF WriteSubmessage, Count
  <1>3. Counted(z, size, zz)
    BY <1>0, <1>2, CountCounted, Zenon
  <1>4. Written(s, size, max, ss)
    <2>1. CASE s.errmsg # ""
      <3>1. ss = s
        BY <2>1 DEF WriteSubmessage
      <3> QED
        BY <1>0, <1>1, <2>1, <3>1, WrittenCases, Zenon
    <2>2. CASE s.errmsg = "" /\ s.bytes_written + size > max
      <3>1. ss = Failed(s, "stream full")
        BY <1>1, <2>2 DEF WriteSubmessage
      <3>2. "stream full" \in Errors
        BY DEF Errors
      <3>3. "stream full" # ""
        OBVIOUS
      <3>4. FailedOf(s, ss)
        BY <1>1, <3>1, <3>2, <3>3, FailedIs, Zenon
      <3> HIDE DEF ss
      <3>5. Writes(ss, max) /\ ss.errmsg # "" /\ ss.bytes_written = s.bytes_written
        BY <1>0, <3>4, Zenon DEF FailedOf, Writes
      <3> QED
        BY <1>0, <1>1, <2>2, <3>5, WrittenCases, Zenon
    <2>3. CASE s.errmsg = "" /\ s.bytes_written + size <= max
      <3>1. ~(s.bytes_written + size > max)
        BY <1>0, <2>3, Sums, Zenon
      <3>2. ss = CloseSubmessage(s, size, sub)
        BY <1>1, <2>3, <3>1 DEF WriteSubmessage
      <3>3. Agree(Sizing, t, 0, size)
        BY <1>0, <2>3, SubstreamAgrees, Zenon
      <3> HIDE DEF t
      <3>5. SecondPass(sub, size)
        BY <3>3, SubmessageExact, Zenon
      <3>4. Writes(sub, size) /\ sub.errmsg = "" /\ sub.bytes_written = size
        BY <3>5, Zenon DEF SecondPass
      <3> HIDE DEF sub, ss
      <3> QED
        BY <1>0, <2>3, <3>2, <3>4, CloseWritten, Zenon
    <2> QED
      BY <1>0, <2>1, <2>2, <2>3, Sums, Zenon
  <1> HIDE DEF zz, ss
  <1>5. Agree(zz, ss, d, max)
    BY <1>0, <1>3, <1>4, CountedWritten, Zenon
  <1> QED
    BY <1>5 DEF zz, ss

LEMMA SubmessageAgrees ==
    ASSUME NEW structs, NEW encode, KeepsStep(encode, structs), NEW src \in structs,
           NEW z, NEW s, NEW d, NEW max, Agree(z, s, d, max)
    PROVE  Agree(PbEncodeSubmessage(z, encode, src), PbEncodeSubmessage(s, encode, src), d, max)
  <1> DEFINE sized == encode[src][Sizing]
             size == sized.bytes_written
  <1>1. \A x : PbEncodeSubmessage(x, encode, src) = SizedSubmessage(x, sized, encode, src)
    BY Zenon DEF PbEncodeSubmessage
  <1>2. sized \in Streams /\ sized.errmsg \in Errors /\ size \in Nat
    <2>1. Agree(Sizing, PbOstreamFromBuffer(0), 0, 0)
      BY BufferAgrees
    <2>2. Agree(sized, encode[src][PbOstreamFromBuffer(0)], 0, 0)
      BY <2>1, Zenon DEF KeepsStep
    <2> HIDE DEF sized
    <2>3. sized \in Streams
      BY <2>2, Zenon DEF Agree, Counts
    <2> QED
      BY <2>3, StreamParts
  <1>3. sized = encode[src][Sizing]
    OBVIOUS
  <1> HIDE DEF sized
  <1>4. CASE sized.errmsg # ""
    <2>1. \A x : SizedSubmessage(x, sized, encode, src) = Failed(x, sized.errmsg)
      BY <1>4 DEF SizedSubmessage, Failed
    <2> QED
      BY <1>1, <1>2, <1>4, <2>1, FailedAgrees, Zenon
  <1>5. CASE sized.errmsg = ""
    <2>0. FirstPass(sized, encode, src)
      BY <1>2, <1>3, <1>5, Zenon DEF FirstPass
    <2> DEFINE W(x) == WriteSubmessage(PbEncodeSize(x, size), size, encode, src)
    <2>1. ASSUME NEW x PROVE SizedSubmessage(x, sized, encode, src) = W(x)
      <3>1. CASE x.errmsg = ""
        BY <1>5, <3>1 DEF SizedSubmessage
      <3>2. CASE x.errmsg # ""
        <4>1. Word(size, 64) \in Seq(Bit)
          BY <1>2, WordType
        <4>2. PICK buf \in Seq(Nat) :
                \A stream : PbEncodeVarint(stream, Word(size, 64)) = PbWrite(stream, buf)
          BY <4>1, VarintBytes
        <4>3. PbWrite(x, buf) = x
          BY <3>2 DEF PbWrite
        <4>4. PbEncodeSize(x, size) = x
          BY <4>2, <4>3, Zenon DEF PbEncodeSize
        <4>5. WriteSubmessage(x, size, encode, src) = x
          BY <3>2 DEF WriteSubmessage
        <4>6. SizedSubmessage(x, sized, encode, src) = x
          BY <3>2 DEF SizedSubmessage
        <4> QED
          BY <4>4, <4>5, <4>6, Zenon
      <3> QED
        BY <3>1, <3>2
    <2>2. Agree(PbEncodeSize(z, size), PbEncodeSize(s, size), d, max)
      BY <1>2, SizeAgrees
    <2>3. Agree(W(z), W(s), d, max)
      BY <2>0, <2>2, WriteSubmessageAgrees, Zenon
    <2> HIDE DEF W
    <2>4. PbEncodeSubmessage(z, encode, src) = W(z) /\ PbEncodeSubmessage(s, encode, src) = W(s)
      BY <1>1, <2>1, Zenon
    <2> QED
      BY <2>3, <2>4, Zenon
  <1> QED
    BY <1>4, <1>5

-----------------------------------------------------------------------------
(* Values.                                                                 *)

LEMMA FieldParts ==
    ASSUME NEW field \in Descriptors
    PROVE  /\ field.tag \in Nat /\ field.data_size \in Nat /\ field.array_size \in Nat
           /\ field.ltype \in Packable \cup {"BYTES", "STRING", "SUBMESSAGE", "FIXED_LENGTH_BYTES"}
           /\ field.htype \in {"REQUIRED", "OPTIONAL", "REPEATED", "ONEOF"}
           /\ field.ltype \in Varints => field.data_size \in {1, 2, 4, 8}
           /\ field.ltype = "FIXED32" => field.data_size = 4
           /\ field.ltype = "FIXED64" => field.data_size = 8
  BY DEF Descriptors

(* What the iterator gives an encoder. *)
IsItem(iter) ==
    /\ iter.field \in Descriptors
    /\ iter.data \in ValuesOf(iter.field)
    /\ iter.field.ltype = "SUBMESSAGE" =>
          KeepsStep(iter.encode, Structures[iter.field.submsg])

LEMMA ValuesCases ==
    ASSUME NEW field
    PROVE  /\ field.ltype \in Packable => ValuesOf(field) = [1..(8 * field.data_size) -> {0, 1}]
           /\ field.ltype = "BYTES" => ValuesOf(field) = Seq(0..255)
           /\ field.ltype = "SUBMESSAGE" => ValuesOf(field) = Structures[field.submsg]
           /\ field.ltype \notin Packable \cup {"BYTES", "SUBMESSAGE"} =>
                ValuesOf(field) = [1..field.data_size -> 0..255]
  <1>1. CASE field.ltype \in Packable
    <2>1. field.ltype # "BYTES" /\ field.ltype # "SUBMESSAGE"
      BY <1>1 DEF Packable, Varints
    <2> QED
      BY <1>1, <2>1, Zenon DEF ValuesOf
  <1>2. CASE field.ltype = "BYTES"
    <2>1. field.ltype \notin Packable /\ field.ltype # "SUBMESSAGE"
      BY <1>2 DEF Packable, Varints
    <2> QED
      BY <1>2, <2>1, Zenon DEF ValuesOf
  <1>3. CASE field.ltype = "SUBMESSAGE"
    <2>1. field.ltype \notin Packable /\ field.ltype # "BYTES"
      BY <1>3 DEF Packable, Varints
    <2> QED
      BY <1>3, <2>1, Zenon DEF ValuesOf
  <1>4. CASE field.ltype \notin Packable \cup {"BYTES", "SUBMESSAGE"}
    <2>1. field.ltype \notin Packable /\ field.ltype # "BYTES" /\ field.ltype # "SUBMESSAGE"
      BY <1>4
    <2> QED
      BY <2>1, Zenon DEF ValuesOf
  <1> QED
    BY <1>1, <1>2, <1>3, <1>4

LEMMA PackableData ==
    ASSUME NEW field \in Descriptors, field.ltype \in Packable, NEW data \in ValuesOf(field)
    PROVE  data \in Seq(Bit) /\ Len(data) = 8 * field.data_size
  <1> DEFINE n == 8 * field.data_size
  <1>1. n \in Nat
    <2>1. field.data_size \in Nat
      BY FieldParts
    <2> QED
      BY <2>1
  <1>2. data \in [1..n -> Bit]
    <2>1. ValuesOf(field) = [1..(8 * field.data_size) -> {0, 1}]
      BY ValuesCases
    <2> QED
      BY <2>1, Zenon DEF Bit
  <1> HIDE DEF n
  <1>3. data \in Seq(Bit) /\ Len(data) = n
    BY <1>1, <1>2
  <1> QED
    BY <1>3 DEF n

(* The bytes of an integer, *)
LEMMA IntegerBytes ==
    ASSUME NEW field, NEW data \in Seq(Bit), data # <<>>
    PROVE  \E buf \in Seq(Nat) : \A stream : PbEncVarint(stream, field, data) = PbWrite(stream, buf)
  <1>1. Unsigned(data, 64) \in Seq(Bit) /\ Signed(data, 64) \in Seq(Bit)
    BY UnsignedType, SignedType
  <1>2. CASE field.ltype = "UVARINT"
    <2>1. \A stream : PbEncVarint(stream, field, data) = PbEncodeVarint(stream, Unsigned(data, 64))
      BY <1>2 DEF PbEncVarint
    <2> QED
      BY <1>1, <2>1, VarintBytes
  <1>3. CASE field.ltype = "SVARINT"
    <2>1. \A stream : PbEncVarint(stream, field, data) = PbEncodeSvarint(stream, Signed(data, 64))
      BY <1>3 DEF PbEncVarint
    <2> QED
      BY <1>1, <2>1, SvarintBytes
  <1>4. CASE field.ltype \notin {"UVARINT", "SVARINT"}
    <2>1. \A stream : PbEncVarint(stream, field, data) = PbEncodeVarint(stream, Signed(data, 64))
      BY <1>4 DEF PbEncVarint
    <2> QED
      BY <1>1, <2>1, VarintBytes
  <1> QED
    BY <1>2, <1>3, <1>4

(* and of any value that can be packed. *)
LEMMA PackedBytes ==
    ASSUME NEW iter, IsItem(iter), iter.field.ltype \in Packable
    PROVE  \E buf \in Seq(Nat) :
              /\ \A stream : EncodePacked(stream, iter) = PbWrite(stream, buf)
              /\ iter.field.ltype \in {"FIXED32", "FIXED64"} => Len(buf) = iter.field.data_size
  <1> DEFINE data == iter.data
             k == iter.field.data_size
  <1>1. k \in Nat /\ (iter.field.ltype \in Varints => k \in {1, 2, 4, 8})
    BY FieldParts DEF IsItem
  <1>2. data \in Seq(Bit) /\ Len(data) = 8 * k
    BY PackableData DEF IsItem
  <1> HIDE DEF data, k
  <1>3. CASE iter.field.ltype \in Varints
    <2>1. data # <<>>
      <3>1. Len(data) # 0
        BY <1>1, <1>2, <1>3
      <3> QED
        BY <3>1
    <2>2. PICK buf \in Seq(Nat) :
            \A stream : PbEncVarint(stream, iter.field, data) = PbWrite(stream, buf)
      BY <1>2, <2>1, IntegerBytes
    <2>3. \A stream : EncodePacked(stream, iter) = PbWrite(stream, buf)
      BY <1>3, <2>2, Zenon DEF EncodePacked, data
    <2>4. iter.field.ltype \notin {"FIXED32", "FIXED64"}
      BY <1>3 DEF Varints
    <2> QED
      BY <2>3, <2>4
  <1>4. CASE iter.field.ltype \notin Varints
    <2>1. PICK buf \in Seq(Nat) :
            Len(buf) = k /\ \A stream : PbEncodeFixed(stream, data) = PbWrite(stream, buf)
      BY <1>1, <1>2, FixedBytes
    <2>2. \A stream : EncodePacked(stream, iter) = PbWrite(stream, buf)
      BY <1>4, <2>1, Zenon DEF EncodePacked, data
    <2> QED
      BY <2>1, <2>2, Zenon DEF k
  <1> QED
    BY <1>3, <1>4

LEMMA PackedAgrees ==
    ASSUME NEW iter, IsItem(iter), iter.field.ltype \in Packable,
           NEW z, NEW s, NEW d, NEW max, Agree(z, s, d, max)
    PROVE  Agree(EncodePacked(z, iter), EncodePacked(s, iter), d, max)
  <1>1. PICK buf \in Seq(Nat) : \A stream : EncodePacked(stream, iter) = PbWrite(stream, buf)
    BY PackedBytes
  <1> QED
    BY <1>1, WriteAgrees

LEMMA SeqFunction ==
    ASSUME NEW S, NEW q \in Seq(S)
    PROVE  Len(q) \in Nat /\ q \in [1..Len(q) -> S]
  OBVIOUS

LEMMA ByteSeq ==
    ASSUME NEW n \in Nat, NEW q \in [1..n -> 0..255]
    PROVE  q \in Seq(Nat) /\ Len(q) = n
  <1>1. q \in [1..n -> Nat]
    <2>1. 0..255 \subseteq Nat
      OBVIOUS
    <2> QED
      BY <2>1, Zenon
  <1> QED
    BY <1>1

LEMMA ByteSubSeq ==
    ASSUME NEW n \in Nat, NEW q \in [1..n -> 0..255], NEW k \in 0..n
    PROVE  SubSeq(q, 1, k) \in Seq(Nat)
  <1>1. q \in Seq(Nat) /\ Len(q) = n
    BY ByteSeq
  <1>2. k \in 0..Len(q)
    BY <1>1
  <1> QED
    BY <1>1, <1>2

(* Bytes with a length, unless there are too many; *)
LEMMA BytesAgrees ==
    ASSUME NEW field, NEW data \in Seq(0..255), NEW z, NEW s, NEW d, NEW max, Agree(z, s, d, max)
    PROVE  Agree(PbEncBytes(z, field, data), PbEncBytes(s, field, data), d, max)
  <1>1. CASE Len(data) > field.data_size - BytesOffset
    <2>1. \A x : PbEncBytes(x, field, data) = Failed(x, "bytes size exceeded")
      BY <1>1, Zenon DEF PbEncBytes
    <2>2. "bytes size exceeded" \in Errors
      BY DEF Errors
    <2>3. "bytes size exceeded" # ""
      OBVIOUS
    <2> QED
      BY <2>1, <2>2, <2>3, FailedAgrees, Zenon
  <1>2. CASE ~(Len(data) > field.data_size - BytesOffset)
    <2>1. \A x : PbEncBytes(x, field, data) = PbEncodeString(x, data)
      BY <1>2, Zenon DEF PbEncBytes
    <2>2. data \in Seq(Nat)
      <3>1. Len(data) \in Nat /\ data \in [1..Len(data) -> 0..255]
        BY SeqFunction, Zenon
      <3> QED
        BY <3>1, ByteSeq, Zenon
    <2> QED
      BY <2>1, <2>2, StringAgrees, Zenon
  <1> QED
    BY <1>1, <1>2, Zenon

(* a string up to its zero, if there is one. *)
LEMMA TextAgrees ==
    ASSUME NEW field \in Descriptors, NEW data \in [1..field.data_size -> 0..255],
           NEW z, NEW s, NEW d, NEW max, Agree(z, s, d, max)
    PROVE  Agree(PbEncString(z, field, data), PbEncString(s, field, data), d, max)
  <1> DEFINE n == field.data_size
             Zeroes == {i \in 1..n : data[i] = 0}
             first == CHOOSE i \in Zeroes : \A j \in Zeroes : i <= j
             text == SubSeq(data, 1, first - 1)
  <1>0. n \in Nat
    BY FieldParts
  <1>1. CASE n = 0
    <2>1. \A x : PbEncString(x, field, data) = Failed(x, "zero-length string")
      BY <1>1 DEF PbEncString
    <2>2. "zero-length string" \in Errors
      BY DEF Errors
    <2>3. "zero-length string" # ""
      OBVIOUS
    <2> QED
      BY <2>1, <2>2, <2>3, FailedAgrees, Zenon
  <1>2. CASE n # 0 /\ Zeroes = {}
    <2>1. \A x : PbEncString(x, field, data) = Failed(x, "unterminated string")
      BY <1>2, Zenon DEF PbEncString
    <2>2. "unterminated string" \in Errors
      BY DEF Errors
    <2>3. "unterminated string" # ""
      OBVIOUS
    <2> QED
      BY <2>1, <2>2, <2>3, FailedAgrees, Zenon
  <1>3. CASE n # 0 /\ Zeroes # {}
    <2>1. \A x : PbEncString(x, field, data) = PbEncodeString(x, text)
      BY <1>3, Zenon DEF PbEncString
    <2>2. Zeroes \subseteq Nat
      BY <1>0
    <2>3. first \in Zeroes
      <3> HIDE DEF Zeroes
      <3>1. \E i \in Zeroes : \A j \in Zeroes : i <= j
        BY <1>3, <2>2, Nats!LeastNat
      <3> QED
        BY <3>1
    <2>4. first \in 1..n
      BY <2>3
    <2> HIDE DEF first, n
    <2>5. first - 1 \in 0..n
      BY <1>0, <2>4
    <2>6. data \in [1..n -> 0..255]
      BY DEF n
    <2> HIDE DEF text
    <2>7. text \in Seq(Nat)
      BY <1>0, <2>5, <2>6, ByteSubSeq, Zenon DEF text
    <2>8. Agree(PbEncodeString(z, text), PbEncodeString(s, text), d, max)
      BY <2>7, StringAgrees, Zenon
    <2>9. PbEncString(z, field, data) = PbEncodeString(z, text)
          /\ PbEncString(s, field, data) = PbEncodeString(s, text)
      BY <2>1, Zenon
    <2> QED
      BY <2>8, <2>9, Zenon
  <1> QED
    BY <1>1, <1>2, <1>3, Zenon

LEMMA ValueAgrees ==
    ASSUME NEW iter, IsItem(iter), NEW z, NEW s, NEW d, NEW max, Agree(z, s, d, max)
    PROVE  Agree(EncodeValue(z, iter), EncodeValue(s, iter), d, max)
  <1> DEFINE field == iter.field
             data == iter.data
             ltype == field.ltype
  <1>1. field \in Descriptors /\ data \in ValuesOf(field)
    BY Zenon DEF IsItem
  <1>2. ltype \in Packable \cup {"BYTES", "STRING", "SUBMESSAGE", "FIXED_LENGTH_BYTES"}
        /\ field.data_size \in Nat
    BY <1>1, FieldParts
  <1>3. CASE ltype = "BOOL"
    <2> DEFINE b == IF \E i \in DOMAIN data : data[i] = 1 THEN 1 ELSE 0
    <2>1. b \in Nat
      OBVIOUS
    <2>2. \A x : EncodeValue(x, iter) = PbEncodeSize(x, b)
      BY <1>3 DEF EncodeValue, PbEncBool, Varints
    <2> HIDE DEF b
    <2> QED
      BY <2>1, <2>2, SizeAgrees, Zenon
  <1>4. CASE ltype \in Varints \ {"BOOL"}
    <2>1. \A x : EncodeValue(x, iter) = EncodePacked(x, iter)
      BY <1>4 DEF EncodeValue, EncodePacked, Varints
    <2>2. ltype \in Packable
      BY <1>4, Zenon DEF Packable
    <2> QED
      BY <2>1, <2>2, PackedAgrees, Zenon
  <1>5. CASE ltype \in {"FIXED32", "FIXED64"}
    <2>1. \A x : EncodeValue(x, iter) = EncodePacked(x, iter)
      BY <1>5 DEF EncodeValue, EncodePacked, Varints
    <2>2. ltype \in Packable
      BY <1>5, Zenon DEF Packable
    <2> QED
      BY <2>1, <2>2, PackedAgrees, Zenon
  <1>6. CASE ltype = "BYTES"
    <2>1. \A x : EncodeValue(x, iter) = PbEncBytes(x, field, data)
      BY <1>6 DEF EncodeValue, Varints
    <2>2. data \in Seq(0..255)
      BY <1>1, <1>6, ValuesCases
    <2> QED
      BY <2>1, <2>2, BytesAgrees, Zenon
  <1>7. CASE ltype = "STRING"
    <2>1. \A x : EncodeValue(x, iter) = PbEncString(x, field, data)
      BY <1>7 DEF EncodeValue, Varints
    <2>2. ltype \notin Packable \cup {"BYTES", "SUBMESSAGE"}
      BY <1>7 DEF Packable, Varints
    <2>3. data \in [1..field.data_size -> 0..255]
      BY <1>1, <2>2, ValuesCases
    <2> QED
      BY <1>1, <2>1, <2>3, TextAgrees, Zenon
  <1>8. CASE ltype = "SUBMESSAGE"
    <2>1. \A x : EncodeValue(x, iter) = PbEncodeSubmessage(x, iter.encode, data)
      BY <1>8 DEF EncodeValue, PbEncSubmessage, Varints
    <2>2. data \in Structures[field.submsg]
      BY <1>1, <1>8, ValuesCases
    <2>3. KeepsStep(iter.encode, Structures[field.submsg])
      BY <1>8, Zenon DEF IsItem
    <2> QED
      BY <2>1, <2>2, <2>3, SubmessageAgrees, Zenon
  <1>9. CASE ltype = "FIXED_LENGTH_BYTES"
    <2>1. \A x : EncodeValue(x, iter) = PbEncodeString(x, data)
      BY <1>9 DEF EncodeValue, Varints
    <2>2. ltype \notin Packable \cup {"BYTES", "SUBMESSAGE"}
      BY <1>9 DEF Packable, Varints
    <2>3. data \in [1..field.data_size -> 0..255]
      BY <1>1, <2>2, ValuesCases
    <2>5. data \in Seq(Nat)
      BY <1>2, <2>3, ByteSeq, Zenon
    <2> QED
      BY <2>1, <2>5, StringAgrees, Zenon
  <1>10. \/ ltype = "BOOL" \/ ltype \in Varints \ {"BOOL"} \/ ltype \in {"FIXED32", "FIXED64"}
         \/ ltype \in {"BYTES", "STRING", "SUBMESSAGE", "FIXED_LENGTH_BYTES"}
    BY <1>2, Zenon DEF Packable
  <1> QED
    BY <1>3, <1>4, <1>5, <1>6, <1>7, <1>8, <1>9, <1>10, Zenon

LEMMA BasicAgrees ==
    ASSUME NEW iter, IsItem(iter), NEW z, NEW s, NEW d, NEW max, Agree(z, s, d, max)
    PROVE  Agree(EncodeBasicField(z, iter), EncodeBasicField(s, iter), d, max)
  <1> DEFINE field == iter.field
  <1>1. field.tag \in Nat
    BY FieldParts DEF IsItem
  <1>2. WireType(field.ltype) \in Nat
    BY DEF WireType, PB_WT_VARINT, PB_WT_32BIT, PB_WT_64BIT, PB_WT_STRING
  <1>3. Agree(PbEncodeTagForField(z, field), PbEncodeTagForField(s, field), d, max)
    BY <1>1, <1>2, TagAgrees, Zenon DEF PbEncodeTagForField
  <1> QED
    BY <1>3, ValueAgrees, Zenon DEF EncodeBasicField

-----------------------------------------------------------------------------
(* Arrays.                                                                 *)

Packing == INSTANCE FoldLaws WITH V <- Streams, B <- Nat, op <- EncodePacked
Repeating == INSTANCE FoldLaws WITH V <- Streams, B <- Nat, op <- EncodeBasicField

(* An iterator has the fields Iter gives it. *)
IsIter(iter) ==
    iter = [type |-> iter.type, field |-> iter.field, data |-> iter.data, size |-> iter.size,
            encode |-> iter.encode]

IsArray(iter) ==
    /\ IsIter(iter)
    /\ iter.field \in Descriptors
    /\ iter.data \in [1..iter.field.array_size -> ValuesOf(iter.field)]
    /\ iter.field.ltype = "SUBMESSAGE" =>
          KeepsStep(iter.encode, Structures[iter.field.submsg])

ItemsOf(iter, count) == [i \in 1..count |-> [iter EXCEPT !.data = iter.data[i]]]

(* The iterator with other data. *)
IterOf(iter, data, r) ==
    /\ IsIter(r) /\ r.type = iter.type /\ r.field = iter.field /\ r.data = data
    /\ r.size = iter.size /\ r.encode = iter.encode

LEMMA IterPut ==
    ASSUME NEW iter, IsIter(iter), NEW x
    PROVE  IterOf(iter, x, [iter EXCEPT !.data = x])
  BY DEF IsIter, IterOf

LEMMA ItemsAre ==
    ASSUME NEW iter, IsArray(iter), NEW count \in 1..iter.field.array_size, NEW i \in 1..count
    PROVE  IsItem(ItemsOf(iter, count)[i]) /\ ItemsOf(iter, count)[i].field = iter.field
  <1> DEFINE n == iter.field.array_size
             x == iter.data[i]
             r == [iter EXCEPT !.data = x]
  <1>1. n \in Nat
    BY FieldParts DEF IsArray
  <1>2. i \in 1..n
    <2>1. count \in 1..n
      OBVIOUS
    <2> HIDE DEF n
    <2>2. \A m \in Nat : \A c \in 1..m : \A j \in 1..c : j \in 1..m
      OBVIOUS
    <2> QED
      BY <1>1, <2>1, <2>2, Zenon
  <1>3. x \in ValuesOf(iter.field)
    BY <1>2, Zenon DEF IsArray
  <1>4. IterOf(iter, x, r)
    BY IterPut, Zenon DEF IsArray
  <1>5. ItemsOf(iter, count)[i] = r
    BY Zenon DEF ItemsOf
  <1> HIDE DEF r, x
  <1>6. r.field = iter.field /\ r.data = x /\ r.encode = iter.encode
    BY <1>4, Zenon DEF IterOf
  <1>7. IsItem(r)
    BY <1>3, <1>6, Zenon DEF IsItem, IsArray
  <1> QED
    BY <1>5, <1>6, <1>7, Zenon

(* The elements one after the other, each with its tag. *)
LEMMA RepeatedAgrees ==
    ASSUME NEW iter, IsArray(iter), NEW count \in 1..iter.field.array_size,
           NEW z, NEW s, NEW d, NEW max, Agree(z, s, d, max)
    PROVE  Agree(FoldLeft(EncodeBasicField, z, ItemsOf(iter, count)),
                 FoldLeft(EncodeBasicField, s, ItemsOf(iter, count)), d, max)
  <1> DEFINE items == ItemsOf(iter, count)
             R == {p \in Streams \X Streams : Agree(p[1], p[2], d, max)}
  <1>1. \A x, y : <<x, y>> \in R <=> Agree(x, y, d, max)
    <2>1. \A x, y : Agree(x, y, d, max) => x \in Streams /\ y \in Streams
      BY Zenon DEF Agree, Counts, Writes
    <2> QED
      BY <2>1
  <1>2. DOMAIN items = 1..count /\ count \in Nat
    <2>1. iter.field.array_size \in Nat
      BY FieldParts DEF IsArray
    <2> QED
      BY <2>1 DEF ItemsOf
  <1>3. \A i \in 1..count : IsItem(items[i])
    BY ItemsAre
  <1> HIDE DEF R, items
  <1>4. \A i \in 1..count : \A x, y :
           <<x, y>> \in R => <<EncodeBasicField(x, items[i]), EncodeBasicField(y, items[i])>> \in R
    BY <1>1, <1>3, BasicAgrees, Zenon
  <1>5. <<z, s>> \in R
    BY <1>1, Zenon
  <1>6. <<Repeating!Fold(z, items), Repeating!Fold(s, items)>> \in R
    BY <1>2, <1>4, <1>5, Repeating!FoldBoth, Zenon
  <1>7. Agree(Repeating!Fold(z, items), Repeating!Fold(s, items), d, max)
    BY <1>1, <1>6, Zenon
  <1> DEFINE za == FoldLeft(EncodeBasicField, z, items)
             sa == FoldLeft(EncodeBasicField, s, items)
  <1>8. Repeating!Fold(z, items) = za /\ Repeating!Fold(s, items) = sa
    BY DEF Repeating!Fold, Repeating!FoldLeft, FoldLeft, Repeating!MapThenFoldSet, MapThenFoldSet,
           Repeating!Max, Max
  <1> HIDE DEF za, sa
  <1>9. Agree(za, sa, d, max)
    BY <1>7, <1>8, Zenon
  <1> QED
    BY <1>9, Zenon DEF za, sa, items

(* A packed array in one pass: while just sizing nothing fails, *)
LEMMA PackedCounts ==
    ASSUME NEW iter, IsArray(iter), iter.field.ltype \in Packable,
           NEW count \in 1..iter.field.array_size
    PROVE  LET all == FoldLeft(EncodePacked, Sizing, ItemsOf(iter, count))
           IN /\ Counts(all) /\ all.errmsg = ""
              /\ iter.field.ltype \in {"FIXED32", "FIXED64"} =>
                    all.bytes_written = iter.field.data_size * count
  <1> DEFINE items == ItemsOf(iter, count)
             all == FoldLeft(EncodePacked, Sizing, items)
             k == iter.field.data_size
             Is(x, i) == /\ Counts(x) /\ x.errmsg = ""
                         /\ iter.field.ltype \in {"FIXED32", "FIXED64"} => x.bytes_written = k * i
  <1>1. k \in Nat /\ iter.field.array_size \in Nat
    BY FieldParts DEF IsArray
  <1>2. DOMAIN items = 1..count /\ count \in Nat
    BY <1>1 DEF ItemsOf
  <1>3. \A i \in 1..count : IsItem(items[i]) /\ items[i].field = iter.field
    BY ItemsAre
  <1> HIDE DEF items, k
  <1>4. PICK w : Packing!Walks(w, Sizing, items, count) /\ w[count] = Packing!Fold(Sizing, items)
    BY <1>2, Packing!FoldSteps, Zenon
  <1>5. w[0] = Sizing /\ \A i \in 1..count : w[i] = EncodePacked(w[i - 1], items[i])
    BY <1>4, Zenon DEF Packing!Walks
  <1> DEFINE S == {i \in Nat : i <= count => Is(w[i], i)}
  <1>6. 0 \in S
    <2>1. k * 0 = 0
      BY <1>1
    <2>2. Is(w[0], 0)
      BY <1>5, <2>1, SizingIs, Zenon DEF Counts
    <2> HIDE DEF Is
    <2> QED
      BY <2>2
  <1>7. ASSUME NEW i \in Nat, i \in S PROVE i + 1 \in S
    <2> HIDE DEF Is
    <2> SUFFICES ASSUME i + 1 <= count PROVE Is(w[i + 1], i + 1)
      OBVIOUS
    <2>1. i <= count /\ i + 1 \in 1..count /\ (i + 1) - 1 = i
      BY <1>2
    <2>2. Is(w[i], i)
      BY <1>7, <2>1
    <2>3. w[i + 1] = EncodePacked(w[i], items[i + 1])
      BY <1>5, <2>1
    <2>4. IsItem(items[i + 1]) /\ items[i + 1].field = iter.field
      BY <1>3, <2>1
    <2>5. PICK buf \in Seq(Nat) :
            /\ \A stream : EncodePacked(stream, items[i + 1]) = PbWrite(stream, buf)
            /\ iter.field.ltype \in {"FIXED32", "FIXED64"} => Len(buf) = k
      BY <2>4, PackedBytes, Zenon DEF k
    <2>6. Counted(w[i], Len(buf), w[i + 1])
      BY <2>2, <2>3, <2>5, WriteCounted, Zenon DEF Is
    <2>7. k * i + k = k * (i + 1)
      BY <1>1
    <2> QED
      BY <2>2, <2>5, <2>6, <2>7, Zenon DEF Counted, Is
  <1> HIDE DEF S, Is
  <1>8. count \in S
    BY <1>2, <1>6, <1>7, Packing!NatSetInduction
  <1>9. Is(w[count], count)
    BY <1>2, <1>8 DEF S
  <1>10. all = w[count]
    <2>1. Packing!Fold(Sizing, items) = FoldLeft(EncodePacked, Sizing, items)
      BY DEF Packing!Fold, Packing!FoldLeft, FoldLeft, Packing!MapThenFoldSet, MapThenFoldSet,
             Packing!Max, Max
    <2> QED
      BY <1>4, <2>1, Zenon
  <1>11. Is(all, count)
    BY <1>9, <1>10, Zenon
  <1> QED
    BY <1>11, Zenon DEF Is, items, k

(* and the two passes stay in step. *)
LEMMA PackedInStep ==
    ASSUME NEW iter, IsArray(iter), iter.field.ltype \in Packable,
           NEW count \in 1..iter.field.array_size,
           NEW z, NEW s, NEW d, NEW max, Agree(z, s, d, max)
    PROVE  Agree(FoldLeft(EncodePacked, z, ItemsOf(iter, count)),
                 FoldLeft(EncodePacked, s, ItemsOf(iter, count)), d, max)
  <1> DEFINE items == ItemsOf(iter, count)
             R == {p \in Streams \X Streams : Agree(p[1], p[2], d, max)}
  <1>1. \A x, y : <<x, y>> \in R <=> Agree(x, y, d, max)
    <2>1. \A x, y : Agree(x, y, d, max) => x \in Streams /\ y \in Streams
      BY Zenon DEF Agree, Counts, Writes
    <2> QED
      BY <2>1
  <1>2. DOMAIN items = 1..count /\ count \in Nat
    <2>1. iter.field.array_size \in Nat
      BY FieldParts DEF IsArray
    <2> QED
      BY <2>1 DEF ItemsOf
  <1>3. \A i \in 1..count : IsItem(items[i]) /\ items[i].field = iter.field
    BY ItemsAre
  <1> HIDE DEF R, items
  <1>4. \A i \in 1..count : \A x, y :
           <<x, y>> \in R => <<EncodePacked(x, items[i]), EncodePacked(y, items[i])>> \in R
    <2> SUFFICES ASSUME NEW i \in 1..count, NEW x, NEW y, <<x, y>> \in R
                 PROVE  <<EncodePacked(x, items[i]), EncodePacked(y, items[i])>> \in R
      OBVIOUS
    <2>1. IsItem(items[i]) /\ items[i].field.ltype \in Packable
      BY <1>3
    <2> QED
      BY <1>1, <2>1, PackedAgrees, Zenon
  <1>5. <<z, s>> \in R
    BY <1>1, Zenon
  <1>6. <<Packing!Fold(z, items), Packing!Fold(s, items)>> \in R
    BY <1>2, <1>4, <1>5, Packing!FoldBoth, Zenon
  <1>7. Agree(Packing!Fold(z, items), Packing!Fold(s, items), d, max)
    BY <1>1, <1>6, Zenon
  <1> DEFINE za == FoldLeft(EncodePacked, z, items)
             sa == FoldLeft(EncodePacked, s, items)
  <1>8. Packing!Fold(z, items) = za /\ Packing!Fold(s, items) = sa
    BY DEF Packing!Fold, Packing!FoldLeft, FoldLeft, Packing!MapThenFoldSet, MapThenFoldSet,
           Packing!Max, Max
  <1> HIDE DEF za, sa
  <1>9. Agree(za, sa, d, max)
    BY <1>7, <1>8, Zenon
  <1> QED
    BY <1>9, Zenon DEF za, sa, items

(* A stream is in step with a pass just sizing from any point on. *)
LEMMA AgreesFrom ==
    ASSUME NEW s, NEW max \in Nat, Writes(s, max), s.bytes_written \in Nat, s.bytes_written <= max
    PROVE  /\ s.errmsg = "" => Agree(Sizing, s, s.bytes_written, max)
           /\ s.errmsg # "" => Agree(Sizing, s, max + 1, max)
  <1> DEFINE sb == s.bytes_written
  <1>1. Counts(Sizing) /\ Sizing.errmsg = "" /\ Sizing.bytes_written = 0
    BY SizingIs, Zenon DEF Counts
  <1>2. \A m, b \in Nat : b = 0 + b /\ b \in Int /\ 0 + (m + 1) > m /\ m + 1 \in Int /\ 0 \in Nat
    OBVIOUS
  <1>3. CASE s.errmsg = ""
    <2>1. InStep("", 0, "", sb, sb, max)
      BY <1>2, Zenon DEF InStep
    <2> QED
      BY <1>1, <1>3, <2>1, Zenon DEF Agree
  <1>4. CASE s.errmsg # ""
    <2>1. InStep("", 0, s.errmsg, sb, max + 1, max)
      BY <1>2, <1>4, Zenon DEF InStep
    <2> QED
      BY <1>1, <1>4, <2>1, Zenon DEF Agree
  <1> QED
    BY <1>3, <1>4

(* So that much is written as was counted from nothing. *)
LEMMA AgreedWritten ==
    ASSUME NEW s, NEW max \in Nat, Writes(s, max), s.bytes_written \in Nat, s.bytes_written <= max,
           NEW zz, zz.errmsg = "", NEW ss,
           s.errmsg = "" => Agree(zz, ss, s.bytes_written, max),
           s.errmsg # "" => Agree(zz, ss, max + 1, max)
    PROVE  Written(s, zz.bytes_written, max, ss)
  <1> DEFINE sb == s.bytes_written
             zb == zz.bytes_written
             b == ss.bytes_written
  <1>1. CASE s.errmsg = ""
    <2>1. /\ Writes(ss, max) /\ b \in Nat /\ zb \in Nat /\ b <= max
          /\ ss.errmsg = "" => b = zb + sb
          /\ ss.errmsg # "" => zb + sb > max
      BY <1>1, Zenon DEF Agree, InStep
    <2> HIDE DEF sb, zb, b
    <2>2. sb \in Nat
      BY DEF sb
    <2>3. zb + sb = sb + zb /\ (zb + sb > max <=> ~(sb + zb <= max))
      BY <2>1, <2>2, Commutes, Zenon
    <2>4. ss.errmsg = "" => sb + zb <= max /\ b = sb + zb
      BY <2>1, <2>3, Zenon
    <2>5. ss.errmsg # "" => ~(sb + zb <= max)
      BY <2>1, <2>3, Zenon
    <2> QED
      BY <1>1, <2>1, <2>4, <2>5, Zenon DEF Written, sb, zb, b
  <1>2. CASE s.errmsg # ""
    <2>1. /\ Writes(ss, max) /\ b \in Nat /\ zb \in Nat /\ b <= max
          /\ ss.errmsg = "" => b = zb + (max + 1)
      BY <1>2, Zenon DEF Agree, InStep
    <2> HIDE DEF sb, zb, b
    <2>2. b # zb + (max + 1)
      BY <2>1, PastAll, Zenon
    <2>3. ss.errmsg # ""
      BY <2>1, <2>2, Zenon
    <2> QED
      BY <1>2, <2>1, <2>3, Zenon DEF Written, sb, zb, b
  <1> QED
    BY <1>1, <1>2

LEMMA PackedWritten ==
    ASSUME NEW iter, IsArray(iter), iter.field.ltype \in Packable,
           NEW count \in 1..iter.field.array_size,
           NEW s, NEW max \in Nat, Writes(s, max), s.bytes_written \in Nat, s.bytes_written <= max
    PROVE  LET all == FoldLeft(EncodePacked, Sizing, ItemsOf(iter, count))
           IN Written(s, all.bytes_written, max, FoldLeft(EncodePacked, s, ItemsOf(iter, count)))
  <1> DEFINE all == FoldLeft(EncodePacked, Sizing, ItemsOf(iter, count))
             ss == FoldLeft(EncodePacked, s, ItemsOf(iter, count))
  <1>1. all.errmsg = ""
    BY PackedCounts, Zenon
  <1>2. s.errmsg = "" => Agree(all, ss, s.bytes_written, max)
    BY AgreesFrom, PackedInStep, Zenon
  <1>3. s.errmsg # "" => Agree(all, ss, max + 1, max)
    BY AgreesFrom, PackedInStep, Zenon
  <1> HIDE DEF all, ss
  <1>4. Written(s, all.bytes_written, max, ss)
    BY <1>1, <1>2, <1>3, AgreedWritten, Zenon
  <1> QED
    BY <1>4, Zenon DEF all, ss

(* The length, then the elements, which are that long. *)
LEMMA PackedArrayAgrees ==
    ASSUME NEW iter, IsArray(iter), iter.field.ltype \in Packable,
           NEW count \in 1..iter.field.array_size,
           NEW z, NEW s, NEW d, NEW max, Agree(z, s, d, max)
    PROVE  Agree(EncodeArray(z, iter, count), EncodeArray(s, iter, count), d, max)
  <1> DEFINE field == iter.field
             items == ItemsOf(iter, count)
             all == FoldLeft(EncodePacked, Sizing, items)
             size == CASE field.ltype = "FIXED32" -> 4 * count
                       [] field.ltype = "FIXED64" -> 8 * count
                       [] OTHER -> all.bytes_written
             T(x) == PbEncodeSize(PbEncodeTag(x, PB_WT_STRING, field.tag), size)
             ts == FoldLeft(EncodePacked, T(s), items)
  <1>0. /\ field.tag \in Nat /\ field.array_size \in Nat
        /\ field.ltype = "FIXED32" => field.data_size = 4
        /\ field.ltype = "FIXED64" => field.data_size = 8
    BY FieldParts DEF IsArray
  <1>1. count \in Nat /\ count # 0 /\ ~(count > field.array_size)
    BY <1>0
  <1>2. Counts(all) /\ (field.ltype \in {"FIXED32", "FIXED64"} =>
                            all.bytes_written = field.data_size * count)
    BY PackedCounts, Zenon
  <1> HIDE DEF all
  <1>3. size = all.bytes_written
    <2>1. CASE field.ltype = "FIXED32"
      BY <1>0, <1>2, <2>1
    <2>2. CASE field.ltype = "FIXED64"
      BY <1>0, <1>2, <2>2
    <2>3. CASE field.ltype # "FIXED32" /\ field.ltype # "FIXED64"
      BY <2>3
    <2> QED
      BY <2>1, <2>2, <2>3, Zenon
  <1>4. all.bytes_written \in Nat
    <2>1. all \in Streams
      BY <1>2, Zenon DEF Counts
    <2> QED
      BY <2>1, StreamParts
  <1>5. size \in Nat
    BY <1>3, <1>4, Zenon
  <1>6. /\ \A x : x.callback = FALSE => EncodeArray(x, iter, count) = Count(T(x), size)
        /\ \A x : x.callback = TRUE =>
              EncodeArray(x, iter, count) = FoldLeft(EncodePacked, T(x), items)
    <2> DEFINE E(x) == IF ~x.callback THEN Count(T(x), size)
                       ELSE FoldLeft(EncodePacked, T(x), items)
    <2>1. \A x : EncodeArray(x, iter, count) = E(x)
      BY <1>1, Zenon DEF EncodeArray, all, ItemsOf
    <2>2. \A x : (x.callback = FALSE => E(x) = Count(T(x), size))
              /\ (x.callback = TRUE => E(x) = FoldLeft(EncodePacked, T(x), items))
      <3> HIDE DEF T, items, size
      <3> QED
        BY Zenon
    <2> HIDE DEF E, T, size, items
    <2> QED
      BY <2>1, <2>2, Zenon
  <1> HIDE DEF size
  <1>7. Agree(T(z), T(s), d, max)
    <2>1. PB_WT_STRING \in Nat
      BY DEF PB_WT_STRING
    <2> QED
      BY <1>0, <1>5, <2>1, TagAgrees, SizeAgrees, Zenon
  <1> HIDE DEF T, items
  <1>8. Counted(T(z), size, Count(T(z), size))
    BY <1>5, <1>7, CountCounted, Zenon DEF Agree
  <1>9. Written(T(s), size, max, ts)
    <2>1. max \in Nat /\ Writes(T(s), max) /\ T(s).bytes_written \in Nat
          /\ T(s).bytes_written <= max
      BY <1>7, Zenon DEF Agree, InStep
    <2> QED
      BY <1>3, <2>1, PackedWritten, Zenon DEF items, all
  <1>10. Agree(Count(T(z), size), ts, d, max)
    BY <1>5, <1>7, <1>8, <1>9, CountedWritten, Zenon
  <1>11. z.callback = FALSE /\ s.callback = TRUE
    BY Zenon DEF Agree, Counts, Writes
  <1> HIDE DEF ts
  <1>12. EncodeArray(z, iter, count) = Count(T(z), size) /\ EncodeArray(s, iter, count) = ts
    BY <1>6, <1>11, Zenon DEF ts
  <1> QED
    BY <1>10, <1>12, Zenon

LEMMA ArrayAgrees ==
    ASSUME NEW iter, IsArray(iter), NEW count \in Nat,
           NEW z, NEW s, NEW d, NEW max, Agree(z, s, d, max)
    PROVE  Agree(EncodeArray(z, iter, count), EncodeArray(s, iter, count), d, max)
  <1> DEFINE n == iter.field.array_size
  <1>0. n \in Nat
    BY FieldParts DEF IsArray
  <1>1. CASE count = 0
    <2>1. ~(count > n) /\ count \notin 1..n
      <3> HIDE DEF n
      <3> QED
        BY <1>0, <1>1
    <2>2. EncodeArray(z, iter, count) = z /\ EncodeArray(s, iter, count) = s
      BY <1>1, <2>1, Zenon DEF EncodeArray
    <2> QED
      BY <2>2, Zenon
  <1>2. CASE count # 0 /\ count > n
    <2>0. count \notin 1..n
      <3> HIDE DEF n
      <3> QED
        BY <1>0, <1>2
    <2>1. \A x : EncodeArray(x, iter, count) = Failed(x, "array max size exceeded")
      BY <1>2, <2>0, Zenon DEF EncodeArray
    <2>2. "array max size exceeded" \in Errors
      BY DEF Errors
    <2>3. "array max size exceeded" # ""
      OBVIOUS
    <2> QED
      BY <2>1, <2>2, <2>3, FailedAgrees, Zenon
  <1>3. CASE count \in 1..n
    <2>1. CASE iter.field.ltype \in Packable
      BY <1>3, <2>1, PackedArrayAgrees, Zenon
    <2>2. CASE iter.field.ltype \notin Packable
      <3>1. count # 0 /\ ~(count > n)
        <4> HIDE DEF n
        <4> QED
          BY <1>0, <1>3
      <3>2. \A x : EncodeArray(x, iter, count) =
                   FoldLeft(EncodeBasicField, x, ItemsOf(iter, count))
        BY <2>2, <3>1, Zenon DEF EncodeArray, ItemsOf
      <3> QED
        BY <1>3, <3>2, RepeatedAgrees, Zenon
    <2> QED
      BY <2>1, <2>2, Zenon
  <1>4. count = 0 \/ (count # 0 /\ count > n) \/ count \in 1..n
    <2> HIDE DEF n
    <2> QED
      BY <1>0
  <1> QED
    BY <1>1, <1>2, <1>3, <1>4, Zenon

-----------------------------------------------------------------------------
(* Fields and messages.                                                    *)

(* The encoders of the submessages keep in step. *)
SubmessageKeeps(field, encoders) ==
    field.ltype = "SUBMESSAGE" => KeepsStep(encoders[field.submsg], Structures[field.submsg])

LEMMA IterIs ==
    ASSUME NEW t, NEW field, NEW struct, NEW encoders
    PROVE  LET iter == Iter(t, field, struct, encoders)
           IN /\ IsIter(iter) /\ iter.type = t /\ iter.field = field
              /\ iter.data = struct.data[field.place] /\ iter.size = struct.size[field.place]
              /\ field.ltype = "SUBMESSAGE" => iter.encode = encoders[field.submsg]
  BY DEF Iter, IsIter

LEMMA ItemOfIter ==
    ASSUME NEW iter, IsIter(iter), iter.field \in Descriptors, NEW data \in ValuesOf(iter.field),
           iter.field.ltype = "SUBMESSAGE" =>
                KeepsStep(iter.encode, Structures[iter.field.submsg])
    PROVE  IsItem([iter EXCEPT !.data = data])
  <1> DEFINE r == [iter EXCEPT !.data = data]
  <1>1. IterOf(iter, data, r)
    BY IterPut
  <1> HIDE DEF r
  <1>2. IsItem(r)
    BY <1>1, Zenon DEF IterOf, IsItem
  <1> QED
    BY <1>2 DEF r

LEMMA HeldValues ==
    ASSUME NEW struct, NEW field \in Descriptors, Holds(struct, field)
    PROVE  /\ struct.size[field.place] \in Nat
           /\ field.htype = "REPEATED" =>
                struct.data[field.place] \in [1..field.array_size -> ValuesOf(field)]
           /\ field.htype = "ONEOF" /\ struct.size[field.place] = field.tag =>
                OfUnion(field, struct.data[field.place]) \in ValuesOf(field)
           /\ field.htype \notin {"REPEATED", "ONEOF"} =>
                OfUnion(field, struct.data[field.place]) \in ValuesOf(field)
  <1>1. CASE field.htype = "REPEATED"
    BY <1>1 DEF Holds
  <1>2. CASE field.htype = "ONEOF"
    BY <1>2 DEF Holds, OfUnion
  <1>3. CASE field.htype \notin {"REPEATED", "ONEOF"}
    BY <1>3 DEF Holds, OfUnion
  <1> QED
    BY <1>1, <1>2, <1>3

LEMMA FieldAgrees ==
    ASSUME NEW t, NEW field \in Descriptors, NEW struct, Holds(struct, field), NEW encoders,
           SubmessageKeeps(field, encoders),
           NEW z, NEW s, NEW d, NEW max, Agree(z, s, d, max)
    PROVE  Agree(EncodeField(z, Iter(t, field, struct, encoders)),
                 EncodeField(s, Iter(t, field, struct, encoders)), d, max)
  <1> DEFINE iter == Iter(t, field, struct, encoders)
             data == iter.data
             absent ==
                \/ field.htype = "ONEOF" /\ iter.size # field.tag
                \/ field.htype = "OPTIONAL" /\ field.counted /\ iter.size = 0
                \/ /\ field.htype = "OPTIONAL" /\ ~field.counted
                   /\ PbCheckProto3DefaultValue(iter.type, field, iter, AllDefault)
             count == IF field.counted THEN iter.size ELSE field.array_size
             value == OfUnion(field, data)
  <1> SUFFICES Agree(EncodeField(z, iter), EncodeField(s, iter), d, max)
    OBVIOUS
  <1>1. /\ IsIter(iter) /\ iter.field = field
        /\ data = struct.data[field.place] /\ iter.size = struct.size[field.place]
        /\ field.ltype = "SUBMESSAGE" => iter.encode = encoders[field.submsg]
    BY IterIs
  <1>2. /\ \A x : absent => EncodeField(x, iter) = x
        /\ \A x : ~absent /\ field.htype = "REPEATED" =>
                EncodeField(x, iter) = EncodeArray(x, iter, count)
        /\ \A x : ~absent /\ field.htype # "REPEATED" =>
                EncodeField(x, iter) = EncodeBasicField(x, [iter EXCEPT !.data = value])
    <2> HIDE DEF iter
    <2> QED
      BY <1>1, Zenon DEF EncodeField
  <1>3. field.htype = "ONEOF" /\ ~absent => iter.size = field.tag
    OBVIOUS
  <1> HIDE DEF iter, absent
  <1>4. field.ltype = "SUBMESSAGE" => KeepsStep(iter.encode, Structures[field.submsg])
    BY <1>1, Zenon DEF SubmessageKeeps
  <1>5. CASE absent
    <2>1. EncodeField(z, iter) = z /\ EncodeField(s, iter) = s
      BY <1>2, <1>5, Zenon
    <2> QED
      BY <2>1, Zenon
  <1>6. CASE ~absent /\ field.htype = "REPEATED"
    <2>1. count \in Nat
      BY <1>1, FieldParts, HeldValues
    <2>2. IsArray(iter)
      BY <1>1, <1>4, <1>6, HeldValues, Zenon DEF IsArray
    <2> HIDE DEF count
    <2>3. Agree(EncodeArray(z, iter, count), EncodeArray(s, iter, count), d, max)
      BY <2>1, <2>2, ArrayAgrees, Zenon
    <2>4. /\ EncodeField(z, iter) = EncodeArray(z, iter, count)
          /\ EncodeField(s, iter) = EncodeArray(s, iter, count)
      BY <1>2, <1>6, Zenon DEF count
    <2> QED
      BY <2>3, <2>4, Zenon
  <1>7. CASE ~absent /\ field.htype # "REPEATED"
    <2>1. value \in ValuesOf(field)
      BY <1>1, <1>3, <1>7, HeldValues
    <2> HIDE DEF value
    <2>2. IsItem([iter EXCEPT !.data = value])
      BY <1>1, <1>4, <2>1, ItemOfIter, Zenon
    <2> DEFINE item == [iter EXCEPT !.data = value]
    <2>3. /\ EncodeField(z, iter) = EncodeBasicField(z, item)
          /\ EncodeField(s, iter) = EncodeBasicField(s, item)
      BY <1>2, <1>7, Zenon
    <2> HIDE DEF item
    <2>4. Agree(EncodeBasicField(z, item), EncodeBasicField(s, item), d, max)
      BY <2>2, BasicAgrees, Zenon DEF item
    <2> QED
      BY <2>3, <2>4, Zenon
  <1> QED
    BY <1>5, <1>6, <1>7, Zenon

EncoderOf(encoders, t) ==
    [struct \in Structures[t] |-> [stream \in Streams |->
        FoldLeft(EncodeField, stream,
                 [i \in DOMAIN Fields(t) |-> Iter(t, Fields(t)[i], struct, encoders)])]]

IsEncoder(encoders) == encoders = [t \in DOMAIN Descriptor |-> EncoderOf(encoders, t)]

Filling == INSTANCE FoldLaws WITH V <- Streams, B <- Nat, op <- EncodeField
Nesting == INSTANCE FoldLaws WITH V <- Streams, B <- Nat, op <- EncoderOf

(* How deep the messages of a type nest. *)
IsDepth(depth) ==
    /\ depth \in [DOMAIN Descriptor -> 0..Cardinality(DOMAIN Descriptor)]
    /\ \A t \in DOMAIN Descriptor : \A i \in DOMAIN Fields(t) :
          Fields(t)[i].ltype = "SUBMESSAGE" =>
              /\ Fields(t)[i].submsg \in DOMAIN Descriptor
              /\ depth[Fields(t)[i].submsg] < depth[t]

LEMMA DepthExists == \E depth : IsDepth(depth)
  BY DescriptorAssumption, Zenon DEF IsDepth

LEMMA FieldsOf ==
    ASSUME NEW t \in DOMAIN Descriptor
    PROVE  /\ Len(Fields(t)) \in Nat /\ DOMAIN Fields(t) = 1..Len(Fields(t))
           /\ \A i \in DOMAIN Fields(t) : Fields(t)[i] \in Descriptors
  <1> DEFINE fields == Fields(t)
  <1>1. fields \in Seq(Descriptors)
    BY DescriptorAssumption, Zenon
  <1> HIDE DEF fields
  <1>2. Len(fields) \in Nat /\ DOMAIN fields = 1..Len(fields)
        /\ \A i \in DOMAIN fields : fields[i] \in Descriptors
    BY <1>1
  <1> QED
    BY <1>2, Zenon DEF fields

LEMMA EncoderExists == \E encoders : IsEncoder(encoders)
  <1> DEFINE T == DOMAIN Descriptor
  <1>1. PICK depth : IsDepth(depth)
    BY DepthExists
  <1>2. Cardinality(T) \in Nat
    BY DescriptorAssumption, FS_CardinalityType, Zenon
  <1>3. Nesting!NeedsLower(T, depth)
    <2> SUFFICES ASSUME NEW f, NEW g, NEW t \in T,
                        \A u \in T : depth[u] < depth[t] => f[u] = g[u]
                 PROVE  EncoderOf(f, t) = EncoderOf(g, t)
      BY Zenon DEF Nesting!NeedsLower
    <2>1. ASSUME NEW struct, NEW i \in DOMAIN Fields(t)
          PROVE  Iter(t, Fields(t)[i], struct, f) = Iter(t, Fields(t)[i], struct, g)
      <3> DEFINE field == Fields(t)[i]
                 E(h) == IF field.ltype = "SUBMESSAGE" THEN h[field.submsg] ELSE <<>>
      <3>1. E(f) = E(g)
        BY <1>1, Zenon DEF IsDepth
      <3> HIDE DEF E, field
      <3>2. Iter(t, field, struct, f) = Iter(t, field, struct, g)
        BY <3>1, Zenon DEF Iter, E
      <3> QED
        BY <3>2, Zenon DEF field
    <2> DEFINE I(struct, h) == [i \in DOMAIN Fields(t) |-> Iter(t, Fields(t)[i], struct, h)]
    <2>2. \A struct : I(struct, f) = I(struct, g)
      BY <2>1, Zenon
    <2> HIDE DEF I
    <2>3. EncoderOf(f, t) = EncoderOf(g, t)
      <3> DEFINE F(items) == [stream \in Streams |-> FoldLeft(EncodeField, stream, items)]
      <3>1. /\ EncoderOf(f, t) = [struct \in Structures[t] |-> F(I(struct, f))]
            /\ EncoderOf(g, t) = [struct \in Structures[t] |-> F(I(struct, g))]
        BY Zenon DEF EncoderOf, I
      <3> HIDE DEF F
      <3> QED
        BY <2>2, <3>1
    <2> QED
      BY <2>3
  <1>4. depth \in [T -> 0..Cardinality(T)]
    BY <1>1, Zenon DEF IsDepth
  <1>5. \E f : f = [t \in T |-> EncoderOf(f, t)]
    BY <1>2, <1>3, <1>4, Nesting!RecursionByRank, Zenon
  <1> QED
    BY <1>5, Zenon DEF IsEncoder

LEMMA PbEncodeIs == IsEncoder(PbEncode)
  BY EncoderExists, Zenon DEF PbEncode, IsEncoder, EncoderOf

(* The fields of a message one after the other. *)
LEMMA FilledAgrees ==
    ASSUME NEW t \in DOMAIN Descriptor, NEW encoders,
           \A i \in DOMAIN Fields(t) : SubmessageKeeps(Fields(t)[i], encoders),
           NEW struct \in Structures[t],
           NEW z, NEW s, NEW d, NEW max, Agree(z, s, d, max)
    PROVE  Agree(EncoderOf(encoders, t)[struct][z], EncoderOf(encoders, t)[struct][s], d, max)
  <1> DEFINE items == [i \in DOMAIN Fields(t) |-> Iter(t, Fields(t)[i], struct, encoders)]
             n == Len(Fields(t))
             R == {p \in Streams \X Streams : Agree(p[1], p[2], d, max)}
             za == FoldLeft(EncodeField, z, items)
             sa == FoldLeft(EncodeField, s, items)
  <1>1. \A x, y : <<x, y>> \in R <=> Agree(x, y, d, max)
    <2>1. \A x, y : Agree(x, y, d, max) => x \in Streams /\ y \in Streams
      BY Zenon DEF Agree, Counts, Writes
    <2> QED
      BY <2>1
  <1>2. DOMAIN items = 1..n /\ n \in Nat
    BY FieldsOf, Zenon
  <1>3. z \in Streams /\ s \in Streams
    BY Zenon DEF Agree, Counts, Writes
  <1>4. EncoderOf(encoders, t)[struct][z] = za /\ EncoderOf(encoders, t)[struct][s] = sa
    <2>1. EncoderOf(encoders, t)[struct] = [stream \in Streams |-> FoldLeft(EncodeField, stream, items)]
      BY Zenon DEF EncoderOf
    <2> HIDE DEF items
    <2> QED
      BY <1>3, <2>1, Zenon
  <1>5. \A i \in 1..n : \A x, y :
           <<x, y>> \in R => <<EncodeField(x, items[i]), EncodeField(y, items[i])>> \in R
    <2> SUFFICES ASSUME NEW i \in 1..n, NEW x, NEW y, <<x, y>> \in R
                 PROVE  <<EncodeField(x, items[i]), EncodeField(y, items[i])>> \in R
      OBVIOUS
    <2> DEFINE field == Fields(t)[i]
               iter == Iter(t, field, struct, encoders)
    <2>1. i \in DOMAIN Fields(t)
      BY <1>2
    <2>2. field \in Descriptors /\ SubmessageKeeps(field, encoders) /\ Holds(struct, field)
      BY <2>1, FieldsOf, StructuresAssumption, Zenon
    <2>3. items[i] = iter
      BY <2>1, Zenon
    <2>4. Agree(x, y, d, max)
      BY <1>1, Zenon
    <2> HIDE DEF R, field
    <2>5. Agree(EncodeField(x, iter), EncodeField(y, iter), d, max)
      BY <2>2, <2>4, FieldAgrees, Zenon
    <2> HIDE DEF iter, items
    <2> QED
      BY <1>1, <2>3, <2>5, Zenon
  <1> HIDE DEF R, items, n
  <1>6. <<z, s>> \in R
    BY <1>1, Zenon
  <1>7. <<Filling!Fold(z, items), Filling!Fold(s, items)>> \in R
    BY <1>2, <1>5, <1>6, Filling!FoldBoth, Zenon
  <1>8. Agree(Filling!Fold(z, items), Filling!Fold(s, items), d, max)
    BY <1>1, <1>7, Zenon
  <1>9. Filling!Fold(z, items) = za /\ Filling!Fold(s, items) = sa
    BY DEF Filling!Fold, Filling!FoldLeft, FoldLeft, Filling!MapThenFoldSet, MapThenFoldSet,
           Filling!Max, Max
  <1> HIDE DEF za, sa
  <1>10. Agree(za, sa, d, max)
    BY <1>8, <1>9, Zenon
  <1> QED
    BY <1>4, <1>10, Zenon

(* pb_encode of every type keeps the two passes in step. *)
LEMMA MessagesKeep ==
    ASSUME NEW t \in DOMAIN Descriptor
    PROVE  KeepsStep(PbEncode[t], Structures[t])
  <1> DEFINE T == DOMAIN Descriptor
  <1>1. PICK depth : IsDepth(depth)
    BY DepthExists
  <1> DEFINE S == {n \in Nat : \A u \in T : depth[u] = n => KeepsStep(PbEncode[u], Structures[u])}
  <1>2. depth \in [T -> 0..Cardinality(T)] /\ Cardinality(T) \in Nat
    BY <1>1, DescriptorAssumption, FS_CardinalityType, Zenon DEF IsDepth
  <1>3. \A u \in T : depth[u] \in Nat
    BY <1>2
  <1>4. ASSUME NEW n \in Nat, \A m \in 0..(n - 1) : m \in S PROVE n \in S
    <2> SUFFICES ASSUME NEW u \in T, depth[u] = n PROVE KeepsStep(PbEncode[u], Structures[u])
      OBVIOUS
    <2>1. ASSUME NEW i \in DOMAIN Fields(u) PROVE SubmessageKeeps(Fields(u)[i], PbEncode)
      <3> DEFINE field == Fields(u)[i]
      <3> SUFFICES ASSUME field.ltype = "SUBMESSAGE"
                   PROVE  KeepsStep(PbEncode[field.submsg], Structures[field.submsg])
        BY Zenon DEF SubmessageKeeps
      <3>1. field.submsg \in T /\ depth[field.submsg] < depth[u]
        BY <1>1, Zenon DEF IsDepth
      <3> DEFINE v == field.submsg
                 m == depth[v]
      <3>2. m \in Nat /\ m < n
        BY <1>3, <3>1
      <3> HIDE DEF v, m, S
      <3>3. m \in 0..(n - 1)
        BY <3>2
      <3>4. m \in S
        BY <1>4, <3>3
      <3> QED
        BY <3>1, <3>4 DEF S, m, v
    <2>2. PbEncode[u] = EncoderOf(PbEncode, u)
      BY PbEncodeIs, Zenon DEF IsEncoder
    <2>3. KeepsStep(EncoderOf(PbEncode, u), Structures[u])
      BY <2>1, FilledAgrees, Zenon DEF KeepsStep
    <2> QED
      BY <2>2, <2>3, Zenon
  <1> HIDE DEF S
  <1>5. \A n \in Nat : n \in S
    BY <1>4, Nats!NatSetStrongInduction
  <1> QED
    BY <1>3, <1>5 DEF S

-----------------------------------------------------------------------------
(* Answers.                                                                *)

LEMMA FramedAgrees ==
    ASSUME NEW t \in DOMAIN Descriptor, NEW src \in Structures[t], NEW f,
           NEW z, NEW s, NEW d, NEW max, Agree(z, s, d, max)
    PROVE  Agree(PbEncodeEx(z, t, src, f), PbEncodeEx(s, t, src, f), d, max)
  <1>1. KeepsStep(PbEncode[t], Structures[t])
    BY MessagesKeep
  <1>2. CASE "DELIMITED" \in f
    <2>1. Agree(PbEncodeSubmessage(z, PbEncode[t], src),
                PbEncodeSubmessage(s, PbEncode[t], src), d, max)
      BY <1>1, SubmessageAgrees, Zenon
    <2>2. /\ PbEncodeEx(z, t, src, f) = PbEncodeSubmessage(z, PbEncode[t], src)
          /\ PbEncodeEx(s, t, src, f) = PbEncodeSubmessage(s, PbEncode[t], src)
      BY <1>2, Zenon DEF PbEncodeEx, EncodeFramed
    <2> QED
      BY <2>1, <2>2, Zenon
  <1>3. CASE "DELIMITED" \notin f
    <2> DEFINE end == IF "NULLTERMINATED" \in f THEN <<0>> ELSE <<>>
               zm == PbEncode[t][src][z]
               sm == PbEncode[t][src][s]
    <2>1. Agree(zm, sm, d, max)
      BY <1>1, Zenon DEF KeepsStep
    <2>2. end \in Seq(Nat)
      <3>1. <<0>> \in Seq(Nat) /\ <<>> \in Seq(Nat)
        OBVIOUS
      <3> QED
        BY <3>1, Zenon
    <2>3. PbEncodeEx(z, t, src, f) = PbWrite(zm, end) /\ PbEncodeEx(s, t, src, f) = PbWrite(sm, end)
      BY <1>3, Zenon DEF PbEncodeEx, EncodeFramed
    <2> HIDE DEF end, zm, sm
    <2>4. Agree(PbWrite(zm, end), PbWrite(sm, end), d, max)
      BY <2>1, <2>2, WriteAgrees, Zenon
    <2> QED
      BY <2>3, <2>4, Zenon
  <1> QED
    BY <1>2, <1>3, Zenon

(* Sizes that fit. *)
LEMMA Fits ==
    \A a, b, m \in Nat : /\ a + 0 = a
                         /\ b <= m /\ b = a => m >= a
                         /\ a > m => ~(m >= a)
  OBVIOUS

LEMMA AgreedFits ==
    ASSUME NEW z, NEW s, NEW bufsize, Agree(z, s, 0, bufsize)
    PROVE  ExactlyFits(s, z, bufsize)
  <1> DEFINE zb == z.bytes_written
             sb == s.bytes_written
             len == Len(s.buf)
  <1>1. /\ zb \in Nat /\ sb \in Nat /\ bufsize \in Nat /\ sb <= bufsize /\ len = sb
        /\ s.errmsg = "" => z.errmsg = "" /\ sb = zb + 0
        /\ s.errmsg # "" => z.errmsg # "" \/ zb + 0 > bufsize
    BY Zenon DEF Agree, InStep, Writes
  <1> HIDE DEF zb, sb, len
  <1>2. /\ zb + 0 = zb
        /\ sb <= bufsize /\ sb = zb => bufsize >= zb
        /\ zb > bufsize => ~(bufsize >= zb)
    BY <1>1, Fits, Zenon
  <1>3. /\ sb <= bufsize
        /\ len <= bufsize
        /\ z.errmsg = "" =>
              /\ s.errmsg = "" <=> bufsize >= zb
              /\ s.errmsg = "" => len = zb
        /\ z.errmsg # "" => s.errmsg # ""
    BY <1>1, <1>2, Zenon
  <1> QED
    BY <1>3, Zenon DEF ExactlyFits, zb, sb, len

LEMMA AnswerFits ==
    ASSUME NEW t \in DOMAIN Descriptor, NEW src \in Structures[t], NEW f, NEW bufsize \in Nat
    PROVE  ExactlyFits(PbEncodeEx(PbOstreamFromBuffer(bufsize), t, src, f),
                       PbEncodeEx(Sizing, t, src, f), bufsize)
  BY BufferAgrees, FramedAgrees, AgreedFits, Zenon

LEMMA SizeIsNat ==
    ASSUME NEW t \in DOMAIN Descriptor, NEW src \in Structures[t], NEW f
    PROVE  PbEncodeEx(Sizing, t, src, f).bytes_written \in Nat
  <1>1. 0 \in Nat
    OBVIOUS
  <1>2. Agree(PbEncodeEx(Sizing, t, src, f), PbEncodeEx(PbOstreamFromBuffer(0), t, src, f), 0, 0)
    BY <1>1, BufferAgrees, FramedAgrees, Zenon
  <1> QED
    BY <1>2, Zenon DEF Agree, InStep

(* Whatever the descriptors, the structures and the flags of pb_encode_ex  *)
(* are: pb_get_encoded_size and pb_encode agree, and pb_encode stays in    *)
(* the buffer it was given.                                                *)
THEOREM AnswersFit == AnswersSpec => []SizesAgree
  <1> DEFINE Inv == type \in DOMAIN Descriptor /\ SizesAgree
  <1>1. AnswersInit => Inv
    BY DEF AnswersInit, SizesAgree
  <1>2. Inv /\ [AnswersNext]_<<type, flags, sent>> => Inv'
    <2> SUFFICES ASSUME Inv, [AnswersNext]_<<type, flags, sent>> PROVE Inv'
      OBVIOUS
    <2>1. ASSUME NEW struct \in Structures[type], EncodeAnswer(struct) PROVE Inv'
      <3> DEFINE sizing == PbEncodeEx(Sizing, type, struct, flags)
      <3>1. PICK bufsize \in 0..(sizing.bytes_written + Slack) :
              sent' = [struct |-> struct, bufsize |-> bufsize,
                       stream |-> PbEncodeEx(PbOstreamFromBuffer(bufsize), type, struct, flags),
                       sizing |-> sizing]
        BY <2>1, Zenon DEF EncodeAnswer
      <3>2. bufsize \in Nat
        <4> DEFINE n == sizing.bytes_written
        <4>1. n \in Nat
          BY SizeIsNat
        <4> HIDE DEF n
        <4>2. \A k \in Nat : 0..(k + Slack) \subseteq Nat
          BY SlackAssumption
        <4> QED
          BY <3>1, <4>1, <4>2, Zenon DEF n
      <3> DEFINE stream == PbEncodeEx(PbOstreamFromBuffer(bufsize), type, struct, flags)
      <3>3. ExactlyFits(stream, sizing, bufsize)
        BY <3>2, AnswerFits, Zenon
      <3> HIDE DEF stream, sizing
      <3>4. sent'.stream = stream /\ sent'.sizing = sizing /\ sent'.bufsize = bufsize
        BY <3>1, Zenon DEF stream
      <3>5. ExactlyFits(sent'.stream, sent'.sizing, sent'.bufsize)
        BY <3>3, <3>4, Zenon
      <3>6. SizesAgree'
        BY <3>5, Zenon DEF SizesAgree, ExactlyFits
      <3>7. type' = type
        BY <2>1, Zenon DEF EncodeAnswer
      <3> QED
        BY <3>6, <3>7, Zenon
    <2>2. CASE Turn
      BY <2>2 DEF Turn, SizesAgree
    <2>3. CASE UNCHANGED <<type, flags, sent>>
      BY <2>3, Zenon DEF SizesAgree, ExactlyFits
    <2> QED
      BY <2>1, <2>2, <2>3, Zenon DEF AnswersNext
  <1>3. Inv => SizesAgree
    OBVIOUS
  <1> QED
    BY <1>1, <1>2, <1>3, PTL DEF AnswersSpec
=============================================================================
