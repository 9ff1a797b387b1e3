------------------------------ MODULE FoldLaws ------------------------------
(***************************************************************************)
(* Induction over the numbers, and on it: that recursive functions exist,  *)
(* and what FoldLeft computes with an operator op, above all when op takes *)
(* a value of V and an element of B to a value of V.  A module that        *)
(* instantiates this one with its own operator has the laws of its fold.   *)
(***************************************************************************)
EXTENDS Integers, WellFoundedInduction, SequencesExt, TLAPS

CONSTANTS V, B, op(_, _)

-----------------------------------------------------------------------------
(* Induction over the numbers, from the well-foundedness of their order.   *)
(* A property is given by the set of the numbers that have it, so that the *)
(* lemmas can be cited for any of them.                                    *)

(* Every set of numbers has a least one. *)
LEMMA LeastNat ==
    ASSUME NEW T, T \subseteq Nat, T # {}
    PROVE  \E x \in T : \A y \in T : x <= y
  <1> DEFINE R == OpToRel(<, Nat)
  <1>1. IsWellFoundedOn(R, Nat)
    BY NatLessThanWellFounded
  <1>2. \A x, y \in Nat : y < x => <<y, x>> \in R
    BY DEF OpToRel
  <1> HIDE DEF R
  <1>3. PICK x \in T : \A y \in T : ~(<<y, x>> \in R)
    BY <1>1, WFMin
  <1>4. ASSUME NEW y \in T PROVE x <= y
    <2>1. ~(y < x)
      BY <1>2, <1>3
    <2> QED
      BY <2>1
  <1> QED
    BY <1>4

(* Induction. *)
LEMMA NatSetInduction ==
    ASSUME NEW S, 0 \in S, \A n \in Nat : n \in S => n + 1 \in S
    PROVE  \A n \in Nat : n \in S
  <1> DEFINE T == Nat \ S
  <1> SUFFICES ASSUME T # {} PROVE FALSE
    OBVIOUS
  <1>1. PICK x \in T : \A y \in T : x <= y
    BY LeastNat
  <1>2. x # 0 /\ x - 1 \in Nat
    OBVIOUS
  <1>3. x - 1 \in S
    BY <1>1, <1>2
  <1> QED
    BY <1>2, <1>3

(* Course-of-values induction. *)
LEMMA NatSetStrongInduction ==
    ASSUME NEW S, \A n \in Nat : (\A m \in 0..(n - 1) : m \in S) => n \in S
    PROVE  \A n \in Nat : n \in S
  <1> DEFINE T == Nat \ S
  <1> SUFFICES ASSUME T # {} PROVE FALSE
    OBVIOUS
  <1>1. PICK x \in T : \A y \in T : x <= y
    BY LeastNat
  <1>2. \A m \in 0..(x - 1) : m \in S
    BY <1>1
  <1> QED
    BY <1>2

-----------------------------------------------------------------------------
(* f is, up to n, the function that is A below L and from there on is      *)
(* computed by G from its value at the smaller number D.                   *)
RecursiveUpTo(W, L, D, A, G, n, f) ==
    /\ f \in [0..n -> W]
    /\ \A i \in 0..n : f[i] = IF i < L THEN A[i] ELSE G[i][f[D[i]]]

(* There is one up to 0, *)
LEMMA RecursiveStart ==
    ASSUME NEW W, NEW L \in Nat \ {0}, NEW D, NEW A \in [Nat -> W], NEW G
    PROVE  \E f : RecursiveUpTo(W, L, D, A, G, 0, f)
  <1> DEFINE f == [i \in 0..0 |-> A[0]]
  <1>1. RecursiveUpTo(W, L, D, A, G, 0, f)
    BY DEF RecursiveUpTo
  <1> QED
    BY <1>1

(* one up to the next number, *)
LEMMA RecursiveGoesOn ==
    ASSUME NEW W, NEW L \in Nat \ {0}, NEW D \in [Nat -> Nat], \A i \in Nat : L <= i => D[i] < i,
           NEW A \in [Nat -> W], NEW G \in [Nat -> [W -> W]], NEW n \in Nat, NEW f,
           RecursiveUpTo(W, L, D, A, G, n, f)
    PROVE  \E g : RecursiveUpTo(W, L, D, A, G, n + 1, g)
  <1> DEFINE m == n + 1
             last == IF m < L THEN A[m] ELSE G[m][f[D[m]]]
             g == [i \in 0..m |-> IF i = m THEN last ELSE f[i]]
  <1>1. m \in Nat /\ \A i \in 0..m : i \in 0..n \/ i = m
    OBVIOUS
  <1>2. L <= m => D[m] \in 0..n
    OBVIOUS
  <1>3. f \in [0..n -> W]
    BY DEF RecursiveUpTo
  <1>4. last \in W
    BY <1>2, <1>3
  <1> HIDE DEF last
  <1>5. g \in [0..m -> W]
    BY <1>1, <1>3, <1>4
  <1>6. \A i \in 0..n : g[i] = f[i]
    OBVIOUS
  <1>7. ASSUME NEW i \in 0..m PROVE g[i] = IF i < L THEN A[i] ELSE G[i][g[D[i]]]
    <2>1. CASE i = m
      <3>1. L <= m => g[D[m]] = f[D[m]]
        BY <1>2, <1>6
      <3>2. g[m] = IF m < L THEN A[m] ELSE G[m][f[D[m]]]
        BY DEF last
      <3> QED
        BY <2>1, <3>1, <3>2
    <2>2. CASE i \in 0..n
      <3>1. g[i] = IF i < L THEN A[i] ELSE G[i][f[D[i]]]
        BY <1>6, <2>2 DEF RecursiveUpTo
      <3>2. L <= i => D[i] \in 0..n
        BY <2>2
      <3>3. L <= i => g[D[i]] = f[D[i]]
        BY <1>6, <3>2
      <3> HIDE DEF g
      <3>4. i \in Int /\ (i < L \/ L <= i)
        BY <2>2
      <3> QED
        BY <3>1, <3>3, <3>4
    <2> QED
      BY <1>1, <2>1, <2>2
  <1> HIDE DEF g
  <1> QED
    BY <1>5, <1>7 DEF RecursiveUpTo

(* and so up to all of them; *)
LEMMA RecursiveUpToExists ==
    ASSUME NEW W, NEW L \in Nat \ {0}, NEW D \in [Nat -> Nat], \A i \in Nat : L <= i => D[i] < i,
           NEW A \in [Nat -> W], NEW G \in [Nat -> [W -> W]], NEW n \in Nat
    PROVE  \E f : RecursiveUpTo(W, L, D, A, G, n, f)
  <1> DEFINE S == {i \in Nat : \E f : RecursiveUpTo(W, L, D, A, G, i, f)}
  <1>1. 0 \in S
    BY RecursiveStart
  <1>2. \A i \in Nat : i \in S => i + 1 \in S
    BY RecursiveGoesOn
  <1>3. n \in S
    BY <1>1, <1>2, NatSetInduction
  <1> QED
    BY <1>3

(* two agree as far as both go. *)
LEMMA RecursiveUpToOne ==
    ASSUME NEW W, NEW L \in Nat \ {0}, NEW D \in [Nat -> Nat], \A i \in Nat : L <= i => D[i] < i,
           NEW A, NEW G, NEW n \in Nat, NEW m \in Nat, NEW f, NEW g,
           RecursiveUpTo(W, L, D, A, G, n, f), RecursiveUpTo(W, L, D, A, G, m, g)
    PROVE  \A i \in Nat : i <= n /\ i <= m => f[i] = g[i]
  <1> DEFINE S == {i \in Nat : i <= n /\ i <= m => f[i] = g[i]}
  <1>1. ASSUME NEW i \in Nat, \A j \in 0..(i - 1) : j \in S PROVE i \in S
    <2> SUFFICES ASSUME i <= n, i <= m PROVE f[i] = g[i]
      OBVIOUS
    <2>1. CASE i < L
      <3>1. i \in 0..n /\ i \in 0..m
        OBVIOUS
      <3>2. f[i] = A[i] /\ g[i] = A[i]
        BY <2>1, <3>1 DEF RecursiveUpTo
      <3> QED
        BY <3>2
    <2>2. CASE L <= i
      <3>1. D[i] \in 0..(i - 1)
        BY <2>2
      <3>2. f[D[i]] = g[D[i]]
        BY <1>1, <3>1
      <3>3. f[i] = G[i][f[D[i]]] /\ g[i] = G[i][g[D[i]]]
        BY <2>2 DEF RecursiveUpTo
      <3> QED
        BY <3>2, <3>3
    <2> QED
      BY <2>1, <2>2
  <1> HIDE DEF S
  <1>2. \A i \in Nat : i \in S
    BY <1>1, NatSetStrongInduction
  <1> QED
    BY <1>2 DEF S

(* D leads to a smaller number; f is computed so on all numbers. *)
Shrinks(L, D) == D \in [Nat -> Nat] /\ \A i \in Nat : L <= i => D[i] < i

IsRecursive(W, L, D, A, G, f) ==
    /\ f \in [Nat -> W]
    /\ \A i \in Nat : i < L => f[i] = A[i]
    /\ \A i \in Nat : L <= i => f[i] = G[i][f[D[i]]]

(* Put together, those up to each number are one on all of them. *)
LEMMA RecursiveFunction ==
    ASSUME NEW W, NEW L \in Nat \ {0}, NEW D, Shrinks(L, D),
           NEW A \in [Nat -> W], NEW G \in [Nat -> [W -> W]]
    PROVE  \E f : IsRecursive(W, L, D, A, G, f)
  <1> DEFINE Part(n) == CHOOSE f : RecursiveUpTo(W, L, D, A, G, n, f)
             f == [n \in Nat |-> Part(n)[n]]
  <1> USE DEF Shrinks
  <1>1. \A n \in Nat : RecursiveUpTo(W, L, D, A, G, n, Part(n))
    BY RecursiveUpToExists
  <1> HIDE DEF Part
  <1>2. f \in [Nat -> W]
    BY <1>1 DEF RecursiveUpTo
  <1>3. ASSUME NEW i \in Nat, i < L PROVE f[i] = A[i]
    BY <1>1, <1>3 DEF RecursiveUpTo
  <1>4. ASSUME NEW i \in Nat, L <= i PROVE f[i] = G[i][f[D[i]]]
    <2>1. ~(i < L)
      BY <1>4
    <2>2. f[i] = G[i][Part(i)[D[i]]]
      BY <1>1, <2>1 DEF RecursiveUpTo
    <2>3. D[i] \in Nat /\ D[i] <= i /\ D[i] <= D[i]
      BY <1>4
    <2>4. RecursiveUpTo(W, L, D, A, G, i, Part(i)) /\ RecursiveUpTo(W, L, D, A, G, D[i], Part(D[i]))
      BY <1>1, <2>3
    <2>5. Part(i)[D[i]] = Part(D[i])[D[i]]
      BY <2>3, <2>4, RecursiveUpToOne
    <2> QED
      BY <2>2, <2>3, <2>5
  <1> HIDE DEF f
  <1>5. IsRecursive(W, L, D, A, G, f)
    BY <1>2, <1>3, <1>4 DEF IsRecursive
  <1> QED
    BY <1>5

-----------------------------------------------------------------------------
(* op as the body of a recursive function f on a set: the value at t needs *)
(* those of f at lower ranks only.                                         *)
NeedsLower(T, rank) ==
    \A f, g : \A t \in T :
        (\A u \in T : rank[u] < rank[t] => f[u] = g[u]) => op(f, t) = op(g, t)

(* Then there is such a function. *)
LEMMA RecursionByRank ==
    ASSUME NEW T, NEW n \in Nat, NEW rank \in [T -> 0..n], NeedsLower(T, rank)
    PROVE  \E f : f = [t \in T |-> op(f, t)]
  <1> DEFINE UpTo(f, k) == \A t \in T : rank[t] < k => f[t] = op(f, t)
             Next(f) == [t \in T |-> op(f, t)]
             S == {k \in Nat : \E f : UpTo(f, k)}
  <1>1. ASSUME NEW k \in Nat, NEW f, UpTo(f, k), NEW t \in T, rank[t] < k + 1
        PROVE  op(f, t) = op(Next(f), t)
    <2> DEFINE g == Next(f)
    <2>1. ASSUME NEW u \in T, rank[u] < rank[t] PROVE f[u] = g[u]
      <3>1. rank[u] < k
        <4>1. rank[u] \in Int /\ rank[t] \in Int
          OBVIOUS
        <4>2. \A a, b \in Int : a < b /\ b < k + 1 => a < k
          OBVIOUS
        <4> QED
          BY <1>1, <2>1, <4>1, <4>2
      <3>2. f[u] = op(f, u)
        BY <1>1, <3>1
      <3> QED
        BY <3>2
    <2> HIDE DEF g
    <2>2. op(f, t) = op(g, t)
      BY <2>1, Zenon DEF NeedsLower
    <2> QED
      BY <2>2 DEF g
  <1>2. ASSUME NEW k \in Nat, NEW f, UpTo(f, k) PROVE UpTo(Next(f), k + 1)
    <2>1. \A t \in T : Next(f)[t] = op(f, t)
      OBVIOUS
    <2> HIDE DEF Next
    <2> QED
      BY <1>1, <1>2, <2>1
  <1>3. 0 \in S
    <2>1. \A t \in T : rank[t] \in 0..n
      OBVIOUS
    <2>2. UpTo(rank, 0)
      BY <2>1
    <2> QED
      BY <2>2
  <1>4. ASSUME NEW k \in Nat, k \in S PROVE k + 1 \in S
    <2>1. PICK f : UpTo(f, k)
      BY <1>4
    <2> DEFINE g == Next(f)
    <2>2. UpTo(g, k + 1)
      BY <1>2, <2>1
    <2> HIDE DEF g, UpTo
    <2>3. k + 1 \in Nat
      OBVIOUS
    <2> QED
      BY <2>2, <2>3
  <1> HIDE DEF S
  <1>5. n + 1 \in S
    BY <1>3, <1>4, NatSetInduction
  <1>6. PICK f : UpTo(f, n + 1)
    BY <1>5 DEF S
  <1> DEFINE g == Next(f)
  <1>7. ASSUME NEW t \in T PROVE op(f, t) = op(g, t)
    <2>1. rank[t] < (n + 1) + 1 /\ n + 1 \in Nat
      OBVIOUS
    <2> QED
      BY <1>1, <1>6, <2>1
  <1>8. g = [t \in T |-> op(g, t)]
    <2>1. g = [t \in T |-> op(f, t)]
      OBVIOUS
    <2> HIDE DEF g
    <2> QED
      BY <1>7, <2>1
  <1> QED
    BY <1>8

-----------------------------------------------------------------------------
(* Folds.                                                                  *)

(* The loop that does op for each element, and what it needs to stay in V. *)
Fold(base, seq) == FoldLeft(op, base, seq)

Closed == \A v \in V, b \in B : op(v, b) \in V

(* FoldLeft applies op to the last element first, and so asks a function   *)
(* on sets of indices for the value of each set's largest one.             *)

(* The largest index of a set; *)
LEMMA MaxInSet ==
    ASSUME NEW n \in Nat, NEW s \in SUBSET (1..n), s # {}
    PROVE  Max(s) \in s /\ \A y \in s : Max(s) >= y
  <1> DEFINE T == {n - y : y \in s}
  <1>1. \A y \in s : y \in Int /\ n - y \in Nat
    OBVIOUS
  <1>2. T \subseteq Nat /\ T # {}
    BY <1>1
  <1>3. PICK x \in T : \A y \in T : x <= y
    BY <1>2, LeastNat
  <1>4. PICK m \in s : x = n - m
    OBVIOUS
  <1>5. ASSUME NEW y \in s PROVE m >= y
    <2>1. n - m <= n - y
      BY <1>3, <1>4
    <2> QED
      BY <1>1, <2>1
  <1> QED
    BY <1>5 DEF Max

(* if the last index is in the set, that one; *)
LEMMA MaxOfUpTo ==
    ASSUME NEW n \in Nat, NEW s \in SUBSET (1..(n + 1)), n + 1 \in s
    PROVE  Max(s) = n + 1 /\ s \ {n + 1} \in SUBSET (1..n)
  <1>1. n + 1 \in Nat /\ s # {}
    OBVIOUS
  <1>2. Max(s) \in s /\ \A y \in s : Max(s) >= y
    BY <1>1, MaxInSet
  <1>3. Max(s) \in 1..(n + 1) /\ Max(s) >= n + 1
    BY <1>2
  <1>4. \A x \in 1..(n + 1) : x >= n + 1 => x = n + 1
    OBVIOUS
  <1> QED
    BY <1>3, <1>4

(* of the first m, the mth. *)
LEMMA MaxOfInitial ==
    ASSUME NEW m \in Nat \ {0}
    PROVE  Max(1..m) = m /\ (1..m) \ {m} = 1..(m - 1) /\ 1..m # {}
  <1>1. m \in 1..m /\ (1..m) \ {m} = 1..(m - 1)
    OBVIOUS
  <1>2. Max(1..m) \in 1..m /\ \A y \in 1..m : Max(1..m) >= y
    BY <1>1, MaxInSet
  <1> QED
    BY <1>1, <1>2

(* The function by which MapThenFoldSet is defined, for n elements, as far *)
(* as sets of the first k go.                                              *)
StepsUpTo(base, seq, n, k, iter) ==
    \A s \in SUBSET (1..n) : s \in SUBSET (1..k) =>
        iter[s] = IF s = {} THEN base ELSE op(iter[s \ {Max(s)}], seq[Max(s)])

Step(base, seq, n, iter) ==
    [s \in SUBSET (1..n) |-> IF s = {} THEN base ELSE op(iter[s \ {Max(s)}], seq[Max(s)])]

(* From one that goes as far as k, one that goes one further. *)
LEMMA StepsGoOn ==
    ASSUME NEW base, NEW seq, NEW n \in Nat, NEW k \in Nat, NEW iter,
           StepsUpTo(base, seq, n, k, iter)
    PROVE  StepsUpTo(base, seq, n, k + 1, Step(base, seq, n, Step(base, seq, n, iter)))
  <1> DEFINE F(h, s) == IF s = {} THEN base ELSE op(h[s \ {Max(s)}], seq[Max(s)])
             g == Step(base, seq, n, iter)
             f == Step(base, seq, n, g)
  <1>1. \A s \in SUBSET (1..n) : g[s] = F(iter, s) /\ f[s] = F(g, s)
    BY DEF Step
  <1>2. \A s \in SUBSET (1..n) : s \in SUBSET (1..k) => iter[s] = F(iter, s)
    BY DEF StepsUpTo
  <1> HIDE DEF g, f, F
  <1>3. \A s \in SUBSET (1..n) : s \in SUBSET (1..k) => g[s] = iter[s]
    BY <1>1, <1>2
  <1>4. ASSUME NEW s \in SUBSET (1..n), s \in SUBSET (1..(k + 1)), s # {}
        PROVE  s \ {Max(s)} \in SUBSET (1..n) /\ s \ {Max(s)} \in SUBSET (1..k)
    <2>1. Max(s) \in s /\ \A y \in s : Max(s) >= y
      BY <1>4, MaxInSet
    <2>2. ASSUME NEW y \in s \ {Max(s)} PROVE y \in 1..k
      <3>1. y \in 1..(k + 1) /\ Max(s) \in 1..(k + 1) /\ Max(s) >= y /\ y # Max(s)
        BY <1>4, <2>1
      <3>2. \A a, b \in 1..(k + 1) : a >= b /\ b # a => b \in 1..k
        OBVIOUS
      <3> QED
        BY <3>1, <3>2
    <2> QED
      BY <2>2
  <1>5. ASSUME NEW s \in SUBSET (1..n), s \in SUBSET (1..(k + 1)) PROVE f[s] = F(f, s)
    <2>1. CASE s = {}
      <3>1. F(g, s) = base /\ F(f, s) = base
        BY <2>1 DEF F
      <3> QED
        BY <1>1, <3>1
    <2>2. CASE s # {}
      <3> DEFINE t == s \ {Max(s)}
      <3>1. t \in SUBSET (1..n) /\ t \in SUBSET (1..k)
        BY <1>4, <1>5, <2>2
      <3>2. F(g, s) = op(g[t], seq[Max(s)]) /\ F(f, s) = op(f[t], seq[Max(s)])
        BY <2>2 DEF F
      <3> HIDE DEF t
      <3>3. g[t] = iter[t] /\ iter[t] = F(iter, t)
        BY <1>2, <1>3, <3>1
      <3>4. f[t] = F(g, t) /\ g[t] = F(iter, t)
        BY <1>1, <3>1
      <3>5. F(g, t) = F(iter, t)
        <4>1. CASE t = {}
          BY <4>1 DEF F
        <4>2. CASE t # {}
          <5>1. t \ {Max(t)} \in SUBSET (1..n) /\ t \ {Max(t)} \in SUBSET (1..k)
            <6>1. t \in SUBSET (1..(k + 1))
              BY <3>1
            <6>2. Max(t) \in t
              BY <3>1, <4>2, MaxInSet
            <6> QED
              BY <3>1, <6>2
          <5>2. g[t \ {Max(t)}] = iter[t \ {Max(t)}]
            BY <1>3, <5>1
          <5> QED
            BY <4>2, <5>2 DEF F
        <4> QED
          BY <4>1, <4>2
      <3>6. f[t] = g[t]
        BY <3>3, <3>4, <3>5
      <3> QED
        BY <1>1, <3>2, <3>6
    <2> QED
      BY <2>1, <2>2
  <1>6. StepsUpTo(base, seq, n, k + 1, f)
    BY <1>5 DEF StepsUpTo, F
  <1> QED
    BY <1>6 DEF f, g

(* There is such a function for every sequence. *)
LEMMA StepsExist ==
    ASSUME NEW base, NEW seq, NEW n \in Nat
    PROVE  \E iter : iter = Step(base, seq, n, iter)
  <1> DEFINE S == {k \in Nat : \E iter : StepsUpTo(base, seq, n, k, iter)}
  <1>1. 0 \in S
    <2> DEFINE g == [s \in SUBSET (1..n) |-> base]
    <2>1. StepsUpTo(base, seq, n, 0, g)
      <3>1. ASSUME NEW s \in SUBSET (1..n), s \in SUBSET (1..0) PROVE s = {} /\ g[s] = base
        BY <3>1
      <3> HIDE DEF g
      <3> QED
        BY <3>1 DEF StepsUpTo
    <2> QED
      BY <2>1
  <1>2. ASSUME NEW k \in Nat, k \in S PROVE k + 1 \in S
    BY <1>2, StepsGoOn
  <1> HIDE DEF S
  <1>3. n \in S
    BY <1>1, <1>2, NatSetInduction
  <1>4. PICK h : StepsUpTo(base, seq, n, n, h)
    BY <1>3 DEF S
  <1> DEFINE g == Step(base, seq, n, h)
  <1>5. \A s \in SUBSET (1..n) : g[s] = h[s]
    BY <1>4 DEF Step, StepsUpTo
  <1>6. g = Step(base, seq, n, g)
    <2>1. ASSUME NEW s \in SUBSET (1..n), s # {} PROVE g[s \ {Max(s)}] = h[s \ {Max(s)}]
      <3>1. s \ {Max(s)} \in SUBSET (1..n)
        OBVIOUS
      <3> HIDE DEF g
      <3> QED
        BY <1>5, <3>1
    <2>2. g = [s \in SUBSET (1..n) |-> IF s = {} THEN base ELSE op(h[s \ {Max(s)}], seq[Max(s)])]
      BY Zenon DEF Step
    <2> HIDE DEF g
    <2>3. g = [s \in SUBSET (1..n) |-> IF s = {} THEN base ELSE op(g[s \ {Max(s)}], seq[Max(s)])]
      BY <2>1, <2>2
    <2> QED
      BY <2>3 DEF Step
  <1> QED
    BY <1>6

-----------------------------------------------------------------------------
(* Read from the left, a fold is a walk: w[i] is its value after i         *)
(* elements.                                                               *)
Walks(w, base, seq, n) ==
    /\ w = [i \in 0..n |-> w[i]]
    /\ w[0] = base
    /\ \A i \in 1..n : w[i] = op(w[i - 1], seq[i])

LEMMA FoldSteps ==
    ASSUME NEW base, NEW seq, NEW n \in Nat, DOMAIN seq = 1..n
    PROVE  \E w : Walks(w, base, seq, n) /\ w[n] = Fold(base, seq)
  <1> DEFINE Steps(iter) ==
               iter = [s \in SUBSET DOMAIN seq |->
                         IF s = {} THEN base ELSE op(iter[s \ {Max(s)}], seq[Max(s)])]
             c == CHOOSE iter : Steps(iter)
             w == [i \in 0..n |-> c[1..i]]
  <1>1. Fold(base, seq) = c[1..n]
    BY DEF Fold, FoldLeft, MapThenFoldSet
  <1>2. \E iter : Steps(iter)
    <2>1. PICK iter : iter = Step(base, seq, n, iter)
      BY StepsExist, Zenon
    <2>2. Step(base, seq, n, iter) =
            [s \in SUBSET DOMAIN seq |->
               IF s = {} THEN base ELSE op(iter[s \ {Max(s)}], seq[Max(s)])]
      BY Zenon DEF Step
    <2>3. Steps(iter)
      BY <2>1, <2>2, Zenon
    <2> QED
      BY <2>3
  <1>3. Steps(c)
    BY <1>2
  <1> HIDE DEF c
  <1>4. c[1..0] = base
    <2>1. 1..0 = {} /\ 1..0 \in SUBSET DOMAIN seq
      OBVIOUS
    <2> QED
      BY <1>3, <2>1
  <1>5. ASSUME NEW m \in 1..n PROVE c[1..m] = op(c[1..(m - 1)], seq[m])
    <2>1. 1..m \in SUBSET DOMAIN seq /\ m \in Nat \ {0}
      OBVIOUS
    <2>2. Max(1..m) = m /\ (1..m) \ {m} = 1..(m - 1) /\ 1..m # {}
      BY <2>1, MaxOfInitial
    <2> QED
      BY <1>3, <2>1, <2>2
  <1>6. 0 \in 0..n /\ n \in 0..n /\ \A i \in 1..n : i \in 0..n /\ i - 1 \in 0..n
    OBVIOUS
  <1>7. w[0] = base /\ w[n] = c[1..n] /\ \A i \in 1..n : w[i] = op(w[i - 1], seq[i])
    BY <1>4, <1>5, <1>6
  <1>8. w = [i \in 0..n |-> w[i]]
    OBVIOUS
  <1> HIDE DEF w
  <1>9. Walks(w, base, seq, n) /\ w[n] = Fold(base, seq)
    BY <1>1, <1>7, <1>8 DEF Walks
  <1> QED
    BY <1>9

(* Two folds of the same elements keep what one step of both keeps: R is a *)
(* set of pairs.                                                           *)
LEMMA FoldBoth ==
    ASSUME NEW R, NEW a, NEW b, <<a, b>> \in R, NEW seq, NEW n \in Nat, DOMAIN seq = 1..n,
           \A i \in 1..n : \A x, y : <<x, y>> \in R => <<op(x, seq[i]), op(y, seq[i])>> \in R
    PROVE  <<Fold(a, seq), Fold(b, seq)>> \in R
  <1>1. PICK v : Walks(v, a, seq, n) /\ v[n] = Fold(a, seq)
    BY FoldSteps
  <1>2. PICK w : Walks(w, b, seq, n) /\ w[n] = Fold(b, seq)
    BY FoldSteps
  <1> DEFINE S == {i \in Nat : i <= n => <<v[i], w[i]>> \in R}
  <1>3. 0 \in S
    BY <1>1, <1>2 DEF Walks
  <1>4. ASSUME NEW i \in Nat, i \in S PROVE i + 1 \in S
    <2> SUFFICES ASSUME i + 1 <= n PROVE <<v[i + 1], w[i + 1]>> \in R
      OBVIOUS
    <2>1. <<v[i], w[i]>> \in R /\ i + 1 \in 1..n /\ (i + 1) - 1 = i
      BY <1>4
    <2>2. v[i + 1] = op(v[i], seq[i + 1]) /\ w[i + 1] = op(w[i], seq[i + 1])
      BY <1>1, <1>2, <2>1 DEF Walks
    <2>3. <<op(v[i], seq[i + 1]), op(w[i], seq[i + 1])>> \in R
      BY <2>1, Zenon
    <2> QED
      BY <2>2, <2>3, Zenon
  <1> HIDE DEF S
  <1>5. n \in S
    BY <1>3, <1>4, NatSetInduction
  <1>6. <<v[n], w[n]>> \in R
    BY <1>5 DEF S
  <1> QED
    BY <1>1, <1>2, <1>6, Zenon

(* When op stays in V, so does the walk. *)
IsWalk(w, base, seq) ==
    /\ w \in [0..Len(seq) -> V]
    /\ w[0] = base
    /\ \A i \in 1..Len(seq) : w[i] = op(w[i - 1], seq[i])

(* There is one, *)
LEMMA FoldWalk ==
    ASSUME Closed, NEW base \in V, NEW seq \in Seq(B)
    PROVE  \E w : IsWalk(w, base, seq) /\ w[Len(seq)] = Fold(base, seq)
  <1> DEFINE n == Len(seq)
  <1>1. n \in Nat /\ DOMAIN seq = 1..n /\ \A i \in 1..n : seq[i] \in B
    OBVIOUS
  <1> HIDE DEF n
  <1>2. PICK w : Walks(w, base, seq, n) /\ w[n] = Fold(base, seq)
    BY <1>1, FoldSteps, Zenon
  <1>3. /\ w = [i \in 0..n |-> w[i]] /\ w[0] = base /\ w[n] = Fold(base, seq)
        /\ \A i \in 1..n : w[i] = op(w[i - 1], seq[i])
    BY <1>2 DEF Walks
  <1> DEFINE S == {i \in Nat : i <= n => w[i] \in V}
  <1>4. 0 \in S
    BY <1>3
  <1>5. ASSUME NEW i \in Nat, i \in S PROVE i + 1 \in S
    <2> SUFFICES ASSUME i + 1 <= n PROVE w[i + 1] \in V
      OBVIOUS
    <2>1. w[i] \in V /\ i + 1 \in 1..n /\ (i + 1) - 1 = i
      BY <1>1, <1>5
    <2> QED
      BY <1>1, <1>3, <2>1 DEF Closed
  <1> HIDE DEF S
  <1>6. \A i \in Nat : i \in S
    BY <1>4, <1>5, NatSetInduction
  <1>7. \A i \in 0..n : w[i] \in V
    BY <1>6 DEF S
  <1>8. w \in [0..n -> V]
    BY <1>3, <1>7
  <1> QED
    BY <1>2, <1>3, <1>8 DEF IsWalk, n

(* and there is only one. *)
LEMMA WalkUnique ==
    ASSUME NEW base, NEW seq \in Seq(B), NEW v, NEW w,
           IsWalk(v, base, seq), IsWalk(w, base, seq)
    PROVE  v[Len(seq)] = w[Len(seq)]
  <1> DEFINE n == Len(seq)
             S == {i \in Nat : i <= n => v[i] = w[i]}
  <1>1. n \in Nat
    OBVIOUS
  <1>2. 0 \in S
    BY DEF IsWalk
  <1>3. ASSUME NEW i \in Nat, i \in S PROVE i + 1 \in S
    <2> SUFFICES ASSUME i + 1 <= n PROVE v[i + 1] = w[i + 1]
      OBVIOUS
    <2>1. v[i] = w[i] /\ i + 1 \in 1..n /\ (i + 1) - 1 = i
      BY <1>1, <1>3
    <2> QED
      BY <2>1 DEF IsWalk
  <1> HIDE DEF S
  <1>4. n \in S
    BY <1>1, <1>2, <1>3, NatSetInduction
  <1> QED
    BY <1>1, <1>4 DEF S

-----------------------------------------------------------------------------
(* The laws.                                                               *)

(* The value of a fold is in V. *)
LEMMA FoldType ==
    ASSUME Closed, NEW base \in V, NEW seq \in Seq(B)
    PROVE  Fold(base, seq) \in V
  <1>1. PICK w : IsWalk(w, base, seq) /\ w[Len(seq)] = Fold(base, seq)
    BY FoldWalk
  <1>2. Len(seq) \in 0..Len(seq)
    OBVIOUS
  <1> QED
    BY <1>1, <1>2 DEF IsWalk

(* Of no elements it is the base. *)
LEMMA FoldEmpty ==
    ASSUME Closed, NEW base \in V
    PROVE  Fold(base, <<>>) = base
  <1>1. <<>> \in Seq(B) /\ Len(<<>>) = 0
    OBVIOUS
  <1>2. PICK w : IsWalk(w, base, <<>>) /\ w[Len(<<>>)] = Fold(base, <<>>)
    BY <1>1, FoldWalk
  <1> QED
    BY <1>1, <1>2 DEF IsWalk

(* One element more at the end is op once more, *)
LEMMA FoldAppend ==
    ASSUME Closed, NEW base \in V, NEW seq \in Seq(B), NEW b \in B
    PROVE  Fold(base, Append(seq, b)) = op(Fold(base, seq), b)
  <1> DEFINE longer == Append(seq, b)
             n == Len(seq)
  <1>1. /\ longer \in Seq(B) /\ Len(longer) = n + 1 /\ longer[n + 1] = b
        /\ n \in Nat /\ \A i \in 1..n : longer[i] = seq[i]
    OBVIOUS
  <1>2. PICK w : IsWalk(w, base, seq) /\ w[n] = Fold(base, seq)
    BY FoldWalk
  <1>3. PICK v : IsWalk(v, base, longer) /\ v[Len(longer)] = Fold(base, longer)
    BY <1>1, FoldWalk
  <1> DEFINE z == [i \in 0..(n + 1) |-> IF i = n + 1 THEN op(w[n], b) ELSE w[i]]
  <1> HIDE DEF longer
  <1>4. z \in [0..(n + 1) -> V] /\ z[0] = base
    BY <1>1, <1>2 DEF IsWalk, Closed
  <1>5. ASSUME NEW i \in 1..(n + 1) PROVE z[i] = op(z[i - 1], longer[i])
    <2>1. CASE i = n + 1
      BY <1>1, <2>1
    <2>2. CASE i \in 1..n
      BY <1>1, <1>2, <2>2 DEF IsWalk
    <2> QED
      BY <2>1, <2>2
  <1>6. IsWalk(z, base, longer)
    BY <1>1, <1>4, <1>5 DEF IsWalk
  <1>7. v[n + 1] = z[n + 1]
    BY <1>1, <1>3, <1>6, WalkUnique
  <1> QED
    BY <1>1, <1>2, <1>3, <1>7 DEF longer

(* and one less at the start is op applied to the base. *)
LEMMA FoldCons ==
    ASSUME Closed, NEW base \in V, NEW seq \in Seq(B), seq # <<>>
    PROVE  Fold(base, seq) = Fold(op(base, Head(seq)), Tail(seq))
  <1> DEFINE n == Len(seq)
             shorter == Tail(seq)
             first == op(base, Head(seq))
  <1>1. /\ n \in Nat \ {0} /\ shorter \in Seq(B) /\ Len(shorter) = n - 1
        /\ Head(seq) \in B /\ Head(seq) = seq[1]
        /\ \A i \in 1..(n - 1) : shorter[i] = seq[i + 1]
    OBVIOUS
  <1>2. first \in V
    BY <1>1 DEF Closed
  <1>3. PICK w : IsWalk(w, base, seq) /\ w[n] = Fold(base, seq)
    BY FoldWalk
  <1>4. PICK v : IsWalk(v, first, shorter) /\ v[Len(shorter)] = Fold(first, shorter)
    BY <1>1, <1>2, FoldWalk
  <1> DEFINE z == [i \in 0..(n - 1) |-> w[i + 1]]
  <1> HIDE DEF shorter
  <1>5. z \in [0..(n - 1) -> V] /\ z[0] = first
    BY <1>1, <1>3 DEF IsWalk
  <1>6. \A i \in 1..(n - 1) : z[i] = op(z[i - 1], shorter[i])
    BY <1>1, <1>3 DEF IsWalk
  <1>7. IsWalk(z, first, shorter)
    BY <1>1, <1>5, <1>6 DEF IsWalk
  <1>8. v[n - 1] = z[n - 1]
    BY <1>1, <1>4, <1>7, WalkUnique
  <1> QED
    BY <1>1, <1>3, <1>4, <1>8 DEF shorter
=============================================================================
