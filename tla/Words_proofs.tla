---------------------------- MODULE Words_proofs ----------------------------
(***************************************************************************)
(* Facts about machine words, for every width: powers of two, sums, and    *)
(* the correspondence between a word and the set of its bits, on which the *)
(* simulator and the processor both build their operators.                 *)
(*                                                                         *)
(* An induction is written with a counterexample that would be the least:  *)
(* LeastElement says that there is one.  The powers of two come from the   *)
(* cardinality of the set of subsets (FS_SUBSET).                          *)
(***************************************************************************)
EXTENDS Words, FiniteSetTheorems, WellFoundedInduction, TLAPS

-----------------------------------------------------------------------------
(* Induction. *)

LEMMA LeastElement ==
    ASSUME NEW T, T \subseteq Nat, T # {}
    PROVE  \E n \in T : \A m \in T : n <= m
<1>1. PICK n \in T : \A m \in T : <<m, n>> \notin OpToRel(<, Nat)
  BY NatLessThanWellFounded, WFMin, Zenon
<1>2. ASSUME NEW m \in T
      PROVE  n <= m
  <2>1. <<m, n>> \notin {p \in Nat \X Nat : p[1] < p[2]}
    BY <1>1, Zenon DEF OpToRel
  <2> QED
    BY <2>1
<1> QED
  BY <1>2

(* A set of naturals that has 0 and the successor of each has them all. *)
LEMMA Induction ==
    ASSUME NEW S, 0 \in S, \A n \in Nat : n \in S => n + 1 \in S
    PROVE  \A n \in Nat : n \in S
<1>1. SUFFICES ASSUME Nat \ S # {}
      PROVE  FALSE
  OBVIOUS
<1>2. PICK n \in Nat \ S : \A m \in Nat \ S : n <= m
  BY <1>1, LeastElement
<1>3. n - 1 \in Nat /\ n - 1 \in S
  BY <1>2
<1> QED
  BY <1>2, <1>3

-----------------------------------------------------------------------------
(* Powers of two. *)

LEMMA PowCardinality ==
    ASSUME NEW n \in Nat
    PROVE  IsFiniteSet(SUBSET (1..n)) /\ Cardinality(SUBSET (1..n)) = 2^n
<1>1. IsFiniteSet(1..n) /\ Cardinality(1..n) = n
  BY FS_Interval
<1> QED
  BY <1>1, FS_SUBSET

LEMMA PowType ==
    ASSUME NEW n \in Nat
    PROVE  2^n \in Nat
BY PowCardinality, FS_CardinalityType

LEMMA PowZero == 2^0 = 1
OBVIOUS

LEMMA PowStep ==
    ASSUME NEW n \in Nat
    PROVE  2^(n + 1) = 2 * 2^n
<1> DEFINE Without == SUBSET (1..n)
           With == {T \cup {n + 1} : T \in Without}
           all == SUBSET (1..(n + 1))
<1>1. all = Without \cup With
  <2>1. ASSUME NEW T \in all, n + 1 \in T
        PROVE  T \in With
    <3>1. T \ {n + 1} \in Without
      OBVIOUS
    <3>2. T = (T \ {n + 1}) \cup {n + 1}
      BY <2>1
    <3> QED
      BY <3>1, <3>2
  <2>2. ASSUME NEW T \in all, n + 1 \notin T
        PROVE  T \in Without
    BY <2>2
  <2>3. ASSUME NEW V \in With
        PROVE  V \in all
    <3>1. PICK T \in Without : V = T \cup {n + 1}
      OBVIOUS
    <3> QED
      BY <3>1
  <2>4. Without \subseteq all
    OBVIOUS
  <2> HIDE DEF all, Without, With
  <2> QED
    BY <2>1, <2>2, <2>3, <2>4
<1>2. Without \cap With = {}
  OBVIOUS
<1>3. /\ IsFiniteSet(Without) /\ Cardinality(Without) = 2^n
      /\ Cardinality(all) = 2^(n + 1)
  <2>1. n + 1 \in Nat
    OBVIOUS
  <2> QED
    BY <2>1, PowCardinality, Zenon
<1>4. IsFiniteSet(With) /\ Cardinality(With) = 2^n
  <2> DEFINE f == [T \in Without |-> T \cup {n + 1}]
  <2>1. f \in Bijection(Without, With)
    <3>1. ASSUME NEW T \in Without, NEW U \in Without, f[T] = f[U]
          PROVE  T = U
      <4>1. n + 1 \notin T /\ n + 1 \notin U /\ T \cup {n + 1} = U \cup {n + 1}
        BY <3>1
      <4> QED
        BY <4>1
    <3>2. f \in [Without -> With]
      OBVIOUS
    <3>3. \A V \in With : \E T \in Without : f[T] = V
      OBVIOUS
    <3> HIDE DEF f
    <3> QED
      BY <3>1, <3>2, <3>3 DEF Bijection, Injection, Surjection, IsInjective
  <2>2. ExistsBijection(Without, With)
    BY <2>1, Zenon DEF ExistsBijection
  <2> QED
    BY <1>3, <2>2, FS_Bijection
<1>5. Cardinality(Without \cup With) = 2^n + 2^n
  <2>1. Cardinality(Without \cap With) = 0
    BY <1>2, FS_EmptySet
  <2> HIDE DEF Without, With
  <2>2. Cardinality(Without \cup With)
          = Cardinality(Without) + Cardinality(With) - Cardinality(Without \cap With)
    BY <1>3, <1>4, FS_Union
  <2> QED
    BY <1>3, <1>4, <2>1, <2>2, PowType
<1> HIDE DEF all, Without, With
<1>6. 2^(n + 1) = 2^n + 2^n
  BY <1>1, <1>3, <1>5, Zenon
<1> QED
  BY <1>6, PowType

LEMMA PowPositive ==
    ASSUME NEW n \in Nat
    PROVE  2^n \in Nat \ {0}
<1> DEFINE S == {k \in Nat : 2^k # 0}
<1>1. 0 \in S
  BY PowZero
<1>2. \A k \in Nat : k \in S => k + 1 \in S
  BY PowType, PowStep
<1> HIDE DEF S
<1>3. n \in S
  BY <1>1, <1>2, Induction
<1> QED
  BY <1>3, PowType DEF S

LEMMA PowAdd ==
    ASSUME NEW m \in Nat, NEW n \in Nat
    PROVE  2^(m + n) = 2^m * 2^n
<1> DEFINE S == {k \in Nat : 2^(m + k) = 2^m * 2^k}
<1>1. 0 \in S
  <2>1. m + 0 = m /\ 2^m \in Nat
    BY PowType
  <2> QED
    BY <2>1, PowZero
<1>2. ASSUME NEW k \in Nat, k \in S
      PROVE  k + 1 \in S
  <2>1. 2^(m + k) = 2^m * 2^k /\ m + k \in Nat
    BY <1>2
  <2>2. 2^((m + k) + 1) = 2 * 2^(m + k) /\ 2^(k + 1) = 2 * 2^k
    BY <2>1, PowStep
  <2>3. m + (k + 1) = (m + k) + 1
    OBVIOUS
  <2>4. ASSUME NEW a \in Nat, NEW b \in Nat
        PROVE  2 * (a * b) = a * (2 * b)
    OBVIOUS
  <2>5. 2 * (2^m * 2^k) = 2^m * (2 * 2^k)
    BY <2>4, PowType
  <2> QED
    BY <2>1, <2>2, <2>3, <2>5
<1> HIDE DEF S
<1>3. n \in S
  BY <1>1, <1>2, Induction
<1> QED
  BY <1>3 DEF S

LEMMA PowMonotone ==
    ASSUME NEW m \in Nat, NEW n \in Nat, m <= n
    PROVE  2^m <= 2^n
<1>1. n - m \in Nat /\ m + (n - m) = n
  OBVIOUS
<1>2. 2^n = 2^m * 2^(n - m)
  BY <1>1, PowAdd
<1>3. 2^m \in Nat /\ 2^(n - m) \in Nat \ {0}
  BY <1>1, PowType, PowPositive
<1>4. ASSUME NEW a \in Nat, NEW b \in Nat \ {0}
      PROVE  a <= a * b
  OBVIOUS
<1> QED
  BY <1>2, <1>3, <1>4

-----------------------------------------------------------------------------
(* Division. *)

LEMMA DivMod ==
    ASSUME NEW v \in Nat, NEW n \in Nat \ {0}
    PROVE  /\ v \div n \in Nat /\ (v % n) \in 0..(n - 1)
           /\ v = n * (v \div n) + (v % n)
<1>1. v \div n \in Nat
  OBVIOUS
<1>2. (v % n) \in 0..(n - 1)
  OBVIOUS
<1>3. v = (v \div n) * n + (v % n)
  OBVIOUS
<1>4. (v \div n) * n = n * (v \div n)
  BY <1>1
<1> QED
  BY <1>1, <1>2, <1>3, <1>4

LEMMA DivModUnique ==
    ASSUME NEW n \in Nat \ {0}, NEW q \in Int, NEW r \in 0..(n - 1)
    PROVE  (n * q + r) \div n = q /\ ((n * q + r) % n) = r
OBVIOUS

(* What is left of v below p * q: below p, and the next digit of base q. *)
LEMMA ModSplit ==
    ASSUME NEW v \in Nat, NEW p \in Nat \ {0}, NEW q \in Nat \ {0}
    PROVE  /\ (v % (p * q)) = (v % p) + ((v \div p) % q) * p
           /\ v \div (p * q) = (v \div p) \div q
<1> DEFINE d == v \div p
           r == (v % p)
           c == d \div q
           b == (d % q)
<1>1. d \in Nat /\ r \in 0..(p - 1) /\ v = p * d + r
  BY DivMod
<1>2. c \in Nat /\ b \in 0..(q - 1) /\ d = q * c + b
  BY <1>1, DivMod
<1> HIDE DEF d, r, c, b
<1>3. v = (p * q) * c + (r + b * p)
  <2>1. v = p * (q * c + b) + r
    BY <1>1, <1>2
  <2>2. p * (q * c + b) = (p * q) * c + b * p
    BY <1>2
  <2> QED
    BY <1>1, <1>2, <2>1, <2>2
<1>4. r + b * p \in 0..(p * q - 1)
  <2>1. b * p \in Nat /\ p * q = b * p + (q - 1 - b) * p + p /\ (q - 1 - b) * p \in Nat
    BY <1>2
  <2> QED
    BY <1>1, <2>1
<1>5. p * q \in Nat \ {0} /\ c \in Int
  BY <1>2
<1>6. /\ (((p * q) * c + (r + b * p)) % (p * q)) = r + b * p
      /\ ((p * q) * c + (r + b * p)) \div (p * q) = c
  BY <1>4, <1>5, DivModUnique, Zenon
<1>7. (v % (p * q)) = r + b * p /\ v \div (p * q) = c
  BY <1>3, <1>6, Zenon
<1> QED
  BY <1>7 DEF r, b, c, d

(* Bit i of v >> s. *)
LEMMA BitShift ==
    ASSUME NEW v \in Nat, NEW s \in Nat, NEW i \in Nat
    PROVE  Bit(v \div 2^s, i) <=> Bit(v, i + s)
<1>1. 2^s \in Nat \ {0} /\ 2^i \in Nat \ {0} /\ 2^(s + i) = 2^s * 2^i /\ s + i = i + s
  BY PowPositive, PowAdd
<1>2. v \div (2^s * 2^i) = (v \div 2^s) \div 2^i
  BY <1>1, ModSplit
<1>3. v \div 2^(i + s) = (v \div 2^s) \div 2^i
  BY <1>1, <1>2, Zenon
<1> QED
  BY <1>3, Zenon DEF Bit

(* The bits of a word below i + 1 are those below i, and bit i. *)
LEMMA LowBits ==
    ASSUME NEW v \in Nat, NEW i \in Nat
    PROVE  (v % 2^(i + 1)) = (v % 2^i) + (IF Bit(v, i) THEN 2^i ELSE 0)
<1> DEFINE p == 2^i
           q == v \div p
           b == (q % 2)
           r == (v % p)
<1>1. p \in Nat \ {0} /\ 2^(i + 1) = 2 * p
  BY PowPositive, PowStep
<1>2. q \in Nat /\ r \in 0..(p - 1) /\ v = p * q + r
  BY <1>1, DivMod
<1>3. b \in 0..1 /\ q = 2 * (q \div 2) + b /\ q \div 2 \in Nat
  BY <1>2
<1>4. Bit(v, i) <=> b = 1
  BY DEF Bit
<1> HIDE DEF p, q, r, b
<1>5. ASSUME NEW c \in Nat, NEW d \in 0..1, q = 2 * c + d
      PROVE  v = (2 * p) * c + (d * p + r) /\ (d * p + r) \in 0..(2 * p - 1)
  <2>1. v = p * (2 * c + d) + r
    BY <1>2, <1>5
  <2>2. p * (2 * c + d) = (2 * p) * c + d * p
    BY <1>1
  <2>3. d * p \in 0..p
    BY <1>1
  <2> QED
    BY <1>1, <1>2, <2>1, <2>2, <2>3
<1>6. /\ v = (2 * p) * (q \div 2) + (b * p + r)
      /\ (b * p + r) \in 0..(2 * p - 1)
  BY <1>3, <1>5
<1>7. 2 * p \in Nat \ {0} /\ q \div 2 \in Int
  BY <1>1, <1>3
<1>8. (((2 * p) * (q \div 2) + (b * p + r)) % (2 * p)) = b * p + r
  BY <1>6, <1>7, DivModUnique, Zenon
<1>9. (v % (2 * p)) = b * p + r
  BY <1>6, <1>8, Zenon
<1>10. b * p = IF b = 1 THEN p ELSE 0
  BY <1>1, <1>3
<1>11. (v % 2^(i + 1)) = r + (IF Bit(v, i) THEN p ELSE 0)
  BY <1>1, <1>2, <1>4, <1>9, <1>10
<1> QED
  BY <1>11 DEF r, p

-----------------------------------------------------------------------------
(* Sums over finite sets.  SumFunctionOnSet takes one element after the     *)
(* other, the one that CHOOSE gives; the lemmas show that the order does    *)
(* not matter.                                                             *)

(* What holds of a set whenever it holds of its proper subsets holds of it. *)
LEMMA SubsetInduction ==
    ASSUME NEW U, IsFiniteSet(U), NEW Good,
           \A T \in SUBSET U :
               (\A R \in SUBSET T : R # T => R \in Good) => T \in Good
    PROVE  U \in Good
<1> DEFINE Bad == {T \in SUBSET U : T \notin Good}
           sizes == {n \in Nat : \E T \in Bad : n = Cardinality(T)}
<1>1. ASSUME NEW T \in SUBSET U
      PROVE  IsFiniteSet(T) /\ Cardinality(T) \in Nat
  BY FS_Subset, FS_CardinalityType
<1>2. SUFFICES ASSUME U \notin Good
      PROVE  FALSE
  OBVIOUS
<1>3. Cardinality(U) \in sizes
  BY <1>1, <1>2
<1>4. PICK n \in sizes : \A m \in sizes : n <= m
  <2>1. sizes \subseteq Nat /\ sizes # {}
    BY <1>3
  <2> HIDE DEF sizes
  <2> QED
    BY <2>1, LeastElement
<1>5. PICK T \in Bad : n = Cardinality(T)
  BY <1>4
<1>6. ASSUME NEW R \in SUBSET T, R # T
      PROVE  R \in Good
  <2>1. Cardinality(R) < n
    <3>1. Cardinality(R) <= Cardinality(T) /\ Cardinality(R) # Cardinality(T)
      BY <1>1, <1>5, <1>6, FS_Subset
    <3> QED
      BY <1>1, <1>5, <3>1
  <2>2. Cardinality(R) \notin sizes
    BY <1>1, <1>4, <2>1
  <2> QED
    BY <1>1, <2>2
<1> QED
  BY <1>5, <1>6

First(S) == CHOOSE x \in S : TRUE

(* g is the function that the fold of f over the subsets of S defines. *)
IsSum(g, f, S) ==
    g = [s \in SUBSET S |-> IF s = {} THEN 0 ELSE f[First(s)] + g[s \ {First(s)}]]

LEMMA FirstIn ==
    ASSUME NEW S, S # {}
    PROVE  First(S) \in S
BY DEF First

LEMMA SumIs ==
    ASSUME NEW f, NEW S
    PROVE  SumFunctionOnSet(f, S) = (CHOOSE g : IsSum(g, f, S))[S]
BY Zenon DEF SumFunctionOnSet, FoldFunctionOnSet, MapThenFoldSet, IsSum, First

LEMMA SumUnique ==
    ASSUME NEW f, NEW S, NEW T, NEW g, NEW h, NEW U,
           IsSum(g, f, S), IsSum(h, f, T), U \subseteq S, U \subseteq T,
           IsFiniteSet(U)
    PROVE  g[U] = h[U]
<1> DEFINE Good == {u \in SUBSET U : g[u] = h[u]}
<1>1. ASSUME NEW u \in SUBSET U,
             \A R \in SUBSET u : R # u => R \in Good
      PROVE  u \in Good
  <2>1. /\ g[u] = IF u = {} THEN 0 ELSE f[First(u)] + g[u \ {First(u)}]
        /\ h[u] = IF u = {} THEN 0 ELSE f[First(u)] + h[u \ {First(u)}]
    BY DEF IsSum
  <2>2. CASE u # {}
    <3>1. u \ {First(u)} \in SUBSET u /\ u \ {First(u)} # u
      BY <2>2, FirstIn
    <3>2. g[u \ {First(u)}] = h[u \ {First(u)}]
      BY <1>1, <3>1
    <3> QED
      BY <2>1, <2>2, <3>2
  <2> QED
    BY <2>1, <2>2
<1> HIDE DEF Good
<1>2. U \in Good
  BY <1>1, SubsetInduction
<1> QED
  BY <1>2 DEF Good

LEMMA SumExists ==
    ASSUME NEW f, NEW S, IsFiniteSet(S)
    PROVE  \E g : IsSum(g, f, S)
<1> DEFINE Good == {T \in SUBSET S : \E g : IsSum(g, f, T)}
<1>1. ASSUME NEW T \in SUBSET S,
             \A R \in SUBSET T : R # T => R \in Good
      PROVE  T \in Good
  <2> DEFINE It(R) == CHOOSE g : IsSum(g, f, R)
             c == First(T)
             G == [s \in SUBSET T |->
                      IF s = T THEN (IF T = {} THEN 0 ELSE f[c] + It(T \ {c})[T \ {c}])
                               ELSE It(s)[s]]
  <2>1. ASSUME NEW R \in SUBSET T, R # T
        PROVE  IsSum(It(R), f, R)
    <3>1. \E g : IsSum(g, f, R)
      BY <1>1, <2>1
    <3> QED
      BY <3>1, Zenon
  <2> HIDE DEF It
  <2>2. ASSUME NEW s \in SUBSET T
        PROVE  G[s] = IF s = {} THEN 0 ELSE f[First(s)] + G[s \ {First(s)}]
    <3>1. CASE s = T
      <4>1. T # {} => T \ {c} # T /\ T \ {c} \in SUBSET T
        BY FirstIn
      <4> QED
        BY <3>1, <4>1
    <3>2. CASE s # T /\ s = {}
      <4>1. IsSum(It(s), f, s)
        BY <2>1, <3>2
      <4>2. It(s)[s] = 0
        BY <3>2, <4>1 DEF IsSum
      <4> QED
        BY <3>2, <4>2
    <3>3. CASE s # T /\ s # {}
      <4> DEFINE r == s \ {First(s)}
      <4>1. r \in SUBSET T /\ r # T /\ r # s /\ r \in SUBSET s
        BY <3>3, FirstIn
      <4>2. IsSum(It(s), f, s) /\ IsSum(It(r), f, r)
        BY <2>1, <3>3, <4>1
      <4>3. It(s)[s] = f[First(s)] + It(s)[r]
        BY <3>3, <4>2 DEF IsSum
      <4>4. It(s)[r] = It(r)[r]
        <5>1. IsFiniteSet(r)
          BY <4>1, FS_Subset
        <5> HIDE DEF r
        <5> QED
          BY <4>1, <4>2, <5>1, SumUnique
      <4>5. G[s] = It(s)[s] /\ G[r] = It(r)[r]
        BY <3>3, <4>1
      <4> HIDE DEF G
      <4> QED
        BY <3>3, <4>3, <4>4, <4>5
    <3> QED
      BY <3>1, <3>2, <3>3
  <2>3. G = [s \in SUBSET T |-> G[s]]
    OBVIOUS
  <2> HIDE DEF G
  <2>4. IsSum(G, f, T)
    BY <2>2, <2>3 DEF IsSum
  <2> QED
    BY <2>4
<1> HIDE DEF Good
<1>2. S \in Good
  BY <1>1, SubsetInduction
<1> QED
  BY <1>2 DEF Good

LEMMA SumEmpty ==
    ASSUME NEW f
    PROVE  SumFunctionOnSet(f, {}) = 0
<1> DEFINE g == CHOOSE g : IsSum(g, f, {})
<1>1. IsSum(g, f, {})
  <2>1. \E h : IsSum(h, f, {})
    BY SumExists, FS_EmptySet
  <2> QED
    BY <2>1, Zenon
<1>2. SumFunctionOnSet(f, {}) = g[{}]
  BY SumIs
<1> HIDE DEF g
<1> QED
  BY <1>1, <1>2 DEF IsSum

LEMMA SumFirst ==
    ASSUME NEW f, NEW S, IsFiniteSet(S), S # {}
    PROVE  SumFunctionOnSet(f, S)
             = f[First(S)] + SumFunctionOnSet(f, S \ {First(S)})
<1> DEFINE r == S \ {First(S)}
           It(R) == CHOOSE g : IsSum(g, f, R)
<1>1. r \in SUBSET S /\ IsFiniteSet(r)
  BY FS_Subset
<1>2. IsSum(It(S), f, S) /\ IsSum(It(r), f, r)
  <2>1. (\E h : IsSum(h, f, S)) /\ (\E h : IsSum(h, f, r))
    BY <1>1, SumExists
  <2> QED
    BY <2>1, Zenon
<1>3. SumFunctionOnSet(f, S) = It(S)[S] /\ SumFunctionOnSet(f, r) = It(r)[r]
  BY SumIs
<1> HIDE DEF It
<1>4. It(S)[S] = f[First(S)] + It(S)[r]
  BY <1>2 DEF IsSum
<1>5. It(S)[r] = It(r)[r]
  <2> HIDE DEF r
  <2> QED
    BY <1>1, <1>2, SumUnique
<1> QED
  BY <1>3, <1>4, <1>5

(* Two functions that agree on S have one sum over S. *)
LEMMA SumSame ==
    ASSUME NEW f, NEW h, NEW S, IsFiniteSet(S), \A i \in S : f[i] = h[i]
    PROVE  SumFunctionOnSet(f, S) = SumFunctionOnSet(h, S)
<1> DEFINE Good == {T \in SUBSET S : SumFunctionOnSet(f, T) = SumFunctionOnSet(h, T)}
<1>1. ASSUME NEW T \in SUBSET S,
             \A R \in SUBSET T : R # T => R \in Good
      PROVE  T \in Good
  <2>1. CASE T = {}
    BY <2>1, SumEmpty
  <2>2. CASE T # {}
    <3>1. First(T) \in T /\ T \ {First(T)} \in SUBSET T /\ T \ {First(T)} # T
      BY <2>2, FirstIn
    <3>2. SumFunctionOnSet(f, T \ {First(T)}) = SumFunctionOnSet(h, T \ {First(T)})
      BY <1>1, <3>1
    <3>3. IsFiniteSet(T)
      BY FS_Subset
    <3>4. f[First(T)] = h[First(T)]
      BY <3>1
    <3> QED
      BY <2>2, <3>2, <3>3, <3>4, SumFirst
  <2> QED
    BY <2>1, <2>2
<1> HIDE DEF Good
<1>2. S \in Good
  BY <1>1, SubsetInduction
<1> QED
  BY <1>2 DEF Good

LEMMA SumType ==
    ASSUME NEW f, NEW S, IsFiniteSet(S), \A i \in S : f[i] \in Nat
    PROVE  SumFunctionOnSet(f, S) \in Nat
<1> DEFINE Good == {T \in SUBSET S : SumFunctionOnSet(f, T) \in Nat}
<1>1. ASSUME NEW T \in SUBSET S,
             \A R \in SUBSET T : R # T => R \in Good
      PROVE  T \in Good
  <2>1. CASE T = {}
    BY <2>1, SumEmpty
  <2>2. CASE T # {}
    <3>1. First(T) \in T /\ T \ {First(T)} \in SUBSET T /\ T \ {First(T)} # T
      BY <2>2, FirstIn
    <3>2. SumFunctionOnSet(f, T \ {First(T)}) \in Nat
      BY <1>1, <3>1
    <3>3. IsFiniteSet(T) /\ f[First(T)] \in Nat
      BY <3>1, FS_Subset
    <3> QED
      BY <2>2, <3>2, <3>3, SumFirst
  <2> QED
    BY <2>1, <2>2
<1> HIDE DEF Good
<1>2. S \in Good
  BY <1>1, SubsetInduction
<1> QED
  BY <1>2 DEF Good

(* Any element may be taken first. *)
LEMMA SumTake ==
    ASSUME NEW f, NEW S, IsFiniteSet(S), \A i \in S : f[i] \in Nat, NEW x \in S
    PROVE  SumFunctionOnSet(f, S) = f[x] + SumFunctionOnSet(f, S \ {x})
<1> DEFINE Good == {T \in SUBSET S :
                       \A y \in T : SumFunctionOnSet(f, T)
                                      = f[y] + SumFunctionOnSet(f, T \ {y})}
<1>1. ASSUME NEW T \in SUBSET S,
             \A R \in SUBSET T : R # T => R \in Good
      PROVE  T \in Good
  <2>1. SUFFICES ASSUME NEW y \in T, y # First(T)
        PROVE  SumFunctionOnSet(f, T) = f[y] + SumFunctionOnSet(f, T \ {y})
    <3>1. T # {} /\ IsFiniteSet(T) => SumFunctionOnSet(f, T)
             = f[First(T)] + SumFunctionOnSet(f, T \ {First(T)})
      BY SumFirst
    <3>2. IsFiniteSet(T)
      BY FS_Subset
    <3> QED
      BY <3>1, <3>2
  <2> DEFINE c == First(T)
             Tc == T \ {c}
             Ty == T \ {y}
             Tcy == (T \ {c}) \ {y}
  <2>2. c \in T /\ c # y
    BY <2>1, FirstIn
  <2>3. /\ Tc \in SUBSET T /\ Tc # T /\ Ty \in SUBSET T /\ Ty # T
        /\ y \in Tc /\ c \in Ty /\ Ty \ {c} = Tcy /\ Tc \ {y} = Tcy
        /\ Tcy \in SUBSET S
    BY <2>1, <2>2
  <2>4. IsFiniteSet(T) /\ IsFiniteSet(Tcy)
    BY <2>3, FS_Subset
  <2>5. f[c] \in Nat /\ f[y] \in Nat
    BY <2>1, <2>2
  <2>6. SumFunctionOnSet(f, Tcy) \in Nat
    <3>1. \A i \in Tcy : f[i] \in Nat
      BY <2>3
    <3> QED
      BY <2>4, <3>1, SumType
  <2>7. SumFunctionOnSet(f, T) = f[c] + SumFunctionOnSet(f, Tc)
    BY <2>1, <2>4, SumFirst
  <2>8. SumFunctionOnSet(f, Tc) = f[y] + SumFunctionOnSet(f, Tcy)
    <3>1. Tc \in Good
      BY <1>1, <2>3
    <3> QED
      BY <2>3, <3>1
  <2>9. SumFunctionOnSet(f, Ty) = f[c] + SumFunctionOnSet(f, Tcy)
    <3>1. Ty \in Good
      BY <1>1, <2>3
    <3> QED
      BY <2>3, <3>1
  <2> HIDE DEF c, Tc, Tcy
  <2> QED
    BY <2>5, <2>6, <2>7, <2>8, <2>9
<1> HIDE DEF Good
<1>2. S \in Good
  BY <1>1, SubsetInduction
<1> QED
  BY <1>2 DEF Good

-----------------------------------------------------------------------------
(* Words and sets of bits. *)

LEMMA FromBitsIs ==
    ASSUME NEW S, NEW f, IsFiniteSet(S), \A i \in S : f[i] = 2^i
    PROVE  FromBits(S) = SumFunctionOnSet(f, S)
<1> DEFINE h == [i \in S |-> 2^i]
<1>1. DOMAIN h = S /\ \A i \in S : h[i] = f[i]
  OBVIOUS
<1>2. FromBits(S) = SumFunctionOnSet(h, S)
  BY <1>1, Zenon DEF FromBits, SumFunction
<1> HIDE DEF h
<1> QED
  BY <1>1, <1>2, SumSame

LEMMA FromBitsEmpty == FromBits({}) = 0
<1> DEFINE f == [i \in {} |-> 2^i]
<1>1. FromBits({}) = SumFunctionOnSet(f, {})
  BY FromBitsIs, FS_EmptySet
<1> QED
  BY <1>1, SumEmpty

LEMMA FromBitsType ==
    ASSUME NEW S, IsFiniteSet(S), S \subseteq Nat
    PROVE  FromBits(S) \in Nat
<1> DEFINE f == [i \in S |-> 2^i]
<1>1. FromBits(S) = SumFunctionOnSet(f, S)
  BY FromBitsIs
<1>2. \A i \in S : f[i] \in Nat
  BY PowType
<1> HIDE DEF f
<1> QED
  BY <1>1, <1>2, SumType

LEMMA FromBitsTake ==
    ASSUME NEW S, IsFiniteSet(S), S \subseteq Nat, NEW x \in S
    PROVE  FromBits(S) = 2^x + FromBits(S \ {x})
<1> DEFINE f == [i \in S |-> 2^i]
<1>1. FromBits(S) = SumFunctionOnSet(f, S)
  BY FromBitsIs
<1>2. FromBits(S \ {x}) = SumFunctionOnSet(f, S \ {x})
  <2>1. IsFiniteSet(S \ {x})
    BY FS_Subset
  <2>2. \A i \in S \ {x} : f[i] = 2^i
    OBVIOUS
  <2> HIDE DEF f
  <2> QED
    BY <2>1, <2>2, FromBitsIs
<1>3. \A i \in S : f[i] \in Nat
  BY PowType
<1>4. f[x] = 2^x
  OBVIOUS
<1> HIDE DEF f
<1>5. SumFunctionOnSet(f, S) = f[x] + SumFunctionOnSet(f, S \ {x})
  BY <1>3, SumTake
<1> QED
  BY <1>1, <1>2, <1>4, <1>5

LEMMA SubsetsOfRange ==
    ASSUME NEW n \in Nat, NEW S \in SUBSET (0..(n - 1))
    PROVE  IsFiniteSet(S) /\ S \subseteq Nat
<1>1. IsFiniteSet(0..(n - 1))
  BY FS_Interval
<1>2. IsFiniteSet(S)
  BY <1>1, FS_Subset
<1>3. S \subseteq Nat
  OBVIOUS
<1> QED
  BY <1>2, <1>3

(* The bit above the others: FromBits of a set of positions up to n. *)
LEMMA FromBitsTop ==
    ASSUME NEW n \in Nat, NEW S \in SUBSET (0..n)
    PROVE  /\ S \ {n} \in SUBSET (0..(n - 1))
           /\ FromBits(S) = (IF n \in S THEN 2^n ELSE 0) + FromBits(S \ {n})
           /\ FromBits(S \ {n}) \in Nat
<1>1. S \ {n} \in SUBSET (0..(n - 1))
  OBVIOUS
<1>2. IsFiniteSet(S) /\ S \subseteq Nat
  <2>1. n + 1 \in Nat /\ S \in SUBSET (0..((n + 1) - 1))
    OBVIOUS
  <2> QED
    BY <2>1, SubsetsOfRange
<1>3. FromBits(S \ {n}) \in Nat
  BY <1>1, SubsetsOfRange, FromBitsType
<1>4. CASE n \in S
  BY <1>1, <1>2, <1>3, <1>4, FromBitsTake
<1>5. CASE n \notin S
  <2>1. S \ {n} = S
    BY <1>5
  <2>2. FromBits(S \ {n}) = FromBits(S)
    BY <2>1, Zenon
  <2> QED
    BY <1>1, <1>3, <1>5, <2>2
<1> QED
  BY <1>4, <1>5

(* A word of n bits is below 2^n. *)
LEMMA FromBitsBound ==
    ASSUME NEW n \in Nat, NEW S \in SUBSET (0..(n - 1))
    PROVE  FromBits(S) \in 0..(2^n - 1)
<1> DEFINE Good == {k \in Nat :
                       \A T \in SUBSET (0..(k - 1)) : FromBits(T) \in 0..(2^k - 1)}
<1>1. 0 \in Good
  <2>1. ASSUME NEW T \in SUBSET (0..(0 - 1))
        PROVE  FromBits(T) = 0
    <3>1. T = {}
      OBVIOUS
    <3> QED
      BY <3>1, FromBitsEmpty, Zenon
  <2> QED
    BY <2>1, PowZero
<1>2. ASSUME NEW k \in Nat, k \in Good
      PROVE  k + 1 \in Good
  <2>1. ASSUME NEW T \in SUBSET (0..((k + 1) - 1))
        PROVE  FromBits(T) \in 0..(2^(k + 1) - 1)
    <3>1. T \in SUBSET (0..k)
      OBVIOUS
    <3>2. FromBits(T \ {k}) \in 0..(2^k - 1)
      BY <1>2, <3>1, FromBitsTop
    <3>3. FromBits(T) = (IF k \in T THEN 2^k ELSE 0) + FromBits(T \ {k})
      BY <3>1, FromBitsTop
    <3>4. 2^k \in Nat /\ 2^(k + 1) = 2 * 2^k
      BY PowType, PowStep
    <3> QED
      BY <3>2, <3>3, <3>4
  <2> QED
    BY <2>1
<1> HIDE DEF Good
<1>3. n \in Good
  BY <1>1, <1>2, Induction
<1> QED
  BY <1>3 DEF Good

(* Words of n bits with one value have the same bits. *)
LEMMA FromBitsInjective ==
    ASSUME NEW n \in Nat, NEW S \in SUBSET (0..(n - 1)), NEW T \in SUBSET (0..(n - 1)),
           FromBits(S) = FromBits(T)
    PROVE  S = T
<1> DEFINE Good == {k \in Nat : \A U \in SUBSET (0..(k - 1)), V \in SUBSET (0..(k - 1)) :
                                    FromBits(U) = FromBits(V) => U = V}
<1>1. 0 \in Good
  <2>1. \A U \in SUBSET (0..(0 - 1)) : U = {}
    OBVIOUS
  <2> QED
    BY <2>1, Zenon
<1>2. ASSUME NEW k \in Nat, k \in Good
      PROVE  k + 1 \in Good
  <2>1. ASSUME NEW U \in SUBSET (0..((k + 1) - 1)), NEW V \in SUBSET (0..((k + 1) - 1)),
               FromBits(U) = FromBits(V)
        PROVE  U = V
    <3>1. U \in SUBSET (0..k) /\ V \in SUBSET (0..k)
      OBVIOUS
    <3>2. /\ U \ {k} \in SUBSET (0..(k - 1)) /\ V \ {k} \in SUBSET (0..(k - 1))
          /\ FromBits(U) = (IF k \in U THEN 2^k ELSE 0) + FromBits(U \ {k})
          /\ FromBits(V) = (IF k \in V THEN 2^k ELSE 0) + FromBits(V \ {k})
      BY <3>1, FromBitsTop
    <3>3. FromBits(U \ {k}) \in 0..(2^k - 1) /\ FromBits(V \ {k}) \in 0..(2^k - 1)
      BY <3>2, FromBitsBound
    <3>4. 2^k \in Nat
      BY PowType
    <3>5. (k \in U <=> k \in V) /\ FromBits(U \ {k}) = FromBits(V \ {k})
      <4> DEFINE p == 2^k
                 u == FromBits(U \ {k})
                 w == FromBits(V \ {k})
      <4>1. /\ p \in Nat /\ u \in 0..(p - 1) /\ w \in 0..(p - 1)
            /\ (IF k \in U THEN p ELSE 0) + u = (IF k \in V THEN p ELSE 0) + w
        BY <2>1, <3>2, <3>3, <3>4
      <4> HIDE DEF p, u, w
      <4>2. (k \in U <=> k \in V) /\ u = w
        BY <4>1
      <4> QED
        BY <4>2 DEF u, w
    <3>6. U \ {k} = V \ {k}
      BY <1>2, <3>2, <3>5
    <3> QED
      BY <3>5, <3>6
  <2> QED
    BY <2>1
<1> HIDE DEF Good
<1>3. n \in Good
  BY <1>1, <1>2, Induction
<1> QED
  BY <1>3 DEF Good

(* The bits of v below n make up v modulo 2^n. *)
LEMMA FromBitsOfLow ==
    ASSUME NEW v \in Nat, NEW n \in Nat
    PROVE  FromBits({i \in 0..(n - 1) : Bit(v, i)}) = (v % 2^n)
<1> DEFINE Low(k) == {i \in 0..(k - 1) : Bit(v, i)}
           Good == {k \in Nat : FromBits(Low(k)) = (v % 2^k)}
<1>1. 0 \in Good
  <2>1. Low(0) = {}
    OBVIOUS
  <2>2. FromBits(Low(0)) = 0
    BY <2>1, FromBitsEmpty, Zenon
  <2>3. (v % 2^0) = 0
    OBVIOUS
  <2> QED
    BY <2>2, <2>3
<1>2. ASSUME NEW k \in Nat, k \in Good
      PROVE  k + 1 \in Good
  <2>1. Low(k + 1) \in SUBSET (0..k)
    OBVIOUS
  <2>2. FromBits(Low(k + 1)) = (IF k \in Low(k + 1) THEN 2^k ELSE 0)
                                 + FromBits(Low(k + 1) \ {k})
    BY <2>1, FromBitsTop
  <2>3. Low(k + 1) \ {k} = Low(k)
    OBVIOUS
  <2>4. k \in Low(k + 1) <=> Bit(v, k)
    OBVIOUS
  <2>5. FromBits(Low(k)) = (v % 2^k)
    BY <1>2
  <2>6. (v % 2^(k + 1)) = (v % 2^k) + (IF Bit(v, k) THEN 2^k ELSE 0)
    BY LowBits
  <2>7. (v % 2^k) \in Nat /\ 2^k \in Nat
    BY PowPositive, DivMod
  <2> HIDE DEF Low
  <2>8. FromBits(Low(k + 1)) = (IF Bit(v, k) THEN 2^k ELSE 0) + (v % 2^k)
    BY <2>2, <2>3, <2>4, <2>5
  <2> QED
    BY <2>6, <2>7, <2>8
<1> HIDE DEF Good
<1>3. n \in Good
  BY <1>1, <1>2, Induction
<1> QED
  BY <1>3 DEF Good

-----------------------------------------------------------------------------
(* The host's words. *)

HostWord == 0..(HostMod - 1)

LEMMA HostType == HostBits \in Nat /\ HostMod \in Nat \ {0}
BY HostBitsAssumption, PowPositive DEF HostMod

LEMMA BitsType ==
    ASSUME NEW v
    PROVE  Bits(v) \in SUBSET (0..(HostBits - 1))
BY DEF Bits

LEMMA FromBitsWord ==
    ASSUME NEW S \in SUBSET (0..(HostBits - 1))
    PROVE  FromBits(S) \in HostWord
BY HostType, FromBitsBound DEF HostWord, HostMod

LEMMA FromBitsOfBits ==
    ASSUME NEW v \in HostWord
    PROVE  FromBits(Bits(v)) = v
<1>1. v \in Nat /\ HostBits \in Nat /\ HostMod \in Nat \ {0}
  BY HostType DEF HostWord
<1>2. FromBits(Bits(v)) = (v % HostMod)
  BY <1>1, FromBitsOfLow DEF Bits, HostMod
<1> QED
  BY <1>1, <1>2 DEF HostWord

LEMMA BitsOfFromBits ==
    ASSUME NEW S \in SUBSET (0..(HostBits - 1))
    PROVE  Bits(FromBits(S)) = S
<1>1. FromBits(S) \in HostWord
  BY FromBitsWord
<1>2. FromBits(Bits(FromBits(S))) = FromBits(S)
  BY <1>1, FromBitsOfBits
<1>3. Bits(FromBits(S)) \in SUBSET (0..(HostBits - 1)) /\ HostBits \in Nat
  BY BitsType, HostType
<1> QED
  BY <1>2, <1>3, FromBitsInjective

(* A bitwise operator of two words is a word; its bits are the set operator *)
(* of their bits.                                                          *)
THEOREM WordOperators ==
    ASSUME NEW v, NEW w
    PROVE  /\ BitAnd(v, w) \in HostWord /\ Bits(BitAnd(v, w)) = Bits(v) \cap Bits(w)
           /\ BitOr(v, w) \in HostWord /\ Bits(BitOr(v, w)) = Bits(v) \cup Bits(w)
           /\ BitXor(v, w) \in HostWord
           /\ Bits(BitXor(v, w)) = (Bits(v) \cup Bits(w)) \ (Bits(v) \cap Bits(w))
<1>1. /\ Bits(v) \cap Bits(w) \in SUBSET (0..(HostBits - 1))
      /\ Bits(v) \cup Bits(w) \in SUBSET (0..(HostBits - 1))
      /\ (Bits(v) \cup Bits(w)) \ (Bits(v) \cap Bits(w)) \in SUBSET (0..(HostBits - 1))
  BY BitsType
<1> QED
  BY <1>1, FromBitsWord, BitsOfFromBits DEF BitAnd, BitOr, BitXor

LEMMA BitsZero == Bits(0) = {}
<1>1. 0 \in HostWord /\ {} \in SUBSET (0..(HostBits - 1))
  BY HostType DEF HostWord
<1>2. Bits(FromBits({})) = {}
  BY <1>1, BitsOfFromBits
<1> QED
  BY <1>2, FromBitsEmpty

(* Or with 0, the value of a bus that nobody drives, leaves a word alone. *)
THEOREM OrZero ==
    ASSUME NEW v \in HostWord
    PROVE  BitOr(v, 0) = v /\ BitOr(0, v) = v
<1>1. Bits(v) \cup Bits(0) = Bits(v) /\ Bits(0) \cup Bits(v) = Bits(v)
  BY BitsZero
<1> QED
  BY <1>1, FromBitsOfBits DEF BitOr

(* Words with the same bits are equal. *)
LEMMA ExtensionalWords ==
    ASSUME NEW v \in HostWord, NEW w \in HostWord, Bits(v) = Bits(w)
    PROVE  v = w
<1>1. FromBits(Bits(v)) = v /\ FromBits(Bits(w)) = w
  BY FromBitsOfBits
<1> QED
  BY <1>1

LEMMA ShiftType ==
    ASSUME NEW v \in Nat, NEW s \in Nat, NEW width \in Nat
    PROVE  /\ ShiftLeft(v, s, width) \in 0..(2^width - 1)
           /\ ShiftRight(v, s) \in 0..v
<1>1. ShiftLeft(v, s, width) \in 0..(2^width - 1)
  <2>1. CASE s >= width
    <3>1. 2^width \in Nat \ {0}
      BY PowPositive
    <3> QED
      BY <2>1, <3>1 DEF ShiftLeft
  <2>2. CASE ~(s >= width)
    <3> DEFINE k == width - s
               r == (v % 2^k)
    <3>1. k \in Nat /\ k + s = width
      BY <2>2
    <3>2. 2^k \in Nat \ {0} /\ 2^s \in Nat \ {0} /\ 2^width = 2^k * 2^s
      BY <3>1, PowPositive, PowAdd
    <3>3. r \in 0..(2^k - 1)
      BY <3>2
    <3>4. ShiftLeft(v, s, width) = r * 2^s
      BY <2>2 DEF ShiftLeft
    <3>5. ASSUME NEW a \in Nat \ {0}, NEW b \in Nat \ {0}, NEW c \in 0..(a - 1)
          PROVE  c * b \in 0..(a * b - 1)
      <4>1. c * b \in Nat /\ (a - c) * b \in Nat \ {0} /\ a * b = c * b + (a - c) * b
        OBVIOUS
      <4> QED
        BY <4>1
    <3> HIDE DEF r, k
    <3> QED
      BY <3>2, <3>3, <3>4, <3>5
  <2> QED
    BY <2>1, <2>2
<1>2. ShiftRight(v, s) \in 0..v
  <2>1. 2^s \in Nat \ {0}
    BY PowPositive
  <2>2. v \div 2^s \in 0..v
    <3>1. /\ v \div 2^s \in Nat /\ (v % 2^s) \in 0..(2^s - 1)
          /\ v = 2^s * (v \div 2^s) + (v % 2^s)
      BY <2>1, DivMod
    <3>2. ASSUME NEW a \in Nat \ {0}, NEW b \in Nat
          PROVE  b <= a * b
      OBVIOUS
    <3> QED
      BY <2>1, <3>1, <3>2
  <2> QED
    BY <2>2 DEF ShiftRight
<1> QED
  BY <1>1, <1>2

(* The bytes of a word, each at its place, make up the word. *)
LEMMA SumOfBytes ==
    ASSUME NEW v \in Nat, NEW n \in Nat, NEW f,
           \A k \in 0..(n - 1) : f[k] = ((v \div 2^(8 * k)) % 256) * 2^(8 * k)
    PROVE  SumFunctionOnSet(f, 0..(n - 1)) = (v % 2^(8 * n))
<1> DEFINE Good == {m \in Nat : m <= n => SumFunctionOnSet(f, 0..(m - 1)) = (v % 2^(8 * m))}
<1>1. 0 \in Good
  <2>1. 0..(0 - 1) = {}
    OBVIOUS
  <2>2. SumFunctionOnSet(f, 0..(0 - 1)) = 0
    BY <2>1, SumEmpty
  <2>3. (v % 2^(8 * 0)) = 0
    BY PowZero
  <2> QED
    BY <2>2, <2>3
<1>2. ASSUME NEW m \in Nat, m \in Good
      PROVE  m + 1 \in Good
  <2> SUFFICES ASSUME m + 1 <= n
      PROVE  SumFunctionOnSet(f, 0..m) = (v % 2^(8 * (m + 1)))
    <3>1. (m + 1) - 1 = m
      OBVIOUS
    <3> QED
      BY <3>1
  <2> DEFINE S == 0..m
             p == 2^(8 * m)
  <2>1. m \in S /\ S \ {m} = 0..(m - 1)
    <3>1. m \in S
      OBVIOUS
    <3>2. ASSUME NEW k
          PROVE  k \in S \ {m} <=> k \in 0..(m - 1)
      OBVIOUS
    <3> HIDE DEF S
    <3> QED
      BY <3>1, <3>2
  <2>2. IsFiniteSet(S)
    BY FS_Interval
  <2>3. p \in Nat \ {0} /\ 2^(8 * (m + 1)) = p * 256
    <3>1. 8 \in Nat /\ 8 * m \in Nat /\ 8 * (m + 1) = 8 * m + 8 /\ 2^8 = 256
      OBVIOUS
    <3>2. 2^(8 * m + 8) = 2^(8 * m) * 2^8
      <4> DEFINE a == 8 * m
                 e == 8
      <4>1. a \in Nat /\ e \in Nat
        OBVIOUS
      <4> HIDE DEF a, e
      <4>2. 2^(a + e) = 2^a * 2^e
        BY <4>1, PowAdd
      <4> QED
        BY <4>2, Zenon DEF a, e
    <3> QED
      BY <3>1, <3>2, PowPositive
  <2>4. ASSUME NEW k \in S
        PROVE  f[k] \in Nat
    <3>1. k \in 0..(n - 1) /\ 8 * k \in Nat
      OBVIOUS
    <3>2. 2^(8 * k) \in Nat \ {0}
      BY <3>1, PowPositive
    <3>3. v \div 2^(8 * k) \in Nat
      BY <3>2, DivMod
    <3>4. ((v \div 2^(8 * k)) % 256) \in Nat
      BY <3>3
    <3>5. f[k] = ((v \div 2^(8 * k)) % 256) * 2^(8 * k)
      BY <3>1
    <3> QED
      BY <3>2, <3>4, <3>5
  <2>5. SumFunctionOnSet(f, S) = f[m] + SumFunctionOnSet(f, S \ {m})
    <3> HIDE DEF S
    <3> QED
      BY <2>1, <2>2, <2>4, SumTake
  <2>6. SumFunctionOnSet(f, S \ {m}) = (v % p)
    <3>1. SumFunctionOnSet(f, 0..(m - 1)) = (v % p)
      BY <1>2
    <3> QED
      BY <2>1, <3>1
  <2>7. f[m] = ((v \div p) % 256) * p
    OBVIOUS
  <2>8. (v % (p * 256)) = (v % p) + ((v \div p) % 256) * p
    <3> DEFINE q == 256
    <3>1. q \in Nat \ {0} /\ p \in Nat \ {0}
      BY <2>3
    <3> HIDE DEF p, q
    <3>2. (v % (p * q)) = (v % p) + ((v \div p) % q) * p
      BY <3>1, ModSplit, Zenon
    <3> QED
      BY <3>2, Zenon DEF q
  <2>9. (v % p) \in Nat
    BY <2>3
  <2>10. f[m] \in Nat
    BY <2>1, <2>4
  <2> HIDE DEF S, p
  <2>11. SumFunctionOnSet(f, S) = (v % (p * 256))
    BY <2>5, <2>6, <2>7, <2>8, <2>9, <2>10
  <2> QED
    BY <2>3, <2>11 DEF S
<1> HIDE DEF Good
<1>3. n \in Good
  BY <1>1, <1>2, Induction
<1> QED
  BY <1>3 DEF Good

(* The bits of a byte, and of a shifted word. *)

(* Words with the same eight lowest bits have the same lowest byte. *)
LEMMA BytesByBits ==
    ASSUME NEW v \in Nat, NEW w \in Nat, \A i \in 0..7 : Bit(v, i) <=> Bit(w, i)
    PROVE  (v % 256) = (w % 256)
<1>1. {i \in 0..(8 - 1) : Bit(v, i)} = {i \in 0..(8 - 1) : Bit(w, i)}
  OBVIOUS
<1>2. (v % 2^8) = (w % 2^8)
  BY <1>1, FromBitsOfLow
<1>3. 2^8 = 256
  OBVIOUS
<1> QED
  BY <1>2, <1>3, Zenon

(* A word cut to m bits keeps those. *)
LEMMA BitOfMod ==
    ASSUME NEW v \in Nat, NEW m \in Nat, m <= HostBits, NEW j \in 0..(m - 1)
    PROVE  Bit(v % 2^m, j) <=> Bit(v, j)
<1> DEFINE low == {i \in 0..(m - 1) : Bit(v, i)}
           x == (v % 2^m)
<1>1. low \in SUBSET (0..(HostBits - 1)) /\ j \in 0..(HostBits - 1)
  BY HostType
<1>2. FromBits(low) = x
  BY FromBitsOfLow
<1>3. Bits(FromBits(low)) = low
  BY <1>1, BitsOfFromBits
<1>4. j \in low <=> Bit(v, j)
  OBVIOUS
<1> HIDE DEF low, x
<1>5. Bits(x) = low
  BY <1>2, <1>3
<1>6. j \in Bits(x) <=> Bit(x, j)
  BY <1>1 DEF Bits
<1>7. Bit(x, j) <=> Bit(v, j)
  BY <1>4, <1>5, <1>6
<1> QED
  BY <1>7 DEF x

(* A shift to the left moves each bit. *)
LEMMA BitOfShiftLeft ==
    ASSUME NEW v \in Nat, NEW n \in Nat, n <= HostBits, NEW s \in 0..(n - 1), NEW b \in s..(n - 1)
    PROVE  Bit(ShiftLeft(v, s, n), b) <=> Bit(v, b - s)
<1> DEFINE m == n - s
           q == (v % 2^m)
           p == 2^s
           x == q * p
           j == b - s
<1>1. s \in Nat /\ m \in Nat /\ m <= HostBits /\ j \in 0..(m - 1) /\ j \in Nat /\ j + s = b
  BY HostType
<1>2. p \in Nat \ {0} /\ 2^m \in Nat \ {0}
  BY <1>1, PowPositive
<1>3. q \in Nat
  <2> DEFINE r == 2^m
  <2>1. r \in Nat \ {0}
    BY <1>2
  <2> HIDE DEF r
  <2>2. (v % r) \in Nat
    BY <2>1
  <2> QED
    BY <2>2 DEF r
<1>4. ShiftLeft(v, s, n) = x
  BY <1>1 DEF ShiftLeft
<1>5. Bit(q, j) <=> Bit(v, j)
  <2> HIDE DEF m, j
  <2> QED
    BY <1>1, BitOfMod
<1> HIDE DEF m, q, p, j
<1>6. x \in Nat /\ x \div p = q
  <2>1. x = p * q + 0 /\ 0 \in 0..(p - 1) /\ x \in Nat
    BY <1>2, <1>3
  <2>2. (p * q + 0) \div p = q
    BY <1>2, <1>3, <2>1, DivModUnique
  <2> HIDE DEF x
  <2> QED
    BY <2>1, <2>2
<1> HIDE DEF x
<1>7. Bit(x \div 2^s, j) <=> Bit(x, j + s)
  BY <1>1, <1>6, BitShift
<1>8. Bit(q, j) <=> Bit(x, b)
  BY <1>1, <1>6, <1>7 DEF p
<1> QED
  BY <1>4, <1>5, <1>8 DEF j
=============================================================================
