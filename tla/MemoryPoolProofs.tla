--------------------------- MODULE MemoryPoolProofs ---------------------------
(***************************************************************************)
(* Proofs about MemoryPool, from its assumption alone.                     *)
(*                                                                         *)
(* FreePagesKnown and GentleClientsSafe follow from one inductive          *)
(* invariant, MemoryInv.  Its parts:                                       *)
(*   - CountInv: the count of free pages, for every client;                *)
(*   - NoneInv: there is nothing before the pool is created;               *)
(*   - GentleInv: for a gentle client, the slabs are apart and their       *)
(*     chunks are taken in order (GentlePool), every block is a chunk or a *)
(*     block of malloc at a place of its own (Held), and the list of the   *)
(*     blocks of malloc ends (Chained).                                    *)
(* The first sections are about the operators that the model is made of:   *)
(* ROUND_UP, _alloc_slab, alloc_slab and the two halves of _alloc_mm.      *)
(***************************************************************************)
EXTENDS MemoryPool, FiniteSetTheorems, TLAPS

-----------------------------------------------------------------------------
(* Numbers *)

\* Products grow with their first factor.
LEMMA MulMono ==
  ASSUME NEW x \in Int, NEW y \in Int, NEW a \in Nat, x <= y
  PROVE  x * a <= y * a
OBVIOUS

\* What an integer division yields.
LEMMA DivFacts ==
  ASSUME NEW x \in Int, NEW y \in Nat, y > 0
  PROVE  x \div y \in Int /\ (x \div y) * y <= x /\ x < (x \div y) * y + y
OBVIOUS

\* The quotient is the number whose multiples enclose the dividend.
LEMMA DivIs ==
  ASSUME NEW x \in Int, NEW y \in Nat, y > 0, NEW q \in Int, q * y <= x, x < q * y + y
  PROVE  x \div y = q
<1> DEFINE d == x \div y
<1>1. d \in Int /\ d * y <= x /\ x < d * y + y
  BY DivFacts
<1>2. CASE q < d
  <2>1. (q + 1) * y <= d * y
    BY ONLY <1>1, <1>2, MulMono
  <2> QED BY <2>1, <1>1
<1>3. CASE d < q
  <2>1. (d + 1) * y <= q * y
    BY ONLY <1>1, <1>3, MulMono
  <2> QED BY <2>1, <1>1
<1> QED BY <1>1, <1>2, <1>3

\* Halves of a doubled divisor: two divisions after another are one.
LEMMA DivHalf ==
  ASSUME NEW x \in Int, NEW y \in Nat, y > 0
  PROVE  (x \div y) \div 2 = x \div (2 * y)
<1> DEFINE d == x \div y
           e == d \div 2
<1>1. d \in Int /\ d * y <= x /\ x < d * y + y
  BY DivFacts
<1>2. e \in Int /\ e * 2 <= d /\ d < e * 2 + 2
  BY <1>1
<1>3. (e * 2) * y <= d * y /\ (d + 1) * y <= (e * 2 + 2) * y
  BY ONLY <1>1, <1>2, MulMono
<1>4. e * (2 * y) <= x /\ x < e * (2 * y) + 2 * y
  BY <1>1, <1>2, <1>3
<1>5. 2 * y \in Nat /\ 2 * y > 0
  OBVIOUS
<1> QED BY ONLY <1>2, <1>4, <1>5, DivIs

\* Quotients grow with the dividend.
LEMMA DivMono ==
  ASSUME NEW x \in Int, NEW y \in Int, NEW a \in Nat, a > 0, x <= y
  PROVE  x \div a <= y \div a
<1> DEFINE d == x \div a
           e == y \div a
<1>1. d \in Int /\ d * a <= x /\ x < d * a + a /\ e \in Int /\ e * a <= y /\ y < e * a + a
  BY DivFacts
<1>2. CASE e < d
  <2>1. (e + 1) * a <= d * a
    BY ONLY <1>1, <1>2, MulMono
  <2> QED BY <2>1, <1>1
<1> QED BY <1>1, <1>2

\* A quotient of natural numbers is one.
LEMMA DivNat ==
  ASSUME NEW x \in Nat, NEW a \in Nat, a > 0
  PROVE  x \div a \in Nat
OBVIOUS

\* Every set of numbers has a least one.
LEMMA LeastNumber ==
  ASSUME NEW D, D \subseteq Nat, D # {}
  PROVE  \E n \in D : \A m \in D : n <= m
<1> DEFINE T == {0 .. d : d \in D}
<1>0. PICK N : N = Nat
  OBVIOUS
<1> DEFINE R == StrictSubsetOrdering(N)
<1>1. T \subseteq FiniteSubsetsOf(N) /\ T # {}
  <2>1. ASSUME NEW d \in D
        PROVE  0 .. d \in SUBSET Nat /\ IsFiniteSet(0 .. d)
    <3>1. 0 \in Int /\ d \in Int
      OBVIOUS
    <3>2. IsFiniteSet(0 .. d)
      BY ONLY <3>1, FS_Interval
    <3> QED BY <3>2
  <2> QED BY <2>1, <1>0 DEF FiniteSubsetsOf
<1>2. IsWellFoundedOn(R, FiniteSubsetsOf(N))
  BY ONLY FS_StrictSubsetOrderingWellFounded
<1>3. PICK X \in T : \A Y \in T : ~(<<Y, X>> \in R)
  <2> HIDE DEF T, R
  <2> QED BY ONLY <1>1, <1>2, WFMin
<1>4. PICK n \in D : X = 0 .. n
  BY <1>3
<1>5. ASSUME NEW m \in D, m < n
      PROVE  FALSE
  <2>1. m \in Nat /\ n \in Nat
    OBVIOUS
  <2>2. 0 .. m \subseteq 0 .. n /\ n \in 0 .. n /\ n \notin 0 .. m /\ 0 .. n \subseteq Nat
    BY <2>1, <1>5
  <2>3. <<0 .. m, 0 .. n>> \in R
    BY <2>2, <1>0 DEF StrictSubsetOrdering
  <2>4. 0 .. m \in T
    OBVIOUS
  <2> HIDE DEF R, T
  <2> QED BY <1>3, <1>4, <2>3, <2>4
<1>6. \A m \in D : m \in Nat /\ n \in Nat /\ ~(m < n)
  BY <1>5
<1>7. \A m \in D : n <= m
  BY <1>6
<1> QED BY <1>7

\* Also of integers, if they are bounded.
LEMMA MinIs ==
  ASSUME NEW S, S \subseteq Int, S # {}, NEW c \in Int, \A x \in S : c <= x
  PROVE  Min(S) \in S /\ \A x \in S : Min(S) <= x
<1> DEFINE D == {x - c : x \in S}
<1>0. \A x \in S : x \in Int /\ x - c \in Nat /\ x - c \in D
  OBVIOUS
<1>1. D \subseteq Nat /\ D # {}
  BY <1>0
<1>2. PICK n \in D : \A m \in D : n <= m
  <2> HIDE DEF D
  <2> QED BY <1>1, LeastNumber
<1>3. PICK x \in S : n = x - c
  BY <1>2
<1>4. \A y \in S : x <= y
  <2> SUFFICES ASSUME NEW y \in S PROVE x <= y
    OBVIOUS
  <2>1. x \in Int /\ y \in Int /\ y - c \in D
    BY <1>0
  <2>2. n <= y - c
    BY <2>1, <1>2
  <2> HIDE DEF D
  <2> QED BY <2>1, <2>2, <1>3
<1>5. \E z \in S : \A y \in S : z =< y
  BY <1>4
<1> QED BY <1>5 DEF Min

\* f is the result of applying g[1], g[2], .. to x.
Iterated(S, x, g, n, f) ==
  f \in [0 .. n -> S] /\ f[0] = x /\ \A i \in 1 .. n : f[i] = g[i][f[i - 1]]

\* A function that each of whose values is given by the one before exists.
LEMMA IterationExists ==
  ASSUME NEW S, NEW x \in S, NEW n \in Nat, NEW g \in [1 .. n -> [S -> S]]
  PROVE  \E f : Iterated(S, x, g, n, f)
<1> DEFINE D == {k \in 0 .. n : ~ \E f : Iterated(S, x, g, k, f)}
<1>1. D = {}
  <2> SUFFICES ASSUME D # {} PROVE FALSE
    OBVIOUS
  <2>1. D \subseteq Nat
    OBVIOUS
  <2>2. PICK k \in D : \A m \in D : k <= m
    <3> HIDE DEF D
    <3> QED BY <2>1, LeastNumber
  <2>3. k \in 0 .. n /\ ~ \E f : Iterated(S, x, g, k, f)
    BY <2>2
  <2>4. CASE k = 0
    <3>1. Iterated(S, x, g, 0, [i \in 0 .. 0 |-> x])
      BY DEF Iterated
    <3> QED BY <3>1, <2>3, <2>4
  <2>5. CASE k # 0
    <3>1. k - 1 \in 0 .. n /\ k - 1 \notin D
      BY <2>2, <2>3, <2>5
    <3>2. PICK f : Iterated(S, x, g, k - 1, f)
      BY <3>1
    <3> DEFINE h == [i \in 0 .. k |-> IF i = k THEN g[k][f[k - 1]] ELSE f[i]]
    <3>3. f \in [0 .. k - 1 -> S] /\ f[0] = x /\ \A i \in 1 .. k - 1 : f[i] = g[i][f[i - 1]]
      BY <3>2 DEF Iterated
    <3>4. g[k] \in [S -> S] /\ f[k - 1] \in S
      BY <2>3, <2>5, <3>3
    <3>5. h \in [0 .. k -> S] /\ h[0] = x
      BY <2>3, <2>5, <3>3, <3>4
    <3>6. ASSUME NEW i \in 1 .. k
          PROVE  h[i] = g[i][h[i - 1]]
      <4>1. h[i - 1] = f[i - 1]
        BY <2>3, <2>5
      <4> QED BY <4>1, <2>3, <2>5, <3>3
    <3>7. Iterated(S, x, g, k, h)
      BY <3>5, <3>6 DEF Iterated
    <3> QED BY <3>7, <2>3
  <2> QED BY <2>4, <2>5
<1> QED BY <1>1

-----------------------------------------------------------------------------
(* Rounding *)

\* The powers of two.
Two == [i \in 0 .. 19 |-> 2^i]

\* The powers of two that the constants of the code are.
LEMMA TwoValues ==
  /\ Two[0] = 1 /\ Two[1] = 2 /\ Two[2] = 4 /\ Two[3] = 8 /\ Two[4] = 16 /\ Two[5] = 32
  /\ Two[6] = 64 /\ Two[7] = 128 /\ Two[8] = 256 /\ Two[9] = 512 /\ Two[10] = 1024
  /\ Two[11] = 2048 /\ Two[12] = 4096 /\ Two[13] = 8192 /\ Two[14] = 16384 /\ Two[15] = 32768
  /\ Two[16] = 65536 /\ Two[17] = 131072 /\ Two[18] = 262144 /\ Two[19] = 524288
BY DEF Two

\* The least power.
LEMMA TwoNought == Two[0] = 1
BY TwoValues

\* Each power is twice the one before, and is what the exponentiation of the
\* model yields.
LEMMA TwoFacts ==
  ASSUME NEW i \in 0 .. 19
  PROVE  Two[i] \in Nat /\ Two[i] > 0 /\ Two[i] = 2^i /\ (i < 19 => Two[i + 1] = 2 * Two[i])
<1>1. Two[i] = 2^i
  BY DEF Two
<1>2. i \in {0, 1, 2, 3, 4, 5, 6, 7, 8, 9, 10, 11, 12, 13, 14, 15, 16, 17, 18, 19}
  OBVIOUS
<1>3. Two[i] \in Nat /\ Two[i] > 0 /\ (i < 19 => Two[i + 1] = 2 * Two[i])
  BY ONLY TwoValues, <1>2
<1> QED BY <1>1, <1>3

\* Powers of two grow.
LEMMA TwoMono ==
  ASSUME NEW i \in 0 .. 19, NEW j \in 0 .. 19, i <= j
  PROVE  Two[i] <= Two[j]
<1>1. /\ i \in {0, 1, 2, 3, 4, 5, 6, 7, 8, 9, 10, 11, 12, 13, 14, 15, 16, 17, 18, 19}
      /\ j \in {0, 1, 2, 3, 4, 5, 6, 7, 8, 9, 10, 11, 12, 13, 14, 15, 16, 17, 18, 19}
  OBVIOUS
<1> QED BY ONLY TwoValues, <1>1, i <= j

\* A bit, with the powers of the table.
LEMMA BitIs ==
  ASSUME NEW x \in Int, NEW i \in 0 .. 19
  PROVE  Bit(x, i) = (x \div Two[i]) % 2 /\ Bit(x, i) \in {0, 1}
<1>1. Two[i] \in Nat /\ Two[i] > 0 /\ Two[i] = 2^i
  BY TwoFacts
<1>2. x \div Two[i] \in Int
  BY <1>1, DivFacts
<1>3. Bit(x, i) = (x \div Two[i]) % 2
  BY <1>1 DEF Bit
<1>4. \A z \in Int : z % 2 \in {0, 1}
  OBVIOUS
<1> QED BY <1>2, <1>3, <1>4

\* The bits of x that m does not have, as a recursion.
Clears(x, m, u) ==
  /\ u \in [0 .. 19 -> Nat] /\ u[0] = 0
  /\ \A i \in 1 .. 19 : u[i] = 2 * u[i - 1] + Bit(x, 19 - i) * (1 - Bit(m, 19 - i))

\* The function in AndNot, bit by bit.
LEMMA AndNotClears ==
  ASSUME NEW x \in Int, NEW m \in Int
  PROVE  \E u : Clears(x, m, u) /\ AndNot(x, m) = u[19]
<1> DEFINE g == [i \in 1 .. 19 |-> [w \in Nat |-> 2 * w + Bit(x, 19 - i) * (1 - Bit(m, 19 - i))]]
           F(u) == u = [i \in 0 .. 19 |-> IF i = 0 THEN 0
                           ELSE 2 * u[i - 1] + Bit(x, 19 - i) * (1 - Bit(m, 19 - i))]
<1>1. \A i \in 1 .. 19 : Bit(x, 19 - i) * (1 - Bit(m, 19 - i)) \in {0, 1}
  <2> SUFFICES ASSUME NEW i \in 1 .. 19 PROVE Bit(x, 19 - i) * (1 - Bit(m, 19 - i)) \in {0, 1}
    OBVIOUS
  <2>1. 19 - i \in 0 .. 19
    OBVIOUS
  <2>2. Bit(x, 19 - i) \in {0, 1} /\ Bit(m, 19 - i) \in {0, 1}
    BY <2>1, BitIs
  <2> QED BY <2>2
<1>2. g \in [1 .. 19 -> [Nat -> Nat]]
  BY <1>1
<1>3. PICK v : Iterated(Nat, 0, g, 19, v)
  <2> HIDE DEF g
  <2> QED BY <1>2, IterationExists
<1>4. /\ v \in [0 .. 19 -> Nat] /\ v[0] = 0
      /\ \A i \in 1 .. 19 : v[i - 1] \in Nat /\ v[i] = g[i][v[i - 1]]
  BY <1>3 DEF Iterated
<1>5. \A i \in 1 .. 19 : v[i] = 2 * v[i - 1] + Bit(x, 19 - i) * (1 - Bit(m, 19 - i))
  BY <1>4
<1>6. F(v)
  BY <1>4, <1>5
<1> DEFINE a == CHOOSE u : F(u)
<1>7. AndNot(x, m) = a[19]
  BY DEF AndNot
<1>8. F(a)
  <2> HIDE DEF F
  <2> QED BY <1>6
<1>9. \A i \in 0 .. 19 : a[i] = v[i]
  <2> DEFINE D == {i \in 0 .. 19 : a[i] # v[i]}
  <2> HIDE DEF a
  <2>0. /\ a[0] = 0
        /\ \A i \in 1 .. 19 : a[i] = 2 * a[i - 1] + Bit(x, 19 - i) * (1 - Bit(m, 19 - i))
    BY <1>8
  <2> SUFFICES ASSUME D # {} PROVE FALSE
    OBVIOUS
  <2>1. D \subseteq Nat
    OBVIOUS
  <2>2. PICK k \in D : \A j \in D : k <= j
    <3> HIDE DEF D
    <3> QED BY <2>1, LeastNumber
  <2>3. k \in 1 .. 19 /\ k - 1 \in 0 .. 19 /\ k - 1 \notin D
    BY <2>0, <2>2, <1>4
  <2>4. a[k - 1] = v[k - 1]
    BY <2>3
  <2>5. a[k] = v[k]
    BY <2>0, <2>3, <2>4, <1>5
  <2> QED BY <2>5, <2>2
<1> HIDE DEF F, a, g
<1>10. AndNot(x, m) = v[19]
  BY <1>7, <1>9
<1>11. Clears(x, m, v)
  BY <1>4, <1>5 DEF Clears
<1> QED BY <1>10, <1>11

\* What is masked stays a natural number, whatever the mask.
LEMMA AndNotNat ==
  ASSUME NEW x \in Int, NEW m \in Int
  PROVE  AndNot(x, m) \in Nat
<1>1. PICK u : Clears(x, m, u) /\ AndNot(x, m) = u[19]
  BY AndNotClears
<1>2. u \in [0 .. 19 -> Nat]
  BY <1>1 DEF Clears
<1> QED BY <1>1, <1>2

\* ROUND_UP yields a natural number, also where it does not round.
LEMMA RoundUpNat ==
  ASSUME NEW v \in Int, NEW a \in Int
  PROVE  RoundUp(v, a) \in Nat
<1>1. v + a - 1 \in Int /\ a - 1 \in Int
  OBVIOUS
<1> QED BY <1>1, AndNotNat DEF RoundUp

\* The bits of 2^k - 1.
LEMMA OnesBits ==
  ASSUME NEW k \in 0 .. 18, NEW j \in 0 .. 19
  PROVE  Bit(Two[k] - 1, j) = IF j < k THEN 1 ELSE 0
<1> DEFINE m == Two[k] - 1
<1>0. m \in Nat /\ Two[k] \in Nat
  BY TwoFacts
<1>1. CASE j >= k
  <2>1. Two[k] <= Two[j] /\ Two[j] \in Nat /\ Two[j] > 0
    BY <1>1, TwoMono, TwoFacts
  <2>2. 0 * Two[j] <= m /\ m < 0 * Two[j] + Two[j] /\ m \in Int
    BY <2>1, <1>0
  <2>3. m \div Two[j] = 0
    BY ONLY <2>1, <2>2, DivIs
  <2>4. m \in Int
    BY <1>0
  <2> HIDE DEF m
  <2>5. Bit(m, j) = (m \div Two[j]) % 2
    BY <2>4, BitIs
  <2>6. Bit(m, j) = 0
    BY <2>3, <2>5
  <2> QED BY <2>6, <1>1 DEF m
<1>2. CASE j < k
  <2> DEFINE D == {i \in 0 .. k : m \div Two[i] # Two[k - i] - 1}
  <2>1. D = {}
    <3> SUFFICES ASSUME D # {} PROVE FALSE
      OBVIOUS
    <3>1. D \subseteq Nat
      OBVIOUS
    <3>2. PICK i \in D : \A l \in D : i <= l
      <4> HIDE DEF D
      <4> QED BY <3>1, LeastNumber
    <3>3. CASE i = 0
      BY <3>2, <3>3, <1>0, TwoValues
    <3>4. CASE i # 0
      <4>1. i - 1 \in 0 .. k /\ i - 1 \notin D
        BY <3>2, <3>4
      <4>2. m \div Two[i - 1] = Two[k - (i - 1)] - 1
        BY <4>1
      <4>3. i - 1 \in 0 .. 18 /\ k - i \in 0 .. 18 /\ (i - 1) + 1 = i /\ (k - i) + 1 = k - (i - 1)
        BY <3>2, <3>4
      <4>4. /\ Two[i - 1] \in Nat /\ Two[i - 1] > 0 /\ Two[i] = 2 * Two[i - 1]
            /\ Two[k - i] \in Nat /\ Two[k - i] > 0 /\ Two[k - (i - 1)] = 2 * Two[k - i]
        <5>0. /\ \A l \in 0 .. 18 : l \in 0 .. 19 /\ l < 19
              /\ \A l \in 0 .. 18 : Two[l] \in Nat /\ Two[l] > 0 /\ Two[l + 1] = 2 * Two[l]
          BY TwoFacts
        <5>1. /\ Two[i - 1] \in Nat /\ Two[i - 1] > 0 /\ Two[(i - 1) + 1] = 2 * Two[i - 1]
              /\ Two[k - i] \in Nat /\ Two[k - i] > 0 /\ Two[(k - i) + 1] = 2 * Two[k - i]
          BY ONLY <4>3, <5>0
        <5> QED BY ONLY <4>3, <5>1
      <4>5. m \in Int
        BY <1>0
      <4> HIDE DEF m, D
      <4>6. m \div Two[i] = (m \div Two[i - 1]) \div 2
        BY <4>4, <4>5, DivHalf
      <4>7. m \div Two[i] = Two[k - i] - 1
        BY ONLY <4>2, <4>4, <4>6
      <4> QED BY <4>7, <3>2 DEF D
    <3> QED BY <3>3, <3>4
  <2>2. j \in 0 .. k /\ m \div Two[j] = Two[k - j] - 1
    <3>0. j \in 0 .. k
      BY <1>2
    <3>1. j \in 0 .. k /\ j \notin D
      <4> HIDE DEF D
      <4> QED BY <3>0, <2>1
    <3>2. CASE m \div Two[j] # Two[k - j] - 1
      BY <3>1, <3>2
    <3> QED BY <3>1, <3>2
  <2>3. k - j - 1 \in 0 .. 18 /\ (k - j - 1) + 1 = k - j
    BY <1>2
  <2>4. Two[k - j - 1] \in Nat /\ Two[k - j] = 2 * Two[k - j - 1]
    <3>1. Two[k - j - 1] \in Nat /\ Two[(k - j - 1) + 1] = 2 * Two[k - j - 1]
      BY <2>3, TwoFacts
    <3> QED BY ONLY <3>1, <2>3
  <2>5. m \in Int
    BY <1>0
  <2> HIDE DEF m
  <2>6. Bit(m, j) = (m \div Two[j]) % 2
    BY <2>5, BitIs
  <2>7. (2 * Two[k - j - 1] - 1) % 2 = 1
    BY <2>4
  <2>8. Bit(m, j) = 1
    BY ONLY <2>2, <2>4, <2>6, <2>7
  <2> QED BY <2>8, <1>2 DEF m
<1> QED BY <1>1, <1>2

\* x & ~(2^k - 1) is x without what is over after a division by 2^k.
LEMMA AndNotPower ==
  ASSUME NEW k \in 0 .. 18, NEW x \in Nat, x < Two[19]
  PROVE  AndNot(x, Two[k] - 1) = (x \div Two[k]) * Two[k]
<1> DEFINE m == Two[k] - 1
           q == x \div Two[k]
<1>0. Two[k] \in Nat /\ Two[k] > 0 /\ x \in Int /\ x \in Nat /\ m \in Int /\ q \in Nat
  BY TwoFacts, DivNat
<1>1. PICK u : Clears(x, m, u) /\ AndNot(x, m) = u[19]
  <2> HIDE DEF m
  <2> QED BY <1>0, AndNotClears
<1>2. /\ u \in [0 .. 19 -> Nat] /\ u[0] = 0
      /\ \A i \in 1 .. 19 : u[i] = 2 * u[i - 1] + Bit(x, 19 - i) * (1 - Bit(m, 19 - i))
  BY <1>1 DEF Clears
<1> DEFINE W(i) == IF i <= 19 - k THEN x \div Two[19 - i] ELSE q * Two[i - (19 - k)]
           D == {i \in 0 .. 19 : u[i] # W(i)}
<1>3. D = {}
  <2> SUFFICES ASSUME D # {} PROVE FALSE
    OBVIOUS
  <2>1. D \subseteq Nat
    OBVIOUS
  <2>2. PICK i \in D : \A l \in D : i <= l
    <3> HIDE DEF D
    <3> QED BY <2>1, LeastNumber
  <2>3. i \in 0 .. 19 /\ u[i] # W(i)
    BY <2>2
  <2>4. CASE i = 0
    <3>1. 0 * Two[19] <= x /\ x < 0 * Two[19] + Two[19] /\ Two[19] \in Nat /\ Two[19] > 0
      <4>1. 19 \in 0 .. 19
        OBVIOUS
      <4>2. Two[19] \in Nat /\ Two[19] > 0
        BY <4>1, TwoFacts
      <4> QED BY <4>2
    <3>2. x \div Two[19] = 0
      <4>1. 0 \in Int
        OBVIOUS
      <4> QED BY ONLY <4>1, <3>1, <1>0, DivIs
    <3>3. W(0) = 0
      BY <3>2
    <3> QED BY <3>3, <2>3, <2>4, <1>2
  <2>5. CASE i # 0
    <3>1. i - 1 \in 0 .. 19 /\ i \in 1 .. 19
      BY <2>3, <2>5
    <3>2. u[i - 1] = W(i - 1)
      <4>1. i - 1 \notin D
        <5> HIDE DEF D
        <5> QED BY <2>2, <2>3, <3>1
      <4>2. CASE u[i - 1] # W(i - 1)
        BY <3>1, <4>1, <4>2
      <4> QED BY <4>2
    <3> DEFINE j == 19 - i
    <3>3. j \in 0 .. 18 /\ j + 1 = 19 - (i - 1) /\ j = 19 - i
      BY <3>1
    <3>4. Two[j] \in Nat /\ Two[j] > 0 /\ Two[j + 1] = 2 * Two[j]
      <4>1. j \in 0 .. 19 /\ j < 19
        BY <3>3
      <4> HIDE DEF j
      <4> QED BY <4>1, TwoFacts
    <3>5. u[i] = 2 * u[i - 1] + Bit(x, j) * (1 - Bit(m, j))
      BY <1>2, <3>1
    <3>6. Bit(m, j) = (IF j < k THEN 1 ELSE 0) /\ Bit(x, j) = (x \div Two[j]) % 2 /\ Bit(x, j) \in {0, 1}
      <4>1. j \in 0 .. 19
        BY <3>3
      <4> HIDE DEF j
      <4> QED BY <4>1, OnesBits, BitIs, <1>0
    <3>7. CASE i <= 19 - k
      <4>1. ~(j < k) /\ i - 1 <= 19 - k
        BY <3>7, <3>1
      <4>2. u[i - 1] = x \div Two[j + 1] /\ W(i) = x \div Two[j]
        BY <3>2, <3>3, <4>1, <3>7
      <4> HIDE DEF W, D, j, m, q
      <4>3. x \div Two[j + 1] = (x \div Two[j]) \div 2 /\ x \div Two[j] \in Nat
        BY <1>0, <3>4, DivHalf, DivNat
      <4> DEFINE z == x \div Two[j]
      <4>4. Bit(m, j) = 0 /\ Bit(x, j) = z % 2 /\ Bit(x, j) \in {0, 1}
        BY <3>6, <4>1
      <4>5. z \in Nat /\ u[i - 1] = z \div 2
        BY <4>2, <4>3
      <4> HIDE DEF z
      <4>6. u[i] = z
        BY <3>5, <4>4, <4>5
      <4>7. u[i] = x \div Two[j]
        BY <4>6 DEF z
      <4> QED BY <4>7, <4>2, <2>3
    <3>8. CASE ~(i <= 19 - k)
      <4>1. j < k
        BY <3>8, <3>1
      <4>2. u[i] = 2 * u[i - 1]
        <5>1. Bit(m, j) = 1
          BY <3>6, <4>1
        <5>2. u[i - 1] \in Nat
          BY <1>2, <3>1
        <5> QED BY <5>1, <5>2, <3>5, <3>6
      <4>3. W(i) = q * Two[i - (19 - k)]
        BY <3>8
      <4>4. u[i - 1] = q * Two[(i - 1) - (19 - k)]
        <5>1. CASE i - 1 <= 19 - k
          <6>1. 19 - (i - 1) = k /\ (i - 1) - (19 - k) = 0
            BY <5>1, <3>8, <3>1
          <6>2. W(i - 1) = x \div Two[k]
            BY <5>1, <6>1
          <6> QED BY <3>2, <6>1, <6>2, <1>0, TwoNought
        <5>2. CASE ~(i - 1 <= 19 - k)
          BY <5>2, <3>2
        <5> QED BY <5>1, <5>2
      <4> DEFINE l == (i - 1) - (19 - k)
      <4>5. l \in 0 .. 18 /\ l + 1 = i - (19 - k)
        BY <3>8, <3>1
      <4>6. Two[l] \in Nat /\ Two[l + 1] = 2 * Two[l]
        <5>1. l \in 0 .. 19 /\ l < 19
          BY <4>5
        <5> HIDE DEF l
        <5> QED BY <5>1, TwoFacts
      <4>7. u[i - 1] = q * Two[l] /\ W(i) = q * Two[l + 1]
        BY <4>3, <4>4, <4>5
      <4> HIDE DEF W, D, j, m, q, l
      <4>8. u[i] = W(i)
        BY <4>2, <4>6, <4>7, <1>0
      <4> QED BY <4>8, <2>3
    <3> QED BY <3>7, <3>8
  <2> QED BY <2>4, <2>5
<1>4. u[19] = W(19)
  <2>1. 19 \in 0 .. 19 /\ 19 \notin D
    <3> HIDE DEF D
    <3> QED BY <1>3
  <2>2. CASE u[19] # W(19)
    BY <2>1, <2>2
  <2> QED BY <2>2
<1>5. W(19) = q * Two[k]
  <2>1. 19 - (19 - k) = k
    OBVIOUS
  <2>2. CASE 19 <= 19 - k
    <3>1. k = 0 /\ 19 - 19 = k
      BY <2>2
    <3>2. W(19) = q
      BY <2>2, <3>1
    <3> QED BY <3>1, <3>2, TwoNought, <1>0
  <2>3. CASE ~(19 <= 19 - k)
    BY <2>1, <2>3
  <2> QED BY <2>2, <2>3
<1> HIDE DEF W, D
<1> QED BY <1>1, <1>4, <1>5

\* ROUND_UP to a power of two: the next multiple.
THEOREM RoundUpPower ==
  ASSUME NEW a, PowerOfTwo(a), NEW v \in Nat, v + a <= Two[19]
  PROVE  /\ a \in Nat /\ a > 0
         /\ \E q \in Nat : RoundUp(v, a) = q * a
         /\ v <= RoundUp(v, a) /\ RoundUp(v, a) < v + a
<1>1. PICK k \in 0 .. 18 : a = 2^k
  BY DEF PowerOfTwo
<1>2. a = Two[k] /\ a \in Nat /\ a > 0
  <2>1. k \in 0 .. 19
    OBVIOUS
  <2> QED BY ONLY <2>1, <1>1, TwoFacts
<1> DEFINE x == v + a - 1
           q == x \div a
<1>3. x \in Nat /\ x \in Int /\ x < Two[19]
  <2>1. 19 \in 0 .. 19
    OBVIOUS
  <2>2. Two[19] \in Nat
    BY <2>1, TwoFacts
  <2> QED BY <2>2, <1>2
<1>4. RoundUp(v, a) = q * a
  <2>1. AndNot(x, Two[k] - 1) = (x \div Two[k]) * Two[k]
    <3> HIDE DEF x
    <3> QED BY <1>3, AndNotPower
  <2> QED BY <2>1, <1>2 DEF RoundUp
<1>5. q \in Nat /\ q * a <= x /\ x < q * a + a
  <2> HIDE DEF x
  <2> QED BY <1>2, <1>3, DivFacts, DivNat
<1>6. q * a \in Nat
  BY <1>5, <1>2
<1>7. v <= q * a /\ q * a < v + a
  BY <1>2, <1>5, <1>6
<1> HIDE DEF q, x
<1> QED BY <1>2, <1>4, <1>5, <1>7

-----------------------------------------------------------------------------
(* Pages *)

\* The fields of struct slab_s and of struct mm_pool_s.
SlabFields == {"pages", "chunk_size", "cnt", "free", "index", "map", "listed"}
PoolFields == {"pages", "page_size", "min_slab", "max_slab", "free", "map", "used", "slabs",
               "heads", "ex"}

\* What create_mm_pool sets and nothing changes.
Fixed(p) ==
  /\ p.pages \in Nat /\ p.page_size \in Nat /\ p.page_size >= PAGE_SIZE
  /\ p.min_slab \in Nat /\ p.min_slab >= MIN_CHUNK /\ p.max_slab \in Nat

\* The types of a pool, as far as the pages are concerned.
Sized(p) ==
  /\ DOMAIN p = PoolFields /\ Fixed(p)
  /\ p.free \in Int /\ p.map \subseteq 0 .. p.pages - 1
  /\ \A h \in DOMAIN p.heads :
       /\ h \in Int /\ DOMAIN p.heads[h] = SlabFields
       /\ p.heads[h].pages \in Nat /\ p.heads[h].listed \in BOOLEAN
  /\ p.used \in DOMAIN p.heads \cup {None}

\* The pages of the slab h that are behind the pool.
Over(p, h) == p.heads[h].pages - Cardinality(Pages(p, h, p.heads[h].pages))

\* No page in a slab is counted as free, and to give back the slab that can be
\* given back will not change that.
Counted(p) ==
  /\ p.free <= p.pages - Cardinality(p.map)
  /\ p.used # None /\ p.heads[p.used].listed =>
       p.free + Over(p, p.used) <= p.pages - Cardinality(p.map)

\* The pages of a slab that are in the pool, and their number.
LEMMA PagesFacts ==
  ASSUME NEW p, p.pages \in Nat, NEW start \in Int, NEW n \in Nat
  PROVE  /\ Pages(p, start, n) \subseteq 0 .. p.pages - 1 /\ IsFiniteSet(Pages(p, start, n))
         /\ Cardinality(Pages(p, start, n)) \in 0 .. n
<1> DEFINE A == start .. start + n - 1
           B == 0 .. p.pages - 1
<1>1. start + n - 1 \in Int /\ start \in Int
  OBVIOUS
<1>2. IsFiniteSet(A) /\ Cardinality(A) = IF start > start + n - 1 THEN 0 ELSE (start + n - 1) - start + 1
  BY ONLY <1>1, FS_Interval
<1>3. Cardinality(A) = n
  BY <1>2
<1>4. Pages(p, start, n) = A \cap B
  BY DEF Pages
<1> HIDE DEF A, B
<1>5. IsFiniteSet(A \cap B) /\ Cardinality(A \cap B) <= Cardinality(A) /\ Cardinality(A \cap B) \in Nat
  BY <1>2, FS_Intersection, FS_CardinalityType
<1> QED BY <1>3, <1>4, <1>5 DEF B

\* A set of pages of the pool is finite, and no larger than the pool.
LEMMA MapFacts ==
  ASSUME NEW p, p.pages \in Nat, NEW S, S \subseteq 0 .. p.pages - 1
  PROVE  IsFiniteSet(S) /\ Cardinality(S) \in 0 .. p.pages
<1> DEFINE B == 0 .. p.pages - 1
<1>1. 0 \in Int /\ p.pages - 1 \in Int
  OBVIOUS
<1>2. IsFiniteSet(B) /\ Cardinality(B) = IF 0 > p.pages - 1 THEN 0 ELSE (p.pages - 1) - 0 + 1
  BY ONLY <1>1, FS_Interval
<1>3. Cardinality(B) = p.pages
  BY <1>2
<1>4. S \in SUBSET B
  OBVIOUS
<1> HIDE DEF B
<1>5. IsFiniteSet(S) /\ Cardinality(S) <= Cardinality(B) /\ Cardinality(S) \in Nat
  BY <1>2, <1>4, FS_Subset, FS_CardinalityType
<1> QED BY <1>3, <1>5

\* What _alloc_slab does to a pool when it finds n pages that end at start.
Grabbed(p, n, start, q) ==
  /\ DOMAIN q = PoolFields
  /\ q.pages = p.pages /\ q.page_size = p.page_size /\ q.min_slab = p.min_slab
  /\ q.max_slab = p.max_slab /\ q.slabs = p.slabs /\ q.ex = p.ex
  /\ q.map = p.map \cup Pages(p, start, n) /\ q.free = p.free - n /\ q.used = start
  /\ DOMAIN q.heads = (DOMAIN p.heads \ (start .. start + n - 1)) \cup {start}
  /\ q.heads[start] = NewSlab(n)
  /\ \A h \in DOMAIN q.heads \ {start} : q.heads[h] = p.heads[h]

\* The first n free pages in a row end at start.
FirstFit(p, n, start) ==
  /\ start \in n - 1 .. p.pages - 1 /\ (start - n + 1 .. start) \cap p.map = {}
  /\ \A i \in n - 1 .. p.pages - 1 : (i - n + 1 .. i) \cap p.map = {} => start <= i

\* _alloc_slab either changes nothing, or it grabs the pages at the first fit.
LEMMA AllocSlabFacts ==
  ASSUME NEW p, Sized(p), NEW n \in Nat
  PROVE  LET r == AllocSlab(p, n)
         IN  \/ r.at = None /\ r.pool = p
             \/ /\ n <= p.free /\ r.at \in Int
                /\ FirstFit(p, n, r.at) /\ Grabbed(p, n, r.at, r.pool)
<1> DEFINE ends == {i \in n - 1 .. p.pages - 1 : (i - n + 1 .. i) \cap p.map = {}}
           start == Min(ends)
           r == AllocSlab(p, n)
<1>0. p.pages \in Nat /\ p.free \in Int /\ DOMAIN p = PoolFields
  BY DEF Sized, Fixed
<1>1. CASE n > p.free \/ ends = {}
  BY <1>1 DEF AllocSlab
<1>2. CASE ~(n > p.free \/ ends = {})
  <2>1. start \in ends /\ \A i \in ends : start <= i
    <3>1. ends \subseteq Int /\ ends # {} /\ n - 1 \in Int /\ \A i \in ends : n - 1 <= i
      BY <1>0, <1>2
    <3> HIDE DEF ends
    <3> QED BY ONLY <3>1, MinIs
  <2>2. FirstFit(p, n, start) /\ start \in Int
    <3> HIDE DEF start
    <3> QED BY <2>1, <1>0 DEF FirstFit
  <2>3. r = [at |-> start,
            pool |-> [p EXCEPT
              !.map = Marked(p, start, n),
              !.free = FreeLess(p, start, n),
              !.used = start,
              !.heads = [q \in (DOMAIN @ \ (start .. start + n - 1)) \cup {start} |->
                           IF q = start THEN NewSlab(n) ELSE @[q]]]]
    BY <1>2 DEF AllocSlab
  <2> HIDE DEF start, ends, r
  <2>4. Grabbed(p, n, start, r.pool) /\ r.at = start
    BY <2>3, <1>0 DEF Grabbed, PoolFields, Marked, FreeLess
  <2> QED BY <2>2, <2>4, <1>0, <1>2 DEF r
<1> QED BY <1>1, <1>2

\* What is assigned to the head of a new slab.
LEMMA NewSlabFields ==
  ASSUME NEW n \in Nat
  PROVE  /\ DOMAIN NewSlab(n) = SlabFields /\ NewSlab(n).pages = n /\ NewSlab(n).listed = TRUE
         /\ NewSlab(n).chunk_size = 0 /\ NewSlab(n).cnt = 0 /\ NewSlab(n).free = 0
         /\ NewSlab(n).index = 0 /\ NewSlab(n).map = {}
BY DEF NewSlab, SlabFields

\* To grab pages keeps the types.
LEMMA GrabbedSized ==
  ASSUME NEW p, Sized(p), NEW n \in Nat, NEW start \in Int, NEW q, Grabbed(p, n, start, q)
  PROVE  Sized(q)
<1>1. Fixed(q) /\ DOMAIN q = PoolFields /\ q.free \in Int
  BY DEF Sized, Grabbed, Fixed
<1>2. q.map \subseteq 0 .. q.pages - 1
  BY PagesFacts DEF Sized, Grabbed, Fixed
<1>3. ASSUME NEW h \in DOMAIN q.heads
      PROVE  /\ h \in Int /\ DOMAIN q.heads[h] = SlabFields
             /\ q.heads[h].pages \in Nat /\ q.heads[h].listed \in BOOLEAN
  <2>1. CASE h = start
    BY <2>1, NewSlabFields DEF Grabbed
  <2>2. CASE h # start
    BY <2>2 DEF Grabbed, Sized
  <2> QED BY <2>1, <2>2
<1>4. q.used \in DOMAIN q.heads
  BY DEF Grabbed
<1> QED BY <1>1, <1>2, <1>3, <1>4 DEF Sized

\* To grab pages keeps the count, the pages behind the pool included.
LEMMA GrabbedCounted ==
  ASSUME NEW p, Sized(p), Counted(p), NEW n \in Nat, NEW start \in Int,
         NEW q, Grabbed(p, n, start, q)
  PROVE  Counted(q)
<1> DEFINE A == Pages(p, start, n)
<1>1. p.pages \in Nat /\ p.free \in Int /\ p.map \subseteq 0 .. p.pages - 1
  BY DEF Sized, Fixed
<1>2. IsFiniteSet(p.map) /\ Cardinality(p.map) \in Nat
  BY <1>1, MapFacts
<1>3. IsFiniteSet(A) /\ Cardinality(A) \in 0 .. n
  BY <1>1, PagesFacts
<1>4. Cardinality(q.map) \in Nat /\ Cardinality(q.map) <= Cardinality(p.map) + Cardinality(A)
  <2>1. q.map = p.map \cup A
    BY DEF Grabbed
  <2> HIDE DEF A
  <2>2. /\ IsFiniteSet(p.map \cup A) /\ IsFiniteSet(p.map \cap A)
        /\ Cardinality(p.map \cup A) = Cardinality(p.map) + Cardinality(A) - Cardinality(p.map \cap A)
    BY <1>2, <1>3, FS_Union, FS_Intersection
  <2>3. Cardinality(p.map \cup A) \in Nat /\ Cardinality(p.map \cap A) \in Nat
    BY <2>2, FS_CardinalityType
  <2> QED BY <2>1, <2>2, <2>3, <1>2, <1>3
<1>5. q.free = p.free - n /\ q.pages = p.pages /\ q.used = start
  BY DEF Grabbed
<1>6. Over(q, q.used) = n - Cardinality(A)
  <2>1. q.heads[start].pages = n
    BY NewSlabFields DEF Grabbed
  <2>2. Pages(q, start, n) = A
    BY <1>5 DEF Pages
  <2> QED BY <1>5, <2>1, <2>2 DEF Over
<1>7. p.free <= p.pages - Cardinality(p.map)
  BY DEF Counted
<1> HIDE DEF A
<1>8. /\ q.free <= q.pages - Cardinality(q.map)
      /\ q.free + Over(q, q.used) <= q.pages - Cardinality(q.map)
  BY <1>1, <1>2, <1>3, <1>4, <1>5, <1>6, <1>7
<1> QED BY <1>8 DEF Counted

\* _alloc_slab keeps the count.
LEMMA AllocSlabCounted ==
  ASSUME NEW p, Sized(p), Counted(p), NEW n \in Nat
  PROVE  Sized(AllocSlab(p, n).pool) /\ Counted(AllocSlab(p, n).pool)
BY AllocSlabFacts, GrabbedSized, GrabbedCounted

-----------------------------------------------------------------------------
(* No call changes more of the pages than _alloc_slab and the freeing of a slab *)

\* The pools p and q differ only in what their chunks are, in the slabs to
\* take chunks from, and in the list of blocks of malloc.
Alike(p, q) ==
  /\ DOMAIN q = PoolFields
  /\ q.pages = p.pages /\ q.page_size = p.page_size /\ q.min_slab = p.min_slab
  /\ q.max_slab = p.max_slab /\ q.map = p.map /\ q.free = p.free /\ q.used = p.used
  /\ DOMAIN q.heads = DOMAIN p.heads
  /\ \A h \in DOMAIN p.heads :
       /\ DOMAIN q.heads[h] = DOMAIN p.heads[h]
       /\ q.heads[h].pages = p.heads[h].pages /\ q.heads[h].listed = p.heads[h].listed

\* What differs in its chunks only has the same types.
LEMMA AlikeSized ==
  ASSUME NEW p, Sized(p), NEW q, Alike(p, q)
  PROVE  Sized(q)
<1>1. Fixed(q) /\ q.free \in Int /\ q.map \subseteq 0 .. q.pages - 1
  BY DEF Sized, Fixed, Alike
<1>2. ASSUME NEW h \in DOMAIN q.heads
      PROVE  /\ h \in Int /\ DOMAIN q.heads[h] = SlabFields
             /\ q.heads[h].pages \in Nat /\ q.heads[h].listed \in BOOLEAN
  BY DEF Sized, Alike
<1>3. q.used \in DOMAIN q.heads \cup {None}
  BY DEF Sized, Alike
<1> QED BY <1>1, <1>2, <1>3 DEF Sized, Alike

\* Pools that are alike are alike in the number of their free pages.
LEMMA AlikeCounted ==
  ASSUME NEW p, Sized(p), Counted(p), NEW q, Alike(p, q)
  PROVE  Sized(q) /\ Counted(q)
<1>3. q.used \in DOMAIN q.heads \cup {None}
  BY DEF Sized, Alike
<1>4. Sized(q)
  BY AlikeSized
<1>5. ASSUME q.used # None
      PROVE  Over(q, q.used) = Over(p, p.used) /\ q.heads[q.used].listed = p.heads[p.used].listed
  <2>1. q.used = p.used /\ p.used \in DOMAIN p.heads
    BY <1>5, <1>3 DEF Alike
  <2> QED BY <2>1 DEF Alike, Over, Pages
<1>6. Counted(q)
  BY <1>5 DEF Alike, Counted
<1> QED BY <1>4, <1>6

\* What alloc_slab, _alloc_mm and alloc return or lose is a pool that counts right.
LEMMA SlabForCounted ==
  ASSUME NEW p, Sized(p), Counted(p), NEW size \in Int
  PROVE  LET s == SlabFor(p, size)
         IN  /\ Sized(s.pool) /\ Counted(s.pool)
             /\ s.pool.slabs = p.slabs /\ s.pool.ex = p.ex
             /\ s.at # None => s.at \in DOMAIN s.pool.heads
<1> DEFINE need == RoundUp(size, p.page_size) \div p.page_size
           Good(s) == /\ Sized(s.pool) /\ Counted(s.pool)
                      /\ s.pool.slabs = p.slabs /\ s.pool.ex = p.ex
                      /\ s.at # None => s.at \in DOMAIN s.pool.heads
           Twice(n) == IF p.free >= 2 * n THEN AllocSlab(p, 2 * n) ELSE [at |-> None, pool |-> p]
<1>1. ASSUME NEW n \in Nat
      PROVE  Good(AllocSlab(p, n))
  <2>1. Sized(AllocSlab(p, n).pool) /\ Counted(AllocSlab(p, n).pool)
    BY AllocSlabCounted
  <2>2. \/ AllocSlab(p, n).at = None /\ AllocSlab(p, n).pool = p
        \/ Grabbed(p, n, AllocSlab(p, n).at, AllocSlab(p, n).pool)
    BY AllocSlabFacts
  <2> QED BY <2>1, <2>2 DEF Grabbed
<1>2. need \in Nat
  <2>1. p.page_size \in Nat /\ p.page_size \in Int /\ size \in Int /\ p.page_size > 0
    BY DEF Sized, Fixed, PAGE_SIZE
  <2>2. RoundUp(size, p.page_size) \in Nat
    BY ONLY <2>1, RoundUpNat
  <2> QED BY <2>1, <2>2, DivNat
<1>3. Good([at |-> None, pool |-> p])
  OBVIOUS
<1> HIDE DEF Good
<1>4. ASSUME NEW n \in Nat
      PROVE  Good(Twice(n))
  <2>1. 2 * n \in Nat
    OBVIOUS
  <2> QED BY <2>1, <1>1, <1>3
<1>5. Good(Twice(1)) /\ Good(AllocSlab(p, 1)) /\ Good(Twice(need)) /\ Good(AllocSlab(p, need))
  BY <1>1, <1>2, <1>4
<1>6. Good([at |-> None, pool |-> AllocSlab(p, need).pool])
  BY <1>5 DEF Good
<1> HIDE DEF Twice, need
<1>7. \/ SlabFor(p, size) \in {AllocSlab(p, 1), Twice(1), Twice(need)}
      \/ SlabFor(p, size) = [at |-> None, pool |-> AllocSlab(p, need).pool]
  BY DEF SlabFor, Twice, need
<1>8. Good(SlabFor(p, size))
  BY <1>5, <1>6, <1>7
<1> QED BY <1>8 DEF Good

\* The first half of _alloc_mm keeps the count.
LEMMA ReadyCounted ==
  ASSUME NEW p, Sized(p), Counted(p), NEW size \in Int
  PROVE  LET r == Ready(p, size)
         IN  Sized(r.pool) /\ Counted(r.pool)
<1> DEFINE s == SlabFor(p, size)
           cnt == ((p.page_size * s.pool.heads[s.at].pages) \div size) \div CHAR_BIT
           q == [s.pool EXCEPT !.slabs[Slot(p, size)] = s.at,
                               !.heads[s.at].chunk_size = size,
                               !.heads[s.at].cnt = cnt,
                               !.heads[s.at].free = cnt]
           r == Ready(p, size)
<1>1. Sized(s.pool) /\ Counted(s.pool)
  BY SlabForCounted
<1>2. r.pool \in {p, s.pool, q}
  BY DEF Ready
<1> HIDE DEF s, cnt
<1>3. Alike(s.pool, q)
  BY <1>1 DEF Alike, Sized, PoolFields, SlabFields
<1> HIDE DEF q, r
<1>4. Sized(q) /\ Counted(q)
  BY <1>1, <1>3, AlikeCounted
<1> QED BY <1>1, <1>2, <1>4 DEF r

\* The second half of _alloc_mm keeps the count.
LEMMA TakeCounted ==
  ASSUME NEW p, Sized(p), Counted(p), NEW h
  PROVE  Sized(Take(p, h).pool) /\ Counted(Take(p, h).pool)
<1> DEFINE q == Take(p, h).pool
           s == p.heads[h]
           inOrder == s.index < s.cnt \/ s.index \notin s.map
           i == IF inOrder THEN s.index ELSE Min((0 .. s.cnt - 1) \ s.map)
           index == IF inOrder THEN i + 1 ELSE s.cnt
<1>0. q = [p EXCEPT !.heads[h].map = @ \cup {i}, !.heads[h].index = index,
                    !.heads[h].free = (@ - 1) % 2^16]
  BY DEF Take
<1> HIDE DEF i, index, q
<1>1. Alike(p, q)
  BY <1>0 DEF Alike, Sized, PoolFields, SlabFields
<1> HIDE DEF q
<1>2. Sized(q) /\ Counted(q)
  BY <1>1, AlikeCounted
<1> QED BY <1>2 DEF q

\* Giving back the slab at the head of the list.
LEMMA EmptiedCounted ==
  ASSUME NEW p, Sized(p), Counted(p), p.used # None, p.heads[p.used].listed
  PROVE  Sized(Emptied(p, p.used)) /\ Counted(Emptied(p, p.used))
<1> DEFINE h == p.used
           n == p.heads[h].pages
           A == Pages(p, h, n)
           left == n - Cardinality(A)
           q == Emptied(p, h)
<1>0. /\ p.pages \in Nat /\ p.free \in Int /\ p.map \subseteq 0 .. p.pages - 1
      /\ h \in DOMAIN p.heads /\ h \in Int /\ n \in Nat /\ DOMAIN p = PoolFields
      /\ DOMAIN p.heads[h] = SlabFields
  BY DEF Sized, Fixed
<1>1. IsFiniteSet(A) /\ Cardinality(A) \in 0 .. n
  BY <1>0, PagesFacts
<1>2. left \in Nat
  BY <1>0, <1>1
<1>3. Over(p, p.used) = left
  BY DEF Over
<1>4. p.free + left <= p.pages - Cardinality(p.map)
  BY <1>3 DEF Counted
<1>5. /\ DOMAIN q = PoolFields
      /\ q.pages = p.pages /\ q.page_size = p.page_size /\ q.min_slab = p.min_slab
      /\ q.max_slab = p.max_slab /\ q.used = p.used
      /\ q.map = p.map \ A /\ q.free = p.free + left
      /\ DOMAIN q.heads = DOMAIN p.heads
      /\ \A g \in DOMAIN p.heads \ {h} : q.heads[g] = p.heads[g]
      /\ DOMAIN q.heads[h] = SlabFields /\ q.heads[h].pages = left /\ q.heads[h].listed = FALSE
  <2> HIDE DEF left, A
  <2>1. q = [p EXCEPT !.map = @ \ A, !.free = @ + left,
                      !.heads[h].listed = FALSE, !.heads[h].pages = left]
    BY DEF Emptied, left, A
  <2> HIDE DEF q
  <2> QED BY <2>1, <1>0 DEF PoolFields, SlabFields
<1> HIDE DEF q, left, A
<1>6. Cardinality(q.map) \in Nat /\ Cardinality(q.map) <= Cardinality(p.map) /\ Cardinality(p.map) \in Nat
  <2>1. IsFiniteSet(p.map) /\ Cardinality(p.map) \in Nat /\ Cardinality(q.map) \in Nat
    BY <1>0, <1>5, MapFacts
  <2>2. q.map \in SUBSET p.map
    BY <1>5
  <2>3. Cardinality(q.map) <= Cardinality(p.map)
    BY ONLY <2>1, <2>2, FS_Subset
  <2> QED BY <2>1, <2>3
<1>7. Sized(q)
  <2>1. Fixed(q)
    BY <1>5 DEF Sized, Fixed
  <2>2. q.free \in Int /\ q.map \subseteq 0 .. q.pages - 1
    BY <1>0, <1>2, <1>5
  <2>3. ASSUME NEW g \in DOMAIN q.heads
        PROVE  /\ g \in Int /\ DOMAIN q.heads[g] = SlabFields
               /\ q.heads[g].pages \in Nat /\ q.heads[g].listed \in BOOLEAN
    <3>1. CASE g = h
      BY <3>1, <1>0, <1>2, <1>5
    <3>2. CASE g # h
      BY <3>2, <1>5 DEF Sized
    <3> QED BY <3>1, <3>2
  <2>4. q.used \in DOMAIN q.heads \cup {None}
    BY <1>0, <1>5
  <2> QED BY <2>1, <2>2, <2>3, <2>4, <1>5 DEF Sized
<1>8. Counted(q)
  <2>1. q.free <= q.pages - Cardinality(q.map)
    BY <1>0, <1>2, <1>4, <1>5, <1>6
  <2>2. ~q.heads[q.used].listed
    BY <1>5
  <2> QED BY <2>1, <2>2 DEF Counted
<1> QED BY <1>7, <1>8 DEF q

\* The client and the pool that is created for it.
CountInv == client \in Clients /\ (status = "live" => Sized(pool) /\ Counted(pool))

\* The sizes that a client passes.
LEMMA ClientFacts ==
  ASSUME client \in Clients
  PROVE  /\ client.min \in 0 .. 2^17 /\ client.max \in 0 .. 2^17 /\ client.size \in 0 .. 2^18
         /\ \A req \in client.asks : req \in 0 .. 2^18
         /\ client.most \in Nat /\ client.frees \in Nat
BY MemoryPoolAssumption, Zenon

\* The bounds on those sizes.
LEMMA Literals == 2^17 = 131072 /\ 2^18 = 262144
OBVIOUS

\* A new pool counts all its pages as free, and none is in a slab.
LEMMA CreateCounted ==
  ASSUME client \in Clients, Create
  PROVE  Sized(pool') /\ Counted(pool')
<1> DEFINE a == client
           min == RoundUp(AtLeast(a.min, MIN_CHUNK), MIN_CHUNK)
           max == RoundUp(a.max, min)
           page_size == AtLeast(min, PAGE_SIZE)
           pages == RoundUp(a.size, AtLeast(max, MAX_CHUNK)) \div page_size
<1>1. min \in Nat /\ min >= MIN_CHUNK
  <2> DEFINE x == AtLeast(a.min, MIN_CHUNK)
  <2>1. x \in Nat /\ x >= 8 /\ x <= 131072
    BY ClientFacts, Literals DEF AtLeast, MIN_CHUNK
  <2>2. PowerOfTwo(MIN_CHUNK)
    <3>1. 3 \in 0 .. 18 /\ 8 = 2^3
      OBVIOUS
    <3> QED BY ONLY <3>1 DEF PowerOfTwo, MIN_CHUNK
  <2>3. x + MIN_CHUNK <= Two[19]
    <3>1. Two[19] = 524288
      BY TwoValues
    <3> HIDE DEF x
    <3> QED BY ONLY <3>1, <2>1 DEF MIN_CHUNK
  <2> HIDE DEF x
  <2>4. x <= RoundUp(x, MIN_CHUNK)
    BY <2>1, <2>2, <2>3, RoundUpPower
  <2>5. RoundUp(x, MIN_CHUNK) \in Nat
    BY <2>1, RoundUpNat DEF MIN_CHUNK
  <2> QED BY <2>1, <2>4, <2>5 DEF MIN_CHUNK, x
<1> HIDE DEF min
<1>2. max \in Nat
  <2>1. client.max \in Int /\ min \in Int
    BY <1>1, ClientFacts, Literals
  <2> QED BY ONLY <2>1, RoundUpNat
<1> HIDE DEF max
<1>3. page_size \in Nat /\ page_size >= PAGE_SIZE
  BY <1>1 DEF AtLeast, PAGE_SIZE
<1> HIDE DEF page_size
<1>4. pages \in Nat
  <2>1. AtLeast(max, MAX_CHUNK) \in Int /\ client.size \in Int
    BY <1>2, ClientFacts, Literals DEF AtLeast, MAX_CHUNK
  <2>2. RoundUp(a.size, AtLeast(max, MAX_CHUNK)) \in Nat
    BY <2>1, RoundUpNat
  <2> QED BY <2>2, <1>3, DivNat DEF PAGE_SIZE
<1>5. pool' = [pages |-> pages, page_size |-> page_size, min_slab |-> min,
               max_slab |-> max, free |-> pages, map |-> {}, used |-> None,
               slabs |-> [i \in 0 .. max \div min - 1 |-> None],
               heads |-> [p \in {} |-> {}], ex |-> None]
  BY DEF Create, min, max, page_size
<1> HIDE DEF pages
<1>6. /\ DOMAIN pool' = PoolFields
      /\ pool'.pages = pages /\ pool'.page_size = page_size /\ pool'.min_slab = min
      /\ pool'.max_slab = max /\ pool'.free = pages /\ pool'.map = {} /\ pool'.used = None
      /\ DOMAIN pool'.heads = {}
  BY <1>5 DEF PoolFields
<1>7. Fixed(pool')
  BY <1>1, <1>2, <1>3, <1>4, <1>6 DEF Fixed
<1>8. Sized(pool')
  BY <1>4, <1>6, <1>7 DEF Sized
<1>9. Cardinality({}) = 0
  BY FS_EmptySet
<1> QED BY <1>4, <1>6, <1>8, <1>9 DEF Counted

\* There is no pool at first.
LEMMA CountInvInit == Init => CountInv
BY DEF Init, CountInv

\* No call of any client, the ones that are not gentle included, breaks the
\* count.
LEMMA CountInvNext ==
  ASSUME CountInv, [Next]_vars
  PROVE  CountInv'
<1>1. CASE Create
  BY <1>1, CreateCounted DEF CountInv, Create
<1>2. CASE Destroy
  BY <1>2 DEF CountInv, Destroy
<1>3. ASSUME NEW req \in client.asks, status = "live"
      PROVE  LET size == Rounded(req)
                 r == Ready(pool, size)
                 t == Take(r.pool, r.at)
             IN  Sized(r.pool) /\ Counted(r.pool) /\ Sized(t.pool) /\ Counted(t.pool)
  <2>1. Sized(pool) /\ Counted(pool)
    BY <1>3 DEF CountInv
  <2>2. Rounded(req) \in Int
    <3>1. req \in Int
      BY ClientFacts, Literals DEF CountInv
    <3>2. pool.min_slab \in Int /\ AtLeast(req, MIN_CHUNK) \in Int
      BY <2>1, <3>1 DEF Sized, Fixed, AtLeast, MIN_CHUNK
    <3>3. RoundUp(AtLeast(req, MIN_CHUNK), pool.min_slab) \in Nat
      BY <3>2, RoundUpNat
    <3> QED BY <3>2, <3>3 DEF Rounded, AtLeast
  <2> DEFINE size == Rounded(req)
  <2> HIDE DEF size
  <2>3. Sized(Ready(pool, size).pool) /\ Counted(Ready(pool, size).pool)
    BY <2>1, <2>2, ReadyCounted DEF size
  <2>4. /\ Sized(Take(Ready(pool, size).pool, Ready(pool, size).at).pool)
        /\ Counted(Take(Ready(pool, size).pool, Ready(pool, size).at).pool)
    BY <2>3, TakeCounted
  <2> QED BY <2>3, <2>4 DEF size
<1>4. ASSUME NEW req \in client.asks, AllocChunk(req)
      PROVE  CountInv'
  BY <1>3, <1>4 DEF AllocChunk, Asking, CountInv
<1>5. ASSUME NEW req \in client.asks, AllocAborts(req)
      PROVE  CountInv'
  BY <1>5 DEF AllocAborts, Asking, CountInv
<1>6. ASSUME NEW req \in client.asks, AllocExt(req)
      PROVE  CountInv'
  <2> DEFINE r == IF Rounded(req) <= pool.max_slab THEN Ready(pool, Rounded(req)) ELSE [at |-> None, pool |-> pool]
  <2>1. status = "live" /\ client' = client
    BY <1>6 DEF AllocExt, Asking
  <2>2. Sized(r.pool) /\ Counted(r.pool)
    BY <2>1, <1>3 DEF CountInv
  <2>3. \/ pool' = r.pool
        \/ \E at \in ExtPlaces \ DOMAIN ext : pool' = [r.pool EXCEPT !.ex = at]
    BY <1>6 DEF AllocExt
  <2> HIDE DEF r
  <2>4. ASSUME NEW at
        PROVE  Alike(r.pool, [r.pool EXCEPT !.ex = at])
    BY <2>2 DEF Alike, Sized, PoolFields
  <2>5. Sized(pool') /\ Counted(pool')
    BY <2>2, <2>3, <2>4, AlikeCounted
  <2> QED BY <2>1, <2>5 DEF CountInv
<1>7. ASSUME NEW b \in DOMAIN blocks, FreeBelow(b)
      PROVE  CountInv'
  BY <1>7 DEF FreeBelow, Releasing, CountInv
<1>8. ASSUME NEW b \in DOMAIN blocks, FreeExt(b)
      PROVE  CountInv'
  <2>1. pool' = pool /\ client' = client /\ status = "live"
    BY <1>8 DEF FreeExt, Releasing
  <2> QED BY <2>1 DEF CountInv
<1>9. ASSUME NEW b \in DOMAIN blocks, FreeChunk(b)
      PROVE  CountInv'
  <2> DEFINE h == pool.used
             s == pool.heads[h]
             idx == (b.at - h * pool.page_size) \div s.chunk_size
             q == [pool EXCEPT !.heads[h].map = @ \ {idx},
                               !.heads[h].index = IF @ = s.cnt THEN idx ELSE @,
                               !.heads[h].free = (@ + 1) % 2^16]
  <2>1. status = "live" /\ client' = client /\ h # None
    BY <1>9, Zenon DEF FreeChunk, Releasing
  <2>2. \/ pool' = pool
        \/ s.listed /\ pool' \in {q, Emptied(q, h)}
    BY <1>9, Zenon DEF FreeChunk
  <2>3. Sized(pool) /\ Counted(pool)
    BY <2>1 DEF CountInv
  <2> HIDE DEF idx
  <2>4. Alike(pool, q)
    BY <2>3 DEF Alike, Sized, PoolFields, SlabFields
  <2> HIDE DEF q
  <2>5. Sized(q) /\ Counted(q)
    BY <2>3, <2>4, AlikeCounted
  <2>6. q.used = h /\ (q.heads[h].listed <=> s.listed)
    BY <2>1, <2>3, <2>4 DEF Alike, Sized
  <2>7. s.listed => Sized(Emptied(q, h)) /\ Counted(Emptied(q, h))
    BY <2>1, <2>5, <2>6, EmptiedCounted
  <2> HIDE DEF s
  <2>8. Sized(pool') /\ Counted(pool')
    BY <2>2, <2>3, <2>5, <2>7
  <2> QED BY <2>1, <2>8 DEF CountInv
<1>10. CASE UNCHANGED vars
  BY <1>10 DEF vars, CountInv
<1> QED BY <1>1, <1>2, <1>4, <1>5, <1>6, <1>7, <1>8, <1>9, <1>10 DEF Next

-----------------------------------------------------------------------------
(* Pages that a gentle client makes the pool use *)

\* What a gentle client's sizes are rounded to: all of them are powers of two.
Regular(p) ==
  /\ \E i \in 0 .. 17 : p.min_slab = Two[i]
  /\ \E i \in 0 .. 17 : p.page_size = Two[i]
  /\ p.max_slab <= Two[18] /\ DOMAIN p.slabs = 0 .. p.max_slab \div p.min_slab - 1

\* Two free pages, one behind the other.
FreePair(p, i) == i \in 1 .. p.pages - 1 /\ i - 1 \notin p.map /\ i \notin p.map

\* Two free pages in a row are behind all that are in use, and none is left
\* when a page is lost to the count.
Packed(p) ==
  /\ \A i \in 1 .. p.pages - 1 : FreePair(p, i) => \A j \in p.map : j < i
  /\ p.pages - Cardinality(p.map) <= p.free + 1
  /\ p.pages - Cardinality(p.map) = p.free + 1 =>
       \A i \in 1 .. p.pages - 1 : ~FreePair(p, i)

\* The pages of a slab of one page, and of a slab of two.
LEMMA FewPages ==
  ASSUME NEW p, p.pages \in Nat, NEW start \in 0 .. p.pages - 1
  PROVE  /\ Pages(p, start, 1) = {start} /\ Cardinality({start}) = 1
         /\ start = p.pages - 1 => Pages(p, start, 2) = {start}
         /\ start # p.pages - 1 =>
              Pages(p, start, 2) = {start, start + 1} /\ Cardinality({start, start + 1}) = 2
<1>1. Pages(p, start, 1) = {start} /\ (start = p.pages - 1 => Pages(p, start, 2) = {start})
  BY DEF Pages
<1>2. start # p.pages - 1 => Pages(p, start, 2) = {start, start + 1}
  BY DEF Pages
<1>3. IsFiniteSet({start}) /\ Cardinality({start}) = 1
  BY FS_Singleton
<1>4. start + 1 \notin {start}
  OBVIOUS
<1>5. Cardinality({start} \cup {start + 1}) = 2
  <2>1. Cardinality({start} \cup {start + 1}) =
          IF start + 1 \in {start} THEN Cardinality({start}) ELSE Cardinality({start}) + 1
    BY ONLY <1>3, FS_AddElement
  <2> QED BY ONLY <2>1, <1>3, <1>4
<1>6. {start} \cup {start + 1} = {start, start + 1}
  OBVIOUS
<1> QED BY <1>1, <1>2, <1>3, <1>5, <1>6

\* A page or two more in use leave the pages packed.
LEMMA GrabbedPacked ==
  ASSUME NEW p, Sized(p), Packed(p), NEW n \in {1, 2}, NEW start \in Int,
         FirstFit(p, n, start), NEW q, Grabbed(p, n, start, q)
  PROVE  /\ Packed(q) /\ start \in 0 .. p.pages - 1 /\ start \notin p.map
         /\ n = 2 => start + 1 \notin p.map
<1> DEFINE A == Pages(p, start, n)
           M == Cardinality(p.map)
<1>0. p.pages \in Nat /\ p.free \in Int /\ p.map \subseteq 0 .. p.pages - 1
  BY DEF Sized, Fixed
<1>1. start \in 0 .. p.pages - 1 /\ start \notin p.map /\ (n = 2 => start >= 1 /\ FreePair(p, start))
  BY <1>0 DEF FirstFit, FreePair
<1>2. n = 2 => start \in 1 .. p.pages - 1 /\ \A j \in p.map : j < start
  BY <1>0, <1>1 DEF Packed
<1>3. n = 2 => start + 1 \notin p.map
  BY <1>0, <1>1, <1>2
<1>4. IsFiniteSet(p.map) /\ M \in Nat
  BY <1>0, MapFacts
<1>5. q.map = p.map \cup A /\ q.free = p.free - n /\ q.pages = p.pages
  BY DEF Grabbed
<1>6. /\ n = 1 => A = {start} /\ Cardinality(A) = 1
      /\ n = 2 /\ start = p.pages - 1 => A = {start} /\ Cardinality(A) = 1
      /\ n = 2 /\ start # p.pages - 1 => A = {start, start + 1} /\ Cardinality(A) = 2
  <2>1. /\ Pages(p, start, 1) = {start} /\ Cardinality({start}) = 1
        /\ start = p.pages - 1 => Pages(p, start, 2) = {start}
        /\ start # p.pages - 1 =>
             Pages(p, start, 2) = {start, start + 1} /\ Cardinality({start, start + 1}) = 2
    BY <1>0, <1>1, FewPages
  <2>2. (n = 1 => A = Pages(p, start, 1)) /\ (n = 2 => A = Pages(p, start, 2))
    OBVIOUS
  <2> HIDE DEF A
  <2> QED BY <2>1, <2>2
<1>7. Cardinality(q.map) = M + Cardinality(A)
  <2>1. A \cap p.map = {}
    BY <1>1, <1>3, <1>6
  <2>2. IsFiniteSet(A)
    BY <1>0, PagesFacts
  <2> HIDE DEF A
  <2>3. Cardinality(p.map \cup A) = M + Cardinality(A) - Cardinality(p.map \cap A)
    BY <1>4, <2>2, FS_Union
  <2>4. p.map \cap A = {} /\ Cardinality({}) = 0
    BY <2>1, FS_EmptySet
  <2>5. Cardinality(A) \in Nat
    BY <2>2, FS_CardinalityType
  <2>6. Cardinality(q.map) = Cardinality(p.map \cup A) /\ Cardinality(p.map \cap A) = 0
    BY <1>5, <2>4
  <2> HIDE DEF M
  <2> QED BY ONLY <1>4, <2>3, <2>5, <2>6
<1>8. ASSUME NEW i \in 1 .. p.pages - 1, FreePair(q, i)
      PROVE  /\ FreePair(p, i) /\ i \notin A /\ i - 1 \notin A
             /\ n = 1 => start < i
             /\ n = 2 => start + 1 < i
  <2>1. FreePair(p, i) /\ i \notin A /\ i - 1 \notin A
    BY <1>5, <1>8 DEF FreePair
  <2>2. i \in Int /\ i - 1 \in 0 .. p.pages - 1 /\ i \notin p.map /\ i - 1 \notin p.map
    BY <1>0, <2>1 DEF FreePair
  <2>3. \A k \in n - 1 .. p.pages - 1 : (k - n + 1 .. k) \cap p.map = {} => start <= k
    BY DEF FirstFit
  <2>4. CASE n = 1
    <3>1. (i - 1) - 1 + 1 .. i - 1 = {i - 1}
      BY <2>2
    <3>2. start <= i - 1
      BY <2>2, <2>3, <2>4, <3>1, <1>0
    <3> QED BY <2>1, <2>2, <2>4, <3>2, <1>0, <1>1
  <2>5. CASE n = 2
    <3>1. i - 2 + 1 .. i = {i - 1, i} /\ i \in 2 - 1 .. p.pages - 1
      BY <2>2, <1>0
    <3>2. start <= i
      BY <2>2, <2>3, <2>5, <3>1, <1>0
    <3>3. i # start /\ i - 1 # start
      BY <2>1, <2>5, <1>6
    <3> QED BY <2>1, <2>2, <2>5, <3>2, <3>3, <1>0, <1>1
  <2> QED BY <2>4, <2>5
<1>9. ASSUME NEW i \in 1 .. q.pages - 1, FreePair(q, i), NEW j \in q.map
      PROVE  j < i
  <2>1. i \in 1 .. p.pages - 1
    BY <1>5
  <2>2. j \in p.map => j < i
    BY <2>1, <1>8, <1>9 DEF Packed
  <2>3. j \in A => j < i
    BY <2>1, <1>0, <1>1, <1>6, <1>8, <1>9
  <2> QED BY <2>2, <2>3, <1>5
<1>10. n = 2 => p.pages - M <= p.free
  BY <1>0, <1>1, <1>2, <1>4 DEF Packed
<1>11. q.pages - Cardinality(q.map) <= q.free + 1
  <2>1. p.pages - M <= p.free + 1
    BY DEF Packed
  <2> HIDE DEF A
  <2> QED BY <2>1, <1>0, <1>4, <1>5, <1>6, <1>7, <1>10
<1>12. ASSUME q.pages - Cardinality(q.map) = q.free + 1, NEW i \in 1 .. q.pages - 1, FreePair(q, i)
       PROVE  FALSE
  <2>0. i \in 1 .. p.pages - 1
    BY <1>5
  <2>1. FreePair(p, i) /\ (n = 2 => start + 1 < i)
    BY <2>0, <1>8, <1>12
  <2>2. p.pages - M # p.free + 1
    BY <2>0, <2>1 DEF Packed
  <2>3. n = 2 => start # p.pages - 1
    BY <2>0, <2>1, <1>0, <1>1
  <2>4. Cardinality(A) = n
    BY <1>6, <2>3
  <2> HIDE DEF A
  <2> QED BY <1>0, <1>4, <1>5, <1>7, <1>12, <2>2, <2>4
<1>13. Packed(q)
  BY <1>9, <1>11, <1>12 DEF Packed
<1> QED BY <1>1, <1>3, <1>13

-----------------------------------------------------------------------------
(* The slabs of a gentle client *)

\* Chunks of a slab that none was given back of are taken in their order.
InOrder(s) == s.index <= s.cnt /\ s.map = 0 .. s.index - 1 /\ s.free = s.cnt - s.index

\* One chunk was given back; the last one that is taken can be that behind cnt.
Reopened(s) ==
  /\ s.map \subseteq 0 .. s.cnt
  /\ \/ s.free = 0
     \/ /\ s.index <= s.cnt /\ s.free = s.cnt - s.index + 1
        /\ \E j \in 0 .. s.index - 1 : s.map = (0 .. s.index - 1) \ {j}
     \/ /\ s.index < s.cnt /\ s.free = 1
        /\ s.map = (0 .. s.cnt - 1) \ {s.index}

\* The chunks of a slab, and the one behind them, are in its first page.
Cut(s, page_size, once) ==
  /\ s.chunk_size \in Nat /\ s.cnt \in 0 .. MapBytes /\ s.index \in Nat
  /\ (s.cnt + 1) * s.chunk_size <= page_size
  /\ s.chunk_size = 0 => s.cnt = 0
  /\ InOrder(s) \/ (once /\ Reopened(s))

\* The pages of a slab are in no other one.
Apart(p, h) ==
  /\ h \in p.map /\ p.heads[h].pages \in {1, 2}
  /\ p.heads[h].pages = 2 => h + 1 \notin DOMAIN p.heads /\ (h + 1 < p.pages => h + 1 \in p.map)

\* The slabs to take chunks of a size from have chunks of this size.
Sorted(p) ==
  \A i \in DOMAIN p.slabs :
    /\ p.slabs[i] \in DOMAIN p.heads \cup {None}
    /\ p.slabs[i] # None => p.heads[p.slabs[i]].chunk_size = (i + 1) * p.min_slab

\* All slabs are apart from each other and well cut.
Slabs(p, once) ==
  /\ \A h \in DOMAIN p.heads : Apart(p, h) /\ Cut(p.heads[h], p.page_size, once)
  /\ Sorted(p)

\* The pool of a gentle client, before and after every call.
GentlePool(p, once) == Sized(p) /\ Regular(p) /\ Packed(p) /\ Slabs(p, once)

\* The chunks in use remain where they are.
SameChunks(p, q) ==
  /\ q.pages = p.pages /\ q.page_size = p.page_size /\ q.min_slab = p.min_slab
  /\ q.max_slab = p.max_slab
  /\ \A h \in DOMAIN p.heads :
       /\ h \in DOMAIN q.heads /\ q.heads[h].chunk_size = p.heads[h].chunk_size
       /\ p.heads[h].map \subseteq q.heads[h].map

\* What a call may not do to the pool of the blocks that are held.
Kept(p, q) == SameChunks(p, q) /\ q.ex = p.ex

\* A pool keeps its chunks in itself.
LEMMA KeptSelf ==
  ASSUME NEW p
  PROVE  Kept(p, p)
BY DEF Kept, SameChunks

\* What is kept twice is kept.
LEMMA KeptOn ==
  ASSUME NEW p, NEW q, NEW r, Kept(p, q), Kept(q, r)
  PROVE  Kept(p, r)
BY DEF Kept, SameChunks

\* A new slab has no chunks yet, and is in order.
LEMMA NewSlabCut ==
  ASSUME NEW n \in Nat, NEW page_size \in Nat, NEW once \in BOOLEAN
  PROVE  Cut(NewSlab(n), page_size, once)
<1> DEFINE s == NewSlab(n)
<1>0. s.chunk_size = 0 /\ s.cnt = 0 /\ s.free = 0 /\ s.index = 0 /\ s.map = {}
  BY NewSlabFields
<1> HIDE DEF s
<1>1. 0 .. s.index - 1 = {}
  BY <1>0
<1>2. InOrder(s)
  BY <1>0, <1>1 DEF InOrder
<1>3. 0 \in 0 .. MapBytes /\ (s.cnt + 1) * s.chunk_size <= page_size
  BY <1>0 DEF MapBytes
<1>4. Cut(s, page_size, once)
  BY <1>0, <1>2, <1>3 DEF Cut
<1> QED BY <1>4 DEF s

\* Slabs stay apart and cut when pages are grabbed at a free run.
LEMMA GrabbedSlabs ==
  ASSUME NEW p, NEW once \in BOOLEAN, Sized(p), Slabs(p, once), NEW n \in {1, 2},
         NEW start \in 0 .. p.pages - 1, start \notin p.map, n = 2 => start + 1 \notin p.map,
         NEW q, Grabbed(p, n, start, q)
  PROVE  /\ Slabs(q, once) /\ Kept(p, q) /\ q.slabs = p.slabs
         /\ start \in DOMAIN q.heads /\ start # None /\ q.heads[start] = NewSlab(n)
         /\ start \notin DOMAIN p.heads
<1>0. p.pages \in Nat /\ p.page_size \in Nat /\ p.map \subseteq 0 .. p.pages - 1 /\ start \in Int
  BY DEF Sized, Fixed
<1>1. \A h \in DOMAIN p.heads : h \in p.map /\ h \in Int
  BY <1>0 DEF Slabs, Apart
<1>2. start \notin DOMAIN p.heads /\ \A h \in DOMAIN p.heads : h \notin start .. start + n - 1
  <2>1. ASSUME NEW h \in DOMAIN p.heads
        PROVE  h \notin start .. start + n - 1
    <3>1. h \in p.map /\ h \in Int
      BY <1>1
    <3>2. start .. start + n - 1 \subseteq {start, start + 1} /\ (n = 1 => start .. start + n - 1 = {start})
      BY <1>0
    <3> QED BY <3>1, <3>2
  <2> QED BY <2>1, <1>1
<1>3. /\ DOMAIN q.heads = DOMAIN p.heads \cup {start} /\ q.heads[start] = NewSlab(n)
      /\ \A h \in DOMAIN p.heads : q.heads[h] = p.heads[h]
  BY <1>2 DEF Grabbed
<1>4. /\ q.pages = p.pages /\ q.page_size = p.page_size /\ q.min_slab = p.min_slab
      /\ q.max_slab = p.max_slab /\ q.ex = p.ex /\ q.slabs = p.slabs
      /\ q.map = p.map \cup Pages(p, start, n)
  BY DEF Grabbed
<1>5. Pages(p, start, n) = (start .. start + n - 1) \cap (0 .. p.pages - 1)
  BY DEF Pages
<1>6. ASSUME NEW h \in DOMAIN q.heads
      PROVE  Apart(q, h) /\ Cut(q.heads[h], q.page_size, once)
  <2>1. CASE h = start
    <3>1. q.heads[h].pages = n /\ n \in Nat
      <4>1. n \in Nat
        OBVIOUS
      <4>2. NewSlab(n).pages = n
        BY <4>1, NewSlabFields
      <4> QED BY <4>1, <4>2, <2>1, <1>3
    <3>2. h \in q.map /\ (n = 2 /\ h + 1 < q.pages => h + 1 \in q.map)
      BY <2>1, <1>0, <1>4, <1>5
    <3>3. n = 2 => h + 1 \notin DOMAIN q.heads
      BY <2>1, <1>0, <1>1, <1>3
    <3>4. Apart(q, h)
      BY <3>1, <3>2, <3>3 DEF Apart
    <3> QED BY <2>1, <3>1, <3>4, <1>0, <1>3, <1>4, NewSlabCut
  <2>2. CASE h # start
    <3>1. h \in DOMAIN p.heads /\ q.heads[h] = p.heads[h]
      BY <2>2, <1>3
    <3>2. Apart(p, h) /\ Cut(p.heads[h], p.page_size, once) /\ h \in Int /\ h \in p.map
      BY <3>1, <1>1 DEF Slabs
    <3>3. q.heads[h].pages = 2 => h + 1 # start
      <4>1. CASE h + 1 < p.pages
        BY <4>1, <3>1, <3>2 DEF Apart
      <4>2. CASE ~(h + 1 < p.pages)
        BY <4>2, <3>2, <1>0
      <4> QED BY <4>1, <4>2
    <3>4. Apart(q, h)
      BY <3>1, <3>2, <3>3, <1>3, <1>4 DEF Apart
    <3> QED BY <3>1, <3>2, <3>4, <1>4
  <2> QED BY <2>1, <2>2
<1>7. Sorted(q)
  <2>1. ASSUME NEW i \in DOMAIN q.slabs
        PROVE  /\ q.slabs[i] \in DOMAIN q.heads \cup {None}
               /\ q.slabs[i] # None => q.heads[q.slabs[i]].chunk_size = (i + 1) * q.min_slab
    <3>1. /\ p.slabs[i] \in DOMAIN p.heads \cup {None}
          /\ p.slabs[i] # None => p.heads[p.slabs[i]].chunk_size = (i + 1) * p.min_slab
      BY <1>4 DEF Slabs, Sorted
    <3> QED BY <3>1, <1>3, <1>4
  <2> QED BY <2>1 DEF Sorted
<1>8. Kept(p, q)
  BY <1>3, <1>4 DEF Kept, SameChunks
<1>9. start # None
  BY <1>0 DEF None
<1> QED BY <1>2, <1>3, <1>4, <1>6, <1>7, <1>8, <1>9 DEF Slabs

\* To grab pages keeps the pool sound.
LEMMA GrabbedGentle ==
  ASSUME NEW p, NEW once \in BOOLEAN, GentlePool(p, once), NEW n \in {1, 2},
         NEW start \in Int, FirstFit(p, n, start), NEW q, Grabbed(p, n, start, q)
  PROVE  /\ GentlePool(q, once) /\ Kept(p, q) /\ q.slabs = p.slabs
         /\ start \in DOMAIN q.heads /\ start # None /\ q.heads[start] = NewSlab(n)
         /\ start \notin DOMAIN p.heads
<1>1. Sized(p) /\ Regular(p) /\ Packed(p) /\ Slabs(p, once)
  BY DEF GentlePool
<1>2. n \in Nat
  OBVIOUS
<1>3. Sized(q)
  BY <1>1, <1>2, GrabbedSized
<1>4. Packed(q) /\ start \in 0 .. p.pages - 1 /\ start \notin p.map /\ (n = 2 => start + 1 \notin p.map)
  BY <1>1, GrabbedPacked
<1>5. /\ Slabs(q, once) /\ Kept(p, q) /\ q.slabs = p.slabs
      /\ start \in DOMAIN q.heads /\ start # None /\ q.heads[start] = NewSlab(n)
      /\ start \notin DOMAIN p.heads
  BY <1>1, <1>4, GrabbedSlabs
<1>6. Regular(q)
  BY <1>1 DEF Regular, Grabbed
<1> QED BY <1>3, <1>4, <1>5, <1>6 DEF GentlePool

\* What _alloc_slab returns to a gentle client.
SlabGot(p, once, r, n) ==
  /\ GentlePool(r.pool, once) /\ Kept(p, r.pool) /\ r.pool.slabs = p.slabs
  /\ r.at # None =>
       /\ r.at \in DOMAIN r.pool.heads /\ r.pool.heads[r.at] = NewSlab(n)
       /\ r.at \notin DOMAIN p.heads

\* _alloc_slab keeps the pool sound, and returns an empty slab or none.
LEMMA AllocSlabGentle ==
  ASSUME NEW p, NEW once \in BOOLEAN, GentlePool(p, once), NEW n \in {1, 2}
  PROVE  /\ SlabGot(p, once, AllocSlab(p, n), n)
         /\ AllocSlab(p, n).at = None => AllocSlab(p, n).pool = p
<1> DEFINE r == AllocSlab(p, n)
<1>1. Sized(p) /\ n \in Nat
  BY DEF GentlePool
<1>2. \/ r.at = None /\ r.pool = p
      \/ r.at \in Int /\ FirstFit(p, n, r.at) /\ Grabbed(p, n, r.at, r.pool)
  BY <1>1, AllocSlabFacts
<1> HIDE DEF r
<1>3. CASE r.at = None /\ r.pool = p
  BY <1>3, KeptSelf DEF SlabGot, r
<1>4. CASE r.at \in Int /\ FirstFit(p, n, r.at) /\ Grabbed(p, n, r.at, r.pool)
  <2>1. /\ GentlePool(r.pool, once) /\ Kept(p, r.pool) /\ r.pool.slabs = p.slabs
        /\ r.at \in DOMAIN r.pool.heads /\ r.at # None /\ r.pool.heads[r.at] = NewSlab(n)
        /\ r.at \notin DOMAIN p.heads
    BY <1>4, GrabbedGentle
  <2> QED BY <2>1 DEF SlabGot, r
<1> QED BY <1>2, <1>3, <1>4

-----------------------------------------------------------------------------
(* Sizes that suit the slabs *)

\* A size that alloc() rounds to, and that is not left to malloc.
SizeOf(p, size) ==
  size \in Nat /\ size <= p.max_slab /\ \E k \in Nat : k >= 1 /\ size = k * p.min_slab

\* What Moderate says of such a size.
Suits(p, size) ==
  /\ 8 * size <= IF 2 * p.min_slab > p.max_slab THEN p.page_size ELSE 2 * p.page_size
  /\ 512 * size >= 2 * p.page_size

\* The least size and the page size are powers of two, within the 19 bits.
LEMMA PageSizeFacts ==
  ASSUME NEW p, Regular(p)
  PROVE  /\ PowerOfTwo(p.min_slab) /\ p.min_slab \in Nat /\ p.min_slab <= 131072
         /\ PowerOfTwo(p.page_size) /\ p.page_size \in Nat /\ p.page_size <= 131072
         /\ p.max_slab <= 262144
<1>1. ASSUME NEW i \in 0 .. 17
      PROVE  PowerOfTwo(Two[i]) /\ Two[i] \in Nat /\ Two[i] <= 131072
  <2>1. i \in 0 .. 19 /\ i \in 0 .. 18 /\ 17 \in 0 .. 19
    OBVIOUS
  <2>2. Two[i] \in Nat /\ Two[i] = 2^i
    BY ONLY <2>1, TwoFacts
  <2>3. Two[i] <= Two[17]
    BY ONLY <2>1, i <= 17, TwoMono
  <2>4. Two[17] = 131072
    BY TwoValues
  <2>5. PowerOfTwo(Two[i])
    BY ONLY <2>1, <2>2 DEF PowerOfTwo
  <2> QED BY <2>2, <2>3, <2>4, <2>5
<1>2. Two[18] = 262144
  BY TwoValues
<1>3. PICK i \in 0 .. 17 : p.min_slab = Two[i]
  BY DEF Regular
<1>4. PICK j \in 0 .. 17 : p.page_size = Two[j]
  BY DEF Regular
<1>5. p.max_slab <= Two[18]
  BY DEF Regular
<1>6. PowerOfTwo(p.min_slab) /\ p.min_slab \in Nat /\ p.min_slab <= 131072
  BY ONLY <1>1, <1>3
<1>7. PowerOfTwo(p.page_size) /\ p.page_size \in Nat /\ p.page_size <= 131072
  BY ONLY <1>1, <1>4
<1> QED BY <1>2, <1>5, <1>6, <1>7

\* Chunks that suit the slabs need one page, and get two.
LEMMA NeedIsOne ==
  ASSUME NEW p, Sized(p), Regular(p), NEW size \in Nat, size > 0, size <= p.page_size
  PROVE  RoundUp(size, p.page_size) \div p.page_size = 1
<1> DEFINE ps == p.page_size
           r == RoundUp(size, ps)
<1>1. ps \in Nat /\ ps > 0 /\ PowerOfTwo(ps) /\ ps <= 131072
  BY PageSizeFacts DEF Sized, Fixed, PAGE_SIZE
<1>2. size + ps <= Two[19]
  <2>1. Two[19] = 524288
    BY TwoValues
  <2> HIDE DEF ps
  <2>2. size <= ps
    BY DEF ps
  <2> QED BY ONLY <1>1, <2>1, <2>2, size \in Nat
<1> HIDE DEF ps
<1>3. (\E q \in Nat : r = q * ps) /\ size <= r /\ r < size + ps
  BY <1>1, <1>2, RoundUpPower
<1>4. PICK q \in Nat : r = q * ps
  BY <1>3
<1> HIDE DEF r
<1>5. size <= ps
  BY DEF ps
<1>6. q * ps < 2 * ps /\ q * ps > 0
  BY <1>1, <1>3, <1>4, <1>5
<1>7. q = 1
  <2>1. q >= 2 => 2 * ps <= q * ps
    BY ONLY <1>1, MulMono
  <2>2. q = 0 => q * ps = 0
    BY <1>1
  <2> QED BY <1>6, <2>1, <2>2, <1>1
<1>8. r = ps
  BY <1>1, <1>4, <1>7
<1>9. r \div ps = 1
  BY <1>1, <1>8
<1> QED BY <1>9 DEF r, ps

\* What alloc_slab returns to a gentle client: if it is not asked in vain, two
\* pages, or one that suffices.
LEMMA SlabForGentle ==
  ASSUME NEW p, NEW once \in BOOLEAN, GentlePool(p, once), NEW size, SizeOf(p, size), Suits(p, size)
  PROVE  \E n \in {1, 2} :
           /\ SlabGot(p, once, SlabFor(p, size), n)
           /\ n = 2 \/ 8 * size <= p.page_size
<1> DEFINE Twice(n) == IF p.free >= 2 * n THEN AllocSlab(p, 2 * n) ELSE [at |-> None, pool |-> p]
           need == RoundUp(size, p.page_size) \div p.page_size
           s == SlabFor(p, size)
<1>0. Sized(p) /\ Regular(p)
  BY DEF GentlePool
<1>1. /\ p.min_slab \in Nat /\ p.min_slab >= 8 /\ p.max_slab \in Nat /\ size \in Nat
      /\ p.page_size \in Nat /\ p.free \in Int /\ size <= p.max_slab
  BY <1>0 DEF Sized, Fixed, MIN_CHUNK, SizeOf
<1>2. size >= p.min_slab
  <2>1. PICK k \in Nat : k >= 1 /\ size = k * p.min_slab
    BY DEF SizeOf
  <2>2. 1 * p.min_slab <= k * p.min_slab
    BY ONLY <1>1, <2>1, MulMono
  <2> QED BY <1>1, <2>1, <2>2
<1>3. 8 * size <= 2 * p.page_size /\ size <= p.page_size /\ size > 0
  BY <1>1, <1>2 DEF Suits
<1>4. need = 1
  BY <1>0, <1>1, <1>3, NeedIsOne
<1>5. /\ SlabGot(p, once, AllocSlab(p, 2), 2) /\ SlabGot(p, once, AllocSlab(p, 1), 1)
      /\ AllocSlab(p, 2).at = None => AllocSlab(p, 2).pool = p
  BY AllocSlabGentle
<1>6. SlabGot(p, once, [at |-> None, pool |-> p], 2)
  BY KeptSelf DEF SlabGot
<1>7. SlabGot(p, once, Twice(1), 2)
  BY <1>5, <1>6
<1>8. SlabGot(p, once, [at |-> None, pool |-> AllocSlab(p, 1).pool], 2)
  BY <1>5 DEF SlabGot
<1>9. ~(size <= p.min_slab \div 2)
  <2>1. p.min_slab \div 2 \in Int /\ (p.min_slab \div 2) * 2 <= p.min_slab
    BY <1>1
  <2> QED BY <2>1, <1>1, <1>2
<1>10. CASE size > p.max_slab \div 2 /\ size <= p.min_slab
  <2>1. p.max_slab \div 2 \in Int /\ p.max_slab < (p.max_slab \div 2) * 2 + 2
    BY <1>1
  <2>2. 2 * p.min_slab > p.max_slab
    BY <2>1, <1>1, <1>2, <1>10
  <2>3. 8 * size <= p.page_size
    BY <2>2 DEF Suits
  <2> HIDE DEF Twice
  <2>4. s = IF Twice(1).at # None THEN Twice(1) ELSE AllocSlab(p, 1)
    BY <1>9, <1>10 DEF SlabFor, Twice
  <2> QED BY <2>3, <2>4, <1>5, <1>7
<1>11. CASE ~(size > p.max_slab \div 2 /\ size <= p.min_slab)
  <2> HIDE DEF need
  <2>1. s = IF Twice(need).at = None /\ p.free >= need
            THEN [at |-> None, pool |-> AllocSlab(p, need).pool]
            ELSE Twice(need)
    BY <1>9, <1>11 DEF SlabFor, need
  <2> HIDE DEF Twice, s
  <2>2. s \in {[at |-> None, pool |-> AllocSlab(p, 1).pool], Twice(1)}
    BY <2>1, <1>4
  <2>3. SlabGot(p, once, s, 2)
    BY <2>2, <1>7, <1>8
  <2> QED BY <2>3 DEF s
<1> QED BY <1>10, <1>11

-----------------------------------------------------------------------------
(* Taking a chunk of a gentle client's size *)

\* What differs in its chunks only is as regular and as packed.
LEMMA AlikeGentle ==
  ASSUME NEW p, Sized(p), Regular(p), Packed(p), NEW q, Alike(p, q), DOMAIN q.slabs = DOMAIN p.slabs
  PROVE  Sized(q) /\ Regular(q) /\ Packed(q)
<1>1. Sized(q)
  BY AlikeSized
<1>2. Regular(q)
  BY DEF Alike, Regular
<1>3. /\ q.pages = p.pages /\ q.map = p.map /\ q.free = p.free
      /\ \A i : FreePair(q, i) <=> FreePair(p, i)
  BY DEF Alike, FreePair
<1>4. Packed(q)
  BY <1>3 DEF Packed
<1> QED BY <1>1, <1>2, <1>4

\* The number of chunks that _alloc_mm cuts a new slab into.
LEMMA CutCount ==
  ASSUME NEW ps \in Nat, NEW n \in {1, 2}, NEW size \in Nat, size > 0,
         8 * size <= n * ps, 512 * size >= 2 * ps
  PROVE  LET cnt == ((ps * n) \div size) \div 8
         IN  cnt \in 1 .. 64 /\ (cnt + 1) * size <= ps
<1> DEFINE x == ps * n
           d == x \div size
           e == d \div 8
<1>0. x \in Nat /\ x = n * ps /\ x <= 2 * ps
  OBVIOUS
<1> HIDE DEF x
<1>1. d \in Int /\ d * size <= x /\ x < d * size + size
  BY <1>0, DivFacts
<1> HIDE DEF d
<1>2. e \in Int /\ e * 8 <= d /\ d < e * 8 + 8
  BY <1>1
<1> HIDE DEF e
<1>3. (e * 8) * size <= d * size
  BY ONLY <1>1, <1>2, MulMono
<1>4. d >= 8
  <2>1. d <= 7 => d * size <= 7 * size
    BY ONLY <1>1, MulMono
  <2> QED BY <2>1, <1>0, <1>1
<1>5. d <= 512
  <2>1. d >= 513 => 513 * size <= d * size
    BY ONLY <1>1, MulMono
  <2> QED BY <2>1, <1>0, <1>1
<1>6. e \in 1 .. 64
  BY <1>1, <1>2, <1>4, <1>5
<1>7. 8 * (e * size) <= x
  BY <1>0, <1>1, <1>2, <1>3
<1>8. (e + 1) * size = e * size + size
  BY <1>2
<1>9. (e + 1) * size <= ps
  BY <1>0, <1>2, <1>7, <1>8
<1> QED BY <1>6, <1>9 DEF e, d, x

\* The place of a size in the array of slabs.
LEMMA SlotIs ==
  ASSUME NEW p, Sized(p), Regular(p), NEW size, SizeOf(p, size)
  PROVE  Slot(p, size) \in DOMAIN p.slabs /\ (Slot(p, size) + 1) * p.min_slab = size
<1>0. p.min_slab \in Nat /\ p.min_slab > 0 /\ p.max_slab \in Nat
  BY DEF Sized, Fixed, MIN_CHUNK
<1>1. PICK k \in Nat : k >= 1 /\ size = k * p.min_slab
  BY DEF SizeOf
<1>2. size \div p.min_slab = k
  <2>1. size \in Int /\ k \in Int /\ k * p.min_slab <= size /\ size < k * p.min_slab + p.min_slab
    BY <1>0, <1>1 DEF SizeOf
  <2> QED BY ONLY <1>0, <2>1, DivIs
<1>3. k <= p.max_slab \div p.min_slab
  <2>1. size \in Int /\ p.max_slab \in Int /\ size <= p.max_slab
    BY <1>0 DEF SizeOf
  <2> QED BY ONLY <1>0, <2>1, <1>2, DivMono
<1>4. p.max_slab \div p.min_slab \in Nat /\ DOMAIN p.slabs = 0 .. p.max_slab \div p.min_slab - 1
  BY <1>0, DivNat DEF Regular
<1>5. Slot(p, size) = k - 1
  BY <1>2 DEF Slot
<1> QED BY <1>1, <1>3, <1>4, <1>5

\* What the first half of _alloc_mm finds for a gentle client.
ReadyGot(p, once, r, size) ==
  /\ GentlePool(r.pool, once) /\ Kept(p, r.pool)
  /\ r.at # None =>
       /\ r.at \in DOMAIN r.pool.heads /\ r.pool.heads[r.at].chunk_size = size
       /\ r.pool.heads[r.at].free # 0

\* The assignments to a new slab.
CutTo(o, slot, h, size, cnt, q) ==
  q = [o EXCEPT !.slabs[slot] = h, !.heads[h].chunk_size = size,
                !.heads[h].cnt = cnt, !.heads[h].free = cnt]

\* Field by field.
CutDone(o, slot, h, size, cnt, q) ==
  /\ DOMAIN q.heads = DOMAIN o.heads
  /\ \A g \in DOMAIN o.heads \ {h} : q.heads[g] = o.heads[g]
  /\ DOMAIN q.heads[h] = SlabFields
  /\ q.heads[h].chunk_size = size /\ q.heads[h].cnt = cnt /\ q.heads[h].free = cnt
  /\ q.heads[h].index = o.heads[h].index /\ q.heads[h].map = o.heads[h].map
  /\ q.heads[h].pages = o.heads[h].pages /\ q.heads[h].listed = o.heads[h].listed
  /\ DOMAIN q = PoolFields /\ q.slabs = [o.slabs EXCEPT ![slot] = h]
  /\ q.pages = o.pages /\ q.page_size = o.page_size /\ q.min_slab = o.min_slab
  /\ q.max_slab = o.max_slab /\ q.map = o.map /\ q.free = o.free /\ q.used = o.used /\ q.ex = o.ex

\* The assignments, field by field.
LEMMA CutFields ==
  ASSUME NEW o, NEW slot, NEW h, NEW size, NEW cnt,
         DOMAIN o = PoolFields, h \in DOMAIN o.heads, DOMAIN o.heads[h] = SlabFields,
         NEW q, CutTo(o, slot, h, size, cnt, q)
  PROVE  CutDone(o, slot, h, size, cnt, q)
<1>1. DOMAIN q.heads = DOMAIN o.heads /\ \A g \in DOMAIN o.heads \ {h} : q.heads[g] = o.heads[g]
  BY DEF CutTo, PoolFields
<1>2. /\ DOMAIN q.heads[h] = SlabFields
      /\ q.heads[h].chunk_size = size /\ q.heads[h].cnt = cnt /\ q.heads[h].free = cnt
      /\ q.heads[h].index = o.heads[h].index /\ q.heads[h].map = o.heads[h].map
      /\ q.heads[h].pages = o.heads[h].pages /\ q.heads[h].listed = o.heads[h].listed
  BY DEF CutTo, PoolFields, SlabFields
<1>3. /\ DOMAIN q = PoolFields /\ q.slabs = [o.slabs EXCEPT ![slot] = h]
      /\ q.pages = o.pages /\ q.page_size = o.page_size /\ q.min_slab = o.min_slab
      /\ q.max_slab = o.max_slab /\ q.map = o.map /\ q.free = o.free /\ q.used = o.used /\ q.ex = o.ex
  BY DEF CutTo, PoolFields
<1> QED BY <1>1, <1>2, <1>3 DEF CutDone

\* A new slab is cut into chunks.
LEMMA NewCut ==
  ASSUME NEW p, NEW once \in BOOLEAN, GentlePool(p, once),
         NEW size, SizeOf(p, size), Suits(p, size), NEW n \in {1, 2}, n = 2 \/ 8 * size <= p.page_size,
         NEW s, SlabGot(p, once, s, n), s.at # None,
         NEW cnt, cnt = ((p.page_size * n) \div size) \div CHAR_BIT,
         NEW q, CutTo(s.pool, Slot(p, size), s.at, size, cnt, q)
  PROVE  /\ GentlePool(q, once) /\ Kept(p, q) /\ s.at \in DOMAIN q.heads
         /\ q.heads[s.at].chunk_size = size /\ q.heads[s.at].free # 0
<1> DEFINE h == s.at
           o == s.pool
           slot == Slot(p, size)
<1>0. /\ Sized(p) /\ Regular(p) /\ p.page_size \in Nat /\ p.min_slab \in Nat /\ p.min_slab > 0
      /\ p.max_slab \in Nat
  BY DEF GentlePool, Sized, Fixed, MIN_CHUNK
<1>1. /\ GentlePool(o, once) /\ Kept(p, o) /\ o.slabs = p.slabs
      /\ h \in DOMAIN o.heads /\ o.heads[h] = NewSlab(n) /\ h \notin DOMAIN p.heads
  BY DEF SlabGot
<1>2. Sized(o) /\ Regular(o) /\ Packed(o) /\ Slabs(o, once) /\ o.page_size = p.page_size
      /\ o.min_slab = p.min_slab
  BY <1>1 DEF GentlePool, Kept, SameChunks
<1>3. slot \in DOMAIN p.slabs /\ (slot + 1) * p.min_slab = size
  BY <1>0, SlotIs
<1>4. cnt \in 1 .. 64 /\ (cnt + 1) * size <= p.page_size /\ size \in Nat /\ size > 0
  <2>1. size \in Nat /\ size > 0
    <3>1. PICK k \in Nat : k >= 1 /\ size = k * p.min_slab
      BY DEF SizeOf
    <3>2. 1 * p.min_slab <= k * p.min_slab
      BY ONLY <1>0, <3>1, MulMono
    <3> QED BY <3>1, <3>2, <1>0 DEF SizeOf
  <2>2. 8 * size <= 2 * p.page_size /\ 512 * size >= 2 * p.page_size
    BY <1>0, <2>1 DEF Suits
  <2>3. 8 * size <= n * p.page_size
    BY <1>0, <2>1, <2>2
  <2>4. cnt = ((p.page_size * n) \div size) \div 8
    BY DEF CHAR_BIT
  <2> QED BY ONLY <1>0, <2>1, <2>2, <2>3, <2>4, CutCount, n \in {1, 2}
<1> HIDE DEF slot, o, h
<1>5. CutTo(o, slot, h, size, cnt, q)
  BY DEF slot, o, h
<1>6. /\ DOMAIN o = PoolFields /\ DOMAIN o.heads[h] = SlabFields /\ h \in DOMAIN o.heads
      /\ \A g \in DOMAIN o.heads : DOMAIN o.heads[g] = SlabFields
  BY <1>1, <1>2 DEF Sized
<1>21. CutDone(o, slot, h, size, cnt, q)
  BY ONLY <1>5, <1>6, CutFields
<1>7. /\ DOMAIN q = PoolFields
      /\ q.pages = o.pages /\ q.page_size = o.page_size /\ q.min_slab = o.min_slab
      /\ q.max_slab = o.max_slab /\ q.map = o.map /\ q.free = o.free /\ q.used = o.used /\ q.ex = o.ex
      /\ q.slabs = [o.slabs EXCEPT ![slot] = h]
      /\ DOMAIN q.heads = DOMAIN o.heads
      /\ \A g \in DOMAIN o.heads \ {h} : q.heads[g] = o.heads[g]
  BY <1>21 DEF CutDone
<1>8. /\ DOMAIN q.heads[h] = SlabFields
      /\ q.heads[h].chunk_size = size /\ q.heads[h].cnt = cnt /\ q.heads[h].free = cnt
      /\ q.heads[h].index = o.heads[h].index /\ q.heads[h].map = o.heads[h].map
      /\ q.heads[h].pages = o.heads[h].pages /\ q.heads[h].listed = o.heads[h].listed
  BY <1>21 DEF CutDone
<1> DEFINE c == q.heads[h]
<1> HIDE <1>5
<1>9. n \in Nat /\ q.heads[h].index = 0 /\ q.heads[h].map = {}
  <2>1. n \in Nat
    OBVIOUS
  <2> QED BY <2>1, <1>1, <1>8, NewSlabFields
<1>10. Alike(o, q) /\ DOMAIN q.slabs = DOMAIN o.slabs
  <2>1. \A g \in DOMAIN o.heads : /\ DOMAIN q.heads[g] = DOMAIN o.heads[g]
          /\ q.heads[g].pages = o.heads[g].pages /\ q.heads[g].listed = o.heads[g].listed
    BY <1>6, <1>7, <1>8
  <2> QED BY <2>1, <1>7 DEF Alike
<1>11. Sized(q) /\ Regular(q) /\ Packed(q)
  BY <1>2, <1>10, AlikeGentle
<1>12. Cut(q.heads[h], q.page_size, once)
  <2>1. c.chunk_size = size /\ c.cnt = cnt /\ c.free = cnt /\ c.index = 0 /\ c.map = {}
    BY <1>8, <1>9
  <2> HIDE DEF c
  <2>2. 0 .. c.index - 1 = {}
    BY <2>1
  <2>3. InOrder(c)
    BY <2>1, <2>2, <1>4 DEF InOrder
  <2>4. c.cnt \in 0 .. MapBytes /\ (c.cnt + 1) * c.chunk_size <= q.page_size
    BY <2>1, <1>2, <1>4, <1>7 DEF MapBytes
  <2>5. Cut(c, q.page_size, once)
    BY <2>1, <2>3, <2>4, <1>4 DEF Cut
  <2> QED BY <2>5 DEF c
<1>13. ASSUME NEW g \in DOMAIN q.heads
       PROVE  Apart(q, g) /\ Cut(q.heads[g], q.page_size, once)
  <2>1. Apart(o, g) /\ Cut(o.heads[g], o.page_size, once)
    BY <1>2, <1>7 DEF Slabs
  <2>2. Apart(q, g)
    BY <2>1, <1>7, <1>8 DEF Apart
  <2>3. CASE g = h
    BY <2>2, <2>3, <1>12
  <2>4. CASE g # h
    BY <2>1, <2>2, <2>4, <1>7
  <2> QED BY <2>3, <2>4
<1>14. Sorted(q)
  <2>1. ASSUME NEW i \in DOMAIN q.slabs
        PROVE  /\ q.slabs[i] \in DOMAIN q.heads \cup {None}
               /\ q.slabs[i] # None => q.heads[q.slabs[i]].chunk_size = (i + 1) * q.min_slab
    <3>1. CASE i = slot
      <4>1. slot \in DOMAIN o.slabs
        BY <1>1, <1>3
      <4>2. q.slabs[i] = h
        BY ONLY <4>1, <3>1, <1>7
      <4>3. h \in DOMAIN q.heads /\ q.heads[h].chunk_size = size
        BY <1>1, <1>7, <1>8
      <4>4. (i + 1) * q.min_slab = size
        BY <3>1, <1>2, <1>3, <1>7
      <4> QED BY <4>2, <4>3, <4>4
    <3>2. CASE i # slot
      <4>1. q.slabs[i] = o.slabs[i] /\ i \in DOMAIN o.slabs
        BY <3>2, <1>7
      <4>2. /\ o.slabs[i] \in DOMAIN o.heads \cup {None}
            /\ o.slabs[i] # None => o.heads[o.slabs[i]].chunk_size = (i + 1) * o.min_slab
        BY <4>1, <1>2 DEF Slabs, Sorted
      <4>3. o.slabs[i] # h
        <5>1. Sorted(p) /\ i \in DOMAIN p.slabs /\ o.slabs[i] = p.slabs[i]
          BY <4>1, <1>1 DEF GentlePool, Slabs
        <5>2. p.slabs[i] \in DOMAIN p.heads \cup {None}
          BY <5>1 DEF Sorted
        <5>3. h # None
          BY DEF h
        <5> QED BY <5>1, <5>2, <5>3, <1>1
      <4>4. CASE o.slabs[i] = None
        BY <4>1, <4>4
      <4>5. CASE o.slabs[i] # None
        <5>1. q.slabs[i] \in DOMAIN o.heads \ {h} /\ q.slabs[i] = o.slabs[i]
          BY <4>1, <4>2, <4>3, <4>5
        <5>2. q.heads[q.slabs[i]] = o.heads[o.slabs[i]] /\ q.slabs[i] \in DOMAIN q.heads
          BY <5>1, <1>7
        <5> QED BY <5>2, <4>2, <4>5, <1>7
      <4> QED BY <4>4, <4>5
    <3> QED BY <3>1, <3>2
  <2> QED BY <2>1 DEF Sorted
<1>15. Kept(p, q)
  BY <1>1, <1>7 DEF Kept, SameChunks
<1>16. GentlePool(q, once)
  BY <1>11, <1>13, <1>14 DEF GentlePool, Slabs
<1>17. h \in DOMAIN q.heads /\ q.heads[h].chunk_size = size /\ q.heads[h].free # 0
  <2>1. h \in DOMAIN q.heads
    BY <1>1, <1>7
  <2>2. cnt # 0
    BY <1>4
  <2> QED BY ONLY <2>1, <2>2, <1>8
<1> QED BY <1>15, <1>16, <1>17 DEF h

\* The first half of _alloc_mm keeps the pool sound, and returns a slab of the
\* size that has a chunk to give, or none.
LEMMA ReadyGentle ==
  ASSUME NEW p, NEW once \in BOOLEAN, GentlePool(p, once), NEW size, SizeOf(p, size), Suits(p, size)
  PROVE  ReadyGot(p, once, Ready(p, size), size)
<1> DEFINE s == SlabFor(p, size)
           h == p.slabs[Slot(p, size)]
           cnt == ((p.page_size * s.pool.heads[s.at].pages) \div size) \div CHAR_BIT
           q == [s.pool EXCEPT !.slabs[Slot(p, size)] = s.at,
                               !.heads[s.at].chunk_size = size,
                               !.heads[s.at].cnt = cnt,
                               !.heads[s.at].free = cnt]
<1>0. Sized(p) /\ Regular(p) /\ Slabs(p, once)
  BY DEF GentlePool
<1>1. PICK n \in {1, 2} : SlabGot(p, once, s, n) /\ (n = 2 \/ 8 * size <= p.page_size)
  BY SlabForGentle
<1>2. CASE ~Full(p, h)
  <2>1. Ready(p, size) = [at |-> h, pool |-> p]
    BY <1>2 DEF Ready
  <2>2. h \in DOMAIN p.heads /\ p.heads[h].free # 0
    BY <1>2 DEF Full
  <2>3. h # None
    <3>1. h \in p.map
      BY <2>2, <1>0 DEF Slabs, Apart
    <3>2. p.map \subseteq 0 .. p.pages - 1
      BY <1>0 DEF Sized
    <3> HIDE DEF h
    <3> QED BY <3>1, <3>2 DEF None
  <2>4. Slot(p, size) \in DOMAIN p.slabs /\ (Slot(p, size) + 1) * p.min_slab = size
    BY <1>0, SlotIs
  <2>5. p.heads[h].chunk_size = size
    BY <2>3, <2>4, <1>0 DEF Slabs, Sorted
  <2> HIDE DEF h
  <2> QED BY <2>1, <2>2, <2>5, KeptSelf DEF ReadyGot
<1>3. CASE Full(p, h) /\ s.at = None
  <2>1. Ready(p, size) = s
    BY <1>3 DEF Ready
  <2> HIDE DEF s
  <2> QED BY <2>1, <1>1, <1>3 DEF ReadyGot, SlabGot
<1>4. CASE Full(p, h) /\ s.at # None
  <2>1. Ready(p, size) = [at |-> s.at, pool |-> q]
    BY <1>4 DEF Ready
  <2> HIDE DEF s
  <2>2. s.pool.heads[s.at].pages = n
    <3>1. n \in Nat /\ s.pool.heads[s.at] = NewSlab(n)
      BY <1>1, <1>4 DEF SlabGot
    <3> QED BY <3>1, NewSlabFields
  <2>3. cnt = ((p.page_size * n) \div size) \div CHAR_BIT
    BY <2>2
  <2>4. CutTo(s.pool, Slot(p, size), s.at, size, cnt, q)
    BY DEF CutTo
  <2> HIDE DEF q, cnt
  <2>5. /\ GentlePool(q, once) /\ Kept(p, q) /\ s.at \in DOMAIN q.heads
        /\ q.heads[s.at].chunk_size = size /\ q.heads[s.at].free # 0
    <3>1. n = 2 \/ 8 * size <= p.page_size
      BY <1>1
    <3>2. SlabGot(p, once, s, n) /\ s.at # None
      BY <1>1, <1>4
    <3>3. /\ GentlePool(p, once) /\ SizeOf(p, size) /\ Suits(p, size)
          /\ n \in {1, 2} /\ once \in BOOLEAN
      OBVIOUS
    <3> QED BY ONLY <3>1, <3>2, <3>3, <2>3, <2>4, NewCut
  <2> QED BY <2>1, <2>5 DEF ReadyGot
<1> QED BY <1>2, <1>3, <1>4

\* The assignments to a slab when a chunk is taken or given back.
Sets(p, h, map, index, free, q) ==
  q = [p EXCEPT !.heads[h].map = map, !.heads[h].index = index, !.heads[h].free = free]

\* The same, field by field.
SetsDone(p, h, map, index, free, q) ==
  /\ DOMAIN q = PoolFields /\ q.slabs = p.slabs
  /\ q.pages = p.pages /\ q.page_size = p.page_size /\ q.min_slab = p.min_slab
  /\ q.max_slab = p.max_slab /\ q.map = p.map /\ q.free = p.free /\ q.used = p.used /\ q.ex = p.ex
  /\ DOMAIN q.heads = DOMAIN p.heads
  /\ \A g \in DOMAIN p.heads \ {h} : q.heads[g] = p.heads[g]
  /\ DOMAIN q.heads[h] = SlabFields
  /\ q.heads[h].map = map /\ q.heads[h].index = index /\ q.heads[h].free = free
  /\ q.heads[h].chunk_size = p.heads[h].chunk_size /\ q.heads[h].cnt = p.heads[h].cnt
  /\ q.heads[h].pages = p.heads[h].pages /\ q.heads[h].listed = p.heads[h].listed

\* The assignments, field by field.
LEMMA SetsFields ==
  ASSUME NEW p, NEW h, NEW map, NEW index, NEW free,
         DOMAIN p = PoolFields, h \in DOMAIN p.heads, DOMAIN p.heads[h] = SlabFields,
         NEW q, Sets(p, h, map, index, free, q)
  PROVE  SetsDone(p, h, map, index, free, q)
<1>1. DOMAIN q.heads = DOMAIN p.heads /\ \A g \in DOMAIN p.heads \ {h} : q.heads[g] = p.heads[g]
  BY DEF Sets, PoolFields
<1>2. /\ DOMAIN q.heads[h] = SlabFields
      /\ q.heads[h].map = map /\ q.heads[h].index = index /\ q.heads[h].free = free
      /\ q.heads[h].chunk_size = p.heads[h].chunk_size /\ q.heads[h].cnt = p.heads[h].cnt
      /\ q.heads[h].pages = p.heads[h].pages /\ q.heads[h].listed = p.heads[h].listed
  BY DEF Sets, PoolFields, SlabFields
<1>3. /\ DOMAIN q = PoolFields /\ q.slabs = p.slabs
      /\ q.pages = p.pages /\ q.page_size = p.page_size /\ q.min_slab = p.min_slab
      /\ q.max_slab = p.max_slab /\ q.map = p.map /\ q.free = p.free /\ q.used = p.used /\ q.ex = p.ex
  BY DEF Sets, PoolFields
<1> QED BY <1>1, <1>2, <1>3 DEF SetsDone

\* Chunks of one slab may change, as long as it remains well cut.
LEMMA SetsGentle ==
  ASSUME NEW p, NEW once \in BOOLEAN, GentlePool(p, once), NEW h \in DOMAIN p.heads,
         NEW now \in BOOLEAN, once => now, NEW map, NEW index, NEW free,
         NEW q, SetsDone(p, h, map, index, free, q), Cut(q.heads[h], q.page_size, now)
  PROVE  GentlePool(q, now)
<1>0. Sized(p) /\ Regular(p) /\ Packed(p) /\ Slabs(p, once)
  BY DEF GentlePool
<1>1. Alike(p, q) /\ q.slabs = p.slabs
  <2>1. DOMAIN p.heads[h] = SlabFields
    BY <1>0 DEF Sized
  <2>2. ASSUME NEW g \in DOMAIN p.heads
        PROVE  /\ DOMAIN q.heads[g] = DOMAIN p.heads[g]
               /\ q.heads[g].pages = p.heads[g].pages /\ q.heads[g].listed = p.heads[g].listed
    BY <2>1 DEF SetsDone
  <2> QED BY <2>2 DEF SetsDone, Alike
<1>2. Sized(q) /\ Regular(q) /\ Packed(q)
  BY <1>0, <1>1, AlikeGentle
<1>3. ASSUME NEW g \in DOMAIN q.heads
      PROVE  Apart(q, g) /\ Cut(q.heads[g], q.page_size, now)
  <2>1. g \in DOMAIN p.heads /\ Apart(p, g) /\ Cut(p.heads[g], p.page_size, once)
    BY <1>0, <1>1 DEF Slabs, Alike
  <2>2. Apart(q, g)
    BY <2>1, <1>1 DEF Apart, Alike
  <2>3. CASE g = h
    BY <2>2, <2>3
  <2>4. CASE g # h
    <3>1. q.heads[g] = p.heads[g] /\ q.page_size = p.page_size
      BY <2>1, <2>4 DEF SetsDone
    <3> QED BY <2>1, <2>2, <3>1 DEF Cut
  <2> QED BY <2>3, <2>4
<1>4. Sorted(q)
  <2>1. \A g \in DOMAIN p.heads : q.heads[g].chunk_size = p.heads[g].chunk_size
    BY DEF SetsDone
  <2>2. q.min_slab = p.min_slab /\ DOMAIN q.heads = DOMAIN p.heads
    BY <1>1 DEF Alike
  <2>3. Sorted(p)
    BY <1>0 DEF Slabs
  <2>4. ASSUME NEW i \in DOMAIN q.slabs
        PROVE  /\ q.slabs[i] \in DOMAIN q.heads \cup {None}
               /\ q.slabs[i] # None => q.heads[q.slabs[i]].chunk_size = (i + 1) * q.min_slab
    <3>1. /\ p.slabs[i] \in DOMAIN p.heads \cup {None}
          /\ p.slabs[i] # None => p.heads[p.slabs[i]].chunk_size = (i + 1) * p.min_slab
      BY <2>3, <1>1 DEF Sorted
    <3> QED BY <3>1, <2>1, <2>2, <1>1
  <2> QED BY <2>4 DEF Sorted
<1> QED BY <1>2, <1>3, <1>4 DEF GentlePool, Slabs

\* s->free--, which wraps around.
Less(free) == (free - 1) % 65536

\* The same in numbers.
Ordered(index, cnt, free, map) == index <= cnt /\ map = 0 .. index - 1 /\ free = cnt - index

\* The counters of a slab that a chunk was given back to.
Reordered(index, cnt, free, map) ==
  /\ map \subseteq 0 .. cnt
  /\ \/ free = 0
     \/ index <= cnt /\ free = cnt - index + 1 /\ \E j \in 0 .. index - 1 : map = (0 .. index - 1) \ {j}
     \/ index < cnt /\ free = 1 /\ map = (0 .. cnt - 1) \ {index}

\* What both kinds of slab have in common.
CutNumbers(s, ps) ==
  /\ s.chunk_size \in Nat /\ s.cnt \in 0 .. MapBytes /\ s.index \in Nat
  /\ (s.cnt + 1) * s.chunk_size <= ps
  /\ s.chunk_size = 0 => s.cnt = 0

\* The two kinds of slab, in these numbers.
LEMMA OrderNumbers ==
  ASSUME NEW s
  PROVE  /\ InOrder(s) <=> Ordered(s.index, s.cnt, s.free, s.map)
         /\ Reopened(s) <=> Reordered(s.index, s.cnt, s.free, s.map)
BY DEF InOrder, Reopened, Ordered, Reordered

\* Slabs whose chunks are taken in order stay so.
LEMMA NextOrdered ==
  ASSUME NEW index \in Nat, NEW cnt \in 0 .. 64, NEW free, NEW map,
         Ordered(index, cnt, free, map), free # 0
  PROVE  /\ index \in 0 .. cnt /\ index \notin map
         /\ Ordered(index + 1, cnt, Less(free), map \cup {index})
<1>1. index <= cnt /\ map = 0 .. index - 1 /\ free = cnt - index
  BY DEF Ordered
<1>2. index < cnt /\ free \in 1 .. 64
  BY <1>1
<1>3. Less(free) = cnt - (index + 1)
  BY <1>1, <1>2 DEF Less
<1>4. map \cup {index} = 0 .. index + 1 - 1
  BY <1>1
<1> QED BY <1>1, <1>2, <1>3, <1>4 DEF Ordered

\* So do the slabs with one chunk that was given back.
LEMMA NextReordered ==
  ASSUME NEW index \in Nat, NEW cnt \in 0 .. 64, NEW free, NEW map,
         Reordered(index, cnt, free, map), free # 0
  PROVE  /\ index \in 0 .. cnt /\ index \notin map
         /\ Reordered(index + 1, cnt, Less(free), map \cup {index})
<1>0. index + 1 - 1 = index
  OBVIOUS
<1>1. CASE /\ index <= cnt /\ free = cnt - index + 1
           /\ \E j \in 0 .. index - 1 : map = (0 .. index - 1) \ {j}
  <2>1. PICK j \in 0 .. index - 1 : map = (0 .. index - 1) \ {j}
    BY <1>1
  <2>2. Less(free) = cnt - index
    BY <1>1 DEF Less
  <2>3. /\ index \notin map /\ index \in 0 .. cnt /\ map \cup {index} = (0 .. index) \ {j}
        /\ j \in 0 .. index /\ map \cup {index} \subseteq 0 .. cnt
    BY <1>1, <2>1
  <2>4. CASE index < cnt
    <3>1. index + 1 <= cnt /\ Less(free) = cnt - (index + 1) + 1
      BY <2>2, <2>4
    <3> QED BY <1>0, <2>3, <3>1 DEF Reordered
  <2>5. CASE index = cnt
    <3>1. Less(free) = 0
      BY <2>2, <2>5
    <3> QED BY <2>3, <3>1 DEF Reordered
  <2>6. index < cnt \/ index = cnt
    BY <2>3
  <2> QED BY ONLY <2>3, <2>4, <2>5, <2>6
<1>2. CASE index < cnt /\ free = 1 /\ map = (0 .. cnt - 1) \ {index}
  <2>1. /\ Less(free) = 0 /\ map \cup {index} \subseteq 0 .. cnt
        /\ index \in 0 .. cnt /\ index \notin map
    BY <1>2 DEF Less
  <2> QED BY <2>1 DEF Reordered
<1>3. \/ /\ index <= cnt /\ free = cnt - index + 1
         /\ \E j \in 0 .. index - 1 : map = (0 .. index - 1) \ {j}
      \/ index < cnt /\ free = 1 /\ map = (0 .. cnt - 1) \ {index}
  BY DEF Reordered
<1> QED BY ONLY <1>1, <1>2, <1>3

\* The next chunk is the one at index, and it is not in use.
LEMMA NextChunk ==
  ASSUME NEW s, NEW ps \in Nat, NEW once \in BOOLEAN, Cut(s, ps, once), s.free # 0,
         NEW t, t.chunk_size = s.chunk_size, t.cnt = s.cnt, t.map = s.map \cup {s.index},
         t.index = s.index + 1, t.free = Less(s.free)
  PROVE  s.index \in 0 .. s.cnt /\ s.index \notin s.map /\ Cut(t, ps, once)
<1> DEFINE i == s.index
           c == s.cnt
           f == s.free
           m == s.map
<1>1. i \in Nat /\ c \in 0 .. 64 /\ f # 0
  BY DEF Cut, MapBytes
<1>2. t.index = i + 1 /\ t.cnt = c /\ t.free = Less(f) /\ t.map = m \cup {i}
  OBVIOUS
<1>3. CutNumbers(t, ps)
  BY DEF CutNumbers, Cut
<1>4. CASE InOrder(s)
  <2>1. Ordered(i, c, f, m)
    BY <1>4, OrderNumbers
  <2> HIDE DEF i, c, f, m
  <2>2. i \in 0 .. c /\ i \notin m /\ Ordered(i + 1, c, Less(f), m \cup {i})
    BY ONLY <1>1, <2>1, NextOrdered
  <2>3. Ordered(t.index, t.cnt, t.free, t.map)
    BY ONLY <1>2, <2>2
  <2>4. InOrder(t)
    BY ONLY <2>3, OrderNumbers
  <2> QED BY <2>2, <2>4, <1>3 DEF i, c, m, Cut, CutNumbers
<1>5. CASE once /\ Reopened(s)
  <2>1. Reordered(i, c, f, m)
    BY <1>5, OrderNumbers
  <2> HIDE DEF i, c, f, m
  <2>2. i \in 0 .. c /\ i \notin m /\ Reordered(i + 1, c, Less(f), m \cup {i})
    BY ONLY <1>1, <2>1, NextReordered
  <2>3. Reordered(t.index, t.cnt, t.free, t.map)
    BY ONLY <1>2, <2>2
  <2>4. Reopened(t)
    BY ONLY <2>3, OrderNumbers
  <2> QED BY <2>2, <2>4, <1>3, <1>5 DEF i, c, m, Cut, CutNumbers
<1> QED BY <1>4, <1>5 DEF Cut

\* The chunk that the second half of _alloc_mm takes.
Took(p, once, h, t) ==
  /\ GentlePool(t.pool, once) /\ Kept(p, t.pool)
  /\ \E i \in Nat :
       /\ i \notin p.heads[h].map /\ t.at = h * p.page_size + i * p.heads[h].chunk_size
       /\ t.pool.heads[h].map = p.heads[h].map \cup {i}
  /\ h \in DOMAIN t.pool.heads /\ t.pool.heads[h].chunk_size = p.heads[h].chunk_size

\* The second half of _alloc_mm keeps the pool sound, and returns a chunk that
\* was not in use.
LEMMA TakeGentle ==
  ASSUME NEW p, NEW once \in BOOLEAN, GentlePool(p, once), NEW h \in DOMAIN p.heads,
         p.heads[h].free # 0
  PROVE  Took(p, once, h, Take(p, h))
<1> DEFINE s == p.heads[h]
           t == Take(p, h)
           q == t.pool
           free == Less(s.free)
<1>0. /\ Sized(p) /\ DOMAIN p = PoolFields /\ DOMAIN s = SlabFields /\ p.page_size \in Nat
      /\ Cut(s, p.page_size, once)
  BY DEF GentlePool, Sized, Fixed, Slabs
<1>1. s.index < s.cnt \/ s.index \notin s.map
  <2>1. CASE InOrder(s)
    BY <2>1, <1>0 DEF InOrder, Cut
  <2>2. CASE Reopened(s)
    BY <2>2, <1>0 DEF Reopened, Cut
  <2> QED BY <1>0, <2>1, <2>2 DEF Cut
<1>2. t.at = h * p.page_size + s.index * s.chunk_size
  BY <1>1 DEF Take
<1>3. Sets(p, h, s.map \cup {s.index}, s.index + 1, free, q)
  <2>1. 2^16 = 65536
    OBVIOUS
  <2>2. t = [at |-> h * p.page_size + s.index * s.chunk_size,
             pool |-> [p EXCEPT !.heads[h].map = @ \cup {s.index},
                                !.heads[h].index = s.index + 1,
                                !.heads[h].free = (@ - 1) % 2^16]]
    BY <1>1 DEF Take
  <2> HIDE DEF t
  <2>3. t.pool = [p EXCEPT !.heads[h].map = @ \cup {s.index},
                           !.heads[h].index = s.index + 1,
                           !.heads[h].free = (@ - 1) % 2^16]
    BY <2>2
  <2> QED BY <2>1, <2>3, <1>0 DEF Sets, PoolFields, SlabFields, Less
<1> HIDE DEF q, t, free
<1>4. SetsDone(p, h, s.map \cup {s.index}, s.index + 1, free, q)
  BY <1>0, <1>3, SetsFields
<1>5. s.index \in 0 .. s.cnt /\ s.index \notin s.map /\ Cut(q.heads[h], p.page_size, once)
  <2>1. /\ q.heads[h].chunk_size = s.chunk_size /\ q.heads[h].cnt = s.cnt
        /\ q.heads[h].map = s.map \cup {s.index} /\ q.heads[h].index = s.index + 1
        /\ q.heads[h].free = Less(s.free)
    BY <1>4 DEF SetsDone, free
  <2>2. s.free # 0
    OBVIOUS
  <2> HIDE DEF s
  <2> QED BY ONLY <1>0, <2>1, <2>2, NextChunk, once \in BOOLEAN
<1>6. q.page_size = p.page_size
  BY <1>4 DEF SetsDone
<1>7. GentlePool(q, once)
  BY <1>4, <1>5, <1>6, SetsGentle
<1>8. Kept(p, q)
  BY <1>4 DEF SetsDone, Kept, SameChunks
<1>9. s.index \in Nat
  BY <1>5, <1>0 DEF Cut
<1>10. h \in DOMAIN q.heads /\ q.heads[h].chunk_size = s.chunk_size /\ q.heads[h].map = s.map \cup {s.index}
  BY <1>4 DEF SetsDone
<1> QED BY <1>2, <1>5, <1>7, <1>8, <1>9, <1>10 DEF Took, q, t

-----------------------------------------------------------------------------
(* The sizes of a gentle client *)

\* The longest block that a client asks for.
Longest == 2^18

\* Its value.
LEMMA LongestIs == Longest = 262144 /\ Longest \in Nat
BY DEF Longest

\* Its type.
LEMMA LongestNat == Longest \in Nat
BY LongestIs

\* The type of the length of a block.
LEMMA Lengths == ASSUME NEW n \in 0 .. Longest PROVE n \in Nat
BY LongestNat

\* The places of malloc are further apart than a block is long.
LEMMA FarIs == Far \in Nat /\ Far > Longest /\ Far > 1
BY DEF Far, Longest

\* The size a client gets is a multiple of the least size, and has room for
\* what it asked for.
LEMMA RoundedFacts ==
  ASSUME client \in Clients, Sized(pool), Regular(pool), NEW req \in client.asks
  PROVE  /\ Rounded(req) \in Nat /\ req \in 0 .. Longest /\ req <= Rounded(req)
         /\ \E k \in Nat : k >= 1 /\ Rounded(req) = k * pool.min_slab
<1> DEFINE v == AtLeast(req, MIN_CHUNK)
           m == pool.min_slab
           r == RoundUp(v, m)
<1>1. req \in 0 .. Longest
  BY ClientFacts DEF Longest
<1>2. v \in Nat /\ v >= 8 /\ v >= req /\ v <= Longest
  <2>1. Longest \in Nat /\ Longest >= 8
    BY LongestIs
  <2> QED BY ONLY <1>1, <2>1 DEF AtLeast, MIN_CHUNK
<1>3. m \in Nat /\ m > 0 /\ PowerOfTwo(m) /\ m <= 131072
  BY PageSizeFacts DEF Sized, Fixed, MIN_CHUNK
<1> HIDE DEF v, m
<1>4. v + m <= Two[19]
  <2>1. Two[19] = 524288
    BY TwoValues
  <2> QED BY ONLY <2>1, <1>2, <1>3, LongestIs
<1>5. (\E q \in Nat : r = q * m) /\ v <= r
  BY <1>2, <1>3, <1>4, RoundUpPower
<1>6. PICK q \in Nat : r = q * m
  BY <1>5
<1> HIDE DEF r
<1>7. r \in Nat /\ r > 0
  BY <1>2, <1>3, <1>5, <1>6
<1>8. q >= 1
  <2>1. q = 0 => q * m = 0
    BY <1>3
  <2> QED BY <2>1, <1>6, <1>7
<1>9. r >= m
  <2>1. 1 * m <= q * m
    BY ONLY <1>3, <1>8, MulMono
  <2> QED BY <2>1, <1>3, <1>6
<1>10. Rounded(req) = r
  <2>1. Rounded(req) = AtLeast(r, m)
    BY DEF Rounded, r, v, m
  <2> QED BY <2>1, <1>9, <1>3, <1>7 DEF AtLeast
<1> QED BY <1>1, <1>2, <1>5, <1>6, <1>7, <1>8, <1>10 DEF m

\* What the property calls a moderate size is one that _alloc_mm can cut.
LEMMA ModerateSuits ==
  ASSUME client \in Clients, Sized(pool), Regular(pool), NEW req \in client.asks,
         Moderate(Rounded(req)), Rounded(req) <= pool.max_slab
  PROVE  SizeOf(pool, Rounded(req)) /\ Suits(pool, Rounded(req))
<1> DEFINE size == Rounded(req)
<1>1. size \in Nat /\ \E k \in Nat : k >= 1 /\ size = k * pool.min_slab
  BY RoundedFacts
<1>2. Moderate(size) /\ size <= pool.max_slab
  OBVIOUS
<1>3. pool.max_slab \in Nat
  BY DEF Sized, Fixed
<1> HIDE DEF size
<1>4. SizeOf(pool, size)
  BY <1>1, <1>2 DEF SizeOf
<1>5. Suits(pool, size)
  BY <1>1, <1>2, <1>3 DEF Suits, Moderate
<1> QED BY <1>4, <1>5 DEF size

-----------------------------------------------------------------------------
(* The blocks of a gentle client *)

\* The places of malloc.
Places(p) == {-k * Far : k \in 1 .. MaxExt} \cup {End(p) + k * Far : k \in 1 .. MaxExt}

\* A block is a chunk of the pool, or it is one of malloc.
InChunk(p, b) ==
  \E h \in DOMAIN p.heads : \E j \in p.heads[h].map :
    b.at = h * p.page_size + j * p.heads[h].chunk_size /\ b.len <= p.heads[h].chunk_size

\* A block of malloc, at a place that has a node of the list.
Outside(p, x, b) == b.at \in Places(p) /\ b.at \in DOMAIN x

\* Every block is one of the two.
Placed(p, x, b) == b.len \in 0 .. Longest /\ (InChunk(p, b) \/ Outside(p, x, b))

\* No two blocks that the client holds are at the same place.
Held(p, x, held) ==
  \A b \in DOMAIN held :
    held[b] = 1 /\ Placed(p, x, b) /\ \A c \in DOMAIN held \ {b} : b.at # c.at

\* A place of malloc is far from the pool and from the other ones.
LEMMA PlaceFacts ==
  ASSUME NEW p, Sized(p), NEW a \in Places(p)
  PROVE  /\ End(p) \in Nat /\ a \in Int /\ a # None /\ (a <= -Far \/ a >= End(p) + Far)
         /\ \A c \in Places(p) : a < c => a + Far <= c
<1> DEFINE e == End(p)
           f == Far
<1>0. MaxExt \in Nat /\ e \in Nat /\ f \in Nat /\ f > 1
  <2>1. MaxExt \in Nat
    BY MemoryPoolAssumption, Zenon
  <2>2. p.pages \in Nat /\ p.page_size \in Nat
    BY DEF Sized, Fixed
  <2>3. e \in Nat
    BY <2>2 DEF End
  <2>4. f \in Nat /\ f > 1
    BY ONLY FarIs
  <2> QED BY ONLY <2>1, <2>3, <2>4
<1> HIDE DEF e, f
<1>1. ASSUME NEW c \in Places(p)
      PROVE  \E k \in Int : (c = k * f /\ k <= -1) \/ (c = e + k * f /\ k >= 1)
  <2>1. CASE c \in {-k * Far : k \in 1 .. MaxExt}
    <3>1. PICK k \in 1 .. MaxExt : c = -k * f
      BY <2>1 DEF f
    <3> DEFINE l == -k
    <3>2. l \in Int /\ l <= -1 /\ c = l * f
      BY <1>0, <3>1
    <3>3. (c = l * f /\ l <= -1) \/ (c = e + l * f /\ l >= 1)
      BY <3>2
    <3> HIDE DEF l
    <3> QED BY <3>2, <3>3
  <2>2. CASE c \in {End(p) + k * Far : k \in 1 .. MaxExt}
    <3>1. PICK k \in 1 .. MaxExt : c = e + k * f
      BY <2>2 DEF e, f
    <3>2. k \in Int /\ k >= 1
      BY <1>0
    <3> QED BY ONLY <3>1, <3>2
  <2> QED BY <2>1, <2>2 DEF Places
<1>2. PICK k \in Int : (a = k * f /\ k <= -1) \/ (a = e + k * f /\ k >= 1)
  BY <1>1
<1>3. /\ k <= -1 => k * f <= (-1) * f
      /\ k >= 1 => 1 * f <= k * f
      /\ k * f \in Int /\ (-1) * f = -f
  BY ONLY <1>0, MulMono
<1>4. a \in Int /\ a # None /\ (a <= -f \/ a >= e + f)
  BY ONLY <1>0, <1>2, <1>3 DEF None
<1>5. ASSUME NEW c \in Places(p), a < c
      PROVE  a + f <= c
  <2>1. PICK l \in Int : (c = l * f /\ l <= -1) \/ (c = e + l * f /\ l >= 1)
    BY <1>1
  <2>2. /\ k < l => (k + 1) * f <= l * f
        /\ l <= k => l * f <= k * f
        /\ l >= 1 => 1 * f <= l * f
        /\ l <= -1 => l * f <= (-1) * f
        /\ (k + 1) * f = k * f + f /\ l * f \in Int
    BY ONLY <1>0, MulMono
  <2> QED BY ONLY <1>0, <1>2, <1>3, <2>1, <2>2, <1>5, k \in Int, l \in Int
<1> QED BY <1>0, <1>4, <1>5 DEF e, f

\* A chunk in use ends in the first page of its slab.
LEMMA ChunkFacts ==
  ASSUME NEW p, NEW once \in BOOLEAN, GentlePool(p, once),
         NEW h \in DOMAIN p.heads, NEW j \in p.heads[h].map
  PROVE  /\ h \in 0 .. p.pages - 1 /\ p.pages \in Nat
         /\ p.page_size \in Nat /\ p.page_size > 0
         /\ p.heads[h].chunk_size \in Nat /\ p.heads[h].cnt \in Nat /\ j \in 0 .. p.heads[h].cnt
         /\ j * p.heads[h].chunk_size \in Nat
         /\ j * p.heads[h].chunk_size + p.heads[h].chunk_size <= p.page_size
<1> DEFINE s == p.heads[h]
           ps == p.page_size
           z == s.chunk_size
<1>1. p.pages \in Nat /\ ps \in Nat /\ ps > 0 /\ p.map \subseteq 0 .. p.pages - 1
  BY DEF GentlePool, Sized, Fixed, PAGE_SIZE
<1>2. Cut(s, ps, once) /\ h \in p.map
  BY DEF GentlePool, Slabs, Apart
<1>3. z \in Nat /\ s.cnt \in 0 .. MapBytes /\ s.index \in Nat /\ (s.cnt + 1) * z <= ps
  BY <1>2 DEF Cut
<1>4. s.cnt \in Nat
  BY <1>3 DEF MapBytes
<1>5. j \in 0 .. s.cnt
  <2>1. CASE InOrder(s)
    <3>1. s.index <= s.cnt /\ j \in 0 .. s.index - 1
      BY <2>1 DEF InOrder
    <3> HIDE DEF s
    <3> QED BY ONLY <3>1, <1>3, <1>4
  <2>2. CASE Reopened(s)
    BY <2>2 DEF Reopened
  <2> QED BY <1>2, <2>1, <2>2 DEF Cut
<1> DEFINE cnt == s.cnt
<1> HIDE DEF z, s, cnt
<1>6. (j + 1) * z <= (cnt + 1) * z
  <2>1. j + 1 \in Int /\ cnt + 1 \in Int /\ j + 1 <= cnt + 1
    BY ONLY <1>4, <1>5 DEF cnt
  <2> QED BY ONLY <2>1, <1>3, MulMono
<1>7. j \in Nat /\ (j + 1) * z = j * z + z /\ j * z \in Nat
  BY ONLY <1>3, <1>4, <1>5
<1>8. j * z + z <= ps
  BY ONLY <1>3, <1>6, <1>7, <1>1, <1>4 DEF cnt
<1> QED BY <1>1, <1>2, <1>3, <1>4, <1>5, <1>7, <1>8 DEF z, s

\* Two chunks in use, the first one in an earlier place.
LEMMA ChunksApart ==
  ASSUME NEW p, NEW once \in BOOLEAN, GentlePool(p, once),
         NEW g \in DOMAIN p.heads, NEW i \in p.heads[g].map,
         NEW h \in DOMAIN p.heads, NEW j \in p.heads[h].map,
         g < h \/ (g = h /\ i < j)
  PROVE  g * p.page_size + i * p.heads[g].chunk_size + p.heads[g].chunk_size
           <= h * p.page_size + j * p.heads[h].chunk_size
<1> DEFINE ps == p.page_size
           y == p.heads[g].chunk_size
           z == p.heads[h].chunk_size
<1>1. g \in Nat /\ ps \in Nat /\ y \in Nat /\ i \in Nat /\ i * y \in Nat /\ i * y + y <= ps
  BY ChunkFacts
<1>2. h \in Nat /\ z \in Nat /\ j \in Nat /\ j * z \in Nat
  BY ChunkFacts
<1>3. g = h => y = z
  OBVIOUS
<1> HIDE DEF ps, y, z
<1>4. CASE g < h
  <2>1. (g + 1) * ps <= h * ps
    BY ONLY <1>1, <1>2, <1>4, MulMono
  <2>2. (g + 1) * ps = g * ps + ps /\ g * ps \in Nat /\ h * ps \in Nat
    BY <1>1, <1>2
  <2>3. g * ps + i * y + y <= h * ps + j * z
    BY <2>1, <2>2, <1>1, <1>2
  <2> QED BY <2>3 DEF ps, y, z
<1>5. CASE g = h /\ i < j
  <2>1. (i + 1) * z <= j * z
    BY ONLY <1>1, <1>2, <1>5, MulMono
  <2>2. (i + 1) * z = i * z + z /\ g * ps \in Nat /\ i * z \in Nat
    BY <1>1, <1>2
  <2>3. g * ps + i * y + y <= h * ps + j * z
    BY <2>1, <2>2, <1>1, <1>2, <1>3, <1>5
  <2> QED BY <2>3 DEF ps, y, z
<1> QED BY <1>4, <1>5

\* A chunk lies in the pool.
LEMMA ChunkInside ==
  ASSUME NEW p, NEW once \in BOOLEAN, GentlePool(p, once), NEW b, InChunk(p, b), b.len \in Nat
  PROVE  b.at \in Nat /\ b.at < End(p) /\ b.at + b.len <= End(p) /\ End(p) \in Nat
<1>0. PICK h \in DOMAIN p.heads : \E j \in p.heads[h].map :
        b.at = h * p.page_size + j * p.heads[h].chunk_size /\ b.len <= p.heads[h].chunk_size
  BY DEF InChunk
<1>1. PICK j \in p.heads[h].map :
        b.at = h * p.page_size + j * p.heads[h].chunk_size /\ b.len <= p.heads[h].chunk_size
  BY <1>0
<1> DEFINE ps == p.page_size
           z == p.heads[h].chunk_size
<1>2. /\ h \in 0 .. p.pages - 1 /\ p.pages \in Nat /\ ps \in Nat /\ ps > 0 /\ z \in Nat
      /\ j \in Nat /\ j * z \in Nat /\ j * z + z <= ps
  BY ChunkFacts
<1>3. j * z < ps
  <2>1. z = 0 => j * z = 0
    BY <1>2
  <2> HIDE DEF ps, z
  <2> QED BY <1>2, <2>1
<1> HIDE DEF ps, z
<1> DEFINE n == p.pages
<1>4. (h + 1) * ps <= n * ps
  <2>1. h + 1 \in Int /\ n \in Int /\ h + 1 <= n
    BY ONLY <1>2
  <2> HIDE DEF n
  <2> QED BY ONLY <2>1, <1>2, MulMono
<1>5. (h + 1) * ps = h * ps + ps /\ h * ps \in Nat /\ p.pages * ps \in Nat
  BY <1>2
<1>6. End(p) = p.pages * ps
  BY DEF End, ps
<1>7. b.at = h * ps + j * z /\ b.len <= z
  BY <1>1 DEF ps, z
<1> QED BY <1>2, <1>3, <1>4, <1>5, <1>6, <1>7

\* No two chunks in use begin at the same place.
LEMMA ChunksDiffer ==
  ASSUME NEW p, NEW once \in BOOLEAN, GentlePool(p, once),
         NEW g \in DOMAIN p.heads, NEW i \in p.heads[g].map,
         NEW h \in DOMAIN p.heads, NEW j \in p.heads[h].map,
         g # h \/ i # j, p.heads[h].chunk_size # 0
  PROVE  g * p.page_size + i * p.heads[g].chunk_size # h * p.page_size + j * p.heads[h].chunk_size
<1> DEFINE ps == p.page_size
           y == p.heads[g].chunk_size
           z == p.heads[h].chunk_size
<1>1. /\ g \in Nat /\ ps \in Nat /\ ps > 0 /\ y \in Nat /\ i \in Nat /\ i * y \in Nat /\ i * y + y <= ps
      /\ h \in Nat /\ z \in Nat /\ j \in Nat /\ j * z \in Nat /\ j * z + z <= ps /\ z # 0
  BY ChunkFacts
<1>2. (g = h => y = z) /\ (g # h \/ i # j)
  OBVIOUS
<1> HIDE DEF ps, y, z
<1>3. i * y < ps
  <2>1. y = 0 => i * y = 0
    BY <1>1
  <2> QED BY <1>1, <2>1
<1>4. (g + 1) * ps = g * ps + ps /\ (h + 1) * ps = h * ps + ps /\ g * ps \in Nat /\ h * ps \in Nat
  BY <1>1
<1>5. CASE g < h
  <2>1. (g + 1) * ps <= h * ps
    BY ONLY <1>1, <1>5, MulMono
  <2>2. g * ps + i * y # h * ps + j * z
    BY <2>1, <1>1, <1>3, <1>4
  <2> QED BY <2>2 DEF ps, y, z
<1>6. CASE h < g
  <2>0. h + 1 \in Int /\ g \in Int /\ h + 1 <= g
    BY ONLY <1>1, <1>6
  <2>1. (h + 1) * ps <= g * ps
    BY ONLY <2>0, <1>1, MulMono
  <2>2. g * ps + i * y # h * ps + j * z
    BY <2>1, <1>1, <1>4
  <2> QED BY <2>2 DEF ps, y, z
<1>7. CASE g = h
  <2>0. i # j /\ i * y = i * z
    BY <1>2, <1>7
  <2>1. i < j => (i + 1) * z <= j * z
    BY ONLY <1>1, MulMono
  <2>2. j < i => (j + 1) * z <= i * z
    BY ONLY <1>1, MulMono
  <2>3. (i + 1) * z = i * z + z /\ (j + 1) * z = j * z + z /\ i * z \in Nat
    BY <1>1
  <2>4. g * ps + i * y # h * ps + j * z
    BY <2>0, <2>1, <2>2, <2>3, <1>1, <1>4, <1>7
  <2> QED BY <2>4 DEF ps, y, z
<1> QED BY <1>1, <1>5, <1>6, <1>7

\* A block that stays is placed in the pools that come.
LEMMA PlacedOn ==
  ASSUME NEW p, NEW x, NEW q, NEW y, NEW b, Placed(p, x, b), SameChunks(p, q),
         b.at \in DOMAIN x => b.at \in DOMAIN y
  PROVE  Placed(q, y, b)
<1>1. Places(q) = Places(p)
  BY DEF Places, End, SameChunks
<1>2. CASE InChunk(p, b)
  <2>1. PICK h \in DOMAIN p.heads : \E j \in p.heads[h].map :
          b.at = h * p.page_size + j * p.heads[h].chunk_size /\ b.len <= p.heads[h].chunk_size
    BY <1>2 DEF InChunk
  <2>2. PICK j \in p.heads[h].map :
          b.at = h * p.page_size + j * p.heads[h].chunk_size /\ b.len <= p.heads[h].chunk_size
    BY <2>1
  <2>3. /\ q.page_size = p.page_size /\ h \in DOMAIN q.heads
        /\ q.heads[h].chunk_size = p.heads[h].chunk_size /\ j \in q.heads[h].map
    BY DEF SameChunks
  <2>4. b.at = h * q.page_size + j * q.heads[h].chunk_size /\ b.len <= q.heads[h].chunk_size
    BY <2>2, <2>3
  <2>5. InChunk(q, b)
    BY <2>3, <2>4 DEF InChunk
  <2> QED BY <2>5 DEF Placed
<1>3. CASE Outside(p, x, b)
  BY <1>1, <1>3 DEF Outside, Placed
<1> QED BY <1>2, <1>3 DEF Placed

\* Blocks stay held while the pool grows.
LEMMA HeldOn ==
  ASSUME NEW p, NEW x, NEW held, Held(p, x, held), NEW q, NEW y,
         SameChunks(p, q), DOMAIN x \subseteq DOMAIN y
  PROVE  Held(q, y, held)
<1>1. ASSUME NEW b \in DOMAIN held
      PROVE  held[b] = 1 /\ Placed(q, y, b) /\ \A c \in DOMAIN held \ {b} : b.at # c.at
  <2>1. held[b] = 1 /\ Placed(p, x, b) /\ \A c \in DOMAIN held \ {b} : b.at # c.at
    BY DEF Held
  <2>2. Placed(q, y, b)
    BY <2>1, PlacedOn
  <2> QED BY <2>1, <2>2
<1> QED BY <1>1 DEF Held

\* A block at a new place is added.
LEMMA HeldMore ==
  ASSUME NEW p, NEW x, NEW held, Held(p, x, held), NEW q, NEW y,
         SameChunks(p, q), DOMAIN x \subseteq DOMAIN y,
         NEW b, Placed(q, y, b), \A c \in DOMAIN held : c.at # b.at
  PROVE  Held(q, y, Bag!BagAdd(held, b))
<1>1. Held(q, y, held)
  BY HeldOn
<1>2. b \notin DOMAIN held
  OBVIOUS
<1>3. Bag!BagAdd(held, b) = [e \in DOMAIN held \cup {b} |-> IF e = b THEN 1 ELSE held[e]]
  BY <1>2 DEF Bag!BagAdd
<1> QED BY <1>1, <1>2, <1>3 DEF Held

\* A block is removed.
LEMMA HeldLess ==
  ASSUME NEW p, NEW x, NEW held, Held(p, x, held), NEW q, NEW y, NEW b \in DOMAIN held,
         \A c \in DOMAIN held \ {b} : Placed(q, y, c)
  PROVE  Held(q, y, Bag!BagRemove(held, b))
<1>1. Bag!BagRemove(held, b) = [e \in DOMAIN held \ {b} |-> held[e]]
  BY DEF Bag!BagRemove, Held
<1> QED BY <1>1 DEF Held

-----------------------------------------------------------------------------
(* The list of the blocks of malloc *)

\* A rank that falls along the list, which so ends.
Falls(x, r) == r \in [DOMAIN x -> Nat] /\ \A e \in DOMAIN x : x[e] # None => r[x[e]] < r[e]

\* The nodes form one list, which ends, and nothing points to its first node
\* but pool->ex.
Chained(p, x) ==
  /\ IsFiniteSet(DOMAIN x) /\ DOMAIN x \subseteq Places(p)
  /\ p.ex \in DOMAIN x \cup {None}
  /\ \A e \in DOMAIN x : x[e] \in DOMAIN x \cup {None}
  /\ \A e, f \in DOMAIN x : x[e] # None /\ e # f => x[e] # x[f]
  /\ \A e \in DOMAIN x : x[e] # None => x[e] # p.ex
  /\ \E r : Falls(x, r)

\* The list does not depend on the slabs.
LEMMA ChainedOn ==
  ASSUME NEW p, NEW x, Chained(p, x), NEW q,
         q.pages = p.pages, q.page_size = p.page_size, q.ex = p.ex
  PROVE  Chained(q, x)
<1>1. Places(q) = Places(p) /\ q.ex = p.ex
  BY DEF Places, End
<1> QED BY <1>1 DEF Chained

\* A node at a place, in front of the first one.
Added(p, x, at, y) == y = [e \in DOMAIN x \cup {at} |-> IF e = at THEN p.ex ELSE x[e]]

\* alloc_ext_mm adds a node.
LEMMA ChainedMore ==
  ASSUME NEW p, NEW x, Chained(p, x), NEW at \in Places(p), at \notin DOMAIN x,
         NEW q, SameChunks(p, q), q.ex = at,
         NEW y, Added(p, x, at, y)
  PROVE  Chained(q, y)
<1>1. Places(q) = Places(p)
  BY DEF Places, End, SameChunks
<1>2. IsFiniteSet(DOMAIN y)
  <2>1. DOMAIN y = DOMAIN x \cup {at} /\ IsFiniteSet(DOMAIN x)
    BY DEF Chained, Added
  <2> QED BY ONLY <2>1, FS_AddElement
<1>3. /\ DOMAIN y = DOMAIN x \cup {at} /\ y[at] = p.ex /\ \A e \in DOMAIN x : y[e] = x[e] /\ e # at
  BY DEF Added
<1>4. PICK r : Falls(x, r)
  BY DEF Chained
<1> DEFINE top == IF p.ex = None THEN 0 ELSE r[p.ex] + 1
           t == [e \in DOMAIN y |-> IF e = at THEN top ELSE r[e]]
<1>5. top \in Nat /\ (p.ex # None => r[p.ex] < top /\ p.ex \in DOMAIN x)
  BY <1>4 DEF Chained, Falls
<1>6. Falls(y, t)
  <2>1. t \in [DOMAIN y -> Nat]
    <3> HIDE DEF top
    <3> QED BY <1>3, <1>4, <1>5 DEF Falls
  <2>2. ASSUME NEW e \in DOMAIN y, y[e] # None
        PROVE  t[y[e]] < t[e]
    <3>1. CASE e = at
      BY <3>1, <2>2, <1>3, <1>5
    <3>2. CASE e # at
      <4>1. e \in DOMAIN x /\ y[e] = x[e] /\ x[e] \in DOMAIN x
        BY <3>2, <2>2, <1>3 DEF Chained
      <4> QED BY <4>1, <3>2, <2>2, <1>3, <1>4 DEF Falls
    <3> QED BY <3>1, <3>2
  <2> QED BY <2>1, <2>2 DEF Falls
<1>7. DOMAIN y \subseteq Places(q) /\ q.ex \in DOMAIN y \cup {None}
  BY <1>1, <1>3 DEF Chained
<1>8. \A e \in DOMAIN y : y[e] \in DOMAIN y \cup {None}
  BY <1>3 DEF Chained
<1>9. \A e, f \in DOMAIN y : y[e] # None /\ e # f => y[e] # y[f]
  BY <1>3 DEF Chained
<1>10. \A e \in DOMAIN y : y[e] # None => y[e] # q.ex
  BY <1>3 DEF Chained
<1> QED BY <1>2, <1>6, <1>7, <1>8, <1>9, <1>10 DEF Chained

\* Without the node at d, which the one at c points to.
Dropped(x, d, c, y) == y = [e \in DOMAIN x \ {d} |-> IF e = c THEN x[d] ELSE x[e]]

\* A node behind another one is removed.
LEMMA ChainedLess ==
  ASSUME NEW p, Sized(p), NEW x, Chained(p, x), NEW d \in DOMAIN x, NEW c \in DOMAIN x, x[c] = d,
         NEW y, Dropped(x, d, c, y)
  PROVE  Chained(p, y)
<1>1. DOMAIN y = DOMAIN x \ {d} /\ \A e \in DOMAIN y : y[e] = IF e = c THEN x[d] ELSE x[e]
  BY DEF Dropped
<1>2. IsFiniteSet(DOMAIN y)
  <2>1. DOMAIN y \in SUBSET DOMAIN x /\ IsFiniteSet(DOMAIN x)
    BY <1>1 DEF Chained
  <2> QED BY ONLY <2>1, FS_Subset
<1>3. PICK r : Falls(x, r)
  BY DEF Chained
<1>4. d # None
  BY PlaceFacts DEF Chained
<1>5. c # d /\ (x[d] # None => x[d] # d)
  <2>1. \A e \in DOMAIN x : x[e] # None => r[x[e]] < r[e] /\ r[e] \in Nat
    BY <1>3 DEF Falls
  <2>2. x[d] # d
    <3>1. x[d] = d => r[d] < r[d] /\ r[d] \in Nat
      BY <2>1, <1>4
    <3> QED BY <3>1
  <2> QED BY <2>2
<1>6. \A e \in DOMAIN y : y[e] # None => y[e] # d
  BY <1>1, <1>4, <1>5 DEF Chained
<1>7. \A e \in DOMAIN y : y[e] \in DOMAIN y \cup {None}
  BY <1>1, <1>6 DEF Chained
<1>8. p.ex \in DOMAIN y \cup {None}
  BY <1>1, <1>4 DEF Chained
<1>9. \A e, f \in DOMAIN y : y[e] # None /\ e # f => y[e] # y[f]
  BY <1>1 DEF Chained
<1>10. \A e \in DOMAIN y : y[e] # None => y[e] # p.ex
  BY <1>1 DEF Chained
<1>11. Falls(y, [e \in DOMAIN y |-> r[e]])
  <2> DEFINE t == [e \in DOMAIN y |-> r[e]]
  <2>1. t \in [DOMAIN y -> Nat]
    BY <1>1, <1>3 DEF Falls
  <2>2. ASSUME NEW e \in DOMAIN y, y[e] # None
        PROVE  t[y[e]] < t[e]
    <3>0. y[e] \in DOMAIN y /\ e \in DOMAIN x /\ y[e] \in DOMAIN x
      BY <2>2, <1>1, <1>7
    <3>1. CASE e = c
      <4>1. y[e] = x[d] /\ r[x[d]] < r[d] /\ r[d] < r[c]
        BY <3>0, <3>1, <2>2, <1>1, <1>3, <1>4 DEF Falls
      <4>2. r[x[d]] \in Nat /\ r[d] \in Nat /\ r[c] \in Nat
        BY <3>0, <4>1, <1>3 DEF Falls
      <4> QED BY <3>0, <3>1, <4>1, <4>2
    <3>2. CASE e # c
      BY <3>0, <3>2, <2>2, <1>1, <1>3 DEF Falls
    <3> QED BY <3>1, <3>2
  <2> QED BY <2>1, <2>2 DEF Falls
<1>12. DOMAIN y \subseteq Places(p)
  BY <1>1 DEF Chained
<1> QED BY <1>2, <1>7, <1>8, <1>9, <1>10, <1>11, <1>12 DEF Chained

\* The nodes that the search in pool->ex comes by.
Walk(node, n) ==
  /\ node \in [0 .. n -> DOMAIN ext \cup {None}] /\ node[0] = pool.ex
  /\ \A i \in 1 .. n : node[i] = IF node[i - 1] \in DOMAIN ext THEN ext[node[i - 1]] ELSE None

\* The function of the model is such a walk.
LEMMA NodeWalk ==
  ASSUME Chained(pool, ext), NEW at
  PROVE  /\ Cardinality(DOMAIN ext) \in Nat
         /\ Walk(Node(at), Cardinality(DOMAIN ext) + 1)
<1> DEFINE S == DOMAIN ext \cup {None}
           n == Cardinality(DOMAIN ext) + 1
           step == [w \in S |-> IF w \in DOMAIN ext THEN ext[w] ELSE None]
           g == [i \in 1 .. n |-> step]
           F(u) == u = [i \in 0 .. Cardinality(DOMAIN ext) + 1 |->
                          IF i = 0 THEN pool.ex
                          ELSE IF u[i - 1] \in DOMAIN ext THEN ext[u[i - 1]] ELSE None]
<1>1. Cardinality(DOMAIN ext) \in Nat /\ n \in Nat /\ pool.ex \in S
  BY FS_CardinalityType DEF Chained
<1>2. g \in [1 .. n -> [S -> S]]
  BY DEF Chained
<1>3. PICK v : Iterated(S, pool.ex, g, n, v)
  <2> HIDE DEF g, S, n
  <2> QED BY <1>1, <1>2, IterationExists
<1>4. /\ v \in [0 .. n -> S] /\ v[0] = pool.ex
      /\ \A i \in 1 .. n : v[i - 1] \in S /\ v[i] = step[v[i - 1]]
  <2>1. /\ v \in [0 .. n -> S] /\ v[0] = pool.ex
        /\ \A i \in 1 .. n : v[i] = g[i][v[i - 1]]
    BY <1>3 DEF Iterated
  <2>2. \A i \in 1 .. n : g[i] = step /\ i - 1 \in 0 .. n
    BY <1>1
  <2> HIDE DEF g, S, n, step
  <2> QED BY <2>1, <2>2
<1>5. \A i \in 1 .. n : v[i] = IF v[i - 1] \in DOMAIN ext THEN ext[v[i - 1]] ELSE None
  BY <1>4
<1> HIDE DEF step, g
<1>6. F(v)
  BY <1>1, <1>4, <1>5
<1> DEFINE a == CHOOSE u : F(u)
<1>7. Node(at) = a
  BY DEF Node
<1>8. F(a)
  <2> HIDE DEF F
  <2> QED BY <1>6
<1>9. \A i \in 0 .. n : a[i] = v[i]
  <2> DEFINE D == {i \in 0 .. n : a[i] # v[i]}
  <2> HIDE DEF a
  <2>0. /\ a[0] = pool.ex
        /\ \A i \in 1 .. n : a[i] = IF a[i - 1] \in DOMAIN ext THEN ext[a[i - 1]] ELSE None
    BY <1>1, <1>8
  <2> SUFFICES ASSUME D # {} PROVE FALSE
    OBVIOUS
  <2>1. D \subseteq Nat
    OBVIOUS
  <2>2. PICK k \in D : \A j \in D : k <= j
    <3> HIDE DEF D
    <3> QED BY <2>1, LeastNumber
  <2>3. k \in 1 .. n /\ k - 1 \in 0 .. n /\ k - 1 \notin D
    <3>1. k \in 0 .. n /\ a[k] # v[k]
      BY <2>2
    <3>2. k # 0
      BY <3>1, <2>0, <1>4
    <3>3. k \in 1 .. n /\ k - 1 \in 0 .. n /\ ~(k <= k - 1)
      BY <3>1, <3>2, <1>1
    <3> HIDE DEF D
    <3> QED BY <3>3, <2>2
  <2>4. a[k - 1] = v[k - 1]
    <3>1. CASE a[k - 1] # v[k - 1]
      BY <3>1, <2>3
    <3> QED BY <3>1
  <2>5. a[k] = v[k]
    BY <2>0, <2>3, <2>4, <1>5
  <2> QED BY <2>5, <2>2
<1>10. DOMAIN a = 0 .. n
  <2> HIDE DEF a
  <2> QED BY <1>8
<1>11. a = [i \in 0 .. n |-> a[i]]
  <2> HIDE DEF a
  <2> QED BY <1>8
<1>12. a \in [0 .. n -> S]
  <2>1. \A i \in 0 .. n : a[i] \in S
    BY <1>4, <1>9
  <2> HIDE DEF a, S
  <2> QED BY <1>11, <2>1
<1>13. /\ a[0] = pool.ex
       /\ \A i \in 1 .. n : a[i] = IF a[i - 1] \in DOMAIN ext THEN ext[a[i - 1]] ELSE None
  <2> HIDE DEF a
  <2> QED BY <1>1, <1>8
<1> HIDE DEF a, F
<1>14. Walk(a, n)
  BY <1>12, <1>13 DEF Walk
<1> QED BY <1>1, <1>7, <1>14

\* The search comes to the end of the list, or finds what it looks for.
LEMMA WalkEnds ==
  ASSUME Sized(pool), Chained(pool, ext), NEW node, NEW n \in Nat, n = Cardinality(DOMAIN ext) + 1,
         Walk(node, n)
  PROVE  \E i \in 0 .. n : node[i] \notin DOMAIN ext
<1> SUFFICES ASSUME \A i \in 0 .. n : node[i] \in DOMAIN ext
             PROVE  FALSE
  OBVIOUS
<1>1. PICK r : Falls(ext, r)
  BY DEF Chained
<1>2. None \notin DOMAIN ext
  BY PlaceFacts DEF Chained
<1>3. \A i \in 1 .. n : r[node[i]] < r[node[i - 1]] /\ r[node[i]] \in Nat /\ r[node[i - 1]] \in Nat
  <2> SUFFICES ASSUME NEW i \in 1 .. n
               PROVE  r[node[i]] < r[node[i - 1]] /\ r[node[i]] \in Nat /\ r[node[i - 1]] \in Nat
    OBVIOUS
  <2>1. i - 1 \in 0 .. n /\ i \in 0 .. n
    OBVIOUS
  <2>2. node[i - 1] \in DOMAIN ext /\ node[i] \in DOMAIN ext
    BY <2>1
  <2>3. node[i] = ext[node[i - 1]]
    BY <2>2 DEF Walk
  <2> QED BY <2>2, <2>3, <1>1, <1>2 DEF Falls
<1>4. \A i \in 0 .. n : \A j \in i + 1 .. n : r[node[j]] < r[node[i]]
  <2> SUFFICES ASSUME NEW i \in 0 .. n
               PROVE  \A j \in i + 1 .. n : r[node[j]] < r[node[i]]
    OBVIOUS
  <2> DEFINE D == {j \in i + 1 .. n : ~(r[node[j]] < r[node[i]])}
  <2> SUFFICES ASSUME D # {} PROVE FALSE
    OBVIOUS
  <2>1. D \subseteq Nat
    OBVIOUS
  <2>2. PICK k \in D : \A j \in D : k <= j
    <3> HIDE DEF D
    <3> QED BY <2>1, LeastNumber
  <2>3. k \in i + 1 .. n /\ ~(r[node[k]] < r[node[i]])
    BY <2>2
  <2>4. k \in 1 .. n /\ i \in Nat /\ k \in Nat
    BY <2>3
  <2>5. r[node[k]] < r[node[k - 1]] /\ r[node[k]] \in Nat /\ r[node[k - 1]] \in Nat
    BY <1>3, <2>4
  <2>6. CASE k = i + 1
    <3>1. k - 1 = i
      BY <2>6, <2>4
    <3> QED BY <3>1, <2>3, <2>5
  <2>7. CASE k # i + 1
    <3>1. k - 1 \in i + 1 .. n /\ ~(k <= k - 1)
      BY <2>3, <2>4, <2>7
    <3>2. k - 1 \notin D
      <4> HIDE DEF D
      <4> QED BY <3>1, <2>2
    <3>3. r[node[k - 1]] < r[node[i]]
      <4>1. CASE ~(r[node[k - 1]] < r[node[i]])
        BY <4>1, <3>1, <3>2
      <4> QED BY <4>1
    <3>4. r[node[i]] \in Nat
      BY <1>1 DEF Falls
    <3> QED BY <2>3, <2>5, <3>3, <3>4
  <2> QED BY <2>6, <2>7
<1>5. IsFiniteSet(0 .. n) /\ Cardinality(0 .. n) = n + 1
  <2>1. 0 \in Int /\ n \in Int
    OBVIOUS
  <2>2. IsFiniteSet(0 .. n) /\ Cardinality(0 .. n) = IF 0 > n THEN 0 ELSE n - 0 + 1
    BY ONLY <2>1, FS_Interval
  <2> QED BY <2>2
<1>6. IsFiniteSet(DOMAIN ext) /\ Cardinality(DOMAIN ext) < Cardinality(0 .. n)
  <2>1. IsFiniteSet(DOMAIN ext)
    BY DEF Chained
  <2>2. Cardinality(DOMAIN ext) \in Nat
    BY <2>1, FS_CardinalityType
  <2> QED BY <2>1, <2>2, <1>5
<1>7. node \in [0 .. n -> DOMAIN ext]
  BY DEF Walk
<1>8. PICK i, j \in 0 .. n : i # j /\ node[i] = node[j]
  BY ONLY <1>5, <1>6, <1>7, FS_PigeonHole
<1>9. i \in Nat /\ j \in Nat /\ (i < j \/ j < i)
  BY <1>8
<1>10. r[node[i]] \in Nat
  BY <1>1 DEF Falls
<1>11. CASE i < j
  <2>1. j \in i + 1 .. n
    BY <1>9, <1>11
  <2> QED BY <2>1, <1>4, <1>8, <1>10
<1>12. CASE j < i
  <2>1. i \in j + 1 .. n
    BY <1>9, <1>12
  <2> QED BY <2>1, <1>4, <1>8, <1>10
<1> QED BY <1>9, <1>11, <1>12

-----------------------------------------------------------------------------
(* Calls of a gentle client *)

\* What the client has done: nothing that the properties exclude.
Gentle == strains \subseteq {"once"}

\* It has given back a chunk.
Once == "once" \in strains

\* The pool, the blocks and the list of the blocks of malloc, as they are
\* before and after every call of a gentle client.
GentleState == GentlePool(pool, Once) /\ Held(pool, ext, blocks) /\ Chained(pool, ext)

\* Creating the pool.
LEMMA CreateGentle ==
  ASSUME client \in Clients, Create, Gentle', DOMAIN blocks = {}, DOMAIN ext = {}
  PROVE  GentleState'
<1> DEFINE a == client
           x == AtLeast(a.min, MIN_CHUNK)
           min == RoundUp(x, MIN_CHUNK)
           max == RoundUp(a.max, min)
           page_size == AtLeast(min, PAGE_SIZE)
           pages == RoundUp(a.size, AtLeast(max, MAX_CHUNK)) \div page_size
<1>1. Sized(pool')
  BY CreateCounted
<1>2. min < 131072 + 8 /\ min \in Nat
  <2>1. x \in Nat /\ x <= 131072
    BY ClientFacts, Literals DEF AtLeast, MIN_CHUNK
  <2>2. PowerOfTwo(MIN_CHUNK)
    <3>1. 3 \in 0 .. 18 /\ 8 = 2^3
      OBVIOUS
    <3> QED BY ONLY <3>1 DEF PowerOfTwo, MIN_CHUNK
  <2>3. x + MIN_CHUNK <= Two[19]
    <3>1. Two[19] = 524288
      BY TwoValues
    <3> HIDE DEF x
    <3> QED BY ONLY <3>1, <2>1 DEF MIN_CHUNK
  <2> HIDE DEF x
  <2>4. RoundUp(x, MIN_CHUNK) < x + MIN_CHUNK
    BY <2>1, <2>2, <2>3, RoundUpPower
  <2>5. RoundUp(x, MIN_CHUNK) \in Nat
    BY <2>1, RoundUpNat DEF MIN_CHUNK
  <2> QED BY <2>1, <2>4, <2>5 DEF MIN_CHUNK
<1> HIDE DEF min
<1>3. PowerOfTwo(min)
  <2>1. strains' = IF PowerOfTwo(min) THEN {} ELSE {"min_chunk"}
    BY DEF Create, min, x
  <2> QED BY <2>1 DEF Gentle
<1>4. PICK i \in 0 .. 17 : min = Two[i]
  <2>1. PICK i \in 0 .. 18 : min = 2^i
    BY <1>3 DEF PowerOfTwo
  <2>2. i \in 0 .. 19
    OBVIOUS
  <2>3. min = Two[i]
    BY ONLY <2>1, <2>2, TwoFacts
  <2>4. Two[18] = 262144
    BY TwoValues
  <2>5. i # 18
    BY ONLY <1>2, <2>3, <2>4
  <2>6. i \in 0 .. 17
    BY ONLY <2>5, i \in 0 .. 18
  <2> QED BY ONLY <2>3, <2>6
<1>5. min <= Two[17] /\ Two[17] = 131072
  <2>1. Two[17] = 131072
    BY TwoValues
  <2>2. i \in 0 .. 19 /\ 17 \in 0 .. 19 /\ i <= 17
    OBVIOUS
  <2> QED BY ONLY <2>1, <2>2, <1>4, TwoMono
<1>6. max \in Nat /\ max <= Two[18]
  <2>1. a.max \in Nat /\ a.max <= 131072 /\ min \in Int /\ a.max \in Int
    BY <1>2, ClientFacts, Literals
  <2>2. Two[19] = 524288 /\ Two[18] = 262144
    BY TwoValues
  <2>3. a.max + min <= Two[19]
    BY ONLY <2>1, <2>2, <1>2, <1>5
  <2>4. RoundUp(a.max, min) < a.max + min
    BY <2>1, <2>3, <1>3, RoundUpPower
  <2>5. RoundUp(a.max, min) \in Nat
    <3>1. a.max \in Int /\ min \in Int
      BY <2>1
    <3> QED BY ONLY <3>1, RoundUpNat
  <2> QED BY ONLY <2>1, <2>2, <2>4, <2>5, <1>2, <1>5
<1> HIDE DEF max
<1>7. \E j \in 0 .. 17 : page_size = Two[j]
  <2>1. page_size = min \/ page_size = 4096
    BY DEF AtLeast, PAGE_SIZE
  <2>2. Two[12] = 4096 /\ 12 \in 0 .. 17
    BY TwoValues
  <2> HIDE DEF page_size
  <2> QED BY <2>1, <2>2, <1>4
<1> HIDE DEF page_size
<1>8. pool' = [pages |-> pages, page_size |-> page_size, min_slab |-> min,
               max_slab |-> max, free |-> pages, map |-> {}, used |-> None,
               slabs |-> [k \in 0 .. max \div min - 1 |-> None],
               heads |-> [p \in {} |-> {}], ex |-> None]
  BY DEF Create, min, max, page_size, pages, x
<1> HIDE DEF pages
<1>9. /\ pool'.pages = pages /\ pool'.page_size = page_size /\ pool'.min_slab = min
      /\ pool'.max_slab = max /\ pool'.free = pages /\ pool'.map = {} /\ pool'.ex = None
      /\ DOMAIN pool'.heads = {} /\ pool'.slabs = [k \in 0 .. max \div min - 1 |-> None]
  BY <1>8
<1> HIDE <1>8
<1>10. Regular(pool')
  BY <1>4, <1>6, <1>7, <1>9 DEF Regular
<1>11. Packed(pool')
  <2>1. Cardinality({}) = 0
    BY FS_EmptySet
  <2>2. pages \in Nat
    BY <1>1, <1>9 DEF Sized, Fixed
  <2> QED BY <2>1, <2>2, <1>9 DEF Packed
<1>12. Slabs(pool', Once')
  BY <1>9 DEF Slabs, Sorted
<1>13. GentlePool(pool', Once')
  BY <1>1, <1>10, <1>11, <1>12 DEF GentlePool
<1>14. ext' = ext /\ blocks' = blocks
  BY DEF Create
<1>15. Held(pool', ext', blocks')
  BY <1>14 DEF Held
<1>16. Chained(pool', ext')
  <2>1. IsFiniteSet(DOMAIN ext)
    BY FS_EmptySet
  <2>2. Falls(ext, [e \in {} |-> 0])
    BY DEF Falls
  <2> QED BY <2>1, <2>2, <1>9, <1>14 DEF Chained
<1> QED BY <1>13, <1>15, <1>16 DEF GentleState

\* pool->ex is all that a new block of malloc changes in the pool.
LEMMA ExGentle ==
  ASSUME NEW p, NEW once \in BOOLEAN, GentlePool(p, once), NEW at
  PROVE  /\ GentlePool([p EXCEPT !.ex = at], once) /\ SameChunks(p, [p EXCEPT !.ex = at])
         /\ [p EXCEPT !.ex = at].ex = at
<1> DEFINE q == [p EXCEPT !.ex = at]
<1>1. Sized(p) /\ Regular(p) /\ Packed(p) /\ Slabs(p, once) /\ DOMAIN p = PoolFields
  BY DEF GentlePool, Sized
<1>2. /\ DOMAIN q = PoolFields
      /\ q.pages = p.pages /\ q.page_size = p.page_size /\ q.min_slab = p.min_slab
      /\ q.max_slab = p.max_slab /\ q.map = p.map /\ q.free = p.free /\ q.used = p.used
      /\ q.heads = p.heads /\ q.slabs = p.slabs /\ q.ex = at
  BY <1>1 DEF PoolFields
<1> HIDE DEF q
<1>3. Alike(p, q)
  BY <1>2 DEF Alike
<1>4. Sized(q) /\ Regular(q) /\ Packed(q)
  BY <1>1, <1>2, <1>3, AlikeGentle
<1>5. Slabs(q, once)
  <2>1. \A h \in DOMAIN q.heads : Apart(q, h) /\ Cut(q.heads[h], q.page_size, once)
    BY <1>1, <1>2 DEF Slabs, Apart
  <2>2. Sorted(q)
    BY <1>1, <1>2 DEF Slabs, Sorted
  <2> QED BY <2>1, <2>2 DEF Slabs
<1>6. SameChunks(p, q)
  BY <1>2 DEF SameChunks
<1> QED BY <1>2, <1>4, <1>5, <1>6 DEF GentlePool, q

\* How alloc() begins.
LEMMA AskingGentle ==
  ASSUME client \in Clients, GentleState, NEW req \in client.asks, Asking(req), Gentle',
         NEW r, r = (IF Rounded(req) <= pool.max_slab THEN Ready(pool, Rounded(req))
                     ELSE [at |-> None, pool |-> pool])
  PROVE  /\ Once' = Once /\ req \in 0 .. Longest /\ req <= Rounded(req) /\ Rounded(req) # 0
         /\ ReadyGot(pool, Once, r, Rounded(req))
<1>0. GentlePool(pool, Once) /\ Sized(pool) /\ Regular(pool) /\ Once \in BOOLEAN
  BY DEF GentleState, GentlePool, Once
<1>1. Moderate(Rounded(req)) /\ strains' = strains
  BY DEF Asking, Gentle
<1>2. /\ Rounded(req) \in Nat /\ req \in 0 .. Longest /\ req <= Rounded(req)
      /\ \E k \in Nat : k >= 1 /\ Rounded(req) = k * pool.min_slab
  BY <1>0, RoundedFacts
<1>3. Rounded(req) # 0
  <2>1. pool.min_slab \in Nat /\ pool.min_slab > 0
    BY <1>0 DEF Sized, Fixed, MIN_CHUNK
  <2>2. PICK k \in Nat : k >= 1 /\ Rounded(req) = k * pool.min_slab
    BY <1>2
  <2>3. 1 * pool.min_slab <= k * pool.min_slab
    BY <2>1, <2>2, MulMono
  <2> QED BY <2>1, <2>2, <2>3
<1>4. CASE Rounded(req) <= pool.max_slab
  <2>1. SizeOf(pool, Rounded(req)) /\ Suits(pool, Rounded(req))
    BY <1>0, <1>1, <1>4, ModerateSuits
  <2>2. ReadyGot(pool, Once, Ready(pool, Rounded(req)), Rounded(req))
    BY <1>0, <2>1, ReadyGentle
  <2>3. r = Ready(pool, Rounded(req))
    BY <1>4
  <2>4. ReadyGot(pool, Once, r, Rounded(req))
    BY ONLY <2>2, <2>3
  <2> QED BY <1>1, <1>2, <1>3, <2>4 DEF Once
<1>5. CASE ~(Rounded(req) <= pool.max_slab)
  <2>1. r.at = None /\ r.pool = pool
    BY <1>5
  <2>2. ReadyGot(pool, Once, r, Rounded(req))
    BY <2>1, <1>0, KeptSelf DEF ReadyGot
  <2> QED BY <1>1, <1>2, <1>3, <2>2 DEF Once
<1> QED BY <1>4, <1>5

\* alloc() returns a chunk, which no other block is in.
LEMMA AllocChunkGentle ==
  ASSUME client \in Clients, GentleState, NEW req \in client.asks, AllocChunk(req), Gentle'
  PROVE  GentleState'
<1> DEFINE size == Rounded(req)
           r == Ready(pool, size)
           t == Take(r.pool, r.at)
           h == r.at
           b == [at |-> t.at, len |-> req]
<1>0. GentlePool(pool, Once) /\ Held(pool, ext, blocks) /\ Chained(pool, ext) /\ Once \in BOOLEAN
  BY DEF GentleState, Once
<1>1. /\ Asking(req) /\ size <= pool.max_slab /\ r.at # None
      /\ pool' = t.pool /\ blocks' = Bag!BagAdd(blocks, b) /\ ext' = ext
  BY DEF AllocChunk
<1>2. /\ Once' = Once /\ req \in 0 .. Longest /\ req <= size /\ size # 0
      /\ ReadyGot(pool, Once, r, size)
  <2>1. r = IF size <= pool.max_slab THEN r ELSE [at |-> None, pool |-> pool]
    BY <1>1
  <2> HIDE DEF t, b
  <2> QED BY <1>1, <2>1, AskingGentle
<1> HIDE DEF size, r
<1>3. /\ GentlePool(r.pool, Once) /\ Kept(pool, r.pool) /\ h \in DOMAIN r.pool.heads
      /\ r.pool.heads[h].chunk_size = size /\ r.pool.heads[h].free # 0
  BY <1>1, <1>2 DEF ReadyGot
<1>4. Took(r.pool, Once, h, t)
  BY <1>0, <1>3, TakeGentle
<1> HIDE DEF t
<1>5. /\ GentlePool(t.pool, Once) /\ Kept(r.pool, t.pool)
      /\ h \in DOMAIN t.pool.heads /\ t.pool.heads[h].chunk_size = size
  BY <1>3, <1>4 DEF Took
<1>6. PICK i \in Nat :
        /\ i \notin r.pool.heads[h].map /\ t.at = h * r.pool.page_size + i * r.pool.heads[h].chunk_size
        /\ t.pool.heads[h].map = r.pool.heads[h].map \cup {i}
  BY <1>4 DEF Took
<1>7. t.pool.page_size = r.pool.page_size /\ t.at = h * t.pool.page_size + i * size /\ i \in t.pool.heads[h].map
  BY <1>3, <1>5, <1>6 DEF Kept, SameChunks
<1>8. b.at = t.at /\ b.len = req
  OBVIOUS
<1>9. Placed(t.pool, ext, b)
  <2>1. b.at = h * t.pool.page_size + i * t.pool.heads[h].chunk_size /\ b.len <= t.pool.heads[h].chunk_size
    BY <1>2, <1>5, <1>7, <1>8
  <2> HIDE DEF b
  <2>2. InChunk(t.pool, b)
    BY <1>5, <1>7, <2>1 DEF InChunk
  <2> QED BY <1>2, <1>8, <2>2 DEF Placed
<1>10. Kept(pool, t.pool)
  BY <1>3, <1>5, KeptOn
<1>11. ASSUME NEW c \in DOMAIN blocks
       PROVE  c.at # b.at
  <2>1. Placed(pool, ext, c)
    BY <1>0 DEF Held
  <2>2. Placed(r.pool, ext, c)
    BY <2>1, <1>3, PlacedOn DEF Kept
  <2> HIDE DEF b
  <2>3. CASE InChunk(r.pool, c)
    <3>1. PICK g \in DOMAIN r.pool.heads : \E j \in r.pool.heads[g].map :
            c.at = g * r.pool.page_size + j * r.pool.heads[g].chunk_size
      BY <2>3 DEF InChunk
    <3>2. PICK j \in r.pool.heads[g].map : c.at = g * r.pool.page_size + j * r.pool.heads[g].chunk_size
      BY <3>1
    <3>3. /\ g \in DOMAIN t.pool.heads /\ j \in t.pool.heads[g].map
          /\ c.at = g * t.pool.page_size + j * t.pool.heads[g].chunk_size
      BY <3>2, <1>5, <1>7 DEF Kept, SameChunks
    <3>4. g # h \/ j # i
      BY <1>6
    <3>5. t.pool.heads[h].chunk_size # 0
      BY <1>2, <1>5
    <3>6. g * t.pool.page_size + j * t.pool.heads[g].chunk_size
            # h * t.pool.page_size + i * t.pool.heads[h].chunk_size
      BY <1>0, <1>5, <1>7, <3>3, <3>4, <3>5, ChunksDiffer
    <3>7. b.at = h * t.pool.page_size + i * t.pool.heads[h].chunk_size
      BY <1>5, <1>7, <1>8
    <3> QED BY ONLY <3>3, <3>6, <3>7
  <2>4. CASE Outside(r.pool, ext, c)
    <3>1. c.at \in Places(t.pool)
      BY <2>4, <1>5 DEF Outside, Places, End, Kept, SameChunks
    <3>2. Sized(t.pool)
      BY <1>5 DEF GentlePool
    <3>3. /\ End(t.pool) \in Nat /\ c.at \in Int /\ (c.at <= -Far \/ c.at >= End(t.pool) + Far)
          /\ Far \in Nat /\ Far > 1
      BY <3>1, <3>2, PlaceFacts, FarIs
    <3>4. InChunk(t.pool, b) /\ b.len \in Nat
      <4>1. b.len \in Nat
        BY <1>2, <1>8
      <4>2. b.at = h * t.pool.page_size + i * t.pool.heads[h].chunk_size /\ b.len <= t.pool.heads[h].chunk_size
        BY <1>2, <1>5, <1>7, <1>8
      <4> QED BY <1>5, <1>7, <4>1, <4>2 DEF InChunk
    <3>5. b.at \in Nat /\ b.at < End(t.pool)
      BY <1>0, <1>5, <3>4, ChunkInside
    <3> QED BY ONLY <3>3, <3>5
  <2> QED BY <2>2, <2>3, <2>4 DEF Placed
<1> HIDE DEF b
<1>12. Held(pool', ext', blocks')
  <2>1. Held(t.pool, ext, Bag!BagAdd(blocks, b))
    BY <1>0, <1>9, <1>10, <1>11, HeldMore DEF Kept
  <2> QED BY <2>1, <1>1
<1>13. Chained(pool', ext')
  <2>1. t.pool.pages = pool.pages /\ t.pool.page_size = pool.page_size /\ t.pool.ex = pool.ex
    BY <1>10 DEF Kept, SameChunks
  <2>2. Chained(t.pool, ext)
    BY <1>0, <2>1, ChainedOn
  <2> QED BY <2>2, <1>1
<1>14. GentlePool(pool', Once')
  BY <1>1, <1>2, <1>5
<1> QED BY <1>12, <1>13, <1>14 DEF GentleState

\* The number of chunks of a slab never exceeds what the assertion allows.
LEMMA AllocAbortsNot ==
  ASSUME client \in Clients, GentleState, NEW req \in client.asks, AllocAborts(req), Gentle'
  PROVE  FALSE
<1> DEFINE size == Rounded(req)
           r == Ready(pool, size)
<1>1. Asking(req) /\ size <= pool.max_slab /\ r.at # None /\ r.pool.heads[r.at].cnt > MapBytes
  BY DEF AllocAborts
<1>2. ReadyGot(pool, Once, r, size)
  <2>1. r = IF size <= pool.max_slab THEN r ELSE [at |-> None, pool |-> pool]
    BY <1>1
  <2> QED BY <1>1, <2>1, AskingGentle
<1> HIDE DEF r, size
<1>3. GentlePool(r.pool, Once) /\ r.at \in DOMAIN r.pool.heads
  BY <1>1, <1>2 DEF ReadyGot
<1>4. r.pool.heads[r.at].cnt \in 0 .. MapBytes
  BY <1>3 DEF GentlePool, Slabs, Cut
<1> QED BY <1>1, <1>4 DEF MapBytes

\* alloc() returns a block of malloc, or none.
LEMMA AllocExtGentle ==
  ASSUME client \in Clients, GentleState, NEW req \in client.asks, AllocExt(req), Gentle'
  PROVE  GentleState'
<1> DEFINE r == IF Rounded(req) <= pool.max_slab THEN Ready(pool, Rounded(req))
                ELSE [at |-> None, pool |-> pool]
<1>0. /\ GentlePool(pool, Once) /\ Sized(pool) /\ Held(pool, ext, blocks) /\ Chained(pool, ext)
      /\ Once \in BOOLEAN
  BY DEF GentleState, GentlePool, Once
<1>1. /\ Asking(req) /\ r.at = None
      /\ \/ pool' = r.pool /\ ext' = ext /\ blocks' = blocks
         \/ \E at \in ExtPlaces \ DOMAIN ext :
              /\ pool' = [r.pool EXCEPT !.ex = at]
              /\ ext' = [e \in DOMAIN ext \cup {at} |-> IF e = at THEN pool.ex ELSE ext[e]]
              /\ blocks' = Bag!BagAdd(blocks, [at |-> at, len |-> req])
  BY DEF AllocExt
<1>2. Once' = Once /\ req \in 0 .. Longest /\ ReadyGot(pool, Once, r, Rounded(req))
  BY <1>1, AskingGentle
<1> HIDE DEF r
<1>3. GentlePool(r.pool, Once) /\ Kept(pool, r.pool)
  BY <1>2 DEF ReadyGot
<1>4. CASE pool' = r.pool /\ ext' = ext /\ blocks' = blocks
  <2>1. Held(r.pool, ext, blocks)
    BY <1>0, <1>3, HeldOn DEF Kept
  <2>2. r.pool.pages = pool.pages /\ r.pool.page_size = pool.page_size /\ r.pool.ex = pool.ex
    BY <1>3 DEF Kept, SameChunks
  <2>3. Chained(r.pool, ext)
    BY <1>0, <2>2, ChainedOn
  <2> QED BY <1>2, <1>3, <1>4, <2>1, <2>3 DEF GentleState
<1>5. ASSUME NEW at \in ExtPlaces \ DOMAIN ext, NEW b,
             pool' = [r.pool EXCEPT !.ex = at], Added(pool, ext, at, ext'),
             b.at = at, b.len = req, blocks' = Bag!BagAdd(blocks, b)
      PROVE  GentleState'
  <2> DEFINE q == pool'
             y == ext'
  <2>1. at \in Places(pool) /\ at \notin DOMAIN ext
    BY DEF Places, ExtPlaces
  <2>2. GentlePool(q, Once) /\ SameChunks(r.pool, q) /\ q.ex = at
    <3>1. pool' = [r.pool EXCEPT !.ex = at]
      BY <1>5
    <3> QED BY <1>0, <1>3, <3>1, ExGentle
  <2>3. Added(pool, ext, at, y)
    BY <1>5
  <2>4. b.at = at /\ b.len = req
    BY <1>5
  <2>5. blocks' = Bag!BagAdd(blocks, b)
    BY <1>5
  <2>6. DOMAIN y = DOMAIN ext \cup {at}
    BY ONLY <2>3 DEF Added
  <2> HIDE DEF q, y
  <2>7. SameChunks(pool, q)
    BY ONLY <1>3, <2>2 DEF SameChunks, Kept
  <2>8. Chained(q, y)
    BY ONLY <1>0, <2>1, <2>2, <2>3, <2>7, ChainedMore
  <2>9. Placed(q, y, b)
    <3>1. Places(q) = Places(pool)
      BY ONLY <2>7 DEF Places, End, SameChunks
    <3>2. Outside(q, y, b)
      BY ONLY <3>1, <2>1, <2>4, <2>6 DEF Outside
    <3>3. b.len \in 0 .. Longest
      BY ONLY <1>2, <2>4
    <3> QED BY ONLY <3>2, <3>3 DEF Placed
  <2>10. ASSUME NEW c \in DOMAIN blocks
         PROVE  c.at # b.at
    <3>1. Placed(pool, ext, c)
      BY ONLY <1>0, c \in DOMAIN blocks DEF Held
    <3>2. CASE InChunk(pool, c)
      <4>1. c.len \in Nat
        BY ONLY <3>1, Lengths DEF Placed
      <4>2. c.at \in Nat /\ c.at < End(pool)
        BY ONLY <3>2, <4>1, <1>0, ChunkInside
      <4>3. End(pool) \in Nat /\ at \in Int /\ (at <= -Far \/ at >= End(pool) + Far)
        BY ONLY <1>0, <2>1, PlaceFacts
      <4>4. c.at # at
        BY ONLY <4>2, <4>3, FarIs
      <4> QED BY ONLY <4>4, <2>4
    <3>3. CASE Outside(pool, ext, c)
      BY ONLY <3>3, <2>1, <2>4 DEF Outside
    <3> QED BY ONLY <3>1, <3>2, <3>3 DEF Placed
  <2>11. DOMAIN ext \subseteq DOMAIN y
    BY ONLY <2>6
  <2>12. Held(q, y, Bag!BagAdd(blocks, b))
    BY ONLY <1>0, <2>7, <2>9, <2>10, <2>11, HeldMore
  <2>13. Held(pool', ext', blocks')
    BY ONLY <2>5, <2>12 DEF q, y
  <2>14. Chained(pool', ext') /\ GentlePool(pool', Once)
    BY ONLY <2>2, <2>8 DEF q, y
  <2> QED BY ONLY <1>2, <2>13, <2>14 DEF GentleState
<1>6. CASE \E at \in ExtPlaces \ DOMAIN ext :
             /\ pool' = [r.pool EXCEPT !.ex = at]
             /\ ext' = [e \in DOMAIN ext \cup {at} |-> IF e = at THEN pool.ex ELSE ext[e]]
             /\ blocks' = Bag!BagAdd(blocks, [at |-> at, len |-> req])
  <2>1. PICK at \in ExtPlaces \ DOMAIN ext :
             /\ pool' = [r.pool EXCEPT !.ex = at]
             /\ ext' = [e \in DOMAIN ext \cup {at} |-> IF e = at THEN pool.ex ELSE ext[e]]
             /\ blocks' = Bag!BagAdd(blocks, [at |-> at, len |-> req])
    BY ONLY <1>6
  <2>2. Added(pool, ext, at, ext')
    BY ONLY <2>1 DEF Added
  <2> DEFINE b == [at |-> at, len |-> req]
  <2>3. b.at = at /\ b.len = req /\ blocks' = Bag!BagAdd(blocks, b) /\ pool' = [r.pool EXCEPT !.ex = at]
    BY ONLY <2>1
  <2> HIDE DEF b
  <2> QED BY ONLY <2>2, <2>3, <1>5, at \in ExtPlaces \ DOMAIN ext
<1> QED BY ONLY <1>1, <1>4, <1>6

\* A block that is given back, and stays where it is.
LEMMA FreeBelowGentle ==
  ASSUME GentleState, NEW b \in DOMAIN blocks, FreeBelow(b)
  PROVE  GentleState'
<1>1. pool' = pool /\ ext' = ext /\ strains' = strains /\ blocks' = Bag!BagRemove(blocks, b)
  BY DEF FreeBelow, Releasing
<1>2. Held(pool, ext, blocks) /\ \A c \in DOMAIN blocks \ {b} : Placed(pool, ext, c)
  BY DEF GentleState, Held
<1>3. Held(pool, ext, Bag!BagRemove(blocks, b))
  BY ONLY <1>2, HeldLess, b \in DOMAIN blocks
<1> QED BY <1>1, <1>3 DEF GentleState, Once

\* A block of malloc, which leaves the list.
LEMMA FreeExtGentle ==
  ASSUME GentleState, NEW b \in DOMAIN blocks, FreeExt(b), Gentle'
  PROVE  GentleState' /\ status' = "live"
<1> DEFINE n == Cardinality(DOMAIN ext) + 1
           node == Node(b.at)
           found == {k \in DOMAIN node : node[k] = b.at}
           i == Min(found)
           passed == {node[j] : j \in {k \in DOMAIN node : found = {} \/ k < i}}
<1>0. /\ GentlePool(pool, Once) /\ Sized(pool) /\ Held(pool, ext, blocks) /\ Chained(pool, ext)
      /\ Once \in BOOLEAN
  BY DEF GentleState, GentlePool, Once
<1>1. /\ status = "live" /\ blocks' = Bag!BagRemove(blocks, b) /\ b.at > End(pool) /\ pool' = pool
      /\ strains' = IF b.at = pool.ex THEN strains \cup {"newest ext"} ELSE strains
  BY DEF FreeExt, Releasing
<1>2. \/ /\ found # {} /\ passed \subseteq DOMAIN ext
         /\ ext' = [e \in DOMAIN ext \ {b.at} |->
                      IF i > 0 /\ e = node[i - 1] THEN ext[b.at] ELSE ext[e]]
         /\ status' = status
      \/ /\ found = {} /\ None \in passed /\ passed \subseteq DOMAIN ext \cup {None}
         /\ status' = status /\ ext' = ext
      \/ ~(passed \subseteq DOMAIN ext \cup {None})
      \/ found = {} /\ passed \subseteq DOMAIN ext
  BY DEF FreeExt
<1>3. b.at # pool.ex /\ Once' = Once
  BY <1>1 DEF Gentle, Once
<1>4. Walk(node, n) /\ n \in Nat
  BY <1>0, NodeWalk
<1> HIDE DEF node, n
<1>5. DOMAIN node = 0 .. n /\ \A k \in 0 .. n : node[k] \in DOMAIN ext \cup {None}
  BY <1>4 DEF Walk
<1>6. passed \subseteq DOMAIN ext \cup {None}
  BY <1>5
<1>7. ~(found = {} /\ passed \subseteq DOMAIN ext)
  <2>1. PICK k \in 0 .. n : node[k] \notin DOMAIN ext
    BY <1>0, <1>4, WalkEnds DEF n
  <2>2. found = {} => node[k] \in passed
    BY <1>5
  <2> HIDE DEF found, passed
  <2> QED BY <2>1, <2>2
<1>8. b.at \in DOMAIN ext
  <2>1. Placed(pool, ext, b)
    BY ONLY <1>0, b \in DOMAIN blocks DEF Held
  <2>2. CASE InChunk(pool, b)
    <3>1. b.len \in Nat
      BY ONLY <2>1, Lengths DEF Placed
    <3>2. b.at \in Nat /\ b.at < End(pool) /\ End(pool) \in Nat
      BY ONLY <2>2, <3>1, <1>0, ChunkInside
    <3>3. b.at > End(pool)
      BY ONLY <1>1
    <3> QED BY ONLY <3>2, <3>3
  <2> QED BY ONLY <2>1, <2>2 DEF Placed, Outside
<1>9. \A c \in DOMAIN blocks \ {b} : Placed(pool, ext, c) /\ c.at # b.at
  BY ONLY <1>0, b \in DOMAIN blocks DEF Held
<1>10. CASE /\ found # {} /\ passed \subseteq DOMAIN ext
            /\ ext' = [e \in DOMAIN ext \ {b.at} |->
                         IF i > 0 /\ e = node[i - 1] THEN ext[b.at] ELSE ext[e]]
            /\ status' = status
  <2>1. i \in found /\ i \in 0 .. n /\ node[i] = b.at
    <3>1. found \subseteq 0 .. n /\ found \subseteq Int /\ \A k \in found : 0 <= k
      BY <1>4, <1>5
    <3>2. Min(found) \in found
      <4> HIDE DEF found
      <4> QED BY ONLY <3>1, <1>10, MinIs, 0 \in Int
    <3> QED BY <3>1, <3>2
  <2>2. i # 0
    BY <2>1, <1>3, <1>4 DEF Walk
  <2> HIDE DEF i
  <2>3. i - 1 \in 0 .. n /\ i - 1 < i /\ i \in 1 .. n /\ i > 0
    BY <2>1, <2>2, <1>4
  <2>4. node[i - 1] \in DOMAIN ext
    <3>1. node[i - 1] \in passed
      BY <2>3, <1>5
    <3> QED BY <3>1, <1>10
  <2>5. ext[node[i - 1]] = b.at
    BY <2>1, <2>3, <2>4, <1>4 DEF Walk
  <2> DEFINE c == node[i - 1]
             y == ext'
  <2>6. Dropped(ext, b.at, c, y)
    <3>1. ext' = [e \in DOMAIN ext \ {b.at} |->
                    IF i > 0 /\ e = node[i - 1] THEN ext[b.at] ELSE ext[e]]
      BY <1>10 DEF i
    <3> QED BY ONLY <3>1, <2>3 DEF Dropped
  <2> HIDE DEF c, y
  <2>7. Chained(pool, y)
    BY ONLY <1>0, <1>8, <2>4, <2>5, <2>6, ChainedLess DEF c
  <2>8. DOMAIN y = DOMAIN ext \ {b.at}
    BY ONLY <2>6 DEF Dropped
  <2>9. ASSUME NEW d \in DOMAIN blocks \ {b}
        PROVE  Placed(pool, y, d)
    <3>1. SameChunks(pool, pool)
      BY ONLY KeptSelf DEF Kept
    <3>2. Placed(pool, ext, d) /\ (d.at \in DOMAIN ext => d.at \in DOMAIN y)
      BY ONLY <1>9, <2>8, d \in DOMAIN blocks \ {b}
    <3> QED BY ONLY <3>1, <3>2, PlacedOn
  <2>10. Held(pool, y, Bag!BagRemove(blocks, b))
    BY ONLY <1>0, <2>9, HeldLess, b \in DOMAIN blocks
  <2>11. Held(pool', ext', blocks') /\ Chained(pool', ext') /\ GentlePool(pool', Once)
    BY ONLY <1>0, <1>1, <2>7, <2>10 DEF y
  <2>12. status' = "live"
    BY ONLY <1>1, <1>10
  <2> QED BY ONLY <1>3, <2>11, <2>12 DEF GentleState
<1>11. CASE status' = status /\ ext' = ext
  <2>1. Held(pool, ext, Bag!BagRemove(blocks, b))
    BY ONLY <1>0, <1>9, HeldLess, b \in DOMAIN blocks
  <2>2. Held(pool', ext', blocks') /\ Chained(pool', ext') /\ GentlePool(pool', Once)
    BY ONLY <1>0, <1>1, <1>11, <2>1
  <2>3. status' = "live"
    BY ONLY <1>1, <1>11
  <2> QED BY ONLY <1>3, <2>2, <2>3 DEF GentleState
<1> HIDE DEF found, i, passed
<1> QED BY ONLY <1>2, <1>6, <1>7, <1>10, <1>11

-----------------------------------------------------------------------------
(* A chunk is given back *)

\* What s->free becomes.
More(free) == (free + 1) % 65536

\* It does not wrap around for a gentle client.
LEMMA MoreIs ==
  ASSUME NEW free \in 0 .. MapBytes
  PROVE  More(free) = free + 1
BY DEF More, MapBytes

\* The slab that the chunk j goes back to.
Back(s, j, t) ==
  /\ t.chunk_size = s.chunk_size /\ t.cnt = s.cnt /\ t.map = s.map \ {j}
  /\ t.index = (IF s.index = s.cnt THEN j ELSE s.index) /\ t.free = More(s.free)

\* The first chunk that goes back to a slab leaves a hole in the row of its
\* chunks in use, or the only chunk that is free.
LEMMA BackCut ==
  ASSUME NEW s, NEW page_size \in Nat, Cut(s, page_size, FALSE), NEW j \in s.map,
         NEW t, Back(s, j, t)
  PROVE  j < s.cnt /\ Cut(t, page_size, TRUE)
<1> DEFINE i == s.index
           c == s.cnt
           f == s.free
           m == s.map
           k == t.index
           n == t.map
           g == t.free
<1>1. i \in Nat /\ c \in 0 .. MapBytes /\ i <= c /\ m = 0 .. i - 1 /\ f = c - i /\ j \in m
  BY DEF Cut, InOrder
<1>2. t.cnt = c /\ t.chunk_size = s.chunk_size
  BY DEF Back
<1>3. k = (IF i = c THEN j ELSE i) /\ n = m \ {j} /\ g = More(f)
  BY DEF Back
<1>4. /\ s.chunk_size \in Nat /\ (c + 1) * s.chunk_size <= page_size
      /\ s.chunk_size = 0 => c = 0
  BY DEF Cut
<1> HIDE DEF i, c, f, m, k, n, g
<1>5. c \in Nat /\ j \in 0 .. i - 1 /\ j < c /\ f \in 0 .. MapBytes
  <2>1. c \in Nat /\ c <= MapBytes /\ MapBytes \in Nat
    <3>1. c \in 0 .. MapBytes
      BY ONLY <1>1
    <3> QED BY ONLY <3>1 DEF MapBytes
  <2>2. j \in 0 .. i - 1
    BY ONLY <1>1
  <2>3. j < c /\ f \in Nat /\ f <= c
    BY ONLY <1>1, <2>1, <2>2
  <2> QED BY ONLY <2>1, <2>2, <2>3
<1>6. g = f + 1
  BY ONLY <1>3, <1>5, MoreIs
<1>7. n \subseteq 0 .. c
  BY ONLY <1>1, <1>3, <1>5
<1>8. /\ t.chunk_size \in Nat /\ t.cnt \in 0 .. MapBytes
      /\ (t.cnt + 1) * t.chunk_size <= page_size /\ (t.chunk_size = 0 => t.cnt = 0)
      /\ j < s.cnt
  BY ONLY <1>1, <1>2, <1>4, <1>5 DEF c
<1>9. CASE i = c
  <2>1. k = j /\ k < c /\ g = 1 /\ n = (0 .. c - 1) \ {k} /\ k \in Nat
    BY ONLY <1>1, <1>3, <1>5, <1>6, <1>9
  <2>2. Reopened(t)
    BY ONLY <2>1, <1>2, <1>7 DEF Reopened, k, n, g
  <2>3. t.index \in Nat
    BY ONLY <2>1 DEF k
  <2> QED BY ONLY <2>2, <2>3, <1>8 DEF Cut
<1>10. CASE i # c
  <2>1. k = i /\ k <= c /\ g = c - k + 1 /\ n = (0 .. k - 1) \ {j} /\ j \in 0 .. k - 1 /\ k \in Nat
    BY ONLY <1>1, <1>3, <1>5, <1>6, <1>10
  <2>2. Reopened(t)
    BY ONLY <2>1, <1>2, <1>7 DEF Reopened, k, n, g
  <2>3. t.index \in Nat
    BY ONLY <2>1 DEF k
  <2> QED BY ONLY <2>2, <2>3, <1>8 DEF Cut
<1> QED BY ONLY <1>9, <1>10

\* An address in the pages of a slab that is in a chunk in use is in one of
\* that slab, and the division finds its number.
LEMMA BackHere ==
  ASSUME NEW p, NEW once \in BOOLEAN, GentlePool(p, once), NEW h \in DOMAIN p.heads,
         NEW b, InChunk(p, b), p.heads[h].chunk_size # 0,
         b.at \in h * p.page_size .. (h + p.heads[h].pages) * p.page_size - 1
  PROVE  \E j \in p.heads[h].map :
           /\ b.at = h * p.page_size + j * p.heads[h].chunk_size
           /\ (b.at - h * p.page_size) \div p.heads[h].chunk_size = j
<1>0. PICK g \in DOMAIN p.heads : \E j \in p.heads[g].map :
        b.at = g * p.page_size + j * p.heads[g].chunk_size
  BY DEF InChunk
<1>1. PICK j \in p.heads[g].map : b.at = g * p.page_size + j * p.heads[g].chunk_size
  BY <1>0
<1> DEFINE ps == p.page_size
           z == p.heads[g].chunk_size
           a == b.at
           n == p.heads[h].pages
<1>2. /\ g \in Nat /\ ps \in Nat /\ ps > 0 /\ z \in Nat /\ j \in Nat
      /\ j * z \in Nat /\ j * z + z <= ps
  BY ChunkFacts
<1>3. /\ h \in Nat /\ n \in {1, 2} /\ (n = 2 => h + 1 \notin DOMAIN p.heads)
  <2>1. Apart(p, h) /\ p.map \subseteq 0 .. p.pages - 1 /\ p.pages \in Nat
    BY DEF GentlePool, Slabs, Sized, Fixed
  <2>2. h \in Nat
    BY ONLY <2>1 DEF Apart
  <2> QED BY <2>1, <2>2 DEF Apart
<1>4. a = g * ps + j * z
  BY <1>1
<1>5. a \in h * ps .. (h + n) * ps - 1
  OBVIOUS
<1> HIDE DEF ps, z, a, n
<1>6. j * z < ps
  <2>1. z = 0 => j * z = 0
    BY ONLY <1>2
  <2> QED BY ONLY <1>2, <2>1
<1>7. /\ g * ps \in Nat /\ h * ps \in Nat /\ (g + 1) * ps = g * ps + ps
      /\ (h + n) * ps \in Nat
  BY ONLY <1>2, <1>3
<1>8. ~(g < h)
  <2> SUFFICES ASSUME g < h PROVE FALSE
    OBVIOUS
  <2>1. g + 1 \in Int /\ h \in Int /\ g + 1 <= h
    BY ONLY <1>2, <1>3, g < h
  <2>2. (g + 1) * ps <= h * ps
    BY ONLY <2>1, <1>2, MulMono
  <2> QED BY ONLY <2>2, <1>2, <1>4, <1>5, <1>6, <1>7
<1>9. ~(g > h)
  <2> SUFFICES ASSUME g > h PROVE FALSE
    OBVIOUS
  <2>1. CASE g >= h + n
    <3>1. h + n \in Int /\ g \in Int /\ h + n <= g
      BY ONLY <1>2, <1>3, <2>1
    <3>2. (h + n) * ps <= g * ps
      BY ONLY <3>1, <1>2, MulMono
    <3> QED BY ONLY <3>2, <1>2, <1>4, <1>5, <1>7
  <2>2. CASE g < h + n
    <3>1. g = h + 1 /\ n = 2
      BY ONLY <1>2, <1>3, <2>2, g > h
    <3> QED BY <3>1, <1>3
  <2> QED BY ONLY <2>1, <2>2, <1>2, <1>3
<1>10. g = h
  BY ONLY <1>2, <1>3, <1>8, <1>9
<1>11. z > 0
  BY <1>2, <1>10 DEF z
<1>12. (a - h * ps) \div z = j
  <2>1. a - h * ps = j * z /\ j * z \in Int /\ j * z <= j * z /\ j * z < j * z + z /\ j \in Int
    BY ONLY <1>2, <1>4, <1>7, <1>10, <1>11
  <2> QED BY ONLY <2>1, <1>2, <1>11, DivIs
<1> QED BY <1>1, <1>10, <1>12 DEF a, ps, z

\* A chunk goes back to the pool.
LEMMA FreeChunkGentle ==
  ASSUME GentleState, NEW b \in DOMAIN blocks, FreeChunk(b), Gentle'
  PROVE  GentleState' /\ status' = "live"
<1> DEFINE h == pool.used
           s == pool.heads[h]
           idx == (b.at - h * pool.page_size) \div s.chunk_size
           cleared == [pool EXCEPT !.heads[h].map = @ \ {idx},
                                   !.heads[h].index = IF @ = s.cnt THEN idx ELSE @,
                                   !.heads[h].free = (@ + 1) % 2^16]
           emptied == cleared.heads[h].free = s.cnt
           inside == b.at \in h * pool.page_size .. (h + s.pages) * pool.page_size - 1
           crashes == ~s.listed \/ (inside /\ s.chunk_size = 0)
<1>0. /\ GentlePool(pool, Once) /\ Sized(pool) /\ Held(pool, ext, blocks) /\ Chained(pool, ext)
      /\ Once \in BOOLEAN
  BY DEF GentleState, GentlePool, Once
<1>1. /\ status = "live" /\ blocks' = Bag!BagRemove(blocks, b) /\ b.at \in 0 .. End(pool)
      /\ h # None /\ ext' = ext
      /\ strains' = strains \cup
           IF ~crashes /\ inside /\ idx < s.cnt /\ ~emptied /\ "once" \notin strains
           THEN {"once"} ELSE {"release"}
  BY Zenon DEF FreeChunk, Releasing
<1>2. \/ crashes
      \/ ~crashes /\ ~inside
      \/ ~crashes /\ inside /\ idx >= s.cnt
      \/ /\ ~crashes /\ inside /\ idx < s.cnt
         /\ pool' = IF emptied THEN Emptied(cleared, h) ELSE cleared
         /\ status' = status
  BY Zenon DEF FreeChunk
<1> HIDE DEF cleared, emptied, inside, crashes, idx
<1>3. ~crashes /\ inside /\ idx < s.cnt /\ ~emptied /\ "once" \notin strains /\ strains' = strains \cup {"once"}
  BY <1>1 DEF Gentle
<1>4. Once = FALSE /\ Once' = TRUE
  BY <1>3 DEF Once
<1>5. h \in DOMAIN pool.heads
  BY ONLY <1>0, <1>1 DEF Sized
<1>6. InChunk(pool, b)
  <2>1. Placed(pool, ext, b)
    BY ONLY <1>0, b \in DOMAIN blocks DEF Held
  <2>2. CASE Outside(pool, ext, b)
    <3>1. End(pool) \in Nat /\ b.at \in Int /\ (b.at <= -Far \/ b.at >= End(pool) + Far)
      BY ONLY <2>2, <1>0, PlaceFacts DEF Outside
    <3>2. b.at \in 0 .. End(pool)
      BY ONLY <1>1
    <3> QED BY ONLY <3>1, <3>2, FarIs
  <2> QED BY ONLY <2>1, <2>2 DEF Placed
<1>7. s.chunk_size # 0 /\ b.at \in h * pool.page_size .. (h + s.pages) * pool.page_size - 1
  BY ONLY <1>3 DEF crashes, inside
<1>8. PICK j \in s.map : b.at = h * pool.page_size + j * s.chunk_size /\ idx = j
  BY ONLY <1>0, <1>5, <1>6, <1>7, BackHere DEF idx
<1>9. DOMAIN pool = PoolFields /\ DOMAIN s = SlabFields /\ pool.page_size \in Nat /\ Cut(s, pool.page_size, FALSE)
  BY <1>0, <1>4, <1>5 DEF GentlePool, Sized, Fixed, Slabs
<1>10. idx \in Int /\ s.cnt \in Int
  <2>1. s.cnt \in Nat /\ j \in 0 .. s.cnt
    BY ONLY <1>0, <1>5, <1>8, ChunkFacts
  <2> QED BY ONLY <2>1, <1>8
<1>11. status' = "live" /\ pool' = cleared
  <2>1. ~(idx >= s.cnt)
    BY ONLY <1>3, <1>10
  <2> QED BY ONLY <2>1, <1>1, <1>2, <1>3
<1> DEFINE index == IF s.index = s.cnt THEN j ELSE s.index
           q == pool'
<1>12. Sets(pool, h, s.map \ {j}, index, More(s.free), q)
  <2>1. 2^16 = 65536
    OBVIOUS
  <2>2. q = [pool EXCEPT !.heads[h].map = @ \ {j},
                         !.heads[h].index = IF @ = s.cnt THEN j ELSE @,
                         !.heads[h].free = (@ + 1) % 2^16]
    BY ONLY <1>8, <1>11 DEF cleared
  <2> HIDE DEF q
  <2> QED BY ONLY <2>1, <2>2, <1>5, <1>9 DEF Sets, PoolFields, SlabFields, More
<1> HIDE DEF index, q
<1>13. SetsDone(pool, h, s.map \ {j}, index, More(s.free), q)
  BY ONLY <1>5, <1>9, <1>12, SetsFields
<1>14. Cut(q.heads[h], q.page_size, TRUE)
  <2>1. Back(s, j, q.heads[h]) /\ q.page_size = pool.page_size
    BY ONLY <1>13 DEF SetsDone, Back, index
  <2> DEFINE t == q.heads[h]
  <2> HIDE DEF t, s
  <2>2. Cut(t, pool.page_size, TRUE)
    BY ONLY <2>1, <1>8, <1>9, BackCut DEF t
  <2> QED BY ONLY <2>1, <2>2 DEF t
<1>15. GentlePool(q, TRUE)
  BY ONLY <1>0, <1>5, <1>13, <1>14, SetsGentle
<1>16. /\ q.pages = pool.pages /\ q.page_size = pool.page_size /\ q.ex = pool.ex
       /\ DOMAIN q.heads = DOMAIN pool.heads
       /\ \A g \in DOMAIN pool.heads : q.heads[g].chunk_size = pool.heads[g].chunk_size
       /\ \A g \in DOMAIN pool.heads \ {h} : q.heads[g].map = pool.heads[g].map
       /\ q.heads[h].map = s.map \ {j}
  BY ONLY <1>5, <1>13 DEF SetsDone
<1>17. ASSUME NEW c \in DOMAIN blocks \ {b}
       PROVE  Placed(q, ext, c)
  <2>1. Placed(pool, ext, c) /\ c.at # b.at
    BY ONLY <1>0, b \in DOMAIN blocks, c \in DOMAIN blocks \ {b} DEF Held
  <2>2. CASE InChunk(pool, c)
    <3>1. PICK g \in DOMAIN pool.heads : \E k \in pool.heads[g].map :
            c.at = g * pool.page_size + k * pool.heads[g].chunk_size /\ c.len <= pool.heads[g].chunk_size
      BY ONLY <2>2 DEF InChunk
    <3>2. PICK k \in pool.heads[g].map :
            c.at = g * pool.page_size + k * pool.heads[g].chunk_size /\ c.len <= pool.heads[g].chunk_size
      BY ONLY <3>1
    <3>3. g # h \/ k # j
      BY ONLY <2>1, <3>2, <1>8
    <3>4. k \in q.heads[g].map /\ g \in DOMAIN q.heads
      BY ONLY <3>2, <3>3, <1>16, g \in DOMAIN pool.heads, k \in pool.heads[g].map
    <3>5. c.at = g * q.page_size + k * q.heads[g].chunk_size /\ c.len <= q.heads[g].chunk_size
      BY ONLY <3>2, <1>16, g \in DOMAIN pool.heads
    <3>6. InChunk(q, c)
      BY ONLY <3>4, <3>5 DEF InChunk
    <3> QED BY ONLY <3>6, <2>1 DEF Placed
  <2>3. CASE Outside(pool, ext, c)
    <3>1. Places(q) = Places(pool)
      BY ONLY <1>16 DEF Places, End
    <3> QED BY ONLY <3>1, <2>1, <2>3 DEF Outside, Placed
  <2> QED BY ONLY <2>1, <2>2, <2>3 DEF Placed
<1>18. Held(q, ext, Bag!BagRemove(blocks, b))
  BY ONLY <1>0, <1>17, HeldLess, b \in DOMAIN blocks
<1>19. Chained(q, ext)
  BY ONLY <1>0, <1>16, ChainedOn
<1>20. Held(pool', ext', blocks') /\ Chained(pool', ext') /\ GentlePool(pool', Once')
  BY ONLY <1>1, <1>4, <1>15, <1>18, <1>19 DEF q
<1> QED BY ONLY <1>11, <1>20 DEF GentleState

-----------------------------------------------------------------------------
(* The inductive invariant *)

\* There is nothing before the pool is created.
NoneInv == status = "none" => DOMAIN blocks = {} /\ DOMAIN ext = {}

\* With a gentle client the program goes on, and its pool is sound.
GentleInv == Gentle /\ status # "none" => status \in {"live", "destroyed"} /\ GentleState

\* The inductive invariant.
MemoryInv == CountInv /\ NoneInv /\ GentleInv

\* What a client has done is never forgotten.
LEMMA StrainsStay ==
  ASSUME Next, ~Create, Gentle'
  PROVE  Gentle
<1>1. CASE Destroy
  BY <1>1 DEF Destroy, Gentle
<1>2. ASSUME NEW req \in client.asks, AllocChunk(req) \/ AllocAborts(req) \/ AllocExt(req)
      PROVE  Gentle
  <2>1. Asking(req)
    BY <1>2 DEF AllocChunk, AllocAborts, AllocExt
  <2>2. strains \subseteq strains'
    BY ONLY <2>1 DEF Asking
  <2> QED BY ONLY <2>2, Gentle' DEF Gentle
<1>3. ASSUME NEW b \in DOMAIN blocks, FreeBelow(b) \/ FreeExt(b) \/ FreeChunk(b)
      PROVE  Gentle
  <2>1. strains \subseteq strains'
    BY ONLY <1>3, Zenon DEF FreeBelow, FreeExt, FreeChunk
  <2> QED BY ONLY <2>1, Gentle' DEF Gentle
<1> QED BY ONLY <1>1, <1>2, <1>3, Next, ~Create DEF Next

\* Every call of a gentle client finds the pool sound and leaves it so.
LEMMA GentleInvNext ==
  ASSUME MemoryInv, Next, Gentle', status' # "none"
  PROVE  status' \in {"live", "destroyed"} /\ GentleState'
<1>0. client \in Clients
  BY DEF MemoryInv, CountInv
<1>1. CASE Create
  <2>1. status = "none" /\ status' = "live"
    BY <1>1 DEF Create
  <2>2. DOMAIN blocks = {} /\ DOMAIN ext = {}
    BY <2>1 DEF MemoryInv, NoneInv
  <2> QED BY ONLY <1>0, <1>1, <2>1, <2>2, Gentle', CreateGentle
<1>2. CASE ~Create
  <2>1. Gentle
    BY ONLY <1>2, Next, Gentle', StrainsStay
  <2>2. status = "live" => GentleState
    BY ONLY <2>1, MemoryInv DEF MemoryInv, GentleInv
  <2>3. CASE Destroy
    <3>1. /\ status = "live" /\ status' = "destroyed"
          /\ pool' = pool /\ ext' = ext /\ blocks' = blocks /\ strains' = strains
      BY ONLY <2>3 DEF Destroy
    <3> QED BY ONLY <2>2, <3>1 DEF GentleState, Once
  <2>4. ASSUME NEW req \in client.asks, AllocChunk(req) \/ AllocAborts(req) \/ AllocExt(req)
        PROVE  status' \in {"live", "destroyed"} /\ GentleState'
    <3>1. Asking(req) /\ status = "live" /\ (AllocAborts(req) \/ status' = status)
      BY ONLY <2>4 DEF AllocChunk, AllocAborts, AllocExt, Asking
    <3>2. GentleState
      BY ONLY <2>2, <3>1
    <3> QED BY ONLY <1>0, <2>4, <3>1, <3>2, Gentle', AllocChunkGentle, AllocAbortsNot, AllocExtGentle,
               req \in client.asks
  <2>5. ASSUME NEW b \in DOMAIN blocks, FreeBelow(b) \/ FreeExt(b) \/ FreeChunk(b)
        PROVE  status' \in {"live", "destroyed"} /\ GentleState'
    <3>1. Releasing(b) /\ status = "live" /\ (FreeBelow(b) => status' = status)
      BY ONLY <2>5, Zenon DEF FreeBelow, FreeExt, FreeChunk, Releasing
    <3>2. GentleState
      BY ONLY <2>2, <3>1
    <3> QED BY ONLY <2>5, <3>1, <3>2, Gentle', FreeBelowGentle, FreeExtGentle, FreeChunkGentle,
               b \in DOMAIN blocks
  <2> QED BY ONLY <1>2, <2>3, <2>4, <2>5, Next DEF Next
<1> QED BY ONLY <1>1, <1>2

\* No call brings the state before the creation back, and only Create leaves it.
LEMMA NoneInvNext ==
  ASSUME Next
  PROVE  status' # "none"
<1>1. CASE Create
  BY ONLY <1>1 DEF Create
<1>2. CASE Destroy
  BY ONLY <1>2 DEF Destroy
<1>3. ASSUME NEW req \in client.asks, AllocChunk(req) \/ AllocAborts(req) \/ AllocExt(req)
      PROVE  status' # "none"
  BY ONLY <1>3 DEF AllocChunk, AllocAborts, AllocExt, Asking
<1>4. ASSUME NEW b \in DOMAIN blocks, FreeBelow(b) \/ FreeExt(b) \/ FreeChunk(b)
      PROVE  status' # "none"
  <2>1. status = "live"
    BY ONLY <1>4, Zenon DEF FreeBelow, FreeExt, FreeChunk, Releasing
  <2>2. CASE FreeBelow(b)
    BY ONLY <2>1, <2>2 DEF FreeBelow
  <2>3. CASE FreeExt(b)
    <3>1. status' = status \/ status' = "wild" \/ status' = "hung"
      BY ONLY <2>3 DEF FreeExt
    <3> QED BY ONLY <2>1, <3>1
  <2>4. CASE FreeChunk(b)
    <3>1. status' = status \/ status' = "wild" \/ status' = "hung" \/ status' = "aborted"
      BY ONLY <2>4, Zenon DEF FreeChunk
    <3> QED BY ONLY <2>1, <3>1
  <2> QED BY ONLY <1>4, <2>2, <2>3, <2>4
<1> QED BY ONLY <1>1, <1>2, <1>3, <1>4, Next DEF Next

\* The counts, the slabs, the blocks and the list of the blocks of malloc stay
\* sound, whatever sizes the clients ask for and however many they hold.
THEOREM MemoryInvHolds == Spec => []MemoryInv
<1>1. Init => MemoryInv
  <2> SUFFICES ASSUME Init PROVE MemoryInv
    OBVIOUS
  <2>1. NoneInv
    BY DEF Init, NoneInv, EmptyBag, SetToBag
  <2>2. GentleInv
    BY DEF Init, GentleInv
  <2> QED BY <2>1, <2>2, CountInvInit DEF MemoryInv
<1>2. MemoryInv /\ [Next]_vars => MemoryInv'
  <2> SUFFICES ASSUME MemoryInv, [Next]_vars PROVE MemoryInv'
    OBVIOUS
  <2>1. CountInv'
    BY CountInvNext DEF MemoryInv
  <2>2. CASE Next
    <3>1. status' # "none"
      BY ONLY <2>2, NoneInvNext
    <3>2. NoneInv'
      BY ONLY <3>1 DEF NoneInv
    <3>3. GentleInv'
      BY ONLY <2>2, <3>1, MemoryInv, GentleInvNext DEF GentleInv
    <3> QED BY ONLY <2>1, <3>2, <3>3 DEF MemoryInv
  <2>3. CASE UNCHANGED vars
    <3>1. NoneInv'
      BY <2>3 DEF MemoryInv, NoneInv, vars
    <3>2. GentleInv'
      BY <2>3 DEF MemoryInv, GentleInv, GentleState, Gentle, Once, vars
    <3> QED BY ONLY <2>1, <3>1, <3>2 DEF MemoryInv
  <2> QED BY <2>2, <2>3
<1> QED BY <1>1, <1>2, PTL DEF Spec

-----------------------------------------------------------------------------
(* The properties *)

\* mm->free_pages and the map of the pages agree, as the property says.
THEOREM FreePagesAlwaysKnown == Spec => []FreePagesKnown
<1>1. MemoryInv => FreePagesKnown
  <2> SUFFICES ASSUME MemoryInv, status = "live" PROVE FreePagesKnown
    BY DEF FreePagesKnown
  <2> DEFINE clear == pool.pages - Cardinality(pool.map)
  <2>1. pool.free <= clear
    BY DEF MemoryInv, CountInv, Counted
  <2>2. ASSUME strains \subseteq {"once"}
        PROVE  clear <= pool.free + 1
    <3>1. Packed(pool)
      BY <2>2 DEF MemoryInv, GentleInv, Gentle, GentleState, GentlePool
    <3> QED BY ONLY <3>1 DEF Packed
  <2> QED BY ONLY <2>1, <2>2 DEF FreePagesKnown
<1> QED BY <1>1, MemoryInvHolds, PTL

\* Two blocks at different places do not overlap.
LEMMA BlocksApart ==
  ASSUME NEW p, NEW once \in BOOLEAN, GentlePool(p, once), NEW x,
         NEW b, Placed(p, x, b), NEW c, Placed(p, x, c), b.at # c.at
  PROVE  b.at + b.len <= c.at \/ c.at + c.len <= b.at
<1> DEFINE e == End(p)
<1>0. Sized(p)
  BY DEF GentlePool
<1>1. b.len \in Nat /\ c.len \in Nat /\ b.len <= Longest /\ c.len <= Longest
      /\ Longest \in Nat /\ Far \in Nat /\ Longest < Far
  <2>1. b.len \in 0 .. Longest /\ c.len \in 0 .. Longest
    BY DEF Placed
  <2>2. Longest \in Nat /\ Far \in Nat /\ Longest < Far
    BY ONLY LongestIs, FarIs
  <2> QED BY ONLY <2>1, <2>2
<1>2. ASSUME NEW d, InChunk(p, d), d.len \in Nat
      PROVE  d.at \in Nat /\ d.at + d.len <= e
  BY <1>2, ChunkInside
<1>3. ASSUME NEW d, Outside(p, x, d)
      PROVE  e \in Nat /\ d.at \in Int /\ (d.at <= -Far \/ d.at >= e + Far)
  BY ONLY <1>0, <1>3, PlaceFacts DEF Outside
<1> HIDE DEF e
<1>4. CASE InChunk(p, b) /\ InChunk(p, c)
  <2>1. PICK g \in DOMAIN p.heads : \E i \in p.heads[g].map :
          b.at = g * p.page_size + i * p.heads[g].chunk_size /\ b.len <= p.heads[g].chunk_size
    BY ONLY <1>4 DEF InChunk
  <2>2. PICK i \in p.heads[g].map :
          b.at = g * p.page_size + i * p.heads[g].chunk_size /\ b.len <= p.heads[g].chunk_size
    BY ONLY <2>1
  <2>3. PICK h \in DOMAIN p.heads : \E j \in p.heads[h].map :
          c.at = h * p.page_size + j * p.heads[h].chunk_size /\ c.len <= p.heads[h].chunk_size
    BY ONLY <1>4 DEF InChunk
  <2>4. PICK j \in p.heads[h].map :
          c.at = h * p.page_size + j * p.heads[h].chunk_size /\ c.len <= p.heads[h].chunk_size
    BY ONLY <2>3
  <2> DEFINE y == p.heads[g].chunk_size
             z == p.heads[h].chunk_size
             a == b.at
             d == c.at
  <2>5. g \in Int /\ i \in Int /\ y \in Nat /\ h \in Int /\ j \in Int /\ z \in Nat
    BY ChunkFacts
  <2>6. g # h \/ i # j
    BY ONLY <2>2, <2>4, b.at # c.at
  <2>7. a \in Nat /\ d \in Nat
    BY ONLY <1>1, <1>2, <1>4
  <2>8. b.len <= y /\ c.len <= z
    BY ONLY <2>2, <2>4
  <2>9. g < h \/ (g = h /\ i < j) => a + y <= d
    BY <2>2, <2>4, ChunksApart
  <2>10. h < g \/ (h = g /\ j < i) => d + z <= a
    BY <2>2, <2>4, ChunksApart
  <2> HIDE DEF y, z
  <2>11. (g < h \/ (g = h /\ i < j)) \/ (h < g \/ (h = g /\ j < i))
    BY ONLY <2>5, <2>6
  <2>12. CASE g < h \/ (g = h /\ i < j)
    <3>1. a + y <= d
      BY ONLY <2>9, <2>12
    <3> HIDE DEF a, d
    <3>2. a + b.len <= d
      BY ONLY <3>1, <1>1, <2>5, <2>7, <2>8
    <3> QED BY ONLY <3>2 DEF a, d
  <2>13. CASE h < g \/ (h = g /\ j < i)
    <3>1. d + z <= a
      BY ONLY <2>10, <2>13
    <3> HIDE DEF a, d
    <3>2. d + c.len <= a
      BY ONLY <3>1, <1>1, <2>5, <2>7, <2>8
    <3> QED BY ONLY <3>2 DEF a, d
  <2> QED BY ONLY <2>11, <2>12, <2>13
<1>5. CASE InChunk(p, b) /\ Outside(p, x, c)
  <2>1. b.at \in Nat /\ b.at + b.len <= e
    BY ONLY <1>1, <1>2, <1>5
  <2>2. e \in Nat /\ c.at \in Int /\ (c.at <= -Far \/ c.at >= e + Far)
    BY ONLY <1>3, <1>5
  <2> QED BY ONLY <1>1, <2>1, <2>2
<1>6. CASE Outside(p, x, b) /\ InChunk(p, c)
  <2>1. c.at \in Nat /\ c.at + c.len <= e
    BY ONLY <1>1, <1>2, <1>6
  <2>2. e \in Nat /\ b.at \in Int /\ (b.at <= -Far \/ b.at >= e + Far)
    BY ONLY <1>3, <1>6
  <2> QED BY ONLY <1>1, <2>1, <2>2
<1>7. CASE Outside(p, x, b) /\ Outside(p, x, c)
  <2>1. b.at \in Int /\ c.at \in Int
    BY ONLY <1>3, <1>7
  <2>2. (b.at < c.at => b.at + Far <= c.at) /\ (c.at < b.at => c.at + Far <= b.at)
    BY ONLY <1>0, <1>7, PlaceFacts DEF Outside
  <2> QED BY ONLY <1>1, <2>1, <2>2, b.at # c.at
<1> QED BY <1>4, <1>5, <1>6, <1>7 DEF Placed

\* What a gentle client may rely on.
THEOREM GentleClientsAlwaysSafe == Spec => []GentleClientsSafe
<1>1. MemoryInv => GentleClientsSafe
  <2> SUFFICES ASSUME MemoryInv, strains \subseteq {"once"} PROVE GentleClientsSafe
    BY DEF GentleClientsSafe
  <2>1. CASE status = "none"
    <3>1. DOMAIN blocks = {}
      BY <2>1 DEF MemoryInv, NoneInv
    <3> QED BY ONLY <2>1, <3>1 DEF GentleClientsSafe
  <2>2. CASE status # "none"
    <3>1. status \in {"live", "destroyed"} /\ GentleState
      BY <2>2 DEF MemoryInv, GentleInv, Gentle
    <3>2. /\ GentlePool(pool, Once) /\ Sized(pool) /\ Held(pool, ext, blocks) /\ Once \in BOOLEAN
      BY <3>1 DEF GentleState, GentlePool, Once
    <3>3. ASSUME NEW b \in DOMAIN blocks, b.at \in 0 .. End(pool)
          PROVE  b.at + b.len <= End(pool)
      <4>1. Placed(pool, ext, b)
        BY ONLY <3>2, b \in DOMAIN blocks DEF Held
      <4>2. CASE InChunk(pool, b)
        <5>1. b.len \in Nat
          BY ONLY <4>1, Lengths DEF Placed
        <5> QED BY ONLY <3>2, <4>2, <5>1, ChunkInside
      <4>3. CASE Outside(pool, ext, b)
        <5>1. End(pool) \in Nat /\ b.at \in Int /\ (b.at <= -Far \/ b.at >= End(pool) + Far)
          BY ONLY <3>2, <4>3, PlaceFacts DEF Outside
        <5> QED BY ONLY <5>1, <3>3, FarIs
      <4> QED BY ONLY <4>1, <4>2, <4>3 DEF Placed
    <3>4. ASSUME NEW b \in DOMAIN blocks, NEW c \in DOMAIN blocks \ {b}
          PROVE  b.at + b.len <= c.at \/ c.at + c.len <= b.at
      <4>1. Placed(pool, ext, b) /\ Placed(pool, ext, c) /\ b.at # c.at
        BY ONLY <3>2, b \in DOMAIN blocks, c \in DOMAIN blocks \ {b} DEF Held
      <4> QED BY ONLY <3>2, <4>1, BlocksApart
    <3>5. \A b \in DOMAIN blocks : blocks[b] = 1
      BY ONLY <3>2 DEF Held
    <3>6. status \notin {"aborted", "hung", "wild"}
      BY ONLY <3>1
    <3> QED BY ONLY <3>3, <3>4, <3>5, <3>6 DEF GentleClientsSafe
  <2> QED BY <2>1, <2>2
<1> QED BY <1>1, MemoryInvHolds, PTL
==============================================================================
