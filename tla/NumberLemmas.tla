---------------------------- MODULE NumberLemmas ----------------------------
(***************************************************************************)
(* Facts about natural numbers that the proofs of this project share: the  *)
(* least of a set, counting up to a number and down from one, and          *)
(* functions defined by recursion on smaller or on larger numbers.         *)
(***************************************************************************)
EXTENDS Integers, WellFoundedInduction, TLAPS

\* A set of natural numbers has a smallest one.
LEMMA LeastNatural ==
    ASSUME NEW S \in SUBSET Nat, S # {}
    PROVE  \E m \in S : \A k \in S : m <= k
<1> DEFINE R == OpToRel(<, Nat)
<1>1. IsWellFoundedOn(R, Nat)
  BY NatLessThanWellFounded
<1>2. R = {ss \in Nat \X Nat : ss[1] < ss[2]}
  BY Zenon DEF OpToRel
<1> HIDE DEF R
<1>3. PICK m \in S : \A k \in S : ~(<<k, m>> \in R)
  BY <1>1, WFMin
<1>4. \A k \in S : ~(k < m)
  BY <1>2, <1>3
<1>5. QED
  BY <1>3, <1>4

\* Counting up from zero to k, from each number to the next.
LEMMA CountUp ==
    ASSUME NEW k \in Nat, NEW S, 0 \in S, \A j \in 1 .. k : j - 1 \in S => j \in S
    PROVE  \A j \in 0 .. k : j \in S
<1> DEFINE T == {j \in Nat : j <= k /\ j \notin S}
<1> SUFFICES ASSUME T # {} PROVE FALSE
  OBVIOUS
<1>1. PICK m \in T : \A j \in T : m <= j
  BY LeastNatural
<1>2. m # 0 /\ m \in 1 .. k /\ m - 1 \in Nat /\ m - 1 <= k
  BY <1>1
<1>3. m - 1 \notin T
  BY <1>1, <1>2
<1>4. QED
  BY <1>1, <1>2, <1>3

\* Every first value and every way to go from each value to the next make a
\* function on 0 .. k.
Recursive(k, V) ==
    \A base \in V : \A step \in [1 .. k -> [V -> V]] :
        \E f \in [0 .. k -> V] : f[0] = base /\ \A j \in 1 .. k : f[j] = step[j][f[j - 1]]

\* A function can be defined by recursion on the numbers up to k.
LEMMA RecursionIs ==
    ASSUME NEW k \in Nat, NEW V
    PROVE  Recursive(k, V)
<1> SUFFICES ASSUME NEW base \in V, NEW step \in [1 .. k -> [V -> V]]
             PROVE  \E f \in [0 .. k -> V] : f[0] = base /\ \A j \in 1 .. k : f[j] = step[j][f[j - 1]]
  BY Zenon DEF Recursive
<1> DEFINE Good(f, m) == f[0] = base /\ \A j \in 1 .. m : f[j] = step[j][f[j - 1]]
           S == {m \in 0 .. k : \E f \in [0 .. k -> V] : Good(f, m)}
<1>1. 0 \in S
  <2>1. [j \in 0 .. k |-> base] \in [0 .. k -> V] /\ Good([j \in 0 .. k |-> base], 0)
    OBVIOUS
  <2>2. \E f \in [0 .. k -> V] : Good(f, 0)
    BY <2>1, Zenon
  <2>3. QED
    BY <2>2
<1>2. ASSUME NEW m \in 1 .. k, m - 1 \in S
      PROVE  m \in S
  <2>1. PICK g \in [0 .. k -> V] : Good(g, m - 1)
    BY <1>2
  <2>2. step[m][g[m - 1]] \in V
    BY <2>1
  <2>3. PICK f : f = [j \in 0 .. k |-> IF j = m THEN step[m][g[m - 1]] ELSE g[j]]
    OBVIOUS
  <2>4. f \in [0 .. k -> V] /\ \A j \in 0 .. k : j # m => f[j] = g[j]
    BY <2>1, <2>2, <2>3
  <2>5. f[m] = step[m][f[m - 1]]
    BY <2>3, <2>4
  <2>6. f[0] = base
    BY <2>1, <2>4
  <2>7. ASSUME NEW j \in 1 .. m PROVE f[j] = step[j][f[j - 1]]
    <3>1. CASE j = m
      BY <2>5, <3>1
    <3>2. CASE j # m
      <4>1. j \in 1 .. m - 1 /\ j \in 0 .. k /\ j - 1 \in 0 .. k /\ j - 1 # m
        BY <3>2
      <4>2. QED
        BY <2>1, <2>4, <3>2, <4>1
    <3>3. QED
      BY <3>1, <3>2
  <2>8. \E h \in [0 .. k -> V] : Good(h, m)
    BY <2>4, <2>6, <2>7, Zenon
  <2>9. QED
    BY <2>8
<1> HIDE DEF S
<1>3. k \in S
  <2>1. \A j \in 0 .. k : j \in S
    BY <1>1, <1>2, CountUp, Zenon
  <2>2. QED
    BY <2>1
<1>4. QED
  BY <1>3 DEF S

\* Counting down from n: what holds from n on, and of each number when it holds
\* of all larger ones, holds of every number.
LEMMA CountDown ==
    ASSUME NEW n \in Nat, NEW S,
           \A i \in Nat : i >= n => i \in S,
           \A i \in Nat : i < n /\ (\A j \in Nat : j > i => j \in S) => i \in S
    PROVE  \A i \in Nat : i \in S
<1> DEFINE T == {d \in Nat : d <= n /\ n - d \notin S}
<1>1. T = {}
  <2> SUFFICES ASSUME T # {} PROVE FALSE
    OBVIOUS
  <2>1. PICK d \in T : \A e \in T : d <= e
    BY LeastNatural
  <2>2. d \in Nat /\ d <= n /\ n - d \in Nat /\ n - d \notin S
    BY <2>1
  <2>3. ASSUME NEW j \in Nat, j > n - d PROVE j \in S
    <3>1. CASE j >= n
      BY <3>1
    <3>2. CASE j < n
      <4>1. n - j \in Nat /\ n - j <= n /\ n - (n - j) = j /\ n - j < d
        BY <2>2, <2>3, <3>2
      <4>2. n - j \notin T
        BY <2>1, <2>2, <4>1
      <4>3. QED
        BY <4>1, <4>2
    <3>3. QED
      BY <3>1, <3>2
  <2>4. n - d < n
    BY <2>2
  <2>5. QED
    BY <2>2, <2>3, <2>4
<1>2. ASSUME NEW i \in Nat, i < n PROVE i \in S
  <2>1. n - i \in Nat /\ n - i <= n /\ n - (n - i) = i
    BY <1>2
  <2>2. n - i \notin T
    BY <1>1, Zenon
  <2>3. QED
    BY <2>1, <2>2
<1>3. QED
  BY <1>2

\* Values from n on, and for each smaller number a jump to a larger one with a
\* way to come back from the value there, make a function.
RecursiveDown(n, V) ==
    \A base \in [Nat -> V] : \A jump \in [Nat -> Nat \ {0}] : \A step \in [Nat -> [V -> V]] :
        \E f \in [Nat -> V] : \A i \in Nat : f[i] = IF i >= n THEN base[i] ELSE step[i][f[i + jump[i]]]

\* A function can be defined by recursion on larger numbers up to n.
LEMMA RecursionDownIs ==
    ASSUME NEW n \in Nat, NEW V
    PROVE  RecursiveDown(n, V)
<1> SUFFICES ASSUME NEW base \in [Nat -> V], NEW jump \in [Nat -> Nat \ {0}], NEW step \in [Nat -> [V -> V]]
             PROVE  \E f \in [Nat -> V] : \A i \in Nat :
                        f[i] = IF i >= n THEN base[i] ELSE step[i][f[i + jump[i]]]
  BY Zenon DEF RecursiveDown
<1> DEFINE At(f, i) == f[i] = IF i >= n THEN base[i] ELSE step[i][f[i + jump[i]]]
           S == {k \in 0 .. n : \E f \in [Nat -> V] : \A i \in Nat : i >= n - k => At(f, i)}
<1>1. 0 \in S
  <2>1. \A i \in Nat : i >= n - 0 => At(base, i)
    OBVIOUS
  <2>2. QED
    BY <2>1
<1>2. ASSUME NEW k \in 1 .. n, k - 1 \in S
      PROVE  k \in S
  <2>1. PICK g \in [Nat -> V] : \A i \in Nat : i >= n - (k - 1) => At(g, i)
    BY <1>2
  <2>2. PICK a \in Nat : a = n - k /\ a < n
    OBVIOUS
  <2>3. a + jump[a] \in Nat /\ a + jump[a] > a
    <3>1. jump[a] \in Nat \ {0}
      BY <2>2
    <3>2. QED
      BY <3>1
  <2>4. g[a + jump[a]] \in V /\ step[a] \in [V -> V]
    BY <2>1, <2>2, <2>3
  <2>5. step[a][g[a + jump[a]]] \in V
    BY <2>4
  <2>6. PICK f : f = [i \in Nat |-> IF i = a THEN step[a][g[a + jump[a]]] ELSE g[i]]
    OBVIOUS
  <2>7. f \in [Nat -> V] /\ f[a] = step[a][g[a + jump[a]]] /\ \A i \in Nat : i # a => f[i] = g[i]
    BY <2>1, <2>2, <2>5, <2>6
  <2>8. At(f, a)
    <3>1. f[a + jump[a]] = g[a + jump[a]]
      BY <2>3, <2>7
    <3>2. QED
      BY <2>2, <2>7, <3>1
  <2>9. ASSUME NEW i \in Nat, i > a PROVE At(f, i)
    <3>1. jump[i] \in Nat \ {0}
      OBVIOUS
    <3>2. i >= n - (k - 1) /\ i # a /\ i + jump[i] \in Nat /\ i + jump[i] # a
      BY <2>2, <2>9, <3>1
    <3>3. f[i] = g[i] /\ f[i + jump[i]] = g[i + jump[i]] /\ At(g, i)
      BY <2>1, <2>7, <3>2
    <3>4. QED
      BY <3>3
  <2>10. \A i \in Nat : i >= n - k => At(f, i)
    <3>1. \A i \in Nat : i >= n - k => i = a \/ i > a
      BY <2>2
    <3>2. QED
      BY <2>8, <2>9, <3>1
  <2>11. k \in 0 .. n
    OBVIOUS
  <2>12. QED
    BY <2>7, <2>10, <2>11
<1> HIDE DEF S
<1>3. n \in S
  <2>1. \A k \in 0 .. n : k \in S
    BY <1>1, <1>2, CountUp, Zenon
  <2>2. QED
    BY <2>1
<1>4. PICK f \in [Nat -> V] : \A i \in Nat : i >= n - n => At(f, i)
  BY <1>3 DEF S
<1>5. \A i \in Nat : i >= n - n
  OBVIOUS
<1>6. \A i \in Nat : At(f, i)
  BY <1>4, <1>5
<1>7. QED
  BY <1>6, Zenon

=============================================================================
