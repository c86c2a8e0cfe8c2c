---------------------------- MODULE Sums_proofs -----------------------------
(***************************************************************************)
(* Induction over the naturals, in the first-order form the provers can     *)
(* instantiate (a set of numbers in the place of a predicate), and what it  *)
(* gives about the recursive functions of the model: that they exist, and   *)
(* the equations they satisfy.                                              *)
(***************************************************************************)
EXTENDS Sums, WellFoundedInduction, TLAPS

\* A set of naturals that holds 0 and the successor of each of its members is
\* Nat: a least natural outside it would have a predecessor outside it.
LEMMA InductionOnNat ==
    ASSUME NEW S, 0 \in S, \A n \in Nat : n \in S => n + 1 \in S
    PROVE  Nat \subseteq S
<1> DEFINE T == {n \in Nat : n \notin S}
<1> SUFFICES ASSUME T # {} PROVE FALSE
    OBVIOUS
<1>1. \E x \in T : \A y \in T : ~(<<y, x>> \in OpToRel(<, Nat))
    <2>1. T \subseteq Nat
        OBVIOUS
    <2> HIDE DEF T
    <2>2. QED
        BY <2>1, NatLessThanWellFounded, WFMin
<1>2. PICK x \in T : \A y \in T : ~(<<y, x>> \in OpToRel(<, Nat))
    BY <1>1
<1>3. x # 0 /\ x - 1 \in Nat
    OBVIOUS
<1>4. x - 1 \in T
    BY <1>3
<1>5. <<x - 1, x>> \in OpToRel(<, Nat)
    BY <1>3 DEF OpToRel
<1>6. QED
    BY <1>2, <1>4, <1>5
-----------------------------------------------------------------------------
\* f holds the partial sums of w up to n: the equation SumUpTo chooses by.
IsSums(f, w, n) == f = [i \in 0 .. n |-> IF i = 0 THEN 0 ELSE f[i - 1] + w[i]]

Summable(w, n) == \A i \in 1 .. n : w[i] \in Int

\* Partial sums exist.
LEMMA SumsExist ==
    ASSUME NEW w, NEW n \in Nat, Summable(w, n)
    PROVE  \E f \in [0 .. n -> Int] : IsSums(f, w, n)
<1> DEFINE S == {m \in Nat : m <= n => \E f \in [0 .. m -> Int] : IsSums(f, w, m)}
<1>1. 0 \in S
    <2>1. [i \in 0 .. 0 |-> 0] \in [0 .. 0 -> Int]
        OBVIOUS
    <2>2. IsSums([i \in 0 .. 0 |-> 0], w, 0)
        BY DEF IsSums
    <2>3. QED
        BY <2>1, <2>2
<1>2. \A m \in Nat : m \in S => m + 1 \in S
    <2> SUFFICES ASSUME NEW m \in Nat, m \in S, m + 1 <= n
                 PROVE  \E f \in [0 .. (m + 1) -> Int] : IsSums(f, w, m + 1)
        OBVIOUS
    <2>1. PICK f \in [0 .. m -> Int] : IsSums(f, w, m)
        OBVIOUS
    <2> DEFINE g == [i \in 0 .. (m + 1) |-> IF i = m + 1 THEN f[m] + w[m + 1] ELSE f[i]]
    <2>2. g \in [0 .. (m + 1) -> Int]
        BY DEF Summable
    <2>3. \A i \in 0 .. (m + 1) : g[i] = IF i = 0 THEN 0 ELSE g[i - 1] + w[i]
        BY <2>1 DEF IsSums
    <2>4. IsSums(g, w, m + 1)
        BY <2>3 DEF IsSums
    <2>5. QED
        BY <2>2, <2>4
<1>3. Nat \subseteq S
    <2> HIDE DEF S
    <2>1. QED
        BY <1>1, <1>2, InductionOnNat
<1>4. QED
    BY <1>3

\* SumUpTo is the last of some partial sums.
LEMMA SumUpToChosen ==
    ASSUME NEW w, NEW n \in Nat, Summable(w, n)
    PROVE  \E f : IsSums(f, w, n) /\ SumUpTo(w, n) = f[n]
<1> DEFINE ch == CHOOSE f : f = [i \in 0 .. n |-> IF i = 0 THEN 0 ELSE f[i - 1] + w[i]]
<1>1. \E f : f = [i \in 0 .. n |-> IF i = 0 THEN 0 ELSE f[i - 1] + w[i]]
    <2>1. PICK f \in [0 .. n -> Int] : IsSums(f, w, n)
        BY SumsExist
    <2>2. f = [i \in 0 .. n |-> IF i = 0 THEN 0 ELSE f[i - 1] + w[i]]
        BY <2>1 DEF IsSums
    <2>3. QED
        BY ONLY <2>2, Zenon
<1>2. IsSums(ch, w, n)
    BY <1>1, Zenon DEF IsSums
<1>3. SumUpTo(w, n) = ch[n]
    BY DEF SumUpTo
<1>4. QED
    BY <1>2, <1>3

\* Partial sums of terms that agree up to k agree up to k, and are integers.
LEMMA SumsAgree ==
    ASSUME NEW w, NEW v, NEW n \in Nat, NEW m \in Nat,
           Summable(w, n), NEW k \in Nat, k <= n, k <= m,
           \A i \in 1 .. k : v[i] = w[i],
           NEW f, IsSums(f, w, n), NEW g, IsSums(g, v, m)
    PROVE  f[k] = g[k] /\ f[k] \in Int
<1> DEFINE S == {j \in Nat : j <= k => f[j] = g[j] /\ f[j] \in Int}
<1>1. 0 \in S
    BY DEF IsSums
<1>2. \A j \in Nat : j \in S => j + 1 \in S
    <2> SUFFICES ASSUME NEW j \in Nat, j \in S, j + 1 <= k
                 PROVE  f[j + 1] = g[j + 1] /\ f[j + 1] \in Int
        OBVIOUS
    <2>1. f[j + 1] = f[j] + w[j + 1]
        BY DEF IsSums
    <2>2. g[j + 1] = g[j] + v[j + 1]
        BY DEF IsSums
    <2>3. QED
        BY <2>1, <2>2 DEF Summable
<1>3. Nat \subseteq S
    <2> HIDE DEF S
    <2>1. QED
        BY <1>1, <1>2, InductionOnNat
<1>4. QED
    BY <1>3

\* An empty sum is 0.
LEMMA SumOfNone == ASSUME NEW w PROVE SumUpTo(w, 0) = 0
<1>1. PICK f : IsSums(f, w, 0) /\ SumUpTo(w, 0) = f[0]
    BY SumUpToChosen DEF Summable
<1>2. QED
    BY <1>1 DEF IsSums

\* The equation of the loop: one more element adds its term.
LEMMA SumOfNext ==
    ASSUME NEW w, NEW n \in Nat, Summable(w, n + 1)
    PROVE  SumUpTo(w, n + 1) = SumUpTo(w, n) + w[n + 1]
<1>1. Summable(w, n)
    BY DEF Summable
<1>2. PICK f : IsSums(f, w, n) /\ SumUpTo(w, n) = f[n]
    BY <1>1, SumUpToChosen
<1>3. PICK g : IsSums(g, w, n + 1) /\ SumUpTo(w, n + 1) = g[n + 1]
    BY SumUpToChosen
<1>4. f[n] = g[n]
    BY <1>1, <1>2, <1>3, SumsAgree
<1>5. g[n + 1] = g[n] + w[n + 1]
    BY <1>3 DEF IsSums
<1>6. QED
    BY <1>2, <1>3, <1>4, <1>5

\* A sum only depends on its terms.
LEMMA SumOfSame ==
    ASSUME NEW w, NEW v, NEW n \in Nat, Summable(w, n),
           \A i \in 1 .. n : v[i] = w[i]
    PROVE  SumUpTo(v, n) = SumUpTo(w, n)
<1>1. Summable(v, n)
    BY DEF Summable
<1>2. PICK f : IsSums(f, w, n) /\ SumUpTo(w, n) = f[n]
    BY SumUpToChosen
<1>3. PICK g : IsSums(g, v, n) /\ SumUpTo(v, n) = g[n]
    BY <1>1, SumUpToChosen
<1>4. f[n] = g[n]
    BY <1>2, <1>3, SumsAgree
<1>5. QED
    BY <1>2, <1>3, <1>4

\* A sum of integers is an integer.
LEMMA SumIsInt ==
    ASSUME NEW w, NEW n \in Nat, Summable(w, n)
    PROVE  SumUpTo(w, n) \in Int
<1>1. PICK f : IsSums(f, w, n) /\ SumUpTo(w, n) = f[n]
    BY SumUpToChosen
<1>2. QED
    BY <1>1, SumsAgree

\* A sum of naturals is a natural.
LEMMA SumIsNat ==
    ASSUME NEW w, NEW n \in Nat, \A i \in 1 .. n : w[i] \in Nat
    PROVE  SumUpTo(w, n) \in Nat
<1> DEFINE S == {m \in Nat : m <= n => SumUpTo(w, m) \in Nat}
<1>1. 0 \in S
    BY SumOfNone
<1>2. \A m \in Nat : m \in S => m + 1 \in S
    <2> SUFFICES ASSUME NEW m \in Nat, m \in S, m + 1 <= n
                 PROVE  SumUpTo(w, m + 1) \in Nat
        OBVIOUS
    <2>1. SumUpTo(w, m + 1) = SumUpTo(w, m) + w[m + 1]
        BY SumOfNext DEF Summable
    <2>2. QED
        BY <2>1
<1>3. Nat \subseteq S
    <2> HIDE DEF S
    <2>1. QED
        BY <1>1, <1>2, InductionOnNat
<1>4. QED
    BY <1>3

\* Changing one term changes the sum by the difference.
LEMMA SumOfChanged ==
    ASSUME NEW w, NEW v, NEW n \in Nat, Summable(w, n), Summable(v, n),
           NEW k \in 1 .. n, \A i \in 1 .. n : i # k => v[i] = w[i]
    PROVE  SumUpTo(v, n) = SumUpTo(w, n) - w[k] + v[k]
<1> DEFINE S == {m \in Nat : k <= m /\ m <= n
                               => SumUpTo(v, m) = SumUpTo(w, m) - w[k] + v[k]}
<1>1. 0 \in S
    OBVIOUS
<1>2. \A m \in Nat : m \in S => m + 1 \in S
    <2> SUFFICES ASSUME NEW m \in Nat, m \in S, k <= m + 1, m + 1 <= n
                 PROVE  SumUpTo(v, m + 1) = SumUpTo(w, m + 1) - w[k] + v[k]
        OBVIOUS
    <2>1. /\ Summable(w, m + 1) /\ Summable(v, m + 1)
          /\ Summable(w, m) /\ Summable(v, m)
        BY DEF Summable
    <2>2. /\ SumUpTo(w, m + 1) = SumUpTo(w, m) + w[m + 1]
          /\ SumUpTo(v, m + 1) = SumUpTo(v, m) + v[m + 1]
        BY <2>1, SumOfNext
    <2>3. /\ SumUpTo(w, m) \in Int /\ SumUpTo(v, m) \in Int
          /\ w[k] \in Int /\ v[k] \in Int /\ w[m + 1] \in Int /\ v[m + 1] \in Int
        BY <2>1, SumIsInt DEF Summable
    <2>4. CASE k = m + 1
        <3>1. \A i \in 1 .. m : v[i] = w[i]
            BY <2>4
        <3>2. SumUpTo(v, m) = SumUpTo(w, m)
            BY <2>1, <3>1, SumOfSame
        <3>3. QED
            BY <2>2, <2>3, <2>4, <3>2
    <2>5. CASE k <= m
        <3>1. v[m + 1] = w[m + 1]
            BY <2>5
        <3>2. SumUpTo(v, m) = SumUpTo(w, m) - w[k] + v[k]
            BY <2>5
        <3>3. QED
            BY <2>2, <2>3, <3>1, <3>2
    <2>6. QED
        BY <2>4, <2>5
<1>3. Nat \subseteq S
    <2> HIDE DEF S
    <2>1. QED
        BY <1>1, <1>2, InductionOnNat
<1>4. QED
    BY <1>3
=============================================================================
