---------------------------- MODULE TotalsProofs ----------------------------
(***************************************************************************)
(* Facts about SumTo.  The recursive function behind it is unfolded with   *)
(* prefix sums given as a relation; the inductions over the prefix length  *)
(* are arguments about a smallest counterexample, from the fact that < on  *)
(* the naturals is well founded.                                           *)
(***************************************************************************)
EXTENDS Totals, TLAPS, WellFoundedInduction

\* s lists the sums of the prefixes of f up to n.
Prefixes(s, f, n) == s = [i \in 0..n |-> IF i = 0 THEN 0 ELSE s[i - 1] + f[i]]

\* Every nonempty set of naturals has a least element.
LEMMA LeastNatural ==
  ASSUME NEW T, T \subseteq Nat, T # {}
  PROVE  \E x \in T : \A y \in T : x <= y
<1> DEFINE R == {p \in Nat \X Nat : p[1] < p[2]}
<1>1. IsWellFoundedOn(R, Nat)
  BY NatLessThanWellFounded DEF OpToRel
<1>2. PICK x \in T : \A y \in T : <<y, x>> \notin R
  BY <1>1, WFMin, Zenon
<1>3. ASSUME NEW y \in T PROVE x <= y
  <2>1. <<y, x>> \notin R /\ x \in Nat /\ y \in Nat
    BY <1>2
  <2> QED  BY <2>1
<1> QED  BY <1>2, <1>3

\* There is a function of prefix sums: the recursion of SumTo has a solution.
LEMMA PrefixesExist ==
  ASSUME NEW f, NEW n \in Nat
  PROVE  \E s : Prefixes(s, f, n)
<1> DEFINE T == {m \in Nat : ~ \E s : Prefixes(s, f, m)}
<1>1. SUFFICES ASSUME T # {} PROVE FALSE
  OBVIOUS
<1>2. PICK m \in T : \A y \in T : m <= y
  BY <1>1, LeastNatural
<1>3. CASE m = 0
  <2> DEFINE s == [i \in 0..0 |-> 0]
  <2>1. \A i \in 0..0 : i = 0
    OBVIOUS
  <2>2. s = [i \in 0..0 |-> IF i = 0 THEN 0 ELSE s[i - 1] + f[i]]
    BY <2>1
  <2> QED  BY <1>3, <2>2 DEF Prefixes
<1>4. CASE m # 0
  <2>1. m - 1 \in Nat /\ m - 1 \notin T
    BY <1>2, <1>4
  <2>2. PICK g : Prefixes(g, f, m - 1)
    BY <2>1
  <2> DEFINE s == [i \in 0..m |-> IF i = 0 THEN 0 ELSE g[i - 1] + f[i]]
  <2>3. ASSUME NEW i \in 0..m, i # 0 PROVE s[i - 1] = g[i - 1]
    <3>1. i - 1 \in 0..m /\ i - 1 \in 0..(m - 1)
      BY <2>3, <1>2
    <3> QED  BY <3>1, <2>2 DEF Prefixes
  <2>4. s = [i \in 0..m |-> IF i = 0 THEN 0 ELSE s[i - 1] + f[i]]
    BY <2>3
  <2> QED  BY <2>4, <1>2 DEF Prefixes
<1> QED  BY <1>3, <1>4

\* SumTo(f, n) is the last of the prefix sums.
LEMMA SumToPrefixes ==
  ASSUME NEW f, NEW n \in Nat
  PROVE  \E s : Prefixes(s, f, n) /\ SumTo(f, n) = s[n]
<1> DEFINE sum == CHOOSE s : s = [i \in 0..n |-> IF i = 0 THEN 0 ELSE s[i - 1] + f[i]]
<1>1. \E s : s = [i \in 0..n |-> IF i = 0 THEN 0 ELSE s[i - 1] + f[i]]
  BY PrefixesExist, Zenon DEF Prefixes
<1>2. Prefixes(sum, f, n)
  BY <1>1, Zenon DEF Prefixes
<1>3. SumTo(f, n) = sum[n]
  BY DEF SumTo
<1> QED  BY <1>2, <1>3

\* Each prefix sum adds one summand to the one before.
LEMMA PrefixStep ==
  ASSUME NEW f, NEW n \in Nat, NEW s, Prefixes(s, f, n)
  PROVE  /\ s[0] = 0
         /\ \A i \in 1..n : s[i] = s[i - 1] + f[i]
BY DEF Prefixes

----------------------------------------------------------------------------
\* Sums of naturals are naturals.
LEMMA PrefixNat ==
  ASSUME NEW n \in Nat, NEW f \in [1..n -> Nat], NEW s, Prefixes(s, f, n)
  PROVE  \A i \in 0..n : s[i] \in Nat
<1> DEFINE T == {i \in 0..n : s[i] \notin Nat}
<1>1. SUFFICES ASSUME T # {} PROVE FALSE
  OBVIOUS
<1>2. PICK m \in T : \A y \in T : m <= y
  <2>1. T \subseteq Nat
    OBVIOUS
  <2> QED  BY <1>1, <2>1, LeastNatural
<1>3. CASE m = 0
  BY <1>2, <1>3, PrefixStep
<1>4. CASE m # 0
  <2>1. m \in 1..n /\ m - 1 \in 0..n
    BY <1>2, <1>4
  <2>2. s[m - 1] \in Nat
    BY <1>2, <2>1
  <2>3. s[m] = s[m - 1] + f[m] /\ f[m] \in Nat
    BY <2>1, PrefixStep
  <2> QED  BY <2>2, <2>3, <1>2
<1> QED  BY <1>3, <1>4

\* A total of natural claims is a natural number.
LEMMA SumToNat ==
  ASSUME NEW n \in Nat, NEW f \in [1..n -> Nat]
  PROVE  SumTo(f, n) \in Nat
BY SumToPrefixes, PrefixNat

\* A sum of zeros is zero.
LEMMA SumToZero ==
  ASSUME NEW n \in Nat, NEW f, \A i \in 1..n : f[i] = 0
  PROVE  SumTo(f, n) = 0
<1>1. PICK s : Prefixes(s, f, n) /\ SumTo(f, n) = s[n]
  BY SumToPrefixes
<1> DEFINE T == {i \in 0..n : s[i] # 0}
<1>2. SUFFICES ASSUME T # {} PROVE FALSE
  BY <1>1
<1>3. PICK m \in T : \A y \in T : m <= y
  <2>1. T \subseteq Nat
    OBVIOUS
  <2> QED  BY <1>2, <2>1, LeastNatural
<1>4. CASE m = 0
  BY <1>1, <1>3, <1>4, PrefixStep
<1>5. CASE m # 0
  <2>1. m \in 1..n /\ m - 1 \in 0..n
    BY <1>3, <1>5
  <2>2. m - 1 \notin T
    BY <1>3, <2>1
  <2> QED  BY <1>1, <2>1, <2>2, <1>3, PrefixStep
<1> QED  BY <1>4, <1>5

\* Changing one summand changes the sum by the difference.
LEMMA SumToUpdate ==
  ASSUME NEW n \in Nat, NEW f \in [1..n -> Nat], NEW g \in [1..n -> Nat], NEW k \in 1..n,
         \A i \in 1..n : i # k => g[i] = f[i]
  PROVE  SumTo(g, n) = SumTo(f, n) - f[k] + g[k]
<1>1. PICK s : Prefixes(s, f, n) /\ SumTo(f, n) = s[n]
  BY SumToPrefixes
<1>2. PICK t : Prefixes(t, g, n) /\ SumTo(g, n) = t[n]
  BY SumToPrefixes
<1>3. \A i \in 0..n : s[i] \in Nat /\ t[i] \in Nat
  BY <1>1, <1>2, PrefixNat
<1> DEFINE Ok(i) == t[i] = s[i] + (IF i >= k THEN g[k] - f[k] ELSE 0)
           T == {i \in 0..n : ~ Ok(i)}
<1>4. T = {}
  <2>1. SUFFICES ASSUME T # {} PROVE FALSE
    OBVIOUS
  <2>2. PICK m \in T : \A y \in T : m <= y
    <3>1. T \subseteq Nat
      OBVIOUS
    <3> QED  BY <2>1, <3>1, LeastNatural
  <2>3. CASE m = 0
    BY <1>1, <1>2, <2>2, <2>3, PrefixStep
  <2>4. CASE m # 0
    <3>1. m \in 1..n /\ m - 1 \in 0..n
      BY <2>2, <2>4
    <3>2. Ok(m - 1)
      BY <2>2, <3>1
    <3>3. s[m] = s[m - 1] + f[m] /\ t[m] = t[m - 1] + g[m]
      BY <1>1, <1>2, <3>1, PrefixStep
    <3>4. f[m] \in Nat /\ g[m] \in Nat /\ f[k] \in Nat /\ g[k] \in Nat
      BY <3>1
    <3>5. CASE m < k
      BY <3>1, <3>2, <3>3, <3>4, <3>5, <1>3
    <3>6. CASE m = k
      BY <3>1, <3>2, <3>3, <3>4, <3>6, <1>3
    <3>7. CASE m > k
      BY <3>1, <3>2, <3>3, <3>4, <3>7, <1>3
    <3>8. Ok(m)
      BY <3>1, <3>5, <3>6, <3>7
    <3> QED  BY <3>8, <2>2
  <2> QED  BY <2>3, <2>4
<1>5. Ok(n)
  BY <1>4
<1> QED  BY <1>1, <1>2, <1>3, <1>5

\* A summand is at most the sum.
LEMMA SumToBound ==
  ASSUME NEW n \in Nat, NEW f \in [1..n -> Nat], NEW k \in 1..n
  PROVE  f[k] <= SumTo(f, n)
<1> DEFINE g == [f EXCEPT ![k] = 0]
<1>1. g \in [1..n -> Nat] /\ g[k] = 0 /\ \A i \in 1..n : i # k => g[i] = f[i]
  OBVIOUS
<1>2. SumTo(g, n) = SumTo(f, n) - f[k] + 0
  BY <1>1, SumToUpdate
<1>3. SumTo(g, n) \in Nat /\ SumTo(f, n) \in Nat /\ f[k] \in Nat
  BY <1>1, SumToNat
<1> QED  BY <1>2, <1>3
=============================================================================
