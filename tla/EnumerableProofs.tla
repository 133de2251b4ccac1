--------------------------- MODULE EnumerableProofs ---------------------------
(***************************************************************************)
(* Theorems about the generated enumerable sets and maps: each implements  *)
(* what its users see, a set or a partial function, for any words, any     *)
(* conversion of a type to words and any capacity.                         *)
(***************************************************************************)
EXTENDS EnumerableMap, FiniteSetTheorems, FunctionTheorems, TLAPS

\* The words of a set in storage.
WordsIn(s) == {s.slots[i] : i \in 0..(s.length - 1)}

\* The array and the positions are two views of one set.
Tracked(s) ==
  /\ s \in [slots : [Index -> Bytes32], length : 0..Capacity, positions : [Bytes32 -> 0..Capacity]]
  /\ \A i \in 0..(s.length - 1) : s.positions[s.slots[i]] = i + 1
  /\ \A w \in Bytes32 : s.positions[w] # 0 =>
       s.positions[w] <= s.length /\ s.slots[s.positions[w] - 1] = w

LEMMA WordsAre ==
  ASSUME NEW s PROVE \A v : v \in WordsIn(s) <=> \E i \in 0..(s.length - 1) : v = s.slots[i]
BY DEF WordsIn

LEMMA TrackedIs ==
  ASSUME NEW s, Tracked(s)
  PROVE  /\ s.length \in Nat /\ s.length <= Capacity /\ Capacity \in Nat
         /\ s.slots \in [Index -> Bytes32] /\ s.positions \in [Bytes32 -> 0..Capacity]
         /\ \A i \in 0..(s.length - 1) : i \in Index /\ i \in Nat /\ s.slots[i] \in Bytes32
         /\ \A w \in Bytes32 : s.positions[w] # 0 =>
              s.positions[w] - 1 \in 0..(s.length - 1) /\ s.slots[s.positions[w] - 1] = w
         /\ \A i, j \in 0..(s.length - 1) : s.slots[i] = s.slots[j] => i = j
         /\ \A w \in Bytes32 : HasWord(s, w) <=> w \in WordsIn(s)
         /\ WordsIn(s) \subseteq Bytes32
<1> DEFINE l == s.length
<1>1. /\ l \in Nat /\ l <= Capacity /\ Capacity \in Nat
      /\ s.slots \in [Index -> Bytes32] /\ s.positions \in [Bytes32 -> 0..Capacity]
      /\ \A i \in 0..(l - 1) : s.positions[s.slots[i]] = i + 1
      /\ \A w \in Bytes32 : s.positions[w] # 0 => s.positions[w] <= l /\ s.slots[s.positions[w] - 1] = w
  BY SetAssumption DEF Tracked
<1> HIDE DEF l
<1>2. \A i \in 0..(l - 1) : i \in Index /\ i \in Nat
  BY <1>1 DEF Index
<1>3. \A i \in 0..(l - 1) : s.slots[i] \in Bytes32
  BY <1>1, <1>2
<1>4. ASSUME NEW w \in Bytes32, s.positions[w] # 0 PROVE s.positions[w] - 1 \in 0..(l - 1)
  <2>1. s.positions[w] \in Nat /\ s.positions[w] <= l
    BY <1>1, <1>4
  <2> QED  BY <1>1, <1>4, <2>1
<1>5. ASSUME NEW i \in 0..(l - 1), NEW j \in 0..(l - 1), s.slots[i] = s.slots[j] PROVE i = j
  <2>1. i + 1 = j + 1
    BY <1>1, <1>5
  <2> QED  BY <1>2, <2>1
<1>6. ASSUME NEW w \in Bytes32 PROVE HasWord(s, w) <=> \E i \in 0..(l - 1) : w = s.slots[i]
  <2>1. CASE s.positions[w] # 0
    BY <1>1, <1>4, <2>1 DEF HasWord
  <2>2. ASSUME s.positions[w] = 0, NEW i \in 0..(l - 1), w = s.slots[i] PROVE FALSE
    BY <1>1, <1>2, <2>2
  <2> QED  BY <2>1, <2>2 DEF HasWord
<1>7. \A w : w \in WordsIn(s) <=> \E i \in 0..(l - 1) : w = s.slots[i]
  BY WordsAre DEF l
<1> QED  BY <1>1, <1>2, <1>3, <1>4, <1>5, <1>6, <1>7 DEF l

\* As many words as the length says.
LEMMA CountIs ==
  ASSUME NEW s, Tracked(s)
  PROVE  Cardinality(WordsIn(s)) = s.length /\ IsFiniteSet(WordsIn(s))
<1> DEFINE I == 0..(s.length - 1)
           f == [i \in I |-> s.slots[i]]
           W == WordsIn(s)
<1>1. /\ s.length \in Nat
      /\ \A i, j \in I : s.slots[i] = s.slots[j] => i = j
  BY TrackedIs
<1>2. f \in [I -> W] /\ \A w \in W : \E i \in I : f[i] = w
  BY DEF WordsIn
<1>3. \A i, j \in I : f[i] = f[j] => i = j
  BY <1>1
<1>4. IsFiniteSet(I) /\ Cardinality(I) = s.length
  <2>1. 0 \in Int /\ s.length - 1 \in Int
    BY <1>1
  <2>2. /\ IsFiniteSet(I)
        /\ Cardinality(I) = IF 0 > s.length - 1 THEN 0 ELSE s.length - 1 - 0 + 1
    BY <2>1, FS_Interval
  <2> HIDE DEF I
  <2> QED  BY <1>1, <2>2
<1> HIDE DEF f, I, W
<1>5. f \in Bijection(I, W)
  BY <1>2, <1>3, Fun_IsBij
<1>6. ExistsBijection(I, W)
  BY <1>5 DEF ExistsBijection
<1>7. Cardinality(W) = s.length /\ IsFiniteSet(W)
  BY <1>4, <1>6, FS_Bijection
<1> QED  BY <1>7 DEF W

LEMMA EmptyTracked == Tracked(EmptySet) /\ WordsIn(EmptySet) = {}
<1>1. EmptySet.length = 0 /\ 0 \in 0..Capacity
  BY SetAssumption DEF EmptySet
<1>2. EmptySet \in [slots : [Index -> Bytes32], length : 0..Capacity, positions : [Bytes32 -> 0..Capacity]]
  BY <1>1, SetAssumption DEF EmptySet
<1>3. ~ \E i \in 0..(0 - 1) : TRUE
  OBVIOUS
<1> QED  BY <1>1, <1>2, <1>3 DEF Tracked, WordsIn, EmptySet

LEMMA AddTracked ==
  ASSUME NEW s, Tracked(s), NEW w \in Bytes32, s.length < Capacity
  PROVE  Tracked(AddedWord(s, w)) /\ WordsIn(AddedWord(s, w)) = WordsIn(s) \cup {w}
<1> DEFINE l == s.length
           t == AddedWord(s, w)
           R == [slots : [Index -> Bytes32], length : 0..Capacity, positions : [Bytes32 -> 0..Capacity]]
<1>a. /\ s \in R /\ l \in Nat /\ Capacity \in Nat /\ l < Capacity
      /\ s.slots \in [Index -> Bytes32] /\ s.positions \in [Bytes32 -> 0..Capacity]
      /\ \A i \in 0..(l - 1) : i \in Index /\ i \in Nat /\ s.slots[i] \in Bytes32
      /\ \A i \in 0..(l - 1) : s.positions[s.slots[i]] = i + 1
      /\ \A v \in Bytes32 : s.positions[v] # 0 =>
           s.positions[v] - 1 \in 0..(l - 1) /\ s.slots[s.positions[v] - 1] = v
      /\ HasWord(s, w) <=> w \in WordsIn(s)
  BY TrackedIs DEF Tracked
<1>1. l + 1 \in 0..Capacity /\ l \in Index
  <2> HIDE DEF l
  <2> QED  BY <1>a DEF Index
<1>2. CASE HasWord(s, w)
  BY <1>1, <1>a, <1>2 DEF AddedWord
<1>3. CASE ~ HasWord(s, w)
  <2>1. t = [s EXCEPT !.slots[l] = w, !.length = l + 1, !.positions[w] = l + 1]
    BY <1>3 DEF AddedWord
  <2> HIDE DEF t
  <2>2. /\ t \in R /\ t.length = l + 1
        /\ t.slots = [s.slots EXCEPT ![l] = w]
        /\ t.positions = [s.positions EXCEPT ![w] = l + 1]
    <3> HIDE DEF l
    <3> QED  BY <1>1, <1>a, <2>1
  <2>3. /\ t.slots[l] = w /\ t.positions[w] = l + 1
        /\ \A i \in 0..(l - 1) : t.slots[i] = s.slots[i]
        /\ \A v \in Bytes32 : v # w => t.positions[v] = s.positions[v]
    <3> HIDE DEF l
    <3> QED  BY <1>1, <1>a, <2>2
  <2>4. s.positions[w] = 0 /\ \A i \in 0..(l - 1) : s.slots[i] # w
    BY <1>1, <1>a, <1>3 DEF HasWord, WordsIn
  <2>n. l \in Nat /\ t.length = l + 1
    BY <1>1, <1>a, <2>2
  <2> HIDE DEF l, R
  <2>5. \A i \in 0..(l + 1 - 1) : i = l \/ i \in 0..(l - 1)
    BY <1>1, <1>a
  <2>6. ASSUME NEW i \in 0..(l + 1 - 1) PROVE t.positions[t.slots[i]] = i + 1
    <3>1. CASE i = l
      BY <2>3, <3>1
    <3>2. CASE i \in 0..(l - 1)
      <4>1. t.slots[i] = s.slots[i] /\ s.slots[i] # w /\ s.slots[i] \in Bytes32
        BY <1>1, <1>a, <2>3, <2>4, <3>2
      <4>2. t.positions[s.slots[i]] = s.positions[s.slots[i]]
        BY <2>3, <4>1
      <4>3. s.positions[s.slots[i]] = i + 1
        BY <1>1, <1>a, <3>2
      <4> QED  BY <4>1, <4>2, <4>3
    <3> QED  BY <2>5, <3>1, <3>2
  <2>7. ASSUME NEW v \in Bytes32, t.positions[v] # 0
        PROVE  t.positions[v] <= l + 1 /\ t.slots[t.positions[v] - 1] = v
    <3>1. CASE v = w
      <4>1. l + 1 - 1 = l /\ l + 1 <= l + 1
        BY <1>1, <1>a
      <4>2. t.positions[v] = l + 1 /\ t.slots[l] = v
        BY <2>3, <3>1
      <4>3. t.slots[l + 1 - 1] = v
        BY <4>1, <4>2
      <4>4. t.slots[t.positions[v] - 1] = v
        BY <2>n, <4>2, <4>3
      <4> QED  BY <4>1, <4>2, <4>4
    <3>2. CASE v # w
      <4> DEFINE p == s.positions[v]
      <4>1. t.positions[v] = p /\ p # 0
        BY <2>3, <2>7, <3>2
      <4>2. p - 1 \in 0..(l - 1) /\ s.slots[p - 1] = v /\ p \in Nat
        BY <1>1, <1>a, <4>1
      <4> HIDE DEF p
      <4>3. t.slots[p - 1] = v
        BY <2>3, <4>2
      <4>4. p <= l + 1
        BY <1>1, <1>a, <4>2
      <4> QED  BY <4>1, <4>3, <4>4
    <3> QED  BY <3>1, <3>2
  <2>8. Tracked(t)
    <3>1. \A i \in 0..(t.length - 1) : t.positions[t.slots[i]] = i + 1
      BY <2>n, <2>6
    <3>2. \A v \in Bytes32 : t.positions[v] # 0 =>
            t.positions[v] <= t.length /\ t.slots[t.positions[v] - 1] = v
      BY <2>n, <2>7
    <3> QED  BY <2>2, <3>1, <3>2 DEF Tracked, R
  <2>9. \A v : v \in WordsIn(t) <=> v \in WordsIn(s) \cup {w}
    <3>1. \A v : v \in WordsIn(s) <=> \E i \in 0..(l - 1) : v = s.slots[i]
      BY WordsAre DEF l
    <3>2. \A v : v \in WordsIn(t) <=> \E i \in 0..(l + 1 - 1) : v = t.slots[i]
      BY <2>n, WordsAre
    <3>3. l \in 0..(l + 1 - 1) /\ \A i \in 0..(l - 1) : i \in 0..(l + 1 - 1)
      BY <1>1, <1>a
    <3> QED  BY <2>3, <2>5, <3>1, <3>2, <3>3
  <2> QED  BY <2>8, <2>9 DEF t
<1> QED  BY <1>2, <1>3

LEMMA RemoveTracked ==
  ASSUME NEW s, Tracked(s), NEW w \in Bytes32
  PROVE  Tracked(RemovedWord(s, w)) /\ WordsIn(RemovedWord(s, w)) = WordsIn(s) \ {w}
<1> DEFINE l == s.length
           t == RemovedWord(s, w)
           R == [slots : [Index -> Bytes32], length : 0..Capacity, positions : [Bytes32 -> 0..Capacity]]
<1>1. /\ s \in R /\ l \in Nat /\ l <= Capacity /\ Capacity \in Nat
      /\ s.slots \in [Index -> Bytes32] /\ s.positions \in [Bytes32 -> 0..Capacity]
      /\ \A i \in 0..(l - 1) : i \in Index /\ i \in Nat /\ s.slots[i] \in Bytes32
      /\ \A i \in 0..(l - 1) : s.positions[s.slots[i]] = i + 1
      /\ \A v \in Bytes32 : s.positions[v] # 0 =>
           s.positions[v] - 1 \in 0..(l - 1) /\ s.slots[s.positions[v] - 1] = v
      /\ \A i, j \in 0..(l - 1) : s.slots[i] = s.slots[j] => i = j
      /\ \A v \in Bytes32 : HasWord(s, v) <=> v \in WordsIn(s)
      /\ WordsIn(s) \subseteq Bytes32
  BY TrackedIs DEF Tracked
<1>2. CASE ~ HasWord(s, w)
  BY <1>1, <1>2 DEF RemovedWord
<1>3. CASE HasWord(s, w)
  <2> DEFINE last == l - 1
             at   == s.positions[w] - 1
             x    == s.slots[last]
  <2>1. /\ at \in 0..last /\ s.slots[at] = w /\ s.positions[w] = at + 1
        /\ last \in 0..last /\ last \in Nat /\ l = last + 1 /\ x \in Bytes32 /\ at \in Nat /\ at \in Index
        /\ last \in Index /\ at + 1 \in 0..Capacity
    <3>1. at \in 0..last /\ s.slots[at] = w /\ s.positions[w] \in Nat
      BY <1>1, <1>3 DEF HasWord
    <3> HIDE DEF l
    <3>2. last \in 0..last /\ last \in Nat /\ l = last + 1 /\ s.positions[w] = at + 1
      BY <1>1, <3>1
    <3>3. at + 1 <= Capacity /\ at + 1 \in Nat
      BY <1>1, <3>1, <3>2
    <3>4. x \in Bytes32 /\ last \in Index /\ at \in Index
      BY <1>1, <3>1, <3>2
    <3> HIDE DEF at, last, x
    <3> QED  BY <1>1, <3>1, <3>2, <3>3, <3>4
  <2>2. t = [s EXCEPT !.slots = [s.slots EXCEPT ![at] = x, ![last] = Zero],
                      !.length = last,
                      !.positions = [s.positions EXCEPT ![x] = at + 1, ![w] = 0]]
    BY <1>3 DEF RemovedWord
  <2>3. [s.slots EXCEPT ![at] = x, ![last] = Zero] \in [Index -> Bytes32]
    <3> HIDE DEF l, last, at, x
    <3> QED  BY <1>1, <2>1, SetAssumption
  <2>4. [s.positions EXCEPT ![x] = at + 1, ![w] = 0] \in [Bytes32 -> 0..Capacity]
    <3> HIDE DEF l, last, at, x
    <3>1. 0 \in 0..Capacity
      BY <1>1
    <3> QED  BY <1>1, <2>1, <3>1
  <2>5. last \in 0..Capacity
    <3> HIDE DEF last, l
    <3> QED  BY <1>1, <2>1
  <2> HIDE DEF t, l, last, at, x
  <2>6. /\ t \in R /\ t.length = last
        /\ t.slots = [s.slots EXCEPT ![at] = x, ![last] = Zero]
        /\ t.positions = [s.positions EXCEPT ![x] = at + 1, ![w] = 0]
    BY <1>1, <2>2, <2>3, <2>4, <2>5
  <2>7. /\ \A i \in Index : i # last => t.slots[i] = IF i = at THEN x ELSE s.slots[i]
        /\ \A v \in Bytes32 : t.positions[v] =
             IF v = w THEN 0 ELSE IF v = x THEN at + 1 ELSE s.positions[v]
    BY <1>1, <2>1, <2>6
  <2>8. /\ \A i \in 0..(last - 1) : i \in 0..(l - 1) /\ i # last /\ i \in Index
        /\ last \in 0..(l - 1) /\ at \in 0..(l - 1) /\ l - 1 = last
        /\ \A i \in 0..(l - 1) : i = last \/ i \in 0..(last - 1)
    BY <1>1, <2>1
  <2>9. s.slots[last] = x /\ s.positions[x] = last + 1 /\ (x = w <=> at = last)
    BY <1>1, <2>1, <2>8 DEF x
  <2>10. ASSUME NEW i \in 0..(last - 1) PROVE t.positions[t.slots[i]] = i + 1
    <3>1. CASE i = at
      <4>1. t.slots[i] = x /\ x # w
        BY <2>7, <2>8, <2>9, <3>1
      <4> QED  BY <2>1, <2>7, <3>1, <4>1
    <3>2. CASE i # at
      <4> DEFINE v == s.slots[i]
      <4>1. t.slots[i] = v /\ v \in Bytes32 /\ v # w /\ v # x /\ s.positions[v] = i + 1
        BY <1>1, <2>1, <2>7, <2>8, <2>9, <3>2
      <4> HIDE DEF v
      <4> QED  BY <2>7, <4>1
    <3> QED  BY <3>1, <3>2
  <2>11. ASSUME NEW v \in Bytes32, t.positions[v] # 0
         PROVE  t.positions[v] - 1 \in 0..(last - 1) /\ t.slots[t.positions[v] - 1] = v
    <3>1. v # w
      BY <2>7, <2>11
    <3>2. CASE v = x
      <4>1. at # last /\ t.positions[v] = at + 1
        BY <2>7, <2>9, <3>1, <3>2
      <4>2. at \in 0..(last - 1) /\ at + 1 - 1 = at
        BY <2>1, <4>1
      <4>3. t.slots[at] = x
        BY <2>1, <2>7, <4>1
      <4>4. t.positions[v] - 1 = at
        BY <4>1, <4>2
      <4> QED  BY <3>2, <4>2, <4>3, <4>4
    <3>3. CASE v # x
      <4> DEFINE p == s.positions[v]
                 j == p - 1
      <4>1. t.positions[v] = p /\ p # 0
        BY <2>7, <2>11, <3>1, <3>3
      <4>2. j \in 0..(l - 1) /\ s.slots[j] = v
        BY <1>1, <4>1
      <4>j. t.positions[v] - 1 = j
        BY <4>1
      <4> HIDE DEF p, j
      <4>3. j # last /\ j # at
        BY <2>1, <2>9, <3>1, <3>3, <4>2
      <4>4. j \in 0..(last - 1) /\ j \in Index
        BY <1>1, <2>8, <4>2, <4>3
      <4>5. t.slots[j] = v
        BY <2>7, <4>2, <4>3, <4>4
      <4> QED  BY <4>4, <4>5, <4>j
    <3> QED  BY <3>2, <3>3
  <2>12. Tracked(t)
    <3>1. \A i \in 0..(t.length - 1) : t.positions[t.slots[i]] = i + 1
      BY <2>1, <2>6, <2>10
    <3>2. ASSUME NEW v \in Bytes32, t.positions[v] # 0
          PROVE  t.positions[v] <= t.length /\ t.slots[t.positions[v] - 1] = v
      <4>1. t.positions[v] \in Nat /\ t.length = last /\ last \in Nat
        BY <1>1, <2>1, <2>6
      <4>2. t.positions[v] <= t.length
        BY <2>11, <3>2, <4>1
      <4> QED  BY <2>11, <3>2, <4>2
    <3> QED  BY <2>6, <3>1, <3>2 DEF Tracked, R
  <2>13. \A v \in Bytes32 : HasWord(t, v) <=> HasWord(s, v) /\ v # w
    BY <2>1, <2>7, <2>9 DEF HasWord
  <2>14. /\ \A v \in Bytes32 : HasWord(t, v) <=> v \in WordsIn(t)
         /\ WordsIn(t) \subseteq Bytes32
    BY <2>12, TrackedIs
  <2> QED  BY <1>1, <2>12, <2>13, <2>14 DEF t
<1> QED  BY <1>2, <1>3

LEMMA ClearTracked ==
  ASSUME NEW s, Tracked(s)
  PROVE  Tracked(ClearedWords(s)) /\ WordsIn(ClearedWords(s)) = {}
<1> DEFINE t == ClearedWords(s)
           P == [w \in Bytes32 |-> IF \E i \in 0..(s.length - 1) : s.slots[i] = w THEN 0 ELSE s.positions[w]]
           R == [slots : [Index -> Bytes32], length : 0..Capacity, positions : [Bytes32 -> 0..Capacity]]
<1>1. /\ s \in R /\ Capacity \in Nat
      /\ \A w \in Bytes32 : HasWord(s, w) <=> w \in WordsIn(s)
  BY TrackedIs DEF Tracked
<1>2. P \in [Bytes32 -> 0..Capacity] /\ \A w \in Bytes32 : P[w] = 0
  <2>1. ASSUME NEW w \in Bytes32
        PROVE  (\E i \in 0..(s.length - 1) : s.slots[i] = w) \/ s.positions[w] = 0
    BY <1>1, WordsAre DEF HasWord
  <2>2. \A w \in Bytes32 : P[w] = 0
    BY <2>1
  <2>3. 0 \in 0..Capacity
    BY <1>1
  <2> QED  BY <2>2, <2>3
<1> HIDE DEF P
<1>3. t = [[s EXCEPT !.positions = P] EXCEPT !.length = 0]
  BY DEF ClearedWords, WithLength, P
<1> HIDE DEF t
<1>4. t \in R /\ t.length = 0 /\ t.positions = P
  <2>1. 0 \in 0..Capacity
    BY <1>1
  <2> QED  BY <1>1, <1>2, <1>3, <2>1
<1>5. ~ \E i \in 0..(0 - 1) : TRUE
  OBVIOUS
<1>6. /\ \A i \in 0..(t.length - 1) : FALSE
      /\ \A w \in Bytes32 : t.positions[w] = 0
  BY <1>2, <1>4, <1>5
<1>7. Tracked(t)
  BY <1>4, <1>6 DEF Tracked
<1>8. WordsIn(t) = {}
  BY <1>6, WordsAre
<1> QED  BY <1>7, <1>8 DEF t

----------------------------------------------------------------------------
(* What is enumerated, and what a typed set or map makes of it. *)

\* r lists n members of S, none of them twice.
Listed(r, n, S) ==
  /\ Len(r) = n /\ DOMAIN r = 1..n
  /\ \A i \in DOMAIN r : r[i] \in S
  /\ \A i, j \in DOMAIN r : r[i] = r[j] => i = j

LEMMA LengthOf ==
  ASSUME NEW S, NEW n \in Nat, NEW r \in [1..n -> S] PROVE Len(r) = n /\ DOMAIN r = 1..n
OBVIOUS

LEMMA AllAre ==
  ASSUME NEW s, Tracked(s) PROVE Listed(AllWords(s), s.length, WordsIn(s))
<1> DEFINE n == s.length
           r == AllWords(s)
<1>1. /\ n \in Nat
      /\ \A i, j \in 0..(n - 1) : s.slots[i] = s.slots[j] => i = j
      /\ \A v : v \in WordsIn(s) <=> \E i \in 0..(n - 1) : v = s.slots[i]
  BY TrackedIs, WordsAre
<1>2. DOMAIN r = 1..n /\ \A i \in 1..n : r[i] = s.slots[i - 1]
  BY DEF AllWords
<1>r. r = [i \in 1..n |-> r[i]]
  BY DEF AllWords
<1> HIDE DEF n, r
<1>3. \A i \in 1..n : i - 1 \in 0..(n - 1)
  BY <1>1
<1>4. \A i \in 1..n : r[i] \in WordsIn(s)
  BY <1>1, <1>2, <1>3
<1>5. ASSUME NEW i \in 1..n, NEW j \in 1..n, r[i] = r[j] PROVE i = j
  <2>1. i - 1 = j - 1
    BY <1>1, <1>2, <1>3, <1>5
  <2> QED  BY <1>1, <2>1
<1>6. Len(r) = n
  <2>1. r \in [1..n -> WordsIn(s)]
    BY <1>4, <1>r
  <2> QED  BY <1>1, <2>1, LengthOf
<1> QED  BY <1>2, <1>4, <1>5, <1>6 DEF Listed, r, n

\* How many words the bounds leave of n.
Left(start, end, n) == Smaller(end, n) - Smaller(start, Smaller(end, n))

LEMMA SliceIs ==
  ASSUME NEW s, Tracked(s), NEW start \in Nat, NEW end \in Nat
  PROVE  /\ Listed(WordSlice(s, start, end), Left(start, end, s.length), WordsIn(s))
         /\ Left(start, end, s.length) \in Nat
<1> DEFINE l    == s.length
           to   == Smaller(end, l)
           from == Smaller(start, to)
           n    == to - from
           r    == WordSlice(s, start, end)
<1>1. /\ l \in Nat
      /\ \A i, j \in 0..(l - 1) : s.slots[i] = s.slots[j] => i = j
      /\ \A v : v \in WordsIn(s) <=> \E i \in 0..(l - 1) : v = s.slots[i]
  BY TrackedIs, WordsAre
<1>2. to \in Nat /\ from \in Nat /\ to <= l /\ from <= to
  BY <1>1 DEF Smaller
<1>3. n = Left(start, end, s.length)
  BY DEF Left
<1>4. DOMAIN r = 1..n /\ (\A i \in 1..n : r[i] = s.slots[from + i - 1]) /\ r = [i \in 1..n |-> r[i]]
  BY DEF WordSlice, WordCount
<1> HIDE DEF l, from, to, r
<1>5. /\ n \in Nat
      /\ \A i \in 1..n : from + i - 1 \in 0..(l - 1) /\ i \in Nat
  BY <1>1, <1>2
<1> HIDE DEF n
<1>6. \A i \in 1..n : r[i] \in WordsIn(s)
  BY <1>1, <1>4, <1>5
<1>7. ASSUME NEW i \in 1..n, NEW j \in 1..n, r[i] = r[j] PROVE i = j
  <2>1. from + i - 1 = from + j - 1
    BY <1>1, <1>4, <1>5, <1>7
  <2> QED  BY <1>2, <1>5, <2>1
<1>8. Len(r) = n
  <2>1. r \in [1..n -> WordsIn(s)]
    BY <1>4, <1>6
  <2> QED  BY <1>5, <2>1, LengthOf
<1>9. Listed(r, n, WordsIn(s))
  BY <1>4, <1>6, <1>7, <1>8 DEF Listed
<1> QED  BY <1>3, <1>5, <1>9 DEF r

\* The values of the type whose words are in W.
Typed(W) == {x \in Element : ToBytes32[x] \in W}

\* Every word is one of the type.
OfType(W) == \A w \in W : \E x \in Element : ToBytes32[x] = w

LEMMA BackAndForth ==
  /\ \A x \in Element : FromBytes32(ToBytes32[x]) = x
  /\ \A W : OfType(W) => \A w \in W : FromBytes32(w) \in Typed(W) /\ ToBytes32[FromBytes32(w)] = w
<1>1. ASSUME NEW x \in Element PROVE FromBytes32(ToBytes32[x]) = x
  <2>1. \A y \in Element : ToBytes32[y] = ToBytes32[x] => y = x
    BY SetAssumption
  <2>2. \E y \in Element : ToBytes32[y] = ToBytes32[x]
    OBVIOUS
  <2>3. /\ FromBytes32(ToBytes32[x]) \in Element
        /\ ToBytes32[FromBytes32(ToBytes32[x])] = ToBytes32[x]
    BY <2>2 DEF FromBytes32
  <2> QED  BY <2>1, <2>3
<1>2. ASSUME NEW W, OfType(W), NEW w \in W
      PROVE  FromBytes32(w) \in Typed(W) /\ ToBytes32[FromBytes32(w)] = w
  <2>1. PICK x \in Element : ToBytes32[x] = w
    BY <1>2 DEF OfType
  <2> QED  BY <1>1, <1>2, <2>1 DEF Typed
<1> QED  BY <1>1, <1>2

LEMMA ConvertedAre ==
  ASSUME NEW W, OfType(W), NEW n \in Nat, NEW r, Listed(r, n, W)
  PROVE  Listed(Converted(r), n, Typed(W))
<1> DEFINE c == Converted(r)
<1>1. DOMAIN c = 1..n /\ (\A i \in 1..n : c[i] = FromBytes32(r[i])) /\ c = [i \in 1..n |-> c[i]]
  BY DEF Converted, Listed
<1>2. /\ \A i \in 1..n : r[i] \in W
      /\ \A i, j \in 1..n : r[i] = r[j] => i = j
  BY DEF Listed
<1> HIDE DEF c
<1>3. \A i \in 1..n : c[i] \in Typed(W) /\ ToBytes32[c[i]] = r[i]
  BY <1>1, <1>2, BackAndForth
<1>4. Len(c) = n
  <2>1. c \in [1..n -> Typed(W)]
    BY <1>1, <1>3
  <2> QED  BY <2>1, LengthOf
<1>5. ASSUME NEW i \in 1..n, NEW j \in 1..n, c[i] = c[j] PROVE i = j
  BY <1>2, <1>3, <1>5
<1> QED  BY <1>1, <1>3, <1>4, <1>5 DEF Listed, c

LEMMA AsManyTyped ==
  ASSUME NEW W, OfType(W), IsFiniteSet(W)
  PROVE  Cardinality(Typed(W)) = Cardinality(W)
<1> DEFINE T == Typed(W)
           f == [w \in W |-> FromBytes32(w)]
<1>1. /\ \A w \in W : FromBytes32(w) \in T /\ ToBytes32[FromBytes32(w)] = w
      /\ \A x \in T : FromBytes32(ToBytes32[x]) = x /\ ToBytes32[x] \in W
  BY BackAndForth DEF Typed
<1> HIDE DEF T
<1>2. f \in [W -> T] /\ \A x \in T : \E w \in W : f[w] = x
  BY <1>1
<1>3. \A v, w \in W : f[v] = f[w] => v = w
  BY <1>1
<1> HIDE DEF f
<1>4. f \in Bijection(W, T)
  BY <1>2, <1>3, Fun_IsBij
<1>5. ExistsBijection(W, T)
  BY <1>4 DEF ExistsBijection
<1>6. Cardinality(T) = Cardinality(W)
  BY <1>5, FS_Bijection
<1> QED  BY <1>6 DEF T

LEMMA TypedChanges ==
  ASSUME NEW W, NEW x \in Element, OfType(W)
  PROVE  /\ Typed(W \cup {ToBytes32[x]}) = Typed(W) \cup {x}
         /\ Typed(W \ {ToBytes32[x]}) = Typed(W) \ {x}
         /\ OfType(W \cup {ToBytes32[x]}) /\ OfType(W \ {ToBytes32[x]})
         /\ x \in Typed(W) <=> ToBytes32[x] \in W
<1>1. \A y \in Element : ToBytes32[y] = ToBytes32[x] => y = x
  BY SetAssumption
<1> QED  BY <1>1 DEF Typed, OfType

----------------------------------------------------------------------------
(* The set. *)

\* What is stored is tracked, and holds words of the type.
SetInv ==
  /\ Tracked(set)
  /\ setKind = "custom" => OfType(WordsIn(set))

\* The elements, as the caller knows them.
Elems == IF setKind = "custom" THEN Typed(WordsIn(set)) ELSE WordsIn(set)

LEMMA CustomStep ==
  ASSUME SetInv, NEW op, NEW arg, NEW after, NEW result, Custom(op, arg, after, result),
         Tracked(after), OfType(WordsIn(after))
  PROVE  /\ SetInv'
         /\ Elems = Typed(WordsIn(set)) /\ Elems' = Typed(WordsIn(after))
         /\ setReply' = [op |-> op, arg |-> arg, result |-> result]
BY DEF SetInv, Elems, Custom

LEMMA MemoryStep ==
  ASSUME SetInv, NEW op, NEW arg, NEW after, NEW result, Memory(op, arg, after, result),
         Tracked(after)
  PROVE  /\ SetInv'
         /\ Elems = WordsIn(set) /\ Elems' = WordsIn(after)
         /\ setReply' = [op |-> op, arg |-> arg, result |-> result]
BY DEF SetInv, Elems, Memory

LEMMA SameCount == \A S : Plain!Cardinality(S) = Cardinality(S)
BY DEF Plain!Cardinality, Cardinality

\* The steps of a set, over the elements the caller knows.
LEMMA PlainSteps ==
  /\ \A x : Plain!Add(x) <=>
       /\ setReply'.op = "add" /\ setReply'.arg = x
       /\ setReply'.result = (x \notin Elems) /\ Elems' = Elems \cup {x}
  /\ \A x : Plain!Remove(x) <=>
       /\ setReply'.op = "remove" /\ setReply'.arg = x
       /\ setReply'.result = (x \in Elems) /\ Elems' = Elems \ {x}
  /\ Plain!Clear <=> setReply'.op = "clear" /\ Elems' = {}
  /\ \A x : Plain!Contains(x) <=>
       /\ setReply'.op = "contains" /\ setReply'.arg = x
       /\ setReply'.result = (x \in Elems) /\ Elems' = Elems
  /\ Plain!Length <=>
       setReply'.op = "length" /\ setReply'.result = Cardinality(Elems) /\ Elems' = Elems
  /\ Plain!At <=> setReply'.op = "at" /\ setReply'.result \in Elems /\ Elems' = Elems
<1>1. /\ Elems = IF setKind = "custom" THEN {x \in Element : ToBytes32[x] \in Words} ELSE Words
      /\ Elems' = (IF setKind = "custom" THEN {x \in Element : ToBytes32[x] \in Words} ELSE Words)'
  BY DEF Elems, Typed, WordsIn, Words
<1>2. \A x : Plain!Add(x) <=>
       /\ setReply'.op = "add" /\ setReply'.arg = x
       /\ setReply'.result = (x \notin Elems) /\ Elems' = Elems \cup {x}
  BY <1>1 DEF Plain!Add
<1>3. \A x : Plain!Remove(x) <=>
       /\ setReply'.op = "remove" /\ setReply'.arg = x
       /\ setReply'.result = (x \in Elems) /\ Elems' = Elems \ {x}
  BY <1>1 DEF Plain!Remove
<1>4. Plain!Clear <=> setReply'.op = "clear" /\ Elems' = {}
  BY <1>1 DEF Plain!Clear
<1>5. \A x : Plain!Contains(x) <=>
       /\ setReply'.op = "contains" /\ setReply'.arg = x
       /\ setReply'.result = (x \in Elems) /\ Elems' = Elems
  BY <1>1 DEF Plain!Contains
<1>6. Plain!Length <=>
       setReply'.op = "length" /\ setReply'.result = Cardinality(Elems) /\ Elems' = Elems
  BY <1>1, SameCount DEF Plain!Length
<1>7. Plain!At <=> setReply'.op = "at" /\ setReply'.result \in Elems /\ Elems' = Elems
  BY <1>1 DEF Plain!At
<1> QED  BY <1>2, <1>3, <1>4, <1>5, <1>6, <1>7

\* Of the values.
LEMMA PlainValues ==
  ASSUME NEW start, NEW end, setReply'.op = "values", setReply'.arg = <<start, end>>,
         Listed(setReply'.result, Left(start, end, Cardinality(Elems)), Elems), Elems' = Elems
  PROVE  Plain!Values
<1>1. /\ Elems = IF setKind = "custom" THEN {x \in Element : ToBytes32[x] \in Words} ELSE Words
      /\ Elems' = (IF setKind = "custom" THEN {x \in Element : ToBytes32[x] \in Words} ELSE Words)'
  BY DEF Elems, Typed, WordsIn, Words
<1>2. setReply'.arg[1] = start /\ setReply'.arg[2] = end
  OBVIOUS
<1>3. \A m, n : Plain!Least(m, n) = Smaller(m, n)
  BY DEF Plain!Least, Smaller
<1>4. /\ Len(setReply'.result)
           = Plain!Least(end, Cardinality(Elems)) - Plain!Least(start, Plain!Least(end, Cardinality(Elems)))
      /\ \A i \in DOMAIN setReply'.result : setReply'.result[i] \in Elems
      /\ \A i, j \in DOMAIN setReply'.result : setReply'.result[i] = setReply'.result[j] => i = j
  BY <1>3 DEF Listed, Left
<1> QED  BY <1>1, <1>2, <1>4, SameCount DEF Plain!Values

LEMMA CustomSimulates ==
  ASSUME SetInv, NextCustom PROVE SetInv' /\ Plain!Next
<1>1. /\ setKind = "custom" => OfType(WordsIn(set))
      /\ Tracked(set) /\ WordsIn(set) \subseteq Bytes32
      /\ \A w \in Bytes32 : HasWord(set, w) <=> w \in WordsIn(set)
      /\ Cardinality(WordsIn(set)) = set.length /\ IsFiniteSet(WordsIn(set))
  BY TrackedIs, CountIs DEF SetInv
<1>2. \A x \in Element : ToBytes32[x] \in Bytes32 /\ x \in Element \cup Bytes32
  BY SetAssumption
<1>3. ASSUME NEW x \in Element, SetAdd(x) PROVE SetInv' /\ Plain!Add(x)
  <2> DEFINE w     == ToBytes32[x]
             after == AddedWord(set, w)
  <2>1. set.length < Capacity /\ Custom("add", x, after, ~ HasWord(set, w)) /\ w \in Bytes32
    BY <1>2, <1>3 DEF SetAdd
  <2>2. Tracked(after) /\ WordsIn(after) = WordsIn(set) \cup {w}
    BY <1>1, <2>1, AddTracked
  <2>3. setKind = "custom" /\ OfType(WordsIn(set))
    BY <1>1, <2>1 DEF Custom
  <2>4. /\ OfType(WordsIn(after)) /\ Typed(WordsIn(after)) = Typed(WordsIn(set)) \cup {x}
        /\ x \in Typed(WordsIn(set)) <=> HasWord(set, w)
    <3>1. HasWord(set, w) <=> w \in WordsIn(set)
      BY <1>1, <2>1
    <3>2. /\ Typed(WordsIn(set) \cup {w}) = Typed(WordsIn(set)) \cup {x}
          /\ OfType(WordsIn(set) \cup {w})
          /\ x \in Typed(WordsIn(set)) <=> w \in WordsIn(set)
      BY <2>3, TypedChanges
    <3> HIDE DEF after, w
    <3> QED  BY <2>2, <3>1, <3>2
  <2> HIDE DEF after, w
  <2>5. /\ SetInv' /\ Elems = Typed(WordsIn(set)) /\ Elems' = Typed(WordsIn(after))
        /\ setReply' = [op |-> "add", arg |-> x, result |-> ~ HasWord(set, w)]
    BY <2>1, <2>2, <2>4, CustomStep
  <2>6. (~ HasWord(set, w)) = (x \notin Elems)
    BY <2>4, <2>5 DEF HasWord
  <2> QED  BY <2>4, <2>5, <2>6, PlainSteps
<1>4. ASSUME NEW x \in Element, SetRemove(x) PROVE SetInv' /\ Plain!Remove(x)
  <2> DEFINE w     == ToBytes32[x]
             after == RemovedWord(set, w)
  <2>1. Custom("remove", x, after, HasWord(set, w)) /\ w \in Bytes32
    BY <1>2, <1>4 DEF SetRemove
  <2>2. Tracked(after) /\ WordsIn(after) = WordsIn(set) \ {w}
    BY <1>1, <2>1, RemoveTracked
  <2>3. setKind = "custom" /\ OfType(WordsIn(set))
    BY <1>1, <2>1 DEF Custom
  <2>4. /\ OfType(WordsIn(after)) /\ Typed(WordsIn(after)) = Typed(WordsIn(set)) \ {x}
        /\ x \in Typed(WordsIn(set)) <=> HasWord(set, w)
    <3>1. HasWord(set, w) <=> w \in WordsIn(set)
      BY <1>1, <2>1
    <3>2. /\ Typed(WordsIn(set) \ {w}) = Typed(WordsIn(set)) \ {x}
          /\ OfType(WordsIn(set) \ {w})
          /\ x \in Typed(WordsIn(set)) <=> w \in WordsIn(set)
      BY <2>3, TypedChanges
    <3> HIDE DEF after, w
    <3> QED  BY <2>2, <3>1, <3>2
  <2> HIDE DEF after, w
  <2>5. /\ SetInv' /\ Elems = Typed(WordsIn(set)) /\ Elems' = Typed(WordsIn(after))
        /\ setReply' = [op |-> "remove", arg |-> x, result |-> HasWord(set, w)]
    BY <2>1, <2>2, <2>4, CustomStep
  <2>6. HasWord(set, w) = (x \in Elems)
    BY <2>4, <2>5 DEF HasWord
  <2> QED  BY <2>4, <2>5, <2>6, PlainSteps
<1>5. ASSUME SetClear PROVE SetInv' /\ Plain!Clear
  <2>1. Custom("clear", 0, ClearedWords(set), TRUE)
    BY <1>5 DEF SetClear
  <2>2. Tracked(ClearedWords(set)) /\ WordsIn(ClearedWords(set)) = {}
    BY <1>1, ClearTracked
  <2>3. OfType(WordsIn(ClearedWords(set))) /\ Typed(WordsIn(ClearedWords(set))) = {}
    BY <2>2 DEF OfType, Typed
  <2>4. /\ SetInv' /\ Elems' = {}
        /\ setReply' = [op |-> "clear", arg |-> 0, result |-> TRUE]
    BY <2>1, <2>2, <2>3, CustomStep
  <2> QED  BY <2>4, PlainSteps
\* A call that only reads.
<1>6. ASSUME NEW op, NEW arg, NEW result, Custom(op, arg, set, result)
      PROVE  /\ SetInv' /\ OfType(WordsIn(set))
             /\ Elems = Typed(WordsIn(set)) /\ Elems' = Elems
             /\ Cardinality(Elems) = set.length
             /\ setReply' = [op |-> op, arg |-> arg, result |-> result]
  <2>1. OfType(WordsIn(set))
    BY <1>1, <1>6 DEF Custom
  <2>2. /\ SetInv' /\ Elems = Typed(WordsIn(set)) /\ Elems' = Elems
        /\ setReply' = [op |-> op, arg |-> arg, result |-> result]
    BY <1>1, <1>6, <2>1, CustomStep
  <2> QED  BY <1>1, <2>1, <2>2, AsManyTyped
<1>7. ASSUME NEW x \in Element, SetContains(x) PROVE SetInv' /\ Plain!Contains(x)
  <2>1. /\ SetInv' /\ Elems = Typed(WordsIn(set)) /\ Elems' = Elems
        /\ setReply' = [op |-> "contains", arg |-> x, result |-> HasWord(set, ToBytes32[x])]
    BY <1>6, <1>7 DEF SetContains
  <2>2. HasWord(set, ToBytes32[x]) = (x \in Elems)
    BY <1>1, <1>2, <2>1 DEF Typed, HasWord
  <2> QED  BY <2>1, <2>2, PlainSteps
<1>8. ASSUME SetLength PROVE SetInv' /\ Plain!Length
  <2>1. /\ SetInv' /\ Elems' = Elems /\ Cardinality(Elems) = set.length
        /\ setReply' = [op |-> "length", arg |-> 0, result |-> set.length]
    BY <1>6, <1>8 DEF SetLength, WordCount
  <2> QED  BY <2>1, PlainSteps
<1>9. ASSUME NEW i \in Index, SetAt(i) PROVE SetInv' /\ Plain!At
  <2>1. i < set.length /\ Custom("at", i, set, FromBytes32(WordAt(set, i)))
    BY <1>9 DEF SetAt
  <2>2. WordAt(set, i) \in WordsIn(set)
    <3>1. i \in 0..(set.length - 1)
      BY <1>1, <2>1, TrackedIs DEF Index
    <3> QED  BY <3>1, WordsAre DEF WordAt
  <2>3. /\ SetInv' /\ OfType(WordsIn(set)) /\ Elems = Typed(WordsIn(set)) /\ Elems' = Elems
        /\ setReply' = [op |-> "at", arg |-> i, result |-> FromBytes32(WordAt(set, i))]
    BY <1>6, <2>1
  <2>4. FromBytes32(WordAt(set, i)) \in Elems
    BY <2>2, <2>3, BackAndForth
  <2> QED  BY <2>3, <2>4, PlainSteps
<1>10. ASSUME SetValues PROVE SetInv' /\ Plain!Values
  <2> DEFINE r == Converted(AllWords(set))
  <2>1. /\ SetInv' /\ OfType(WordsIn(set)) /\ Elems = Typed(WordsIn(set)) /\ Elems' = Elems
        /\ Cardinality(Elems) = set.length
        /\ setReply' = [op |-> "values", arg |-> <<0, set.length>>, result |-> r]
    BY <1>6, <1>10 DEF SetValues
  <2>2. set.length \in Nat
    BY <1>1, TrackedIs
  <2>3. Listed(r, set.length, Elems)
    BY <1>1, <2>1, <2>2, AllAre, ConvertedAre
  <2>4. Left(0, set.length, set.length) = set.length
    BY <2>2 DEF Left, Smaller
  <2> HIDE DEF r
  <2> QED  BY <2>1, <2>3, <2>4, PlainValues
<1>11. ASSUME NEW start \in 0..(Capacity + 1), NEW end \in 0..(Capacity + 1), SetSlice(start, end)
       PROVE  SetInv' /\ Plain!Values
  <2> DEFINE r == Converted(WordSlice(set, start, end))
  <2>1. /\ SetInv' /\ OfType(WordsIn(set)) /\ Elems = Typed(WordsIn(set)) /\ Elems' = Elems
        /\ Cardinality(Elems) = set.length
        /\ setReply' = [op |-> "values", arg |-> <<start, end>>, result |-> r]
    BY <1>6, <1>11 DEF SetSlice
  <2>2. start \in Nat /\ end \in Nat
    BY SetAssumption
  <2>3. Listed(r, Left(start, end, set.length), Elems)
    BY <1>1, <2>1, <2>2, SliceIs, ConvertedAre
  <2> HIDE DEF r
  <2> QED  BY <2>1, <2>3, PlainValues
<1> QED  BY <1>2, <1>3, <1>4, <1>5, <1>7, <1>8, <1>9, <1>10, <1>11 DEF NextCustom, Plain!Next

LEMMA MemorySimulates ==
  ASSUME SetInv, NextMemory PROVE SetInv' /\ Plain!Next
<1>1. /\ Tracked(set) /\ WordsIn(set) \subseteq Bytes32
      /\ \A w \in Bytes32 : HasWord(set, w) <=> w \in WordsIn(set)
      /\ Cardinality(WordsIn(set)) = set.length
  BY TrackedIs, CountIs DEF SetInv
<1>2. ASSUME NEW w \in Bytes32, MemoryAdd(w) PROVE SetInv' /\ Plain!Add(w)
  <2> DEFINE after == AddedWord(set, w)
  <2>1. set.length < Capacity /\ Memory("add", w, after, ~ HasWord(set, w))
    BY <1>2 DEF MemoryAdd
  <2>2. Tracked(after) /\ WordsIn(after) = WordsIn(set) \cup {w}
    BY <1>1, <2>1, AddTracked
  <2> HIDE DEF after
  <2>3. /\ SetInv' /\ Elems = WordsIn(set) /\ Elems' = WordsIn(after)
        /\ setReply' = [op |-> "add", arg |-> w, result |-> ~ HasWord(set, w)]
    BY <2>1, <2>2, MemoryStep
  <2>4. (~ HasWord(set, w)) = (w \notin Elems)
    BY <1>1, <2>3 DEF HasWord
  <2>5. /\ setReply'.op = "add" /\ setReply'.arg = w
        /\ setReply'.result = (w \notin Elems) /\ Elems' = Elems \cup {w}
    <3>1. Elems' = Elems \cup {w}
      BY <2>2, <2>3
    <3> QED  BY <2>3, <2>4, <3>1
  <2>6. Plain!Add(w)
    BY <2>5, PlainSteps
  <2> QED  BY <2>3, <2>6
<1>3. ASSUME NEW w \in Bytes32, MemoryRemove(w) PROVE SetInv' /\ Plain!Remove(w)
  <2> DEFINE after == RemovedWord(set, w)
  <2>1. Memory("remove", w, after, HasWord(set, w))
    BY <1>3 DEF MemoryRemove
  <2>2. Tracked(after) /\ WordsIn(after) = WordsIn(set) \ {w}
    BY <1>1, <2>1, RemoveTracked
  <2> HIDE DEF after
  <2>3. /\ SetInv' /\ Elems = WordsIn(set) /\ Elems' = WordsIn(after)
        /\ setReply' = [op |-> "remove", arg |-> w, result |-> HasWord(set, w)]
    BY <2>1, <2>2, MemoryStep
  <2>4. HasWord(set, w) = (w \in Elems)
    BY <1>1, <2>3 DEF HasWord
  <2> QED  BY <2>2, <2>3, <2>4, PlainSteps
<1>4. ASSUME MemoryClear PROVE SetInv' /\ Plain!Clear
  <2>1. Memory("clear", 0, ClearedWords(set), TRUE)
    BY <1>4 DEF MemoryClear
  <2>2. Tracked(ClearedWords(set)) /\ WordsIn(ClearedWords(set)) = {}
    BY <1>1, ClearTracked
  <2>3. /\ SetInv' /\ Elems' = {}
        /\ setReply' = [op |-> "clear", arg |-> 0, result |-> TRUE]
    BY <2>1, <2>2, MemoryStep
  <2> QED  BY <2>3, PlainSteps
\* A call that only reads.
<1>5. ASSUME NEW op, NEW arg, NEW result, Memory(op, arg, set, result)
      PROVE  /\ SetInv' /\ Elems = WordsIn(set) /\ Elems' = Elems
             /\ setReply' = [op |-> op, arg |-> arg, result |-> result]
  BY <1>1, <1>5, MemoryStep
<1>6. ASSUME NEW w \in Bytes32, MemoryContains(w) PROVE SetInv' /\ Plain!Contains(w)
  <2>1. /\ SetInv' /\ Elems = WordsIn(set) /\ Elems' = Elems
        /\ setReply' = [op |-> "contains", arg |-> w, result |-> HasWord(set, w)]
    BY <1>5, <1>6 DEF MemoryContains
  <2>2. HasWord(set, w) = (w \in Elems)
    BY <1>1, <2>1 DEF HasWord
  <2> QED  BY <2>1, <2>2, PlainSteps
<1>7. ASSUME MemoryLength PROVE SetInv' /\ Plain!Length
  <2>1. /\ SetInv' /\ Elems = WordsIn(set) /\ Elems' = Elems
        /\ setReply' = [op |-> "length", arg |-> 0, result |-> set.length]
    BY <1>5, <1>7 DEF MemoryLength, WordCount
  <2> QED  BY <1>1, <2>1, PlainSteps
<1>8. ASSUME NEW i \in Index, MemoryAt(i) PROVE SetInv' /\ Plain!At
  <2>1. i < set.length /\ Memory("at", i, set, WordAt(set, i))
    BY <1>8 DEF MemoryAt
  <2>2. WordAt(set, i) \in WordsIn(set)
    <3>1. i \in 0..(set.length - 1)
      BY <1>1, <2>1, TrackedIs DEF Index
    <3> QED  BY <3>1, WordsAre DEF WordAt
  <2>3. /\ SetInv' /\ Elems = WordsIn(set) /\ Elems' = Elems
        /\ setReply' = [op |-> "at", arg |-> i, result |-> WordAt(set, i)]
    BY <1>5, <2>1
  <2> QED  BY <2>2, <2>3, PlainSteps
<1>9. ASSUME MemoryValues PROVE SetInv' /\ Plain!Values
  <2> DEFINE r == AllWords(set)
  <2>1. /\ SetInv' /\ Elems = WordsIn(set) /\ Elems' = Elems
        /\ setReply' = [op |-> "values", arg |-> <<0, set.length>>, result |-> r]
    BY <1>5, <1>9 DEF MemoryValues
  <2>2. Listed(r, set.length, Elems)
    BY <1>1, <2>1, AllAre
  <2>3. Left(0, set.length, set.length) = set.length
    BY <1>1, TrackedIs DEF Left, Smaller
  <2> HIDE DEF r
  <2> QED  BY <1>1, <2>1, <2>2, <2>3, PlainValues
<1>10. ASSUME NEW start \in 0..(Capacity + 1), NEW end \in 0..(Capacity + 1), MemorySlice(start, end)
       PROVE  SetInv' /\ Plain!Values
  <2> DEFINE r == WordSlice(set, start, end)
  <2>1. /\ SetInv' /\ Elems = WordsIn(set) /\ Elems' = Elems
        /\ setReply' = [op |-> "values", arg |-> <<start, end>>, result |-> r]
    BY <1>5, <1>10 DEF MemorySlice
  <2>2. start \in Nat /\ end \in Nat
    BY SetAssumption
  <2>3. Listed(r, Left(start, end, set.length), Elems)
    BY <1>1, <2>1, <2>2, SliceIs
  <2> HIDE DEF r
  <2> QED  BY <1>1, <2>1, <2>3, PlainValues
<1> QED  BY <1>2, <1>3, <1>4, <1>6, <1>7, <1>8, <1>9, <1>10 DEF NextMemory, Plain!Next

(* However elements are added, removed, cleared and enumerated, an           *)
(* enumerable set answers as a set does: for any words, any injective        *)
(* conversion and any capacity (EnumerableSet.js 73-206, 330-455).           *)
THEOREM SetsAreSets == SetSpec => SetIsSet
<1>1. /\ Elems = IF setKind = "custom" THEN {x \in Element : ToBytes32[x] \in Words} ELSE Words
      /\ Elems' = (IF setKind = "custom" THEN {x \in Element : ToBytes32[x] \in Words} ELSE Words)'
  BY DEF Elems, Typed, WordsIn, Words
<1>2. InitSet => SetInv /\ Plain!Init
  <2> SUFFICES ASSUME InitSet PROVE SetInv /\ Plain!Init
    OBVIOUS
  <2>1. Tracked(set) /\ WordsIn(set) = {}
    BY EmptyTracked DEF InitSet
  <2>2. Elems = {} /\ SetInv
    BY <2>1 DEF Elems, Typed, SetInv, OfType
  <2>3. setReply.op = "none"
    BY DEF InitSet
  <2> QED  BY <1>1, <2>2, <2>3 DEF Plain!Init
<1>3. SetInv /\ [NextSet]_setVars => SetInv' /\ [Plain!Next]_(Plain!vars)
  <2> SUFFICES ASSUME SetInv, [NextSet]_setVars PROVE SetInv' /\ [Plain!Next]_(Plain!vars)
    OBVIOUS
  <2>1. CASE UNCHANGED setVars
    <3>1. SetInv'
      BY <2>1 DEF setVars, SetInv
    <3>2. Elems' = Elems /\ setReply' = setReply
      BY <2>1 DEF setVars, Elems
    <3> QED  BY <1>1, <3>1, <3>2 DEF Plain!vars
  <2> QED  BY <2>1, CustomSimulates, MemorySimulates DEF NextSet
<1> QED  BY <1>2, <1>3, PTL DEF SetSpec, SetIsSet, Plain!Spec

----------------------------------------------------------------------------
(* The map. *)

\* The keys are tracked, and a key that is not bound reads as zero.
Kept(m) ==
  /\ m \in [keys : {m.keys}, values : [Bytes32 -> Bytes32]]
  /\ Tracked(m.keys)
  /\ \A w \in Bytes32 : ~ HasKey(m, w) => m.values[w] = Zero

LEMMA EmptyKept == Kept(EmptyMap) /\ \A w \in Bytes32 : ~ HasKey(EmptyMap, w)
<1>1. EmptyMap.keys = EmptySet /\ EmptyMap.values = [w \in Bytes32 |-> Zero]
  BY DEF EmptyMap
<1>2. \A w \in Bytes32 : ~ HasKey(EmptyMap, w)
  BY <1>1 DEF HasKey, HasWord, EmptySet
<1>3. EmptyMap \in [keys : {EmptyMap.keys}, values : [Bytes32 -> Bytes32]]
  BY SetAssumption DEF EmptyMap
<1> QED  BY <1>1, <1>2, <1>3, EmptyTracked DEF Kept

LEMMA SetKept ==
  ASSUME NEW m, Kept(m), NEW w \in Bytes32, NEW v \in Bytes32, m.keys.length < Capacity
  PROVE  LET n == SetPair(m, w, v)
         IN  /\ Kept(n) /\ n.values = [m.values EXCEPT ![w] = v]
             /\ WordsIn(n.keys) = WordsIn(m.keys) \cup {w}
             /\ \A u \in Bytes32 : HasKey(n, u) <=> HasKey(m, u) \/ u = w
<1> DEFINE n == SetPair(m, w, v)
           keys == AddedWord(m.keys, w)
<1>1. Tracked(m.keys) /\ Tracked(keys) /\ WordsIn(keys) = WordsIn(m.keys) \cup {w}
  BY AddTracked DEF Kept
<1>2. \A u \in Bytes32 : HasWord(keys, u) <=> HasWord(m.keys, u) \/ u = w
  <2>1. \A u \in Bytes32 : HasWord(keys, u) <=> u \in WordsIn(keys)
    BY <1>1, TrackedIs
  <2>2. \A u \in Bytes32 : HasWord(m.keys, u) <=> u \in WordsIn(m.keys)
    BY <1>1, TrackedIs
  <2> QED  BY <1>1, <2>1, <2>2
<1>3. n = [m EXCEPT !.values[w] = v, !.keys = keys]
  BY DEF SetPair
<1>4. /\ m \in [keys : {m.keys}, values : [Bytes32 -> Bytes32]]
      /\ \A u \in Bytes32 : ~ HasKey(m, u) => m.values[u] = Zero
  BY DEF Kept
<1> HIDE DEF keys, n
<1>5. /\ n \in [keys : {n.keys}, values : [Bytes32 -> Bytes32]]
      /\ n.keys = keys /\ n.values = [m.values EXCEPT ![w] = v]
  BY <1>3, <1>4
<1>6. \A u \in Bytes32 : HasKey(n, u) <=> HasKey(m, u) \/ u = w
  BY <1>2, <1>5 DEF HasKey
<1>7. Kept(n)
  BY <1>1, <1>4, <1>5, <1>6 DEF Kept
<1> QED  BY <1>1, <1>5, <1>6, <1>7 DEF n

LEMMA RemoveKept ==
  ASSUME NEW m, Kept(m), NEW w \in Bytes32
  PROVE  LET n == RemovedPair(m, w)
         IN  /\ Kept(n) /\ n.values = [m.values EXCEPT ![w] = Zero]
             /\ WordsIn(n.keys) = WordsIn(m.keys) \ {w}
             /\ \A u \in Bytes32 : HasKey(n, u) <=> HasKey(m, u) /\ u # w
<1> DEFINE n == RemovedPair(m, w)
           keys == RemovedWord(m.keys, w)
<1>1. Tracked(m.keys) /\ Tracked(keys) /\ WordsIn(keys) = WordsIn(m.keys) \ {w}
  BY RemoveTracked DEF Kept
<1>2. \A u \in Bytes32 : HasWord(keys, u) <=> HasWord(m.keys, u) /\ u # w
  <2>1. \A u \in Bytes32 : HasWord(keys, u) <=> u \in WordsIn(keys)
    BY <1>1, TrackedIs
  <2>2. \A u \in Bytes32 : HasWord(m.keys, u) <=> u \in WordsIn(m.keys)
    BY <1>1, TrackedIs
  <2> QED  BY <1>1, <2>1, <2>2
<1>3. n = [m EXCEPT !.values[w] = Zero, !.keys = keys]
  BY DEF RemovedPair
<1>4. /\ m \in [keys : {m.keys}, values : [Bytes32 -> Bytes32]]
      /\ \A u \in Bytes32 : ~ HasKey(m, u) => m.values[u] = Zero
  BY DEF Kept
<1> HIDE DEF keys, n
<1>5. /\ n \in [keys : {n.keys}, values : [Bytes32 -> Bytes32]]
      /\ n.keys = keys /\ n.values = [m.values EXCEPT ![w] = Zero]
  BY <1>3, <1>4, SetAssumption
<1>6. \A u \in Bytes32 : HasKey(n, u) <=> HasKey(m, u) /\ u # w
  BY <1>2, <1>5 DEF HasKey
<1>7. Kept(n)
  BY <1>1, <1>4, <1>5, <1>6 DEF Kept
<1> QED  BY <1>1, <1>5, <1>6, <1>7 DEF n

LEMMA ClearKept ==
  ASSUME NEW m, Kept(m)
  PROVE  LET n == ClearedPairs(m)
         IN  /\ Kept(n) /\ WordsIn(n.keys) = {}
             /\ \A u \in Bytes32 : ~ HasKey(n, u) /\ n.values[u] = Zero
<1> DEFINE n == ClearedPairs(m)
           values == [w \in Bytes32 |->
             IF \E i \in 0..(m.keys.length - 1) : WordAt(m.keys, i) = w THEN Zero ELSE m.values[w]]
<1>1. /\ Tracked(m.keys) /\ Tracked(ClearedWords(m.keys)) /\ WordsIn(ClearedWords(m.keys)) = {}
      /\ \A u \in Bytes32 : HasWord(m.keys, u) <=> u \in WordsIn(m.keys)
  BY ClearTracked, TrackedIs DEF Kept
<1>2. \A u \in Bytes32 : ~ HasWord(ClearedWords(m.keys), u)
  BY <1>1, TrackedIs
<1>3. \A u \in Bytes32 : values[u] = Zero
  <2>1. ASSUME NEW u \in Bytes32
        PROVE  (\E i \in 0..(m.keys.length - 1) : WordAt(m.keys, i) = u) \/ m.values[u] = Zero
    BY <1>1, WordsAre DEF Kept, HasKey, WordAt
  <2> QED  BY <2>1
<1>4. values \in [Bytes32 -> Bytes32]
  <2>1. values = [u \in Bytes32 |-> values[u]]
    OBVIOUS
  <2> HIDE DEF values
  <2> QED  BY <1>3, <2>1, SetAssumption
<1>5. n = [keys |-> ClearedWords(m.keys), values |-> values]
  BY DEF ClearedPairs
<1> HIDE DEF n, values
<1>6. /\ n \in [keys : {n.keys}, values : [Bytes32 -> Bytes32]]
      /\ n.keys = ClearedWords(m.keys) /\ n.values = values
  BY <1>4, <1>5
<1>7. Kept(n)
  BY <1>1, <1>3, <1>6 DEF Kept
<1> QED  BY <1>1, <1>2, <1>3, <1>6, <1>7 DEF n, HasKey

AnyKey == Element \cup Bytes32

\* What a map of words is to its caller, and what a typed one is.
WordPairs(m) == [k \in AnyKey |-> IF k \in Bytes32 /\ HasKey(m, k) THEN m.values[k] ELSE NoValue]

TypedPairs(m) ==
  [k \in AnyKey |-> IF k \in Element /\ HasKey(m, ToBytes32[k])
                    THEN FromBytes32(m.values[ToBytes32[k]]) ELSE NoValue]

\* Every key and every value is a word of the type.
OfTypes(m) ==
  /\ OfType(WordsIn(m.keys))
  /\ \A w \in Bytes32 : \E y \in Element : ToBytes32[y] = m.values[w]

LEMMA WordPairsChange ==
  ASSUME NEW m, Kept(m), NEW w \in Bytes32
  PROVE  /\ m.keys.length < Capacity =>
              \A v \in Bytes32 : WordPairs(SetPair(m, w, v)) = [WordPairs(m) EXCEPT ![w] = v]
         /\ WordPairs(RemovedPair(m, w)) = [WordPairs(m) EXCEPT ![w] = NoValue]
         /\ WordPairs(ClearedPairs(m)) = [k \in AnyKey |-> NoValue]
<1>1. ASSUME m.keys.length < Capacity, NEW v \in Bytes32
      PROVE  WordPairs(SetPair(m, w, v)) = [WordPairs(m) EXCEPT ![w] = v]
  <2> DEFINE n == SetPair(m, w, v)
  <2>1. /\ n.values = [m.values EXCEPT ![w] = v]
        /\ \A u \in Bytes32 : HasKey(n, u) <=> HasKey(m, u) \/ u = w
        /\ m.values \in [Bytes32 -> Bytes32]
    BY <1>1, SetKept DEF Kept
  <2> HIDE DEF n
  <2>2. ASSUME NEW k \in AnyKey
        PROVE  (IF k \in Bytes32 /\ HasKey(n, k) THEN n.values[k] ELSE NoValue)
                 = IF k = w THEN v ELSE IF k \in Bytes32 /\ HasKey(m, k) THEN m.values[k] ELSE NoValue
    BY <2>1
  <2> QED  BY <2>2 DEF WordPairs, n
<1>2. WordPairs(RemovedPair(m, w)) = [WordPairs(m) EXCEPT ![w] = NoValue]
  <2> DEFINE n == RemovedPair(m, w)
  <2>1. /\ n.values = [m.values EXCEPT ![w] = Zero]
        /\ \A u \in Bytes32 : HasKey(n, u) <=> HasKey(m, u) /\ u # w
        /\ m.values \in [Bytes32 -> Bytes32]
    BY RemoveKept DEF Kept
  <2> HIDE DEF n
  <2>2. ASSUME NEW k \in AnyKey
        PROVE  (IF k \in Bytes32 /\ HasKey(n, k) THEN n.values[k] ELSE NoValue)
                 = IF k = w THEN NoValue
                   ELSE IF k \in Bytes32 /\ HasKey(m, k) THEN m.values[k] ELSE NoValue
    BY <2>1
  <2> QED  BY <2>2 DEF WordPairs, n
<1>3. WordPairs(ClearedPairs(m)) = [k \in AnyKey |-> NoValue]
  BY ClearKept DEF WordPairs
<1> QED  BY <1>1, <1>2, <1>3

LEMMA TypedPairsChange ==
  ASSUME NEW m, Kept(m), NEW x \in Element
  PROVE  /\ m.keys.length < Capacity =>
              \A y \in Element : TypedPairs(SetPair(m, ToBytes32[x], ToBytes32[y]))
                                   = [TypedPairs(m) EXCEPT ![x] = y]
         /\ TypedPairs(RemovedPair(m, ToBytes32[x])) = [TypedPairs(m) EXCEPT ![x] = NoValue]
         /\ TypedPairs(ClearedPairs(m)) = [k \in AnyKey |-> NoValue]
<1> DEFINE w == ToBytes32[x]
<1>1. /\ w \in Bytes32 /\ \A k \in Element : ToBytes32[k] \in Bytes32
      /\ \A k \in Element : ToBytes32[k] = w => k = x
  BY SetAssumption
<1>2. ASSUME m.keys.length < Capacity, NEW y \in Element
      PROVE  TypedPairs(SetPair(m, w, ToBytes32[y])) = [TypedPairs(m) EXCEPT ![x] = y]
  <2> DEFINE v == ToBytes32[y]
             n == SetPair(m, w, v)
  <2>v. v \in Bytes32 /\ FromBytes32(v) = y
    BY <1>1, BackAndForth
  <2> HIDE DEF v, w
  <2>1. /\ n.values = [m.values EXCEPT ![w] = v]
        /\ \A u \in Bytes32 : HasKey(n, u) <=> HasKey(m, u) \/ u = w
        /\ m.values \in [Bytes32 -> Bytes32]
    BY <1>1, <1>2, <2>v, SetKept DEF Kept
  <2> HIDE DEF n
  <2>2. ASSUME NEW k \in AnyKey
        PROVE  (IF k \in Element /\ HasKey(n, ToBytes32[k])
                THEN FromBytes32(n.values[ToBytes32[k]]) ELSE NoValue)
                 = IF k = x THEN y
                   ELSE IF k \in Element /\ HasKey(m, ToBytes32[k])
                   THEN FromBytes32(m.values[ToBytes32[k]]) ELSE NoValue
    <3>1. CASE k = x
      <4>1. HasKey(n, w) /\ n.values[w] = v
        BY <1>1, <2>1
      <4> QED  BY <2>v, <3>1, <4>1 DEF w
    <3>2. CASE k \in Element /\ k # x
      <4>1. ToBytes32[k] \in Bytes32 /\ ToBytes32[k] # w
        BY <1>1, <3>2
      <4>2. /\ HasKey(n, ToBytes32[k]) <=> HasKey(m, ToBytes32[k])
            /\ n.values[ToBytes32[k]] = m.values[ToBytes32[k]]
        BY <2>1, <4>1
      <4> QED  BY <3>2, <4>2
    <3>3. CASE k \notin Element
      BY <3>3
    <3> QED  BY <3>1, <3>2, <3>3
  <2> QED  BY <2>2 DEF TypedPairs, n, v
<1>3. TypedPairs(RemovedPair(m, w)) = [TypedPairs(m) EXCEPT ![x] = NoValue]
  <2> DEFINE n == RemovedPair(m, w)
  <2> HIDE DEF w
  <2>1. /\ n.values = [m.values EXCEPT ![w] = Zero]
        /\ \A u \in Bytes32 : HasKey(n, u) <=> HasKey(m, u) /\ u # w
        /\ m.values \in [Bytes32 -> Bytes32]
    BY <1>1, RemoveKept DEF Kept
  <2> HIDE DEF n
  <2>2. ASSUME NEW k \in AnyKey
        PROVE  (IF k \in Element /\ HasKey(n, ToBytes32[k])
                THEN FromBytes32(n.values[ToBytes32[k]]) ELSE NoValue)
                 = IF k = x THEN NoValue
                   ELSE IF k \in Element /\ HasKey(m, ToBytes32[k])
                   THEN FromBytes32(m.values[ToBytes32[k]]) ELSE NoValue
    <3>1. CASE k = x
      <4>1. ~ HasKey(n, w)
        BY <1>1, <2>1
      <4> QED  BY <3>1, <4>1 DEF w
    <3>2. CASE k \in Element /\ k # x
      <4>1. ToBytes32[k] \in Bytes32 /\ ToBytes32[k] # w
        BY <1>1, <3>2
      <4>2. /\ HasKey(n, ToBytes32[k]) <=> HasKey(m, ToBytes32[k])
            /\ n.values[ToBytes32[k]] = m.values[ToBytes32[k]]
        BY <2>1, <4>1
      <4> QED  BY <3>2, <4>2
    <3>3. CASE k \notin Element
      BY <3>3
    <3> QED  BY <3>1, <3>2, <3>3
  <2> QED  BY <2>2 DEF TypedPairs, n
<1>4. TypedPairs(ClearedPairs(m)) = [k \in AnyKey |-> NoValue]
  BY <1>1, ClearKept DEF TypedPairs
<1> QED  BY <1>2, <1>3, <1>4

\* A typed map stays one.
LEMMA TypesKept ==
  ASSUME NEW m, Kept(m), OfTypes(m)
  PROVE  /\ m.keys.length < Capacity =>
              \A x, y \in Element : OfTypes(SetPair(m, ToBytes32[x], ToBytes32[y]))
         /\ \A x \in Element : OfTypes(RemovedPair(m, ToBytes32[x]))
         /\ OfTypes(ClearedPairs(m))
<1>1. /\ \A x \in Element : ToBytes32[x] \in Bytes32
      /\ \E y \in Element : ToBytes32[y] = Zero
      /\ m.values \in [Bytes32 -> Bytes32]
      /\ OfType(WordsIn(m.keys))
      /\ \A w \in Bytes32 : \E y \in Element : ToBytes32[y] = m.values[w]
  BY SetAssumption, MapAssumption DEF Kept, OfTypes
<1>2. ASSUME m.keys.length < Capacity, NEW x \in Element, NEW y \in Element
      PROVE  OfTypes(SetPair(m, ToBytes32[x], ToBytes32[y]))
  <2> DEFINE w == ToBytes32[x]
             v == ToBytes32[y]
             n == SetPair(m, w, v)
  <2>1. w \in Bytes32 /\ v \in Bytes32
    BY <1>1
  <2>2. OfType(WordsIn(m.keys) \cup {w})
    BY <1>1 DEF OfType
  <2> HIDE DEF w
  <2>3. n.values = [m.values EXCEPT ![w] = v] /\ WordsIn(n.keys) = WordsIn(m.keys) \cup {w}
    BY <1>2, <2>1, SetKept
  <2> HIDE DEF n
  <2>4. \A u \in Bytes32 : \E z \in Element : ToBytes32[z] = n.values[u]
    BY <1>1, <2>1, <2>3
  <2> QED  BY <2>2, <2>3, <2>4 DEF OfTypes, n, w
<1>3. ASSUME NEW x \in Element PROVE OfTypes(RemovedPair(m, ToBytes32[x]))
  <2> DEFINE w == ToBytes32[x]
             n == RemovedPair(m, w)
  <2>1. w \in Bytes32
    BY <1>1
  <2>2. OfType(WordsIn(m.keys) \ {w})
    BY <1>1 DEF OfType
  <2> HIDE DEF w
  <2>3. n.values = [m.values EXCEPT ![w] = Zero] /\ WordsIn(n.keys) = WordsIn(m.keys) \ {w}
    BY <2>1, RemoveKept
  <2> HIDE DEF n
  <2>4. \A u \in Bytes32 : \E z \in Element : ToBytes32[z] = n.values[u]
    BY <1>1, <2>1, <2>3
  <2> QED  BY <2>2, <2>3, <2>4 DEF OfTypes, n, w
<1>4. OfTypes(ClearedPairs(m))
  BY <1>1, ClearKept DEF OfTypes, OfType
<1> QED  BY <1>2, <1>3, <1>4

\* What is stored is kept, and a typed map holds words of its types.
MapInv ==
  /\ Kept(map)
  /\ mapKind \in {"custom", "memory"}
  /\ mapKind = "custom" => OfTypes(map)

\* The partial function, as the caller knows it.
Pairs == IF mapKind = "memory" THEN WordPairs(map) ELSE TypedPairs(map)

KeysOf(f) == {k \in AnyKey : f[k] # NoValue}

LEMMA PairsAre ==
  /\ Pairs = [k \in Element \cup Bytes32 |-> Binding(k)]
  /\ Pairs' = [k \in Element \cup Bytes32 |-> Binding(k)]'
<1>1. Pairs = [k \in Element \cup Bytes32 |-> Binding(k)]
  <2>1. CASE mapKind = "memory"
    BY <2>1 DEF Pairs, WordPairs, AnyKey, Binding
  <2>2. CASE mapKind # "memory"
    BY <2>2 DEF Pairs, TypedPairs, AnyKey, Binding
  <2> QED  BY <2>1, <2>2
<1>2. Pairs' = [k \in Element \cup Bytes32 |-> Binding(k)]'
  <2>1. CASE mapKind' = "memory"
    BY <2>1 DEF Pairs, WordPairs, AnyKey, Binding
  <2>2. CASE mapKind' # "memory"
    BY <2>2 DEF Pairs, TypedPairs, AnyKey, Binding
  <2> QED  BY <2>1, <2>2
<1> QED  BY <1>1, <1>2

LEMMA MapCallStep ==
  ASSUME MapInv, NEW kind \in {"custom", "memory"}, NEW op, NEW arg, NEW after, NEW result,
         MapCall(kind, op, arg, after, result),
         Kept(after), kind = "custom" => OfTypes(after)
  PROVE  /\ MapInv'
         /\ kind = "memory" => Pairs = WordPairs(map) /\ Pairs' = WordPairs(after)
         /\ kind = "custom" => Pairs = TypedPairs(map) /\ Pairs' = TypedPairs(after)
         /\ mapReply' = [op |-> op, arg |-> arg, result |-> result]
BY DEF MapInv, Pairs, MapCall

LEMMA SameMapCount == \A S : PlainM!Cardinality(S) = Cardinality(S)
BY DEF PlainM!Cardinality, Cardinality

\* The steps of a map, over the partial function the caller knows.
LEMMA PlainMapSteps ==
  /\ \A k, v : PlainM!Set(k, v) <=>
       /\ mapReply'.op = "set" /\ mapReply'.arg = <<k, v>>
       /\ mapReply'.result = (Pairs[k] = NoValue) /\ Pairs' = [Pairs EXCEPT ![k] = v]
  /\ \A k : PlainM!Remove(k) <=>
       /\ mapReply'.op = "remove" /\ mapReply'.arg = k
       /\ mapReply'.result = (Pairs[k] # NoValue) /\ Pairs' = [Pairs EXCEPT ![k] = NoValue]
  /\ PlainM!Clear <=> mapReply'.op = "clear" /\ Pairs' = [k \in AnyKey |-> NoValue]
  /\ \A k : PlainM!Contains(k) <=>
       /\ mapReply'.op = "contains" /\ mapReply'.arg = k
       /\ mapReply'.result = (Pairs[k] # NoValue) /\ Pairs' = Pairs
  /\ PlainM!Length <=>
       mapReply'.op = "length" /\ mapReply'.result = Cardinality(KeysOf(Pairs)) /\ Pairs' = Pairs
  /\ PlainM!At <=>
       /\ mapReply'.op = "at" /\ mapReply'.result[1] \in KeysOf(Pairs)
       /\ mapReply'.result[2] = Pairs[mapReply'.result[1]] /\ Pairs' = Pairs
  /\ \A k : PlainM!TryGet(k) <=>
       /\ mapReply'.op = "tryGet" /\ mapReply'.arg = k
       /\ mapReply'.result[1] = (Pairs[k] # NoValue)
       /\ Pairs[k] # NoValue => mapReply'.result[2] = Pairs[k]
       /\ Pairs' = Pairs
  /\ \A k : PlainM!Get(k) <=>
       /\ mapReply'.op = "get" /\ mapReply'.arg = k
       /\ Pairs[k] # NoValue /\ mapReply'.result = Pairs[k] /\ Pairs' = Pairs
<1> DEFINE B == [k \in Element \cup Bytes32 |-> Binding(k)]
<1>1. Pairs = B /\ Pairs' = B'
  BY PairsAre
<1>2. PlainM!Keys = KeysOf(Pairs)
  BY <1>1 DEF PlainM!Keys, KeysOf, AnyKey
<1>3. \A k, v : PlainM!Set(k, v) <=>
       /\ mapReply'.op = "set" /\ mapReply'.arg = <<k, v>>
       /\ mapReply'.result = (Pairs[k] = NoValue) /\ Pairs' = [Pairs EXCEPT ![k] = v]
  BY <1>1 DEF PlainM!Set
<1>4. \A k : PlainM!Remove(k) <=>
       /\ mapReply'.op = "remove" /\ mapReply'.arg = k
       /\ mapReply'.result = (Pairs[k] # NoValue) /\ Pairs' = [Pairs EXCEPT ![k] = NoValue]
  BY <1>1 DEF PlainM!Remove
<1>5. PlainM!Clear <=> mapReply'.op = "clear" /\ Pairs' = [k \in AnyKey |-> NoValue]
  BY <1>1 DEF PlainM!Clear, AnyKey
<1>6. \A k : PlainM!Contains(k) <=>
       /\ mapReply'.op = "contains" /\ mapReply'.arg = k
       /\ mapReply'.result = (Pairs[k] # NoValue) /\ Pairs' = Pairs
  BY <1>1 DEF PlainM!Contains
<1>7. PlainM!Length <=>
       mapReply'.op = "length" /\ mapReply'.result = Cardinality(KeysOf(Pairs)) /\ Pairs' = Pairs
  BY <1>1, <1>2, SameMapCount DEF PlainM!Length
<1>8. PlainM!At <=>
       /\ mapReply'.op = "at" /\ mapReply'.result[1] \in KeysOf(Pairs)
       /\ mapReply'.result[2] = Pairs[mapReply'.result[1]] /\ Pairs' = Pairs
  BY <1>1, <1>2 DEF PlainM!At
<1>9. \A k : PlainM!TryGet(k) <=>
       /\ mapReply'.op = "tryGet" /\ mapReply'.arg = k
       /\ mapReply'.result[1] = (Pairs[k] # NoValue)
       /\ Pairs[k] # NoValue => mapReply'.result[2] = Pairs[k]
       /\ Pairs' = Pairs
  BY <1>1 DEF PlainM!TryGet
<1>10. \A k : PlainM!Get(k) <=>
       /\ mapReply'.op = "get" /\ mapReply'.arg = k
       /\ Pairs[k] # NoValue /\ mapReply'.result = Pairs[k] /\ Pairs' = Pairs
  BY <1>1 DEF PlainM!Get
<1> QED  BY <1>3, <1>4, <1>5, <1>6, <1>7, <1>8, <1>9, <1>10

\* Of the keys.
LEMMA PlainKeys ==
  ASSUME NEW start, NEW end, mapReply'.op = "keys", mapReply'.arg = <<start, end>>,
         Listed(mapReply'.result, Left(start, end, Cardinality(KeysOf(Pairs))), KeysOf(Pairs)),
         Pairs' = Pairs
  PROVE  PlainM!KeySlice
<1> DEFINE B == [k \in Element \cup Bytes32 |-> Binding(k)]
<1>1. Pairs = B /\ Pairs' = B'
  BY PairsAre
<1>2. PlainM!Keys = KeysOf(Pairs)
  BY <1>1 DEF PlainM!Keys, KeysOf, AnyKey
<1>3. mapReply'.arg[1] = start /\ mapReply'.arg[2] = end
  OBVIOUS
<1>4. \A m, n : PlainM!Least(m, n) = Smaller(m, n)
  BY DEF PlainM!Least, Smaller
<1> DEFINE c == Cardinality(KeysOf(Pairs))
<1>5. /\ Len(mapReply'.result) = PlainM!Least(end, c) - PlainM!Least(start, PlainM!Least(end, c))
      /\ \A i \in DOMAIN mapReply'.result : mapReply'.result[i] \in KeysOf(Pairs)
      /\ \A i, j \in DOMAIN mapReply'.result : mapReply'.result[i] = mapReply'.result[j] => i = j
  BY <1>4 DEF Listed, Left
<1>6. PlainM!Cardinality(PlainM!Keys) = c
  BY <1>2, SameMapCount
<1> HIDE DEF c, B
<1>7. UNCHANGED B
  BY <1>1
<1> QED  BY <1>2, <1>3, <1>5, <1>6, <1>7 DEF PlainM!KeySlice, B

LEMMA WordPairsAre ==
  ASSUME NEW m, Kept(m)
  PROVE  /\ \A k \in Bytes32 : /\ WordPairs(m)[k] # NoValue <=> HasKey(m, k)
                               /\ HasKey(m, k) => WordPairs(m)[k] = m.values[k]
                               /\ m.values[k] # Zero => HasKey(m, k)
         /\ KeysOf(WordPairs(m)) = WordsIn(m.keys)
         /\ Cardinality(WordsIn(m.keys)) = m.keys.length
<1>1. /\ Tracked(m.keys) /\ m.values \in [Bytes32 -> Bytes32]
      /\ \A k \in Bytes32 : m.values[k] # Zero => HasKey(m, k)
  BY DEF Kept
<1>2. \A k \in Bytes32 : /\ WordPairs(m)[k] # NoValue <=> HasKey(m, k)
                         /\ HasKey(m, k) => WordPairs(m)[k] = m.values[k]
  BY <1>1, MapAssumption DEF WordPairs, AnyKey
<1>3. KeysOf(WordPairs(m)) = WordsIn(m.keys)
  <2>1. \A k \in Bytes32 : HasKey(m, k) <=> k \in WordsIn(m.keys)
    BY <1>1, TrackedIs DEF HasKey
  <2>2. WordsIn(m.keys) \subseteq Bytes32
    BY <1>1, TrackedIs
  <2>3. \A k \in AnyKey : k \notin Bytes32 => WordPairs(m)[k] = NoValue
    BY DEF WordPairs
  <2> QED  BY <1>2, <2>1, <2>2, <2>3 DEF KeysOf, AnyKey
<1> QED  BY <1>1, <1>2, <1>3, CountIs

LEMMA TypedPairsAre ==
  ASSUME NEW m, Kept(m), OfTypes(m)
  PROVE  /\ \A x \in Element :
              /\ TypedPairs(m)[x] # NoValue <=> HasKey(m, ToBytes32[x])
              /\ HasKey(m, ToBytes32[x]) => TypedPairs(m)[x] = FromBytes32(m.values[ToBytes32[x]])
              /\ m.values[ToBytes32[x]] # Zero => HasKey(m, ToBytes32[x])
         /\ KeysOf(TypedPairs(m)) = Typed(WordsIn(m.keys))
         /\ Cardinality(Typed(WordsIn(m.keys))) = m.keys.length
<1>1. /\ Tracked(m.keys) /\ m.values \in [Bytes32 -> Bytes32]
      /\ \A k \in Bytes32 : m.values[k] # Zero => HasKey(m, k)
      /\ \A x \in Element : ToBytes32[x] \in Bytes32
      /\ OfType(WordsIn(m.keys))
  BY SetAssumption DEF Kept, OfTypes
<1>2. \A k \in Bytes32 : FromBytes32(m.values[k]) \in Element /\ FromBytes32(m.values[k]) # NoValue
  <2>1. ASSUME NEW k \in Bytes32 PROVE FromBytes32(m.values[k]) \in Element
    <3>1. PICK y \in Element : ToBytes32[y] = m.values[k]
      BY DEF OfTypes
    <3>2. FromBytes32(ToBytes32[y]) = y
      BY BackAndForth
    <3> QED  BY <3>1, <3>2
  <2> QED  BY <2>1, MapAssumption
<1>3. \A x \in Element :
        /\ TypedPairs(m)[x] # NoValue <=> HasKey(m, ToBytes32[x])
        /\ HasKey(m, ToBytes32[x]) => TypedPairs(m)[x] = FromBytes32(m.values[ToBytes32[x]])
  BY <1>1, <1>2 DEF TypedPairs, AnyKey
<1>4. KeysOf(TypedPairs(m)) = Typed(WordsIn(m.keys))
  <2>1. \A x \in Element : HasKey(m, ToBytes32[x]) <=> ToBytes32[x] \in WordsIn(m.keys)
    BY <1>1, TrackedIs DEF HasKey
  <2>2. \A k \in AnyKey : k \notin Element => TypedPairs(m)[k] = NoValue
    BY DEF TypedPairs
  <2> QED  BY <1>3, <2>1, <2>2 DEF KeysOf, AnyKey, Typed
<1>5. Cardinality(Typed(WordsIn(m.keys))) = m.keys.length
  <2>1. Cardinality(WordsIn(m.keys)) = m.keys.length /\ IsFiniteSet(WordsIn(m.keys))
    BY <1>1, CountIs
  <2> QED  BY <1>1, <2>1, AsManyTyped
<1> QED  BY <1>1, <1>3, <1>4, <1>5

LEMMA MemoryMapSimulates ==
  ASSUME MapInv, NextMemoryMap PROVE MapInv' /\ PlainM!Next
<1>1. Kept(map) /\ Tracked(map.keys)
  BY DEF MapInv, Kept
<1> DEFINE f == WordPairs(map)
<1>2. /\ \A k \in Bytes32 : /\ f[k] # NoValue <=> HasKey(map, k)
                            /\ HasKey(map, k) => f[k] = map.values[k]
                            /\ map.values[k] # Zero => HasKey(map, k)
      /\ KeysOf(f) = WordsIn(map.keys)
      /\ Cardinality(WordsIn(map.keys)) = map.keys.length
  BY <1>1, WordPairsAre
<1>3. ASSUME NEW op, NEW arg, NEW after, NEW result, MapCall("memory", op, arg, after, result), Kept(after)
      PROVE  /\ MapInv' /\ Pairs = f /\ Pairs' = WordPairs(after)
             /\ mapReply'.op = op /\ mapReply'.arg = arg /\ mapReply'.result = result
  <2>1. /\ MapInv'
        /\ Pairs = WordPairs(map) /\ Pairs' = WordPairs(after)
        /\ mapReply' = [op |-> op, arg |-> arg, result |-> result]
    BY <1>3, MapCallStep
  <2> QED  BY <2>1
<1>4. ASSUME NEW k \in Bytes32, NEW v \in Bytes32, MemoryMapSet(k, v) PROVE MapInv' /\ PlainM!Set(k, v)
  <2> DEFINE after == SetPair(map, k, v)
  <2>1. map.keys.length < Capacity /\ MapCall("memory", "set", <<k, v>>, after, ~ HasKey(map, k))
    BY <1>4 DEF MemoryMapSet
  <2>2. Kept(after)
    BY <1>1, <2>1, SetKept
  <2>3. WordPairs(after) = [f EXCEPT ![k] = v]
    BY <1>1, <2>1, WordPairsChange
  <2> HIDE DEF after, f
  <2>4. /\ MapInv' /\ Pairs = f /\ Pairs' = [f EXCEPT ![k] = v]
        /\ mapReply'.op = "set" /\ mapReply'.arg = <<k, v>> /\ mapReply'.result = ~ HasKey(map, k)
    BY <1>3, <2>1, <2>2, <2>3
  <2>5. (~ HasKey(map, k)) = (Pairs[k] = NoValue)
    BY <1>2, <2>4 DEF HasKey, HasWord
  <2>6. PlainM!Set(k, v)
    BY <2>4, <2>5, PlainMapSteps
  <2> QED  BY <2>4, <2>6
<1>5. ASSUME NEW k \in Bytes32, MemoryMapRemove(k) PROVE MapInv' /\ PlainM!Remove(k)
  <2> DEFINE after == RemovedPair(map, k)
  <2>1. MapCall("memory", "remove", k, after, HasKey(map, k))
    BY <1>5 DEF MemoryMapRemove
  <2>2. Kept(after)
    BY <1>1, RemoveKept
  <2>3. WordPairs(after) = [f EXCEPT ![k] = NoValue]
    BY <1>1, WordPairsChange
  <2> HIDE DEF after, f
  <2>4. /\ MapInv' /\ Pairs = f /\ Pairs' = [f EXCEPT ![k] = NoValue]
        /\ mapReply'.op = "remove" /\ mapReply'.arg = k /\ mapReply'.result = HasKey(map, k)
    BY <1>3, <2>1, <2>2, <2>3
  <2>5. HasKey(map, k) = (Pairs[k] # NoValue)
    BY <1>2, <2>4 DEF HasKey, HasWord
  <2>6. PlainM!Remove(k)
    BY <2>4, <2>5, PlainMapSteps
  <2> QED  BY <2>4, <2>6
<1>6. ASSUME MemoryMapClear PROVE MapInv' /\ PlainM!Clear
  <2> DEFINE after == ClearedPairs(map)
  <2>1. MapCall("memory", "clear", 0, after, TRUE)
    BY <1>6 DEF MemoryMapClear
  <2>2. Kept(after)
    BY <1>1, ClearKept
  <2>3. WordPairs(after) = [k \in AnyKey |-> NoValue]
    BY <1>1, SetAssumption, WordPairsChange
  <2> HIDE DEF after, f
  <2>4. MapInv' /\ Pairs' = [k \in AnyKey |-> NoValue] /\ mapReply'.op = "clear"
    BY <1>3, <2>1, <2>2, <2>3
  <2> QED  BY <2>4, PlainMapSteps
\* A call that only reads.
<1>7. ASSUME NEW op, NEW arg, NEW result, MapCall("memory", op, arg, map, result)
      PROVE  /\ MapInv' /\ Pairs = f /\ Pairs' = Pairs
             /\ mapReply'.op = op /\ mapReply'.arg = arg /\ mapReply'.result = result
  BY <1>1, <1>3, <1>7
<1> HIDE DEF f
<1>8. ASSUME NEW k \in Bytes32, MemoryMapContains(k) PROVE MapInv' /\ PlainM!Contains(k)
  <2>1. /\ MapInv' /\ Pairs = f /\ Pairs' = Pairs
        /\ mapReply'.op = "contains" /\ mapReply'.arg = k /\ mapReply'.result = HasKey(map, k)
    BY <1>7, <1>8 DEF MemoryMapContains
  <2>2. HasKey(map, k) = (Pairs[k] # NoValue)
    BY <1>2, <2>1 DEF HasKey, HasWord
  <2> QED  BY <2>1, <2>2, PlainMapSteps
<1>9. ASSUME MemoryMapLength PROVE MapInv' /\ PlainM!Length
  <2>1. /\ MapInv' /\ Pairs = f /\ Pairs' = Pairs
        /\ mapReply'.op = "length" /\ mapReply'.result = map.keys.length
    BY <1>7, <1>9 DEF MemoryMapLength, PairCount, WordCount
  <2> QED  BY <1>2, <2>1, PlainMapSteps
<1>10. ASSUME NEW i \in Index, MemoryMapAt(i) PROVE MapInv' /\ PlainM!At
  <2> DEFINE k == WordAt(map.keys, i)
  <2>1. i < map.keys.length /\ MapCall("memory", "at", i, map, <<k, map.values[k]>>)
    BY <1>10 DEF MemoryMapAt, PairAt
  <2>2. k \in WordsIn(map.keys)
    <3>1. i \in 0..(map.keys.length - 1)
      BY <1>1, <2>1, TrackedIs DEF Index
    <3> QED  BY <3>1, WordsAre DEF WordAt
  <2>3. k \in Bytes32 /\ HasKey(map, k)
    BY <1>1, <2>2, TrackedIs DEF HasKey
  <2> HIDE DEF k
  <2>4. /\ MapInv' /\ Pairs = f /\ Pairs' = Pairs
        /\ mapReply'.op = "at" /\ mapReply'.result = <<k, map.values[k]>>
    BY <1>7, <2>1
  <2>5. /\ mapReply'.result[1] = k /\ mapReply'.result[2] = map.values[k]
        /\ k \in KeysOf(Pairs) /\ map.values[k] = Pairs[k]
    BY <1>2, <2>2, <2>3, <2>4
  <2> QED  BY <2>4, <2>5, PlainMapSteps
<1>11. ASSUME NEW k \in Bytes32, MemoryMapTryGet(k) PROVE MapInv' /\ PlainM!TryGet(k)
  <2>1. /\ MapInv' /\ Pairs = f /\ Pairs' = Pairs /\ mapReply'.op = "tryGet" /\ mapReply'.arg = k
        /\ mapReply'.result = <<map.values[k] # Zero \/ HasKey(map, k), map.values[k]>>
    BY <1>7, <1>11 DEF MemoryMapTryGet, Found
  <2>2. /\ mapReply'.result[1] = (Pairs[k] # NoValue)
        /\ Pairs[k] # NoValue => mapReply'.result[2] = Pairs[k]
    BY <1>2, <2>1
  <2> QED  BY <2>1, <2>2, PlainMapSteps
<1>12. ASSUME NEW k \in Bytes32, MemoryMapGet(k) PROVE MapInv' /\ PlainM!Get(k)
  <2>1. /\ map.values[k] # Zero \/ HasKey(map, k)
        /\ MapInv' /\ Pairs = f /\ Pairs' = Pairs /\ mapReply'.op = "get" /\ mapReply'.arg = k
        /\ mapReply'.result = map.values[k]
    BY <1>7, <1>12 DEF MemoryMapGet, Found
  <2>2. Pairs[k] # NoValue /\ mapReply'.result = Pairs[k]
    BY <1>2, <2>1
  <2> QED  BY <2>1, <2>2, PlainMapSteps
<1>13. ASSUME MemoryMapKeys PROVE MapInv' /\ PlainM!KeySlice
  <2> DEFINE r == AllWords(map.keys)
             n == map.keys.length
  <2>1. /\ MapInv' /\ Pairs = f /\ Pairs' = Pairs /\ mapReply'.op = "keys"
        /\ mapReply'.arg = <<0, n>> /\ mapReply'.result = r
    BY <1>7, <1>13 DEF MemoryMapKeys
  <2>2. Listed(r, n, KeysOf(Pairs)) /\ Cardinality(KeysOf(Pairs)) = n
    BY <1>1, <1>2, <2>1, AllAre
  <2>3. Left(0, n, n) = n
    BY <1>1, TrackedIs DEF Left, Smaller
  <2> HIDE DEF r, n
  <2> QED  BY <2>1, <2>2, <2>3, PlainKeys
<1>14. ASSUME NEW start \in 0..(Capacity + 1), NEW end \in 0..(Capacity + 1), MemoryMapKeySlice(start, end)
       PROVE  MapInv' /\ PlainM!KeySlice
  <2> DEFINE r == WordSlice(map.keys, start, end)
             n == map.keys.length
  <2>1. /\ MapInv' /\ Pairs = f /\ Pairs' = Pairs /\ mapReply'.op = "keys"
        /\ mapReply'.arg = <<start, end>> /\ mapReply'.result = r
    BY <1>7, <1>14 DEF MemoryMapKeySlice, KeyWords
  <2>2. start \in Nat /\ end \in Nat
    BY SetAssumption
  <2>3. Listed(r, Left(start, end, n), KeysOf(Pairs)) /\ Cardinality(KeysOf(Pairs)) = n
    BY <1>1, <1>2, <2>1, <2>2, SliceIs
  <2> HIDE DEF r, n
  <2> QED  BY <2>1, <2>3, PlainKeys
<1> QED  BY <1>4, <1>5, <1>6, <1>8, <1>9, <1>10, <1>11, <1>12, <1>13, <1>14 DEF NextMemoryMap, PlainM!Next

LEMMA CustomMapSimulates ==
  ASSUME MapInv, NextCustomMap PROVE MapInv' /\ PlainM!Next
<1> DEFINE f == TypedPairs(map)
<1>1. Kept(map) /\ Tracked(map.keys) /\ OfTypes(map) /\ OfType(WordsIn(map.keys))
  <2>1. mapKind = "custom"
    BY DEF NextCustomMap, MapCall, MapSet, MapRemove, MapContains, MapTryGet, MapGet, MapClear, MapLength,
           MapKeys, MapAt, MapKeySlice
  <2> QED  BY <2>1 DEF MapInv, Kept, OfTypes
<1>2. /\ \A x \in Element :
           /\ f[x] # NoValue <=> HasKey(map, ToBytes32[x])
           /\ HasKey(map, ToBytes32[x]) => f[x] = FromBytes32(map.values[ToBytes32[x]])
           /\ map.values[ToBytes32[x]] # Zero => HasKey(map, ToBytes32[x])
      /\ KeysOf(f) = Typed(WordsIn(map.keys))
      /\ Cardinality(Typed(WordsIn(map.keys))) = map.keys.length
  BY <1>1, TypedPairsAre
<1>w. \A x \in Element : ToBytes32[x] \in Bytes32
  BY SetAssumption
<1>3. ASSUME NEW op, NEW arg, NEW after, NEW result, MapCall("custom", op, arg, after, result),
             Kept(after), OfTypes(after)
      PROVE  /\ MapInv' /\ Pairs = f /\ Pairs' = TypedPairs(after)
             /\ mapReply'.op = op /\ mapReply'.arg = arg /\ mapReply'.result = result
  <2>1. /\ MapInv'
        /\ Pairs = TypedPairs(map) /\ Pairs' = TypedPairs(after)
        /\ mapReply' = [op |-> op, arg |-> arg, result |-> result]
    BY <1>3, MapCallStep
  <2> QED  BY <2>1
<1>4. ASSUME NEW x \in Element, NEW y \in Element, MapSet(x, y) PROVE MapInv' /\ PlainM!Set(x, y)
  <2> DEFINE w == ToBytes32[x]
             after == SetPair(map, w, ToBytes32[y])
  <2>1. map.keys.length < Capacity /\ MapCall("custom", "set", <<x, y>>, after, ~ HasKey(map, w))
    BY <1>4 DEF MapSet
  <2>2. Kept(after)
    BY <1>1, <1>w, <2>1, SetKept
  <2>3. OfTypes(after) /\ TypedPairs(after) = [f EXCEPT ![x] = y]
    <3>1. OfTypes(SetPair(map, ToBytes32[x], ToBytes32[y]))
      BY <1>1, <2>1, TypesKept
    <3>2. map.keys.length < Capacity
      BY <2>1
    <3>3. TypedPairs(SetPair(map, ToBytes32[x], ToBytes32[y])) = [TypedPairs(map) EXCEPT ![x] = y]
      <4> HIDE DEF after, f, w
      <4>1. \A z \in Element : TypedPairs(SetPair(map, ToBytes32[x], ToBytes32[z]))
                                 = [TypedPairs(map) EXCEPT ![x] = z]
        BY <1>1, <3>2, TypedPairsChange, Zenon
      <4> QED  BY <4>1
    <3> QED  BY <3>1, <3>3
  <2> HIDE DEF after, f
  <2>4. /\ MapInv' /\ Pairs = f /\ Pairs' = [f EXCEPT ![x] = y]
        /\ mapReply'.op = "set" /\ mapReply'.arg = <<x, y>> /\ mapReply'.result = ~ HasKey(map, w)
    BY <1>3, <2>1, <2>2, <2>3
  <2>5. (~ HasKey(map, w)) = (Pairs[x] = NoValue)
    BY <1>2, <2>4 DEF HasKey, HasWord
  <2>6. PlainM!Set(x, y)
    BY <2>4, <2>5, PlainMapSteps
  <2> QED  BY <2>4, <2>6
<1>5. ASSUME NEW x \in Element, MapRemove(x) PROVE MapInv' /\ PlainM!Remove(x)
  <2> DEFINE w == ToBytes32[x]
             after == RemovedPair(map, w)
  <2>1. MapCall("custom", "remove", x, after, HasKey(map, w))
    BY <1>5 DEF MapRemove
  <2>2. Kept(after)
    BY <1>1, <1>w, RemoveKept
  <2>3. OfTypes(after) /\ TypedPairs(after) = [f EXCEPT ![x] = NoValue]
    BY <1>1, TypesKept, TypedPairsChange
  <2> HIDE DEF after, f
  <2>4. /\ MapInv' /\ Pairs = f /\ Pairs' = [f EXCEPT ![x] = NoValue]
        /\ mapReply'.op = "remove" /\ mapReply'.arg = x /\ mapReply'.result = HasKey(map, w)
    BY <1>3, <2>1, <2>2, <2>3
  <2>5. HasKey(map, w) = (Pairs[x] # NoValue)
    BY <1>2, <2>4 DEF HasKey, HasWord
  <2>6. PlainM!Remove(x)
    BY <2>4, <2>5, PlainMapSteps
  <2> QED  BY <2>4, <2>6
<1>6. ASSUME MapClear PROVE MapInv' /\ PlainM!Clear
  <2> DEFINE after == ClearedPairs(map)
  <2>1. MapCall("custom", "clear", 0, after, TRUE)
    BY <1>6 DEF MapClear
  <2>2. Kept(after) /\ OfTypes(after)
    BY <1>1, ClearKept, TypesKept
  <2>3. TypedPairs(after) = [k \in AnyKey |-> NoValue]
    <3>1. \E x \in Element : TRUE
      BY MapAssumption
    <3> QED  BY <1>1, <3>1, TypedPairsChange
  <2> HIDE DEF after, f
  <2>4. MapInv' /\ Pairs' = [k \in AnyKey |-> NoValue] /\ mapReply'.op = "clear"
    BY <1>3, <2>1, <2>2, <2>3
  <2> QED  BY <2>4, PlainMapSteps
\* A call that only reads.
<1>7. ASSUME NEW op, NEW arg, NEW result, MapCall("custom", op, arg, map, result)
      PROVE  /\ MapInv' /\ Pairs = f /\ Pairs' = Pairs
             /\ mapReply'.op = op /\ mapReply'.arg = arg /\ mapReply'.result = result
  BY <1>1, <1>3, <1>7
<1> HIDE DEF f
<1>8. ASSUME NEW x \in Element, MapContains(x) PROVE MapInv' /\ PlainM!Contains(x)
  <2>1. /\ MapInv' /\ Pairs = f /\ Pairs' = Pairs
        /\ mapReply'.op = "contains" /\ mapReply'.arg = x /\ mapReply'.result = HasKey(map, ToBytes32[x])
    BY <1>7, <1>8 DEF MapContains
  <2>2. HasKey(map, ToBytes32[x]) = (Pairs[x] # NoValue)
    BY <1>2, <2>1 DEF HasKey, HasWord
  <2> QED  BY <2>1, <2>2, PlainMapSteps
<1>9. ASSUME MapLength PROVE MapInv' /\ PlainM!Length
  <2>1. /\ MapInv' /\ Pairs = f /\ Pairs' = Pairs
        /\ mapReply'.op = "length" /\ mapReply'.result = map.keys.length
    BY <1>7, <1>9 DEF MapLength, PairCount, WordCount
  <2> QED  BY <1>2, <2>1, PlainMapSteps
<1>10. ASSUME NEW i \in Index, MapAt(i) PROVE MapInv' /\ PlainM!At
  <2> DEFINE w == WordAt(map.keys, i)
             x == FromBytes32(w)
             y == FromBytes32(map.values[w])
  <2>1. i < map.keys.length /\ MapCall("custom", "at", i, map, <<x, y>>)
    BY <1>10 DEF MapAt, PairAt
  <2>2. w \in WordsIn(map.keys)
    <3>1. i \in 0..(map.keys.length - 1)
      BY <1>1, <2>1, TrackedIs DEF Index
    <3> QED  BY <3>1, WordsAre DEF WordAt
  <2>3. x \in Typed(WordsIn(map.keys)) /\ ToBytes32[x] = w /\ x \in Element /\ HasKey(map, w)
    <3>1. x \in Typed(WordsIn(map.keys)) /\ ToBytes32[x] = w
      BY <1>1, <2>2, BackAndForth
    <3>2. HasKey(map, w)
      BY <1>1, <2>2, TrackedIs DEF HasKey
    <3> QED  BY <3>1, <3>2 DEF Typed
  <2> HIDE DEF w, x
  <2>4. /\ MapInv' /\ Pairs = f /\ Pairs' = Pairs
        /\ mapReply'.op = "at" /\ mapReply'.result = <<x, y>>
    BY <1>7, <2>1
  <2>5. f[x] = y
    BY <1>2, <2>3
  <2> HIDE DEF y
  <2>6. /\ mapReply'.result[1] = x /\ mapReply'.result[2] = y
        /\ x \in KeysOf(Pairs) /\ y = Pairs[x]
    BY <1>2, <2>3, <2>4, <2>5
  <2> QED  BY <2>4, <2>6, PlainMapSteps
<1>11. ASSUME NEW x \in Element, MapTryGet(x) PROVE MapInv' /\ PlainM!TryGet(x)
  <2> DEFINE w == ToBytes32[x]
  <2>1. /\ MapInv' /\ Pairs = f /\ Pairs' = Pairs /\ mapReply'.op = "tryGet" /\ mapReply'.arg = x
        /\ mapReply'.result = <<map.values[w] # Zero \/ HasKey(map, w), FromBytes32(map.values[w])>>
    BY <1>7, <1>11 DEF MapTryGet, Found
  <2>2. /\ mapReply'.result[1] = (Pairs[x] # NoValue)
        /\ Pairs[x] # NoValue => mapReply'.result[2] = Pairs[x]
    BY <1>2, <2>1
  <2> QED  BY <2>1, <2>2, PlainMapSteps
<1>12. ASSUME NEW x \in Element, MapGet(x) PROVE MapInv' /\ PlainM!Get(x)
  <2> DEFINE w == ToBytes32[x]
  <2>1. /\ map.values[w] # Zero \/ HasKey(map, w)
        /\ MapInv' /\ Pairs = f /\ Pairs' = Pairs /\ mapReply'.op = "get" /\ mapReply'.arg = x
        /\ mapReply'.result = FromBytes32(map.values[w])
    BY <1>7, <1>12 DEF MapGet, Bound
  <2>2. Pairs[x] # NoValue /\ mapReply'.result = Pairs[x]
    BY <1>2, <2>1
  <2> QED  BY <2>1, <2>2, PlainMapSteps
<1>13. ASSUME MapKeys PROVE MapInv' /\ PlainM!KeySlice
  <2> DEFINE r == Converted(AllWords(map.keys))
             n == map.keys.length
  <2>1. /\ MapInv' /\ Pairs = f /\ Pairs' = Pairs /\ mapReply'.op = "keys"
        /\ mapReply'.arg = <<0, n>> /\ mapReply'.result = r
    BY <1>7, <1>13 DEF MapKeys
  <2>2. n \in Nat
    BY <1>1, TrackedIs
  <2>3. Listed(r, n, KeysOf(Pairs)) /\ Cardinality(KeysOf(Pairs)) = n
    BY <1>1, <1>2, <2>1, <2>2, AllAre, ConvertedAre
  <2>4. Left(0, n, n) = n
    BY <2>2 DEF Left, Smaller
  <2> HIDE DEF r, n
  <2> QED  BY <2>1, <2>3, <2>4, PlainKeys
<1>14. ASSUME NEW start \in 0..(Capacity + 1), NEW end \in 0..(Capacity + 1), MapKeySlice(start, end)
       PROVE  MapInv' /\ PlainM!KeySlice
  <2> DEFINE r == Converted(WordSlice(map.keys, start, end))
             n == map.keys.length
  <2>1. /\ MapInv' /\ Pairs = f /\ Pairs' = Pairs /\ mapReply'.op = "keys"
        /\ mapReply'.arg = <<start, end>> /\ mapReply'.result = r
    BY <1>7, <1>14 DEF MapKeySlice, KeyWords
  <2>2. start \in Nat /\ end \in Nat
    BY SetAssumption
  <2>3. Listed(r, Left(start, end, n), KeysOf(Pairs)) /\ Cardinality(KeysOf(Pairs)) = n
    BY <1>1, <1>2, <2>1, <2>2, SliceIs, ConvertedAre
  <2> HIDE DEF r, n
  <2> QED  BY <2>1, <2>3, PlainKeys
<1> QED  BY <1>4, <1>5, <1>6, <1>8, <1>9, <1>10, <1>11, <1>12, <1>13, <1>14 DEF NextCustomMap, PlainM!Next

(* However keys are bound, bound again, removed, cleared and enumerated, an  *)
(* enumerable map answers as a partial function does, the values bound to    *)
(* zero included: for any words, any injective conversion and any capacity   *)
(* (EnumerableMap.js 75-190, 330-447).                                       *)
THEOREM MapsAreMaps == MapSpec => MapIsMap
<1>1. /\ Pairs = [k \in Element \cup Bytes32 |-> Binding(k)]
      /\ Pairs' = [k \in Element \cup Bytes32 |-> Binding(k)]'
  BY PairsAre
<1>2. InitMap => MapInv /\ PlainM!Init
  <2> SUFFICES ASSUME InitMap PROVE MapInv /\ PlainM!Init
    OBVIOUS
  <2>1. map = EmptyMap /\ mapKind \in {"custom", "memory"} /\ mapReply.op = "none"
    BY DEF InitMap
  <2>2. Kept(EmptyMap) /\ \A w \in Bytes32 : ~ HasKey(EmptyMap, w)
    BY EmptyKept
  <2>3. OfTypes(EmptyMap)
    <3>1. WordsIn(EmptyMap.keys) = {} /\ \A w \in Bytes32 : EmptyMap.values[w] = Zero
      BY EmptyTracked DEF EmptyMap
    <3> QED  BY <3>1, MapAssumption DEF OfTypes, OfType
  <2>4. Pairs = [k \in AnyKey |-> NoValue]
    BY <2>1, <2>2, SetAssumption DEF Pairs, WordPairs, TypedPairs
  <2>5. MapInv
    BY <2>1, <2>2, <2>3 DEF MapInv
  <2> QED  BY <1>1, <2>1, <2>4, <2>5 DEF PlainM!Init, AnyKey
<1>3. MapInv /\ [NextMap]_mapVars => MapInv' /\ [PlainM!Next]_(PlainM!vars)
  <2> SUFFICES ASSUME MapInv, [NextMap]_mapVars PROVE MapInv' /\ [PlainM!Next]_(PlainM!vars)
    OBVIOUS
  <2>1. CASE UNCHANGED mapVars
    <3>1. MapInv'
      BY <2>1 DEF mapVars, MapInv
    <3>2. Pairs' = Pairs /\ mapReply' = mapReply
      BY <2>1 DEF mapVars, Pairs
    <3> QED  BY <1>1, <3>1, <3>2 DEF PlainM!vars
  <2> QED  BY <2>1, CustomMapSimulates, MemoryMapSimulates DEF NextMap
<1> QED  BY <1>2, <1>3, PTL DEF MapSpec, MapIsMap, PlainM!Spec

=============================================================================
