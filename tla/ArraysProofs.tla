---------------------------- MODULE ArraysProofs ----------------------------
(***************************************************************************)
(* Theorems about the generated searches, copies and the quick sort, about *)
(* the histories, which are searched in the same way, and about the Merkle *)
(* proofs, whose queue is an array too: for arrays and histories of any    *)
(* length, over any words, keys and values.                                *)
(***************************************************************************)
EXTENDS Checkpoints, Arrays, MerkleProof, SequenceTheorems, FiniteSetTheorems, FunctionTheorems, TLAPS

----------------------------------------------------------------------------
(* The histories. *)

Checkpoint == [key : TraceKey, value : TraceValue]

\* The checkpoints are in the strict order of their keys, and the last value
\* pushed under a key is that of its checkpoint.
TraceTrue ==
  /\ trace \in Seq(Checkpoint)
  /\ \A i, j \in DOMAIN trace : i < j => trace[i].key < trace[j].key
  /\ \A i \in DOMAIN trace : pushed[trace[i].key] = {trace[i].value}
  /\ pushed \in [TraceKey -> SUBSET TraceValue]
  /\ \A k \in TraceKey : pushed[k] # {} => \E i \in DOMAIN trace : trace[i].key = k

\* What a lookup has excluded: the checkpoints up to low are on one side of
\* the key, the ones from high on are on the other.
SearchTrue ==
  /\ search.op \in {"none", "lower", "upper"}
  /\ search.op = "none" => search = NoSearch
  /\ search.op # "none" =>
       /\ search \in [op : {"lower", "upper"}, key : TraceKey, low : Nat, high : Nat]
       /\ search.low <= search.high /\ search.high <= Len(trace)
       /\ answer = NoAnswer
  /\ search.op = "upper" =>
       /\ \A i \in 1..search.low : trace[i].key <= search.key
       /\ \A i \in (search.high + 1)..Len(trace) : trace[i].key > search.key
  /\ search.op = "lower" =>
       /\ \A i \in 1..search.low : trace[i].key < search.key
       /\ \A i \in (search.high + 1)..Len(trace) : trace[i].key >= search.key

TraceInv == TraceTrue /\ SearchTrue

LEMMA TraceTypes ==
  ASSUME TraceTrue
  PROVE  /\ Len(trace) \in Nat /\ DOMAIN trace = 1..Len(trace)
         /\ \A i \in 1..Len(trace) : /\ trace[i] \in Checkpoint
                                     /\ trace[i].key \in TraceKey /\ trace[i].value \in TraceValue
                                     /\ trace[i].key \in Nat /\ trace[i].value \in Nat
         /\ \A i, j \in 1..Len(trace) : i <= j => trace[i].key <= trace[j].key
<1>1. /\ Len(trace) \in Nat /\ DOMAIN trace = 1..Len(trace)
      /\ \A i \in 1..Len(trace) : trace[i] \in Checkpoint
  BY DEF TraceTrue
<1>2. \A i \in 1..Len(trace) : /\ trace[i].key \in TraceKey /\ trace[i].value \in TraceValue
                               /\ trace[i].key \in Nat /\ trace[i].value \in Nat
  BY <1>1, TraceAssumption DEF Checkpoint
<1>3. ASSUME NEW i \in 1..Len(trace), NEW j \in 1..Len(trace), i <= j
      PROVE  trace[i].key <= trace[j].key
  <2>1. CASE i = j
    BY <1>2, <2>1
  <2>2. CASE i < j
    BY <1>1, <1>2, <2>2 DEF TraceTrue
  <2> QED  BY <1>1, <1>3, <2>1, <2>2
<1> QED  BY <1>1, <1>2, <1>3

\* A push keeps the order and is the last word on its key.
LEMMA PushTrue ==
  ASSUME TraceTrue, NEW key \in TraceKey, NEW value \in TraceValue, TracePush(key, value)
  PROVE  TraceTrue'
<1> DEFINE n == Len(trace)
           c == [key |-> key, value |-> value]
<1>0. /\ n \in Nat /\ DOMAIN trace = 1..n /\ trace \in Seq(Checkpoint)
      /\ \A i \in 1..n : trace[i] \in Checkpoint /\ trace[i].key \in Nat /\ trace[i].key \in TraceKey
      /\ \A i, j \in 1..n : i <= j => trace[i].key <= trace[j].key
      /\ \A i, j \in 1..n : i < j => trace[i].key < trace[j].key
      /\ \A i \in 1..n : pushed[trace[i].key] = {trace[i].value}
      /\ \A k \in TraceKey : pushed[k] # {} => \E i \in 1..n : trace[i].key = k
      /\ key \in Nat
  BY TraceTypes, TraceAssumption DEF TraceTrue
<1>1. /\ pushed' \in [TraceKey -> SUBSET TraceValue] /\ pushed'[key] = {value}
      /\ \A k \in TraceKey : k # key => pushed'[k] = pushed[k]
  BY DEF TracePush, TraceTrue
<1>2. c \in Checkpoint /\ c.key = key /\ c.value = value
  BY DEF Checkpoint
<1>3. n > 0 => n - 1 + 1 = n /\ n \in 1..n
  BY <1>0
<1>4. n > 0 => trace[n].key <= key
  BY <1>3 DEF TracePush, Ordered, LastKey, UnsafeAccess
<1>5. trace' = IF n > 0 /\ trace[n].key = key THEN [trace EXCEPT ![n].value = value] ELSE Append(trace, c)
  BY <1>3 DEF TracePush, Inserted, LastKey, UnsafeAccess
<1>6. CASE n > 0 /\ trace[n].key = key
  <2>1. trace' = [trace EXCEPT ![n] = c]
    <3>1. [trace[n] EXCEPT !.value = value] = c
      BY <1>0, <1>3, <1>6 DEF Checkpoint
    <3> QED  BY <1>5, <1>6, <3>1
  <2> HIDE DEF c, n
  <2>2. /\ trace' \in Seq(Checkpoint) /\ DOMAIN trace' = 1..n /\ trace'[n] = c
        /\ \A i \in 1..n : i # n => trace'[i] = trace[i]
    BY <1>0, <1>2, <1>3, <1>6, <2>1
  <2>3. \A i \in 1..n : trace'[i].key = trace[i].key
    BY <1>2, <1>6, <2>2
  <2>4. ASSUME NEW i \in 1..n, i # n PROVE trace[i].key # key
    <3>1. i < n
      BY <1>0, <2>4
    <3>2. trace[i].key < trace[n].key
      BY <1>0, <1>3, <1>6, <3>1
    <3> QED  BY <1>0, <1>6, <3>2
  <2>5. \A i, j \in 1..n : i < j => trace'[i].key < trace'[j].key
    BY <1>0, <2>3
  <2>6. ASSUME NEW i \in 1..n PROVE pushed'[trace'[i].key] = {trace'[i].value}
    <3>1. CASE i = n
      BY <1>1, <1>2, <2>2, <3>1
    <3>2. CASE i # n
      <4>1. trace[i].key \in TraceKey /\ trace[i].key # key /\ trace'[i] = trace[i]
        BY <1>0, <2>2, <2>4, <3>2
      <4>2. pushed'[trace[i].key] = pushed[trace[i].key]
        BY <1>1, <4>1
      <4> QED  BY <1>0, <4>1, <4>2
    <3> QED  BY <3>1, <3>2
  <2>7. ASSUME NEW k \in TraceKey, pushed'[k] # {} PROVE \E i \in 1..n : trace'[i].key = k
    <3>1. CASE k = key
      BY <1>0, <1>6, <2>3, <3>1
    <3>2. CASE k # key
      <4>1. pushed[k] # {}
        BY <1>1, <2>7, <3>2
      <4>2. PICK i \in 1..n : trace[i].key = k
        BY <1>0, <4>1
      <4> QED  BY <2>3, <4>2
    <3> QED  BY <3>1, <3>2
  <2> QED  BY <1>1, <2>2, <2>5, <2>6, <2>7 DEF TraceTrue
<1>7. CASE ~ (n > 0 /\ trace[n].key = key)
  <2> HIDE DEF c
  <2>1. trace' = Append(trace, c)
    BY <1>5, <1>7
  <2>2. /\ trace' \in Seq(Checkpoint) /\ DOMAIN trace' = 1..(n + 1) /\ trace'[n + 1] = c
        /\ \A i \in 1..n : trace'[i] = trace[i]
    BY <1>0, <1>2, <2>1
  <2> HIDE DEF n
  <2>3. ASSUME NEW i \in 1..n PROVE trace[i].key < key
    <3>1. trace[i].key <= trace[n].key /\ n \in 1..n /\ n > 0
      BY <1>0
    <3>2. trace[n].key < key
      BY <1>0, <1>4, <1>7, <3>1
    <3> QED  BY <1>0, <3>1, <3>2
  <2>4. ASSUME NEW i \in 1..(n + 1), NEW j \in 1..(n + 1), i < j
        PROVE  trace'[i].key < trace'[j].key
    <3>0. n \in Nat
      BY <1>0
    <3>1. i \in 1..n /\ (j \in 1..n \/ j = n + 1)
      BY <2>4, <3>0
    <3>2. CASE j \in 1..n
      BY <1>0, <2>2, <2>4, <3>1, <3>2
    <3>3. CASE j = n + 1
      BY <1>2, <2>2, <2>3, <3>1, <3>3
    <3> QED  BY <3>1, <3>2, <3>3
  <2>5. ASSUME NEW i \in 1..(n + 1) PROVE pushed'[trace'[i].key] = {trace'[i].value}
    <3>1. CASE i \in 1..n
      <4>1. trace[i].key \in TraceKey /\ trace[i].key # key /\ trace'[i] = trace[i]
        BY <1>0, <2>2, <2>3, <3>1
      <4>2. pushed'[trace[i].key] = pushed[trace[i].key]
        BY <1>1, <4>1
      <4> QED  BY <1>0, <3>1, <4>1, <4>2
    <3>2. CASE i = n + 1
      <4>1. trace'[i] = c
        BY <2>2, <3>2
      <4>2. trace'[i].key = key /\ trace'[i].value = value
        BY <1>2, <4>1
      <4> QED  BY <1>1, <4>2
    <3> QED  BY <1>0, <3>1, <3>2
  <2>6. ASSUME NEW k \in TraceKey, pushed'[k] # {} PROVE \E i \in 1..(n + 1) : trace'[i].key = k
    <3>1. CASE k = key
      BY <1>0, <1>2, <2>2, <3>1
    <3>2. CASE k # key
      <4>1. PICK i \in 1..n : trace[i].key = k
        BY <1>0, <1>1, <2>6, <3>2
      <4> QED  BY <1>0, <2>2, <4>1
    <3> QED  BY <3>1, <3>2
  <2> QED  BY <1>1, <2>2, <2>4, <2>5, <2>6 DEF TraceTrue
<1> QED  BY <1>6, <1>7

\* A lookup begins with bounds that exclude nothing, or what the look near
\* the end excludes.
LEMMA BeginTrue ==
  ASSUME TraceInv, NEW key \in TraceKey, LowerLookup(key) \/ UpperLookup(key) \/ UpperLookupRecent(key)
  PROVE  SearchTrue'
<1> DEFINE n == Len(trace)
<1>0. /\ n \in Nat /\ key \in Nat
      /\ \A i \in 1..n : trace[i].key \in Nat
      /\ \A i, j \in 1..n : i <= j => trace[i].key <= trace[j].key
  BY TraceTypes, TraceAssumption DEF TraceInv
<1>1. ASSUME NEW op \in {"lower", "upper"}, NEW low \in Nat, NEW high \in Nat, low <= high, high <= n,
             \A i \in 1..low : trace[i].key <= key,
             \A i \in (high + 1)..n : trace[i].key > key,
             op = "lower" => low = 0 /\ high = n,
             Begin(op, key, low, high)
      PROVE  SearchTrue'
  <2>1. /\ search' = [op |-> op, key |-> key, low |-> low, high |-> high]
        /\ answer' = NoAnswer /\ trace' = trace
    BY <1>1 DEF Begin
  <2>2. /\ search'.op = op /\ search'.key = key /\ search'.low = low /\ search'.high = high
        /\ search' \in [op : {"lower", "upper"}, key : TraceKey, low : Nat, high : Nat]
    BY <2>1
  <2> QED  BY <1>0, <1>1, <2>1, <2>2 DEF SearchTrue
<1>2. ASSUME NEW low \in Nat, NEW high \in Nat, low <= high, high <= n,
             \A i \in 1..low : trace[i].key <= key,
             \A i \in (high + 1)..n : trace[i].key > key,
             Begin("upper", key, low, high)
      PROVE  SearchTrue'
  <2> HIDE DEF n
  <2> QED  BY <1>1, <1>2
<1>3. CASE LowerLookup(key) \/ UpperLookup(key)
  <2>1. PICK op \in {"lower", "upper"} : Begin(op, key, 0, n)
    BY <1>3 DEF LowerLookup, UpperLookup
  <2>2. 0 <= n /\ 1..0 = {} /\ (n + 1)..n = {}
    BY <1>0
  <2> QED  BY <1>0, <1>1, <2>1, <2>2
<1>4. CASE UpperLookupRecent(key)
  <2>1. CASE n > 5
    <3>1. PICK r \in 1..n : IF key < trace[n - r + 1].key
                            THEN Begin("upper", key, 0, n - r)
                            ELSE Begin("upper", key, n - r + 1, n)
      BY <1>4, <2>1 DEF UpperLookupRecent, UnsafeAccess
    <3> DEFINE near == n - r + 1
    <3>2. /\ near \in 1..n /\ near \in Nat /\ near <= n
          /\ n - r \in Nat /\ n - r <= n /\ (n - r) + 1 = near
      BY <1>0
    <3>3. CASE key < trace[near].key
      <4>1. Begin("upper", key, 0, n - r)
        BY <3>1, <3>3
      <4> HIDE DEF n, near
      <4>2. ASSUME NEW i \in near..n PROVE trace[i].key > key
        <5>1. i \in 1..n /\ near <= i
          BY <1>0, <3>2
        <5>2. trace[near].key <= trace[i].key /\ trace[near].key \in Nat /\ trace[i].key \in Nat
          BY <1>0, <3>2, <5>1
        <5> QED  BY <1>0, <3>3, <5>2
      <4>3. \A i \in ((n - r) + 1)..n : trace[i].key > key
        BY <3>2, <4>2
      <4>4. 0 \in Nat /\ 0 <= n - r /\ 1..0 = {}
        BY <3>2
      <4> QED  BY <1>2, <3>2, <4>1, <4>3, <4>4
    <3>4. CASE ~ (key < trace[near].key)
      <4>1. Begin("upper", key, near, n)
        BY <3>1, <3>4
      <4> HIDE DEF n, near
      <4>2. ASSUME NEW i \in 1..near PROVE trace[i].key <= key
        <5>1. i \in 1..n /\ i <= near
          BY <1>0, <3>2
        <5>2. trace[i].key <= trace[near].key /\ trace[near].key \in Nat /\ trace[i].key \in Nat
          BY <1>0, <3>2, <5>1
        <5> QED  BY <1>0, <3>4, <5>2
      <4>3. (n + 1)..n = {} /\ n <= n
        BY <1>0
      <4> QED  BY <1>0, <1>2, <3>2, <4>1, <4>2, <4>3
    <3> QED  BY <3>3, <3>4
  <2>2. CASE ~ (n > 5)
    <3>1. Begin("upper", key, 0, n)
      BY <1>4, <2>2 DEF UpperLookupRecent
    <3>2. 0 \in Nat /\ 0 <= n /\ n <= n /\ 1..0 = {} /\ (n + 1)..n = {}
      BY <1>0
    <3> QED  BY <1>0, <1>2, <3>1, <3>2
  <2> QED  BY <2>1, <2>2
<1> QED  BY <1>3, <1>4

\* The middle of two bounds lies between them, below the upper one.
LEMMA MiddleBetween ==
  ASSUME NEW l \in Nat, NEW h \in Nat, l < h
  PROVE  /\ (l + h) \div 2 \in Nat
         /\ l <= (l + h) \div 2 /\ (l + h) \div 2 < h
<1> DEFINE n == l + h
<1>1. n \in Nat /\ 2 * l <= n /\ n < 2 * h
  OBVIOUS
<1> HIDE DEF n
<1>2. n \div 2 \in Int /\ 2 * (n \div 2) <= n /\ n < 2 * (n \div 2) + 2
  BY <1>1
<1> DEFINE q == n \div 2
<1>3. q \in Int /\ 2 * q <= n /\ n < 2 * q + 2
  BY <1>2
<1> HIDE DEF q
<1>4. q \in Nat /\ l <= q /\ q < h
  BY <1>1, <1>3
<1> QED  BY <1>4 DEF q, n

\* A turn excludes one side of the middle, rightly.
LEMMA TurnTrue ==
  ASSUME TraceInv, UpperTurn \/ LowerTurn
  PROVE  SearchTrue'
<1> DEFINE mid == Average(search.low, search.high)
           n == Len(trace)
<1>0. /\ n \in Nat
      /\ \A i \in 1..n : trace[i].key \in Nat
      /\ \A i, j \in 1..n : i <= j => trace[i].key <= trace[j].key
  BY TraceTypes DEF TraceInv
<1>1. /\ search.op \in {"lower", "upper"} /\ search.op # "none"
      /\ search \in [op : {"lower", "upper"}, key : TraceKey, low : Nat, high : Nat]
      /\ search.low < search.high /\ search.high <= n
      /\ answer = NoAnswer /\ answer' = answer /\ trace' = trace
  BY DEF UpperTurn, LowerTurn, TraceInv, SearchTrue
<1>2. search.low \in Nat /\ search.high \in Nat /\ search.key \in TraceKey /\ search.key \in Nat
  BY <1>1, TraceAssumption
<1>3. mid \in Nat /\ search.low <= mid /\ mid < search.high
  BY <1>1, <1>2, MiddleBetween DEF Average
<1> HIDE DEF mid
<1>4. mid + 1 \in 1..n
  BY <1>0, <1>1, <1>2, <1>3
<1>5. ASSUME search' = [search EXCEPT !.high = mid]
      PROVE  /\ search'.op = search.op /\ search'.key = search.key
             /\ search'.low = search.low /\ search'.high = mid
             /\ search' \in [op : {"lower", "upper"}, key : TraceKey, low : Nat, high : Nat]
  BY <1>1, <1>3, <1>5
<1>6. ASSUME search' = [search EXCEPT !.low = mid + 1]
      PROVE  /\ search'.op = search.op /\ search'.key = search.key
             /\ search'.low = mid + 1 /\ search'.high = search.high
             /\ search' \in [op : {"lower", "upper"}, key : TraceKey, low : Nat, high : Nat]
  BY <1>1, <1>3, <1>6
<1>7. CASE UpperTurn
  <2>0. /\ search.op = "upper"
        /\ \A i \in 1..search.low : trace[i].key <= search.key
        /\ \A i \in (search.high + 1)..n : trace[i].key > search.key
    BY <1>7 DEF UpperTurn, TraceInv, SearchTrue
  <2>1. CASE trace[mid + 1].key > search.key
    <3>1. search' = [search EXCEPT !.high = mid]
      BY <1>7, <2>1 DEF UpperTurn, GoesLeft, UnsafeAccess, mid
    <3>2. \A i \in (mid + 1)..n : trace[i].key > search.key
      BY <1>0, <1>2, <1>3, <1>4, <2>1
    <3> QED  BY <1>0, <1>1, <1>2, <1>3, <1>5, <2>0, <3>1, <3>2 DEF SearchTrue
  <2>2. CASE ~ (trace[mid + 1].key > search.key)
    <3>1. search' = [search EXCEPT !.low = mid + 1]
      BY <1>7, <2>2 DEF UpperTurn, GoesLeft, UnsafeAccess, mid
    <3>2. \A i \in 1..(mid + 1) : trace[i].key <= search.key
      BY <1>0, <1>2, <1>3, <1>4, <2>2
    <3> QED  BY <1>0, <1>1, <1>2, <1>3, <1>6, <2>0, <3>1, <3>2 DEF SearchTrue
  <2> QED  BY <2>1, <2>2
<1>8. CASE LowerTurn
  <2>0. /\ search.op = "lower"
        /\ \A i \in 1..search.low : trace[i].key < search.key
        /\ \A i \in (search.high + 1)..n : trace[i].key >= search.key
    BY <1>8 DEF LowerTurn, TraceInv, SearchTrue
  <2>1. CASE trace[mid + 1].key < search.key
    <3>1. search' = [search EXCEPT !.low = mid + 1]
      BY <1>8, <2>1 DEF LowerTurn, UnsafeAccess, mid
    <3>2. \A i \in 1..(mid + 1) : trace[i].key < search.key
      BY <1>0, <1>2, <1>3, <1>4, <2>1
    <3> QED  BY <1>0, <1>1, <1>2, <1>3, <1>6, <2>0, <3>1, <3>2 DEF SearchTrue
  <2>2. CASE ~ (trace[mid + 1].key < search.key)
    <3>1. search' = [search EXCEPT !.high = mid]
      BY <1>8, <2>2 DEF LowerTurn, UnsafeAccess, mid
    <3>2. \A i \in (mid + 1)..n : trace[i].key >= search.key
      BY <1>0, <1>2, <1>3, <1>4, <2>2
    <3> QED  BY <1>0, <1>1, <1>2, <1>3, <1>5, <2>0, <3>1, <3>2 DEF SearchTrue
  <2> QED  BY <2>1, <2>2
<1> QED  BY <1>7, <1>8

LEMMA TraceStep == ASSUME TraceInv, [NextTrace]_traceVars PROVE TraceInv'
<1>1. CASE UNCHANGED <<trace, pushed, search>> /\ search.op = "none"
  BY <1>1 DEF TraceInv, TraceTrue, SearchTrue
<1>2. CASE UNCHANGED traceVars
  BY <1>2 DEF TraceInv, TraceTrue, SearchTrue, traceVars
<1>3. ASSUME NEW key \in TraceKey, NEW value \in TraceValue, TracePush(key, value) PROVE TraceInv'
  <2>1. search' = search /\ search = NoSearch
    BY <1>3 DEF TracePush
  <2> QED  BY <1>3, <2>1, PushTrue DEF TraceInv, SearchTrue, NoSearch
<1>4. ASSUME UNCHANGED <<trace, pushed>>, SearchTrue' PROVE TraceInv'
  BY <1>4 DEF TraceInv, TraceTrue
<1>5. ASSUME NEW key \in TraceKey, LowerLookup(key) \/ UpperLookup(key) \/ UpperLookupRecent(key)
      PROVE  TraceInv'
  BY <1>4, <1>5, BeginTrue DEF LowerLookup, UpperLookup, UpperLookupRecent, Begin
<1>6. CASE UpperTurn \/ LowerTurn
  BY <1>4, <1>6, TurnTrue DEF UpperTurn, LowerTurn
<1>7. CASE UpperFound \/ LowerFound
  <2>1. UNCHANGED <<trace, pushed>> /\ search' = NoSearch
    BY <1>7 DEF UpperFound, LowerFound
  <2> QED  BY <1>4, <2>1 DEF SearchTrue, NoSearch
<1>8. ASSUME NEW pos, Latest \/ TraceAt(pos) PROVE TraceInv'
  <2>1. UNCHANGED <<trace, pushed, search>> /\ search = NoSearch
    BY <1>8 DEF Latest, TraceAt
  <2>2. search.op = "none"
    BY <2>1 DEF NoSearch
  <2> QED  BY <1>1, <2>1, <2>2
<1> QED  BY <1>2, <1>3, <1>5, <1>6, <1>7, <1>8 DEF NextTrace

LEMMA TraceHolds == TraceSpec => []TraceInv
<1>1. ASSUME InitTrace PROVE TraceInv
  <2>1. trace \in Seq(Checkpoint) /\ DOMAIN trace = {} /\ search = NoSearch
    BY <1>1 DEF InitTrace
  <2>2. pushed \in [TraceKey -> SUBSET TraceValue] /\ \A k \in TraceKey : pushed[k] = {}
    BY <1>1 DEF InitTrace
  <2> QED  BY <2>1, <2>2 DEF TraceInv, TraceTrue, SearchTrue, NoSearch
<1> QED  BY <1>1, TraceStep, PTL DEF TraceSpec

----------------------------------------------------------------------------
\* The keys under which something was pushed are those of the checkpoints.
LEMMA KnownIs ==
  ASSUME TraceTrue
  PROVE  /\ Known = {trace[i].key : i \in 1..Len(trace)}
         /\ \A i \in 1..Len(trace) : trace[i].key \in Known /\ trace[i].value \in pushed[trace[i].key]
<1> DEFINE K == {trace[i].key : i \in 1..Len(trace)}
<1>1. \A i \in 1..Len(trace) : trace[i].key \in Known /\ trace[i].value \in pushed[trace[i].key]
  BY TraceTypes DEF TraceTrue, Known
<1>2. \A k \in Known : k \in K
  BY TraceTypes DEF TraceTrue, Known
<1>3. \A k \in K : k \in Known
  BY <1>1
<1> QED  BY <1>1, <1>2, <1>3

\* The last of the first n checkpoints has the greatest of their keys, the
\* first of the others the least.
LEMMA AtTheEdge ==
  ASSUME TraceTrue, NEW n \in 0..Len(trace), NEW K, NEW a
  PROVE  /\ K = {trace[i].key : i \in 1..n} =>
              /\ n = 0 => K = {}
              /\ n > 0 /\ a.result = trace[n].value => GreatestOf(K, a)
         /\ K = {trace[i].key : i \in (n + 1)..Len(trace)} =>
              /\ n = Len(trace) => K = {}
              /\ n < Len(trace) /\ a.result = trace[n + 1].value => LeastOf(K, a)
<1>0. /\ Len(trace) \in Nat
      /\ \A i \in 1..Len(trace) : trace[i].key \in Nat
      /\ \A i, j \in 1..Len(trace) : i <= j => trace[i].key <= trace[j].key
      /\ \A i \in 1..Len(trace) : trace[i].value \in pushed[trace[i].key]
  BY TraceTypes, KnownIs
<1>1. ASSUME K = {trace[i].key : i \in 1..n}, n > 0, a.result = trace[n].value
      PROVE  GreatestOf(K, a)
  <2>1. n \in 1..n /\ n \in 1..Len(trace)
    BY <1>0, <1>1
  <2>2. trace[n].key \in K /\ a.result \in pushed[trace[n].key]
    BY <1>0, <1>1, <2>1
  <2>3. \A i \in 1..n : trace[i].key <= trace[n].key
    BY <1>0, <2>1
  <2>4. \A j \in K : j <= trace[n].key
    BY <1>1, <2>3
  <2> QED  BY <2>2, <2>4 DEF GreatestOf
<1>2. ASSUME K = {trace[i].key : i \in (n + 1)..Len(trace)}, n < Len(trace),
             a.result = trace[n + 1].value
      PROVE  LeastOf(K, a)
  <2> DEFINE m == n + 1
  <2>1. m \in m..Len(trace) /\ m \in 1..Len(trace) /\ \A i \in m..Len(trace) : i \in 1..Len(trace) /\ m <= i
    BY <1>0, <1>2
  <2>2. trace[m].key \in K /\ a.result \in pushed[trace[m].key]
    BY <1>0, <1>2, <2>1
  <2>3. \A i \in m..Len(trace) : trace[m].key <= trace[i].key
    BY <1>0, <2>1
  <2>4. \A j \in K : trace[m].key <= j
    BY <1>2, <2>3
  <2> QED  BY <2>2, <2>4 DEF LeastOf
<1> QED  BY <1>0, <1>1, <1>2

\* Every answer is that of the whole history, of any length and however it is
\* searched (Checkpoints.js 52-119, 139-215).
THEOREM LookupsAreRight == TraceSpec => LookupsRight
<1> DEFINE Right ==
      LET a     == answer'
          upTo  == {k \in Known : k <= a.key}
          since == {k \in Known : k >= a.key}
      IN  /\ a.op = "upper"  => GreatestOf(upTo, a) \/ IsNothing(upTo, a)
          /\ a.op = "lower"  => LeastOf(since, a) \/ IsNothing(since, a)
          /\ a.op = "latest" => GreatestOf(Known, a) \/ IsNothing(Known, a)
          /\ a.op = "at"     => a.key \in Known /\ a.result \in pushed[a.key]
          /\ a.op = "push"   => GreatestOf(Known, a) \/ (Known = {} /\ a.result = 0)
<1>1. ASSUME TraceInv, NextTrace PROVE Right
  <2> DEFINE n == Len(trace)
             a == answer'
  <2>0. /\ TraceTrue /\ n \in Nat /\ Known = {trace[i].key : i \in 1..n}
        /\ \A i \in 1..n : /\ trace[i].key \in Known /\ trace[i].value \in pushed[trace[i].key]
                           /\ trace[i].key \in Nat
    BY <1>1, KnownIs, TraceTypes DEF TraceInv
  <2>1. IF n = 0 THEN Known = {}
        ELSE a.result = LastValue => GreatestOf(Known, a)
    <3>1. CASE n = 0
      BY <2>0, <3>1
    <3>2. CASE n # 0
      <4>1. LastValue = trace[n].value
        <5>1. n - 1 + 1 = n
          BY <2>0
        <5> QED  BY <5>1 DEF LastValue, UnsafeAccess
      <4> QED  BY <2>0, <3>2, <4>1, AtTheEdge
    <3> QED  BY <3>1, <3>2
  <2>2. ASSUME NEW key \in TraceKey, NEW value \in TraceValue, TracePush(key, value) PROVE Right
    <3>1. a.op = "push" /\ a.result = IF n > 0 THEN LastValue ELSE 0
      BY <2>2 DEF TracePush, Answer
    <3> QED  BY <2>0, <2>1, <3>1
  <2>3. ASSUME answer' = NoAnswer PROVE Right
    BY <2>3 DEF NoAnswer
  <2>4. ASSUME NEW key \in TraceKey, LowerLookup(key) \/ UpperLookup(key) \/ UpperLookupRecent(key)
        PROVE  Right
    BY <2>3, <2>4 DEF LowerLookup, UpperLookup, UpperLookupRecent, Begin
  <2>5. CASE UpperTurn \/ LowerTurn
    <3>1. answer' = NoAnswer
      BY <1>1, <2>5 DEF UpperTurn, LowerTurn, TraceInv, SearchTrue
    <3> QED  BY <2>3, <3>1
  <2>6. CASE UpperFound \/ LowerFound
    <3> DEFINE pos == search.high
    <3>1. /\ search \in [op : {"lower", "upper"}, key : TraceKey, low : Nat, high : Nat]
          /\ search.low <= search.high /\ search.high <= n /\ search.low >= search.high
      BY <1>1, <2>6 DEF UpperFound, LowerFound, TraceInv, SearchTrue
    <3>2. pos \in 0..n /\ search.low = pos /\ search.key \in Nat
      <4>1. search.low \in Nat /\ search.high \in Nat /\ search.key \in TraceKey
        BY <3>1
      <4>2. n \in Nat /\ search.low <= search.high /\ search.high <= n /\ search.low >= search.high
        BY <2>0, <3>1
      <4> HIDE DEF n
      <4>3. search.key \in Nat
        BY <4>1, TraceAssumption
      <4>4. search.high \in 0..n /\ search.low = search.high
        BY <4>1, <4>2
      <4> QED  BY <4>3, <4>4
    <3>3. CASE UpperFound
      <4>1. /\ a.op = "upper" /\ a.key = search.key /\ a.exists = (pos # 0)
            /\ a.result = IF pos = 0 THEN 0 ELSE trace[pos - 1 + 1].value
        BY <3>3 DEF UpperFound, Answer, UnsafeAccess
      <4>2. /\ \A i \in 1..pos : trace[i].key <= search.key
            /\ \A i \in (pos + 1)..n : trace[i].key > search.key
        BY <1>1, <3>2, <3>3 DEF UpperFound, TraceInv, SearchTrue
      <4> HIDE DEF pos, a, n
      <4>3. {k \in Known : k <= a.key} = {trace[i].key : i \in 1..pos}
        BY <2>0, <3>2, <4>1, <4>2
      <4>4. CASE pos = 0
        <5>1. {k \in Known : k <= a.key} = {}
          BY <4>3, <4>4
        <5> QED  BY <4>1, <4>4, <5>1 DEF IsNothing, a
      <4>5. CASE pos # 0
        <5>1. a.result = trace[pos].value /\ pos > 0 /\ pos \in 0..Len(trace)
          BY <2>0, <3>2, <4>1, <4>5 DEF n
        <5>2. GreatestOf({k \in Known : k <= a.key}, a)
          BY <2>0, <4>3, <5>1, AtTheEdge
        <5> QED  BY <4>1, <5>2 DEF a
      <4> QED  BY <4>4, <4>5
    <3>4. CASE LowerFound
      <4>1. /\ a.op = "lower" /\ a.key = search.key /\ a.exists = (pos # n)
            /\ a.result = IF pos = n THEN 0 ELSE trace[pos + 1].value
        BY <3>4 DEF LowerFound, Answer, UnsafeAccess
      <4>2. /\ \A i \in 1..pos : trace[i].key < search.key
            /\ \A i \in (pos + 1)..n : trace[i].key >= search.key
        BY <1>1, <3>2, <3>4 DEF LowerFound, TraceInv, SearchTrue
      <4> HIDE DEF pos, a, n
      <4>3. {k \in Known : k >= a.key} = {trace[i].key : i \in (pos + 1)..n}
        BY <2>0, <3>2, <4>1, <4>2
      <4>4. CASE pos = n
        <5>1. {k \in Known : k >= a.key} = {}
          BY <2>0, <4>3, <4>4
        <5> QED  BY <4>1, <4>4, <5>1 DEF IsNothing, a
      <4>5. CASE pos # n
        <5>1. a.result = trace[pos + 1].value /\ pos < n /\ pos \in 0..n
          BY <2>0, <3>2, <4>1, <4>5
        <5>2. LeastOf({k \in Known : k >= a.key}, a)
          BY <2>0, <4>3, <5>1, AtTheEdge DEF n
        <5> QED  BY <4>1, <5>2 DEF a
      <4> QED  BY <4>4, <4>5
    <3> QED  BY <2>6, <3>3, <3>4
  <2>7. CASE Latest
    <3>1. CASE n = 0
      <4>1. a = [op |-> "latest", key |-> 0, exists |-> FALSE, result |-> 0]
        BY <2>7, <3>1 DEF Latest, Answer
      <4>2. a.op = "latest" /\ IsNothing(Known, a)
        BY <2>1, <3>1, <4>1 DEF IsNothing
      <4> QED  BY <4>2
    <3>2. CASE n # 0
      <4>1. a.op = "latest" /\ a.result = LastValue
        BY <2>7, <3>2 DEF Latest, Answer
      <4> QED  BY <2>1, <3>2, <4>1
    <3> QED  BY <3>1, <3>2
  <2>8. ASSUME NEW pos \in 0..(MaxTrace - 1), TraceAt(pos) PROVE Right
    <3>1. pos + 1 \in 1..n
      BY <2>0, <2>8 DEF TraceAt
    <3>2. a.op = "at" /\ a.key = trace[pos + 1].key /\ a.result = trace[pos + 1].value
      BY <2>8 DEF TraceAt, Answer, UnsafeAccess
    <3> QED  BY <2>0, <3>1, <3>2
  <2> QED  BY <1>1, <2>2, <2>4, <2>5, <2>6, <2>7, <2>8 DEF NextTrace
<1>2. TraceInv /\ [NextTrace]_traceVars => [Right]_traceVars
  BY <1>1
<1> QED  BY <1>2, TraceHolds, PTL DEF TraceSpec, LookupsRight

----------------------------------------------------------------------------
(* The arrays. *)

\* A record with a call's fields.
IsCall(c) ==
  c \in [op : {c.op}, asc : {c.asc}, stack : {c.stack}, pivot : {c.pivot}, pos : {c.pos},
         it : {c.it}, element : {c.element}, low : {c.low}, high : {c.high},
         args : {c.args}, done : {c.done}]

\* A stretch of memory that holds an array, with room for its words only.
IsArray(m) ==
  /\ m[0] \in Nat
  /\ DOMAIN m = 0..m[0]
  /\ \A i \in 1..m[0] : m[i] \in Word

LEMMA ArraysAre == ASSUME NEW n \in Nat, NEW m \in ArraysUpTo(n) PROVE IsArray(m)
<1>1. PICK k \in 0..n : m \in {[i \in 0..k |-> IF i = 0 THEN k ELSE f[i]] : f \in [1..k -> Word]}
  BY DEF ArraysUpTo
<1>2. PICK f \in [1..k -> Word] : m = [i \in 0..k |-> IF i = 0 THEN k ELSE f[i]]
  BY <1>1
<1>3. k \in Nat /\ DOMAIN m = 0..k /\ m[0] = k /\ \A i \in 1..k : m[i] = f[i]
  BY <1>2
<1> QED  BY <1>2, <1>3 DEF IsArray

\* What a caller passes is an array.
LEMMA InputsAre ==
  ASSUME NEW m, m \in LongArrays \/ m \in ShortArrays
  PROVE  IsArray(m) /\ Size(m) \in Nat
BY ArraysAre, ArraysAssumption DEF LongArrays, ShortArrays, IsArray, Size

\* The steps, by what they may do to a call.
LEMMA CallSteps ==
  ASSUME NextArrays
  PROVE  \/ \E m \in LongArrays, asc \in BOOLEAN : Sort(m, asc)
         \/ \E m \in LongArrays, op \in SearchOps, element \in Word : Search(op, m, element)
         \/ \E m \in ShortArrays, start, end \in Nat : Slice(m, start, end) \/ Splice(m, start, end)
         \/ SkipSegment \/ Partition \/ PartitionTurn \/ PartitionEnd \/ SortDone
         \/ FindUpperBound \/ LowerBound \/ UpperBound \/ LowerBoundMemory \/ UpperBoundMemory
<1>1. CASE Calls
  <2>1. PICK m \in LongArrays \cup ShortArrays :
          \/ m \in LongArrays /\ \E asc \in BOOLEAN : Sort(m, asc)
          \/ m \in LongArrays /\ \E op \in SearchOps, element \in Word : Search(op, m, element)
          \/ /\ m \in ShortArrays
             /\ \E start, end \in 0..(MaxCopy + 1) : Slice(m, start, end) \/ Splice(m, start, end)
    BY <1>1 DEF Calls
  <2>2. \A n \in 0..(MaxCopy + 1) : n \in Nat
    BY ArraysAssumption
  <2> QED  BY <2>1, <2>2
<1> QED  BY <1>1 DEF NextArrays

LEMMA CallKept == ASSUME IsCall(call), [NextArrays]_arrayVars PROVE IsCall(call')
<1>1. CASE UNCHANGED arrayVars
  BY <1>1 DEF arrayVars
<1>2. ASSUME NEW c, IsCall(c), NEW op, NEW stack, NEW pivot, NEW pos, NEW it, NEW low, NEW high
      PROVE  /\ IsCall([c EXCEPT !.done = TRUE])
             /\ IsCall([c EXCEPT !.stack = stack])
             /\ IsCall([c EXCEPT !.op = op, !.stack = stack])
             /\ IsCall([c EXCEPT !.op = op, !.pivot = pivot, !.pos = pos, !.it = it])
             /\ IsCall([c EXCEPT !.pos = pos, !.it = it])
             /\ IsCall([c EXCEPT !.low = low])
             /\ IsCall([c EXCEPT !.high = high])
             /\ IsCall([c EXCEPT !.low = low, !.done = TRUE])
  <2>1. /\ IsCall([c EXCEPT !.done = TRUE])
        /\ IsCall([c EXCEPT !.stack = stack])
        /\ IsCall([c EXCEPT !.low = low])
        /\ IsCall([c EXCEPT !.high = high])
    BY <1>2 DEF IsCall
  <2>2. /\ IsCall([c EXCEPT !.op = op, !.stack = stack])
        /\ IsCall([c EXCEPT !.pos = pos, !.it = it])
        /\ IsCall([c EXCEPT !.low = low, !.done = TRUE])
    BY <1>2 DEF IsCall
  <2>3. IsCall([c EXCEPT !.op = op, !.pivot = pivot, !.pos = pos, !.it = it])
    BY <1>2 DEF IsCall
  <2> QED  BY <2>1, <2>2, <2>3
<1>4. ASSUME NEW m, NEW asc, Sort(m, asc) PROVE IsCall(call')
  BY <1>4 DEF Sort, Starts, IsCall, Ready
<1>5. ASSUME NEW m, NEW op, NEW element, Search(op, m, element) PROVE IsCall(call')
  BY <1>5 DEF Search, Starts, IsCall, Ready
<1>6. ASSUME NEW m, NEW start, NEW end, Slice(m, start, end) \/ Splice(m, start, end)
      PROVE  IsCall(call')
  BY <1>6 DEF Slice, Splice, IsCall, Ready
<1>8. CASE SkipSegment \/ Partition \/ PartitionTurn \/ PartitionEnd \/ SortDone
  <2>1. CASE SkipSegment
    BY <1>2, <2>1 DEF SkipSegment
  <2>2. CASE Partition
    BY <1>2, <2>2 DEF Partition
  <2>3. CASE PartitionTurn
    BY <1>2, <2>3 DEF PartitionTurn
  <2>4. CASE PartitionEnd
    BY <1>2, <2>4 DEF PartitionEnd
  <2>5. CASE SortDone
    BY <1>2, <2>5 DEF SortDone
  <2> QED  BY <1>8, <2>1, <2>2, <2>3, <2>4, <2>5
<1>9. ASSUME NEW op, NEW left, NEW result, Looks(op, left, result) PROVE IsCall(call')
  BY <1>2, <1>9 DEF Looks
<1>10. CASE FindUpperBound \/ LowerBound \/ UpperBound \/ LowerBoundMemory \/ UpperBoundMemory
  BY <1>9, <1>10 DEF FindUpperBound, LowerBound, UpperBound, LowerBoundMemory, UpperBoundMemory
<1> QED  BY <1>1, <1>4, <1>5, <1>6, <1>8, <1>10, CallSteps

----------------------------------------------------------------------------
(* The searches. *)

\* Whether a search goes on to the right of a word.
GoesRight(w) ==
  IF call.op \in {"findUpperBound", "upperBound", "upperBoundMemory"}
  THEN w <= call.element ELSE w < call.element

\* What a search has excluded: the words before low are to its left, those
\* from high on are to its right.
SearchInv ==
  call.op \in SearchOps =>
    /\ IsArray(mem) /\ Ascending(mem)
    /\ call.op = "findUpperBound" => Distinct(mem)
    /\ call.element \in Nat /\ call.low \in Nat /\ call.high \in Nat
    /\ ~ call.done =>
         /\ call.low <= call.high /\ call.high <= Size(mem)
         /\ \A i \in Positions(mem) : i < call.low => GoesRight(mem[i + 1])
         /\ \A i \in Positions(mem) : i >= call.high => ~ GoesRight(mem[i + 1])

\* The words of an array, by position, ascend.
LEMMA WordsAre ==
  ASSUME NEW m, IsArray(m)
  PROVE  /\ Size(m) \in Nat /\ Positions(m) = 0..(Size(m) - 1) /\ DOMAIN m = 0..Size(m)
         /\ \A i \in Positions(m) : /\ i \in Nat /\ i + 1 \in DOMAIN m
                                    /\ m[i + 1] \in Word /\ m[i + 1] \in Nat
         /\ Ascending(m) => \A i, j \in Positions(m) : i <= j => m[i + 1] <= m[j + 1]
<1>1. /\ Size(m) \in Nat /\ Positions(m) = 0..(Size(m) - 1) /\ DOMAIN m = 0..Size(m)
      /\ \A i \in 1..Size(m) : m[i] \in Word
  BY DEF IsArray, Size, Positions
<1>2. ASSUME NEW i \in Positions(m)
      PROVE  i \in Nat /\ i + 1 \in DOMAIN m /\ m[i + 1] \in Word /\ m[i + 1] \in Nat
  <2>1. i \in Nat /\ i + 1 \in 1..Size(m) /\ i + 1 \in 0..Size(m)
    BY <1>1
  <2> QED  BY <1>1, <2>1, ArraysAssumption
<1>3. ASSUME Ascending(m), NEW i \in Positions(m), NEW j \in Positions(m), i <= j
      PROVE  m[i + 1] <= m[j + 1]
  <2>1. i = j \/ i < j
    BY <1>2, <1>3
  <2>2. CASE i = j
    BY <1>2, <2>2
  <2>3. CASE i < j
    BY <1>3, <2>3 DEF Ascending, UnsafeRead
  <2> QED  BY <2>1, <2>2, <2>3
<1> QED  BY <1>1, <1>2, <1>3

\* One turn of a search in the direction of GoesRight, or its end.
Goes(op, result) ==
  /\ call.op = op /\ ~ call.done /\ mem' = mem
  /\ call.low >= call.high => call' = [call EXCEPT !.low = result, !.done = TRUE]
  /\ call.low < call.high =>
       /\ ~ GoesRight(MidWord) => call' = [call EXCEPT !.high = Middle]
       /\ GoesRight(MidWord) => call' = [call EXCEPT !.low = Middle + 1]

LEMMA GoesOn ==
  ASSUME IsCall(call), SearchInv, NEW op \in SearchOps, NEW result, Goes(op, result),
         call.low = call.high =>
           Splits(result, IF op \in {"upperBound", "upperBoundMemory"} THEN NotOver ELSE Below),
         result \in Nat
  PROVE  SearchInv' /\ SearchRight'
<1> DEFINE l   == call.low
           h   == call.high
           mid == Middle
<1>0. /\ call.op = op /\ ~ call.done /\ call.op \in SearchOps
      /\ l >= h => call' = [call EXCEPT !.low = result, !.done = TRUE]
      /\ l < h => /\ ~ GoesRight(MidWord) => call' = [call EXCEPT !.high = mid]
                  /\ GoesRight(MidWord) => call' = [call EXCEPT !.low = mid + 1]
      /\ mem' = mem
  BY DEF Goes
<1>1. /\ IsArray(mem) /\ Ascending(mem)
      /\ op = "findUpperBound" => Distinct(mem)
      /\ call.element \in Nat /\ l \in Nat /\ h \in Nat
      /\ l <= h /\ h <= Size(mem)
      /\ \A i \in Positions(mem) : i < l => GoesRight(mem[i + 1])
      /\ \A i \in Positions(mem) : i >= h => ~ GoesRight(mem[i + 1])
  BY <1>0 DEF SearchInv
<1>2. /\ Size(mem) \in Nat /\ Positions(mem) = 0..(Size(mem) - 1)
      /\ \A i \in Positions(mem) : i \in Nat /\ mem[i + 1] \in Nat
      /\ \A i, j \in Positions(mem) : i <= j => mem[i + 1] <= mem[j + 1]
  <2>1. IsArray(mem) /\ Ascending(mem)
    BY <1>1
  <2> QED  BY <2>1, WordsAre
<1>3. ASSUME l >= h PROVE SearchInv' /\ SearchRight'
  <2>1. call' = [call EXCEPT !.low = result, !.done = TRUE] /\ l = h
    BY <1>0, <1>1, <1>3
  <2>2. /\ call'.op = op /\ call'.element = call.element /\ call'.low = result
        /\ call'.high = h /\ call'.done = TRUE
    BY <1>0, <2>1 DEF IsCall
  <2>3. SearchInv'
    BY <1>0, <1>1, <2>2 DEF SearchInv, Distinct, Ascending, Positions, Size, UnsafeRead, IsArray
  <2>4. Below' = Below /\ NotOver' = NotOver
    BY <1>0, <2>2 DEF Below, NotOver, Positions, Size, UnsafeRead
  <2>5. Splits(result, IF op \in {"upperBound", "upperBoundMemory"} THEN NotOver ELSE Below)
    BY <2>1
  <2>6. CASE op \in {"upperBound", "upperBoundMemory"}
    <3>1. Splits(result, NotOver) /\ op \notin {"lowerBound", "lowerBoundMemory", "findUpperBound"}
      BY <2>5, <2>6
    <3>2. Splits(call.low, NotOver)'
      BY <1>0, <2>2, <2>4, <3>1 DEF Splits, Positions, Size
    <3> QED  BY <2>2, <2>3, <3>1, <3>2 DEF SearchRight, Returned
  <2>7. CASE op \notin {"upperBound", "upperBoundMemory"}
    <3>1. Splits(result, Below)
      BY <2>5, <2>7
    <3>2. Splits(call.low, Below)'
      BY <1>0, <2>2, <2>4, <3>1 DEF Splits, Positions, Size
    <3> QED  BY <2>2, <2>3, <2>7, <3>2 DEF SearchRight, Returned
  <2> QED  BY <2>3, <2>6, <2>7
<1>4. ASSUME ~ (l >= h) PROVE SearchInv' /\ SearchRight'
  <2>1. /\ mid \in Nat /\ l <= mid /\ mid < h /\ l < h
        /\ MidWord = mem[mid + 1]
    BY <1>1, <1>4, MiddleBetween DEF Middle, MidWord, UnsafeRead
  <2> HIDE DEF mid
  <2>2. mid \in Positions(mem)
    BY <1>1, <1>2, <2>1
  <2>3. ASSUME NEW v \in Nat, NEW w \in Nat, v <= w
        PROVE  GoesRight(w) => GoesRight(v)
    <3>1. GoesRight(w) => w <= call.element
      BY <1>1, <2>3 DEF GoesRight
    <3>2. CASE v = w
      BY <3>2
    <3>3. CASE v < w
      BY <1>1, <2>3, <3>1, <3>3 DEF GoesRight
    <3> QED  BY <2>3, <3>2, <3>3
  <2>4. CASE ~ GoesRight(mem[mid + 1])
    <3>1. call' = [call EXCEPT !.high = mid]
      BY <1>0, <2>1, <2>4
    <3>2. /\ call'.op = op /\ call'.element = call.element /\ call'.low = l
          /\ call'.high = mid /\ call'.done = call.done
      BY <1>0, <3>1 DEF IsCall
    <3>3. \A i \in Positions(mem) : i >= mid => ~ GoesRight(mem[i + 1])
      <4>1. ASSUME NEW i \in Positions(mem), i >= mid PROVE ~ GoesRight(mem[i + 1])
        <5>1. /\ mem[i + 1] \in Nat /\ mem[mid + 1] \in Nat /\ mem[mid + 1] <= mem[i + 1]
              /\ call.element \in Nat /\ ~ GoesRight(mem[mid + 1])
          BY <1>1, <1>2, <2>1, <2>2, <2>4, <4>1
        <5> QED  BY <2>3, <5>1
      <4> QED  BY <4>1
    <3>4. \A w : GoesRight(w)' = GoesRight(w)
      BY <1>0, <3>2 DEF GoesRight
    <3>5. mid <= Size(mem)
      BY <1>1, <1>2, <2>1
    <3>6. SearchInv'
      BY <1>0, <1>1, <2>1, <3>2, <3>3, <3>4, <3>5
         DEF SearchInv, Distinct, Ascending, Positions, Size, UnsafeRead, IsArray
    <3> QED  BY <1>0, <3>2, <3>6 DEF SearchRight, Returned
  <2>5. CASE GoesRight(mem[mid + 1])
    <3>1. call' = [call EXCEPT !.low = mid + 1]
      BY <1>0, <2>1, <2>5
    <3>2. /\ call'.op = op /\ call'.element = call.element /\ call'.low = mid + 1
          /\ call'.high = h /\ call'.done = call.done
      BY <1>0, <3>1 DEF IsCall
    <3>3. \A i \in Positions(mem) : i < mid + 1 => GoesRight(mem[i + 1])
      <4>1. ASSUME NEW i \in Positions(mem), i < mid + 1 PROVE GoesRight(mem[i + 1])
        <5>0. i <= mid
          BY <1>2, <2>1, <4>1
        <5>1. /\ mem[i + 1] \in Nat /\ mem[mid + 1] \in Nat /\ mem[i + 1] <= mem[mid + 1]
              /\ call.element \in Nat /\ GoesRight(mem[mid + 1])
          BY <1>1, <1>2, <2>1, <2>2, <2>5, <5>0
        <5> QED  BY <2>3, <5>1
      <4> QED  BY <4>1
    <3>4. \A w : GoesRight(w)' = GoesRight(w)
      BY <1>0, <3>2 DEF GoesRight
    <3>5. mid + 1 <= h /\ mid + 1 \in Nat
      BY <1>1, <2>1
    <3>6. SearchInv'
      BY <1>0, <1>1, <2>1, <3>2, <3>3, <3>4, <3>5
         DEF SearchInv, Distinct, Ascending, Positions, Size, UnsafeRead, IsArray
    <3> QED  BY <1>0, <3>2, <3>6 DEF SearchRight, Returned
  <2> QED  BY <2>4, <2>5
<1> QED  BY <1>3, <1>4

\* What the five loops and their ends return.
LEMMA SearchesRight ==
  ASSUME IsCall(call), SearchInv,
         FindUpperBound \/ LowerBound \/ UpperBound \/ LowerBoundMemory \/ UpperBoundMemory
  PROVE  SearchInv' /\ SearchRight'
<1> DEFINE l == call.low
           at == IF l > 0 /\ UnsafeRead(mem, l - 1) = call.element THEN l - 1 ELSE l
<1>0. call.op \in SearchOps /\ ~ call.done
  BY DEF FindUpperBound, LowerBound, UpperBound, LowerBoundMemory, UpperBoundMemory, Looks, SearchOps
<1>1. /\ IsArray(mem) /\ Ascending(mem)
      /\ call.op = "findUpperBound" => Distinct(mem)
      /\ call.element \in Nat /\ l \in Nat /\ call.high \in Nat
      /\ l <= call.high /\ call.high <= Size(mem)
      /\ \A i \in Positions(mem) : i < l => GoesRight(mem[i + 1])
      /\ \A i \in Positions(mem) : i >= call.high => ~ GoesRight(mem[i + 1])
  BY <1>0 DEF SearchInv
<1>2. /\ Size(mem) \in Nat /\ Positions(mem) = 0..(Size(mem) - 1)
      /\ \A i \in Positions(mem) : i \in Nat /\ mem[i + 1] \in Nat
      /\ \A i, j \in Positions(mem) : i <= j => mem[i + 1] <= mem[j + 1]
  <2>1. IsArray(mem) /\ Ascending(mem)
    BY <1>1
  <2> QED  BY <2>1, WordsAre
<1>3. call.low < call.high => MidWord \in Nat
  <2>1. ASSUME call.low < call.high PROVE Middle \in Positions(mem)
    <3>1. Middle \in Nat /\ Middle < call.high
      BY <1>1, <2>1, MiddleBetween DEF Middle
    <3> QED  BY <1>1, <1>2, <3>1
  <2> QED  BY <1>2, <2>1 DEF MidWord, UnsafeRead
<1>4. ASSUME call.op \in {"upperBound", "upperBoundMemory"}
      PROVE  /\ \A w : GoesRight(w) <=> (w <= call.element)
             /\ call.low = call.high => Splits(call.low, NotOver)
  <2>1. \A w : GoesRight(w) <=> (w <= call.element)
    BY <1>4 DEF GoesRight
  <2>2. ASSUME l = call.high, NEW i \in Positions(mem) PROVE i < l <=> i \in NotOver
    BY <1>1, <1>2, <2>1, <2>2 DEF NotOver, UnsafeRead
  <2>3. l = call.high => l \in 0..Size(mem)
    BY <1>1, <1>2
  <2> QED  BY <2>1, <2>2, <2>3 DEF Splits
<1>5. ASSUME call.op \in {"lowerBound", "lowerBoundMemory"}
      PROVE  /\ \A w : GoesRight(w) <=> (w < call.element)
             /\ call.low = call.high => Splits(call.low, Below)
  <2>1. \A w : GoesRight(w) <=> (w < call.element)
    BY <1>5 DEF GoesRight
  <2>2. ASSUME l = call.high, NEW i \in Positions(mem) PROVE i < l <=> i \in Below
    BY <1>1, <1>2, <2>1, <2>2 DEF Below, UnsafeRead
  <2>3. l = call.high => l \in 0..Size(mem)
    BY <1>1, <1>2
  <2> QED  BY <2>1, <2>2, <2>3 DEF Splits
<1>6. ASSUME call.op = "findUpperBound"
      PROVE  /\ \A w : GoesRight(w) <=> (w <= call.element)
             /\ call.low = call.high => Splits(at, Below)
             /\ at \in Nat
  <2>1. \A w : GoesRight(w) <=> (w <= call.element)
    BY <1>6 DEF GoesRight
  <2>2. at \in Nat
    BY <1>1
  <2>3. \A i, j \in Positions(mem) : i < j => mem[i + 1] < mem[j + 1]
    <3>1. ASSUME NEW i \in Positions(mem), NEW j \in Positions(mem), i < j
          PROVE  mem[i + 1] < mem[j + 1]
      <4>1. mem[i + 1] <= mem[j + 1] /\ mem[i + 1] # mem[j + 1]
        BY <1>1, <1>2, <1>6, <3>1 DEF Distinct, UnsafeRead
      <4> QED  BY <1>2, <4>1
    <3> QED  BY <3>1
  <2>4. ASSUME l = call.high PROVE Splits(at, Below)
    <3>1. /\ \A i \in Positions(mem) : i < l => mem[i + 1] <= call.element
          /\ \A i \in Positions(mem) : i >= l => mem[i + 1] > call.element
          /\ l <= Size(mem)
      <4>1. \A i \in Positions(mem) : i >= l => ~ GoesRight(mem[i + 1])
        BY <1>1, <2>4
      <4>2. ASSUME NEW i \in Positions(mem), i >= l PROVE mem[i + 1] > call.element
        <5>1. mem[i + 1] \in Nat /\ ~ (mem[i + 1] <= call.element)
          BY <1>2, <2>1, <4>1, <4>2
        <5> QED  BY <1>1, <5>1
      <4> QED  BY <1>1, <1>2, <2>1, <2>4, <4>2
    <3>2. CASE l > 0 /\ mem[l] = call.element
      <4> DEFINE p == l - 1
      <4>1. at = p /\ p \in Positions(mem) /\ p + 1 = l /\ mem[p + 1] = call.element
        BY <1>1, <1>2, <3>1, <3>2 DEF UnsafeRead
      <4> HIDE DEF p, at
      <4>2. \A i \in Positions(mem) : i < p => mem[i + 1] < call.element
        BY <2>3, <4>1
      <4>3. \A i \in Positions(mem) : i >= p => ~ (mem[i + 1] < call.element)
        BY <1>1, <1>2, <4>1
      <4>4. \A i \in Positions(mem) : i < p <=> i \in Below
        BY <1>2, <4>1, <4>2, <4>3 DEF Below, UnsafeRead
      <4>5. p \in 0..Size(mem)
        BY <1>2, <4>1
      <4> QED  BY <4>1, <4>4, <4>5 DEF Splits
    <3>3. CASE ~ (l > 0 /\ mem[l] = call.element)
      <4>1. at = l
        <5>1. l > 0 => l - 1 + 1 = l
          BY <1>1
        <5> QED  BY <3>3, <5>1 DEF UnsafeRead
      <4> HIDE DEF at
      <4>2. ASSUME NEW i \in Positions(mem), i < l PROVE mem[i + 1] < call.element
        <5> DEFINE p == l - 1
        <5>1. p \in Positions(mem) /\ p + 1 = l /\ i <= p /\ l > 0 /\ p < l
          BY <1>1, <1>2, <3>1, <4>2
        <5> HIDE DEF p
        <5>2. mem[p + 1] <= call.element /\ mem[p + 1] # call.element /\ mem[i + 1] <= mem[p + 1]
          BY <1>2, <3>1, <3>3, <5>1
        <5> QED  BY <1>1, <1>2, <5>1, <5>2
      <4>3. \A i \in Positions(mem) : i < l <=> i \in Below
        BY <1>1, <1>2, <3>1, <4>2 DEF Below, UnsafeRead
      <4> QED  BY <1>1, <1>2, <3>1, <4>1, <4>3 DEF Splits
    <3> QED  BY <3>2, <3>3
  <2> QED  BY <2>1, <2>2, <2>4
<1>7. CASE FindUpperBound
  <2>1. /\ call.op = "findUpperBound" /\ ~ call.done /\ mem' = mem
        /\ call' = IF l >= call.high THEN [call EXCEPT !.low = at, !.done = TRUE]
                   ELSE IF MidWord > call.element THEN [call EXCEPT !.high = Middle]
                   ELSE [call EXCEPT !.low = Middle + 1]
    BY <1>7 DEF FindUpperBound, Looks
  <2> HIDE DEF at
  <2>2. Goes("findUpperBound", at)
    BY <1>1, <1>3, <1>6, <2>1 DEF Goes
  <2>3. "findUpperBound" \in SearchOps /\ "findUpperBound" \notin {"upperBound", "upperBoundMemory"}
    BY DEF SearchOps
  <2> QED  BY <1>6, <2>1, <2>2, <2>3, GoesOn
<1>8. CASE LowerBound \/ LowerBoundMemory
  <2>1. PICK op \in {"lowerBound", "lowerBoundMemory"} :
          /\ call.op = op /\ ~ call.done /\ mem' = mem
          /\ call' = IF l >= call.high THEN [call EXCEPT !.low = l, !.done = TRUE]
                     ELSE IF ~ (MidWord < call.element) THEN [call EXCEPT !.high = Middle]
                     ELSE [call EXCEPT !.low = Middle + 1]
    BY <1>8 DEF LowerBound, LowerBoundMemory, Looks
  <2>2. op \in SearchOps /\ op \notin {"upperBound", "upperBoundMemory"}
    BY <2>1 DEF SearchOps
  <2>3. Goes(op, l)
    BY <1>1, <1>3, <1>5, <2>1 DEF Goes
  <2> QED  BY <1>1, <1>5, <2>1, <2>2, <2>3, GoesOn
<1>9. CASE UpperBound \/ UpperBoundMemory
  <2>1. PICK op \in {"upperBound", "upperBoundMemory"} :
          /\ call.op = op /\ ~ call.done /\ mem' = mem
          /\ call' = IF l >= call.high THEN [call EXCEPT !.low = l, !.done = TRUE]
                     ELSE IF MidWord > call.element THEN [call EXCEPT !.high = Middle]
                     ELSE [call EXCEPT !.low = Middle + 1]
    BY <1>9 DEF UpperBound, UpperBoundMemory, Looks
  <2>2. op \in SearchOps
    BY <2>1 DEF SearchOps
  <2>3. Goes(op, l)
    BY <1>1, <1>3, <1>4, <2>1 DEF Goes
  <2> QED  BY <1>1, <1>4, <2>1, <2>2, <2>3, GoesOn
<1> QED  BY <1>7, <1>8, <1>9

\* A sort remains one.
LEMMA SortOps ==
  ASSUME IsCall(call), SkipSegment \/ Partition \/ PartitionTurn \/ PartitionEnd \/ SortDone
  PROVE  call'.op \in {"sort", "partition"} /\ input' = input /\ call'.asc = call.asc
<1>1. CASE SkipSegment \/ SortDone
  BY <1>1 DEF SkipSegment, SortDone, IsCall
<1>2. CASE Partition
  BY <1>2 DEF Partition, IsCall
<1>3. CASE PartitionTurn
  BY <1>3 DEF PartitionTurn, IsCall
<1>4. CASE PartitionEnd
  BY <1>4 DEF PartitionEnd, IsCall
<1> QED  BY <1>1, <1>2, <1>3, <1>4

\* A search remains the same.
LEMMA LookOps ==
  ASSUME IsCall(call), FindUpperBound \/ LowerBound \/ UpperBound \/ LowerBoundMemory \/ UpperBoundMemory
  PROVE  call'.op = call.op /\ call'.op \in SearchOps
<1>1. ASSUME NEW op \in SearchOps, NEW left, NEW result, Looks(op, left, result)
      PROVE  call'.op = op /\ call.op = op
  BY <1>1 DEF Looks, IsCall
<1> QED  BY <1>1 DEF FindUpperBound, LowerBound, UpperBound, LowerBoundMemory, UpperBoundMemory, SearchOps

LEMMA SearchStep ==
  ASSUME IsCall(call), SearchInv, SearchRight, [NextArrays]_arrayVars
  PROVE  SearchInv' /\ SearchRight'
<1>1. CASE UNCHANGED arrayVars
  BY <1>1 DEF arrayVars, SearchInv, SearchRight, Returned, Splits, Below, NotOver, GoesRight,
              Distinct, Ascending, Positions, Size, UnsafeRead, IsArray
<1>2. ASSUME call'.op \notin SearchOps PROVE SearchInv' /\ SearchRight'
  BY <1>2 DEF SearchInv, SearchRight, Returned, SearchOps
<1>3. ASSUME NEW m \in LongArrays, NEW asc, Sort(m, asc) PROVE call'.op \notin SearchOps
  BY <1>3 DEF Sort, Starts, Ready, SearchOps
<1>4. ASSUME NEW m \in LongArrays, NEW op \in SearchOps, NEW element \in Word, Search(op, m, element)
      PROVE  SearchInv' /\ SearchRight'
  <2>1. /\ mem' = m /\ Ascending(m) /\ (op = "findUpperBound" => Distinct(m))
        /\ call'.op = op /\ call'.element = element /\ call'.low = 0 /\ call'.high = Size(m)
        /\ call'.done = FALSE
    BY <1>4 DEF Search, Starts, Ready
  <2>2. /\ IsArray(m) /\ element \in Nat /\ Size(m) \in Nat
        /\ \A i \in Positions(m) : i \in Nat /\ i < Size(m)
    BY <1>4, InputsAre, WordsAre, ArraysAssumption
  <2>3. SearchInv'
    BY <2>1, <2>2 DEF SearchInv, Distinct, Ascending, Positions, Size, UnsafeRead, IsArray
  <2> QED  BY <2>1, <2>3 DEF SearchRight, Returned
<1>5. ASSUME NEW m, NEW start, NEW end, Slice(m, start, end) \/ Splice(m, start, end)
      PROVE  call'.op \notin SearchOps
  BY <1>5 DEF Slice, Splice, Ready, SearchOps
<1>7. CASE SkipSegment \/ Partition \/ PartitionTurn \/ PartitionEnd \/ SortDone
  BY <1>2, <1>7, SortOps DEF SearchOps
<1> QED  BY <1>1, <1>2, <1>3, <1>4, <1>5, <1>7, SearchesRight, CallSteps

\* A call that is made is a record with its fields.
LEMMA ReadyIs ==
  ASSUME InitArrays
  PROVE  IsCall(call) /\ call.op = "ready" /\ call.done = FALSE
BY DEF InitArrays, Ready, IsCall

\* In a sorted array of any length each search returns the one position that
\* splits it at the element (Arrays.js 149-314).
THEOREM SearchesSplit == ArraysSpec => []SearchRight
<1> DEFINE Inv == IsCall(call) /\ SearchInv /\ SearchRight
<1>1. InitArrays => Inv
  BY ReadyIs DEF SearchInv, SearchRight, Returned, SearchOps
<1>2. Inv /\ [NextArrays]_arrayVars => Inv'
  BY CallKept, SearchStep
<1> QED  BY <1>1, <1>2, PTL DEF ArraysSpec

----------------------------------------------------------------------------
(* The copies. *)

LEMMA Min2Is ==
  ASSUME NEW m \in Nat, NEW n \in Nat
  PROVE  /\ Min2(m, n) \in Nat /\ Min2(m, n) <= m /\ Min2(m, n) <= n
         /\ m <= n => Min2(m, n) = m
         /\ n <= m => Min2(m, n) = n
BY DEF Min2

\* What the copy functions leave: an array with the words they promise.
LEMMA SliceRight ==
  ASSUME NEW m, IsArray(m), NEW start \in Nat, NEW end \in Nat,
         Slice(m, start, end) \/ Splice(m, start, end)
  PROVE  ArrayIn(mem') = SubSeq(ArrayIn(m), start + 1, Min2(end, Size(m)))
<1> DEFINE to   == Min2(end, Size(m))
           from == Min2(start, to)
<1>1. /\ Size(m) \in Nat /\ DOMAIN m = 0..Size(m) /\ \A i \in 1..Size(m) : m[i] \in Word
      /\ to \in Nat /\ from \in Nat /\ to \in 0..Size(m) /\ from \in 0..to /\ from <= to
      /\ to <= Size(m) /\ (start <= to => from = start) /\ (to <= start => from = to)
  <2>1. Size(m) \in Nat /\ DOMAIN m = 0..Size(m) /\ \A i \in 1..Size(m) : m[i] \in Word
    BY WordsAre DEF IsArray, Size
  <2>2. to \in Nat /\ to <= Size(m)
    BY <2>1, Min2Is
  <2> HIDE DEF to
  <2>3. from \in Nat /\ from <= to /\ (start <= to => from = start) /\ (to <= start => from = to)
    BY <2>2, Min2Is
  <2> HIDE DEF from
  <2> QED  BY <2>1, <2>2, <2>3
<1>2. /\ to - from \in Nat
      /\ \A i \in 1..(to - from) : /\ 1 <= i /\ i < 1 + (to - from)
                                   /\ from + 1 + i - 1 = from + i
                                   /\ i \in 0..(to - from) /\ i \in 0..Size(m) /\ i # 0
                                   /\ from + i \in 1..Size(m)
  <2> HIDE DEF to, from
  <2> QED  BY <1>1
<1>3. mem'[0] = to - from /\ \A i \in 1..(to - from) : mem'[i] = m[from + i]
  <2>1. CASE Slice(m, start, end)
    <3> DEFINE new == [i \in 0..(to - from) |-> IF i = 0 THEN to - from ELSE 0]
    <3>1. mem' = [i \in DOMAIN new |-> IF 1 <= i /\ i < 1 + (to - from) THEN m[from + 1 + i - 1] ELSE new[i]]
      BY <2>1 DEF Slice, Copied
    <3>2. DOMAIN new = 0..(to - from) /\ new[0] = to - from /\ 0 \in 0..(to - from)
      BY <1>2
    <3> HIDE DEF to, from, new
    <3> QED  BY <1>2, <3>1, <3>2
  <2>2. CASE Splice(m, start, end)
    <3> DEFINE moved == [i \in DOMAIN m |-> IF 1 <= i /\ i < 1 + (to - from)
                                            THEN m[from + 1 + i - 1] ELSE m[i]]
    <3>1. mem' = [moved EXCEPT ![0] = to - from]
      BY <2>2 DEF Splice, Copied
    <3>2. DOMAIN moved = 0..Size(m) /\ 0 \in 0..Size(m)
      BY <1>1
    <3>3. \A i \in 1..(to - from) : moved[i] = m[from + i]
      <4> HIDE DEF to, from
      <4> QED  BY <1>1, <1>2
    <3> HIDE DEF to, from, moved
    <3> QED  BY <1>2, <3>1, <3>2, <3>3
  <2> QED  BY <2>1, <2>2
<1> DEFINE s == ArrayIn(m)
           t == ArrayIn(mem')
           k == to - from
<1>4. s \in Seq(Word) /\ Len(s) = Size(m) /\ \A i \in 1..Size(m) : s[i] = m[i]
  BY <1>1 DEF ArrayIn
<1>5. t \in Seq(Word) /\ Len(t) = k /\ \A i \in 1..k : t[i] = m[from + i]
  <2>1. k \in Nat /\ Size(mem') = k /\ \A i \in 1..k : mem'[i] = m[from + i] /\ mem'[i] \in Word
    <3> HIDE DEF to, from
    <3> QED  BY <1>1, <1>2, <1>3 DEF Size
  <2>2. t = [i \in 1..k |-> mem'[i]]
    BY <2>1 DEF ArrayIn
  <2> HIDE DEF k, t
  <2> QED  BY <2>1, <2>2
<1> HIDE DEF to, from, s, t
<1>6. CASE start <= to
  <2>1. from = start
    BY <1>1, <1>6
  <2> DEFINE u == SubSeq(s, start + 1, to)
  <2>2. \A i \in (start + 1)..to : s[i] \in Word
    BY <1>1, <1>4
  <2>3. start + 1 \in Int /\ to \in Int
    BY <1>1
  <2>4. /\ u \in Seq(Word)
        /\ Len(u) = IF start + 1 <= to THEN to - (start + 1) + 1 ELSE 0
        /\ \A i \in 1..(to - (start + 1) + 1) : u[i] = s[start + 1 + i - 1]
    BY <2>2, <2>3, SubSeqProperties
  <2> HIDE DEF u
  <2>5. Len(u) = k /\ to - (start + 1) + 1 = k
    BY <1>1, <1>6, <2>1, <2>4
  <2>6. ASSUME NEW i \in 1..k PROVE u[i] = t[i]
    <3>1. start + 1 + i - 1 = from + i /\ from + i \in 1..Size(m)
      BY <1>1, <1>2, <2>1, <2>6
    <3> QED  BY <1>4, <1>5, <2>4, <2>5, <2>6, <3>1
  <2>7. t = u
    BY <1>5, <2>4, <2>5, <2>6, SeqEqual
  <2> QED  BY <2>7 DEF u, s, t, to
<1>7. CASE to < start
  <2>1. k = 0
    BY <1>1, <1>7
  <2>2. t = <<>>
    BY <1>5, <2>1
  <2>3. start + 1 \in Int /\ to \in Int /\ to < start + 1
    BY <1>1, <1>7
  <2>4. SubSeq(s, start + 1, to) = <<>>
    BY <2>3, SubSeqEmpty
  <2> QED  BY <2>2, <2>4 DEF s, t, to
<1> QED  BY <1>1, <1>6, <1>7

LEMMA CopyStep ==
  ASSUME IsCall(call), CopyRight, [NextArrays]_arrayVars
  PROVE  CopyRight'
<1>1. CASE UNCHANGED arrayVars
  BY <1>1 DEF arrayVars, CopyRight, Returned, ArrayIn, Positions, Size, UnsafeRead
<1>2. ASSUME call'.op \notin {"slice", "splice"} PROVE CopyRight'
  BY <1>2 DEF CopyRight, Returned
<1>3. ASSUME NEW m, NEW asc, Sort(m, asc) PROVE CopyRight'
  BY <1>2, <1>3 DEF Sort, Starts, Ready
<1>4. ASSUME NEW m, NEW op \in SearchOps, NEW element, Search(op, m, element) PROVE CopyRight'
  BY <1>2, <1>4 DEF Search, Starts, Ready, SearchOps
<1>5. ASSUME NEW m \in ShortArrays, NEW start \in Nat, NEW end \in Nat,
             Slice(m, start, end) \/ Splice(m, start, end)
      PROVE  CopyRight'
  <2>1. /\ input' = m /\ call'.op \in {"slice", "splice"}
        /\ call'.args[1] = start /\ call'.args[2] = end
    <3>1. input' = m /\ call'.op \in {"slice", "splice"} /\ call'.args = <<start, end>>
      BY <1>5 DEF Slice, Splice, Ready
    <3> QED  BY <3>1
  <2>2. IsArray(m)
    BY InputsAre
  <2>3. ArrayIn(mem') = SubSeq(ArrayIn(m), start + 1, Min2(end, Size(m)))
    BY <1>5, <2>2, SliceRight
  <2>4. ArrayIn(mem)' = SubSeq(ArrayIn(input), call.args[1] + 1, Min2(call.args[2], Size(input)))'
    BY <2>1, <2>3 DEF ArrayIn, Size, Min2
  <2> QED  BY <2>1, <2>4 DEF CopyRight, Returned
<1>7. CASE SkipSegment \/ Partition \/ PartitionTurn \/ PartitionEnd \/ SortDone
  BY <1>2, <1>7, SortOps
<1>8. CASE FindUpperBound \/ LowerBound \/ UpperBound \/ LowerBoundMemory \/ UpperBoundMemory
  BY <1>2, <1>8, LookOps DEF SearchOps
<1> QED  BY <1>1, <1>3, <1>4, <1>5, <1>7, <1>8, CallSteps

\* A copy of any array, from any start to any end, made anew or in place, has the
\* words that are promised and no other (Arrays.js 362-424).
THEOREM CopiesAreRight == ArraysSpec => []CopyRight
<1> DEFINE Inv == IsCall(call) /\ CopyRight
<1>1. InitArrays => Inv
  BY ReadyIs DEF CopyRight, Returned
<1>2. Inv /\ [NextArrays]_arrayVars => Inv'
  BY CallKept, CopyStep
<1> QED  BY <1>1, <1>2, PTL DEF ArraysSpec

----------------------------------------------------------------------------
(* The sort. *)

\* How often w occurs.
Count(m, w) == Cardinality({i \in Positions(m) : UnsafeRead(m, i) = w})

LEMMA SwapIs ==
  ASSUME NEW m, IsArray(m), NEW p \in Positions(m), NEW q \in Positions(m)
  PROVE  /\ IsArray(Swapped(m, p, q)) /\ Size(Swapped(m, p, q)) = Size(m)
         /\ \A i \in Positions(m) :
              Swapped(m, p, q)[i + 1] = IF i = p THEN m[q + 1] ELSE IF i = q THEN m[p + 1] ELSE m[i + 1]
<1> DEFINE s == Swapped(m, p, q)
           N == Size(m)
<1>1. /\ N \in Nat /\ DOMAIN m = 0..N /\ Positions(m) = 0..(N - 1) /\ m[0] = N
      /\ \A i \in Positions(m) : i \in Nat /\ i + 1 \in DOMAIN m /\ m[i + 1] \in Word
  BY WordsAre DEF Size
<1>2. s = [m EXCEPT ![p + 1] = m[q + 1], ![q + 1] = m[p + 1]]
  BY DEF Swapped
<1>3. \A i \in Positions(m) :
        s[i + 1] = IF i = p THEN m[q + 1] ELSE IF i = q THEN m[p + 1] ELSE m[i + 1]
  <2>1. ASSUME NEW i \in Positions(m)
        PROVE  s[i + 1] = IF i = p THEN m[q + 1] ELSE IF i = q THEN m[p + 1] ELSE m[i + 1]
    <3>1. (i + 1 = p + 1 <=> i = p) /\ (i + 1 = q + 1 <=> i = q) /\ i + 1 \in DOMAIN m
      BY <1>1
    <3> QED  BY <1>2, <3>1
  <2> QED  BY <2>1
<1>4. s[0] = N /\ DOMAIN s = 0..N
  BY <1>1, <1>2
<1> HIDE DEF s, N
<1>5. ASSUME NEW i \in 1..N PROVE s[i] \in Word
  <2> DEFINE j == i - 1
  <2>1. j \in Positions(m) /\ j + 1 = i
    BY <1>1
  <2> HIDE DEF j
  <2> QED  BY <1>1, <1>3, <2>1
<1>6. IsArray(s) /\ Size(s) = N
  BY <1>1, <1>4, <1>5 DEF IsArray, Size
<1> QED  BY <1>3, <1>6 DEF s, N

\* A swap keeps how often each word occurs.
LEMMA SwapCounts ==
  ASSUME NEW m, IsArray(m), NEW p \in Positions(m), NEW q \in Positions(m), NEW w
  PROVE  Count(Swapped(m, p, q), w) = Count(m, w)
<1> DEFINE s == Swapped(m, p, q)
           A == {i \in Positions(m) : m[i + 1] = w}
           B == {i \in Positions(m) : s[i + 1] = w}
           f == [i \in A |-> IF i = p THEN q ELSE IF i = q THEN p ELSE i]
<1>1. /\ Size(s) = Size(m)
      /\ \A i \in Positions(m) :
           s[i + 1] = IF i = p THEN m[q + 1] ELSE IF i = q THEN m[p + 1] ELSE m[i + 1]
  BY SwapIs
<1>2. Count(m, w) = Cardinality(A) /\ Count(s, w) = Cardinality(B)
  <2>1. Positions(s) = Positions(m)
    BY <1>1 DEF Positions
  <2> QED  BY <2>1 DEF Count, UnsafeRead
<1> HIDE DEF s
<1>3. f \in [A -> B]
  BY <1>1
<1>4. \A a, b \in A : f[a] = f[b] => a = b
  OBVIOUS
<1>5. ASSUME NEW b \in B PROVE \E a \in A : f[a] = b
  <2> DEFINE a == IF b = p THEN q ELSE IF b = q THEN p ELSE b
  <2>1. a \in A /\ f[a] = b
    BY <1>1
  <2> QED  BY <2>1
<1>6. f \in Bijection(A, B)
  <2> HIDE DEF f, A, B
  <2> QED  BY <1>3, <1>4, <1>5, Fun_IsBij
<1>7. IsFiniteSet(A)
  <2>1. IsFiniteSet(Positions(m))
    BY WordsAre, FS_Interval
  <2> QED  BY <2>1, FS_Subset
<1>8. Cardinality(B) = Cardinality(A)
  <2> HIDE DEF f, A, B
  <2>1. ExistsBijection(A, B)
    BY <1>6 DEF ExistsBijection
  <2> QED  BY <1>7, <2>1, FS_Bijection
<1> QED  BY <1>2, <1>8 DEF s

\* x may stand before y.
Before(x, y) == ~ Comp(y, x)

Segment(k) == call.stack[k]

\* The segments that are left lie in the array, one after the other.
StackInOrder ==
  /\ call.stack \in Seq(Nat \X Nat)
  /\ \A k \in DOMAIN call.stack : Segment(k)[1] <= Segment(k)[2] /\ Segment(k)[2] <= Size(mem)
  /\ \A k, l \in DOMAIN call.stack : k < l => Segment(k)[2] <= Segment(l)[1]

\* Two positions of one segment.
Together(i, j) == \E k \in DOMAIN call.stack : Segment(k)[1] <= i /\ j < Segment(k)[2]

\* All is sorted but what is left inside the segments.
SortedOutside ==
  \A i, j \in Positions(mem) : i < j => Together(i, j) \/ Before(mem[i + 1], mem[j + 1])

\* A partition has put what comes before the pivot up to pos, and the rest
\* of what it has seen behind.
PartitionTrue ==
  call.op = "partition" =>
    /\ call.stack # <<>> /\ Top[2] - Top[1] >= 2
    /\ call.pos \in Nat /\ call.it \in Nat
    /\ Top[1] <= call.pos /\ call.pos < call.it /\ call.it <= Top[2]
    /\ call.pivot = mem[Top[1] + 1]
    /\ \A i \in (Top[1] + 1)..call.pos : Comp(mem[i + 1], call.pivot)
    /\ \A i \in (call.pos + 1)..(call.it - 1) : ~ Comp(mem[i + 1], call.pivot)

SortInv ==
  call.op \in {"sort", "partition"} =>
    /\ IsArray(mem) /\ IsArray(input) /\ Size(mem) = Size(input)
    /\ \A w \in Word : Count(mem, w) = Count(input, w)
    /\ call.asc \in BOOLEAN
    /\ StackInOrder /\ SortedOutside /\ PartitionTrue
    /\ call.done => call.op = "sort" /\ call.stack = <<>>

LEMMA StackIs ==
  ASSUME StackInOrder, call.stack # <<>>
  PROVE  /\ Len(call.stack) \in Nat /\ Len(call.stack) >= 1
         /\ DOMAIN call.stack = 1..Len(call.stack)
         /\ \A k \in 1..Len(call.stack) : /\ Segment(k) \in Nat \X Nat
                                          /\ Segment(k)[1] \in Nat /\ Segment(k)[2] \in Nat
                                          /\ Segment(k)[1] <= Segment(k)[2] /\ Segment(k)[2] <= Size(mem)
         /\ Top = Segment(1) /\ Top[1] \in Nat /\ Top[2] \in Nat
         /\ Top[1] <= Top[2] /\ Top[2] <= Size(mem)
         /\ \A k \in 2..Len(call.stack) : Top[2] <= Segment(k)[1]
<1> DEFINE n == Len(call.stack)
<1>1. /\ n \in Nat /\ DOMAIN call.stack = 1..n /\ n # 0
      /\ \A k \in 1..n : call.stack[k] \in Nat \X Nat
  BY DEF StackInOrder
<1>2. \A k \in 1..n : Segment(k) \in Nat \X Nat /\ Segment(k)[1] \in Nat /\ Segment(k)[2] \in Nat
  BY <1>1 DEF Segment
<1>3. 1 \in 1..n /\ n >= 1 /\ \A k \in 2..n : k \in 1..n /\ 1 < k
  BY <1>1
<1>4. Top = Segment(1)
  BY DEF Top, Segment
<1> QED  BY <1>1, <1>2, <1>3, <1>4 DEF StackInOrder

\* The comparator is a strict order in either direction.
LEMMA CompIs ==
  ASSUME call.asc \in BOOLEAN, NEW x \in Nat, NEW y \in Nat, NEW z \in Nat
  PROVE  /\ ~ (Comp(x, y) /\ Comp(y, x))
         /\ Comp(x, z) /\ ~ Comp(y, z) => ~ Comp(y, x)
<1>1. CASE call.asc
  BY <1>1 DEF Comp
<1>2. CASE ~ call.asc
  BY <1>2 DEF Comp
<1> QED  BY <1>1, <1>2

\* What is outside the first segment stays sorted, and sorted against what
\* is inside, when the words of the segment are rearranged.
LEMMA Rearranged ==
  ASSUME StackInOrder, call.stack # <<>>, SortedOutside, Size(mem) \in Nat,
         \A i \in Positions(mem) : ~ (Top[1] <= i /\ i < Top[2]) => mem'[i + 1] = mem[i + 1],
         \A i \in Positions(mem) :
           Top[1] <= i /\ i < Top[2] =>
             \E r \in Positions(mem) : Top[1] <= r /\ r < Top[2] /\ mem'[i + 1] = mem[r + 1],
         NEW i \in Positions(mem), NEW j \in Positions(mem), i < j, ~ (Top[1] <= i /\ j < Top[2])
  PROVE  \/ \E k \in 2..Len(call.stack) : Segment(k)[1] <= i /\ j < Segment(k)[2]
         \/ Before(mem'[i + 1], mem'[j + 1])
<1> DEFINE n == Len(call.stack)
           b == Top[1]
           e == Top[2]
<1>1. /\ n \in Nat /\ n >= 1 /\ DOMAIN call.stack = 1..n /\ b \in Nat /\ e \in Nat /\ b <= e
      /\ \A k \in 1..n : Segment(k)[1] \in Nat /\ Segment(k)[2] \in Nat
      /\ Segment(1)[1] = b /\ Segment(1)[2] = e
      /\ \A k \in 2..n : e <= Segment(k)[1]
  BY StackIs
<1>2. \A p \in Positions(mem) : p \in Nat
  BY DEF Positions
<1>3. \A p, q \in Positions(mem) :
        p < q => \/ \E k \in 1..n : Segment(k)[1] <= p /\ q < Segment(k)[2]
                 \/ Before(mem[p + 1], mem[q + 1])
  BY <1>1 DEF SortedOutside, Together
<1> HIDE DEF n, b, e
<1>4. CASE b <= i /\ i < e
  <2>1. PICK r \in Positions(mem) : b <= r /\ r < e /\ mem'[i + 1] = mem[r + 1]
    BY <1>4 DEF b, e
  <2>2. ~ (j < e) /\ r < j
    BY <1>1, <1>2, <1>4, <2>1 DEF b, e
  <2>3. mem'[j + 1] = mem[j + 1]
    BY <2>2 DEF b, e
  <2>4. ASSUME NEW k \in 1..n, Segment(k)[1] <= r, j < Segment(k)[2] PROVE FALSE
    <3>1. k = 1 \/ k \in 2..n
      BY <1>1
    <3> QED  BY <1>1, <1>2, <2>1, <2>2, <2>4, <3>1
  <2>5. Before(mem[r + 1], mem[j + 1])
    BY <1>3, <2>2, <2>4
  <2> QED  BY <2>1, <2>3, <2>5
<1>5. CASE b <= j /\ j < e /\ ~ (b <= i /\ i < e)
  <2>1. PICK r \in Positions(mem) : b <= r /\ r < e /\ mem'[j + 1] = mem[r + 1]
    BY <1>5 DEF b, e
  <2>2. i < b /\ i < r
    BY <1>1, <1>2, <1>5, <2>1
  <2>3. mem'[i + 1] = mem[i + 1]
    BY <1>5 DEF b, e
  <2>4. ASSUME NEW k \in 1..n, Segment(k)[1] <= i, r < Segment(k)[2] PROVE FALSE
    <3>1. k = 1 \/ k \in 2..n
      BY <1>1
    <3> QED  BY <1>1, <1>2, <2>1, <2>2, <2>4, <3>1
  <2>5. Before(mem[i + 1], mem[r + 1])
    BY <1>3, <2>2, <2>4
  <2> QED  BY <2>1, <2>3, <2>5
<1>6. CASE ~ (b <= i /\ i < e) /\ ~ (b <= j /\ j < e)
  <2>1. mem'[i + 1] = mem[i + 1] /\ mem'[j + 1] = mem[j + 1]
    BY <1>6 DEF b, e
  <2>2. ASSUME NEW k \in 1..n, Segment(k)[1] <= i, j < Segment(k)[2] PROVE k \in 2..n
    <3>1. k = 1 \/ k \in 2..n
      BY <1>1
    <3>2. ~ (b <= i /\ j < e)
      BY DEF b, e
    <3> QED  BY <1>1, <2>2, <3>1, <3>2
  <2>3. CASE Before(mem[i + 1], mem[j + 1])
    BY <2>1, <2>3
  <2>4. CASE \E k \in 1..n : Segment(k)[1] <= i /\ j < Segment(k)[2]
    BY <2>2, <2>4 DEF n
  <2> QED  BY <1>3, <2>3, <2>4
<1> QED  BY <1>4, <1>5, <1>6

LEMMA StartSorts ==
  ASSUME NEW m \in LongArrays, NEW asc \in BOOLEAN, Sort(m, asc)
  PROVE  SortInv'
<1>1. /\ mem' = m /\ input' = m /\ call'.asc = asc /\ call'.stack = << <<0, Size(m)>> >>
      /\ call'.op = "sort" /\ call'.done = FALSE
  BY DEF Sort, Starts, Ready
<1>2. IsArray(m) /\ Size(m) \in Nat /\ Positions(m) = 0..(Size(m) - 1)
  BY InputsAre, WordsAre
<1> DEFINE s == << <<0, Size(m)>> >>
<1>3. s \in Seq(Nat \X Nat) /\ DOMAIN s = {1} /\ s[1][1] = 0 /\ s[1][2] = Size(m)
  BY <1>2
<1> HIDE DEF s
<1>4. StackInOrder'
  BY <1>1, <1>2, <1>3 DEF StackInOrder, Segment, s
<1>5. SortedOutside'
  <2>1. ASSUME NEW i \in Positions(m), NEW j \in Positions(m) PROVE Together(i, j)'
    <3>1. 0 <= i /\ j < Size(m)
      BY <1>2
    <3> QED  BY <1>1, <1>3, <3>1 DEF Together, Segment, s
  <2> QED  BY <1>1, <2>1 DEF SortedOutside, Positions, Size
<1>6. IsArray(mem)' /\ IsArray(input)' /\ Size(mem)' = Size(input)'
  BY <1>1, <1>2 DEF IsArray, Size
<1>7. \A w \in Word : Count(mem, w)' = Count(input, w)'
  BY <1>1 DEF Count, Positions, Size, UnsafeRead
<1> QED  BY <1>1, <1>4, <1>5, <1>6, <1>7 DEF SortInv, PartitionTrue

\* What a step of the sort leaves alone.
LEMMA SortFrame ==
  ASSUME SortInv, call.op \in {"sort", "partition"}, mem' = mem, input' = input, call'.asc = call.asc
  PROVE  /\ IsArray(mem)' /\ IsArray(input)' /\ Size(mem)' = Size(input)'
         /\ \A w \in Word : Count(mem, w)' = Count(input, w)'
         /\ call'.asc \in BOOLEAN
<1>1. /\ IsArray(mem) /\ IsArray(input) /\ Size(mem) = Size(input)
      /\ \A w \in Word : Count(mem, w) = Count(input, w)
      /\ call.asc \in BOOLEAN
  BY DEF SortInv
<1> QED  BY <1>1 DEF IsArray, Size, Count, Positions, UnsafeRead

LEMMA SkipSorts ==
  ASSUME IsCall(call), SortInv, SkipSegment
  PROVE  SortInv'
<1> DEFINE n == Len(call.stack)
<1>1. /\ call.op = "sort" /\ call.stack # <<>> /\ Top[2] - Top[1] < 2
      /\ mem' = mem /\ input' = input
      /\ call'.op = "sort" /\ call'.stack = Tail(call.stack) /\ call'.asc = call.asc
      /\ call'.done = call.done
  BY DEF SkipSegment, IsCall
<1>2. StackInOrder /\ SortedOutside /\ ~ call.done /\ Positions(mem) \subseteq Int
  BY <1>1 DEF SortInv, Positions
<1>3. /\ n \in Nat /\ n >= 1 /\ DOMAIN call.stack = 1..n
      /\ \A k \in 1..n : Segment(k)[1] \in Nat /\ Segment(k)[2] \in Nat
      /\ \A k \in 1..n : Segment(k)[1] <= Segment(k)[2] /\ Segment(k)[2] <= Size(mem)
      /\ Top = Segment(1)
      /\ \A k, l \in 1..n : k < l => Segment(k)[2] <= Segment(l)[1]
  BY <1>1, <1>2, StackIs DEF StackInOrder
<1>4. /\ call'.stack \in Seq(Nat \X Nat) /\ DOMAIN call'.stack = 1..(n - 1)
      /\ \A k \in 1..(n - 1) : call'.stack[k] = Segment(k + 1) /\ k + 1 \in 1..n
  <2> DEFINE s == call.stack
             t == Tail(s)
  <2>1. s \in Seq(Nat \X Nat) /\ s # <<>>
    BY <1>1, <1>2 DEF StackInOrder
  <2> HIDE DEF s
  <2>2. t \in Seq(Nat \X Nat) /\ Len(t) = Len(s) - 1 /\ \A k \in 1..Len(t) : t[k] = s[k + 1]
    BY <2>1, HeadTailProperties
  <2> HIDE DEF t
  <2>3. call'.stack = t /\ n = Len(s) /\ \A k : Segment(k) = s[k]
    BY <1>1 DEF s, t, Segment
  <2>4. n \in Nat
    BY <1>3
  <2> HIDE DEF n
  <2>5. DOMAIN t = 1..(n - 1) /\ Len(t) = n - 1
    BY <2>2, <2>3, <2>4
  <2>6. \A k \in 1..(n - 1) : k + 1 \in 1..n
    BY <2>4
  <2> QED  BY <2>2, <2>3, <2>5, <2>6
<1> HIDE DEF n
<1>5. StackInOrder'
  <2>1. \A k \in 1..(n - 1) : Segment(k)' = Segment(k + 1)
    BY <1>4 DEF Segment
  <2>2. ASSUME NEW k \in 1..(n - 1), NEW l \in 1..(n - 1), k < l
        PROVE  Segment(k)'[2] <= Segment(l)'[1]
    <3>1. k + 1 < l + 1 /\ k + 1 \in 1..n /\ l + 1 \in 1..n
      BY <1>4, <2>2
    <3> QED  BY <1>3, <2>1, <3>1
  <2>3. Size(mem)' = Size(mem)
    BY <1>1 DEF Size
  <2> QED  BY <1>3, <1>4, <2>1, <2>2, <2>3 DEF StackInOrder
<1>6. SortedOutside'
  <2>1. ASSUME NEW i \in Positions(mem), NEW j \in Positions(mem), i < j, Together(i, j)
        PROVE  Together(i, j)'
    <3>1. PICK k \in 1..n : Segment(k)[1] <= i /\ j < Segment(k)[2]
      BY <1>3, <2>1 DEF Together
    <3>2. k # 1
      BY <1>1, <1>2, <1>3, <2>1, <3>1
    <3> DEFINE l == k - 1
    <3>3. l \in 1..(n - 1) /\ l + 1 = k
      BY <1>3, <3>2
    <3> HIDE DEF l
    <3> QED  BY <1>4, <3>1, <3>3 DEF Together, Segment
  <2>2. \A x, y : Before(x, y)' <=> Before(x, y)
    BY <1>1 DEF Before, Comp
  <2> QED  BY <1>1, <1>2, <2>1, <2>2 DEF SortedOutside, Positions, Size
<1> QED  BY <1>1, <1>2, <1>5, <1>6, SortFrame DEF SortInv, PartitionTrue

LEMMA PartitionSorts ==
  ASSUME IsCall(call), SortInv, Partition
  PROVE  SortInv'
<1>1. /\ call.op = "sort" /\ call.stack # <<>> /\ Top[2] - Top[1] >= 2
      /\ mem' = mem /\ input' = input
      /\ call'.op = "partition" /\ call'.stack = call.stack /\ call'.asc = call.asc
      /\ call'.pivot = mem[Top[1] + 1] /\ call'.pos = Top[1] /\ call'.it = Top[1] + 1
      /\ call'.done = call.done
  BY DEF Partition, IsCall, UnsafeRead
<1>2. StackInOrder /\ SortedOutside /\ ~ call.done
  BY <1>1 DEF SortInv
<1>3. Top[1] \in Nat /\ Top[2] \in Nat /\ Top' = Top
  BY <1>1, <1>2, StackIs DEF Top
<1>4. StackInOrder'
  BY <1>1, <1>2 DEF StackInOrder, Segment, Size
<1>5. SortedOutside'
  BY <1>1, <1>2 DEF SortedOutside, Together, Segment, Before, Comp, Positions, Size
<1>6. PartitionTrue'
  <2> DEFINE b == Top[1]
             e == Top[2]
  <2>1. /\ b \in Nat /\ e \in Nat /\ e - b >= 2 /\ b <= b /\ b < b + 1 /\ b + 1 <= e
        /\ ~ \E i \in (b + 1)..b : TRUE
        /\ ~ \E i \in (b + 1)..(b + 1 - 1) : TRUE
    BY <1>1, <1>3
  <2>2. Top'[1] = b /\ Top'[2] = e
    BY <1>3
  <2> HIDE DEF b, e
  <2>3. call'.pos = b /\ call'.it = b + 1 /\ call'.pivot = mem'[b + 1] /\ call'.stack # <<>>
    BY <1>1 DEF b
  <2> QED  BY <2>1, <2>2, <2>3 DEF PartitionTrue
<1> QED  BY <1>1, <1>2, <1>4, <1>5, <1>6, SortFrame DEF SortInv

LEMMA PartitionTurnSorts ==
  ASSUME IsCall(call), SortInv, PartitionTurn
  PROVE  SortInv'
<1> DEFINE b   == Top[1]
           e   == Top[2]
           pos == call.pos
           it  == call.it
           pv  == call.pivot
           bef == Comp(mem[it + 1], pv)
<1>1. /\ call.op = "partition" /\ it < e /\ input' = input
      /\ mem' = IF bef THEN Swapped(mem, pos + 1, it) ELSE mem
      /\ call'.op = "partition" /\ call'.stack = call.stack /\ call'.asc = call.asc
      /\ call'.pivot = pv /\ call'.pos = (IF bef THEN pos + 1 ELSE pos) /\ call'.it = it + 1
      /\ call'.done = call.done
  BY DEF PartitionTurn, IsCall, UnsafeRead
<1>2. /\ StackInOrder /\ SortedOutside /\ ~ call.done /\ IsArray(mem) /\ IsArray(input)
      /\ Size(mem) = Size(input) /\ call.asc \in BOOLEAN
      /\ \A w \in Word : Count(mem, w) = Count(input, w)
  BY <1>1 DEF SortInv
<1>3. /\ call.stack # <<>> /\ e - b >= 2 /\ pos \in Nat /\ it \in Nat
      /\ b <= pos /\ pos < it /\ it <= e /\ pv = mem[b + 1]
      /\ \A i \in (b + 1)..pos : Comp(mem[i + 1], pv)
      /\ \A i \in (pos + 1)..(it - 1) : ~ Comp(mem[i + 1], pv)
  BY <1>1 DEF SortInv, PartitionTrue
<1>4. /\ b \in Nat /\ e \in Nat /\ e <= Size(mem) /\ Top' = Top
      /\ Size(mem) \in Nat /\ Positions(mem) = 0..(Size(mem) - 1)
  BY <1>1, <1>2, <1>3, StackIs, WordsAre DEF Top
<1>5. \A x, y : (Comp(x, y)' <=> Comp(x, y)) /\ (Before(x, y)' <=> Before(x, y))
  BY <1>1 DEF Comp, Before
<1>6. /\ \A i, j : Together(i, j)' <=> Together(i, j)
      /\ \A k : Segment(k)' = Segment(k)
  BY <1>1 DEF Together, Segment
<1>7. CASE ~ bef
  <2>1. mem' = mem /\ call'.pos = pos
    BY <1>1, <1>7
  <2>2. StackInOrder'
    BY <1>1, <1>2, <2>1 DEF StackInOrder, Segment, Size
  <2>3. SortedOutside'
    BY <1>2, <1>5, <1>6, <2>1 DEF SortedOutside, Positions, Size
  <2>4. \A i \in (pos + 1)..(it + 1 - 1) : ~ Comp(mem[i + 1], pv)
    <3>1. ASSUME NEW i \in (pos + 1)..(it + 1 - 1) PROVE i = it \/ i \in (pos + 1)..(it - 1)
      <4> HIDE DEF pos, it
      <4> QED  BY <1>3, <3>1
    <3> QED  BY <1>3, <1>7, <3>1
  <2>5. it + 1 \in Nat /\ pos < it + 1 /\ it + 1 <= e
    <3> HIDE DEF pos, it, e
    <3> QED  BY <1>1, <1>3, <1>4
  <2>6. PartitionTrue'
    <3>1. Top'[1] = b /\ Top'[2] = e
      BY <1>4
    <3> HIDE DEF b, e, pos, it, pv, bef
    <3> QED  BY <1>1, <1>3, <1>4, <1>5, <2>1, <2>4, <2>5, <3>1 DEF PartitionTrue
  <2> QED  BY <1>1, <1>2, <2>1, <2>2, <2>3, <2>6, SortFrame DEF SortInv
<1>8. CASE bef
  <2> DEFINE p == pos + 1
  <2>1. mem' = Swapped(mem, p, it) /\ call'.pos = p
    BY <1>1, <1>8
  <2> HIDE DEF bef
  <2>2. /\ p \in Nat /\ b < p /\ p <= it /\ p < e /\ it < e /\ b < it /\ b < e
        /\ p \in Positions(mem) /\ it \in Positions(mem) /\ b \in Positions(mem)
        /\ p < it + 1 /\ it + 1 \in Nat /\ it + 1 <= e /\ b <= p
    <3> HIDE DEF pos, it, b, e
    <3> QED  BY <1>1, <1>3, <1>4
  <2> HIDE DEF b, e, it, pv
  <2>3. /\ IsArray(mem') /\ Size(mem') = Size(mem)
        /\ \A i \in Positions(mem) :
             mem'[i + 1] = IF i = p THEN mem[it + 1] ELSE IF i = it THEN mem[p + 1] ELSE mem[i + 1]
    <3> HIDE DEF p
    <3> QED  BY <1>2, <2>1, <2>2, SwapIs
  <2>4. \A w \in Word : Count(mem', w) = Count(input', w)
    <3> HIDE DEF p
    <3> QED  BY <1>1, <1>2, <2>1, <2>2, SwapCounts
  <2>5. StackInOrder'
    BY <1>1, <1>2, <2>3 DEF StackInOrder, Segment, Size
  <2>6. SortedOutside'
    <3>1. ASSUME NEW i \in Positions(mem), NEW j \in Positions(mem), i < j
          PROVE  Together(i, j) \/ Before(mem'[i + 1], mem'[j + 1])
      <4>1. CASE b <= i /\ j < e
        <5>1. 1 \in DOMAIN call.stack /\ Segment(1)[1] = b /\ Segment(1)[2] = e
          BY <1>2, <1>3, StackIs DEF b, e
        <5> QED  BY <4>1, <5>1 DEF Together
      <4>2. CASE ~ (b <= i /\ j < e)
        <5>1. \A r \in Positions(mem) : ~ (b <= r /\ r < e) => mem'[r + 1] = mem[r + 1]
          <6>1. b <= p /\ p < e /\ b <= it /\ it < e
            BY <1>4, <2>2
          <6> HIDE DEF p
          <6> QED  BY <2>3, <6>1
        <5>2. ASSUME NEW r \in Positions(mem), b <= r, r < e
              PROVE  \E q \in Positions(mem) : b <= q /\ q < e /\ mem'[r + 1] = mem[q + 1]
          <6> HIDE DEF p
          <6>1. b <= it
            BY <1>4, <2>2
          <6> QED  BY <2>2, <2>3, <5>2, <6>1
        <5>3. \/ \E k \in 2..Len(call.stack) : Segment(k)[1] <= i /\ j < Segment(k)[2]
              \/ Before(mem'[i + 1], mem'[j + 1])
          BY <1>2, <1>3, <1>4, <3>1, <4>2, <5>1, <5>2, Rearranged DEF b, e
        <5>4. \A k \in 2..Len(call.stack) : k \in DOMAIN call.stack
          BY <1>2, <1>3, StackIs
        <5> QED  BY <5>3, <5>4 DEF Together
      <4> QED  BY <4>1, <4>2
    <3>2. Positions(mem)' = Positions(mem)
      BY <2>3 DEF Positions
    <3> QED  BY <1>5, <1>6, <3>1, <3>2 DEF SortedOutside
  <2>7. PartitionTrue'
    <3>1. Top'[1] = b /\ Top'[2] = e
      BY <1>4 DEF b, e
    <3>2. mem'[b + 1] = mem[b + 1]
      BY <1>4, <2>2, <2>3
    <3>3. ASSUME NEW i \in (b + 1)..p PROVE Comp(mem'[i + 1], pv)
      <4>1. i \in Positions(mem) /\ (i = p \/ (i \in (b + 1)..pos /\ i # it))
        <5>1. p = pos + 1
          OBVIOUS
        <5> HIDE DEF p, pos
        <5> QED  BY <1>3, <1>4, <2>2, <3>3, <5>1
      <4>2. CASE i = p
        <5>1. mem'[i + 1] = mem[it + 1]
          BY <2>3, <4>1, <4>2
        <5> QED  BY <1>8, <5>1 DEF bef, it, pv
      <4>3. CASE i # p
        <5>1. mem'[i + 1] = mem[i + 1]
          BY <2>3, <4>1, <4>3
        <5> QED  BY <1>3, <4>1, <4>3, <5>1
      <4> QED  BY <4>2, <4>3
    <3>4. ASSUME NEW i \in (p + 1)..(it + 1 - 1) PROVE ~ Comp(mem'[i + 1], pv)
      <4>1. i \in Positions(mem) /\ i # p /\ (i = it \/ i \in (pos + 1)..(it - 1)) /\ p \in (pos + 1)..(it - 1)
        <5>1. p = pos + 1
          OBVIOUS
        <5> HIDE DEF p, pos
        <5> QED  BY <1>3, <1>4, <2>2, <3>4, <5>1
      <4>2. CASE i = it
        <5>1. mem'[i + 1] = mem[p + 1]
          BY <2>3, <4>1, <4>2
        <5> QED  BY <1>3, <4>1, <5>1
      <4>3. CASE i # it
        <5>1. mem'[i + 1] = mem[i + 1]
          BY <2>3, <4>1, <4>3
        <5> QED  BY <1>3, <4>1, <4>3, <5>1
      <4> QED  BY <4>2, <4>3
    <3>5. call'.it = it + 1 /\ call'.pivot = pv /\ call'.stack # <<>>
      BY <1>1, <1>3 DEF it, pv
    <3>6. e - b >= 2 /\ pv = mem'[b + 1]
      BY <1>3, <3>2
    <3> HIDE DEF p
    <3> QED  BY <1>1, <1>5, <2>1, <2>2, <3>1, <3>3, <3>4, <3>5, <3>6 DEF PartitionTrue
  <2>8. IsArray(mem)' /\ IsArray(input)' /\ Size(mem)' = Size(input)'
    BY <1>1, <1>2, <2>3 DEF IsArray, Size
  <2> QED  BY <1>1, <1>2, <2>4, <2>5, <2>6, <2>7, <2>8 DEF SortInv
<1> QED  BY <1>7, <1>8

LEMMA PartitionEndSorts ==
  ASSUME IsCall(call), SortInv, PartitionEnd
  PROVE  SortInv'
<1> DEFINE b   == Top[1]
           e   == Top[2]
           pos == call.pos
           pv  == call.pivot
           n   == Len(call.stack)
<1>1. /\ call.op = "partition" /\ call.it >= e /\ input' = input
      /\ mem' = Swapped(mem, b, pos)
      /\ call'.op = "sort" /\ call'.asc = call.asc /\ call'.done = call.done
      /\ call'.stack = << <<b, pos>>, <<pos + 1, e>> >> \o Tail(call.stack)
  BY DEF PartitionEnd, Rest, IsCall
<1>2. /\ StackInOrder /\ SortedOutside /\ ~ call.done /\ IsArray(mem) /\ IsArray(input)
      /\ Size(mem) = Size(input) /\ call.asc \in BOOLEAN
      /\ \A w \in Word : Count(mem, w) = Count(input, w)
  BY <1>1 DEF SortInv
<1>3. /\ call.stack # <<>> /\ e - b >= 2 /\ pos \in Nat /\ call.it \in Nat
      /\ b <= pos /\ pos < call.it /\ call.it <= e /\ pv = mem[b + 1]
      /\ \A i \in (b + 1)..pos : Comp(mem[i + 1], pv)
      /\ \A i \in (pos + 1)..(call.it - 1) : ~ Comp(mem[i + 1], pv)
  BY <1>1 DEF SortInv, PartitionTrue
<1>4. /\ b \in Nat /\ e \in Nat /\ e <= Size(mem)
      /\ Size(mem) \in Nat /\ Positions(mem) = 0..(Size(mem) - 1)
      /\ \A i \in Positions(mem) : i \in Nat /\ mem[i + 1] \in Nat
      /\ n \in Nat /\ n >= 1 /\ DOMAIN call.stack = 1..n
      /\ \A k \in 1..n : Segment(k)[1] \in Nat /\ Segment(k)[2] \in Nat
      /\ \A k \in 1..n : Segment(k)[1] <= Segment(k)[2] /\ Segment(k)[2] <= Size(mem)
      /\ \A k \in 2..n : e <= Segment(k)[1]
      /\ \A k, l \in 1..n : k < l => Segment(k)[2] <= Segment(l)[1]
  BY <1>2, <1>3, StackIs, WordsAre DEF StackInOrder
<1>5. \A x, y : Before(x, y)' <=> Before(x, y)
  BY <1>1 DEF Comp, Before
<1>6. /\ pos < e /\ pos + 1 <= e /\ b < e /\ pos + 1 \in Nat
      /\ pos \in Positions(mem) /\ b \in Positions(mem)
      /\ call.it = e
  <2> HIDE DEF b, e, pos, n
  <2>1. call.it = e
    BY <1>1, <1>3, <1>4
  <2> QED  BY <1>3, <1>4, <2>1
<1>7. /\ IsArray(mem') /\ Size(mem') = Size(mem)
      /\ \A i \in Positions(mem) :
           mem'[i + 1] = IF i = b THEN mem[pos + 1] ELSE IF i = pos THEN mem[b + 1] ELSE mem[i + 1]
  <2> HIDE DEF b, pos
  <2> QED  BY <1>1, <1>2, <1>6, SwapIs
<1>8. \A w \in Word : Count(mem', w) = Count(input', w)
  <2> HIDE DEF b, pos
  <2> QED  BY <1>1, <1>2, <1>6, SwapCounts
<1>9. /\ call'.stack \in Seq(Nat \X Nat) /\ DOMAIN call'.stack = 1..(n + 1)
      /\ Segment(1)'[1] = b /\ Segment(1)'[2] = pos
      /\ Segment(2)'[1] = pos + 1 /\ Segment(2)'[2] = e
      /\ \A k \in 3..(n + 1) : k - 1 \in 2..n /\ k - 1 \in 1..n /\ Segment(k)' = Segment(k - 1)
  <2> DEFINE s == call.stack
             t == Tail(s)
             r == << <<b, pos>>, <<pos + 1, e>> >>
             u == r \o t
  <2>1. s \in Seq(Nat \X Nat) /\ s # <<>>
    BY <1>2, <1>3 DEF StackInOrder
  <2>2. n = Len(s) /\ call'.stack = u /\ (\A k : Segment(k) = s[k]) /\ (\A k : Segment(k)' = u[k])
    BY <1>1 DEF Segment
  <2> HIDE DEF s
  <2>3. t \in Seq(Nat \X Nat) /\ Len(t) = Len(s) - 1 /\ \A k \in 1..Len(t) : t[k] = s[k + 1]
    BY <2>1, HeadTailProperties
  <2> HIDE DEF t
  <2>4. /\ r \in Seq(Nat \X Nat) /\ Len(r) = 2
        /\ r[1][1] = b /\ r[1][2] = pos /\ r[2][1] = pos + 1 /\ r[2][2] = e
    <3> HIDE DEF b, pos, e
    <3> QED  BY <1>3, <1>4, <1>6
  <2> HIDE DEF r
  <2>5. /\ u \in Seq(Nat \X Nat) /\ Len(u) = Len(r) + Len(t)
        /\ \A i \in 1..(Len(r) + Len(t)) : u[i] = IF i <= Len(r) THEN r[i] ELSE t[i - Len(r)]
    BY <2>3, <2>4, ConcatProperties
  <2>6. n \in Nat /\ n >= 1 /\ Len(t) = n - 1
    BY <1>4, <2>2, <2>3
  <2> HIDE DEF u, n
  <2>7. Len(u) = n + 1 /\ DOMAIN u = 1..(n + 1)
    BY <2>4, <2>5, <2>6
  <2>8. \A i \in 1..(n + 1) : u[i] = IF i <= 2 THEN r[i] ELSE t[i - 2]
    BY <2>4, <2>5, <2>6, <2>7
  <2>9. u[1] = r[1] /\ u[2] = r[2]
    BY <2>6, <2>8
  <2>10. ASSUME NEW k \in 3..(n + 1)
         PROVE  k - 1 \in 2..n /\ k - 1 \in 1..n /\ u[k] = s[k - 1]
    <3>1. k - 1 \in 2..n /\ k - 1 \in 1..n /\ k - 2 \in 1..(n - 1) /\ k - 2 + 1 = k - 1
          /\ k \in 1..(n + 1) /\ ~ (k <= 2)
      BY <2>6, <2>10
    <3> QED  BY <2>3, <2>6, <2>8, <3>1
  <2> HIDE DEF b, pos, e
  <2> QED  BY <2>2, <2>4, <2>5, <2>7, <2>9, <2>10
<1> HIDE DEF b, pos, e, n, pv
<1>10. StackInOrder'
  <2>1. \A k \in 1..(n + 1) : k = 1 \/ k = 2 \/ k \in 3..(n + 1)
    BY <1>4
  <2>2. ASSUME NEW k \in 1..(n + 1)
        PROVE  Segment(k)'[1] <= Segment(k)'[2] /\ Segment(k)'[2] <= Size(mem)
    <3>1. CASE k = 1
      <4>1. b <= pos /\ pos <= Size(mem)
        BY <1>3, <1>4, <1>6
      <4> QED  BY <1>9, <3>1, <4>1
    <3>2. CASE k = 2
      <4>1. pos + 1 <= e /\ e <= Size(mem)
        BY <1>4, <1>6
      <4> QED  BY <1>9, <3>2, <4>1
    <3>3. CASE k \in 3..(n + 1)
      BY <1>4, <1>9, <3>3
    <3> QED  BY <2>1, <3>1, <3>2, <3>3
  <2>3. ASSUME NEW k \in 1..(n + 1), NEW l \in 1..(n + 1), k < l
        PROVE  Segment(k)'[2] <= Segment(l)'[1]
    <3>1. CASE l = 2
      <4>1. k = 1
        BY <2>3, <3>1
      <4> QED  BY <1>3, <1>9, <3>1, <4>1
    <3>2. CASE l \in 3..(n + 1)
      <4>1. e <= Segment(l - 1)[1] /\ Segment(l - 1)[1] \in Nat /\ Segment(l)' = Segment(l - 1)
        BY <1>4, <1>9, <3>2
      <4>2. CASE k = 1
        <5>1. pos \in Nat /\ e \in Nat /\ pos < e
          BY <1>3, <1>4, <1>6
        <5>2. Segment(k)'[2] = pos /\ Segment(l)'[1] \in Nat /\ e <= Segment(l)'[1]
          BY <1>9, <4>1, <4>2
        <5> QED  BY <5>1, <5>2
      <4>3. CASE k = 2
        BY <1>4, <1>9, <4>1, <4>3
      <4>4. CASE k \in 3..(n + 1)
        <5>1. k - 1 < l - 1
          BY <1>4, <2>3
        <5> QED  BY <1>4, <1>9, <3>2, <4>4, <5>1
      <4> QED  BY <2>1, <4>2, <4>3, <4>4
    <3>3. l # 1
      BY <1>4, <2>3
    <3> QED  BY <2>1, <3>1, <3>2, <3>3
  <2>4. Size(mem)' = Size(mem)
    BY <1>7 DEF Size
  <2> QED  BY <1>9, <2>2, <2>3, <2>4 DEF StackInOrder
<1>11. /\ mem'[pos + 1] = pv /\ pv \in Nat
       /\ \A i \in Positions(mem) : b <= i /\ i < pos => Comp(mem'[i + 1], pv)
       /\ \A i \in Positions(mem) : pos < i /\ i < e => ~ Comp(mem'[i + 1], pv)
       /\ \A i \in Positions(mem) : mem'[i + 1] \in Nat
  <2>1. mem'[pos + 1] = pv /\ pv \in Nat
    <3>1. pv = mem[b + 1] /\ pv \in Nat
      BY <1>3, <1>4, <1>6
    <3>2. CASE pos = b
      BY <1>6, <1>7, <3>1, <3>2
    <3>3. CASE pos # b
      BY <1>6, <1>7, <3>1, <3>3
    <3> QED  BY <3>1, <3>2, <3>3
  <2>2. ASSUME NEW i \in Positions(mem), b <= i, i < pos PROVE Comp(mem'[i + 1], pv)
    <3>1. CASE i = b
      <4>1. pos \in (b + 1)..pos
        BY <1>3, <1>4, <2>2
      <4> QED  BY <1>3, <1>7, <3>1, <4>1
    <3>2. CASE i # b
      <4>1. i \in (b + 1)..pos /\ i # pos
        BY <1>3, <1>4, <2>2, <3>2
      <4> QED  BY <1>3, <1>7, <3>2, <4>1
    <3> QED  BY <3>1, <3>2
  <2>3. ASSUME NEW i \in Positions(mem), pos < i, i < e PROVE ~ Comp(mem'[i + 1], pv)
    <3>1. i \in (pos + 1)..(call.it - 1) /\ i # b /\ i # pos
      BY <1>3, <1>4, <1>6, <2>3
    <3>2. mem'[i + 1] = mem[i + 1]
      BY <1>7, <3>1
    <3> QED  BY <1>3, <3>1, <3>2
  <2>4. \A i \in Positions(mem) : mem'[i + 1] \in Nat
    BY <1>4, <1>6, <1>7
  <2> QED  BY <2>1, <2>2, <2>3, <2>4
<1>12. SortedOutside'
  <2>1. ASSUME NEW i \in Positions(mem), NEW j \in Positions(mem), i < j
        PROVE  Together(i, j)' \/ Before(mem'[i + 1], mem'[j + 1])
    <3>0. i \in Nat /\ j \in Nat /\ 1 \in 1..(n + 1) /\ 2 \in 1..(n + 1)
      BY <1>4
    <3>1. CASE b <= i /\ j < e
      <4>1. CASE j < pos
        BY <1>9, <3>0, <3>1, <4>1 DEF Together
      <4>2. CASE pos < i
        <5>1. pos + 1 <= i
          BY <1>3, <3>0, <4>2
        <5> QED  BY <1>9, <3>0, <3>1, <5>1 DEF Together
      <4>3. CASE ~ (j < pos) /\ ~ (pos < i)
        <5>1. (i = pos /\ pos < j) \/ (i < pos /\ j = pos) \/ (i < pos /\ pos < j)
          BY <1>3, <2>1, <3>0, <4>3
        <5>2. CASE i = pos /\ pos < j
          BY <1>11, <3>1, <5>2 DEF Before
        <5>3. CASE i < pos /\ j = pos
          BY <1>2, <1>11, <3>1, <5>3, CompIs DEF Before
        <5>4. CASE i < pos /\ pos < j
          <6>1. Comp(mem'[i + 1], pv) /\ ~ Comp(mem'[j + 1], pv)
            BY <1>11, <3>1, <5>4
          <6> QED  BY <1>2, <1>11, <6>1, CompIs DEF Before
        <5> QED  BY <5>1, <5>2, <5>3, <5>4
      <4> QED  BY <4>1, <4>2, <4>3
    <3>2. CASE ~ (b <= i /\ j < e)
      <4>1. \A r \in Positions(mem) : ~ (b <= r /\ r < e) => mem'[r + 1] = mem[r + 1]
        <5>1. b <= pos /\ pos < e /\ b <= b /\ b < e
          BY <1>3, <1>4, <1>6
        <5> QED  BY <1>7, <5>1
      <4>2. ASSUME NEW r \in Positions(mem), b <= r, r < e
            PROVE  \E q \in Positions(mem) : b <= q /\ q < e /\ mem'[r + 1] = mem[q + 1]
        <5>1. b <= pos /\ pos < e /\ b <= b /\ b < e
          BY <1>3, <1>4, <1>6
        <5> QED  BY <1>6, <1>7, <4>2, <5>1
      <4>3. \/ \E k \in 2..n : Segment(k)[1] <= i /\ j < Segment(k)[2]
            \/ Before(mem'[i + 1], mem'[j + 1])
        BY <1>2, <1>3, <1>4, <2>1, <3>2, <4>1, <4>2, Rearranged DEF b, e, n
      <4>4. ASSUME NEW k \in 2..n, Segment(k)[1] <= i, j < Segment(k)[2] PROVE Together(i, j)'
        <5> DEFINE l == k + 1
        <5>1. l \in 3..(n + 1) /\ l \in 1..(n + 1) /\ l - 1 = k
          BY <1>4
        <5> HIDE DEF l
        <5>2. Segment(l)' = Segment(k)
          BY <1>9, <5>1
        <5> QED  BY <1>9, <4>4, <5>1, <5>2 DEF Together
      <4> QED  BY <4>3, <4>4
    <3> QED  BY <3>1, <3>2
  <2>2. Positions(mem)' = Positions(mem)
    BY <1>7 DEF Positions
  <2> QED  BY <1>5, <2>1, <2>2 DEF SortedOutside
<1>13. IsArray(mem)' /\ IsArray(input)' /\ Size(mem)' = Size(input)'
  BY <1>1, <1>2, <1>7 DEF IsArray, Size
<1> QED  BY <1>1, <1>2, <1>8, <1>10, <1>12, <1>13 DEF SortInv, PartitionTrue

LEMMA SortDoneSorts ==
  ASSUME IsCall(call), SortInv, SortDone
  PROVE  SortInv' /\ SortRight'
<1>1. /\ call.op = "sort" /\ call.stack = <<>> /\ mem' = mem /\ input' = input
      /\ call'.op = "sort" /\ call'.stack = <<>> /\ call'.asc = call.asc /\ call'.done = TRUE
  BY DEF SortDone, IsCall
<1>2. StackInOrder /\ SortedOutside /\ Size(mem) = Size(input)
  BY <1>1 DEF SortInv
<1>3. StackInOrder' /\ SortedOutside'
  BY <1>1, <1>2 DEF StackInOrder, SortedOutside, Together, Segment, Before, Comp, Positions, Size
<1>4. SortInv'
  BY <1>1, <1>3, SortFrame DEF SortInv, PartitionTrue
<1>5. \A i, j \in Positions(mem) : i < j => ~ Comp(mem[j + 1], mem[i + 1])
  BY <1>1, <1>2 DEF SortedOutside, Together, Before
<1>6. \A w \in Word : Count(mem, w) = Count(input, w)
  BY <1>1 DEF SortInv
<1> QED  BY <1>1, <1>2, <1>4, <1>5, <1>6 DEF SortRight, Returned, Comp, Count, Positions, Size, UnsafeRead

LEMMA SortStep ==
  ASSUME IsCall(call), SortInv, SortRight, [NextArrays]_arrayVars
  PROVE  SortInv' /\ SortRight'
<1>1. CASE UNCHANGED arrayVars
  <2>1. mem' = mem /\ input' = input /\ call' = call
    BY <1>1 DEF arrayVars
  <2>2. StackInOrder' <=> StackInOrder
    BY <2>1 DEF StackInOrder, Segment, Size
  <2>3. SortedOutside' <=> SortedOutside
    BY <2>1 DEF SortedOutside, Together, Segment, Before, Comp, Positions, Size
  <2>4. PartitionTrue' <=> PartitionTrue
    BY <2>1 DEF PartitionTrue, Top, Comp
  <2>5. call.op \in {"sort", "partition"} => SortInv'
    BY <2>1, <2>2, <2>3, <2>4, SortFrame DEF SortInv
  <2>6. SortRight'
    BY <2>1 DEF SortRight, Returned, Comp, Positions, Size, UnsafeRead
  <2> QED  BY <2>1, <2>5, <2>6 DEF SortInv
<1>2. ASSUME call'.op \notin {"sort", "partition"} PROVE SortInv' /\ SortRight'
  BY <1>2 DEF SortInv, SortRight, Returned
<1>3. ASSUME NEW m \in LongArrays, NEW asc \in BOOLEAN, Sort(m, asc) PROVE SortInv' /\ SortRight'
  <2>1. call'.done = FALSE
    BY <1>3 DEF Sort, Starts, Ready
  <2> QED  BY <1>3, <2>1, StartSorts DEF SortRight, Returned
<1>4. ASSUME NEW m, NEW op \in SearchOps, NEW element, Search(op, m, element)
      PROVE  SortInv' /\ SortRight'
  BY <1>2, <1>4 DEF Search, Starts, Ready, SearchOps
<1>5. ASSUME NEW m, NEW start, NEW end, Slice(m, start, end) \/ Splice(m, start, end)
      PROVE  SortInv' /\ SortRight'
  BY <1>2, <1>5 DEF Slice, Splice, Ready
<1>7. CASE SkipSegment \/ Partition \/ PartitionTurn \/ PartitionEnd
  <2>1. SortInv'
    BY <1>7, SkipSorts, PartitionSorts, PartitionTurnSorts, PartitionEndSorts
  <2>2. ~ call'.done
    <3>1. (call.op \in {"sort", "partition"} /\ call.stack # <<>>) \/ call.op = "partition"
      BY <1>7 DEF SkipSegment, Partition, PartitionTurn, PartitionEnd
    <3>2. ~ call.done
      BY <3>1 DEF SortInv
    <3>3. CASE SkipSegment
      BY <3>2, <3>3 DEF SkipSegment, IsCall
    <3>4. CASE Partition
      BY <3>2, <3>4 DEF Partition, IsCall
    <3>5. CASE PartitionTurn
      BY <3>2, <3>5 DEF PartitionTurn, IsCall
    <3>6. CASE PartitionEnd
      BY <3>2, <3>6 DEF PartitionEnd, IsCall
    <3> QED  BY <1>7, <3>3, <3>4, <3>5, <3>6
  <2> QED  BY <2>1, <2>2 DEF SortRight, Returned
<1>8. CASE FindUpperBound \/ LowerBound \/ UpperBound \/ LowerBoundMemory \/ UpperBoundMemory
  BY <1>2, <1>8, LookOps DEF SearchOps
<1> QED  BY <1>1, <1>3, <1>4, <1>5, <1>7, <1>8, SortDoneSorts, CallSteps

\* The sort of any array of any length, up or down, is the same words in the
\* comparator's order (Arrays.js 32-125).
THEOREM SortsRight == ArraysSpec => []SortRight
<1> DEFINE Inv == IsCall(call) /\ SortInv /\ SortRight
<1>1. InitArrays => Inv
  BY ReadyIs DEF SortInv, SortRight, Returned
<1>2. Inv /\ [NextArrays]_arrayVars => Inv'
  BY CallKept, SortStep
<1> QED  BY <1>1, <1>2, PTL DEF ArraysSpec

----------------------------------------------------------------------------
(* The Merkle proofs. *)

Place == {"leaf", "sibling", "unset"} \X Nat

Call ==
  [op : {"none", "proof", "multi", "returned"}, leaves : Seq(SUBSET Place),
   proof : Seq(SUBSET Place), flags : Seq(BOOLEAN), i : Nat, leafPos : Nat, hashPos : Nat,
   proofPos : Nat, hashes : Seq(SUBSET Place), root : SUBSET Place]

Arguments == Under(proving.leaves) \cup Under(proving.proof)

\* The siblings from pos on, and what is in the queue from pos up to the last
\* hash made.
Ahead(pos) == UNION {Item(proving.proof, k) : k \in pos..(Len(proving.proof) - 1)}

InQueue(pos) == UNION {Queued(k) : k \in pos..(Len(proving.leaves) + proving.i - 1)}

\* A branch: its hash and the siblings ahead are made of all the arguments.
BranchTrue ==
  /\ proving.i <= Len(proving.proof)
  /\ proving.root \cup Ahead(proving.i) = Arguments

\* Several leaves: how far the turns have moved in the queue and in the proof,
\* and what the queue and the siblings ahead are made of: of all the arguments,
\* as long as the queue has not run dry.
QueueTrue ==
  /\ Len(proving.leaves) + Len(proving.proof) = Len(proving.flags) + 1
  /\ Len(proving.hashes) = Len(proving.flags)
  /\ proving.i <= Len(proving.flags)
  /\ proving.proofPos <= Len(proving.proof) /\ proving.proofPos <= proving.i
  /\ QueuePos = 2 * proving.i - proving.proofPos
  /\ QueuePos < Len(proving.leaves) + proving.i =>
       InQueue(QueuePos) \cup Ahead(proving.proofPos) = Arguments

MerkleInv ==
  /\ proving \in Call
  /\ proving.op = "none" => proving = NoCall
  /\ proving.op = "proof" => BranchTrue
  /\ proving.op = "multi" => QueueTrue
  /\ ProofsSound

LEMMA GivenTyped ==
  ASSUME NEW name \in {"leaf", "sibling"}, NEW n \in Nat
  PROVE  /\ Given(name, n) \in Seq(SUBSET Place) /\ Len(Given(name, n)) = n
         /\ DOMAIN Given(name, n) = 1..n
<1>1. \A k \in 1..n : {<<name, k>>} \in SUBSET Place
  BY DEF Place
<1>2. Given(name, n) \in [1..n -> SUBSET Place]
  BY <1>1 DEF Given
<1> QED  BY <1>2

\* All that is under an array of n elements, position by position.
LEMMA UnderAll ==
  ASSUME NEW n \in Nat, NEW array \in Seq(SUBSET Place), Len(array) = n
  PROVE  UNION {Item(array, k) : k \in 0..(n - 1)} = Under(array)
<1>1. DOMAIN array = 1..n
  OBVIOUS
<1>2. ASSUME NEW x \in Under(array)  PROVE x \in UNION {Item(array, k) : k \in 0..(n - 1)}
  <2>1. PICK j \in 1..n : x \in array[j]
    BY <1>1, <1>2 DEF Under
  <2>2. j - 1 \in 0..(n - 1) /\ (j - 1) + 1 = j
    OBVIOUS
  <2> QED  BY <2>1, <2>2 DEF Item
<1>3. ASSUME NEW x \in UNION {Item(array, k) : k \in 0..(n - 1)}  PROVE x \in Under(array)
  <2>1. PICK k \in 0..(n - 1) : x \in Item(array, k)
    BY <1>3
  <2>2. k + 1 \in 1..n
    OBVIOUS
  <2> QED  BY <2>1, <2>2, <1>1 DEF Item, Under
<1> QED  BY <1>2, <1>3

LEMMA MerkleStarts == InitMerkle => MerkleInv
<1> SUFFICES ASSUME InitMerkle PROVE MerkleInv
  OBVIOUS
<1>1. <<"unset", 0>> \in Place
  BY DEF Place
<1>2. NoCall \in Call
  BY <1>1 DEF NoCall, Call, Unset
<1> QED  BY <1>2 DEF InitMerkle, MerkleInv, NoCall, ProofsSound

LEMMA BranchStarts ==
  ASSUME MerkleInv, NEW n \in 0..(MaxFlags + 1), ProcessProof(n)
  PROVE  MerkleInv'
<1> DEFINE leaf == Given("leaf", 1)
           siblings == Given("sibling", n)
<1>1. n \in Nat /\ proving = NoCall
  BY MerkleAssumption DEF MerkleInv, ProcessProof
<1>2. /\ leaf \in Seq(SUBSET Place) /\ Len(leaf) = 1 /\ DOMAIN leaf = 1..1
      /\ siblings \in Seq(SUBSET Place) /\ Len(siblings) = n
  BY <1>1, GivenTyped
<1>3. /\ proving' \in Call
      /\ proving'.op = "proof" /\ proving'.i = 0 /\ proving'.root = Item(leaf, 0)
      /\ proving'.leaves = leaf /\ proving'.proof = siblings
  <2>1. Item(leaf, 0) \in SUBSET Place
    BY <1>2 DEF Item
  <2>2. NoCall \in Call
    BY <1>1 DEF MerkleInv
  <2>3. proving' = [NoCall EXCEPT !.op = "proof", !.leaves = leaf, !.proof = siblings,
                                  !.root = Item(leaf, 0)]
    BY DEF ProcessProof
  <2> HIDE DEF leaf, siblings
  <2> QED  BY <1>2, <2>1, <2>2, <2>3 DEF Call, NoCall
<1> HIDE DEF leaf, siblings
<1>4. Item(leaf, 0) = Under(leaf)
  <2>1. Under(leaf) = UNION {leaf[k] : k \in {1}}
    BY <1>2 DEF Under
  <2> QED  BY <2>1 DEF Item
<1>5. Ahead(0)' = Under(siblings)
  BY <1>1, <1>2, <1>3, UnderAll DEF Ahead
<1>6. BranchTrue'
  <2>1. Ahead(proving.i)' = Ahead(0)'
    BY <1>3 DEF Ahead
  <2> QED  BY <1>1, <1>2, <1>3, <1>4, <1>5, <2>1 DEF BranchTrue, Arguments
<1> QED  BY <1>3, <1>6 DEF MerkleInv, ProofsSound

LEMMA BranchTurns ==
  ASSUME MerkleInv, BranchTurn
  PROVE  MerkleInv'
<1> DEFINE p == proving
           n == Len(proving.proof)
           item == Item(proving.proof, proving.i)
<1>1. /\ p \in Call /\ p.op = "proof" /\ p.i \in Nat /\ n \in Nat /\ p.i < n
      /\ p.root \cup Ahead(p.i) = Arguments
      /\ p.proof \in Seq(SUBSET Place) /\ p.root \in SUBSET Place
  BY DEF MerkleInv, BranchTurn, BranchTrue, Call
<1>2. item \in SUBSET Place
  BY <1>1 DEF Item
<1>3. /\ proving' \in Call
      /\ proving'.op = "proof" /\ proving'.i = p.i + 1 /\ proving'.root = p.root \cup item
      /\ proving'.leaves = p.leaves /\ proving'.proof = p.proof
  <2>1. PICK a, j : /\ proving' = [proving EXCEPT !.root = a, !.i = j]
                    /\ a = p.root \cup item /\ j = p.i + 1
    BY DEF BranchTurn, H
  <2>2. a \in SUBSET Place /\ j \in Nat
    BY <1>1, <1>2, <2>1
  <2>3. /\ proving' \in Call /\ proving'.op = proving.op
        /\ proving'.i = j /\ proving'.root = a
        /\ proving'.leaves = proving.leaves /\ proving'.proof = proving.proof
    BY <1>1, <2>1, <2>2 DEF Call
  <2> QED  BY <1>1, <2>1, <2>3
<1>4. Ahead(p.i) = item \cup Ahead(p.i + 1)
  <2>1. p.i..(n - 1) = {p.i} \cup ((p.i + 1)..(n - 1))
    BY <1>1
  <2> QED  BY <2>1 DEF Ahead
<1>5. BranchTrue'
  <2>1. Ahead(proving.i)' = Ahead(p.i + 1)
    BY <1>3 DEF Ahead
  <2>2. Arguments' = Arguments
    BY <1>3 DEF Arguments
  <2>3. proving'.i <= Len(proving'.proof)
    BY <1>1, <1>3
  <2> QED  BY <1>1, <1>3, <1>4, <2>1, <2>2, <2>3 DEF BranchTrue
<1> QED  BY <1>3, <1>5 DEF MerkleInv, ProofsSound

LEMMA BranchEnds ==
  ASSUME MerkleInv, BranchEnd
  PROVE  MerkleInv'
<1>1. /\ proving \in Call /\ proving.op = "proof" /\ BranchTrue
      /\ proving.i >= Len(proving.proof)
  BY DEF MerkleInv, BranchEnd
<1>2. Ahead(proving.i) = {}
  <2>1. proving.i..(Len(proving.proof) - 1) = {}
    BY <1>1 DEF BranchTrue, Call
  <2> QED  BY <2>1 DEF Ahead
<1>3. /\ proving' \in Call /\ proving'.op = "returned" /\ proving'.root = proving.root
      /\ proving'.leaves = proving.leaves /\ proving'.proof = proving.proof
  BY <1>1 DEF BranchEnd, Returns, Call
<1> QED  BY <1>1, <1>2, <1>3 DEF MerkleInv, ProofsSound, BranchTrue, Arguments

LEMMA QueueStarts ==
  ASSUME MerkleInv, NEW m \in 0..(MaxFlags + 1), NEW n \in 0..(MaxFlags + 1), NEW flags \in Flags,
         ProcessMultiProof(m, flags, n)
  PROVE  MerkleInv'
<1> DEFINE leaves == Given("leaf", n)
           siblings == Given("sibling", m)
           hashes == [f \in DOMAIN flags |-> Unset]
<1>1. n \in Nat /\ m \in Nat /\ proving = NoCall /\ n + m = Len(flags) + 1
  BY MerkleAssumption DEF MerkleInv, ProcessMultiProof, LengthsFit
<1>2. /\ leaves \in Seq(SUBSET Place) /\ Len(leaves) = n
      /\ siblings \in Seq(SUBSET Place) /\ Len(siblings) = m
  BY <1>1, GivenTyped
<1>3. /\ flags \in Seq(BOOLEAN) /\ Len(flags) \in Nat
      /\ hashes \in Seq(SUBSET Place) /\ Len(hashes) = Len(flags)
  <2>1. PICK k \in Nat : flags \in [1..k -> BOOLEAN]
    BY MerkleAssumption DEF Flags
  <2>2. Unset \in SUBSET Place
    BY DEF Unset, Place
  <2>3. hashes \in [1..k -> SUBSET Place] /\ flags \in Seq(BOOLEAN) /\ Len(flags) = k
    BY <2>1, <2>2
  <2>4. hashes \in Seq(SUBSET Place) /\ Len(hashes) = k
    <3> HIDE DEF hashes
    <3> QED  BY <2>3
  <2> QED  BY <2>3, <2>4
<1>4. /\ proving' \in Call
      /\ proving'.op = "multi" /\ proving'.i = 0 /\ proving'.proofPos = 0
      /\ proving'.leafPos = 0 /\ proving'.hashPos = 0
      /\ proving'.leaves = leaves /\ proving'.proof = siblings
      /\ proving'.flags = flags /\ proving'.hashes = hashes
  <2>1. NoCall \in Call
    BY <1>1 DEF MerkleInv
  <2>2. proving' = [NoCall EXCEPT !.op = "multi", !.leaves = leaves, !.proof = siblings,
                                  !.flags = flags, !.hashes = hashes]
    BY DEF ProcessMultiProof
  <2> HIDE DEF leaves, siblings, hashes
  <2> QED  BY <1>2, <1>3, <2>1, <2>2 DEF Call, NoCall
<1> HIDE DEF leaves, siblings, hashes
<1>5. Ahead(0)' = Under(siblings)
  BY <1>1, <1>2, <1>4, UnderAll DEF Ahead
<1>6. InQueue(0)' = Under(leaves)
  <2>1. \A k \in 0..(n - 1) : Queued(k)' = Item(leaves, k)
    BY <1>1, <1>2, <1>4 DEF Queued, Within
  <2>2. InQueue(0)' = UNION {Queued(k)' : k \in 0..(n - 1)}
    BY <1>1, <1>2, <1>4 DEF InQueue
  <2>3. InQueue(0)' = UNION {Item(leaves, k) : k \in 0..(n - 1)}
    BY <2>1, <2>2
  <2> QED  BY <1>1, <1>2, <2>3, UnderAll
<1>7. QueueTrue'
  <2>1. QueuePos' = 0
    BY <1>4 DEF QueuePos
  <2>2. InQueue(QueuePos)' = InQueue(0)' /\ Ahead(proving.proofPos)' = Ahead(0)'
    BY <1>4, <2>1 DEF InQueue, Ahead
  <2>3. InQueue(QueuePos)' \cup Ahead(proving.proofPos)' = Arguments'
    BY <1>4, <1>5, <1>6, <2>2 DEF Arguments
  <2> QED  BY <1>1, <1>2, <1>3, <1>4, <2>1, <2>3 DEF QueueTrue
<1> QED  BY <1>4, <1>7 DEF MerkleInv, ProofsSound

LEMMA MultiTyped ==
  ASSUME MerkleInv, proving.op = "multi"
  PROVE  /\ proving \in Call /\ QueueTrue
         /\ proving.i \in Nat /\ proving.proofPos \in Nat /\ QueuePos \in Nat
         /\ proving.leafPos \in Nat /\ proving.hashPos \in Nat
         /\ proving.leaves \in Seq(SUBSET Place) /\ Len(proving.leaves) \in Nat
         /\ proving.proof \in Seq(SUBSET Place) /\ Len(proving.proof) \in Nat
         /\ proving.hashes \in Seq(SUBSET Place)
         /\ proving.flags \in Seq(BOOLEAN) /\ Len(proving.flags) \in Nat
BY DEF MerkleInv, Call, QueuePos

LEMMA UnderFew ==
  ASSUME NEW array \in Seq(SUBSET Place)
  PROVE  /\ Len(array) = 0 => Under(array) = {}
         /\ Len(array) = 1 => Under(array) = Item(array, 0) /\ Item(array, 0) \in SUBSET Place
<1>1. CASE Len(array) = 0
  <2>1. DOMAIN array = {}
    BY <1>1
  <2> QED  BY <1>1, <2>1 DEF Under
<1>2. CASE Len(array) = 1
  <2>1. DOMAIN array = 1..1
    BY <1>2
  <2>2. array[1] \in SUBSET Place
    BY <2>1
  <2>3. DOMAIN array = {1}
    BY <2>1
  <2> QED  BY <1>2, <2>2, <2>3 DEF Under, Item
<1> QED  BY <1>1, <1>2

LEMMA NoneFlagged ==
  ASSUME MerkleInv, NoFlags
  PROVE  MerkleInv'
<1>1. /\ proving \in Call /\ QueueTrue /\ proving.flags = <<>>
      /\ proving.leaves \in Seq(SUBSET Place) /\ proving.proof \in Seq(SUBSET Place)
  BY MultiTyped DEF NoFlags
<1>2. PICK n \in Nat, m \in Nat : n = Len(proving.leaves) /\ m = Len(proving.proof)
  BY <1>1
<1>3. n + m = 1
  <2>1. Len(proving.flags) = 0
    BY <1>1
  <2>2. n + m = Len(proving.flags) + 1
    BY <1>1, <1>2 DEF QueueTrue
  <2> QED  BY <2>1, <2>2
<1>4. PICK word : word = Item(IF proving.leaves # <<>> THEN proving.leaves ELSE proving.proof, 0)
  OBVIOUS
<1>5. word = Under(proving.leaves) \cup Under(proving.proof) /\ word \in SUBSET Place
  <2>1. CASE n = 1
    <3>1. m = 0
      BY <1>3, <2>1
    <3>2. ASSUME proving.leaves = <<>>  PROVE FALSE
      <4>1. Len(proving.leaves) = 0
        BY <3>2
      <4>2. n = 0
        BY <1>2, <4>1
      <4> QED  BY <2>1, <4>2
    <3> QED  BY <1>1, <1>2, <1>4, <2>1, <3>1, <3>2, UnderFew
  <2>2. CASE n = 0
    <3>1. m = 1
      BY <1>3, <2>2
    <3>2. proving.leaves = <<>>
      BY <1>1, <1>2, <2>2, EmptySeq
    <3> QED  BY <1>1, <1>2, <1>4, <2>2, <3>1, <3>2, UnderFew
  <2> QED  BY <1>3, <2>1, <2>2
<1>6. /\ proving' \in Call /\ proving'.op = "returned" /\ proving'.root = word
      /\ proving'.leaves = proving.leaves /\ proving'.proof = proving.proof
  <2>1. proving' = [proving EXCEPT !.op = "returned", !.root = word]
    BY <1>4 DEF NoFlags, Returns
  <2> QED  BY <1>1, <1>5, <2>1 DEF Call
<1> QED  BY <1>5, <1>6 DEF MerkleInv, ProofsSound

\* What a turn changes, when the values it takes are hashes already made or
\* words passed.
LEMMA Combined ==
  ASSUME MerkleInv, proving.op = "multi", proving.i < Len(proving.flags),
         NEW other \in SUBSET Place, NEW next \in Nat, NEW pos \in Nat,
         Queued(QueuePos) \in SUBSET Place, Combine(other, next, pos)
  PROVE  /\ proving' \in Call
         /\ proving'.op = "multi" /\ proving'.flags = proving.flags
         /\ proving'.leaves = proving.leaves /\ proving'.proof = proving.proof
         /\ proving'.i = proving.i + 1 /\ proving'.proofPos = pos /\ QueuePos' = next
         /\ proving'.hashes = [proving.hashes EXCEPT ![proving.i + 1] = Queued(QueuePos) \cup other]
         /\ Len(proving'.hashes) = Len(proving.hashes)
<1>1. /\ proving \in Call /\ proving.i \in Nat /\ proving.leaves \in Seq(SUBSET Place)
      /\ Len(proving.leaves) \in Nat /\ Len(proving.flags) \in Nat
      /\ proving.hashes \in Seq(SUBSET Place) /\ Len(proving.hashes) = Len(proving.flags)
  BY MultiTyped DEF QueueTrue
<1>2. PICK hash \in SUBSET Place : hash = Queued(QueuePos) \cup other
  OBVIOUS
<1>3. PICK a \in Nat, b \in Nat : a = LeavesUsed(next) /\ b = next - LeavesUsed(next) /\ a + b = next
  BY <1>1 DEF LeavesUsed
<1>4. PICK hashes : hashes = [proving.hashes EXCEPT ![proving.i + 1] = hash]
  OBVIOUS
<1>5. hashes \in Seq(SUBSET Place) /\ Len(hashes) = Len(proving.hashes)
  <2>1. proving.i + 1 \in 1..Len(proving.hashes)
    BY <1>1
  <2> QED  BY <1>1, <1>4, <2>1, ExceptSeq
<1>6. proving' = [proving EXCEPT !.hashes = hashes, !.i = proving.i + 1, !.leafPos = a,
                                 !.hashPos = b, !.proofPos = pos]
  BY <1>2, <1>3, <1>4 DEF Combine, H
<1>7. /\ proving' \in Call /\ proving'.op = proving.op /\ proving'.flags = proving.flags
      /\ proving'.leaves = proving.leaves /\ proving'.proof = proving.proof
      /\ proving'.i = proving.i + 1 /\ proving'.proofPos = pos
      /\ proving'.leafPos = a /\ proving'.hashPos = b /\ proving'.hashes = hashes
  <2>1. proving.i + 1 \in Nat
    BY <1>1
  <2> QED  BY <1>1, <1>5, <1>6, <2>1 DEF Call
<1>8. QueuePos' = next
  BY <1>3, <1>7 DEF QueuePos
<1> QED  BY <1>2, <1>4, <1>5, <1>7, <1>8

\* A position that the memory of the call has holds a value.
LEMMA QueueHolds ==
  ASSUME MerkleInv, proving.op = "multi", NEW last \in Nat, QueueHas(last)
  PROVE  \A k \in 0..last : Queued(k) \in SUBSET Place
<1>1. proving.leaves \in Seq(SUBSET Place) /\ proving.hashes \in Seq(SUBSET Place)
  BY MultiTyped
<1>2. PICK n \in Nat, f \in Nat : n = Len(proving.leaves) /\ f = Len(proving.hashes)
  BY <1>1
<1>3. \A j \in 1..n : proving.leaves[j] \in SUBSET Place
  BY <1>1, <1>2
<1>4. \A j \in 1..f : proving.hashes[j] \in SUBSET Place
  BY <1>1, <1>2
<1> SUFFICES ASSUME NEW k \in 0..last PROVE Queued(k) \in SUBSET Place
  OBVIOUS
<1>5. CASE k < n
  <2>1. Queued(k) = proving.leaves[k + 1]
    BY <1>2, <1>5 DEF Queued, Within, Item
  <2> QED  BY <1>3, <1>5, <2>1
<1>6. CASE ~(k < n)
  <2>1. last - n < f
    BY <1>2, <1>6 DEF QueueHas, Within
  <2>2. (k - n) + 1 \in 1..f
    BY <1>6, <2>1
  <2>3. Queued(k) = proving.hashes[(k - n) + 1]
    BY <1>2, <1>6 DEF Queued, Within, Item
  <2> QED  BY <1>4, <2>2, <2>3
<1> QED  BY <1>5, <1>6

\* A turn makes one hash of the first of the queue and of one more: the next of
\* the queue, or the next sibling.
LEMMA TurnMakes ==
  ASSUME MerkleInv, MultiTurn
  PROVE  /\ proving.op = "multi" /\ proving.i < Len(proving.flags)
         /\ Item(proving.flags, proving.i) \in BOOLEAN
         /\ proving' \in Call
         /\ proving'.op = "multi" /\ proving'.flags = proving.flags
         /\ proving'.leaves = proving.leaves /\ proving'.proof = proving.proof
         /\ proving'.i = proving.i + 1 /\ Len(proving'.hashes) = Len(proving.hashes)
         /\ Item(proving.flags, proving.i) =>
              /\ proving'.proofPos = proving.proofPos /\ QueuePos' = QueuePos + 2
              /\ proving'.hashes = [proving.hashes EXCEPT
                   ![proving.i + 1] = Queued(QueuePos) \cup Queued(QueuePos + 1)]
         /\ ~Item(proving.flags, proving.i) =>
              /\ proving.proofPos < Len(proving.proof)
              /\ proving'.proofPos = proving.proofPos + 1 /\ QueuePos' = QueuePos + 1
              /\ proving'.hashes = [proving.hashes EXCEPT
                   ![proving.i + 1] = Queued(QueuePos) \cup Item(proving.proof, proving.proofPos)]
<1>1. /\ proving.op = "multi" /\ proving.i < Len(proving.flags)
      /\ proving.i \in Nat /\ proving.proofPos \in Nat /\ QueuePos \in Nat
      /\ proving.proof \in Seq(SUBSET Place) /\ Len(proving.proof) \in Nat
      /\ proving.flags \in Seq(BOOLEAN) /\ Len(proving.flags) \in Nat
  BY MultiTyped DEF MultiTurn
<1>2. Item(proving.flags, proving.i) \in BOOLEAN
  BY <1>1 DEF Item
<1>3. CASE Item(proving.flags, proving.i)
  <2>1. /\ QueueHas(QueuePos + 1)
        /\ Combine(Queued(QueuePos + 1), QueuePos + 2, proving.proofPos)
    BY <1>3 DEF MultiTurn
  <2>2. /\ QueuePos + 1 \in Nat /\ QueuePos + 2 \in Nat
        /\ QueuePos \in 0..(QueuePos + 1) /\ QueuePos + 1 \in 0..(QueuePos + 1)
    BY <1>1
  <2>3. Queued(QueuePos) \in SUBSET Place /\ Queued(QueuePos + 1) \in SUBSET Place
    BY <1>1, <2>1, <2>2, QueueHolds
  <2> QED  BY <1>1, <1>2, <1>3, <2>1, <2>2, <2>3, Combined
<1>4. CASE ~Item(proving.flags, proving.i)
  <2>1. /\ QueueHas(QueuePos) /\ proving.proofPos < Len(proving.proof)
        /\ Combine(Item(proving.proof, proving.proofPos), QueuePos + 1, proving.proofPos + 1)
    BY <1>4 DEF MultiTurn, Within
  <2>2. /\ QueuePos + 1 \in Nat /\ QueuePos \in 0..QueuePos /\ proving.proofPos + 1 \in Nat
        /\ proving.proofPos + 1 \in 1..Len(proving.proof)
    BY <1>1, <2>1
  <2>3. Queued(QueuePos) \in SUBSET Place /\ Item(proving.proof, proving.proofPos) \in SUBSET Place
    BY <1>1, <2>1, <2>2, QueueHolds DEF Item
  <2> QED  BY <1>1, <1>2, <1>4, <2>1, <2>2, <2>3, Combined
<1> QED  BY <1>2, <1>3, <1>4

LEMMA QueueTurns ==
  ASSUME MerkleInv, MultiTurn
  PROVE  MerkleInv'
<1>1. PICK n \in Nat, m \in Nat, f \in Nat, i \in Nat, pp \in Nat, q \in Nat, flag \in BOOLEAN :
        /\ n = Len(proving.leaves) /\ m = Len(proving.proof) /\ f = Len(proving.flags)
        /\ i = proving.i /\ pp = proving.proofPos /\ q = QueuePos
        /\ flag = Item(proving.flags, proving.i)
  BY MultiTyped, TurnMakes
<1>2. PICK hash : hash = Queued(q) \cup (IF flag THEN Queued(q + 1) ELSE Item(proving.proof, pp))
  OBVIOUS
<1>3. /\ proving.op = "multi" /\ proving' \in Call
      /\ proving'.op = "multi" /\ proving'.flags = proving.flags
      /\ proving'.leaves = proving.leaves /\ proving'.proof = proving.proof
      /\ proving'.i = i + 1 /\ Len(proving'.hashes) = Len(proving.hashes)
      /\ proving'.hashes = [proving.hashes EXCEPT ![i + 1] = hash]
  BY <1>1, <1>2, TurnMakes
<1>4. /\ i < f /\ (~flag => pp < m)
      /\ (flag => proving'.proofPos = pp /\ QueuePos' = q + 2)
      /\ (~flag => proving'.proofPos = pp + 1 /\ QueuePos' = q + 1)
  BY <1>1, TurnMakes
<1>5. /\ n + m = f + 1 /\ Len(proving.hashes) = f /\ pp <= m /\ pp <= i /\ q = 2 * i - pp
      /\ q < n + i => InQueue(q) \cup Ahead(pp) = Arguments
      /\ proving.hashes \in Seq(SUBSET Place) /\ DOMAIN proving.hashes = 1..f
  <2>1. QueueTrue /\ proving.hashes \in Seq(SUBSET Place)
    BY <1>3, MultiTyped
  <2>2. /\ n + m = f + 1 /\ Len(proving.hashes) = f /\ pp <= m /\ pp <= i /\ q = 2 * i - pp
        /\ q < n + i => InQueue(q) \cup Ahead(pp) = Arguments
    BY <1>1, <2>1 DEF QueueTrue
  <2> QED  BY <2>1, <2>2
<1>6. \A k \in 0..(n + i - 1) : Queued(k)' = Queued(k)
  <2> SUFFICES ASSUME NEW k \in 0..(n + i - 1) PROVE Queued(k)' = Queued(k)
    OBVIOUS
  <2>1. CASE k < n
    BY <1>1, <1>3, <2>1 DEF Queued, Within
  <2>2. CASE ~(k < n)
    <3>1. (k - n) + 1 \in 1..f /\ (k - n) + 1 # i + 1
      BY <1>4, <2>2
    <3>2. proving'.hashes[(k - n) + 1] = proving.hashes[(k - n) + 1]
      BY <1>3, <1>5, <3>1
    <3> QED  BY <1>1, <1>3, <2>2, <3>2 DEF Queued, Within, Item
  <2> QED  BY <2>1, <2>2
<1>7. Queued(n + i)' = hash
  <2>1. ~(n + i < n) /\ (n + i - n) + 1 = i + 1 /\ i + 1 \in 1..f
    BY <1>4
  <2>2. proving'.hashes[(n + i - n) + 1] = hash
    BY <1>3, <1>5, <2>1
  <2>3. Len(proving'.leaves) = n
    BY <1>1, <1>3
  <2> QED  BY <2>1, <2>2, <2>3 DEF Queued, Within, Item
<1>8. \A r \in Nat : InQueue(r) = UNION {Queued(k) : k \in r..(n + i - 1)}
  BY <1>1 DEF InQueue
<1>9. ASSUME NEW r \in Nat, r <= n + i
      PROVE  InQueue(r)' = hash \cup InQueue(r)
  <2>1. r..(n + (i + 1) - 1) = {n + i} \cup (r..(n + i - 1))
    BY <1>9
  <2>2. InQueue(r)' = UNION {Queued(k)' : k \in r..(n + (i + 1) - 1)}
    BY <1>1, <1>3 DEF InQueue
  <2>3. InQueue(r)' = Queued(n + i)' \cup UNION {Queued(k)' : k \in r..(n + i - 1)}
    BY <2>1, <2>2
  <2>4. \A k \in r..(n + i - 1) : Queued(k)' = Queued(k)
    BY <1>6
  <2>5. UNION {Queued(k)' : k \in r..(n + i - 1)} = UNION {Queued(k) : k \in r..(n + i - 1)}
    BY <2>4
  <2> QED  BY <1>7, <1>8, <2>3, <2>5
<1>10. ASSUME NEW r \in Nat, r < n + i
      PROVE  InQueue(r) = Queued(r) \cup InQueue(r + 1)
  <2>1. r..(n + i - 1) = {r} \cup ((r + 1)..(n + i - 1))
    BY <1>10
  <2> QED  BY <1>8, <2>1
<1>11. Arguments' = Arguments
  BY <1>3 DEF Arguments
<1>12. \A r \in Nat : Ahead(r)' = Ahead(r)
  BY <1>3 DEF Ahead
<1>13. ASSUME flag
       PROVE  QueueTrue'
  <2>1. ASSUME q + 2 < n + (i + 1)
        PROVE  InQueue(q + 2)' \cup Ahead(pp)' = Arguments'
    <3>1. /\ q < n + i /\ q + 1 < n + i /\ q + 1 \in Nat /\ q + 2 \in Nat /\ q + 2 <= n + i
          /\ (q + 1) + 1 = q + 2
      BY <2>1
    <3>2. InQueue(q + 2)' = hash \cup InQueue(q + 2)
      BY <1>9, <3>1
    <3>3. InQueue(q) = Queued(q) \cup (Queued(q + 1) \cup InQueue(q + 2))
      BY <1>10, <3>1
    <3>4. hash = Queued(q) \cup Queued(q + 1)
      BY <1>2, <1>13
    <3> QED  BY <1>5, <1>11, <1>12, <3>1, <3>2, <3>3, <3>4
  <2>2. QueuePos' = q + 2 /\ proving'.proofPos = pp
    BY <1>4, <1>13
  <2>3. InQueue(QueuePos)' = InQueue(q + 2)' /\ Ahead(proving.proofPos)' = Ahead(pp)'
    BY <2>2 DEF InQueue, Ahead
  <2>4. /\ Len(proving'.leaves) = n /\ Len(proving'.proof) = m /\ Len(proving'.flags) = f
        /\ Len(proving'.hashes) = f /\ proving'.i = i + 1
    BY <1>1, <1>3, <1>5
  <2>5. /\ n + m = f + 1 /\ i + 1 <= f /\ pp <= m /\ pp <= i + 1
        /\ q + 2 = 2 * (i + 1) - (pp)
    BY <1>5, <1>4, <1>13
  <2> QED  BY <2>1, <2>2, <2>3, <2>4, <2>5 DEF QueueTrue
<1>14. ASSUME ~flag
       PROVE  QueueTrue'
  <2>1. ASSUME q + 1 < n + (i + 1)
        PROVE  InQueue(q + 1)' \cup Ahead(pp + 1)' = Arguments'
    <3>1. q < n + i /\ q + 1 \in Nat /\ pp + 1 \in Nat /\ q + 1 <= n + i /\ pp < m
      BY <1>4, <1>14, <2>1
    <3>2. InQueue(q + 1)' = hash \cup InQueue(q + 1)
      BY <1>9, <3>1
    <3>3. InQueue(q) = Queued(q) \cup InQueue(q + 1)
      BY <1>10, <3>1
    <3>4. hash = Queued(q) \cup Item(proving.proof, pp)
      BY <1>2, <1>14
    <3>5. Ahead(pp) = Item(proving.proof, pp) \cup Ahead(pp + 1)
      <4>1. pp..(m - 1) = {pp} \cup ((pp + 1)..(m - 1))
        BY <3>1
      <4> QED  BY <1>1, <4>1 DEF Ahead
    <3> QED  BY <1>5, <1>11, <1>12, <3>1, <3>2, <3>3, <3>4, <3>5
  <2>2. QueuePos' = q + 1 /\ proving'.proofPos = pp + 1
    BY <1>4, <1>14
  <2>3. InQueue(QueuePos)' = InQueue(q + 1)' /\ Ahead(proving.proofPos)' = Ahead(pp + 1)'
    BY <2>2 DEF InQueue, Ahead
  <2>4. /\ Len(proving'.leaves) = n /\ Len(proving'.proof) = m /\ Len(proving'.flags) = f
        /\ Len(proving'.hashes) = f /\ proving'.i = i + 1
    BY <1>1, <1>3, <1>5
  <2>5. /\ n + m = f + 1 /\ i + 1 <= f /\ pp + 1 <= m /\ pp + 1 <= i + 1
        /\ q + 1 = 2 * (i + 1) - (pp + 1)
    BY <1>5, <1>4, <1>14
  <2> QED  BY <2>1, <2>2, <2>3, <2>4, <2>5 DEF QueueTrue
<1>15. QueueTrue'
  BY <1>13, <1>14
<1> QED  BY <1>3, <1>15 DEF MerkleInv, ProofsSound

LEMMA QueueEnds ==
  ASSUME MerkleInv, MultiEnd
  PROVE  MerkleInv'
<1>1. /\ proving \in Call /\ QueueTrue
      /\ proving.i \in Nat /\ proving.proofPos \in Nat
      /\ proving.hashes \in Seq(SUBSET Place) /\ proving.flags \in Seq(BOOLEAN)
      /\ proving.flags # <<>> /\ proving.i >= Len(proving.flags)
      /\ proving.proofPos = Len(proving.proof)
  BY MultiTyped DEF MultiEnd, ProofUsed
<1>2. PICK n \in Nat, m \in Nat, f \in Nat :
        n = Len(proving.leaves) /\ m = Len(proving.proof) /\ f = Len(proving.flags)
  BY MultiTyped DEF MultiEnd
<1>3. /\ n + m = f + 1 /\ Len(proving.hashes) = f /\ proving.i = f /\ proving.proofPos = m
      /\ QueuePos = 2 * f - m /\ f > 0
      /\ QueuePos < n + f => InQueue(QueuePos) \cup Ahead(m) = Arguments
  <2>1. f # 0
    BY <1>1, <1>2, EmptySeq
  <2>2. /\ n + m = f + 1 /\ Len(proving.hashes) = f /\ proving.i <= f /\ proving.i >= f
        /\ proving.proofPos = m /\ QueuePos = 2 * proving.i - m
        /\ QueuePos < n + proving.i => InQueue(QueuePos) \cup Ahead(m) = Arguments
    BY <1>1, <1>2 DEF QueueTrue
  <2>3. proving.i = f
    BY <1>1, <2>2
  <2> QED  BY <2>1, <2>2, <2>3
<1>4. /\ QueuePos = n + f - 1 /\ QueuePos < n + f /\ ~(QueuePos < n)
      /\ (QueuePos - n) + 1 = f /\ (f - 1) + 1 = f
  BY <1>3
<1>5. Ahead(m) = {}
  <2>1. m..(m - 1) = {}
    OBVIOUS
  <2> QED  BY <1>2, <2>1 DEF Ahead
<1>6. InQueue(QueuePos) = Queued(QueuePos)
  <2>1. QueuePos..(n + f - 1) = {QueuePos}
    BY <1>4
  <2>2. InQueue(QueuePos) = UNION {Queued(k) : k \in {QueuePos}}
    BY <1>2, <1>3, <2>1 DEF InQueue
  <2> QED  BY <2>2
<1>7. PICK word : word = Item(proving.hashes, f - 1)
  OBVIOUS
<1>8. word = Queued(QueuePos) /\ word \in SUBSET Place
  <2>1. word = proving.hashes[f] /\ proving.hashes[f] \in SUBSET Place
    <3>1. f \in 1..Len(proving.hashes)
      BY <1>3
    <3>2. word = proving.hashes[f]
      BY <1>4, <1>7 DEF Item
    <3> QED  BY <1>1, <3>1, <3>2
  <2>2. Queued(QueuePos) = proving.hashes[f]
    BY <1>2, <1>4 DEF Queued, Within, Item
  <2> QED  BY <2>1, <2>2
<1>9. word = Arguments
  BY <1>3, <1>4, <1>5, <1>6, <1>8
<1>10. /\ proving' \in Call /\ proving'.op = "returned" /\ proving'.root = word
       /\ proving'.leaves = proving.leaves /\ proving'.proof = proving.proof
  <2>1. proving' = [proving EXCEPT !.op = "returned", !.root = word]
    BY <1>2, <1>7 DEF MultiEnd, Returns
  <2> QED  BY <1>1, <1>8, <2>1 DEF Call
<1> QED  BY <1>9, <1>10 DEF MerkleInv, ProofsSound, Arguments

(* For any bound on the arguments: a root that the code returns was computed *)
(* from every leaf and every sibling it was given, and from nothing else     *)
(* (MerkleProof.js 132-171).                                                 *)
THEOREM RootsCoverArguments == MerkleSpec => []ProofsSound
<1>1. InitMerkle => MerkleInv
  BY MerkleStarts
<1>2. MerkleInv /\ [NextMerkle]_proving => MerkleInv'
  <2> SUFFICES ASSUME MerkleInv, [NextMerkle]_proving PROVE MerkleInv'
    OBVIOUS
  <2>1. ASSUME NEW n \in 0..(MaxFlags + 1), ProcessProof(n) PROVE MerkleInv'
    BY <2>1, BranchStarts
  <2>2. ASSUME NEW m \in 0..(MaxFlags + 1), NEW flags \in Flags, NEW n \in 0..(MaxFlags + 1),
               ProcessMultiProof(m, flags, n)
        PROVE  MerkleInv'
    BY <2>2, QueueStarts
  <2>3. CASE BranchTurn
    BY <2>3, BranchTurns
  <2>4. CASE BranchEnd
    BY <2>4, BranchEnds
  <2>5. CASE NoFlags
    BY <2>5, NoneFlagged
  <2>6. CASE MultiTurn
    BY <2>6, QueueTurns
  <2>7. CASE MultiEnd
    BY <2>7, QueueEnds
  <2>8. CASE UNCHANGED proving
    <3>1. proving' = proving
      BY <2>8
    <3>2. BranchTrue' <=> BranchTrue
      BY <3>1 DEF BranchTrue, Arguments, Ahead
    <3>3. QueueTrue' <=> QueueTrue
      BY <3>1 DEF QueueTrue, Arguments, Ahead, InQueue, QueuePos, Queued
    <3>4. ProofsSound' <=> ProofsSound
      BY <3>1 DEF ProofsSound
    <3> QED  BY <3>1, <3>2, <3>3, <3>4 DEF MerkleInv
  <2> QED  BY <2>1, <2>2, <2>3, <2>4, <2>5, <2>6, <2>7, <2>8 DEF NextMerkle
<1>3. MerkleInv => ProofsSound
  BY DEF MerkleInv
<1> QED  BY <1>1, <1>2, <1>3, PTL DEF MerkleSpec
=============================================================================
