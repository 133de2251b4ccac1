------------------------------- MODULE Arrays -------------------------------
(***************************************************************************)
(* The array functions that                                                *)
(* openzeppelin-contracts/scripts/generate/templates/Arrays.js generates:  *)
(* quick sort, the five binary searches, slice and splice.  (Its template   *)
(* of replace is not among what it generates, 478-505.)                    *)
(*                                                                         *)
(* An array is a stretch of memory, word 0 its length and word i + 1 the   *)
(* element at position i.  A call starts with any array a caller may pass, *)
(* is cut at each turn of its loops, and leaves its result for the         *)
(* properties to see.                                                      *)
(***************************************************************************)
EXTENDS Integers, Sequences, FiniteSets

CONSTANTS
  Word,     \* elements
  MaxLen,   \* bound on the length of the arrays that are sorted and searched
  MaxCopy   \* bound on the length of the arrays that are copied

ASSUME ArraysAssumption == Word \subseteq Nat /\ MaxLen \in Nat /\ MaxCopy \in Nat

VARIABLES
  mem,     \* the array of the call
  input,   \* the array that was passed
  call     \* the function, its arguments and its local variables

arrayVars == <<mem, input, call>>

Ready == [op |-> "ready", asc |-> TRUE, stack |-> <<>>, pivot |-> 0, pos |-> 0, it |-> 0,
          element |-> 0, low |-> 0, high |-> 0, args |-> <<>>, done |-> FALSE]

InitArrays ==
  /\ mem = [i \in 0..0 |-> 0]
  /\ input = mem
  /\ call = Ready

Size(m) == m[0]

\* unsafeMemoryAccess, and unsafeAccess of a storage array.
UnsafeRead(m, pos) == m[pos + 1]

ArraysUpTo(n) ==
  UNION {{[i \in 0..k |-> IF i = 0 THEN k ELSE f[i]] : f \in [1..k -> Word]} : k \in 0..n}

Starts(m, c) ==
  /\ call.op = "ready"
  /\ mem' = m
  /\ input' = m
  /\ call' = c

Positions(m) == 0..(Size(m) - 1)

----------------------------------------------------------------------------
(* _quickSort: the recursion is a stack of segments, begin to end. *)

Comp(a, b) == IF call.asc THEN a < b ELSE a > b

Swapped(m, p, q) == [m EXCEPT ![p + 1] = m[q + 1], ![q + 1] = m[p + 1]]

\* sort(array, comp), with Comparators.lt or gt.
Sort(m, asc) ==
  Starts(m, [Ready EXCEPT !.op = "sort", !.asc = asc, !.stack = << <<0, Size(m)>> >>])

Top == call.stack[1]

SortDone ==
  /\ call.op = "sort" /\ call.stack = <<>> /\ ~ call.done
  /\ call' = [call EXCEPT !.done = TRUE]
  /\ UNCHANGED <<mem, input>>

\* Nothing to do for a segment of less than two words.
SkipSegment ==
  /\ call.op = "sort" /\ call.stack # <<>>
  /\ Top[2] - Top[1] < 2
  /\ call' = [call EXCEPT !.stack = Tail(@)]
  /\ UNCHANGED <<mem, input>>

\* The first element is the pivot.
Partition ==
  /\ call.op = "sort" /\ call.stack # <<>>
  /\ Top[2] - Top[1] >= 2
  /\ call' = [call EXCEPT !.op = "partition", !.pivot = UnsafeRead(mem, Top[1]),
                          !.pos = Top[1], !.it = Top[1] + 1]
  /\ UNCHANGED <<mem, input>>

\* What comes before the pivot moves to its left.
PartitionTurn ==
  LET before == Comp(UnsafeRead(mem, call.it), call.pivot)
      pos    == IF before THEN call.pos + 1 ELSE call.pos
  IN  /\ call.op = "partition" /\ call.it < Top[2]
      /\ mem' = IF before THEN Swapped(mem, pos, call.it) ELSE mem
      /\ call' = [call EXCEPT !.pos = pos, !.it = @ + 1]
      /\ UNCHANGED input

\* Mutant: the right side begins one element too late.
RestSkipsOne(begin, pos, end) == << <<begin, pos>>, <<pos + 2, end>> >>

\* The two sides of the pivot.
Rest(begin, pos, end) == << <<begin, pos>>, <<pos + 1, end>> >>

PartitionEnd ==
  /\ call.op = "partition" /\ call.it >= Top[2]
  /\ mem' = Swapped(mem, Top[1], call.pos)
  /\ call' = [call EXCEPT !.op = "sort",
                          !.stack = Rest(Top[1], call.pos, Top[2]) \o Tail(@)]
  /\ UNCHANGED input

----------------------------------------------------------------------------
(* The searches. *)

Ascending(m) == \A i, j \in Positions(m) : i < j => UnsafeRead(m, i) <= UnsafeRead(m, j)
Distinct(m)  == \A i, j \in Positions(m) : i < j => UnsafeRead(m, i) # UnsafeRead(m, j)

\* The documentation requires a sorted array, and findUpperBound no repetition.
Search(op, m, element) ==
  /\ Ascending(m)
  /\ op = "findUpperBound" => Distinct(m)
  /\ Starts(m, [Ready EXCEPT !.op = op, !.element = element, !.high = Size(m)])

\* Math.average rounds down.
Middle == (call.low + call.high) \div 2

MidWord == UnsafeRead(mem, Middle)

\* The loop of a search, and what it returns at its end.
Looks(op, left, result) ==
  /\ call.op = op /\ ~ call.done
  /\ call' = IF call.low >= call.high THEN [call EXCEPT !.low = result, !.done = TRUE]
             ELSE IF left THEN [call EXCEPT !.high = Middle]
             ELSE [call EXCEPT !.low = Middle + 1]
  /\ UNCHANGED <<mem, input>>

\* Mutant: equal elements stay to the right of the bound.
UpperBoundStrict == Looks("upperBound", MidWord >= call.element, call.low)

FindUpperBound ==
  Looks("findUpperBound", MidWord > call.element,
        IF call.low > 0 /\ UnsafeRead(mem, call.low - 1) = call.element
        THEN call.low - 1 ELSE call.low)

LowerBound == Looks("lowerBound", ~ (MidWord < call.element), call.low)

UpperBound == Looks("upperBound", MidWord > call.element, call.low)

LowerBoundMemory == Looks("lowerBoundMemory", ~ (MidWord < call.element), call.low)

UpperBoundMemory == Looks("upperBoundMemory", MidWord > call.element, call.low)

----------------------------------------------------------------------------
(* slice and splice: arguments are cut to what there is. *)

Min2(m, n) == IF m < n THEN m ELSE n

\* Mutant: the last word is not copied.
CopiedOneLess(to, at, from, start, n) ==
  [i \in DOMAIN to |-> IF at <= i /\ i + 1 < at + n THEN from[start + i - at] ELSE to[i]]

\* The MCOPY instruction: n words, as if through a buffer.
Copied(to, at, from, start, n) ==
  [i \in DOMAIN to |-> IF at <= i /\ i < at + n THEN from[start + i - at] ELSE to[i]]

Slice(m, start, end) ==
  LET to   == Min2(end, Size(m))
      from == Min2(start, to)
      new  == [i \in 0..(to - from) |-> IF i = 0 THEN to - from ELSE 0]
  IN  /\ call.op = "ready"
      /\ input' = m
      /\ mem' = Copied(new, 1, m, from + 1, to - from)
      /\ call' = [Ready EXCEPT !.op = "slice", !.args = <<start, end>>, !.done = TRUE]

Splice(m, start, end) ==
  LET to    == Min2(end, Size(m))
      from  == Min2(start, to)
      moved == Copied(m, 1, m, from + 1, to - from)
  IN  /\ call.op = "ready"
      /\ input' = m
      /\ mem' = [moved EXCEPT ![0] = to - from]
      /\ call' = [Ready EXCEPT !.op = "splice", !.args = <<start, end>>, !.done = TRUE]

----------------------------------------------------------------------------
SearchOps == {"findUpperBound", "lowerBound", "upperBound", "lowerBoundMemory", "upperBoundMemory"}

LongArrays == ArraysUpTo(MaxLen)
ShortArrays == ArraysUpTo(MaxCopy)

Calls ==
  /\ call.op = "ready"
  /\ \/ \E m \in LongArrays :
          \/ \E asc \in BOOLEAN : Sort(m, asc)
          \/ \E op \in SearchOps, element \in Word : Search(op, m, element)
     \/ \E m \in ShortArrays, start, end \in 0..(MaxCopy + 1) :
          \/ Slice(m, start, end)
          \/ Splice(m, start, end)

NextArrays ==
  \/ Calls
  \/ SkipSegment \/ Partition \/ PartitionTurn \/ PartitionEnd \/ SortDone
  \/ FindUpperBound \/ LowerBound \/ UpperBound \/ LowerBoundMemory \/ UpperBoundMemory

ArraysSpec == InitArrays /\ [][NextArrays]_arrayVars
----------------------------------------------------------------------------
Returned(op) == call.op = op /\ call.done

ArrayIn(m) == [i \in 1..Size(m) |-> m[i]]

(* A sorted array has the elements of the one that was passed, as often, in  *)
(* the comparator's order, whatever was in it (Arrays.js 32-51, 63-125).     *)
SortRight ==
  Returned("sort") =>
    /\ \A i, j \in Positions(mem) : i < j => ~ Comp(UnsafeRead(mem, j), UnsafeRead(mem, i))
    /\ Size(mem) = Size(input)
    /\ \A w \in Word : Cardinality({i \in Positions(mem) : UnsafeRead(mem, i) = w})
                         = Cardinality({i \in Positions(input) : UnsafeRead(input, i) = w})

\* The first `at' elements satisfy less, the others do not.
Splits(at, less) ==
  /\ at \in 0..Size(mem)
  /\ \A i \in Positions(mem) : i < at <=> i \in less

Below   == {i \in Positions(mem) : UnsafeRead(mem, i) < call.element}
NotOver == {i \in Positions(mem) : UnsafeRead(mem, i) <= call.element}

(* Each search returns the one position that splits the array at the         *)
(* element, for elements below, between, equal to and above what is there,   *)
(* and for the empty array (Arrays.js 149-314).                              *)
SearchRight ==
  /\ Returned("lowerBound") \/ Returned("lowerBoundMemory") \/ Returned("findUpperBound")
       => Splits(call.low, Below)
  /\ Returned("upperBound") \/ Returned("upperBoundMemory") => Splits(call.low, NotOver)

(* What the documentation promises of JavaScript's slice, and of splice in   *)
(* place where source and destination overlap, for every start and end a     *)
(* caller may pass: no word outside the array is read or kept (Arrays.js     *)
(* 362-424).                                                                 *)
CopyRight ==
  Returned("slice") \/ Returned("splice") =>
    ArrayIn(mem) = SubSeq(ArrayIn(input), call.args[1] + 1,
                          Min2(call.args[2], Size(input)))
=============================================================================
