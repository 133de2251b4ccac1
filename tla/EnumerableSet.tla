---------------------------- MODULE EnumerableSet ----------------------------
(***************************************************************************)
(* The enumerable sets that                                                *)
(* openzeppelin-contracts/scripts/generate/templates/EnumerableSet.js      *)
(* generates: `defaultSet' over words of storage, `customSet', which wraps *)
(* it for the types that fit in a word, and `memorySet', which repeats it  *)
(* for strings and bytes.                                                  *)
(*                                                                         *)
(* An array in storage is its slots and its length: shortening it by hand  *)
(* (Arrays.unsafeSetLength) leaves the slots as they are.                  *)
(***************************************************************************)
EXTENDS Integers, Sequences, FiniteSets

CONSTANTS
  Bytes32,     \* words, or the strings of a memory set
  Zero,        \* the word, or string, of an unused slot
  Element,     \* values of the type a custom set is for
  ToBytes32,   \* conversion.js, toBytes32
  Capacity     \* bound on the length of an array

ASSUME SetAssumption ==
  /\ Zero \in Bytes32
  /\ ToBytes32 \in [Element -> Bytes32]
  /\ \A x, y \in Element : ToBytes32[x] = ToBytes32[y] => x = y
  /\ Capacity \in Nat

VARIABLES
  set,       \* the set in storage
  setKind,   \* the template it was generated from: "custom" or "memory"
  setReply   \* the last call, its argument and its result

setVars == <<set, setKind, setReply>>

Index == 0..(Capacity - 1)

EmptySet == [slots |-> [i \in Index |-> Zero], length |-> 0,
             positions |-> [w \in Bytes32 |-> 0]]

----------------------------------------------------------------------------
(* defaultSet. *)

HasWord(s, w) == s.positions[w] # 0

AddedWord(s, w) ==
  IF HasWord(s, w) THEN s
  ELSE [s EXCEPT !.slots[s.length] = w, !.length = @ + 1, !.positions[w] = s.length + 1]

\* Mutant: the position of the word that was moved is not updated.
RemovedUntracked(s, w) ==
  LET last == s.length - 1
      at   == s.positions[w] - 1
  IN  IF ~ HasWord(s, w) THEN s
      ELSE [s EXCEPT !.slots = [@ EXCEPT ![at] = s.slots[last], ![last] = Zero],
                     !.length = last, !.positions[w] = 0]

\* The last word takes the place of the removed one.
RemovedWord(s, w) ==
  LET last == s.length - 1
      at   == s.positions[w] - 1
  IN  IF ~ HasWord(s, w) THEN s
      ELSE [s EXCEPT !.slots = [@ EXCEPT ![at] = s.slots[last], ![last] = Zero],
                     !.length = last,
                     !.positions = [@ EXCEPT ![s.slots[last]] = at + 1, ![w] = 0]]

\* Arrays.unsafeSetLength.
WithLength(s, len) == [s EXCEPT !.length = len]

ClearedWords(s) ==
  WithLength([s EXCEPT !.positions = [w \in Bytes32 |->
                IF \E i \in 0..(s.length - 1) : s.slots[i] = w THEN 0 ELSE s.positions[w]]],
             0)

WordCount(s) == s.length

WordAt(s, i) == s.slots[i]

Smaller(m, n) == IF m < n THEN m ELSE n

\* The words from start to end, both cut to what there is.
WordSlice(s, start, end) ==
  LET to   == Smaller(end, WordCount(s))
      from == Smaller(start, to)
  IN  [i \in 1..(to - from) |-> s.slots[from + i - 1]]

AllWords(s) == [i \in 1..s.length |-> s.slots[i - 1]]

----------------------------------------------------------------------------
(* customSet. *)

\* fromBytes32 of conversion.js.
FromBytes32(w) == CHOOSE x \in Element : ToBytes32[x] = w

Custom(op, arg, after, result) ==
  /\ setKind = "custom"
  /\ set' = after
  /\ setReply' = [op |-> op, arg |-> arg, result |-> result]
  /\ UNCHANGED setKind

SetAdd(x) ==
  LET w == ToBytes32[x]
  IN  /\ set.length < Capacity
      /\ Custom("add", x, AddedWord(set, w), ~ HasWord(set, w))

SetRemove(x) ==
  LET w == ToBytes32[x]
  IN  Custom("remove", x, RemovedWord(set, w), HasWord(set, w))

SetClear == Custom("clear", 0, ClearedWords(set), TRUE)

SetContains(x) == Custom("contains", x, set, HasWord(set, ToBytes32[x]))

SetLength == Custom("length", 0, set, WordCount(set))

\* Beyond the length the array access reverts.
SetAt(i) ==
  /\ i < set.length
  /\ Custom("at", i, set, FromBytes32(WordAt(set, i)))

Converted(words) == [i \in DOMAIN words |-> FromBytes32(words[i])]

SetValues == Custom("values", <<0, set.length>>, set, Converted(AllWords(set)))

SetSlice(start, end) ==
  Custom("values", <<start, end>>, set, Converted(WordSlice(set, start, end)))

----------------------------------------------------------------------------
(* memorySet: the same code over the values themselves. *)

Memory(op, arg, after, result) ==
  /\ setKind = "memory"
  /\ set' = after
  /\ setReply' = [op |-> op, arg |-> arg, result |-> result]
  /\ UNCHANGED setKind

MemoryAdd(w) ==
  /\ set.length < Capacity
  /\ Memory("add", w, AddedWord(set, w), ~ HasWord(set, w))

MemoryRemove(w) == Memory("remove", w, RemovedWord(set, w), HasWord(set, w))

MemoryClear == Memory("clear", 0, ClearedWords(set), TRUE)

MemoryContains(w) == Memory("contains", w, set, HasWord(set, w))

MemoryLength == Memory("length", 0, set, WordCount(set))

MemoryAt(i) ==
  /\ i < set.length
  /\ Memory("at", i, set, WordAt(set, i))

MemoryValues == Memory("values", <<0, set.length>>, set, AllWords(set))

MemorySlice(start, end) == Memory("values", <<start, end>>, set, WordSlice(set, start, end))

----------------------------------------------------------------------------
InitSet ==
  /\ set = EmptySet
  /\ setKind \in {"custom", "memory"}
  /\ setReply = [op |-> "none", arg |-> 0, result |-> TRUE]

NextCustom ==
  \/ \E x \in Element : SetAdd(x) \/ SetRemove(x) \/ SetContains(x)
  \/ SetClear \/ SetLength \/ SetValues
  \/ \E i \in Index : SetAt(i)
  \/ \E start, end \in 0..(Capacity + 1) : SetSlice(start, end)

NextMemory ==
  \/ \E w \in Bytes32 : MemoryAdd(w) \/ MemoryRemove(w) \/ MemoryContains(w)
  \/ MemoryClear \/ MemoryLength \/ MemoryValues
  \/ \E i \in Index : MemoryAt(i)
  \/ \E start, end \in 0..(Capacity + 1) : MemorySlice(start, end)

NextSet == NextCustom \/ NextMemory

SetSpec == InitSet /\ [][NextSet]_setVars
----------------------------------------------------------------------------
\* The words, or the strings, that are stored.
Words == {set.slots[i] : i \in 0..(set.length - 1)}

Plain == INSTANCE PlainSet WITH
  Element <- Element \cup Bytes32,
  elems   <- IF setKind = "custom" THEN {x \in Element : ToBytes32[x] \in Words} ELSE Words,
  reply   <- setReply

(* However elements are added, removed and cleared, the array and the        *)
(* positions stay two views of one set: every reply is what a set would      *)
(* answer, nothing is enumerated twice, and what a cleared array left in its *)
(* slots is never seen again (EnumerableSet.js 73-206, 330-455).             *)
SetIsSet == Plain!Spec
=============================================================================
