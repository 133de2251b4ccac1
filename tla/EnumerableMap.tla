---------------------------- MODULE EnumerableMap ----------------------------
(***************************************************************************)
(* The enumerable maps that                                                *)
(* openzeppelin-contracts/scripts/generate/templates/EnumerableMap.js      *)
(* generates: an enumerable set of keys beside a mapping, in which a key   *)
(* that was never bound reads as zero.  `defaultMap' is over words,        *)
(* `customMap' wraps it for types that fit in a word, `memoryMap' repeats  *)
(* it for strings and bytes.                                               *)
(***************************************************************************)
EXTENDS EnumerableSet

CONSTANT NoValue

ASSUME MapAssumption ==
  /\ NoValue \notin Bytes32 \cup Element
  /\ \E x \in Element : ToBytes32[x] = Zero

VARIABLES
  map,       \* the map in storage
  mapKind,   \* the template it was generated from: "custom" or "memory"
  mapReply   \* the last call, its arguments and its result

mapVars == <<map, mapKind, mapReply>>

EmptyMap == [keys |-> EmptySet, values |-> [w \in Bytes32 |-> Zero]]

----------------------------------------------------------------------------
(* defaultMap. *)

HasKey(m, k) == HasWord(m.keys, k)

SetPair(m, k, v) == [m EXCEPT !.values[k] = v, !.keys = AddedWord(@, k)]

RemovedPair(m, k) == [m EXCEPT !.values[k] = Zero, !.keys = RemovedWord(@, k)]

ClearedPairs(m) ==
  [keys   |-> ClearedWords(m.keys),
   values |-> [w \in Bytes32 |->
     IF \E i \in 0..(m.keys.length - 1) : WordAt(m.keys, i) = w THEN Zero ELSE m.values[w]]]

PairCount(m) == WordCount(m.keys)

PairAt(m, i) == <<WordAt(m.keys, i), m.values[WordAt(m.keys, i)]>>

\* Mutant: a zero is taken for an unbound key.
FoundByValue(m, k) == <<m.values[k] # Zero, m.values[k]>>

\* tryGet: a zero may be a value, and then the keys are asked.
Found(m, k) == <<m.values[k] # Zero \/ HasKey(m, k), m.values[k]>>

Bound(m, k) == ~ (m.values[k] = Zero /\ ~ HasKey(m, k))

KeyWords(m, start, end) == WordSlice(m.keys, start, end)

----------------------------------------------------------------------------
(* customMap. *)

MapCall(kind, op, arg, after, result) ==
  /\ mapKind = kind
  /\ map' = after
  /\ mapReply' = [op |-> op, arg |-> arg, result |-> result]
  /\ UNCHANGED mapKind

MapSet(x, y) ==
  LET k == ToBytes32[x]
  IN  /\ map.keys.length < Capacity
      /\ MapCall("custom", "set", <<x, y>>, SetPair(map, k, ToBytes32[y]), ~ HasKey(map, k))

MapRemove(x) ==
  LET k == ToBytes32[x]
  IN  MapCall("custom", "remove", x, RemovedPair(map, k), HasKey(map, k))

MapClear == MapCall("custom", "clear", 0, ClearedPairs(map), TRUE)

MapContains(x) == MapCall("custom", "contains", x, map, HasKey(map, ToBytes32[x]))

MapLength == MapCall("custom", "length", 0, map, PairCount(map))

MapAt(i) ==
  LET pair == PairAt(map, i)
  IN  /\ i < map.keys.length
      /\ MapCall("custom", "at", i, map, <<FromBytes32(pair[1]), FromBytes32(pair[2])>>)

MapTryGet(x) ==
  LET found == Found(map, ToBytes32[x])
  IN  MapCall("custom", "tryGet", x, map, <<found[1], FromBytes32(found[2])>>)

MapGet(x) ==
  /\ Bound(map, ToBytes32[x])
  /\ MapCall("custom", "get", x, map, FromBytes32(map.values[ToBytes32[x]]))

MapKeys == MapCall("custom", "keys", <<0, map.keys.length>>, map, Converted(AllWords(map.keys)))

MapKeySlice(start, end) ==
  MapCall("custom", "keys", <<start, end>>, map, Converted(KeyWords(map, start, end)))

----------------------------------------------------------------------------
(* memoryMap: the same over the strings themselves; get asks tryGet. *)

MemoryMapSet(k, v) ==
  /\ map.keys.length < Capacity
  /\ MapCall("memory", "set", <<k, v>>, SetPair(map, k, v), ~ HasKey(map, k))

MemoryMapRemove(k) == MapCall("memory", "remove", k, RemovedPair(map, k), HasKey(map, k))

MemoryMapClear == MapCall("memory", "clear", 0, ClearedPairs(map), TRUE)

MemoryMapContains(k) == MapCall("memory", "contains", k, map, HasKey(map, k))

MemoryMapLength == MapCall("memory", "length", 0, map, PairCount(map))

MemoryMapAt(i) ==
  /\ i < map.keys.length
  /\ MapCall("memory", "at", i, map, PairAt(map, i))

MemoryMapTryGet(k) == MapCall("memory", "tryGet", k, map, Found(map, k))

MemoryMapGet(k) ==
  /\ Found(map, k)[1]
  /\ MapCall("memory", "get", k, map, Found(map, k)[2])

MemoryMapKeys == MapCall("memory", "keys", <<0, map.keys.length>>, map, AllWords(map.keys))

MemoryMapKeySlice(start, end) ==
  MapCall("memory", "keys", <<start, end>>, map, KeyWords(map, start, end))

----------------------------------------------------------------------------
InitMap ==
  /\ map = EmptyMap
  /\ mapKind \in {"custom", "memory"}
  /\ mapReply = [op |-> "none", arg |-> 0, result |-> TRUE]

NextCustomMap ==
  \/ \E x, y \in Element : MapSet(x, y)
  \/ \E x \in Element : MapRemove(x) \/ MapContains(x) \/ MapTryGet(x) \/ MapGet(x)
  \/ MapClear \/ MapLength \/ MapKeys
  \/ \E i \in Index : MapAt(i)
  \/ \E start, end \in 0..(Capacity + 1) : MapKeySlice(start, end)

NextMemoryMap ==
  \/ \E k, v \in Bytes32 : MemoryMapSet(k, v)
  \/ \E k \in Bytes32 : MemoryMapRemove(k) \/ MemoryMapContains(k)
                        \/ MemoryMapTryGet(k) \/ MemoryMapGet(k)
  \/ MemoryMapClear \/ MemoryMapLength \/ MemoryMapKeys
  \/ \E i \in Index : MemoryMapAt(i)
  \/ \E start, end \in 0..(Capacity + 1) : MemoryMapKeySlice(start, end)

NextMap == NextCustomMap \/ NextMemoryMap

MapSpec == InitMap /\ [][NextMap]_mapVars
----------------------------------------------------------------------------
\* The value bound to a key of the type the map was generated for.
Binding(k) ==
  IF mapKind = "memory"
  THEN IF k \in Bytes32 /\ HasKey(map, k) THEN map.values[k] ELSE NoValue
  ELSE IF k \in Element /\ HasKey(map, ToBytes32[k]) THEN FromBytes32(map.values[ToBytes32[k]])
       ELSE NoValue

PlainM == INSTANCE PlainMap WITH
  Key   <- Element \cup Bytes32,
  Val   <- Element \cup Bytes32,
  None  <- NoValue,
  bound <- [k \in Element \cup Bytes32 |-> Binding(k)],
  reply <- mapReply

(* Keys, values and the zero that stands for both "bound to zero" and "not   *)
(* bound": every reply is what a partial function would answer, also after a *)
(* key was bound to zero, removed, bound again or the map was cleared        *)
(* (EnumerableMap.js 75-190, 330-447).                                       *)
MapIsMap == PlainM!Spec
=============================================================================
