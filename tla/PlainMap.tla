------------------------------ MODULE PlainMap ------------------------------
(***************************************************************************)
(* What the users of an EnumerableMap see: a partial function, and the     *)
(* reply to each call.  A key may well be bound to the zero of the values. *)
(***************************************************************************)
EXTENDS Integers, Sequences, FiniteSets

CONSTANTS Key, Val, None

VARIABLES
  bound,   \* the value of each key, or None
  reply    \* the last call, its arguments and its result

vars == <<bound, reply>>

Keys == {k \in Key : bound[k] # None}

Least(m, n) == IF m < n THEN m ELSE n

Init == bound = [k \in Key |-> None] /\ reply.op = "none"

Set(k, v) ==
  /\ reply'.op = "set" /\ reply'.arg = <<k, v>>
  /\ reply'.result = (bound[k] = None)
  /\ bound' = [bound EXCEPT ![k] = v]

Remove(k) ==
  /\ reply'.op = "remove" /\ reply'.arg = k
  /\ reply'.result = (bound[k] # None)
  /\ bound' = [bound EXCEPT ![k] = None]

Clear ==
  /\ reply'.op = "clear"
  /\ bound' = [k \in Key |-> None]

Contains(k) ==
  /\ reply'.op = "contains" /\ reply'.arg = k
  /\ reply'.result = (bound[k] # None)
  /\ UNCHANGED bound

Length ==
  /\ reply'.op = "length"
  /\ reply'.result = Cardinality(Keys)
  /\ UNCHANGED bound

At ==
  /\ reply'.op = "at"
  /\ reply'.result[1] \in Keys
  /\ reply'.result[2] = bound[reply'.result[1]]
  /\ UNCHANGED bound

\* Whether k is bound, and its value if it is.
TryGet(k) ==
  /\ reply'.op = "tryGet" /\ reply'.arg = k
  /\ reply'.result[1] = (bound[k] # None)
  /\ bound[k] # None => reply'.result[2] = bound[k]
  /\ UNCHANGED bound

\* Reverts for a key that is not bound.
Get(k) ==
  /\ reply'.op = "get" /\ reply'.arg = k
  /\ bound[k] # None
  /\ reply'.result = bound[k]
  /\ UNCHANGED bound

KeySlice ==
  LET n     == Cardinality(Keys)
      end   == Least(reply'.arg[2], n)
      start == Least(reply'.arg[1], end)
  IN  /\ reply'.op = "keys"
      /\ Len(reply'.result) = end - start
      /\ \A i \in DOMAIN reply'.result : reply'.result[i] \in Keys
      /\ \A i, j \in DOMAIN reply'.result : reply'.result[i] = reply'.result[j] => i = j
      /\ UNCHANGED bound

Next ==
  \/ \E k \in Key : Remove(k) \/ Contains(k) \/ TryGet(k) \/ Get(k)
  \/ \E k \in Key, v \in Val : Set(k, v)
  \/ Clear \/ Length \/ At \/ KeySlice

Spec == Init /\ [][Next]_vars
=============================================================================
