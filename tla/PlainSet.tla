------------------------------ MODULE PlainSet ------------------------------
(***************************************************************************)
(* What the users of an EnumerableSet see: a set, and the reply to each    *)
(* call.  How it is stored, and in which order it is enumerated, is not    *)
(* said.                                                                   *)
(***************************************************************************)
EXTENDS Integers, Sequences, FiniteSets

CONSTANT Element

VARIABLES
  elems,   \* the elements
  reply    \* the last call, its argument and its result

vars == <<elems, reply>>

Least(m, n) == IF m < n THEN m ELSE n

Init == elems = {} /\ reply.op = "none"

Add(x) ==
  /\ reply'.op = "add" /\ reply'.arg = x
  /\ reply'.result = (x \notin elems)
  /\ elems' = elems \cup {x}

Remove(x) ==
  /\ reply'.op = "remove" /\ reply'.arg = x
  /\ reply'.result = (x \in elems)
  /\ elems' = elems \ {x}

Clear ==
  /\ reply'.op = "clear"
  /\ elems' = {}

Contains(x) ==
  /\ reply'.op = "contains" /\ reply'.arg = x
  /\ reply'.result = (x \in elems)
  /\ UNCHANGED elems

Length ==
  /\ reply'.op = "length"
  /\ reply'.result = Cardinality(elems)
  /\ UNCHANGED elems

\* Any element, as long as the index is within the length; else it reverts.
At ==
  /\ reply'.op = "at"
  /\ reply'.result \in elems
  /\ UNCHANGED elems

\* Distinct elements, as many as the bounds leave of all of them.
Values ==
  LET n     == Cardinality(elems)
      end   == Least(reply'.arg[2], n)
      start == Least(reply'.arg[1], end)
  IN  /\ reply'.op = "values"
      /\ Len(reply'.result) = end - start
      /\ \A i \in DOMAIN reply'.result : reply'.result[i] \in elems
      /\ \A i, j \in DOMAIN reply'.result : reply'.result[i] = reply'.result[j] => i = j
      /\ UNCHANGED elems

Next ==
  \/ \E x \in Element : Add(x) \/ Remove(x) \/ Contains(x)
  \/ Clear \/ Length \/ At \/ Values

Spec == Init /\ [][Next]_vars
=============================================================================
