----------------------------- MODULE Checkpoints -----------------------------
(***************************************************************************)
(* The history of a value that                                             *)
(* openzeppelin-contracts/scripts/generate/templates/Checkpoints.js        *)
(* generates: checkpoints are pushed under keys that never decrease, and   *)
(* looked up by binary search.                                             *)
(*                                                                         *)
(* A lookup is cut at each turn of its loop, so that what the loop keeps   *)
(* is a statement about states; nothing is pushed meanwhile, since a call  *)
(* of the EVM is not interleaved.  Positions count from 0, as in the code. *)
(***************************************************************************)
EXTENDS Integers, Sequences

CONSTANTS
  TraceKey,     \* keys: block numbers or times
  TraceValue,   \* values
  MaxTrace      \* bound on the number of checkpoints

ASSUME TraceAssumption ==
  TraceKey \subseteq Nat /\ TraceValue \subseteq Nat /\ MaxTrace \in Nat

VARIABLES
  trace,    \* the checkpoints
  search,   \* the lookup that is running, and its bounds
  answer,   \* the last answer
  pushed    \* for the properties: what was pushed last under each key

traceVars == <<trace, search, answer, pushed>>

NoSearch == [op |-> "none", key |-> 0, low |-> 0, high |-> 0]
NoAnswer == [op |-> "none", key |-> 0, exists |-> FALSE, result |-> 0]

InitTrace ==
  /\ trace = <<>>
  /\ search = NoSearch
  /\ answer = NoAnswer
  /\ pushed = [k \in TraceKey |-> {}]

Answer(op, key, exists, result) ==
  answer' = [op |-> op, key |-> key, exists |-> exists, result |-> result]

\* Without a bounds check, as the code does it.
UnsafeAccess(pos) == trace[pos + 1]

LastKey == UnsafeAccess(Len(trace) - 1).key
LastValue == UnsafeAccess(Len(trace) - 1).value

----------------------------------------------------------------------------
\* Mutant: a key below the last one is accepted too.
AnyKey(key) == TRUE

\* Keys must be non-decreasing; otherwise the push reverts.
Ordered(key) == Len(trace) > 0 => LastKey <= key

\* _insert: a new checkpoint, or a new value for the last one.
Inserted(key, value) ==
  IF Len(trace) > 0 /\ LastKey = key
  THEN [trace EXCEPT ![Len(trace)].value = value]
  ELSE Append(trace, [key |-> key, value |-> value])

TracePush(key, value) ==
  /\ search = NoSearch
  /\ Len(trace) < MaxTrace
  /\ Ordered(key)
  /\ trace' = Inserted(key, value)
  /\ Answer("push", key, TRUE, IF Len(trace) > 0 THEN LastValue ELSE 0)
  /\ pushed' = [pushed EXCEPT ![key] = {value}]
  /\ UNCHANGED search

Begin(op, key, low, high) ==
  /\ search = NoSearch
  /\ search' = [op |-> op, key |-> key, low |-> low, high |-> high]
  /\ answer' = NoAnswer
  /\ UNCHANGED <<trace, pushed>>

LowerLookup(key) == Begin("lower", key, 0, Len(trace))

UpperLookup(key) == Begin("upper", key, 0, Len(trace))

\* Math.sqrt rounds down.
IsRoot(r, n) == r * r <= n /\ n < (r + 1) * (r + 1)

\* First a look near the end of the history, if it is long enough.
UpperLookupRecent(key) ==
  LET len == Len(trace)
  IN  IF len > 5
      THEN \E r \in 1..len :
             /\ IsRoot(r, len)
             /\ IF key < UnsafeAccess(len - r).key
                THEN Begin("upper", key, 0, len - r)
                ELSE Begin("upper", key, len - r + 1, len)
      ELSE Begin("upper", key, 0, len)

Average(low, high) == (low + high) \div 2

\* Mutant: the checkpoint in the middle is not excluded.
GoesLeftOrEqual(mid) == UnsafeAccess(mid).key >= search.key

\* One turn of _upperBinaryLookup.
GoesLeft(mid) == UnsafeAccess(mid).key > search.key

UpperTurn ==
  LET mid == Average(search.low, search.high)
  IN  /\ search.op = "upper"
      /\ search.low < search.high
      /\ search' = IF GoesLeft(mid) THEN [search EXCEPT !.high = mid]
                                    ELSE [search EXCEPT !.low = mid + 1]
      /\ UNCHANGED <<trace, answer, pushed>>

\* One turn of _lowerBinaryLookup.
LowerTurn ==
  LET mid == Average(search.low, search.high)
  IN  /\ search.op = "lower"
      /\ search.low < search.high
      /\ search' = IF UnsafeAccess(mid).key < search.key
                   THEN [search EXCEPT !.low = mid + 1]
                   ELSE [search EXCEPT !.high = mid]
      /\ UNCHANGED <<trace, answer, pushed>>

\* upperLookup and upperLookupRecent, after the search.
UpperFound ==
  LET pos == search.high
  IN  /\ search.op = "upper" /\ search.low >= search.high
      /\ Answer("upper", search.key, pos # 0,
                IF pos = 0 THEN 0 ELSE UnsafeAccess(pos - 1).value)
      /\ search' = NoSearch
      /\ UNCHANGED <<trace, pushed>>

\* lowerLookup, after the search.
LowerFound ==
  LET pos == search.high
  IN  /\ search.op = "lower" /\ search.low >= search.high
      /\ Answer("lower", search.key, pos # Len(trace),
                IF pos = Len(trace) THEN 0 ELSE UnsafeAccess(pos).value)
      /\ search' = NoSearch
      /\ UNCHANGED <<trace, pushed>>

\* latest and latestCheckpoint.
Latest ==
  /\ search = NoSearch
  /\ IF Len(trace) = 0 THEN Answer("latest", 0, FALSE, 0)
                       ELSE Answer("latest", LastKey, TRUE, LastValue)
  /\ UNCHANGED <<trace, search, pushed>>

\* at, within length.
TraceAt(pos) ==
  /\ search = NoSearch
  /\ pos < Len(trace)
  /\ Answer("at", UnsafeAccess(pos).key, TRUE, UnsafeAccess(pos).value)
  /\ UNCHANGED <<trace, search, pushed>>

NextTrace ==
  \/ \E key \in TraceKey, value \in TraceValue : TracePush(key, value)
  \/ \E key \in TraceKey : LowerLookup(key) \/ UpperLookup(key) \/ UpperLookupRecent(key)
  \/ UpperTurn \/ LowerTurn \/ UpperFound \/ LowerFound \/ Latest
  \/ \E pos \in 0..(MaxTrace - 1) : TraceAt(pos)

TraceSpec == InitTrace /\ [][NextTrace]_traceVars
----------------------------------------------------------------------------
Known == {k \in TraceKey : pushed[k] # {}}

\* What was pushed last under the greatest key of K, or under the least.
GreatestOf(K, a) == \E k \in K : (\A j \in K : j <= k) /\ a.result \in pushed[k]
LeastOf(K, a)    == \E k \in K : (\A j \in K : k <= j) /\ a.result \in pushed[k]

IsNothing(K, a) == K = {} /\ a.exists = FALSE /\ a.result = 0

(* Every answer is that of the whole history, however it is searched: the    *)
(* value pushed last under the greatest key up to the one that was asked     *)
(* for, the least key from it on, or the last key of all; zero if there is   *)
(* none.  The look near the end and the loop's rounding never skip a         *)
(* checkpoint (Checkpoints.js 52-119, 139-215).                              *)
LookupsRight ==
  [][LET a     == answer'
         upTo  == {k \in Known : k <= a.key}
         since == {k \in Known : k >= a.key}
     IN  /\ a.op = "upper"  => GreatestOf(upTo, a) \/ IsNothing(upTo, a)
         /\ a.op = "lower"  => LeastOf(since, a) \/ IsNothing(since, a)
         /\ a.op = "latest" => GreatestOf(Known, a) \/ IsNothing(Known, a)
         /\ a.op = "at"     => a.key \in Known /\ a.result \in pushed[a.key]
         /\ a.op = "push"   => GreatestOf(Known, a) \/ (Known = {} /\ a.result = 0)]_traceVars
=============================================================================
