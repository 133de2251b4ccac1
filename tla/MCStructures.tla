---------------------------- MODULE MCStructures ----------------------------
(***************************************************************************)
(* Small instances of the generated data structures, which share nothing:  *)
(* one run checks them all, one structure per behaviour.                   *)
(***************************************************************************)
EXTENDS EnumerableMap, Checkpoints, Arrays, MerkleProof, TLC

CONSTANTS w1, w2, w3, x1, x2

\* x2 is the element whose word is the word of an unused slot.
Conversion == (x1 :> w1) @@ (x2 :> w3)

VARIABLE part   \* the structure of this behaviour

vars == <<part, setVars, mapVars, traceVars, arrayVars, proving>>

Init ==
  /\ part \in {"set", "map", "trace", "arrays", "merkle"}
  /\ InitSet /\ InitMap /\ InitTrace /\ InitArrays /\ InitMerkle
  /\ part # "set" => setKind = "custom"
  /\ part # "map" => mapKind = "custom"

Next ==
  /\ UNCHANGED part
  /\ \/ part = "set"    /\ NextSet    /\ UNCHANGED <<mapVars, traceVars, arrayVars, proving>>
     \/ part = "map"    /\ NextMap    /\ UNCHANGED <<setVars, traceVars, arrayVars, proving>>
     \/ part = "trace"  /\ NextTrace  /\ UNCHANGED <<setVars, mapVars, arrayVars, proving>>
     \/ part = "arrays" /\ NextArrays /\ UNCHANGED <<setVars, mapVars, traceVars, proving>>
     \/ part = "merkle" /\ NextMerkle /\ UNCHANGED <<setVars, mapVars, traceVars, arrayVars>>

Spec == Init /\ [][Next]_vars
=============================================================================
