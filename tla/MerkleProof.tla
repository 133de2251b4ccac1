----------------------------- MODULE MerkleProof -----------------------------
(***************************************************************************)
(* The verification of Merkle proofs that                                  *)
(* openzeppelin-contracts/scripts/generate/templates/MerkleProof.js        *)
(* generates: the root rebuilt from one leaf and its siblings, and from    *)
(* several leaves and flags that say what each hash is made of.            *)
(*                                                                         *)
(* Nothing looks into a hash, so one is modelled by what it was computed   *)
(* from: the set of the places, in the arguments, of the leaves and        *)
(* siblings under it.  Two equal words at two places are two.  A call      *)
(* starts with whatever a caller may pass, is cut at each turn of its      *)
(* loop, and stops where the code reverts.  Positions count from 0.        *)
(***************************************************************************)
EXTENDS Integers, Sequences

CONSTANT MaxFlags   \* bound on the number of flags, and of siblings on a branch

ASSUME MerkleAssumption == MaxFlags \in Nat

VARIABLE proving   \* the call: its arguments, its local variables, its result

\* The zero of a hash that is not computed yet.
Unset == {<<"unset", 0>>}

NoCall == [op |-> "none", leaves |-> <<>>, proof |-> <<>>, flags |-> <<>>, i |-> 0,
           leafPos |-> 0, hashPos |-> 0, proofPos |-> 0, hashes |-> <<>>, root |-> Unset]

InitMerkle == proving = NoCall

\* commutativeKeccak256, or a hash that is passed: it depends on both.
H(a, b) == a \cup b

\* An argument of n words.
Given(name, n) == [k \in 1..n |-> {<<name, k>>}]

\* An access beyond the end of an array in memory reverts.
Within(array, pos) == pos < Len(array)

Item(array, pos) == array[pos + 1]

Returns(root) == proving' = [proving EXCEPT !.op = "returned", !.root = root]

----------------------------------------------------------------------------
(* processProof. *)

ProcessProof(siblings) ==
  /\ proving.op = "none"
  /\ proving' = [NoCall EXCEPT !.op = "proof", !.leaves = Given("leaf", 1),
                               !.proof = Given("sibling", siblings),
                               !.root = Item(Given("leaf", 1), 0)]

BranchTurn ==
  /\ proving.op = "proof" /\ proving.i < Len(proving.proof)
  /\ proving' = [proving EXCEPT !.root = H(@, Item(proving.proof, proving.i)), !.i = @ + 1]

BranchEnd ==
  /\ proving.op = "proof" /\ proving.i >= Len(proving.proof)
  /\ Returns(proving.root)

----------------------------------------------------------------------------
(* processMultiProof. *)

\* The proof has as many elements as the flags say are needed.
LengthsFit(leaves, siblings, flags) == leaves + siblings = Len(flags) + 1

ProcessMultiProof(siblings, flags, leaves) ==
  /\ proving.op = "none"
  /\ LengthsFit(leaves, siblings, flags)
  /\ proving' = [NoCall EXCEPT !.op = "multi", !.leaves = Given("leaf", leaves),
                               !.proof = Given("sibling", siblings), !.flags = flags,
                               !.hashes = [f \in DOMAIN flags |-> Unset]]

\* Without flags there is one leaf or one sibling, and it is the root.
NoFlags ==
  /\ proving.op = "multi" /\ proving.flags = <<>>
  /\ Returns(Item(IF proving.leaves # <<>> THEN proving.leaves ELSE proving.proof, 0))

\* What is taken at position pos of the main queue: the leaves, then the hashes.
Queued(pos) == IF Within(proving.leaves, pos) THEN Item(proving.leaves, pos)
               ELSE Item(proving.hashes, pos - Len(proving.leaves))

QueuePos == proving.leafPos + proving.hashPos

QueueHas(pos) == Within(proving.leaves, pos)
                 \/ Within(proving.hashes, pos - Len(proving.leaves))

LeavesUsed(pos) == IF pos < Len(proving.leaves) THEN pos ELSE Len(proving.leaves)

\* The first of the queue is hashed with other; next and pos are where the
\* following turn takes from.
Combine(other, next, pos) ==
  proving' = [proving EXCEPT
    !.hashes = [@ EXCEPT ![proving.i + 1] = H(Queued(QueuePos), other)],
    !.i = @ + 1,
    !.leafPos = LeavesUsed(next),
    !.hashPos = next - LeavesUsed(next),
    !.proofPos = pos]

\* A flag says whether the other one is of the queue too, or of the proof.
MultiTurn ==
  /\ proving.op = "multi" /\ proving.i < Len(proving.flags)
  /\ \/ /\ Item(proving.flags, proving.i)
        /\ QueueHas(QueuePos + 1)
        /\ Combine(Queued(QueuePos + 1), QueuePos + 2, proving.proofPos)
     \/ /\ ~Item(proving.flags, proving.i)
        /\ QueueHas(QueuePos) /\ Within(proving.proof, proving.proofPos)
        /\ Combine(Item(proving.proof, proving.proofPos), QueuePos + 1, proving.proofPos + 1)

\* Mutant: elements of the proof may be left over.
ProofMaybeUsed == TRUE

\* Otherwise it reverts.
ProofUsed == proving.proofPos = Len(proving.proof)

MultiEnd ==
  /\ proving.op = "multi" /\ proving.flags # <<>> /\ proving.i >= Len(proving.flags)
  /\ ProofUsed
  /\ Returns(Item(proving.hashes, Len(proving.flags) - 1))

----------------------------------------------------------------------------
Flags == UNION {[1..k -> BOOLEAN] : k \in 0..MaxFlags}

NextMerkle ==
  \/ \E siblings \in 0..(MaxFlags + 1) :
       \/ ProcessProof(siblings)
       \/ \E flags \in Flags, leaves \in 0..(MaxFlags + 1) :
            ProcessMultiProof(siblings, flags, leaves)
  \/ BranchTurn \/ BranchEnd \/ NoFlags \/ MultiTurn \/ MultiEnd

MerkleSpec == InitMerkle /\ [][NextMerkle]_proving
----------------------------------------------------------------------------
\* What the values of an array were computed from.
Under(array) == UNION {array[k] : k \in DOMAIN array}

(* For whatever leaves, siblings and flags a caller passes: a root that is   *)
(* returned was computed from every one of the leaves and every one of the   *)
(* siblings, and from nothing else; no hash was used before it was computed  *)
(* and none was left aside (MerkleProof.js 132-171).  That is all: nothing   *)
(* in the functions tells a leaf from the hash of two nodes, which callers   *)
(* have to keep apart (the warning at 16-21).                                *)
ProofsSound ==
  proving.op = "returned" => proving.root = Under(proving.leaves) \cup Under(proving.proof)
=============================================================================
