----------------------------- MODULE MerkleFold -----------------------------
(***************************************************************************)
(* The Merkle tree of a batch (services/orchestrator/anchor.py): proof_for  *)
(* climbs the levels from a receipt's leaf and collects the siblings, and   *)
(* the root is the last level; then verify_proof, or MerkleVerifier in the  *)
(* browser, folds a claimed leaf with the siblings and compares.            *)
(* A leaf is any value; the keccak of two nodes, concatenated in byte       *)
(* order, is the unordered pair of the nodes: swapping them changes         *)
(* nothing, and different pairs do not collide.                             *)
(***************************************************************************)
EXTENDS Naturals, Sequences

CONSTANTS
  Leaf,       \* merkle_leaf values
  LeafLists   \* the batches looked at: batch_leaves(b), never empty

ASSUME MerkleAssumption == LeafLists \subseteq Seq(Leaf) \ {<<>>}

VARIABLES
  leaves,     \* the batch
  claimed,    \* the leaf somebody wants verified against the batch
  target,     \* the position of the receipt's leaf (leaves.index)
  phase,      \* "climb": merkle_proof and merkle_root; "fold": verify_proof
  level,      \* the current level of the tree
  idx,        \* the position in it above the receipt
  proof,      \* the siblings collected so far
  path,       \* auxiliary: the nodes from the leaf up to level[idx]
  step,       \* how many siblings verify_proof has folded
  node        \* what it has folded them to

vars == <<leaves, claimed, target, phase, level, idx, proof, path, step, node>>

Elements(s) == {s[i] : i \in DOMAIN s}

\* keccak(a + b if a <= b else b + a)
HashPair(a, b) == {a, b}

\* Positions that list.index can return: no earlier one holds the same leaf.
FirstPositions(s) == {i \in 1..Len(s) : \A j \in 1..(i - 1) : s[j] # s[i]}

Width(n) == (n + 1) \div 2

\* Mutant of NextLevel: each left neighbour is hashed with itself.
NextLevelTwins(s) ==
  [i \in 1..Width(Len(s)) |-> HashPair(s[2 * i - 1], s[2 * i - 1])]

\* The level above s: neighbours pair up, an odd tail pairs with itself.
NextLevel(s) ==
  [i \in 1..Width(Len(s)) |->
     HashPair(s[2 * i - 1], IF 2 * i <= Len(s) THEN s[2 * i] ELSE s[2 * i - 1])]

\* Mutant of Sibling: the right neighbour, or the node itself at the end.
SiblingRight(s, i) == IF i = Len(s) THEN s[i] ELSE s[i + 1]

\* level[idx ^ 1], or the node itself for an odd tail (positions from 1).
Sibling(s, i) ==
  IF i = Len(s) /\ i % 2 = 1 THEN s[i]
  ELSE IF i % 2 = 1 THEN s[i + 1] ELSE s[i - 1]

TypeOK ==
  /\ leaves \in LeafLists
  /\ claimed \in Leaf
  /\ target \in 1..Len(leaves)
  /\ phase \in {"climb", "fold", "done"}
  /\ level \in Seq(Elements(level)) /\ level # <<>>
  /\ idx \in 1..Len(level)
  /\ proof \in Seq(Elements(proof))
  /\ path \in Seq(Elements(path)) /\ Len(path) = Len(proof) + 1
  /\ step \in 0..Len(proof)

\* proof_for of a receipt of the batch; the page may show any leaf.
Init ==
  /\ leaves \in LeafLists
  /\ claimed \in Leaf
  /\ target \in FirstPositions(leaves)
  /\ phase = "climb"
  /\ level = leaves
  /\ idx = target
  /\ proof = <<>>
  /\ path = <<leaves[target]>>
  /\ step = 0
  /\ node = claimed

\* One turn of the loop of merkle_proof, which merkle_root's loop repeats.
Climb ==
  /\ phase = "climb"
  /\ Len(level) > 1
  /\ proof' = Append(proof, Sibling(level, idx))
  /\ level' = NextLevel(level)
  /\ idx' = Width(idx)
  /\ path' = Append(path, NextLevel(level)[Width(idx)])
  /\ UNCHANGED <<leaves, claimed, target, phase, step, node>>

\* One node is left: the root. proof and root go out, the verifier starts.
Publish ==
  /\ phase = "climb"
  /\ Len(level) = 1
  /\ phase' = "fold"
  /\ UNCHANGED <<leaves, claimed, target, level, idx, proof, path, step, node>>

Fold ==
  /\ phase = "fold"
  /\ step < Len(proof)
  /\ node' = HashPair(node, proof[step + 1])
  /\ step' = step + 1
  /\ UNCHANGED <<leaves, claimed, target, phase, level, idx, proof, path>>

Compare ==
  /\ phase = "fold"
  /\ step = Len(proof)
  /\ phase' = "done"
  /\ UNCHANGED <<leaves, claimed, target, level, idx, proof, path, step, node>>

Next == Climb \/ Publish \/ Fold \/ Compare

Spec == Init /\ [][Next]_vars

Root == level[1]

Verified == phase = "done" /\ node = Root

-----------------------------------------------------------------------------
(* The inductive invariant.                                                 *)

\* Each node of the path is the hash of the one below and its sibling.
PathHashes ==
  /\ path[1] = leaves[target]
  /\ \A k \in 1..Len(proof) : path[k + 1] = HashPair(path[k], proof[k])
  /\ path[Len(path)] = level[idx]

\* The verifier stands on the path exactly when it started on it.
OnPath == node = path[step + 1] <=> claimed = leaves[target]

IndInv ==
  /\ TypeOK /\ PathHashes /\ OnPath
  /\ phase = "climb" => step = 0
  /\ phase # "climb" => Len(level) = 1
  /\ phase = "done" => step = Len(proof)

-----------------------------------------------------------------------------
(* Properties.                                                              *)

\* The verifier says "verified" for the receipt's own leaf and for no other,
\* whatever the size of the batch, the odd tails on the way up and the
\* position, and although the siblings do not say left or right.
VerifiesExactly == phase = "done" => (Verified <=> claimed = leaves[target])

\* merkle_root of a list of leaves: the levels, the last one repeated.
Levels(s) ==
  LET levels[k \in 0..Len(s)] ==
        IF k = 0 THEN s
        ELSE IF Len(levels[k - 1]) = 1 THEN levels[k - 1] ELSE NextLevel(levels[k - 1])
  IN levels

RootOf(s) == Levels(s)[Len(s)][1]

\* Root and count, as the contract announces them, fix which leaves the batch
\* has: another batch of its size with other leaves has another root. (How
\* often a leaf occurs they do not fix: x, x, z and z, z, x share a root.)
RootFixesLeaves ==
  phase = "done" /\ target = 1 /\ Verified =>
    \A other \in LeafLists :
      Len(other) = Len(leaves) /\ RootOf(other) = Root =>
        Elements(other) = Elements(leaves)
=============================================================================
