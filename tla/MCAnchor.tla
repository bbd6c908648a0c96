------------------------------ MODULE MCAnchor ------------------------------
(***************************************************************************)
(* Anchoring for TLC: two runs of the script compete for three receipts and   *)
(* one account, with a stranger who also calls the contract. Three batch    *)
(* ids allow three runs, so that a crashed run is followed by two more.     *)
(***************************************************************************)
EXTENDS AnchorBatches, TLC

CONSTANTS r1, r2, r3, b1, b2, b3, s1, s2

Symmetry == Permutations({r1, r2, r3}) \cup Permutations({b1, b2, b3})
              \cup Permutations({s1, s2})
=============================================================================
