---------------------------- MODULE ReceiptLedger ----------------------------
(***************************************************************************)
(* What anchoring promises (README.md:203-212, architecture.md section 12): *)
(* receipts are written once, grouped once into batches that never change,  *)
(* a batch is published at most once and with exactly its receipts, and     *)
(* nothing is recorded as anchored that has not been published.             *)
(* AnchorBatches implements it with scripts, transactions and a chain.      *)
(***************************************************************************)
CONSTANTS Receipts, Batches, NoBatch

VARIABLES
  written,    \* receipts in the database
  batchOf,    \* the batch of each receipt, or NoBatch
  published,  \* <<batch, receipts>> pairs anyone can read on the chain
  recorded    \* receipts the database calls anchored

ledger == <<written, batchOf, published, recorded>>

Members(b) == {r \in Receipts : batchOf[r] = b}

Init ==
  /\ written = {}
  /\ batchOf = [r \in Receipts |-> NoBatch]
  /\ published = {}
  /\ recorded = {}

WriteReceipt(r) ==
  /\ r \notin written
  /\ written' = written \cup {r}
  /\ UNCHANGED <<batchOf, published, recorded>>

\* Every receipt without a batch goes into the new one.
Group(b) ==
  /\ Members(b) = {}
  /\ \A pair \in published : pair[1] # b
  /\ batchOf' = [r \in Receipts |->
                   IF r \in written /\ batchOf[r] = NoBatch THEN b ELSE batchOf[r]]
  /\ UNCHANGED <<written, published, recorded>>

Publish(b) ==
  /\ Members(b) # {}
  /\ \A pair \in published : pair[1] # b
  /\ published' = published \cup {<<b, Members(b)>>}
  /\ UNCHANGED <<written, batchOf, recorded>>

RecordAnchor(b) ==
  /\ <<b, Members(b)>> \in published
  /\ recorded' = recorded \cup Members(b)
  /\ UNCHANGED <<written, batchOf, published>>

Next ==
  \/ \E r \in Receipts : WriteReceipt(r)
  \/ \E b \in Batches : Group(b) \/ Publish(b) \/ RecordAnchor(b)

Spec == Init /\ [][Next]_ledger
=============================================================================
