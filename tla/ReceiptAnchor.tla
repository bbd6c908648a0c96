---------------------------- MODULE ReceiptAnchor ----------------------------
(***************************************************************************)
(* The ReceiptAnchor contract (contracts/src/ReceiptAnchor.sol) on a chain  *)
(* that includes transactions in nonce order: a pool of pending             *)
(* transactions of the anchoring account, at most one of which is mined     *)
(* per nonce, and the log of BatchAnchored events. The chain does not       *)
(* reorganise: a mined event stays.                                         *)
(***************************************************************************)
EXTENDS Naturals, FiniteSets

CONSTANTS
  Receipts,   \* the receipts there will ever be
  Batches,    \* batch ids (uuid4, never drawn twice)
  Accounts,   \* accounts that call the contract
  Owner,      \* the deployer
  Anchorer    \* the account of ANCHOR_PRIVATE_KEY

ASSUME AnchorAssumption ==
  /\ Owner \in Accounts
  /\ Anchorer \in Accounts

VARIABLES
  isWriter,   \* the contract's mapping
  pool,       \* pending transactions of Anchorer
  mined,      \* how many transactions of Anchorer have been mined
  log         \* BatchAnchored events, each with the transaction that emitted it

chain == <<isWriter, pool, mined, log>>

\* root stands for the pair (root, count): MerkleFold relates roots and leaves.
Txs == [sender : Accounts, batch : Batches, root : SUBSET Receipts, nonce : Nat]

ChainInit ==
  /\ isWriter = [a \in Accounts |-> a = Owner]
  /\ pool = {}
  /\ mined = 0
  /\ log = {}

\* Mutant of Anchored: anyone may anchor.
AnchoredByAnyone(tx) == log \cup {tx}

\* anchor(batchId, root, count): what the call leaves in the log.
Anchored(tx) == IF isWriter[tx.sender] THEN log \cup {tx} ELSE log

\* setWriter(writer, allowed), onlyOwner: what the call leaves in the mapping.
WriterSet(sender, writer, allowed) ==
  IF sender = Owner THEN [isWriter EXCEPT ![writer] = allowed] ELSE isWriter

\* send_raw_transaction: the node takes the transaction.
SendTx(tx) ==
  /\ pool' = pool \cup {tx}
  /\ UNCHANGED <<isWriter, mined, log>>

\* A block includes tx; other transactions with its nonce can no longer run.
Mine(tx) ==
  /\ tx \in pool
  /\ tx.nonce = mined
  /\ mined' = mined + 1
  /\ pool' = {t \in pool : t.nonce > tx.nonce}
  /\ log' = Anchored(tx)
  /\ UNCHANGED isWriter

\* The pool forgets a transaction.
Drop(tx) ==
  /\ tx \in pool
  /\ pool' = pool \ {tx}
  /\ UNCHANGED <<isWriter, mined, log>>

\* The owner admits or dismisses the anchoring account; others may try.
SetWriter(sender, allowed) ==
  /\ isWriter' = WriterSet(sender, IF sender = Owner THEN Anchorer ELSE sender, allowed)
  /\ UNCHANGED <<pool, mined, log>>

\* Some other account calls anchor with a batch and root of its choosing.
StrangerAnchors(sender, b, root) ==
  /\ sender \notin {Owner, Anchorer}
  /\ log' = Anchored([sender |-> sender, batch |-> b, root |-> root, nonce |-> 0])
  /\ UNCHANGED <<isWriter, pool, mined>>
=============================================================================
