---------------------------- MODULE AnchorBatches ----------------------------
(***************************************************************************)
(* Anchoring: receipts rows in PostgreSQL, runs of                          *)
(* scripts/anchor_receipts.py with ANCHOR_PRIVATE_KEY and                   *)
(* RECEIPT_ANCHOR_ADDRESS set (services/orchestrator/anchor.py), the        *)
(* ReceiptAnchor contract, and GET /receipts/{id} with the proof the page   *)
(* verifies. Nothing stops two runs of the script from overlapping.         *)
(* A leaf list is the set of its receipts: every read orders a batch by     *)
(* (created_at, id), so the set fixes the list.                             *)
(***************************************************************************)
EXTENDS ReceiptAnchor

CONSTANTS
  Scripts,    \* concurrent runs of anchor_receipts.py
  NoBatch,    \* batch_id IS NULL
  NoTx,       \* anchored_tx IS NULL
  MinSize,    \* --min-size
  MaxFaults   \* bound on crashes, dropped transactions and dismissals

ASSUME BatchesAssumption ==
  /\ NoBatch \notin Batches
  /\ NoTx \notin Txs
  /\ MinSize \in Nat
  /\ MaxFaults \in Nat

VARIABLES
  written,    \* committed receipts rows
  batchOf,    \* receipts.batch_id
  anchoredTx, \* receipts.anchored_tx
  drawn,      \* batch ids uuid4 has returned
  script,     \* script[s]: a run of the script
  page,       \* a GET /receipts/{id} between its two SELECTs, or its answer
  faults

database == <<written, batchOf, anchoredTx>>

vars == <<chain, database, drawn, script, page, faults>>

Members(b) == {r \in Receipts : batchOf[r] = b}

Unbatched == {r \in written : batchOf[r] = NoBatch}

NotRunning == [at |-> "idle", batch |-> NoBatch, leaves |-> {}, nonce |-> 0]

NoPage == [at |-> "idle", receipt |-> {}, batch |-> NoBatch, root |-> {}]

\* The transaction a run signs: determined by its batch, leaves and nonce.
TxOf(s) == [sender |-> Anchorer, batch |-> script[s].batch,
            root |-> script[s].leaves, nonce |-> script[s].nonce]

ScriptAt == {"idle", "assign", "read", "nonce", "send", "wait", "record"}

Runs == [at : ScriptAt, batch : Batches \cup {NoBatch}, leaves : SUBSET Receipts,
         nonce : Nat]

TypeOK ==
  /\ isWriter \in [Accounts -> BOOLEAN]
  /\ pool \subseteq Txs
  /\ mined \in Nat
  /\ log \subseteq Txs
  /\ written \subseteq Receipts
  /\ batchOf \in [Receipts -> Batches \cup {NoBatch}]
  /\ anchoredTx \in [Receipts -> Txs \cup {NoTx}]
  /\ drawn \subseteq Batches
  /\ script \in [Scripts -> Runs]
  /\ page \in [at : {"idle", "row", "shown"}, receipt : SUBSET Receipts,
               batch : Batches \cup {NoBatch}, root : SUBSET Receipts]
  /\ faults \in 0..MaxFaults

Init ==
  /\ ChainInit
  /\ written = {}
  /\ batchOf = [r \in Receipts |-> NoBatch]
  /\ anchoredTx = [r \in Receipts |-> NoTx]
  /\ drawn = {}
  /\ script = [s \in Scripts |-> NotRunning]
  /\ page = NoPage
  /\ faults = 0

-----------------------------------------------------------------------------
\* harness._persist commits a receipt (Hires models how); a retried task adds
\* another row, a row is never deleted.
WriteReceipt(r) ==
  /\ r \notin written
  /\ written' = written \cup {r}
  /\ UNCHANGED <<chain, batchOf, anchoredTx, drawn, script, page, faults>>

-----------------------------------------------------------------------------
(* One run of the script.                                                   *)

\* create_batch, its SELECT count(*): below min_size the run is over.
CountUnbatched(s) ==
  /\ script[s].at = "idle"
  /\ Cardinality(Unbatched) >= MinSize
  /\ script' = [script EXCEPT ![s].at = "assign"]
  /\ UNCHANGED <<chain, database, drawn, page, faults>>

\* Mutant of AssignBatch: every written receipt moves to the new batch.
AssignAll(s, b) ==
  /\ script[s].at = "assign"
  /\ b \notin drawn
  /\ drawn' = drawn \cup {b}
  /\ batchOf' = [r \in Receipts |-> IF r \in written THEN b ELSE batchOf[r]]
  /\ script' = [script EXCEPT ![s] = [@ EXCEPT !.at = "read", !.batch = b]]
  /\ UNCHANGED <<chain, written, anchoredTx, page, faults>>

\* create_batch, its UPDATE and commit: what another run has batched since
\* the count no longer matches the WHERE, what was written since does.
AssignBatch(s, b) ==
  /\ script[s].at = "assign"
  /\ b \notin drawn
  /\ drawn' = drawn \cup {b}
  /\ batchOf' = [r \in Receipts |-> IF r \in Unbatched THEN b ELSE batchOf[r]]
  /\ script' = [script EXCEPT ![s] = [@ EXCEPT !.at = "read", !.batch = b]]
  /\ UNCHANGED <<chain, written, anchoredTx, page, faults>>

\* submit_batch reads the leaves; an empty batch raises ValueError.
ReadLeaves(s) ==
  /\ script[s].at = "read"
  /\ LET leaves == Members(script[s].batch) IN
     script' = IF leaves = {}
               THEN [script EXCEPT ![s] = NotRunning]
               ELSE [script EXCEPT ![s] = [@ EXCEPT !.at = "nonce", !.leaves = leaves]]
  /\ UNCHANGED <<chain, database, drawn, page, faults>>

\* Mutant of ReadNonce: the nonce of the last transaction, not the next one.
ReadLastNonce(s) ==
  /\ script[s].at = "nonce"
  /\ script' = [script EXCEPT ![s] = [@ EXCEPT !.at = "send", !.nonce = mined - 1]]
  /\ UNCHANGED <<chain, database, drawn, page, faults>>

\* get_transaction_count: the number of mined transactions, pending ones apart.
ReadNonce(s) ==
  /\ script[s].at = "nonce"
  /\ script' = [script EXCEPT ![s] = [@ EXCEPT !.at = "send", !.nonce = mined]]
  /\ UNCHANGED <<chain, database, drawn, page, faults>>

\* Mutant of Send: a rejected transaction is sent again with a new nonce.
SendAndRetry(s) ==
  /\ script[s].at = "send"
  /\ SendTx(TxOf(s))
  /\ script' \in {[script EXCEPT ![s].at = "wait"], [script EXCEPT ![s].at = "nonce"]}
  /\ UNCHANGED <<database, drawn, page, faults>>

\* send_raw_transaction; a pending transaction with this nonce may be replaced.
Send(s) ==
  /\ script[s].at = "send"
  /\ script[s].nonce >= mined
  /\ SendTx(TxOf(s))
  /\ script' = [script EXCEPT ![s].at = "wait"]
  /\ UNCHANGED <<database, drawn, page, faults>>

\* The node refuses it: the nonce is used, or taken and the fee is no higher.
SendRaises(s) ==
  /\ script[s].at = "send"
  /\ script[s].nonce < mined \/ \E tx \in pool : tx.nonce = script[s].nonce
  /\ script' = [script EXCEPT ![s] = NotRunning]
  /\ UNCHANGED <<chain, database, drawn, page, faults>>

\* Mutant of AwaitReceipt: the status of the transaction receipt is ignored.
AwaitAnyStatus(s) ==
  /\ script[s].at = "wait"
  /\ mined > script[s].nonce
  /\ script' = [script EXCEPT ![s].at = "record"]
  /\ UNCHANGED <<chain, database, drawn, page, faults>>

\* wait_for_transaction_receipt returned with status 1.
AwaitReceipt(s) ==
  /\ script[s].at = "wait"
  /\ TxOf(s) \in log
  /\ script' = [script EXCEPT ![s].at = "record"]
  /\ UNCHANGED <<chain, database, drawn, page, faults>>

\* It raised: the transaction reverted, or is not mined yet after 120 s.
AwaitRaises(s) ==
  /\ script[s].at = "wait"
  /\ TxOf(s) \notin log
  /\ script' = [script EXCEPT ![s] = NotRunning]
  /\ UNCHANGED <<chain, database, drawn, page, faults>>

\* Mutant of RecordTx: the transaction is recorded on every batched receipt.
RecordEverywhere(s) ==
  /\ script[s].at = "record"
  /\ anchoredTx' = [r \in Receipts |->
                      IF batchOf[r] # NoBatch THEN TxOf(s) ELSE anchoredTx[r]]
  /\ script' = [script EXCEPT ![s] = NotRunning]
  /\ UNCHANGED <<chain, written, batchOf, drawn, page, faults>>

\* UPDATE receipts SET anchored_tx, commit; then the script reads the event
\* back, changes nothing more and exits.
RecordTx(s) ==
  /\ script[s].at = "record"
  /\ anchoredTx' = [r \in Receipts |->
                      IF batchOf[r] = script[s].batch THEN TxOf(s) ELSE anchoredTx[r]]
  /\ script' = [script EXCEPT ![s] = NotRunning]
  /\ UNCHANGED <<chain, written, batchOf, drawn, page, faults>>

Fault == faults < MaxFaults /\ faults' = faults + 1

\* The process is killed, or a database or RPC call raises: nothing catches it.
Crash(s) ==
  /\ script[s].at # "idle"
  /\ script' = [script EXCEPT ![s] = NotRunning]
  /\ Fault
  /\ UNCHANGED <<chain, database, drawn, page>>

-----------------------------------------------------------------------------
(* GET /receipts/{id}: proof_for's two SELECTs, then the browser's fold.    *)

\* The row of receipt r; without a batch the answer has no proof.
SelectRow(r) ==
  /\ page.at # "row"
  /\ r \in written
  /\ page' = IF batchOf[r] = NoBatch
             THEN NoPage
             ELSE [at |-> "row", receipt |-> {r}, batch |-> batchOf[r], root |-> {}]
  /\ UNCHANGED <<chain, database, drawn, script, faults>>

\* Mutant of SelectLeaves: the leaves of every anchored or batched receipt.
SelectAllLeaves ==
  /\ page.at = "row"
  /\ page' = [page EXCEPT !.at = "shown",
                          !.root = {r \in Receipts : batchOf[r] # NoBatch}]
  /\ UNCHANGED <<chain, database, drawn, script, faults>>

\* The leaves of the batch: proof and root are computed from them, and the
\* browser finds that the proof folds to the root.
SelectLeaves ==
  /\ page.at = "row"
  /\ page' = [page EXCEPT !.at = "shown", !.root = Members(page.batch)]
  /\ UNCHANGED <<chain, database, drawn, script, faults>>

-----------------------------------------------------------------------------
ScriptStep(s) ==
  \/ CountUnbatched(s)
  \/ \E b \in Batches : AssignBatch(s, b)
  \/ ReadLeaves(s)
  \/ ReadNonce(s)
  \/ Send(s)
  \/ SendRaises(s)
  \/ AwaitReceipt(s)
  \/ AwaitRaises(s)
  \/ RecordTx(s)

Contract ==
  \/ \E a \in Accounts : SetWriter(a, TRUE)
  \/ \E a \in Accounts, b \in Batches, root \in SUBSET Receipts :
       StrangerAnchors(a, b, root)
  \/ \E tx \in pool : Mine(tx)

Next ==
  \/ \E r \in Receipts : WriteReceipt(r)
  \/ \E s \in Scripts : ScriptStep(s) \/ Crash(s)
  \/ Contract /\ UNCHANGED <<database, drawn, script, page, faults>>
  \/ Fault /\ (\E tx \in pool : Drop(tx)) /\ UNCHANGED <<database, drawn, script, page>>
  \/ Fault /\ SetWriter(Owner, FALSE) /\ UNCHANGED <<database, drawn, script, page>>
  \/ \E r \in Receipts : SelectRow(r)
  \/ SelectLeaves

Spec == Init /\ [][Next]_vars

\* The most that scheduling can give: the script is run again and again, its
\* steps are taken, transactions are mined and the account becomes a writer.
FairSpec ==
  /\ Spec
  /\ \A s \in Scripts : WF_vars(ScriptStep(s))
  /\ WF_vars(\E tx \in pool : Mine(tx) /\ UNCHANGED <<database, drawn, script, page, faults>>)
  /\ WF_vars(SetWriter(Owner, TRUE) /\ UNCHANGED <<database, drawn, script, page, faults>>)

-----------------------------------------------------------------------------
(* The inductive invariant behind the safety properties.                    *)

Holds(s) == script[s].at \in {"read", "nonce", "send", "wait", "record"}

\* Only drawn ids are in use, and each belongs to at most one run.
IdsOwned ==
  /\ \A r \in Receipts : batchOf[r] # NoBatch => r \in written /\ batchOf[r] \in drawn
  /\ \A s \in Scripts : Holds(s) => script[s].batch \in drawn
  /\ \A s, t \in Scripts :
       Holds(s) /\ Holds(t) /\ script[s].batch = script[t].batch => s = t

\* What a run holds of its batch is what the database holds, and a run that
\* has not sent its transaction is the only one who could.
RunHonest(s) ==
  /\ script[s].at \in {"nonce", "send", "wait", "record"} =>
       script[s].leaves = Members(script[s].batch) /\ script[s].leaves # {}
  /\ script[s].at \in {"read", "nonce", "send"} =>
       \A tx \in pool \cup log : tx.batch # script[s].batch
  /\ script[s].at = "record" => TxOf(s) \in log

RunsHonest == \A s \in Scripts : RunHonest(s)

\* Pending or mined, a transaction carries its batch, and has it to itself.
TxsHonest ==
  /\ \A tx \in pool \cup log :
       tx.batch \in drawn /\ tx.root = Members(tx.batch) /\ tx.root # {}
  /\ \A tx, u \in pool \cup log : tx.batch = u.batch => tx = u

OnlyAnchorerWrites == \A a \in Accounts : isWriter[a] => a \in {Owner, Anchorer}

PageHonest ==
  /\ page.at # "idle" =>
       page.batch \in drawn /\ page.receipt \subseteq Members(page.batch)
  /\ page.at = "shown" => page.root = Members(page.batch)

-----------------------------------------------------------------------------
(* Properties.                                                              *)

\* An event for a batch carries exactly the receipts the database has in that
\* batch, whoever called the contract and whatever was batched since.
EventMatchesBatch == \A e \in log : e.root = Members(e.batch)

\* A batch is announced on the chain at most once, though runs overlap, crash,
\* time out on transactions that are mined later, and collide on nonces.
OneEventPerBatch == \A e, f \in log : e.batch = f.batch => e = f

\* No event announces an empty batch, although a run whose receipts another
\* run takes between its count and its update owns one.
NoEmptyAnchor == \A e \in log : e.root # {}

\* A receipt the database calls anchored by a transaction is in the batch, and
\* in the root, that this very transaction announced.
AnchoredIsOnChain ==
  \A r \in Receipts :
    anchoredTx[r] # NoTx =>
      /\ anchoredTx[r] \in log
      /\ anchoredTx[r].batch = batchOf[r]
      /\ r \in anchoredTx[r].root

\* The root a receipt page verifies against holds the receipt, and is the root
\* the chain announced for its batch if it announced one, although the page
\* reads row and leaves in two statements.
PageMatchesChain ==
  page.at = "shown" =>
    /\ page.receipt \subseteq page.root
    /\ \A e \in log : e.batch = page.batch => e.root = page.root

\* A batch never gains, loses or exchanges a receipt once it has one.
BatchFrozen ==
  [][\A b \in Batches : Members(b) # {} => Members(b)' = Members(b)]_vars

\* Anchoring implements the ledger that the documents promise.
Ledger == INSTANCE ReceiptLedger WITH
  published <- {<<e.batch, e.root>> : e \in log},
  recorded <- {r \in Receipts : anchoredTx[r] # NoTx}

ImplementsLedger == Ledger!Spec

IndInv ==
  TypeOK /\ IdsOwned /\ RunsHonest /\ TxsHonest /\ OnlyAnchorerWrites
  /\ PageHonest /\ AnchoredIsOnChain

\* README.md:95 and architecture.md:348: batches are anchored every 10
\* minutes, so a written receipt is anchored sooner or later.
EventuallyAnchored ==
  \A r \in Receipts : r \in written ~> anchoredTx[r] # NoTx
=============================================================================
