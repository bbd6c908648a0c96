------------------------ MODULE AnchorBatches_proofs ------------------------
(***************************************************************************)
(* Proofs about AnchorBatches for every number of receipts, batches,        *)
(* accounts and runs, any minimum size and any number of faults.            *)
(***************************************************************************)
EXTENDS AnchorBatches, TLAPS

USE DEF vars, chain, database

\* What the environment of the run leaves alone, for the steps of the chain.
Surroundings == <<database, drawn, script, page>>

\* Drawing a new batch id leaves the members of every drawn batch alone, and
\* the new batch takes unbatched receipts only (create_batch's UPDATE).
LEMMA AssignKeepsMembers ==
  ASSUME NEW s \in Scripts, NEW b \in Batches, TypeOK, IdsOwned, AssignBatch(s, b)
  PROVE  /\ Members(b) = {}
         /\ \A c \in drawn : Members(c)' = Members(c)
<1>1. NoBatch \notin Batches
  BY BatchesAssumption
<1>2. drawn \subseteq Batches /\ b \notin drawn
  BY DEF TypeOK, AssignBatch
<1>3. Members(b) = {}
  BY <1>1, <1>2 DEF IdsOwned, Members
<1>4. ASSUME NEW c \in drawn PROVE Members(c)' = Members(c)
  <2>1. c # b /\ c # NoBatch
    BY <1>1, <1>2
  <2>2. \A r \in Receipts : batchOf'[r] = c <=> batchOf[r] = c
    BY <1>1, <1>2, <2>1 DEF AssignBatch, Unbatched, TypeOK
  <2> QED BY <2>2 DEF Members
<1> QED BY <1>3, <1>4

LEMMA InitInv == Init => IndInv
<1> SUFFICES ASSUME Init PROVE IndInv
  OBVIOUS
<1> USE DEF Init, ChainInit
<1>1. TypeOK
  BY BatchesAssumption DEF TypeOK, Runs, NotRunning, NoPage, ScriptAt
<1>2. IdsOwned
  BY DEF IdsOwned, NotRunning, Holds
<1>3. RunsHonest /\ TxsHonest
  BY DEF RunsHonest, RunHonest, TxsHonest, NotRunning
<1>4. OnlyAnchorerWrites /\ PageHonest /\ AnchoredIsOnChain
  BY DEF OnlyAnchorerWrites, PageHonest, NoPage, AnchoredIsOnChain
<1> QED BY <1>1, <1>2, <1>3, <1>4 DEF IndInv

\* What a step of run s that makes it `run` does to the script variable.
LEMMA RunUpdated ==
  ASSUME TypeOK, NEW s \in Scripts, NEW run \in Runs,
         script' = [script EXCEPT ![s] = run]
  PROVE  /\ script' \in [Scripts -> Runs]
         /\ script'[s] = run
         /\ \A t \in Scripts : t # s => script'[t] = script[t]
BY DEF TypeOK

-----------------------------------------------------------------------------
(* Each kind of step preserves the invariant.                               *)

LEMMA WriteReceiptInv ==
  ASSUME IndInv, NEW r \in Receipts, WriteReceipt(r)
  PROVE  IndInv'
<1> USE DEF IndInv, WriteReceipt
<1>1. TypeOK'
  BY DEF TypeOK
<1>2. IdsOwned'
  BY DEF IdsOwned, Holds
<1>3. RunsHonest' /\ TxsHonest' /\ PageHonest'
  BY DEF RunsHonest, RunHonest, TxsHonest, PageHonest, Members, TxOf
<1>4. OnlyAnchorerWrites' /\ AnchoredIsOnChain'
  BY DEF OnlyAnchorerWrites, AnchoredIsOnChain
<1> QED BY <1>1, <1>2, <1>3, <1>4 DEF IndInv

\* A run that ends, by itself or by a crash, gives up its batch.
LEMMA StopInv ==
  ASSUME IndInv, NEW s \in Scripts,
         script' = [script EXCEPT ![s] = NotRunning],
         UNCHANGED <<chain, database, drawn, page>>,
         faults' \in 0..MaxFaults
  PROVE  IndInv'
<1> USE DEF IndInv
<1>0. \A t \in Scripts : script'[t] = IF t = s THEN NotRunning ELSE script[t]
  BY DEF TypeOK
<1>1. TypeOK'
  BY <1>0 DEF TypeOK, Runs, NotRunning, ScriptAt
<1>2. IdsOwned'
  BY <1>0 DEF IdsOwned, Holds, NotRunning
<1>3. RunsHonest'
  BY <1>0 DEF RunsHonest, RunHonest, NotRunning, Members, TxOf
<1>4. TxsHonest' /\ PageHonest'
  BY DEF TxsHonest, PageHonest, Members
<1>5. OnlyAnchorerWrites' /\ AnchoredIsOnChain'
  BY DEF OnlyAnchorerWrites, AnchoredIsOnChain
<1> QED BY <1>1, <1>2, <1>3, <1>4, <1>5 DEF IndInv

\* A run that goes on within its batch, changing nothing else: the conjuncts
\* that do not speak of where it stands carry over.
LEMMA ProceedInv ==
  ASSUME IndInv, NEW s \in Scripts, NEW run \in Runs,
         script' = [script EXCEPT ![s] = run],
         UNCHANGED <<chain, database, drawn, page, faults>>,
         run.at \in {"read", "nonce", "send", "wait", "record"} =>
           Holds(s) /\ run.batch = script[s].batch
  PROVE  /\ TypeOK' /\ IdsOwned' /\ TxsHonest'
         /\ OnlyAnchorerWrites' /\ PageHonest' /\ AnchoredIsOnChain'
<1> USE DEF IndInv
<1>1. /\ script' \in [Scripts -> Runs]
      /\ script'[s] = run
      /\ \A t \in Scripts : t # s => script'[t] = script[t]
  BY RunUpdated
<1>2. TypeOK'
  BY <1>1 DEF TypeOK
<1>3. IdsOwned'
  BY <1>1 DEF IdsOwned, Holds
<1>4. TxsHonest' /\ PageHonest'
  BY DEF TxsHonest, PageHonest, Members
<1>5. OnlyAnchorerWrites' /\ AnchoredIsOnChain'
  BY DEF OnlyAnchorerWrites, AnchoredIsOnChain
<1> QED BY <1>2, <1>3, <1>4, <1>5

\* RunsHonest after a step of run s, from what it says of s alone.
LEMMA OthersHonest ==
  ASSUME IndInv, NEW s \in Scripts, NEW run \in Runs,
         script' = [script EXCEPT ![s] = run],
         UNCHANGED <<chain, database, drawn, page, faults>>,
         run.at \in {"nonce", "send", "wait", "record"} =>
           run.leaves = Members(run.batch) /\ run.leaves # {},
         run.at \in {"read", "nonce", "send"} =>
           \A tx \in pool \cup log : tx.batch # run.batch,
         run.at = "record" => TxOf(s)' \in log
  PROVE  RunsHonest'
<1>1. /\ script'[s] = run
      /\ \A t \in Scripts : t # s => script'[t] = script[t]
  BY RunUpdated DEF IndInv
<1> SUFFICES ASSUME NEW t \in Scripts PROVE RunHonest(t)'
  BY DEF RunsHonest
<1>2. \A c : Members(c)' = Members(c)
  BY DEF Members
<1>3. CASE t = s
  BY <1>1, <1>2, <1>3 DEF RunHonest
<1>4. CASE t # s
  BY <1>1, <1>2, <1>4 DEF RunsHonest, RunHonest, IndInv, TxOf
<1> QED BY <1>3, <1>4

LEMMA CountUnbatchedInv ==
  ASSUME IndInv, NEW s \in Scripts, CountUnbatched(s)
  PROVE  IndInv'
<1> DEFINE run == [script[s] EXCEPT !.at = "assign"]
<1>1. run \in Runs /\ run.at = "assign"
  BY DEF IndInv, TypeOK, Runs, ScriptAt
<1>2. script' = [script EXCEPT ![s] = run] /\ UNCHANGED <<chain, database, drawn, page, faults>>
  BY DEF CountUnbatched
<1> HIDE DEF run
<1>3. /\ TypeOK' /\ IdsOwned' /\ TxsHonest'
      /\ OnlyAnchorerWrites' /\ PageHonest' /\ AnchoredIsOnChain'
  BY <1>1, <1>2, ProceedInv
<1>4. RunsHonest'
  BY <1>1, <1>2, OthersHonest
<1> QED BY <1>3, <1>4 DEF IndInv

LEMMA ReadLeavesInv ==
  ASSUME IndInv, NEW s \in Scripts, ReadLeaves(s), Members(script[s].batch) # {}
  PROVE  IndInv'
<1> DEFINE run == [script[s] EXCEPT !.at = "nonce", !.leaves = Members(script[s].batch)]
<1>0. Members(script[s].batch) \subseteq Receipts
  BY DEF Members
<1>1. /\ run \in Runs /\ run.at = "nonce" /\ run.batch = script[s].batch
      /\ run.leaves = Members(script[s].batch)
  BY <1>0 DEF IndInv, TypeOK, Runs, ScriptAt
<1>2. script' = [script EXCEPT ![s] = run] /\ UNCHANGED <<chain, database, drawn, page, faults>>
  BY DEF ReadLeaves
<1> HIDE DEF run
<1>3. script[s].at = "read"
  BY DEF ReadLeaves
<1>4. /\ TypeOK' /\ IdsOwned' /\ TxsHonest'
      /\ OnlyAnchorerWrites' /\ PageHonest' /\ AnchoredIsOnChain'
  BY <1>1, <1>2, <1>3, ProceedInv DEF Holds
<1>5. \A tx \in pool \cup log : tx.batch # script[s].batch
  BY <1>3 DEF IndInv, RunsHonest, RunHonest
<1>6. RunsHonest'
  BY <1>1, <1>2, <1>5, OthersHonest
<1> QED BY <1>4, <1>6 DEF IndInv

LEMMA ReadNonceInv ==
  ASSUME IndInv, NEW s \in Scripts, ReadNonce(s)
  PROVE  IndInv'
<1> DEFINE run == [script[s] EXCEPT !.at = "send", !.nonce = mined]
<1>1. /\ run \in Runs /\ run.at = "send" /\ run.batch = script[s].batch
      /\ run.leaves = script[s].leaves
  BY DEF IndInv, TypeOK, Runs, ScriptAt
<1>2. script' = [script EXCEPT ![s] = run] /\ UNCHANGED <<chain, database, drawn, page, faults>>
  BY DEF ReadNonce
<1> HIDE DEF run
<1>3. script[s].at = "nonce"
  BY DEF ReadNonce
<1>4. /\ TypeOK' /\ IdsOwned' /\ TxsHonest'
      /\ OnlyAnchorerWrites' /\ PageHonest' /\ AnchoredIsOnChain'
  BY <1>1, <1>2, <1>3, ProceedInv DEF Holds
<1>5. /\ \A tx \in pool \cup log : tx.batch # script[s].batch
      /\ script[s].leaves = Members(script[s].batch) /\ script[s].leaves # {}
  BY <1>3 DEF IndInv, RunsHonest, RunHonest
<1>6. RunsHonest'
  BY <1>1, <1>2, <1>5, OthersHonest
<1> QED BY <1>4, <1>6 DEF IndInv

LEMMA AwaitReceiptInv ==
  ASSUME IndInv, NEW s \in Scripts, AwaitReceipt(s)
  PROVE  IndInv'
<1> DEFINE run == [script[s] EXCEPT !.at = "record"]
<1>1. /\ run \in Runs /\ run.at = "record" /\ run.batch = script[s].batch
      /\ run.leaves = script[s].leaves /\ run.nonce = script[s].nonce
  BY DEF IndInv, TypeOK, Runs, ScriptAt
<1>2. script' = [script EXCEPT ![s] = run] /\ UNCHANGED <<chain, database, drawn, page, faults>>
  BY DEF AwaitReceipt
<1> HIDE DEF run
<1>3. script[s].at = "wait" /\ TxOf(s) \in log
  BY DEF AwaitReceipt
<1>4. /\ TypeOK' /\ IdsOwned' /\ TxsHonest'
      /\ OnlyAnchorerWrites' /\ PageHonest' /\ AnchoredIsOnChain'
  BY <1>1, <1>2, <1>3, ProceedInv DEF Holds
<1>5. script[s].leaves = Members(script[s].batch) /\ script[s].leaves # {}
  BY <1>3 DEF IndInv, RunsHonest, RunHonest
<1>6. TxOf(s)' = TxOf(s)
  BY <1>1, <1>2, RunUpdated DEF TxOf, IndInv
<1>7. RunsHonest'
  BY <1>1, <1>2, <1>3, <1>5, <1>6, OthersHonest
<1> QED BY <1>4, <1>7 DEF IndInv

\* The step the invariant is about: nothing that existed moves.
LEMMA AssignBatchInv ==
  ASSUME IndInv, NEW s \in Scripts, NEW b \in Batches, AssignBatch(s, b)
  PROVE  IndInv'
<1> USE DEF IndInv
<1>0. /\ Members(b) = {}
      /\ \A c \in drawn : Members(c)' = Members(c)
  BY AssignKeepsMembers
<1> DEFINE run == [script[s] EXCEPT !.at = "read", !.batch = b]
<1>r. run \in Runs /\ run.at = "read" /\ run.batch = b
  BY DEF TypeOK, Runs, ScriptAt
<1>u. script' = [script EXCEPT ![s] = run]
  BY DEF AssignBatch
<1> HIDE DEF run
<1>1. /\ script' \in [Scripts -> Runs]
      /\ script'[s] = run
      /\ \A t \in Scripts : t # s => script'[t] = script[t]
  BY <1>r, <1>u, RunUpdated
<1>2. TypeOK'
  <2>1. batchOf' \in [Receipts -> Batches \cup {NoBatch}] /\ drawn' \subseteq Batches
    BY DEF TypeOK, AssignBatch
  <2> QED BY <1>1, <2>1 DEF TypeOK, AssignBatch
<1>3. b \notin drawn /\ drawn' = drawn \cup {b}
  BY DEF AssignBatch
<1>4. IdsOwned'
  <2>1. \A r \in Receipts : batchOf'[r] # NoBatch => r \in written' /\ batchOf'[r] \in drawn'
    BY <1>3 DEF IdsOwned, AssignBatch, Unbatched, TypeOK
  <2>2. \A t \in Scripts : Holds(t)' => script'[t].batch \in drawn'
    BY <1>r, <1>1, <1>3 DEF IdsOwned, Holds
  <2>3. ASSUME NEW t \in Scripts, NEW u \in Scripts,
               Holds(t)', Holds(u)', script'[t].batch = script'[u].batch
        PROVE  t = u
    BY <1>r, <1>1, <1>3, <2>3 DEF IdsOwned, Holds
  <2> QED BY <2>1, <2>2, <2>3 DEF IdsOwned
<1>5. UNCHANGED <<chain, anchoredTx, page>>
  BY DEF AssignBatch
<1>6. RunsHonest'
  <2> SUFFICES ASSUME NEW t \in Scripts PROVE RunHonest(t)'
    BY DEF RunsHonest
  <2>1. CASE t = s
    BY <1>r, <1>1, <1>3, <1>5, <2>1 DEF TxsHonest, RunHonest
  <2>2. CASE t # s
    <3>1. script'[t] = script[t] /\ TxOf(t)' = TxOf(t)
      BY <1>1, <2>2 DEF TxOf
    <3>2. Holds(t) => script[t].batch \in drawn
      BY DEF IdsOwned
    <3>3. Holds(t) => (Members(script[t].batch))' = Members(script[t].batch)
      BY <1>0, <3>1, <3>2
    <3> QED BY <3>1, <3>3, <1>5 DEF RunsHonest, RunHonest, Holds
  <2> QED BY <2>1, <2>2
<1>7. TxsHonest'
  BY <1>0, <1>3, <1>5 DEF TxsHonest
<1>8. PageHonest'
  BY <1>0, <1>3, <1>5 DEF PageHonest
<1>9. OnlyAnchorerWrites' /\ AnchoredIsOnChain'
  <2>1. \A r \in Receipts : anchoredTx[r] # NoTx => batchOf'[r] = batchOf[r]
    BY BatchesAssumption
       DEF AnchoredIsOnChain, TypeOK, Txs, AssignBatch, Unbatched
  <2> QED BY <2>1, <1>5 DEF OnlyAnchorerWrites, AnchoredIsOnChain
<1> QED BY <1>2, <1>4, <1>6, <1>7, <1>8, <1>9 DEF IndInv

\* The transaction is the only one of its batch: its run had not sent one, and
\* no other run holds the batch.
LEMMA SendInv ==
  ASSUME IndInv, NEW s \in Scripts, Send(s)
  PROVE  IndInv'
<1> USE DEF IndInv, Send, SendTx
<1> DEFINE run == [script[s] EXCEPT !.at = "wait"]
<1>r. /\ run \in Runs /\ run.at = "wait" /\ run.batch = script[s].batch
      /\ run.leaves = script[s].leaves
  BY DEF TypeOK, Runs, ScriptAt
<1>u. script' = [script EXCEPT ![s] = run]
  OBVIOUS
<1> HIDE DEF run
<1>0. /\ script' \in [Scripts -> Runs]
      /\ script'[s] = run
      /\ \A t \in Scripts : t # s => script'[t] = script[t]
  BY <1>r, <1>u, RunUpdated
<1>1. script[s].batch \in drawn /\ drawn \subseteq Batches
  BY DEF IdsOwned, Holds, TypeOK
<1>2. TxOf(s) \in Txs /\ TxOf(s).batch = script[s].batch /\ TxOf(s).root = script[s].leaves
  BY <1>1, AnchorAssumption DEF TxOf, Txs, TypeOK, Runs
<1>3. TypeOK'
  BY <1>0, <1>2 DEF TypeOK
<1>4. IdsOwned'
  BY <1>r, <1>0 DEF IdsOwned, Holds
<1>5. RunsHonest'
  <2> SUFFICES ASSUME NEW t \in Scripts PROVE RunHonest(t)'
    BY DEF RunsHonest
  <2>1. CASE t = s
    BY <1>r, <1>0, <2>1 DEF RunsHonest, RunHonest, Members
  <2>2. CASE t # s
    <3>1. script'[t] = script[t] /\ TxOf(t)' = TxOf(t)
      BY <1>0, <2>2 DEF TxOf
    <3>2. script[t].at \in {"read", "nonce", "send"} => script[t].batch # script[s].batch
      BY <2>2 DEF IdsOwned, Holds
    <3>3. Members(script[t].batch)' = Members(script[t].batch)
      BY DEF Members
    <3> QED BY <1>2, <3>1, <3>2, <3>3 DEF RunsHonest, RunHonest
  <2> QED BY <2>1, <2>2
<1>6. TxsHonest'
  <2>1. \A c : Members(c)' = Members(c)
    BY DEF Members
  <2>2. \A tx \in pool \cup log : tx.batch # script[s].batch
    BY DEF RunsHonest, RunHonest
  <2>3. script[s].leaves = Members(script[s].batch) /\ script[s].leaves # {}
    BY DEF RunsHonest, RunHonest
  <2> QED BY <1>1, <1>2, <2>1, <2>2, <2>3 DEF TxsHonest
<1>7. PageHonest'
  BY DEF PageHonest, Members
<1>8. OnlyAnchorerWrites' /\ AnchoredIsOnChain'
  BY DEF OnlyAnchorerWrites, AnchoredIsOnChain
<1> QED BY <1>3, <1>4, <1>5, <1>6, <1>7, <1>8 DEF IndInv

LEMMA RecordTxInv ==
  ASSUME IndInv, NEW s \in Scripts, RecordTx(s)
  PROVE  IndInv'
<1> USE DEF IndInv, RecordTx
<1>r. NotRunning \in Runs
  BY DEF NotRunning, Runs, ScriptAt
<1>0. /\ script' \in [Scripts -> Runs]
      /\ script'[s] = NotRunning
      /\ \A t \in Scripts : t # s => script'[t] = script[t]
  BY <1>r, RunUpdated
<1>1. /\ TxOf(s) \in log /\ TxOf(s) \in Txs
      /\ TxOf(s).batch = script[s].batch
      /\ TxOf(s).root = Members(script[s].batch)
  BY DEF RunsHonest, RunHonest, TypeOK, TxOf
<1>2. TypeOK'
  <2>1. anchoredTx' \in [Receipts -> Txs \cup {NoTx}]
    BY <1>1 DEF TypeOK
  <2> QED BY <1>0, <2>1 DEF TypeOK
<1>3. IdsOwned'
  BY <1>0 DEF IdsOwned, Holds, NotRunning
<1>4. RunsHonest'
  BY <1>0 DEF RunsHonest, RunHonest, NotRunning, Members, TxOf
<1>5. TxsHonest' /\ PageHonest'
  BY DEF TxsHonest, PageHonest, Members
<1>6. OnlyAnchorerWrites'
  BY DEF OnlyAnchorerWrites
<1>7. AnchoredIsOnChain'
  <2> SUFFICES ASSUME NEW r \in Receipts, anchoredTx'[r] # NoTx
               PROVE  /\ anchoredTx'[r] \in log
                      /\ anchoredTx'[r].batch = batchOf[r]
                      /\ r \in anchoredTx'[r].root
    BY DEF AnchoredIsOnChain
  <2>1. CASE batchOf[r] = script[s].batch
    <3>1. anchoredTx'[r] = TxOf(s)
      BY <2>1
    <3>2. r \in Members(script[s].batch)
      BY <2>1 DEF Members
    <3> QED BY <1>1, <2>1, <3>1, <3>2
  <2>2. CASE batchOf[r] # script[s].batch
    BY <2>2 DEF AnchoredIsOnChain
  <2> QED BY <2>1, <2>2
<1> QED BY <1>2, <1>3, <1>4, <1>5, <1>6, <1>7 DEF IndInv

-----------------------------------------------------------------------------
(* The chain and the receipt page.                                          *)

\* A step of the chain that invents no transaction and forgets no event.
LEMMA ChainInv ==
  ASSUME IndInv, UNCHANGED Surroundings,
         isWriter' \in [Accounts -> BOOLEAN], OnlyAnchorerWrites',
         pool' \cup log' \subseteq pool \cup log, log \subseteq log',
         mined' \in Nat, faults' \in 0..MaxFaults
  PROVE  IndInv'
<1> USE DEF IndInv, Surroundings
<1>1. TypeOK'
  BY DEF TypeOK
<1>2. IdsOwned'
  BY DEF IdsOwned, Holds
<1>3. RunsHonest'
  BY DEF RunsHonest, RunHonest, Members, TxOf
<1>4. TxsHonest' /\ PageHonest'
  BY DEF TxsHonest, PageHonest, Members
<1>5. AnchoredIsOnChain'
  BY DEF AnchoredIsOnChain
<1> QED BY <1>1, <1>2, <1>3, <1>4, <1>5

LEMMA SetWriterInv ==
  ASSUME IndInv, NEW a \in Accounts, NEW allowed \in BOOLEAN, SetWriter(a, allowed),
         UNCHANGED Surroundings, faults' \in 0..MaxFaults
  PROVE  IndInv'
<1>1. isWriter \in [Accounts -> BOOLEAN] /\ mined \in Nat
  BY DEF IndInv, TypeOK
<1>2. CASE a = Owner
  <2>1. isWriter' = [isWriter EXCEPT ![Anchorer] = allowed]
    BY <1>2 DEF SetWriter, WriterSet
  <2>2. isWriter' \in [Accounts -> BOOLEAN] /\ OnlyAnchorerWrites'
    BY <1>1, <2>1, AnchorAssumption DEF OnlyAnchorerWrites, IndInv
  <2> QED BY <1>1, <2>2, ChainInv DEF SetWriter
<1>3. CASE a # Owner
  <2>1. isWriter' = isWriter
    BY <1>3 DEF SetWriter, WriterSet
  <2>2. OnlyAnchorerWrites'
    BY <2>1 DEF OnlyAnchorerWrites, IndInv
  <2> QED BY <1>1, <2>1, <2>2, ChainInv DEF SetWriter
<1> QED BY <1>2, <1>3

\* The NotWriter guard keeps a stranger's call out of the log.
LEMMA StrangerInv ==
  ASSUME IndInv, NEW a \in Accounts, NEW b \in Batches, NEW root \in SUBSET Receipts,
         StrangerAnchors(a, b, root), UNCHANGED <<Surroundings, faults>>
  PROVE  IndInv'
<1>1. /\ isWriter \in [Accounts -> BOOLEAN] /\ mined \in Nat
      /\ faults \in 0..MaxFaults
  BY DEF IndInv, TypeOK
<1>2. ~ isWriter[a]
  BY <1>1 DEF StrangerAnchors, IndInv, OnlyAnchorerWrites
<1>3. log' = log
  BY <1>2 DEF StrangerAnchors, Anchored
<1>4. OnlyAnchorerWrites'
  BY DEF IndInv, OnlyAnchorerWrites, StrangerAnchors
<1> QED BY <1>1, <1>3, <1>4, ChainInv DEF StrangerAnchors

LEMMA MineInv ==
  ASSUME IndInv, NEW tx \in pool, Mine(tx), UNCHANGED <<Surroundings, faults>>
  PROVE  IndInv'
<1>1. /\ isWriter \in [Accounts -> BOOLEAN] /\ mined \in Nat
      /\ faults \in 0..MaxFaults
  BY DEF IndInv, TypeOK
<1>2. OnlyAnchorerWrites'
  BY DEF IndInv, OnlyAnchorerWrites, Mine
<1>3. pool' \cup log' \subseteq pool \cup log /\ log \subseteq log'
  BY DEF Mine, Anchored
<1> QED BY <1>1, <1>2, <1>3, ChainInv DEF Mine

LEMMA DropInv ==
  ASSUME IndInv, NEW tx \in pool, Drop(tx), UNCHANGED Surroundings,
         faults' \in 0..MaxFaults
  PROVE  IndInv'
<1>1. isWriter \in [Accounts -> BOOLEAN] /\ mined \in Nat
  BY DEF IndInv, TypeOK
<1>2. OnlyAnchorerWrites'
  BY DEF IndInv, OnlyAnchorerWrites, Drop
<1> QED BY <1>1, <1>2, ChainInv DEF Drop

LEMMA PageInv ==
  ASSUME IndInv, (\E r \in Receipts : SelectRow(r)) \/ SelectLeaves
  PROVE  IndInv'
<1> USE DEF IndInv
<1>0. UNCHANGED <<chain, database, drawn, script, faults>>
  BY DEF SelectRow, SelectLeaves
<1>1. \A b : Members(b) \subseteq Receipts /\ Members(b)' = Members(b)
  BY <1>0 DEF Members
<1> DEFINE Pages == [at : {"idle", "row", "shown"}, receipt : SUBSET Receipts,
                     batch : Batches \cup {NoBatch}, root : SUBSET Receipts]
<1>2. page' \in Pages /\ PageHonest'
  <2>1. CASE SelectLeaves
    BY <1>0, <1>1, <2>1 DEF SelectLeaves, TypeOK, PageHonest
  <2>2. ASSUME NEW r \in Receipts, SelectRow(r) PROVE page' \in Pages /\ PageHonest'
    <3>1. CASE batchOf[r] = NoBatch
      BY <1>0, <2>2, <3>1 DEF SelectRow, NoPage, PageHonest
    <3>2. CASE batchOf[r] # NoBatch
      BY <1>0, <2>2, <3>2 DEF SelectRow, PageHonest, Members, IdsOwned, TypeOK
    <3> QED BY <3>1, <3>2
  <2> QED BY <2>1, <2>2
<1>3. TypeOK'
  BY <1>0, <1>2 DEF TypeOK
<1>4. IdsOwned'
  BY <1>0 DEF IdsOwned, Holds
<1>5. RunsHonest' /\ TxsHonest'
  BY <1>0, <1>1 DEF RunsHonest, RunHonest, TxsHonest, TxOf
<1>6. OnlyAnchorerWrites' /\ AnchoredIsOnChain'
  BY <1>0 DEF OnlyAnchorerWrites, AnchoredIsOnChain
<1> QED BY <1>2, <1>3, <1>4, <1>5, <1>6

-----------------------------------------------------------------------------
(* The invariant, and what follows from it.                                 *)

LEMMA FaultTyped == ASSUME TypeOK, Fault PROVE faults' \in 0..MaxFaults
BY BatchesAssumption DEF TypeOK, Fault

LEMMA NextInv == IndInv /\ [Next]_vars => IndInv'
<1> SUFFICES ASSUME IndInv, [Next]_vars PROVE IndInv'
  OBVIOUS
<1>0. TypeOK /\ faults \in 0..MaxFaults
  BY DEF IndInv, TypeOK
<1>1. ASSUME NEW r \in Receipts, WriteReceipt(r) PROVE IndInv'
  BY <1>1, WriteReceiptInv
<1>2. ASSUME NEW s \in Scripts, ScriptStep(s) PROVE IndInv'
  <2>1. CASE CountUnbatched(s)
    BY <2>1, CountUnbatchedInv
  <2>2. ASSUME NEW b \in Batches, AssignBatch(s, b) PROVE IndInv'
    BY <2>2, AssignBatchInv
  <2>3. CASE ReadLeaves(s)
    <3>1. CASE Members(script[s].batch) = {}
      <4>1. /\ script' = [script EXCEPT ![s] = NotRunning]
            /\ UNCHANGED <<chain, database, drawn, page, faults>>
        BY <2>3, <3>1 DEF ReadLeaves
      <4> QED BY <4>1, <1>0, StopInv
    <3>2. CASE Members(script[s].batch) # {}
      BY <2>3, <3>2, ReadLeavesInv
    <3> QED BY <3>1, <3>2
  <2>4. CASE ReadNonce(s)
    BY <2>4, ReadNonceInv
  <2>5. CASE Send(s)
    BY <2>5, SendInv
  <2>6. CASE SendRaises(s) \/ AwaitRaises(s)
    <3>1. /\ script' = [script EXCEPT ![s] = NotRunning]
          /\ UNCHANGED <<chain, database, drawn, page, faults>>
      BY <2>6 DEF SendRaises, AwaitRaises
    <3> QED BY <3>1, <1>0, StopInv
  <2>7. CASE AwaitReceipt(s)
    BY <2>7, AwaitReceiptInv
  <2>8. CASE RecordTx(s)
    BY <2>8, RecordTxInv
  <2> QED BY <1>2, <2>1, <2>2, <2>3, <2>4, <2>5, <2>6, <2>7, <2>8 DEF ScriptStep
<1>3. ASSUME NEW s \in Scripts, Crash(s) PROVE IndInv'
  BY <1>0, <1>3, FaultTyped, StopInv DEF Crash
<1>4. ASSUME Contract, UNCHANGED <<database, drawn, script, page, faults>> PROVE IndInv'
  <2>1. UNCHANGED <<Surroundings, faults>> /\ faults' \in 0..MaxFaults
    BY <1>0, <1>4 DEF Surroundings
  <2>2. ASSUME NEW a \in Accounts, SetWriter(a, TRUE) PROVE IndInv'
    BY <2>1, <2>2, SetWriterInv
  <2>3. ASSUME NEW a \in Accounts, NEW b \in Batches, NEW root \in SUBSET Receipts,
               StrangerAnchors(a, b, root)
        PROVE  IndInv'
    BY <2>1, <2>3, StrangerInv
  <2>4. ASSUME NEW tx \in pool, Mine(tx) PROVE IndInv'
    BY <2>1, <2>4, MineInv
  <2> QED BY <1>4, <2>2, <2>3, <2>4 DEF Contract
<1>5. ASSUME Fault, \E tx \in pool : Drop(tx), UNCHANGED <<database, drawn, script, page>>
      PROVE  IndInv'
  <2>1. UNCHANGED Surroundings /\ faults' \in 0..MaxFaults
    BY <1>0, <1>5, FaultTyped DEF Surroundings
  <2> QED BY <1>5, <2>1, DropInv
<1>6. ASSUME Fault, SetWriter(Owner, FALSE), UNCHANGED <<database, drawn, script, page>>
      PROVE  IndInv'
  <2>1. UNCHANGED Surroundings /\ faults' \in 0..MaxFaults
    BY <1>0, <1>6, FaultTyped DEF Surroundings
  <2> QED BY <1>6, <2>1, AnchorAssumption, SetWriterInv
<1>7. CASE (\E r \in Receipts : SelectRow(r)) \/ SelectLeaves
  BY <1>7, PageInv
<1>8. CASE UNCHANGED vars
  <2>1. UNCHANGED Surroundings /\ OnlyAnchorerWrites'
    BY <1>8 DEF Surroundings, OnlyAnchorerWrites, IndInv
  <2> QED BY <1>0, <1>8, <2>1, ChainInv DEF TypeOK
<1> QED BY <1>1, <1>2, <1>3, <1>4, <1>5, <1>6, <1>7, <1>8 DEF Next

\* The invariant holds in every reachable state: what runs hold, what is
\* pending and what is on the chain agree with the database.
THEOREM Invariance == Spec => []IndInv
<1>1. Init => IndInv
  BY InitInv
<1>2. IndInv /\ [Next]_vars => IndInv'
  BY NextInv
<1> QED BY <1>1, <1>2, PTL DEF Spec

\* Type correctness of database, runs, contract and page.
THEOREM TypeCorrect == Spec => []TypeOK
<1>1. IndInv => TypeOK
  BY DEF IndInv
<1> QED BY <1>1, Invariance, PTL

\* An event carries exactly the receipts its batch has in the database.
THEOREM EventsMatch == Spec => []EventMatchesBatch
<1>1. IndInv => EventMatchesBatch
  BY DEF IndInv, TxsHonest, EventMatchesBatch
<1> QED BY <1>1, Invariance, PTL

\* No batch is announced twice, and none that is empty.
THEOREM AnnouncedOnce == Spec => [](OneEventPerBatch /\ NoEmptyAnchor)
<1>1. IndInv => OneEventPerBatch /\ NoEmptyAnchor
  BY DEF IndInv, TxsHonest, OneEventPerBatch, NoEmptyAnchor
<1> QED BY <1>1, Invariance, PTL

\* anchored_tx in the database always names a mined transaction whose root
\* covers the receipt.
THEOREM AnchoredHonest == Spec => []AnchoredIsOnChain
<1>1. IndInv => AnchoredIsOnChain
  BY DEF IndInv
<1> QED BY <1>1, Invariance, PTL

\* The page's root is the chain's, whenever the chain has one for the batch.
THEOREM PageAgrees == Spec => []PageMatchesChain
<1>1. IndInv => PageMatchesChain
  BY DEF IndInv, TxsHonest, PageHonest, PageMatchesChain
<1> QED BY <1>1, Invariance, PTL

-----------------------------------------------------------------------------
(* Anchoring implements the receipt ledger.                                 *)

Published == {<<e.batch, e.root>> : e \in log}
Recorded == {r \in Receipts : anchoredTx[r] # NoTx}

LEMMA LedgerInit == Init => Ledger!Init
<1> SUFFICES ASSUME Init PROVE Ledger!Init
  OBVIOUS
<1>1. Published = {} /\ Recorded = {}
  BY DEF Init, ChainInit, Published, Recorded
<1> QED BY <1>1 DEF Init, Ledger!Init, Published, Recorded

\* Creating a batch is Group: its id is in no event.
LEMMA AssignIsGroup ==
  ASSUME IndInv, NEW s \in Scripts, NEW b \in Batches, AssignBatch(s, b)
  PROVE  Ledger!Group(b)
<1>1. Members(b) = {}
  BY AssignKeepsMembers DEF IndInv
<1>2. \A e \in log : e.batch # b
  BY DEF IndInv, TxsHonest, AssignBatch
<1>3. \A pair \in Published : pair[1] # b
  BY <1>2 DEF Published
<1>4. Published' = Published /\ Recorded' = Recorded
  BY DEF Published, Recorded, AssignBatch
<1>5. batchOf' = [r \in Receipts |->
                    IF r \in written /\ batchOf[r] = NoBatch THEN b ELSE batchOf[r]]
  BY DEF AssignBatch, Unbatched
<1> QED BY <1>1, <1>3, <1>4, <1>5
       DEF Ledger!Group, Ledger!Members, Members, Published, Recorded, AssignBatch

\* A mined transaction publishes its batch, or leaves the ledger as it is.
LEMMA MineIsPublish ==
  ASSUME IndInv, NEW tx \in pool, Mine(tx), UNCHANGED database
  PROVE  (\E b \in Batches : Ledger!Publish(b)) \/ UNCHANGED Ledger!ledger
<1>1. Recorded' = Recorded
  BY DEF Recorded
<1>2. CASE log' = log
  <2>1. Published' = Published
    BY <1>2 DEF Published
  <2> QED BY <1>1, <2>1 DEF Ledger!ledger, Published, Recorded
<1>3. CASE log' # log
  <2>1. log' = log \cup {tx} /\ tx \notin log
    BY <1>3 DEF Mine, Anchored
  <2>2. /\ tx.batch \in Batches
        /\ tx.root = Members(tx.batch) /\ tx.root # {}
        /\ \A e \in log : e.batch # tx.batch
    BY <2>1 DEF IndInv, TxsHonest, TypeOK, Txs
  <2>3. Published' = Published \cup {<<tx.batch, Members(tx.batch)>>}
    BY <2>1, <2>2 DEF Published
  <2>4. \A pair \in Published : pair[1] # tx.batch
    BY <2>2 DEF Published
  <2>5. Ledger!Publish(tx.batch)
    BY <1>1, <2>2, <2>3, <2>4
       DEF Ledger!Publish, Ledger!Members, Members, Published, Recorded
  <2> QED BY <2>2, <2>5
<1> QED BY <1>2, <1>3

\* Recording the transaction is RecordAnchor: the event is there.
LEMMA RecordIsRecord ==
  ASSUME IndInv, NEW s \in Scripts, RecordTx(s)
  PROVE  \E b \in Batches : Ledger!RecordAnchor(b)
<1>0. script[s].batch \in Batches
  BY DEF IndInv, IdsOwned, TypeOK, Holds, RecordTx
<1>1. PICK b \in Batches : b = script[s].batch
  BY <1>0
<1>2. /\ TxOf(s) \in log /\ TxOf(s) # NoTx
      /\ TxOf(s).batch = b /\ TxOf(s).root = Members(b)
  BY <1>1, BatchesAssumption DEF IndInv, RunsHonest, RunHonest, TypeOK, TxOf, RecordTx
<1>3. <<b, Members(b)>> \in Published
  BY <1>2 DEF Published
<1>4. Published' = Published
  BY DEF Published, RecordTx
<1>5. Recorded' = Recorded \cup Members(b)
  <2>1. \A r \in Receipts : anchoredTx'[r] # NoTx <=> anchoredTx[r] # NoTx \/ batchOf[r] = b
    BY <1>1, <1>2 DEF RecordTx
  <2> QED BY <2>1 DEF Recorded, Members
<1>6. Ledger!RecordAnchor(b)
  BY <1>1, <1>3, <1>4, <1>5
     DEF Ledger!RecordAnchor, Ledger!Members, Members, Published, Recorded, RecordTx
<1> QED BY <1>6

\* Every other step leaves the four ledger variables alone.
LEMMA OthersStutter ==
  ASSUME UNCHANGED <<log, database>>
  PROVE  UNCHANGED Ledger!ledger
<1>1. Published' = Published /\ Recorded' = Recorded
  BY DEF Published, Recorded
<1> QED BY <1>1 DEF Ledger!ledger, Published, Recorded

LEMMA LedgerNext == IndInv /\ [Next]_vars => [Ledger!Next]_Ledger!ledger
<1> SUFFICES ASSUME IndInv, [Next]_vars
             PROVE  Ledger!Next \/ UNCHANGED Ledger!ledger
  OBVIOUS
<1>1. ASSUME NEW r \in Receipts, WriteReceipt(r) PROVE Ledger!Next
  <2>1. Published' = Published /\ Recorded' = Recorded
    BY <1>1 DEF WriteReceipt, Published, Recorded
  <2>2. Ledger!WriteReceipt(r)
    BY <1>1, <2>1 DEF WriteReceipt, Ledger!WriteReceipt, Published, Recorded
  <2> QED BY <2>2 DEF Ledger!Next
<1>2. ASSUME NEW s \in Scripts, ScriptStep(s)
      PROVE  Ledger!Next \/ UNCHANGED Ledger!ledger
  <2>1. ASSUME NEW b \in Batches, AssignBatch(s, b) PROVE Ledger!Next
    BY <2>1, AssignIsGroup DEF Ledger!Next
  <2>2. CASE RecordTx(s)
    BY <2>2, RecordIsRecord DEF Ledger!Next
  <2>3. CASE CountUnbatched(s) \/ ReadLeaves(s) \/ ReadNonce(s) \/ Send(s)
               \/ SendRaises(s) \/ AwaitReceipt(s) \/ AwaitRaises(s)
    <3>1. UNCHANGED <<log, database>>
      BY <2>3 DEF CountUnbatched, ReadLeaves, ReadNonce, Send, SendTx, SendRaises,
                  AwaitReceipt, AwaitRaises
    <3> QED BY <3>1, OthersStutter
  <2> QED BY <1>2, <2>1, <2>2, <2>3 DEF ScriptStep
<1>3. ASSUME NEW s \in Scripts, Crash(s) PROVE UNCHANGED Ledger!ledger
  BY <1>3, OthersStutter DEF Crash
<1>4. ASSUME Contract, UNCHANGED database
      PROVE  Ledger!Next \/ UNCHANGED Ledger!ledger
  <2>1. ASSUME NEW a \in Accounts, SetWriter(a, TRUE) PROVE UNCHANGED Ledger!ledger
    BY <1>4, <2>1, OthersStutter DEF SetWriter
  <2>2. ASSUME NEW a \in Accounts, NEW b \in Batches, NEW root \in SUBSET Receipts,
               StrangerAnchors(a, b, root)
        PROVE  UNCHANGED Ledger!ledger
    <3>1. ~ isWriter[a]
      BY <2>2 DEF IndInv, OnlyAnchorerWrites, StrangerAnchors, TypeOK
    <3>2. log' = log
      BY <2>2, <3>1 DEF StrangerAnchors, Anchored
    <3> QED BY <1>4, <3>2, OthersStutter
  <2>3. ASSUME NEW tx \in pool, Mine(tx)
        PROVE  Ledger!Next \/ UNCHANGED Ledger!ledger
    BY <1>4, <2>3, MineIsPublish DEF Ledger!Next
  <2> QED BY <1>4, <2>1, <2>2, <2>3 DEF Contract
<1>5. CASE (\E tx \in pool : Drop(tx)) /\ UNCHANGED database
  BY <1>5, OthersStutter DEF Drop
<1>6. CASE SetWriter(Owner, FALSE) /\ UNCHANGED database
  BY <1>6, OthersStutter DEF SetWriter
<1>7. CASE (\E r \in Receipts : SelectRow(r)) \/ SelectLeaves
  BY <1>7, OthersStutter DEF SelectRow, SelectLeaves
<1>8. CASE UNCHANGED vars
  BY <1>8, OthersStutter
<1> QED BY <1>1, <1>2, <1>3, <1>4, <1>5, <1>6, <1>7, <1>8 DEF Next

\* Whatever the scripts, the chain and the strangers do, what the database and
\* the chain show is a behaviour of the ledger the documents promise.
THEOREM Refinement == Spec => ImplementsLedger
<1>1. Init => Ledger!Init
  BY LedgerInit
<1>2. IndInv /\ [Next]_vars => [Ledger!Next]_Ledger!ledger
  BY LedgerNext
<1> QED BY <1>1, <1>2, Invariance, PTL DEF Spec, ImplementsLedger, Ledger!Spec

\* A batch with receipts keeps exactly these for ever.
THEOREM Frozen == Spec => BatchFrozen
<1>1. IndInv /\ [Next]_vars
        => [\A b \in Batches : Members(b) # {} => Members(b)' = Members(b)]_vars
  <2> SUFFICES ASSUME IndInv, [Next]_vars, NEW b \in Batches, Members(b) # {}
               PROVE  Members(b)' = Members(b)
    OBVIOUS
  <2>1. CASE batchOf' = batchOf
    BY <2>1 DEF Members
  <2>2. CASE batchOf' # batchOf
    <3>1. PICK s \in Scripts, c \in Batches : AssignBatch(s, c)
      BY <2>2
         DEF Next, WriteReceipt, ScriptStep, CountUnbatched, ReadLeaves, ReadNonce, Send,
             SendRaises, AwaitReceipt, AwaitRaises, RecordTx, Crash, SelectRow, SelectLeaves
    <3>2. b \in drawn
      BY BatchesAssumption DEF IndInv, IdsOwned, Members
    <3> QED BY <3>1, <3>2, AssignKeepsMembers DEF IndInv
  <2> QED BY <2>1, <2>2
<1> QED BY <1>1, Invariance, PTL DEF Spec, BatchFrozen
=============================================================================
