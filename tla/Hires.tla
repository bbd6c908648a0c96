------------------------------- MODULE Hires -------------------------------
(***************************************************************************)
(* The in-process hire manager (services/orchestrator/hires.py), the part   *)
(* of the harness that announces phases and persists the run               *)
(* (harness.py), the hire routes (api.py) and the browser panel that        *)
(* watches a hire (apps/web/components/HirePanel.tsx).                      *)
(*                                                                         *)
(* Four kinds of thread touch a Hire object without a lock:                 *)
(*   - the event loop: POST /hires, the _run task, the SSE generators;      *)
(*   - one executor thread per running hire, inside harness.run_hire;       *)
(*   - a threadpool thread for POST /hires/{id}/cancel (a sync route);      *)
(*   - a threadpool thread for GET /hires/{id} (a sync route).              *)
(* Code between two awaits is one loop callback; `finishing` marks the      *)
(* places inside the _run callback where another thread can look.           *)
(***************************************************************************)
EXTENDS Naturals, Sequences, FiniteSets

CONSTANTS
  HireIds,      \* ids POST /hires hands out (fresh uuids, never reused)
  Panels,       \* browser panels; each watches one hire
  NoHire,       \* a panel that watches nothing yet
  NStages,      \* phases run_hire announces before "persist" (harness.py:114-143)
  PoolSize,     \* threads of the loop's default executor
  MaxRestarts   \* bound on server restarts

ASSUME HiresAssumption ==
  /\ NoHire \notin HireIds
  /\ IsFiniteSet(HireIds)
  /\ PoolSize \in Nat \ {0}
  /\ MaxRestarts \in Nat
  /\ NStages \in Nat \ {0}

VARIABLES
  hire,       \* hire[h]: the Hire object of _HIRES
  ready,      \* the loop's FIFO of callbacks (call_soon, call_soon_threadsafe)
  finishing,  \* where _run stands after its await, or Idle
  events,     \* events[h]: Hire._events, "event" or the "end" sentinel (None)
  executor,   \* hires submitted to the executor and not yet taken by a thread
  worker,     \* worker[h]: where the thread inside _blocking stands
  stage,      \* stage[h]: how many phases run_hire has announced
  txn,        \* txn[h]: rows inserted in the open transaction of _persist
  db,         \* committed rows: [agents, runs, receipts]
  canceller,  \* canceller[h]: the POST /hires/{h}/cancel request
  stream,     \* stream[p]: the server's SSE generator for panel p
  panel,      \* panel[p]: the HirePanel component
  restarts

vars == <<hire, ready, finishing, events, executor, worker, stage, txn,
          db, canceller, stream, panel, restarts>>

Live     == {"queued", "running"}
Terminal == {"ok", "failed", "cancelled"}   \* "halted" is never assigned

\* The statuses on which the browser stops listening (HirePanel.tsx:60).
PanelStops == {"ok", "failed", "halted"}

RunKinds == {"agent", "baseline"}
Rows == RunKinds \cup {"receipt"}

Absent == [status |-> "absent", outcome |-> FALSE, receiptId |-> FALSE,
           error |-> FALSE, cancelled |-> FALSE]
Lost == [Absent EXCEPT !.status = "lost"]   \* _HIRES is gone: get() is None

Idle == [hire |-> NoHire, at |-> "idle"]

\* What a panel has read of GET /hires/{id} (Hire.snapshot).
NoView == [status |-> "none", outcome |-> FALSE, receipt |-> FALSE]

\* A panel that has read nothing yet.
PanelOf(h, at, cut) == [hire |-> h, at |-> at, view |-> NoView, cut |-> cut]

Put(h, e)   == [do |-> "put", hire |-> h, arg |-> e]
Resume(h, r) == [do |-> "resume", hire |-> h, arg |-> r]
Task(h)     == [do |-> "run", hire |-> h, arg |-> "none"]

Callbacks == [do : {"run", "put", "resume"}, hire : HireIds,
              arg : {"none", "event", "end", "ok", "raised"}]

WorkerStates == {"none", "submitted", "stages", "persist", "insert", "commit",
                 "returned"}

HireObjects == [status : {"absent", "lost"} \cup Live \cup Terminal, outcome : BOOLEAN,
                receiptId : BOOLEAN, error : BOOLEAN, cancelled : BOOLEAN]

FinishStates == [hire : HireIds \cup {NoHire},
                 at : {"idle", "outcome", "ids", "status", "failed", "error"}]

Tables == [agents : BOOLEAN, runs : SUBSET (HireIds \X RunKinds),
           receipts : SUBSET HireIds]

Views == [status : {"none"} \cup Live \cup Terminal, outcome : BOOLEAN, receipt : BOOLEAN]

PanelStates == [hire : HireIds \cup {NoHire},
                at : {"idle", "streaming", "status", "outcome", "receipt", "done",
                      "stuck"},
                view : Views,
                cut : BOOLEAN]   \* onerror ended the listening, no frame did

TypeOK ==
  /\ hire \in [HireIds -> HireObjects]
  /\ ready \in Seq(Callbacks)
  /\ finishing \in FinishStates
  /\ events \in [HireIds -> Seq({"event", "end"})]
  /\ executor \in Seq(HireIds)
  /\ worker \in [HireIds -> WorkerStates]
  /\ stage \in [HireIds -> 0..NStages]
  /\ txn \in [HireIds -> SUBSET Rows]
  /\ db \in Tables
  /\ canceller \in [HireIds -> {"idle", "checked", "accepted", "refused"}]
  /\ stream \in [Panels -> {"none", "open"}]
  /\ panel \in [Panels -> PanelStates]
  /\ restarts \in 0..MaxRestarts

Init ==
  /\ hire = [h \in HireIds |-> Absent]
  /\ ready = <<>>
  /\ finishing = Idle
  /\ events = [h \in HireIds |-> <<>>]
  /\ executor = <<>>
  /\ worker = [h \in HireIds |-> "none"]
  /\ stage = [h \in HireIds |-> 0]
  /\ txn = [h \in HireIds |-> {}]
  /\ db = [agents |-> FALSE, runs |-> {}, receipts |-> {}]
  /\ canceller = [h \in HireIds |-> "idle"]
  /\ stream = [p \in Panels |-> "none"]
  /\ panel = [p \in Panels |-> PanelOf(NoHire, "idle", FALSE)]
  /\ restarts = 0

-----------------------------------------------------------------------------
(* The event loop: POST /hires and the _run task.                           *)

LoopFree == finishing = Idle

\* create_hire -> hires.start: the object is registered and the task scheduled.
Start(h) ==
  /\ LoopFree
  /\ hire[h].status = "absent"
  /\ hire' = [hire EXCEPT ![h].status = "queued"]
  /\ ready' = Append(ready, Task(h))
  /\ UNCHANGED <<finishing, events, executor, worker, stage, txn, db, canceller,
                 stream, panel, restarts>>

\* Mutant of RunTask: build_agent stands before the try block.
RunTaskUncaught ==
  /\ LoopFree
  /\ ready # <<>>
  /\ LET c == Head(ready) IN
     /\ c.do = "run"
     /\ hire' = [hire EXCEPT ![c.hire].status = "running"]
     /\ ready' = Append(Tail(ready), Put(c.hire, "event"))
     /\ \/ /\ executor' = Append(executor, c.hire)
           /\ worker' = [worker EXCEPT ![c.hire] = "submitted"]
        \/ UNCHANGED <<executor, worker>>
  /\ UNCHANGED <<finishing, events, stage, txn, db, canceller, stream, panel, restarts>>

\* First part of _run, up to its await; build_agent may raise.
RunTask ==
  /\ LoopFree
  /\ ready # <<>>
  /\ LET c == Head(ready) IN
     /\ c.do = "run"
     /\ hire' = [hire EXCEPT ![c.hire].status = "running"]
     /\ ready' = Append(Tail(ready), Put(c.hire, "event"))
     /\ \/ /\ executor' = Append(executor, c.hire)
           /\ worker' = [worker EXCEPT ![c.hire] = "submitted"]
           /\ UNCHANGED finishing
        \/ /\ finishing' = [hire |-> c.hire, at |-> "failed"]
           /\ UNCHANGED <<executor, worker>>
  /\ UNCHANGED <<events, stage, txn, db, canceller, stream, panel, restarts>>

\* A callback scheduled by on_phase, or the sentinel: _events.put_nowait.
DeliverPut ==
  /\ LoopFree
  /\ ready # <<>>
  /\ LET c == Head(ready) IN
     /\ c.do = "put"
     /\ events' = [events EXCEPT ![c.hire] = Append(@, c.arg)]
  /\ ready' = Tail(ready)
  /\ UNCHANGED <<hire, finishing, executor, worker, stage, txn, db, canceller,
                 stream, panel, restarts>>

\* The executor future is done: _run resumes after its await.
ResumeTask ==
  /\ LoopFree
  /\ ready # <<>>
  /\ LET c == Head(ready) IN
     /\ c.do = "resume"
     /\ finishing' = [hire |-> c.hire,
                      at |-> IF c.arg = "ok" THEN "outcome" ELSE "failed"]
  /\ ready' = Tail(ready)
  /\ UNCHANGED <<hire, events, executor, worker, stage, txn, db, canceller, stream,
                 panel, restarts>>

FinishUnchanged ==
  UNCHANGED <<events, executor, worker, stage, txn, db, canceller, stream, panel,
              restarts>>

FinishOutcome ==
  /\ finishing.at = "outcome"
  /\ hire' = [hire EXCEPT ![finishing.hire].outcome = TRUE]
  /\ finishing' = [finishing EXCEPT !.at = "ids"]
  /\ UNCHANGED ready
  /\ FinishUnchanged

\* Mutant of FinishIds: the status is published before the receipt id.
FinishIdsStatusFirst ==
  /\ finishing.at = "ids"
  /\ hire' = [hire EXCEPT ![finishing.hire].status = "ok"]
  /\ finishing' = [finishing EXCEPT !.at = "status"]
  /\ UNCHANGED ready
  /\ FinishUnchanged

FinishIds ==
  /\ finishing.at = "ids"
  /\ hire' = [hire EXCEPT ![finishing.hire].receiptId = TRUE]
  /\ finishing' = [finishing EXCEPT !.at = "status"]
  /\ UNCHANGED ready
  /\ FinishUnchanged

\* Mutant of FinishStatus: the flag that the cancel route set is not looked at.
FinishStatusIgnoresCancel ==
  /\ finishing.at = "status"
  /\ LET h == finishing.hire IN
     /\ hire' = [hire EXCEPT ![h].status = "ok"]
     /\ ready' = ready \o <<Put(h, "event"), Put(h, "end")>>
  /\ finishing' = Idle
  /\ FinishUnchanged

\* status, on_phase("done") and the sentinel of the finally block.
FinishStatus ==
  /\ finishing.at = "status"
  /\ LET h == finishing.hire IN
     /\ hire' = [hire EXCEPT ![h].status =
                   IF hire[h].cancelled THEN "cancelled" ELSE "ok"]
     /\ ready' = ready \o <<Put(h, "event"), Put(h, "end")>>
  /\ finishing' = Idle
  /\ FinishUnchanged

FinishFailed ==
  /\ finishing.at = "failed"
  /\ hire' = [hire EXCEPT ![finishing.hire].status = "failed"]
  /\ finishing' = [finishing EXCEPT !.at = "error"]
  /\ UNCHANGED ready
  /\ FinishUnchanged

\* error text, on_phase("error") and the sentinel of the finally block.
FinishError ==
  /\ finishing.at = "error"
  /\ hire' = [hire EXCEPT ![finishing.hire].error = TRUE]
  /\ ready' = ready \o <<Put(finishing.hire, "event"), Put(finishing.hire, "end")>>
  /\ finishing' = Idle
  /\ FinishUnchanged

-----------------------------------------------------------------------------
(* The executor thread: _blocking and harness.run_hire.                     *)

Busy == {h \in HireIds : worker[h] \notin {"none", "submitted", "returned"}}

WorkerUnchanged ==
  UNCHANGED <<hire, finishing, events, canceller, stream, panel, restarts>>

Raise(h) ==
  /\ worker' = [worker EXCEPT ![h] = "returned"]
  /\ ready' = Append(ready, Resume(h, "raised"))

\* The first line of _blocking looks at the cancelled flag.
WorkerStart ==
  /\ executor # <<>>
  /\ Cardinality(Busy) < PoolSize
  /\ LET h == Head(executor) IN
     \/ /\ hire[h].cancelled
        /\ Raise(h)
     \/ /\ ~ hire[h].cancelled
        /\ worker' = [worker EXCEPT ![h] = "stages"]
        /\ UNCHANGED ready
  /\ executor' = Tail(executor)
  /\ UNCHANGED <<stage, txn, db>>
  /\ WorkerUnchanged

\* One announced phase: emit, then the phase's work, which may raise.
WorkerStage(h) ==
  /\ worker[h] = "stages"
  /\ stage' = [stage EXCEPT ![h] = @ + 1]
  /\ \/ /\ ready' = Append(ready, Put(h, "event"))
        /\ worker' = [worker EXCEPT ![h] =
                        IF stage[h] + 1 = NStages THEN "persist" ELSE "stages"]
     \/ /\ ready' = ready \o <<Put(h, "event"), Resume(h, "raised")>>
        /\ worker' = [worker EXCEPT ![h] = "returned"]
  /\ UNCHANGED <<executor, txn, db>>
  /\ WorkerUnchanged

\* emit("persist") and ensure_agent, which commits a transaction of its own.
EnsureAgent(h) ==
  /\ worker[h] = "persist"
  /\ \/ /\ ready' = Append(ready, Put(h, "event"))
        /\ worker' = [worker EXCEPT ![h] = "insert"]
        /\ db' = [db EXCEPT !.agents = TRUE]
     \/ /\ ready' = ready \o <<Put(h, "event"), Resume(h, "raised")>>
        /\ worker' = [worker EXCEPT ![h] = "returned"]
        /\ UNCHANGED db
  /\ UNCHANGED <<executor, stage, txn>>
  /\ WorkerUnchanged

\* What a commit of the rows `rows` of hire h makes durable.
Committed(h, rows) ==
  [db EXCEPT !.runs = @ \cup ({h} \X (rows \cap RunKinds)),
             !.receipts = IF "receipt" \in rows THEN @ \cup {h} ELSE @]

\* The rows go into the open transaction one statement after another, the
\* receipt last: it names the ids that the two runs' INSERTs returned. The
\* foreign key runs.agent_id -> agents holds the first one back.
InsertNext(h) ==
  CASE txn[h] = {}                    -> "agent"
    [] txn[h] = {"agent"}             -> "baseline"
    [] OTHER                          -> "receipt"

\* Mutant of Insert: autocommit, each row durable as it is written.
InsertAutocommit(h) ==
  /\ worker[h] = "insert"
  /\ \/ /\ db.agents
        /\ txn' = [txn EXCEPT ![h] = @ \cup {InsertNext(h)}]
        /\ db' = Committed(h, {InsertNext(h)})
        /\ worker' = [worker EXCEPT ![h] =
                        IF txn[h] \cup {InsertNext(h)} = Rows THEN "commit" ELSE "insert"]
        /\ UNCHANGED ready
     \/ /\ txn' = [txn EXCEPT ![h] = {}]
        /\ Raise(h)
        /\ UNCHANGED db
  /\ UNCHANGED <<executor, stage>>
  /\ WorkerUnchanged

Insert(h) ==
  /\ worker[h] = "insert"
  /\ \/ /\ db.agents
        /\ txn' = [txn EXCEPT ![h] = @ \cup {InsertNext(h)}]
        /\ worker' = [worker EXCEPT ![h] =
                        IF txn[h] \cup {InsertNext(h)} = Rows THEN "commit" ELSE "insert"]
        /\ UNCHANGED ready
     \/ /\ txn' = [txn EXCEPT ![h] = {}]     \* a failed statement: rollback
        /\ Raise(h)
  /\ UNCHANGED <<executor, stage, db>>
  /\ WorkerUnchanged

\* Mutant of Commit: the receipt is announced although the commit failed.
CommitIgnoringFailure(h) ==
  /\ worker[h] = "commit"
  /\ txn' = [txn EXCEPT ![h] = {}]
  /\ db' \in {db, Committed(h, txn[h])}
  /\ ready' = ready \o <<Put(h, "event"), Resume(h, "ok")>>
  /\ worker' = [worker EXCEPT ![h] = "returned"]
  /\ UNCHANGED <<executor, stage>>
  /\ WorkerUnchanged

\* Mutant of Commit: run_hire's result reaches the loop before its last event.
CommitResumeFirst(h) ==
  /\ worker[h] = "commit"
  /\ txn' = [txn EXCEPT ![h] = {}]
  /\ db' = Committed(h, txn[h])
  /\ ready' = ready \o <<Resume(h, "ok"), Put(h, "end"), Put(h, "event")>>
  /\ worker' = [worker EXCEPT ![h] = "returned"]
  /\ UNCHANGED <<executor, stage>>
  /\ WorkerUnchanged

\* s.commit(): it succeeds (then emit("done") and return), or it raises, and
\* when it raises the server may have committed all the same.
Commit(h) ==
  /\ worker[h] = "commit"
  /\ txn' = [txn EXCEPT ![h] = {}]
  /\ \/ /\ db' = Committed(h, txn[h])
        /\ ready' = ready \o <<Put(h, "event"), Resume(h, "ok")>>
        /\ worker' = [worker EXCEPT ![h] = "returned"]
     \/ /\ db' \in {db, Committed(h, txn[h])}
        /\ Raise(h)
  /\ UNCHANGED <<executor, stage>>
  /\ WorkerUnchanged

-----------------------------------------------------------------------------
(* POST /hires/{id}/cancel: a check, then the flag, in a threadpool thread.  *)

CancelUnchanged ==
  UNCHANGED <<ready, finishing, events, executor, worker, stage, txn, db, stream,
              panel, restarts>>

CancelCheck(h) ==
  /\ canceller[h] = "idle"
  /\ hire[h].status # "absent"
  /\ canceller' = [canceller EXCEPT ![h] =
                     IF hire[h].status \in Live THEN "checked" ELSE "refused"]
  /\ UNCHANGED hire
  /\ CancelUnchanged

CancelSet(h) ==
  /\ canceller[h] = "checked"
  /\ hire' = [hire EXCEPT ![h].cancelled = TRUE]
  /\ canceller' = [canceller EXCEPT ![h] = "accepted"]
  /\ CancelUnchanged

-----------------------------------------------------------------------------
(* The SSE generator of panel p on the loop, and the panel's onmessage.      *)

StreamUnchanged ==
  UNCHANGED <<hire, ready, finishing, executor, worker, stage, txn, db, canceller,
              restarts>>

\* The panel p with a frame of the given status delivered to it, if it listens.
OnMessage(p, closed, status) ==
  IF panel[p].at = "streaming" /\ (closed \/ status \in PanelStops)
  THEN [panel EXCEPT ![p].at = "status"]     \* es.close(); finish(id)
  ELSE panel

\* GET /hires/{id}/stream: 404 when unknown, else the "connected" frame.
Connect(p, h) ==
  /\ LoopFree
  /\ panel[p].at = "idle"
  /\ hire[h].status # "absent"
  /\ IF hire[h].status = "lost"
     THEN /\ panel' = [panel EXCEPT ![p] = PanelOf(h, "status", TRUE)]
          /\ UNCHANGED stream
     ELSE /\ stream' = [stream EXCEPT ![p] = "open"]
          /\ panel' = [panel EXCEPT ![p] =
               PanelOf(h, IF hire[h].status \in PanelStops THEN "status" ELSE "streaming", FALSE)]
  /\ UNCHANGED events
  /\ StreamUnchanged

\* queue.get() returned: a phase event, or the sentinel and the closed frame.
StreamGet(p) ==
  /\ LoopFree
  /\ stream[p] = "open"
  /\ LET h == panel[p].hire IN
     /\ events[h] # <<>>
     /\ events' = [events EXCEPT ![h] = Tail(@)]
     /\ panel' = OnMessage(p, Head(events[h]) = "end", hire[h].status)
     /\ stream' = [stream EXCEPT ![p] =
                     IF Head(events[h]) = "end" THEN "none" ELSE "open"]
  /\ StreamUnchanged

\* Mutant of StreamTimeout: a timeout only ever sends the keepalive.
StreamTimeoutNeverCloses(p) ==
  /\ LoopFree
  /\ stream[p] = "open"
  /\ panel' = panel
  /\ UNCHANGED <<events, stream>>
  /\ StreamUnchanged

\* 30 s without an event: keepalive; on a finished hire also the closed frame.
StreamTimeout(p) ==
  /\ LoopFree
  /\ stream[p] = "open"
  /\ LET s == hire[panel[p].hire].status IN
     /\ panel' = OnMessage(p, s \notin Live, s)
     /\ stream' = [stream EXCEPT ![p] = IF s \in Live THEN "open" ELSE "none"]
  /\ UNCHANGED events
  /\ StreamUnchanged

\* The connection breaks: onerror closes the EventSource and calls finish.
ConnectionLost(p) ==
  /\ panel[p].at = "streaming"
  /\ panel' = [panel EXCEPT ![p].at = "status", ![p].cut = TRUE]
  /\ UNCHANGED <<events, stream>>
  /\ StreamUnchanged

\* The server notices that the client of an open generator is gone.
StreamGone(p) ==
  /\ LoopFree
  /\ stream[p] = "open"
  /\ panel[p].at # "streaming"
  /\ stream' = [stream EXCEPT ![p] = "none"]
  /\ UNCHANGED <<events, panel>>
  /\ StreamUnchanged

\* A panel whose GET gave null: finish returns, the panel goes on saying
\* "running", and how it came to this is no longer of interest.
Stuck(q) == [q EXCEPT !.at = "stuck", !.view = NoView, !.cut = FALSE]

\* GET /hires/{id} in a threadpool thread: snapshot reads the fields in turn.
FetchStatus(p) ==
  /\ panel[p].at = "status"
  /\ LET s == hire[panel[p].hire].status IN
     panel' = IF s = "lost"
              THEN [panel EXCEPT ![p] = Stuck(@)]   \* 404
              ELSE [panel EXCEPT ![p].at = "outcome", ![p].view = [panel[p].view EXCEPT !.status = s]]
  /\ UNCHANGED <<events, stream>>
  /\ StreamUnchanged

FetchOutcome(p) ==
  /\ panel[p].at = "outcome"
  /\ panel' = [panel EXCEPT ![p].at = "receipt",
                   ![p].view = [panel[p].view EXCEPT !.outcome = hire[panel[p].hire].outcome]]
  /\ UNCHANGED <<events, stream>>
  /\ StreamUnchanged

\* receipt_by_id reads the receipts table; the panel then shows what it has.
FetchReceipt(p) ==
  /\ panel[p].at = "receipt"
  /\ LET h == panel[p].hire IN
     panel' = [panel EXCEPT ![p].at = "done",
                 ![p].view = [panel[p].view EXCEPT !.receipt = hire[h].receiptId /\ h \in db.receipts]]
  /\ UNCHANGED <<events, stream>>
  /\ StreamUnchanged

\* The GET is lost, or answered with an error: get() returns null.
FetchFails(p) ==
  /\ panel[p].at \in {"status", "outcome", "receipt"}
  /\ panel' = [panel EXCEPT ![p] = Stuck(@)]
  /\ UNCHANGED <<events, stream>>
  /\ StreamUnchanged

-----------------------------------------------------------------------------
(* The server process stops and starts again: memory is gone, open           *)
(* transactions roll back, connections break.                               *)

PanelAfterRestart(q) ==
  CASE q.at = "streaming"            -> [q EXCEPT !.at = "status", !.cut = TRUE]
    [] q.at \in {"outcome", "receipt"} -> Stuck(q)
    [] OTHER                         -> q

Restart ==
  /\ restarts < MaxRestarts
  /\ \E h \in HireIds : hire[h].status \notin {"absent", "lost"}  \* else: a stutter
  /\ restarts' = restarts + 1
  /\ hire' = [h \in HireIds |->
                IF hire[h].status = "absent" THEN Absent ELSE Lost]
  /\ ready' = <<>>
  /\ finishing' = Idle
  /\ events' = [h \in HireIds |-> <<>>]
  /\ executor' = <<>>
  /\ worker' = [h \in HireIds |-> "none"]
  /\ stage' = [h \in HireIds |-> 0]
  /\ txn' = [h \in HireIds |-> {}]
  /\ canceller' = [h \in HireIds |->     \* a cancel of a lost hire is refused
                     IF hire[h].status = "absent" THEN "idle" ELSE "refused"]
  /\ stream' = [p \in Panels |-> "none"]
  /\ panel' = [p \in Panels |-> PanelAfterRestart(panel[p])]
  /\ UNCHANGED db

-----------------------------------------------------------------------------
LoopStep ==
  \/ RunTask
  \/ DeliverPut
  \/ ResumeTask
  \/ FinishOutcome
  \/ FinishIds
  \/ FinishStatus
  \/ FinishFailed
  \/ FinishError

WorkerStep(h) ==
  \/ WorkerStage(h)
  \/ EnsureAgent(h)
  \/ Insert(h)
  \/ Commit(h)

StreamStep(p) == StreamGet(p) \/ StreamTimeout(p)

FetchStep(p) == FetchStatus(p) \/ FetchOutcome(p) \/ FetchReceipt(p)

Next ==
  \/ \E h \in HireIds : Start(h)
  \/ LoopStep
  \/ WorkerStart
  \/ \E h \in HireIds : WorkerStep(h)
  \/ \E h \in HireIds : CancelCheck(h) \/ CancelSet(h)
  \/ \E p \in Panels, h \in HireIds : Connect(p, h)
  \/ \E p \in Panels : StreamStep(p) \/ ConnectionLost(p) \/ StreamGone(p)
  \/ \E p \in Panels : FetchStep(p) \/ FetchFails(p)
  \/ Restart

\* The loop and the threads are scheduled, every phase's blocking call ends
\* (each HTTP client in packages/data has a timeout), the 30 s timer fires, a
\* GET ends. Nobody has to hire, cancel, watch, disconnect, lose a GET or restart.
Fairness ==
  /\ WF_vars(LoopStep)
  /\ WF_vars(WorkerStart)
  /\ \A h \in HireIds : WF_vars(WorkerStep(h))
  /\ \A p \in Panels : WF_vars(StreamTimeout(p)) /\ WF_vars(FetchStep(p))

Spec == Init /\ [][Next]_vars

FairSpec == Spec /\ Fairness

-----------------------------------------------------------------------------
(* Properties.                                                              *)

\* Of every hire the database holds the agent run, the baseline run and the
\* receipt, or none of the three, whatever raised and wherever the server
\* stopped, and no run comes without the agents row (harness._persist writes the
\* three rows in one transaction, after ensure_agent's own).
ReceiptComplete ==
  /\ \A h \in HireIds :
       {k \in RunKinds : <<h, k>> \in db.runs} = IF h \in db.receipts THEN RunKinds ELSE {}
  /\ db.runs # {} => db.agents

\* A hire that reports success, or that it was cancelled after it ran, has a
\* durable receipt: _run publishes these statuses only after the commit.
DoneIsDurable ==
  \A h \in HireIds :
    hire[h].status \in {"ok", "cancelled"} => h \in db.receipts

\* A panel that shows a hire as ok shows its result and its receipt: snapshot
\* reads status, outcome and receipt id while _run assigns them in the
\* opposite order, so a status read early finds the rest already there.
SnapshotComplete ==
  \A p \in Panels :
    /\ panel[p].at = "done"
    /\ panel[p].view.status \in {"ok", "cancelled"}
    => panel[p].view.outcome /\ panel[p].view.receipt

\* Nothing follows the sentinel of a hire, neither an event in its queue nor one
\* that a thread has scheduled, so that no phase event is stranded behind the
\* frame that ends the stream, although two threads schedule events.
EndIsLast ==
  \A h \in HireIds :
    LET scheduled == {j \in DOMAIN ready : ready[j].hire = h /\ ready[j].do = "put"} IN
    /\ \A i \in DOMAIN events[h] :
         events[h][i] = "end" => i = Len(events[h]) /\ scheduled = {}
    /\ \A i, j \in scheduled : ready[i].arg = "end" => j <= i

\* A finished hire never changes status again while the server lives,
\* whichever thread finishes last.
TerminalIsFinal ==
  [][\A h \in HireIds :
       hire[h].status \in Terminal => hire'[h].status \in {hire[h].status, "lost"}]_vars

\* The manager, its threads, its routes and its transactions do for each hire
\* what the lifecycle says: one way from "queued" to an end, a record that is
\* stored at once and only while the hire runs, and a cancellation that counts
\* exactly if its flag is set before _run looks at it (hires.py:113).
Lifecycle == INSTANCE HireLifecycle WITH
  status <- [h \in HireIds |-> hire[h].status],
  asked <- {h \in HireIds : hire[h].cancelled},
  stored <- db.runs \cup (db.receipts \X {"receipt"})

ImplementsLifecycle == Lifecycle!Spec

\* Every hire ends, if only by being lost in a restart: no failure, cancel or
\* full executor leaves it queued or running.
HireEnds ==
  \A h \in HireIds : hire[h].status \in Live ~> hire[h].status \notin Live

\* Every panel that listens comes to show how its hire ended, even when another
\* panel on the same hire has taken the sentinel from the shared queue. Two
\* things excuse it, and in both the panel never looks again: its connection
\* broke, and then it shows what it found at that moment (HirePanel.tsx:65), or its
\* GET got no answer, and then it says "running" for ever (HirePanel.tsx:73). That
\* is less than README.md:96 promises.
PanelSettles ==
  \A p \in Panels :
    panel[p].at = "streaming" ~>
      \/ panel[p].at = "done" /\ (panel[p].view.status \in Terminal \/ panel[p].cut)
      \/ panel[p].at = "stuck"
=============================================================================
