---------------------------- MODULE Hires_proofs ----------------------------
(***************************************************************************)
(* Proofs about Hires for any number of hires, panels, phases and executor   *)
(* threads and any number of restarts: what the database and the panels say  *)
(* of a hire is true, and a hire that ended has ended.                       *)
(***************************************************************************)
EXTENDS Hires, TLAPS

\* Nobody schedules an event of a hire any more once its sentinel is.
Ended(h) == hire[h].status \in Terminal /\ finishing.hire # h

\* Of hire h, the loop runs at most one callback that is not an event, and it
\* is the one that fits where the hire stands: the task before it begins, its
\* continuation after the thread has returned, nothing while a thread works.
Tasks(h) ==
  /\ \A i, j \in DOMAIN ready :
       /\ ready[i].hire = h /\ ready[j].hire = h
       /\ ready[i].do # "put" /\ ready[j].do # "put"
       => i = j
  /\ \A i \in DOMAIN ready : ready[i].hire = h =>
       /\ ready[i].do = "run" => hire[h].status = "queued"
       /\ ready[i].do = "resume" =>
            /\ hire[h].status = "running" /\ worker[h] = "returned" /\ finishing.hire # h
            /\ ready[i].arg = "ok" => h \in db.receipts
  /\ \A i \in DOMAIN executor : executor[i] = h => worker[h] = "submitted"
  /\ \A i, j \in DOMAIN executor : executor[i] = h /\ executor[j] = h => i = j

\* A thread works for a running hire, and _run resumes after it has returned.
\* It announces each phase once.
Standing(h) ==
  /\ hire[h].status \in {"absent", "queued"} => worker[h] = "none"
  /\ worker[h] \notin {"none", "returned"} => hire[h].status = "running" /\ finishing.hire # h
  /\ finishing.hire = h => hire[h].status = IF finishing.at = "error" THEN "failed" ELSE "running"
  /\ worker[h] \in {"none", "submitted"} => stage[h] = 0
  /\ worker[h] = "stages" => stage[h] < NStages

\* The rows of a transaction are inserted in order and committed together, so
\* that the database has all rows of a hire or none.
Transaction(h) ==
  /\ worker[h] \in {"none", "submitted", "stages", "persist"} => txn[h] = {}
  /\ worker[h] = "insert" => txn[h] \in {{}, {"agent"}, {"agent", "baseline"}}
  /\ worker[h] = "commit" => txn[h] = Rows /\ db.agents
  /\ h \in db.receipts => {h} \X RunKinds \subseteq db.runs
  /\ h \notin db.receipts => ({h} \X RunKinds) \cap db.runs = {}

\* _run assigns the outcome, then the receipt id, then the status, all of them
\* after the receipt of the hire is committed.
Published(h) ==
  /\ finishing.hire = h =>
       /\ finishing.at \in {"outcome", "ids", "status"} => h \in db.receipts
       /\ finishing.at \in {"ids", "status"} => hire[h].outcome
       /\ finishing.at = "status" => hire[h].receiptId
  /\ hire[h].status \in {"ok", "cancelled"} =>
       hire[h].outcome /\ hire[h].receiptId /\ h \in db.receipts

\* The sentinel is scheduled when the hire ends and nothing comes after it.
Sentinel(h) ==
  /\ \A i \in DOMAIN ready : ready[i].hire = h /\ ready[i].do = "put" =>
       /\ ready[i].arg \in {"event", "end"}
       /\ ready[i].arg = "end" => Ended(h)
  /\ \A i, j \in DOMAIN ready :
       /\ ready[i].hire = h /\ ready[i].do = "put" /\ ready[i].arg = "end"
       /\ ready[j].hire = h /\ ready[j].do = "put"
       => j <= i
  /\ \A i \in DOMAIN events[h] : events[h][i] = "end" =>
       /\ i = Len(events[h]) /\ Ended(h)
       /\ \A j \in DOMAIN ready : ~ (ready[j].hire = h /\ ready[j].do = "put")

HireInv(h) == Tasks(h) /\ Standing(h) /\ Transaction(h) /\ Published(h) /\ Sentinel(h)

\* What a panel has still to read of a hire that it saw done is there.
Watched(p) ==
  /\ panel[p].at # "idle" =>
       panel[p].hire \in HireIds /\ hire[panel[p].hire].status # "absent"
  /\ stream[p] = "open" => panel[p].at # "idle"
  /\ panel[p].view.status \in {"ok", "cancelled"} =>
       /\ panel[p].at \in {"outcome", "receipt"} =>
            /\ hire[panel[p].hire].outcome /\ hire[panel[p].hire].receiptId
            /\ panel[p].hire \in db.receipts
       /\ panel[p].at \in {"receipt", "done"} => panel[p].view.outcome
       /\ panel[p].at = "done" => panel[p].view.receipt

\* What belongs to no hire: where _run stands, and the agents rows.
Shared ==
  /\ finishing.at = "idle" <=> finishing.hire = NoHire
  /\ db.runs # {} => db.agents

IndInv ==
  /\ TypeOK /\ Shared
  /\ \A h \in HireIds : HireInv(h)
  /\ \A p \in Panels : Watched(p)

-----------------------------------------------------------------------------
(* Sequences.                                                               *)

LEMMA Appended ==
  ASSUME NEW S, NEW s \in Seq(S), NEW e \in S
  PROVE  /\ Append(s, e) \in Seq(S) /\ Len(Append(s, e)) = Len(s) + 1
         /\ \A i \in DOMAIN Append(s, e) : i \in DOMAIN s \/ i = Len(s) + 1
         /\ \A i \in DOMAIN s : i \in 1..Len(s) /\ Append(s, e)[i] = s[i]
         /\ Append(s, e)[Len(s) + 1] = e
OBVIOUS

LEMMA AppendedTwo ==
  ASSUME NEW S, NEW s \in Seq(S), NEW e \in S, NEW f \in S
  PROVE  /\ s \o <<e, f>> \in Seq(S) /\ Len(s \o <<e, f>>) = Len(s) + 2
         /\ \A i \in DOMAIN (s \o <<e, f>>) : i \in DOMAIN s \/ i \in {Len(s) + 1, Len(s) + 2}
         /\ \A i \in DOMAIN s : i \in 1..Len(s) /\ (s \o <<e, f>>)[i] = s[i]
         /\ (s \o <<e, f>>)[Len(s) + 1] = e /\ (s \o <<e, f>>)[Len(s) + 2] = f
OBVIOUS

LEMMA Dropped ==
  ASSUME NEW S, NEW s \in Seq(S), s # <<>>
  PROVE  /\ Tail(s) \in Seq(S) /\ Head(s) \in S
         /\ 1 \in DOMAIN s /\ Head(s) = s[1]
         /\ \A i \in DOMAIN Tail(s) : i + 1 \in DOMAIN s /\ Tail(s)[i] = s[i + 1] /\ i \in Nat \ {0}
OBVIOUS

-----------------------------------------------------------------------------
(* Types.                                                                   *)

LEMMA InitTypeOK == Init => TypeOK
BY HiresAssumption DEF Init, TypeOK, Absent, Idle, NoView, PanelOf, WorkerStates, HireObjects,
  PanelStates, Views,  FinishStates, Tables

LEMMA CallbackTypes ==
  ASSUME NEW h \in HireIds
  PROVE  /\ Task(h) \in Callbacks
         /\ Put(h, "event") \in Callbacks /\ Put(h, "end") \in Callbacks
         /\ Resume(h, "ok") \in Callbacks /\ Resume(h, "raised") \in Callbacks
BY DEF Task, Put, Resume, Callbacks

\* The callbacks that run the task, in the form the proofs use them.
LEMMA HeadIsCallback ==
  ASSUME TypeOK, ready # <<>>
  PROVE  /\ Head(ready) \in Callbacks /\ Head(ready).hire \in HireIds
         /\ 1 \in DOMAIN ready /\ Head(ready) = ready[1] /\ Tail(ready) \in Seq(Callbacks)
<1>1. ready \in Seq(Callbacks)
  BY DEF TypeOK
<1>2. Head(ready) \in Callbacks /\ 1 \in DOMAIN ready /\ Head(ready) = ready[1]
      /\ Tail(ready) \in Seq(Callbacks)
  BY <1>1, Dropped
<1> QED BY <1>2 DEF Callbacks

LEMMA HireTypes ==
  ASSUME hire \in [HireIds -> HireObjects], NEW h \in HireIds
  PROVE  /\ \A s \in Live \cup Terminal :
              [hire EXCEPT ![h].status = s] \in [HireIds -> HireObjects]
         /\ [hire EXCEPT ![h].outcome = TRUE] \in [HireIds -> HireObjects]
         /\ [hire EXCEPT ![h].receiptId = TRUE] \in [HireIds -> HireObjects]
         /\ [hire EXCEPT ![h].error = TRUE] \in [HireIds -> HireObjects]
         /\ [hire EXCEPT ![h].cancelled = TRUE] \in [HireIds -> HireObjects]
<1>1. \A s \in Live \cup Terminal : [hire[h] EXCEPT !.status = s] \in HireObjects
  BY DEF HireObjects
<1>2. /\ [hire[h] EXCEPT !.outcome = TRUE] \in HireObjects
      /\ [hire[h] EXCEPT !.receiptId = TRUE] \in HireObjects
      /\ [hire[h] EXCEPT !.error = TRUE] \in HireObjects
      /\ [hire[h] EXCEPT !.cancelled = TRUE] \in HireObjects
  BY DEF HireObjects
<1> QED BY <1>1, <1>2

LEMMA LoopTypes ==
  ASSUME IndInv, TypeOK, LoopStep
  PROVE  TypeOK'
<1> USE DEF TypeOK
<1>0. \A h \in HireIds : \A at \in {"outcome", "failed"} : [hire |-> h, at |-> at] \in FinishStates
  BY DEF FinishStates
<1>1. CASE RunTask
  <2> DEFINE h == Head(ready).hire
  <2>1. h \in HireIds /\ Tail(ready) \in Seq(Callbacks)
    BY <1>1, HeadIsCallback DEF RunTask
  <2>2. /\ ready' = Append(Tail(ready), Put(h, "event"))
        /\ hire' = [hire EXCEPT ![h].status = "running"]
        /\ \/ /\ executor' = Append(executor, h)
              /\ worker' = [worker EXCEPT ![h] = "submitted"] /\ finishing' = finishing
           \/ /\ finishing' = [hire |-> h, at |-> "failed"]
              /\ UNCHANGED <<executor, worker>>
        /\ UNCHANGED <<events, stage, txn, db, canceller, stream, panel, restarts>>
    BY <1>1 DEF RunTask
  <2> HIDE DEF h
  <2>3. ready' \in Seq(Callbacks)
    BY <2>1, <2>2, CallbackTypes, Appended
  <2>4. hire' \in [HireIds -> HireObjects]
    BY <2>1, <2>2, HireTypes DEF Live
  <2>5. executor' \in Seq(HireIds) /\ worker' \in [HireIds -> WorkerStates]
    <3>1. executor' \in Seq(HireIds)
      <4>1. Append(executor, h) \in Seq(HireIds)
        BY <2>1, Appended
      <4> QED BY <2>2, <4>1
    <3>2. worker' \in [HireIds -> WorkerStates]
      BY <2>1, <2>2 DEF WorkerStates
    <3> QED BY <3>1, <3>2
  <2>6. finishing' \in FinishStates
    BY <1>0, <2>1, <2>2
  <2> QED BY <2>2, <2>3, <2>4, <2>5, <2>6
<1>2. CASE DeliverPut
  <2>1. Head(ready).hire \in HireIds /\ Tail(ready) \in Seq(Callbacks) /\ Head(ready) = ready[1]
        /\ 1 \in DOMAIN ready
    BY <1>2, HeadIsCallback DEF DeliverPut
  <2>2. Head(ready).arg \in {"event", "end"}
    BY <1>2, <2>1 DEF DeliverPut, IndInv, HireInv, Sentinel
  <2>3. events' \in [HireIds -> Seq({"event", "end"})]
    <3>1. Append(events[Head(ready).hire], Head(ready).arg) \in Seq({"event", "end"})
      BY <2>1, <2>2, Appended
    <3> QED BY <1>2, <2>1, <3>1 DEF DeliverPut
  <2> QED BY <1>2, <2>1, <2>3 DEF DeliverPut
<1>3. CASE ResumeTask
  <2>1. Head(ready).hire \in HireIds /\ Tail(ready) \in Seq(Callbacks)
    BY <1>3, HeadIsCallback DEF ResumeTask
  <2>2. finishing' \in FinishStates
    BY <1>0, <1>3, <2>1 DEF ResumeTask
  <2> QED BY <1>3, <2>1, <2>2 DEF ResumeTask
<1>4. CASE FinishOutcome \/ FinishIds \/ FinishFailed
  <2>1. finishing.hire \in HireIds
    BY <1>4 DEF IndInv, Shared, FinishOutcome, FinishIds, FinishFailed, FinishStates
  <2>2. hire' \in [HireIds -> HireObjects]
    <3>1. CASE FinishOutcome
      BY <2>1, <3>1, HireTypes DEF FinishOutcome
    <3>2. CASE FinishIds
      BY <2>1, <3>2, HireTypes DEF FinishIds
    <3>3. CASE FinishFailed
      BY <2>1, <3>3, HireTypes DEF FinishFailed, Terminal
    <3> QED BY <1>4, <3>1, <3>2, <3>3
  <2>3. finishing' \in FinishStates
    BY <1>4 DEF FinishOutcome, FinishIds, FinishFailed, FinishStates
  <2> QED BY <1>4, <2>2, <2>3 DEF FinishOutcome, FinishIds, FinishFailed, FinishUnchanged
<1>5. CASE FinishStatus \/ FinishError
  <2>1. finishing.hire \in HireIds
    BY <1>5 DEF IndInv, Shared, FinishStatus, FinishError, FinishStates
  <2>2. hire' \in [HireIds -> HireObjects]
    <3>1. CASE FinishStatus
      <4>1. PICK s \in Terminal : hire' = [hire EXCEPT ![finishing.hire].status = s]
        BY <3>1 DEF FinishStatus, Terminal
      <4> QED BY <2>1, <4>1, HireTypes
    <3>2. CASE FinishError
      BY <2>1, <3>2, HireTypes DEF FinishError
    <3> QED BY <1>5, <3>1, <3>2
  <2>3. ready' \in Seq(Callbacks)
    <3>1. ready' = ready \o <<Put(finishing.hire, "event"), Put(finishing.hire, "end")>>
      BY <1>5 DEF FinishStatus, FinishError
    <3> QED BY <2>1, <3>1, AppendedTwo, CallbackTypes
  <2>4. finishing' \in FinishStates /\ FinishUnchanged
    BY <1>5 DEF FinishStatus, FinishError, Idle, FinishStates
  <2> QED BY <2>2, <2>3, <2>4 DEF FinishUnchanged
<1> QED BY <1>1, <1>2, <1>3, <1>4, <1>5 DEF LoopStep

LEMMA WorkerTypes ==
  ASSUME IndInv, TypeOK, NEW h \in HireIds, WorkerStep(h)
  PROVE  TypeOK'
<1> USE DEF TypeOK
<1>1. /\ Put(h, "event") \in Callbacks
      /\ Resume(h, "ok") \in Callbacks /\ Resume(h, "raised") \in Callbacks
  BY CallbackTypes
<1>2. /\ \A c \in {Put(h, "event"), Resume(h, "raised")} : Append(ready, c) \in Seq(Callbacks)
      /\ \A c \in {Resume(h, "ok"), Resume(h, "raised")} :
           ready \o <<Put(h, "event"), c>> \in Seq(Callbacks)
  BY <1>1, Appended, AppendedTwo
<1>4. CASE WorkerStage(h)
  <2>1. stage' \in [HireIds -> 0..NStages]
    BY <1>4, HiresAssumption DEF WorkerStage, IndInv, HireInv, Standing
  <2>2. ready' \in Seq(Callbacks) /\ worker' \in [HireIds -> WorkerStates]
    <3>1. ready' \in Seq(Callbacks)
      BY <1>2, <1>4 DEF WorkerStage
    <3>2. worker' \in [HireIds -> WorkerStates]
      BY <1>4 DEF WorkerStage, WorkerStates
    <3> QED BY <3>1, <3>2
  <2> QED BY <1>4, <2>1, <2>2 DEF WorkerStage, WorkerUnchanged
<1>5. CASE EnsureAgent(h)
  <2>1. ready' \in Seq(Callbacks) /\ worker' \in [HireIds -> WorkerStates]
    <3>1. ready' \in Seq(Callbacks)
      BY <1>2, <1>5 DEF EnsureAgent
    <3>2. worker' \in [HireIds -> WorkerStates]
      BY ZenonT(30), <1>5 DEF EnsureAgent, WorkerStates
    <3> QED BY <3>1, <3>2
  <2>2. db' \in Tables
    BY <1>5 DEF EnsureAgent, Tables
  <2> QED BY <1>5, <2>1, <2>2 DEF EnsureAgent, WorkerUnchanged
<1>6. CASE Insert(h)
  <2>1. ready' \in Seq(Callbacks) /\ worker' \in [HireIds -> WorkerStates]
    <3>1. ready' \in Seq(Callbacks)
      BY <1>2, <1>6 DEF Insert, Raise
    <3>2. worker' \in [HireIds -> WorkerStates]
      BY <1>6 DEF Insert, Raise, WorkerStates
    <3> QED BY <3>1, <3>2
  <2>2. txn' \in [HireIds -> SUBSET Rows]
    <3>1. txn[h] \cup {InsertNext(h)} \in SUBSET Rows
      BY DEF InsertNext, Rows, RunKinds
    <3> QED BY <1>6, <3>1 DEF Insert
  <2> QED BY <1>6, <2>1, <2>2 DEF Insert, WorkerUnchanged
<1>7. CASE Commit(h)
  <2>1. ready' \in Seq(Callbacks) /\ worker' \in [HireIds -> WorkerStates]
    <3>1. ready' \in Seq(Callbacks)
      BY <1>2, <1>7 DEF Commit, Raise
    <3>2. worker' \in [HireIds -> WorkerStates]
      BY <1>7 DEF Commit, Raise, WorkerStates
    <3> QED BY <3>1, <3>2
  <2>2. Committed(h, txn[h]) \in Tables
    BY DEF Committed, Tables
  <2>3. txn' \in [HireIds -> SUBSET Rows]
    BY <1>7 DEF Commit
  <2> QED BY <1>7, <2>1, <2>2, <2>3 DEF Commit, WorkerUnchanged
<1> QED BY <1>4, <1>5, <1>6, <1>7 DEF WorkerStep

LEMMA StartTypes ==
  ASSUME TypeOK, WorkerStart \/ \E h \in HireIds : Start(h)
  PROVE  TypeOK'
<1> USE DEF TypeOK
<1>1. CASE WorkerStart
  <2>1. Head(executor) \in HireIds /\ Tail(executor) \in Seq(HireIds)
    BY <1>1, Dropped DEF WorkerStart
  <2>2. ready' \in Seq(Callbacks)
    <3>1. Append(ready, Resume(Head(executor), "raised")) \in Seq(Callbacks)
      BY <2>1, CallbackTypes, Appended
    <3> QED BY <1>1, <3>1 DEF WorkerStart, Raise
  <2>3. worker' \in [HireIds -> WorkerStates]
    BY <1>1, <2>1 DEF WorkerStart, Raise, WorkerStates
  <2> QED BY <1>1, <2>1, <2>2, <2>3 DEF WorkerStart, WorkerUnchanged
<1>2. ASSUME NEW h \in HireIds, Start(h) PROVE TypeOK'
  <2>1. hire' \in [HireIds -> HireObjects]
    BY <1>2, HireTypes DEF Start, Live
  <2>2. ready' \in Seq(Callbacks)
    BY <1>2, CallbackTypes, Appended DEF Start
  <2> QED BY <1>2, <2>1, <2>2 DEF Start
<1> QED BY <1>1, <1>2

LEMMA CancelTypes ==
  ASSUME TypeOK, NEW h \in HireIds, CancelCheck(h) \/ CancelSet(h)
  PROVE  TypeOK'
<1> USE DEF TypeOK
<1>1. CASE CancelCheck(h)
  BY <1>1 DEF CancelCheck, CancelUnchanged
<1>2. CASE CancelSet(h)
  <2>1. hire' \in [HireIds -> HireObjects]
    BY <1>2, HireTypes DEF CancelSet
  <2> QED BY <1>2, <2>1 DEF CancelSet, CancelUnchanged
<1> QED BY <1>1, <1>2

\* The steps of panel p and of its stream.
PanelStep(p) ==
  \/ \E h \in HireIds : Connect(p, h)
  \/ StreamStep(p) \/ ConnectionLost(p) \/ StreamGone(p)
  \/ FetchStep(p) \/ FetchFails(p)

\* A panel that got no answer.
LEMMA StuckPanel ==
  ASSUME NEW q \in PanelStates
  PROVE  /\ Stuck(q) \in PanelStates /\ Stuck(q).at = "stuck"
         /\ Stuck(q).hire = q.hire /\ Stuck(q).view = NoView
<1>1. NoView \in Views
  BY DEF NoView, Views
<1> QED BY <1>1 DEF Stuck, PanelStates

LEMMA NewPanel ==
  ASSUME NEW h \in HireIds, NEW at \in {"status", "streaming"}, NEW cut \in BOOLEAN
  PROVE  /\ PanelOf(h, at, cut) \in PanelStates
         /\ PanelOf(h, at, cut).hire = h /\ PanelOf(h, at, cut).at = at
         /\ PanelOf(h, at, cut).view = NoView
<1>1. NoView \in Views
  BY DEF NoView, Views
<1> QED BY <1>1 DEF PanelOf, PanelStates

LEMMA ConnectedPanel ==
  ASSUME NEW p \in Panels, NEW h \in HireIds, Connect(p, h)
  PROVE  \E at \in {"status", "streaming"}, cut \in BOOLEAN :
           panel' = [panel EXCEPT ![p] = PanelOf(h, at, cut)]
<1>1. CASE hire[h].status = "lost"
  BY <1>1 DEF Connect
<1>2. CASE hire[h].status # "lost"
  BY <1>2 DEF Connect
<1> QED BY <1>1, <1>2

\* A panel that reads one more field.
LEMMA ReadingTypes ==
  ASSUME panel \in [Panels -> PanelStates], NEW p \in Panels, NEW view \in Views,
         NEW at \in {"outcome", "receipt", "done"},
         panel' = [panel EXCEPT ![p].at = at, ![p].view = view]
  PROVE  panel' \in [Panels -> PanelStates]
BY ZenonT(30) DEF PanelStates

LEMMA OnMessageTypes ==
  ASSUME TypeOK, NEW p \in Panels, NEW closed \in BOOLEAN, NEW status
  PROVE  OnMessage(p, closed, status) \in [Panels -> PanelStates]
<1>1. panel \in [Panels -> PanelStates]
  BY DEF TypeOK
<1>2. [panel EXCEPT ![p].at = "status"] \in [Panels -> PanelStates]
  BY <1>1 DEF PanelStates
<1> QED BY <1>1, <1>2 DEF OnMessage

LEMMA PanelTypes ==
  ASSUME IndInv, TypeOK, NEW p \in Panels, PanelStep(p)
  PROVE  TypeOK'
<1>1. ASSUME panel' \in [Panels -> PanelStates], stream' \in [Panels -> {"none", "open"}],
             events' \in [HireIds -> Seq({"event", "end"})], StreamUnchanged
      PROVE  TypeOK'
  BY <1>1 DEF TypeOK, StreamUnchanged
<1>2. /\ panel \in [Panels -> PanelStates] /\ stream \in [Panels -> {"none", "open"}]
      /\ events \in [HireIds -> Seq({"event", "end"})]
      /\ hire \in [HireIds -> HireObjects]
  BY DEF TypeOK
<1>3. ASSUME NEW h \in HireIds, Connect(p, h) PROVE TypeOK'
  <2>1. panel' \in [Panels -> PanelStates]
    <3>1. PICK at \in {"status", "streaming"}, cut \in BOOLEAN :
            panel' = [panel EXCEPT ![p] = PanelOf(h, at, cut)]
      BY <1>3, ConnectedPanel
    <3>2. PanelOf(h, at, cut) \in PanelStates
      BY NewPanel
    <3> QED BY <1>2, <3>1, <3>2
  <2> QED BY <1>1, <1>2, <1>3, <2>1 DEF Connect
<1>4. CASE StreamGet(p)
  <2> DEFINE h == panel[p].hire
  <2>1. h \in HireIds
    BY <1>4 DEF StreamGet, IndInv, Watched
  <2>2. events' \in [HireIds -> Seq({"event", "end"})]
    BY <1>2, <1>4, <2>1, Dropped DEF StreamGet
  <2>3. panel' \in [Panels -> PanelStates]
    BY <1>4, OnMessageTypes DEF StreamGet
  <2> QED BY <1>1, <1>2, <1>4, <2>2, <2>3 DEF StreamGet
<1>5. CASE StreamTimeout(p)
  <2>1. panel' \in [Panels -> PanelStates]
    BY <1>5, OnMessageTypes DEF StreamTimeout
  <2> QED BY <1>1, <1>2, <1>5, <2>1 DEF StreamTimeout
<1>6. CASE ConnectionLost(p)
  <2>1. panel' \in [Panels -> PanelStates]
    <3>1. \A q \in PanelStates : [q EXCEPT !.at = "status", !.cut = TRUE] \in PanelStates
      BY DEF PanelStates
    <3>2. panel' = [panel EXCEPT ![p] = [@ EXCEPT !.at = "status", !.cut = TRUE]]
      BY <1>6 DEF ConnectionLost
    <3> QED BY <1>2, <3>1, <3>2
  <2> QED BY <1>1, <1>2, <1>6, <2>1 DEF ConnectionLost
<1>7. CASE StreamGone(p)
  BY <1>1, <1>2, <1>7 DEF StreamGone
<1>0. panel[p].view \in Views
  BY <1>2 DEF PanelStates
<1>8. CASE FetchStatus(p)
  <2> DEFINE s == hire[panel[p].hire].status
             view == [panel[p].view EXCEPT !.status = s]
  <2>1. s \in {"lost"} \cup Live \cup Terminal
    <3>1. panel[p].hire \in HireIds /\ s # "absent"
      BY <1>8 DEF FetchStatus, IndInv, Watched
    <3>2. hire[panel[p].hire] \in HireObjects
      BY <1>2, <3>1
    <3> QED BY <3>1, <3>2 DEF HireObjects
  <2>2. panel' \in [Panels -> PanelStates]
    <3>1. CASE s = "lost"
      BY <1>2, <1>8, <3>1, StuckPanel DEF FetchStatus
    <3>2. CASE s # "lost"
      <4>1. view \in Views
        BY <1>0, <2>1, <3>2 DEF Views
      <4> QED BY <1>2, <1>8, <3>2, <4>1, ReadingTypes DEF FetchStatus
    <3> QED BY <3>1, <3>2
  <2> QED BY <1>1, <1>2, <1>8, <2>2 DEF FetchStatus
<1>9. CASE FetchOutcome(p)
  <2> DEFINE view == [panel[p].view EXCEPT !.outcome = hire[panel[p].hire].outcome]
  <2>1. hire[panel[p].hire].outcome \in BOOLEAN
    BY <1>2, <1>9 DEF FetchOutcome, IndInv, Watched, HireObjects
  <2>2. view \in Views
    BY <1>0, <2>1 DEF Views
  <2>3. panel' \in [Panels -> PanelStates]
    BY <1>2, <1>9, <2>2, ReadingTypes DEF FetchOutcome
  <2> QED BY <1>1, <1>2, <1>9, <2>3 DEF FetchOutcome
<1>10. CASE FetchReceipt(p)
  <2> DEFINE h == panel[p].hire
             view == [panel[p].view EXCEPT !.receipt = hire[h].receiptId /\ h \in db.receipts]
  <2>1. view \in Views
    BY <1>0 DEF Views
  <2>2. panel' \in [Panels -> PanelStates]
    BY <1>2, <1>10, <2>1, ReadingTypes DEF FetchReceipt
  <2> QED BY <1>1, <1>2, <1>10, <2>2 DEF FetchReceipt
<1>11. CASE FetchFails(p)
  <2>1. panel' \in [Panels -> PanelStates]
    BY <1>2, <1>11, StuckPanel DEF FetchFails
  <2> QED BY <1>1, <1>2, <1>11, <2>1 DEF FetchFails
<1> QED BY <1>3, <1>4, <1>5, <1>6, <1>7, <1>8, <1>9, <1>10, <1>11
        DEF PanelStep, StreamStep, FetchStep

LEMMA RestartTypes ==
  ASSUME TypeOK, Restart
  PROVE  TypeOK'
<1> USE DEF TypeOK
<1>1. restarts' \in 0..MaxRestarts
  BY HiresAssumption DEF Restart
<1>2. hire' \in [HireIds -> HireObjects]
  BY DEF Restart, HireObjects, Absent, Lost
<1>3. panel' \in [Panels -> PanelStates]
  <2>1. \A p \in Panels : PanelAfterRestart(panel[p]) \in PanelStates
    <3>1. \A q \in PanelStates : [q EXCEPT !.at = "status", !.cut = TRUE] \in PanelStates
      BY DEF PanelStates
    <3> QED BY <3>1, StuckPanel DEF PanelAfterRestart
  <2> QED BY <2>1 DEF Restart
<1>4. finishing' \in FinishStates
  BY DEF Restart, Idle, FinishStates
<1>5. /\ ready' = <<>> /\ executor' = <<>> /\ events' = [h \in HireIds |-> <<>>]
      /\ stage' = [h \in HireIds |-> 0] /\ 0 \in 0..NStages
      /\ worker' = [h \in HireIds |-> "none"] /\ txn' = [h \in HireIds |-> {}]
      /\ stream' = [p \in Panels |-> "none"] /\ db' = db
      /\ canceller' \in [HireIds -> {"idle", "refused"}]
  BY HiresAssumption DEF Restart
<1> QED BY <1>1, <1>2, <1>3, <1>4, <1>5 DEF WorkerStates

-----------------------------------------------------------------------------
(* What the steps have in common: each is taken for one hire.               *)

\* What a step taken for hire h leaves alone of the others; it may take the
\* first element of a queue and append others of h.
Elsewhere(h) ==
  /\ \E d \in {0, 1} : \A i \in DOMAIN ready' : ready'[i].hire # h =>
       i + d \in DOMAIN ready /\ ready'[i] = ready[i + d]
  /\ \E d \in {0, 1} : \A i \in DOMAIN executor' : executor'[i] # h =>
       i + d \in DOMAIN executor /\ executor'[i] = executor[i + d]
  /\ \A g \in HireIds \ {h} :
       /\ hire'[g] = hire[g] /\ worker'[g] = worker[g] /\ stage'[g] = stage[g]
       /\ txn'[g] = txn[g] /\ events'[g] = events[g]
       /\ finishing'.hire = g => finishing' = finishing
       /\ g \in db'.receipts => g \in db.receipts
       /\ ({g} \X RunKinds) \cap db'.runs \subseteq db.runs
  /\ db.receipts \subseteq db'.receipts /\ db.runs \subseteq db'.runs
  /\ db.agents => db'.agents

LEMMA OthersKept ==
  ASSUME IndInv, TypeOK', NEW h \in HireIds, Elsewhere(h), NEW g \in HireIds, g # h
  PROVE  HireInv(g)'
<1>0. /\ HireInv(g)
      /\ hire'[g] = hire[g] /\ worker'[g] = worker[g] /\ stage'[g] = stage[g]
      /\ txn'[g] = txn[g] /\ events'[g] = events[g]
      /\ finishing'.hire = g => finishing' = finishing
      /\ g \in db'.receipts <=> g \in db.receipts
      /\ db.runs \subseteq db'.runs
      /\ db.agents => db'.agents
  BY DEF IndInv, Elsewhere
<1>1. PICK d \in {0, 1} : \A i \in DOMAIN ready' : ready'[i].hire = g =>
        i + d \in DOMAIN ready /\ ready'[i] = ready[i + d]
  BY DEF Elsewhere
<1>2. PICK e \in {0, 1} : \A i \in DOMAIN executor' : executor'[i] = g =>
        i + e \in DOMAIN executor /\ executor'[i] = executor[i + e]
  BY DEF Elsewhere
<1>3. /\ \A i \in DOMAIN ready' : i \in Nat
      /\ \A i \in DOMAIN executor' : i \in Nat
  BY DEF TypeOK
<1>4. Ended(g) => Ended(g)'
  BY <1>0 DEF Ended
<1>5. Tasks(g)'
  <2>1. \A i, j \in DOMAIN ready' :
          /\ ready'[i].hire = g /\ ready'[j].hire = g
          /\ ready'[i].do # "put" /\ ready'[j].do # "put"
          => i = j
    BY <1>0, <1>1, <1>3 DEF HireInv, Tasks
  <2>2. \A i \in DOMAIN ready' : ready'[i].hire = g =>
          /\ ready'[i].do = "run" => hire'[g].status = "queued"
          /\ ready'[i].do = "resume" =>
               /\ hire'[g].status = "running" /\ worker'[g] = "returned" /\ finishing'.hire # g
               /\ ready'[i].arg = "ok" => g \in db'.receipts
    BY <1>0, <1>1 DEF HireInv, Tasks
  <2>3. \A i \in DOMAIN executor' : executor'[i] = g => worker'[g] = "submitted"
    BY <1>0, <1>2 DEF HireInv, Tasks
  <2>4. \A i, j \in DOMAIN executor' : executor'[i] = g /\ executor'[j] = g => i = j
    BY <1>0, <1>2, <1>3 DEF HireInv, Tasks
  <2> QED BY <2>1, <2>2, <2>3, <2>4 DEF Tasks
<1>6. Standing(g)' /\ Transaction(g)' /\ Published(g)'
  <2>1. Standing(g)'
    BY <1>0 DEF HireInv, Standing
  <2>2. Transaction(g)'
    <3>1. \A rows : rows \subseteq db.runs => rows \subseteq db'.runs
      BY <1>0
    <3>2. /\ g \in db.receipts <=> g \in db'.receipts
          /\ ({g} \X RunKinds) \cap db'.runs \subseteq db.runs
      BY <1>0, Zenon DEF Elsewhere
    <3>3. g \notin db'.receipts => ({g} \X RunKinds) \cap db'.runs = {}
      BY <1>0, <3>2 DEF HireInv, Transaction
    <3> QED BY <1>0, <3>1, <3>2, <3>3, Zenon DEF HireInv, Transaction
  <2>3. Published(g)'
    BY <1>0 DEF HireInv, Published
  <2> QED BY <2>1, <2>2, <2>3
<1>7. Sentinel(g)'
  <2>1. \A i \in DOMAIN ready' : ready'[i].hire = g /\ ready'[i].do = "put" =>
          /\ ready'[i].arg \in {"event", "end"}
          /\ ready'[i].arg = "end" => Ended(g)'
    BY <1>0, <1>1, <1>4 DEF HireInv, Sentinel
  <2>2. \A i, j \in DOMAIN ready' :
          /\ ready'[i].hire = g /\ ready'[i].do = "put" /\ ready'[i].arg = "end"
          /\ ready'[j].hire = g /\ ready'[j].do = "put"
          => j <= i
    BY <1>0, <1>1, <1>3 DEF HireInv, Sentinel
  <2>3. \A i \in DOMAIN events'[g] : events'[g][i] = "end" =>
          /\ i = Len(events'[g]) /\ Ended(g)'
          /\ \A j \in DOMAIN ready' : ~ (ready'[j].hire = g /\ ready'[j].do = "put")
    BY <1>0, <1>1, <1>4 DEF HireInv, Sentinel
  <2> QED BY <2>1, <2>2, <2>3 DEF Sentinel
<1> QED BY <1>5, <1>6, <1>7 DEF HireInv

\* What panels have read stays true while hires only progress.
LEMMA PanelsKept ==
  ASSUME IndInv, UNCHANGED <<stream, panel>>, db.receipts \subseteq db'.receipts,
         \A g \in HireIds :
           /\ hire[g].status # "absent" => hire'[g].status # "absent"
           /\ hire[g].outcome => hire'[g].outcome
           /\ hire[g].receiptId => hire'[g].receiptId
  PROVE  \A p \in Panels : Watched(p)'
BY DEF IndInv, Watched

LEMMA StatusSet ==
  ASSUME TypeOK, NEW h \in HireIds, NEW s,
         hire' = [hire EXCEPT ![h].status = s]
  PROVE  /\ hire'[h].status = s /\ hire'[h].outcome = hire[h].outcome
         /\ hire'[h].receiptId = hire[h].receiptId
         /\ \A g \in HireIds \ {h} : hire'[g] = hire[g]
<1>1. hire \in [HireIds -> HireObjects]
  BY DEF TypeOK
<1>2. hire[h] \in HireObjects /\ hire'[h] = [hire[h] EXCEPT !.status = s]
      /\ \A g \in HireIds \ {h} : hire'[g] = hire[g]
  BY <1>1
<1> QED BY <1>2 DEF HireObjects

LEMMA FlagSet ==
  ASSUME TypeOK, NEW h \in HireIds,
         hire' \in {[hire EXCEPT ![h].outcome = TRUE], [hire EXCEPT ![h].receiptId = TRUE],
                    [hire EXCEPT ![h].error = TRUE], [hire EXCEPT ![h].cancelled = TRUE]}
  PROVE  /\ hire'[h].status = hire[h].status
         /\ hire[h].outcome => hire'[h].outcome
         /\ hire[h].receiptId => hire'[h].receiptId
         /\ hire' = [hire EXCEPT ![h].outcome = TRUE] => hire'[h].outcome
         /\ hire' = [hire EXCEPT ![h].receiptId = TRUE] => hire'[h].receiptId
         /\ \A g \in HireIds \ {h} : hire'[g] = hire[g]
<1>1. hire \in [HireIds -> HireObjects]
  BY DEF TypeOK
<1>2. hire[h] \in HireObjects /\ \A g \in HireIds \ {h} : hire'[g] = hire[g]
  BY <1>1
<1>3. /\ hire' = [hire EXCEPT ![h].outcome = TRUE] => hire'[h] = [hire[h] EXCEPT !.outcome = TRUE]
      /\ hire' = [hire EXCEPT ![h].receiptId = TRUE] => hire'[h] = [hire[h] EXCEPT !.receiptId = TRUE]
      /\ hire' = [hire EXCEPT ![h].error = TRUE] => hire'[h] = [hire[h] EXCEPT !.error = TRUE]
      /\ hire' = [hire EXCEPT ![h].cancelled = TRUE] =>
           hire'[h] = [hire[h] EXCEPT !.cancelled = TRUE]
  BY <1>1
<1> QED BY <1>2, <1>3 DEF HireObjects

\* The four things a step does to the queue of callbacks.
LEMMA ReadyAppended ==
  ASSUME TypeOK, NEW c \in Callbacks, ready' = Append(ready, c)
  PROVE  \E n \in Nat : \A i \in DOMAIN ready' :
           \/ i \in 1..n /\ i \in DOMAIN ready /\ ready'[i] = ready[i]
           \/ i = n + 1 /\ ready'[i] = c
<1>1. ready \in Seq(Callbacks) /\ Len(ready) \in Nat
  BY DEF TypeOK
<1>2. \A i \in DOMAIN ready' :
        \/ i \in 1..Len(ready) /\ i \in DOMAIN ready /\ ready'[i] = ready[i]
        \/ i = Len(ready) + 1 /\ ready'[i] = c
  BY <1>1, Appended
<1> QED BY <1>1, <1>2

LEMMA ReadyAppendedTwo ==
  ASSUME TypeOK, NEW c \in Callbacks, NEW b \in Callbacks, ready' = ready \o <<c, b>>
  PROVE  \E n \in Nat : \A i \in DOMAIN ready' :
           \/ i \in 1..n /\ i \in DOMAIN ready /\ ready'[i] = ready[i]
           \/ i = n + 1 /\ ready'[i] = c
           \/ i = n + 2 /\ ready'[i] = b
<1>1. ready \in Seq(Callbacks) /\ Len(ready) \in Nat
  BY DEF TypeOK
<1>2. \A i \in DOMAIN ready' :
        \/ i \in 1..Len(ready) /\ i \in DOMAIN ready /\ ready'[i] = ready[i]
        \/ i = Len(ready) + 1 /\ ready'[i] = c
        \/ i = Len(ready) + 2 /\ ready'[i] = b
  BY <1>1, AppendedTwo
<1> QED BY <1>1, <1>2

LEMMA ReadyTaken ==
  ASSUME TypeOK, ready # <<>>
  PROVE  /\ Head(ready) \in Callbacks /\ Head(ready).hire \in HireIds
         /\ 1 \in DOMAIN ready /\ Head(ready) = ready[1] /\ Tail(ready) \in Seq(Callbacks)
         /\ \A i \in DOMAIN Tail(ready) :
              i + 1 \in DOMAIN ready /\ Tail(ready)[i] = ready[i + 1] /\ i \in Nat \ {0}
BY HeadIsCallback, Dropped DEF TypeOK

LEMMA ReadyTakenAppended ==
  ASSUME TypeOK, ready # <<>>, NEW c \in Callbacks, ready' = Append(Tail(ready), c)
  PROVE  \E n \in Nat : \A i \in DOMAIN ready' :
           \/ i \in 1..n /\ i + 1 \in DOMAIN ready /\ ready'[i] = ready[i + 1]
           \/ i = n + 1 /\ ready'[i] = c
<1>1. Tail(ready) \in Seq(Callbacks) /\ Len(Tail(ready)) \in Nat
  BY ReadyTaken
<1>2. \A i \in DOMAIN Tail(ready) : i + 1 \in DOMAIN ready /\ Tail(ready)[i] = ready[i + 1]
  BY ReadyTaken
<1>3. \A i \in DOMAIN ready' :
        \/ i \in 1..Len(Tail(ready)) /\ i \in DOMAIN Tail(ready) /\ ready'[i] = Tail(ready)[i]
        \/ i = Len(Tail(ready)) + 1 /\ ready'[i] = c
  BY <1>1, Appended
<1> QED BY <1>1, <1>2, <1>3

LEMMA ReadyDo ==
  ASSUME TypeOK
  PROVE  \A i \in DOMAIN ready : ready[i].do \in {"run", "put", "resume"}
<1>1. \A i \in DOMAIN ready : ready[i] \in Callbacks
  BY DEF TypeOK
<1> QED BY <1>1 DEF Callbacks

LEMMA CallbackFields ==
  ASSUME NEW h, NEW a
  PROVE  /\ Put(h, a).hire = h /\ Put(h, a).do = "put" /\ Put(h, a).arg = a
         /\ Resume(h, a).hire = h /\ Resume(h, a).do = "resume" /\ Resume(h, a).arg = a
         /\ Task(h).hire = h /\ Task(h).do = "run"
BY DEF Put, Resume, Task

\* A queue that a step leaves alone.
LEMMA QueuesSame ==
  ASSUME TypeOK
  PROVE  /\ UNCHANGED ready => \E d \in {0, 1} : \A i \in DOMAIN ready' :
              i + d \in DOMAIN ready /\ ready'[i] = ready[i + d]
         /\ UNCHANGED executor => \E d \in {0, 1} : \A i \in DOMAIN executor' :
              i + d \in DOMAIN executor /\ executor'[i] = executor[i + d]
<1>1. /\ \A i \in DOMAIN ready : i + 0 = i
      /\ \A i \in DOMAIN executor : i + 0 = i
  BY DEF TypeOK
<1> QED BY <1>1

\* A step taken for one hire.
LEMMA OneHireStep ==
  ASSUME IndInv, TypeOK', Shared', NEW h \in HireIds, Elsewhere(h), HireInv(h)',
         \A p \in Panels : Watched(p)'
  PROVE  IndInv'
BY OthersKept DEF IndInv

\* No sentinel is about for a hire that has not ended.
LEMMA NoSentinel ==
  ASSUME IndInv, NEW h \in HireIds, ~ Ended(h)
  PROVE  /\ \A i \in DOMAIN ready : ready[i].hire = h /\ ready[i].do = "put" =>
              ready[i].arg = "event"
         /\ \A i \in DOMAIN events[h] : events[h][i] # "end"
BY DEF IndInv, HireInv, Sentinel

-----------------------------------------------------------------------------
(* The loop's steps.                                                        *)

LEMMA StartKeeps ==
  ASSUME IndInv, TypeOK', NEW h \in HireIds, Start(h)
  PROVE  IndInv'
<1>1. /\ TypeOK /\ HireInv(h) /\ hire[h].status = "absent" /\ worker[h] = "none" /\ stage[h] = 0
      /\ Shared /\ finishing.hire # h /\ txn[h] = {}
  BY HiresAssumption DEF IndInv, HireInv, Standing, Transaction, Start, LoopFree, Idle
<1>2. /\ hire'[h].status = "queued" /\ hire'[h].outcome = hire[h].outcome
      /\ hire'[h].receiptId = hire[h].receiptId /\ \A g \in HireIds \ {h} : hire'[g] = hire[g]
  BY <1>1, StatusSet DEF Start
<1>3. /\ UNCHANGED <<finishing, events, executor, worker, stage, txn, db, stream, panel>>
      /\ ready' = Append(ready, Task(h)) /\ Task(h) \in Callbacks
  BY CallbackTypes DEF Start
<1>4. PICK n \in Nat : \A i \in DOMAIN ready' :
        \/ i \in 1..n /\ i \in DOMAIN ready /\ ready'[i] = ready[i]
        \/ i = n + 1 /\ ready'[i] = Task(h)
  BY <1>1, <1>3, ReadyAppended
<1>5. Task(h).hire = h /\ Task(h).do = "run"
  BY DEF Task
<1>6. ~ Ended(h)
  BY <1>1 DEF Ended, Terminal
<1>7. Elsewhere(h)
  <2>1. \A i \in DOMAIN ready' : ready'[i].hire # h => i + 0 \in DOMAIN ready /\ ready'[i] = ready[i + 0]
    BY <1>4, <1>5
  <2>2. \A i \in DOMAIN executor' : i + 0 \in DOMAIN executor /\ executor'[i] = executor[i + 0]
    BY <1>1, <1>3 DEF TypeOK
  <2> QED BY <1>2, <1>3, <2>1, <2>2 DEF Elsewhere
<1>8. Tasks(h)'
  <2>1. \A i \in DOMAIN ready : ready[i].hire = h => ready[i].do = "put"
    BY <1>1, ReadyDo DEF HireInv, Tasks
  <2> QED BY <1>1, <1>2, <1>3, <1>4, <1>5, <2>1 DEF HireInv, Tasks
<1>9. Standing(h)' /\ Transaction(h)' /\ Published(h)'
  BY <1>1, <1>2, <1>3 DEF HireInv, Standing, Transaction, Published
<1>10. Sentinel(h)'
  BY <1>3, <1>4, <1>5, <1>6, NoSentinel DEF Sentinel
<1>11. \A p \in Panels : Watched(p)'
  BY <1>2, <1>3, PanelsKept
<1> QED BY <1>1, <1>3, <1>7, <1>8, <1>9, <1>10, <1>11, OneHireStep DEF HireInv, Shared

LEMMA RunTaskKeeps ==
  ASSUME IndInv, TypeOK', RunTask
  PROVE  IndInv'
<1>0. PICK h \in HireIds : Head(ready).hire = h
  BY ReadyTaken DEF RunTask, IndInv
<1>1. /\ h \in HireIds /\ 1 \in DOMAIN ready /\ ready[1].hire = h /\ ready[1].do = "run"
      /\ Put(h, "event") \in Callbacks /\ ready # <<>> /\ TypeOK
  BY <1>0, ReadyTaken, CallbackTypes DEF RunTask, IndInv
<1>2. /\ ready' = Append(Tail(ready), Put(h, "event"))
      /\ hire' = [hire EXCEPT ![h].status = "running"]
      /\ \/ /\ worker' = [worker EXCEPT ![h] = "submitted"] /\ finishing' = finishing
            /\ executor' = Append(executor, h)
         \/ /\ finishing' = [hire |-> h, at |-> "failed"]
            /\ UNCHANGED <<executor, worker>>
      /\ finishing = [hire |-> NoHire, at |-> "idle"]
      /\ UNCHANGED <<events, stage, txn, db, stream, panel>>
  BY <1>0 DEF RunTask, LoopFree, Idle
<1>3. PICK n \in Nat : \A i \in DOMAIN ready' :
        \/ i \in 1..n /\ i + 1 \in DOMAIN ready /\ ready'[i] = ready[i + 1]
        \/ i = n + 1 /\ ready'[i] = Put(h, "event")
  BY <1>1, <1>2, ReadyTakenAppended
<1>4. /\ HireInv(h) /\ hire[h].status = "queued" /\ worker[h] = "none" /\ stage[h] = 0
      /\ txn[h] = {} /\ Shared /\ h # NoHire
  BY <1>1, HiresAssumption DEF IndInv, HireInv, Tasks, Standing, Transaction
<1>5. /\ hire'[h].status = "running" /\ hire'[h].outcome = hire[h].outcome
      /\ hire'[h].receiptId = hire[h].receiptId /\ \A g \in HireIds \ {h} : hire'[g] = hire[g]
  BY <1>1, <1>2, StatusSet
<1>6. /\ worker'[h] \in {"none", "submitted"} /\ \A g \in HireIds \ {h} : worker'[g] = worker[g]
      /\ worker'[h] = "submitted" => finishing'.hire # h
  BY <1>1, <1>2, <1>4 DEF TypeOK
<1>7. /\ Put(h, "event").hire = h /\ Put(h, "event").do = "put" /\ Put(h, "event").arg = "event"
  BY DEF Put
<1>8. \A i \in DOMAIN executor' :
        \/ i \in DOMAIN executor /\ executor'[i] = executor[i] /\ executor[i] # h
        \/ executor'[i] = h /\ i = Len(executor) + 1 /\ worker'[h] = "submitted"
  <2>1. executor \in Seq(HireIds) /\ \A i \in DOMAIN executor : executor[i] # h
    BY <1>1, <1>4 DEF TypeOK, HireInv, Tasks
  <2>2. CASE UNCHANGED <<executor, worker>>
    BY <2>1, <2>2
  <2>3. CASE worker' = [worker EXCEPT ![h] = "submitted"] /\ executor' = Append(executor, h)
    <3>1. worker'[h] = "submitted"
      BY <1>1, <2>3 DEF TypeOK
    <3> QED BY <1>1, <2>1, <2>3, <3>1, Appended
  <2> QED BY <1>2, <2>2, <2>3
<1>9. Elsewhere(h)
  <2>1. \A i \in DOMAIN ready' : ready'[i].hire # h => i + 1 \in DOMAIN ready /\ ready'[i] = ready[i + 1]
    BY <1>3, <1>7
  <2>2. \A i \in DOMAIN executor' : executor'[i] # h =>
          i + 0 \in DOMAIN executor /\ executor'[i] = executor[i + 0]
    <3>1. \A i \in DOMAIN executor : i + 0 = i
      BY <1>1 DEF TypeOK
    <3> QED BY <1>8, <3>1
  <2>3. \A g \in HireIds \ {h} : finishing'.hire # g
    BY <1>2, HiresAssumption
  <2> QED BY <1>2, <1>5, <1>6, <2>1, <2>2, <2>3 DEF Elsewhere
<1>10. Tasks(h)'
  <2>1. \A i \in DOMAIN ready' : ready'[i].hire = h => ready'[i].do = "put"
    <3>1. \A i \in DOMAIN ready : ready[i].hire = h /\ ready[i].do # "put" => i = 1
      BY <1>1, <1>4 DEF HireInv, Tasks
    <3> QED BY <1>3, <1>7, <3>1
  <2>2. /\ \A i \in DOMAIN executor' : executor'[i] = h => worker'[h] = "submitted"
        /\ \A i, j \in DOMAIN executor' : executor'[i] = h /\ executor'[j] = h => i = j
    BY <1>8
  <2> QED BY <2>1, <2>2 DEF Tasks
<1>11. Standing(h)' /\ Transaction(h)' /\ Published(h)'
  <2>1. finishing'.hire = h => finishing'.at = "failed"
    BY <1>2, <1>4
  <2>2. Standing(h)'
    BY <1>2, <1>4, <1>5, <1>6, <2>1 DEF Standing
  <2>3. Transaction(h)'
    BY <1>2, <1>4, <1>6 DEF HireInv, Transaction
  <2>4. Published(h)'
    BY <1>5, <2>1 DEF Published
  <2> QED BY <2>2, <2>3, <2>4
<1>12. Sentinel(h)'
  <2>1. ~ Ended(h)
    BY <1>4 DEF Ended, Terminal
  <2> QED BY <1>1, <1>2, <1>3, <1>7, <2>1, NoSentinel DEF Sentinel
<1>13. \A p \in Panels : Watched(p)'
  BY <1>2, <1>4, <1>5, PanelsKept
<1>14. Shared'
  BY <1>1, <1>2, <1>4 DEF Shared
<1> QED BY <1>1, <1>9, <1>10, <1>11, <1>12, <1>13, <1>14, OneHireStep DEF HireInv

LEMMA DeliverPutKeeps ==
  ASSUME IndInv, TypeOK', DeliverPut
  PROVE  IndInv'
<1>0. PICK h \in HireIds : Head(ready).hire = h
  BY ReadyTaken DEF DeliverPut, IndInv
<1>1. /\ TypeOK /\ Shared /\ HireInv(h) /\ 1 \in DOMAIN ready
      /\ ready[1].hire = h /\ ready[1].do = "put"
      /\ \A i \in DOMAIN ready' :
           i + 1 \in DOMAIN ready /\ ready'[i] = ready[i + 1] /\ i \in Nat \ {0}
      /\ \A i \in DOMAIN ready : i \in Nat \ {0}
  BY SMTT(30), <1>0, ReadyTaken DEF DeliverPut, IndInv, TypeOK
<1>2. /\ events' = [events EXCEPT ![h] = Append(@, ready[1].arg)]
      /\ UNCHANGED <<hire, finishing, executor, worker, stage, txn, db, stream, panel>>
  BY <1>0, <1>1, ReadyTaken DEF DeliverPut
<1>3. Elsewhere(h)
  <2>1. \A g \in HireIds \ {h} : events'[g] = events[g]
    BY <1>1, <1>2 DEF TypeOK
  <2> QED BY <1>1, <1>2, <2>1, QueuesSame DEF Elsewhere
<1>4. Tasks(h)'
  <2>1. \A i, j \in DOMAIN ready' :
          /\ ready'[i].hire = h /\ ready'[j].hire = h
          /\ ready'[i].do # "put" /\ ready'[j].do # "put"
          => i = j
    BY <1>1 DEF HireInv, Tasks
  <2> QED BY <1>1, <1>2, <2>1 DEF HireInv, Tasks
<1>5. Standing(h)' /\ Transaction(h)' /\ Published(h)' /\ Shared'
  BY <1>1, <1>2 DEF HireInv, Standing, Transaction, Published, Shared
<1>6. Sentinel(h)'
  <2>0. Ended(h)' <=> Ended(h)
    BY <1>2 DEF Ended
  <2>1. \A i \in DOMAIN ready' : ready'[i].hire = h /\ ready'[i].do = "put" =>
          /\ ready'[i].arg \in {"event", "end"}
          /\ ready'[i].arg = "end" => Ended(h)'
    BY <1>1, <2>0 DEF HireInv, Sentinel
  <2>2. \A i, j \in DOMAIN ready' :
          /\ ready'[i].hire = h /\ ready'[i].do = "put" /\ ready'[i].arg = "end"
          /\ ready'[j].hire = h /\ ready'[j].do = "put"
          => j <= i
    BY <1>1 DEF HireInv, Sentinel
  <2>3. events[h] \in Seq({"event", "end"}) /\ ready[1].arg \in {"event", "end"}
    BY <1>1 DEF TypeOK, HireInv, Sentinel
  <2>4. \A i \in DOMAIN events'[h] :
          \/ i \in DOMAIN events[h] /\ events'[h][i] = events[h][i]
          \/ i = Len(events'[h]) /\ events'[h][i] = ready[1].arg
    <3>1. events'[h] = Append(events[h], ready[1].arg)
      BY <1>1, <1>2 DEF TypeOK
    <3> QED BY <2>3, <3>1, Appended
  <2>5. \A i \in DOMAIN events[h] : events[h][i] # "end"
    BY <1>1 DEF HireInv, Sentinel
  <2>6. ready[1].arg = "end" =>
          Ended(h) /\ \A j \in DOMAIN ready' : ~ (ready'[j].hire = h /\ ready'[j].do = "put")
    BY <1>1 DEF HireInv, Sentinel
  <2>7. \A i \in DOMAIN events'[h] : events'[h][i] = "end" =>
          /\ i = Len(events'[h]) /\ Ended(h)'
          /\ \A j \in DOMAIN ready' : ~ (ready'[j].hire = h /\ ready'[j].do = "put")
    BY <2>0, <2>4, <2>5, <2>6
  <2> QED BY <2>1, <2>2, <2>7 DEF Sentinel
<1>7. \A p \in Panels : Watched(p)'
  BY <1>2, PanelsKept
<1> QED BY <1>3, <1>4, <1>5, <1>6, <1>7, OneHireStep DEF HireInv

LEMMA ResumeTaskKeeps ==
  ASSUME IndInv, TypeOK', ResumeTask
  PROVE  IndInv'
<1>0. PICK h \in HireIds : Head(ready).hire = h
  BY ReadyTaken DEF ResumeTask, IndInv
<1>1. /\ TypeOK /\ Shared /\ HireInv(h) /\ 1 \in DOMAIN ready /\ h # NoHire
      /\ ready[1].hire = h /\ ready[1].do = "resume"
      /\ \A i \in DOMAIN ready' :
           i + 1 \in DOMAIN ready /\ ready'[i] = ready[i + 1] /\ i \in Nat \ {0}
  BY <1>0, ReadyTaken, HiresAssumption DEF ResumeTask, IndInv
<1>2. /\ finishing' = [hire |-> h, at |-> IF ready[1].arg = "ok" THEN "outcome" ELSE "failed"]
      /\ finishing = [hire |-> NoHire, at |-> "idle"]
      /\ UNCHANGED <<hire, events, executor, worker, stage, txn, db, stream, panel>>
  BY <1>0, <1>1, ReadyTaken DEF ResumeTask, LoopFree, Idle
<1>3. Elsewhere(h)
  BY <1>1, <1>2, QueuesSame DEF Elsewhere
<1>4. /\ hire[h].status = "running" /\ worker[h] = "returned"
      /\ ready[1].arg = "ok" => h \in db.receipts
  BY <1>1 DEF HireInv, Tasks
<1>5. Tasks(h)'
  <2>1. \A i \in DOMAIN ready' : ready'[i].hire = h => ready'[i].do = "put"
    <3>1. \A i \in DOMAIN ready : ready[i].hire = h /\ ready[i].do # "put" => i = 1
      BY <1>1 DEF HireInv, Tasks
    <3> QED BY <1>1, <3>1
  <2> QED BY <1>1, <1>2, <2>1 DEF HireInv, Tasks
<1>6. Standing(h)'
  BY <1>1, <1>2, <1>4 DEF HireInv, Standing
<1>7. Transaction(h)'
  BY <1>1, <1>2 DEF HireInv, Transaction
<1>8. Published(h)'
  BY <1>1, <1>2, <1>4 DEF HireInv, Published
<1>9. Sentinel(h)'
  <2>1. ~ Ended(h)
    BY <1>4 DEF Ended, Terminal
  <2> QED BY <1>1, <1>2, <2>1, NoSentinel DEF Sentinel
<1>10. \A p \in Panels : Watched(p)'
  BY <1>2, PanelsKept
<1>11. Shared'
  BY <1>1, <1>2 DEF Shared
<1> QED BY <1>3, <1>5, <1>6, <1>7, <1>8, <1>9, <1>10, <1>11, OneHireStep DEF HireInv

\* The steps inside _run's callback that schedule nothing.
LEMMA FinishKeeps ==
  ASSUME IndInv, TypeOK', FinishOutcome \/ FinishIds \/ FinishFailed
  PROVE  IndInv'
<1>0. PICK h \in HireIds : finishing.hire = h
  BY DEF IndInv, Shared, TypeOK, FinishStates, FinishOutcome, FinishIds, FinishFailed
<1>1. /\ TypeOK /\ Shared /\ HireInv(h) /\ h # NoHire /\ finishing.at \in {"outcome", "ids", "failed"}
      /\ hire[h].status = "running"
      /\ \A i \in DOMAIN ready : ready[i].hire = h => ready[i].do = "put"
  <2>1. /\ TypeOK /\ Shared /\ HireInv(h) /\ h # NoHire
        /\ finishing.at \in {"outcome", "ids", "failed"}
    BY <1>0, HiresAssumption DEF IndInv, FinishOutcome, FinishIds, FinishFailed
  <2>2. hire[h].status = "running"
    BY <1>0, <2>1 DEF HireInv, Standing
  <2>3. \A i \in DOMAIN ready : ready[i].hire = h => ready[i].do = "put"
    BY <1>0, <2>1, <2>2, ReadyDo DEF HireInv, Tasks
  <2> QED BY <2>1, <2>2, <2>3
<1>2. /\ UNCHANGED <<ready, events, executor, worker, stage, txn, db, stream, panel>>
      /\ finishing' = [finishing EXCEPT !.at = CASE finishing.at = "outcome" -> "ids"
                                                 [] finishing.at = "ids" -> "status"
                                                 [] finishing.at = "failed" -> "error"]
  BY DEF FinishOutcome, FinishIds, FinishFailed, FinishUnchanged
<1>3. /\ finishing'.hire = h /\ finishing'.at \in {"ids", "status", "error"}
      /\ finishing'.at = "ids" => finishing.at = "outcome"
      /\ finishing'.at = "status" => finishing.at = "ids"
      /\ finishing'.at = "error" <=> finishing.at = "failed"
  BY <1>0, <1>1, <1>2 DEF TypeOK, FinishStates
<1>4. /\ hire'[h].status = IF finishing.at = "failed" THEN "failed" ELSE "running"
      /\ hire[h].outcome => hire'[h].outcome
      /\ hire[h].receiptId => hire'[h].receiptId
      /\ finishing.at = "outcome" => hire'[h].outcome
      /\ finishing.at = "ids" => hire'[h].receiptId
      /\ \A g \in HireIds \ {h} : hire'[g] = hire[g]
  <2>1. CASE FinishOutcome
    BY <1>0, <1>1, <2>1, FlagSet DEF FinishOutcome
  <2>2. CASE FinishIds
    BY <1>0, <1>1, <2>2, FlagSet DEF FinishIds
  <2>3. CASE FinishFailed
    BY ZenonT(30), <1>0, <1>1, <2>3, StatusSet DEF FinishFailed
  <2> QED BY <2>1, <2>2, <2>3
<1>5. Elsewhere(h)
  BY <1>1, <1>2, <1>3, <1>4, QueuesSame DEF Elsewhere
<1>6. Tasks(h)'
  BY <1>1, <1>2 DEF HireInv, Tasks
<1>7. Standing(h)'
  BY <1>0, <1>1, <1>2, <1>3, <1>4 DEF HireInv, Standing
<1>8. Transaction(h)'
  BY <1>1, <1>2 DEF HireInv, Transaction
<1>9. Published(h)'
  BY <1>0, <1>1, <1>2, <1>3, <1>4 DEF HireInv, Published
<1>10. Sentinel(h)'
  <2>1. ~ Ended(h)
    BY <1>1 DEF Ended, Terminal
  <2> QED BY <1>1, <1>2, <2>1, NoSentinel DEF Sentinel
<1>11. \A p \in Panels : Watched(p)'
  BY <1>1, <1>2, <1>4, PanelsKept
<1>12. Shared'
  BY <1>1, <1>2, <1>3 DEF Shared
<1> QED BY <1>5, <1>6, <1>7, <1>8, <1>9, <1>10, <1>11, <1>12, OneHireStep DEF HireInv

\* The last step of _run's callback, which schedules the sentinel.
LEMMA LastKeeps ==
  ASSUME IndInv, TypeOK', FinishStatus \/ FinishError
  PROVE  IndInv'
<1>0. PICK h \in HireIds : finishing.hire = h
  BY DEF IndInv, Shared, TypeOK, FinishStates, FinishStatus, FinishError
<1>1. /\ TypeOK /\ Shared /\ HireInv(h) /\ h # NoHire
      /\ finishing.at \in {"status", "error"}
      /\ Put(h, "event") \in Callbacks /\ Put(h, "end") \in Callbacks
  BY <1>0, HiresAssumption, CallbackTypes DEF IndInv, FinishStatus, FinishError
<1>2. /\ UNCHANGED <<events, executor, worker, stage, txn, db, stream, panel>>
      /\ ready' = ready \o <<Put(h, "event"), Put(h, "end")>>
      /\ finishing' = [hire |-> NoHire, at |-> "idle"]
  BY <1>0 DEF FinishStatus, FinishError, FinishUnchanged, Idle
<1>3. PICK n \in Nat : \A i \in DOMAIN ready' :
        \/ i \in 1..n /\ i \in DOMAIN ready /\ ready'[i] = ready[i]
        \/ i = n + 1 /\ ready'[i] = Put(h, "event")
        \/ i = n + 2 /\ ready'[i] = Put(h, "end")
  BY <1>1, <1>2, ReadyAppendedTwo
<1>4. /\ hire[h].status = IF finishing.at = "error" THEN "failed" ELSE "running"
      /\ worker[h] \in {"none", "returned"}
      /\ finishing.at = "status" => hire[h].outcome /\ hire[h].receiptId /\ h \in db.receipts
  BY <1>0, <1>1 DEF HireInv, Standing, Published
<1>5. \A i \in DOMAIN ready : ready[i].hire = h => ready[i].do = "put"
  BY <1>0, <1>1, <1>4, ReadyDo DEF HireInv, Tasks
<1>6. /\ hire'[h].status \in Terminal
      /\ finishing.at = "error" => hire'[h].status = "failed"
      /\ hire[h].outcome => hire'[h].outcome
      /\ hire[h].receiptId => hire'[h].receiptId
      /\ \A g \in HireIds \ {h} : hire'[g] = hire[g]
  <2>1. CASE FinishStatus
    <3>1. PICK s \in {"ok", "cancelled"} : hire' = [hire EXCEPT ![h].status = s]
      BY <1>0, <2>1 DEF FinishStatus
    <3> QED BY <1>1, <2>1, <3>1, StatusSet DEF FinishStatus, Terminal
  <2>2. CASE FinishError
    BY <1>0, <1>1, <1>4, <2>2, FlagSet DEF FinishError, Terminal
  <2> QED BY <2>1, <2>2
<1>7. /\ Put(h, "event").hire = h /\ Put(h, "event").do = "put" /\ Put(h, "event").arg = "event"
      /\ Put(h, "end").hire = h /\ Put(h, "end").do = "put" /\ Put(h, "end").arg = "end"
  BY DEF Put
<1>8. Elsewhere(h)
  <2>1. \A i \in DOMAIN ready' : ready'[i].hire # h => i + 0 \in DOMAIN ready /\ ready'[i] = ready[i + 0]
    BY <1>3, <1>7
  <2>2. \A g \in HireIds \ {h} : finishing'.hire # g
    BY <1>2, HiresAssumption
  <2> QED BY <1>1, <1>2, <1>6, <2>1, <2>2, QueuesSame DEF Elsewhere
<1>9. Tasks(h)'
  <2>1. \A i \in DOMAIN ready' : ready'[i].hire = h => ready'[i].do = "put"
    BY <1>3, <1>5, <1>7
  <2> QED BY <1>1, <1>2, <2>1 DEF HireInv, Tasks
<1>10. Standing(h)'
  BY <1>1, <1>2, <1>4, <1>6 DEF HireInv, Standing, Terminal
<1>11. Transaction(h)'
  BY <1>1, <1>2 DEF HireInv, Transaction
<1>12. Published(h)'
  BY <1>1, <1>2, <1>4, <1>6 DEF Published
<1>13. Sentinel(h)'
  <2>1. ~ Ended(h) /\ Ended(h)'
    BY <1>0, <1>1, <1>2, <1>6 DEF Ended
  <2>2. \A i \in DOMAIN ready' : ready'[i].hire = h /\ ready'[i].do = "put" =>
          /\ ready'[i].arg \in {"event", "end"} /\ Ended(h)'
          /\ ready'[i].arg = "end" => i = n + 2
    BY <1>3, <1>7, <2>1, NoSentinel
  <2>3. \A i \in DOMAIN ready' : i <= n + 2
    BY <1>3
  <2>4. \A i \in DOMAIN events'[h] : events'[h][i] # "end"
    BY <1>2, <2>1, NoSentinel
  <2> QED BY <2>2, <2>3, <2>4 DEF Sentinel
<1>14. \A p \in Panels : Watched(p)'
  BY <1>2, <1>4, <1>6, PanelsKept DEF Terminal
<1>15. Shared'
  BY <1>1, <1>2 DEF Shared
<1> QED BY <1>8, <1>9, <1>10, <1>11, <1>12, <1>13, <1>14, <1>15, OneHireStep DEF HireInv

-----------------------------------------------------------------------------
(* The steps of a hire's thread: it schedules an event, or its result when   *)
(* it returns, or both.                                                     *)

Schedules(h) ==
  \/ UNCHANGED ready
  \/ ready' = Append(ready, Put(h, "event"))
  \/ \E r \in {"ok", "raised"} :
       /\ worker'[h] = "returned" /\ (r = "ok" => h \in db'.receipts)
       /\ \/ ready' = Append(ready, Resume(h, r))
          \/ ready' = ready \o <<Put(h, "event"), Resume(h, r)>>

LEMMA ThreadSchedules ==
  ASSUME IndInv, NEW h \in HireIds, Schedules(h), UNCHANGED <<hire, finishing, events>>,
         hire[h].status = "running", finishing.hire # h,
         worker[h] # "returned",
         \A i \in DOMAIN executor' : executor'[i] = h => FALSE
  PROVE  /\ Tasks(h)' /\ Sentinel(h)'
         /\ \E d \in {0, 1} : \A i \in DOMAIN ready' : ready'[i].hire # h =>
              i + d \in DOMAIN ready /\ ready'[i] = ready[i + d]
<1>0. /\ TypeOK /\ HireInv(h)
      /\ Put(h, "event") \in Callbacks
      /\ \A r \in {"ok", "raised"} : Resume(h, r) \in Callbacks
  BY CallbackTypes DEF IndInv
<1>1. /\ ~ Ended(h)
      /\ \A i \in DOMAIN ready : ready[i].hire = h =>
           ready[i].do = "put" /\ ready[i].arg = "event"
      /\ \A i \in DOMAIN events[h] : events[h][i] # "end"
  <2>1. ~ Ended(h)
    BY DEF Ended, Terminal
  <2>2. \A i \in DOMAIN ready : ready[i].hire = h => ready[i].do = "put"
    BY <1>0, ReadyDo DEF HireInv, Tasks
  <2> QED BY <2>1, <2>2, NoSentinel
<1>2. \E n \in Nat : \A i \in DOMAIN ready' :
        \/ i \in DOMAIN ready /\ ready'[i] = ready[i]
        \/ ready'[i].hire = h /\ ready'[i].do = "put" /\ ready'[i].arg = "event"
        \/ /\ i = n /\ ready'[i].hire = h /\ ready'[i].do = "resume"
           /\ worker'[h] = "returned" /\ (ready'[i].arg = "ok" => h \in db'.receipts)
  <2>1. CASE UNCHANGED ready
    BY <2>1
  <2>2. CASE ready' = Append(ready, Put(h, "event"))
    <3>1. PICK n \in Nat : \A i \in DOMAIN ready' :
            \/ i \in DOMAIN ready /\ ready'[i] = ready[i]
            \/ i = n + 1 /\ ready'[i] = Put(h, "event")
      BY <1>0, <2>2, ReadyAppended
    <3> QED BY <3>1, CallbackFields
  <2>3. ASSUME NEW r \in {"ok", "raised"}, ready' = Append(ready, Resume(h, r)),
               worker'[h] = "returned", r = "ok" => h \in db'.receipts
        PROVE  \E n \in Nat : \A i \in DOMAIN ready' :
                 \/ i \in DOMAIN ready /\ ready'[i] = ready[i]
                 \/ /\ i = n /\ ready'[i].hire = h /\ ready'[i].do = "resume"
                    /\ ready'[i].arg = "ok" => h \in db'.receipts
    <3>0. /\ Resume(h, r).hire = h /\ Resume(h, r).do = "resume" /\ Resume(h, r).arg = r
      BY CallbackFields
    <3>1. ready \in Seq(Callbacks) /\ Len(ready) + 1 \in Nat
      BY <1>0 DEF TypeOK
    <3>2. \A i \in DOMAIN ready' :
            \/ i \in DOMAIN ready /\ ready'[i] = ready[i]
            \/ i = Len(ready) + 1 /\ ready'[i] = Resume(h, r)
      BY <1>0, <2>3, <3>1, Appended
    <3> QED BY <2>3, <3>0, <3>1, <3>2
  <2>4. ASSUME NEW r \in {"ok", "raised"},
               ready' = ready \o <<Put(h, "event"), Resume(h, r)>>,
               worker'[h] = "returned", r = "ok" => h \in db'.receipts
        PROVE  \E n \in Nat : \A i \in DOMAIN ready' :
                 \/ i \in DOMAIN ready /\ ready'[i] = ready[i]
                 \/ ready'[i].hire = h /\ ready'[i].do = "put" /\ ready'[i].arg = "event"
                 \/ /\ i = n /\ ready'[i].hire = h /\ ready'[i].do = "resume"
                    /\ ready'[i].arg = "ok" => h \in db'.receipts
    <3>0. /\ Resume(h, r).hire = h /\ Resume(h, r).do = "resume" /\ Resume(h, r).arg = r
          /\ Put(h, "event").hire = h /\ Put(h, "event").do = "put"
          /\ Put(h, "event").arg = "event"
      BY CallbackFields
    <3>1. PICK n \in Nat : \A i \in DOMAIN ready' :
            \/ i \in DOMAIN ready /\ ready'[i] = ready[i]
            \/ i = n + 1 /\ ready'[i] = Put(h, "event")
            \/ i = n + 2 /\ ready'[i] = Resume(h, r)
      BY <1>0, <2>4, ReadyAppendedTwo
    <3>2. n + 2 \in Nat
      OBVIOUS
    <3> QED BY <2>4, <3>0, <3>1, <3>2
  <2> QED BY <2>1, <2>2, <2>3, <2>4 DEF Schedules
<1>3. PICK n \in Nat : \A i \in DOMAIN ready' :
        \/ i \in DOMAIN ready /\ ready'[i] = ready[i]
        \/ ready'[i].hire = h /\ ready'[i].do = "put" /\ ready'[i].arg = "event"
        \/ /\ i = n /\ ready'[i].hire = h /\ ready'[i].do = "resume"
           /\ worker'[h] = "returned" /\ (ready'[i].arg = "ok" => h \in db'.receipts)
  BY <1>2
<1>4. Tasks(h)'
  <2>1. \A i \in DOMAIN ready' : ready'[i].hire = h =>
          \/ ready'[i].do = "put"
          \/ /\ ready'[i].do = "resume" /\ i = n /\ worker'[h] = "returned"
             /\ ready'[i].arg = "ok" => h \in db'.receipts
    BY <1>1, <1>3
  <2> QED BY <2>1 DEF Tasks
<1>5. Sentinel(h)'
  BY <1>1, <1>3 DEF Sentinel
<1>6. \A i \in DOMAIN ready' : ready'[i].hire # h => i + 0 \in DOMAIN ready /\ ready'[i] = ready[i + 0]
  <2>1. \A i \in DOMAIN ready : i + 0 = i
    BY <1>0 DEF TypeOK
  <2> QED BY <1>3, <2>1
<1> QED BY <1>4, <1>5, <1>6

LEMMA WorkerStartKeeps ==
  ASSUME IndInv, TypeOK', WorkerStart
  PROVE  IndInv'
<1>0. /\ TypeOK /\ executor \in Seq(HireIds) /\ executor # <<>>
      /\ executor' = Tail(executor)
  BY DEF IndInv, TypeOK, WorkerStart
<1>1. PICK h \in HireIds : Head(executor) = h
  BY <1>0, Dropped
<1>2. /\ 1 \in DOMAIN executor /\ executor[1] = h
      /\ \A i \in DOMAIN executor' :
           i + 1 \in DOMAIN executor /\ executor'[i] = executor[i + 1] /\ i \in Nat \ {0}
  BY <1>0, <1>1, Dropped
<1>3. /\ HireInv(h) /\ Shared /\ worker[h] = "submitted"
      /\ hire[h].status = "running" /\ finishing.hire # h
  BY <1>2 DEF IndInv, HireInv, Tasks, Standing
<1>4. /\ UNCHANGED <<hire, finishing, events, stage, txn, db, stream, panel>>
      /\ \/ worker' = [worker EXCEPT ![h] = "returned"] /\ ready' = Append(ready, Resume(h, "raised"))
         \/ worker' = [worker EXCEPT ![h] = "stages"] /\ UNCHANGED ready
  BY <1>1 DEF WorkerStart, WorkerUnchanged, Raise
<1>5. /\ \A g \in HireIds \ {h} : worker'[g] = worker[g]
      /\ worker'[h] \in {"returned", "stages"}
      /\ worker' = [worker EXCEPT ![h] = "returned"] => worker'[h] = "returned"
  BY <1>0, <1>4 DEF TypeOK
<1>6. \A i \in DOMAIN executor' : executor'[i] # h
  BY <1>2, <1>3 DEF HireInv, Tasks
<1>7. Schedules(h)
  BY <1>4, <1>5 DEF Schedules
<1>8. /\ Tasks(h)' /\ Sentinel(h)'
      /\ \E d \in {0, 1} : \A i \in DOMAIN ready' : ready'[i].hire # h =>
           i + d \in DOMAIN ready /\ ready'[i] = ready[i + d]
  BY <1>3, <1>4, <1>6, <1>7, ThreadSchedules
<1>9. Elsewhere(h)
  BY <1>2, <1>4, <1>5, <1>8 DEF Elsewhere
<1>10. Standing(h)' /\ Transaction(h)' /\ Published(h)' /\ Shared'
  <2>1. Standing(h)'
    BY <1>3, <1>4, <1>5, HiresAssumption DEF HireInv, Standing
  <2>2. Transaction(h)' /\ Published(h)' /\ Shared'
    BY <1>3, <1>4, <1>5 DEF HireInv, Transaction, Published, Shared
  <2> QED BY <2>1, <2>2
<1>11. \A p \in Panels : Watched(p)'
  BY <1>4, PanelsKept
<1> QED BY <1>8, <1>9, <1>10, <1>11, OneHireStep DEF HireInv

LEMMA WorkerKeeps ==
  ASSUME IndInv, TypeOK', NEW h \in HireIds, WorkerStep(h)
  PROVE  IndInv'
<1>1. /\ TypeOK /\ HireInv(h) /\ Shared
      /\ worker[h] \in {"stages", "persist", "insert", "commit"}
      /\ hire[h].status = "running" /\ finishing.hire # h
  BY DEF IndInv, HireInv, Standing, WorkerStep, WorkerStage, EnsureAgent, Insert, Commit
<1>2. UNCHANGED <<hire, finishing, events, executor, stream, panel>>
  BY DEF WorkerStep, WorkerStage, EnsureAgent, Insert, Commit, WorkerUnchanged
<1>3. \A i \in DOMAIN executor' : executor'[i] # h
  BY <1>1, <1>2 DEF HireInv, Tasks
<1>4. \A g \in HireIds \ {h} :
        worker'[g] = worker[g] /\ stage'[g] = stage[g] /\ txn'[g] = txn[g]
  BY <1>1 DEF TypeOK, WorkerStep, WorkerStage, EnsureAgent, Insert, Commit, Raise
<1>5. /\ worker'[h] # "submitted" /\ worker'[h] # "none"
      /\ Schedules(h)
      /\ worker'[h] = "stages" => stage'[h] < NStages
      /\ worker'[h] \in {"stages", "persist"} => txn'[h] = {}
      /\ worker'[h] = "insert" => txn'[h] \in {{}, {"agent"}, {"agent", "baseline"}}
      /\ worker'[h] = "commit" => txn'[h] = Rows /\ db'.agents
      /\ db.receipts \subseteq db'.receipts /\ db'.receipts \subseteq db.receipts \cup {h}
      /\ db.runs \subseteq db'.runs
      /\ db.agents => db'.agents
      /\ db'.runs # {} => db'.agents
      /\ h \in db'.receipts => {h} \X RunKinds \subseteq db'.runs
      /\ h \notin db'.receipts => ({h} \X RunKinds) \cap db'.runs = {}
      /\ db'.runs \subseteq db.runs \cup ({h} \X RunKinds)
  <2>0. /\ worker \in [HireIds -> WorkerStates] /\ stage \in [HireIds -> 0..NStages]
        /\ txn \in [HireIds -> SUBSET Rows] /\ NStages \in Nat \ {0}
        /\ worker[h] = "stages" => stage[h] < NStages
        /\ worker[h] \in {"stages", "persist"} => txn[h] = {}
        /\ worker[h] = "insert" => txn[h] \in {{}, {"agent"}, {"agent", "baseline"}}
        /\ worker[h] = "commit" => txn[h] = Rows /\ db.agents
        /\ db.runs # {} => db.agents
        /\ h \in db.receipts => {h} \X RunKinds \subseteq db.runs
        /\ h \notin db.receipts => ({h} \X RunKinds) \cap db.runs = {}
    BY <1>1, HiresAssumption DEF TypeOK, HireInv, Standing, Transaction, Shared
  <2>1. CASE WorkerStage(h)
    <3>1. /\ stage'[h] = stage[h] + 1 /\ UNCHANGED <<txn, db>> /\ worker[h] = "stages"
          /\ \/ /\ ready' = Append(ready, Put(h, "event"))
                /\ worker'[h] = IF stage[h] + 1 = NStages THEN "persist" ELSE "stages"
             \/ /\ ready' = ready \o <<Put(h, "event"), Resume(h, "raised")>>
                /\ worker'[h] = "returned"
      BY <2>0, <2>1 DEF WorkerStage
    <3>2. worker'[h] = "stages" => stage'[h] < NStages
      BY <2>0, <3>1
    <3>3. Schedules(h)
      BY <3>1 DEF Schedules
    <3> QED BY <2>0, <3>1, <3>2, <3>3
  <2>2. CASE EnsureAgent(h)
    <3>1. /\ UNCHANGED <<stage, txn>> /\ worker[h] = "persist"
          /\ \/ /\ ready' = Append(ready, Put(h, "event"))
                /\ worker'[h] = "insert" /\ db' = [db EXCEPT !.agents = TRUE]
             \/ /\ ready' = ready \o <<Put(h, "event"), Resume(h, "raised")>>
                /\ worker'[h] = "returned" /\ db' = db
      BY <2>0, <2>2 DEF EnsureAgent
    <3>2. /\ db'.receipts = db.receipts /\ db'.runs = db.runs
          /\ db.agents => db'.agents
      BY <1>1, <3>1 DEF TypeOK, Tables
    <3>3. Schedules(h)
      BY <3>1 DEF Schedules
    <3> QED BY <2>0, <3>1, <3>2, <3>3
  <2>3. CASE Insert(h)
    <3>1. /\ UNCHANGED <<stage, db>> /\ worker[h] = "insert"
          /\ \/ /\ txn'[h] = txn[h] \cup {InsertNext(h)} /\ db.agents
                /\ worker'[h] = IF txn'[h] = Rows THEN "commit" ELSE "insert"
                /\ UNCHANGED ready
             \/ /\ ready' = Append(ready, Resume(h, "raised"))
                /\ worker'[h] = "returned"
      BY <2>0, <2>3 DEF Insert, Raise
    <3>2. worker'[h] = "insert" => txn'[h] \in {{}, {"agent"}, {"agent", "baseline"}}
      BY <2>0, <3>1 DEF InsertNext, Rows, RunKinds
    <3>3. Schedules(h)
      BY <3>1 DEF Schedules
    <3> QED BY <2>0, <3>1, <3>2, <3>3
  <2>4. CASE Commit(h)
    <3>1. /\ UNCHANGED stage /\ worker[h] = "commit" /\ txn[h] = Rows
          /\ db' \in {db, Committed(h, txn[h])} /\ worker'[h] = "returned"
          /\ \/ /\ ready' = ready \o <<Put(h, "event"), Resume(h, "ok")>>
                /\ db' = Committed(h, txn[h])
             \/ ready' = Append(ready, Resume(h, "raised"))
      BY <2>0, <2>4 DEF Commit, Raise
    <3>2. /\ Committed(h, txn[h]).receipts = db.receipts \cup {h}
          /\ Committed(h, txn[h]).runs = db.runs \cup ({h} \X RunKinds)
          /\ Committed(h, txn[h]).agents = db.agents
      <4>1. txn[h] \cap RunKinds = RunKinds /\ "receipt" \in txn[h]
        BY <3>1 DEF Rows, RunKinds
      <4> QED BY <1>1, <4>1 DEF Committed, TypeOK, Tables
    <3>3. Schedules(h)
      BY <3>1, <3>2 DEF Schedules
    <3>4. /\ db.receipts \subseteq db'.receipts /\ db'.receipts \subseteq db.receipts \cup {h}
          /\ db.runs \subseteq db'.runs
          /\ db'.agents = db.agents
          /\ h \in db'.receipts => {h} \X RunKinds \subseteq db'.runs
          /\ h \notin db'.receipts => db' = db
          /\ db'.runs \subseteq db.runs \cup ({h} \X RunKinds)
      BY <2>0, <3>1, <3>2
    <3> QED BY <2>0, <3>1, <3>3, <3>4
  <2> QED BY <2>1, <2>2, <2>3, <2>4 DEF WorkerStep
<1>6. /\ Tasks(h)' /\ Sentinel(h)'
      /\ \E d \in {0, 1} : \A i \in DOMAIN ready' : ready'[i].hire # h =>
           i + d \in DOMAIN ready /\ ready'[i] = ready[i + d]
  BY <1>1, <1>2, <1>3, <1>5, ThreadSchedules
<1>7. Elsewhere(h)
  BY <1>1, <1>2, <1>4, <1>5, <1>6, QueuesSame DEF Elsewhere
<1>8. Standing(h)' /\ Published(h)' /\ Shared'
  BY <1>1, <1>2, <1>5 DEF HireInv, Standing, Published, Shared
<1>9. Transaction(h)'
  BY <1>5 DEF Transaction
<1>10. \A p \in Panels : Watched(p)'
  BY <1>2, <1>5, PanelsKept
<1> QED BY <1>6, <1>7, <1>8, <1>9, <1>10, OneHireStep DEF HireInv

-----------------------------------------------------------------------------
(* The cancel route, the panels and a restart.                              *)

LEMMA CancelKeeps ==
  ASSUME IndInv, TypeOK', NEW h \in HireIds, CancelCheck(h) \/ CancelSet(h)
  PROVE  IndInv'
<1>1. /\ TypeOK /\ HireInv(h) /\ Shared
      /\ UNCHANGED <<ready, finishing, events, executor, worker, stage, txn, db, stream, panel>>
  BY DEF IndInv, CancelCheck, CancelSet, CancelUnchanged
<1>2. /\ hire'[h].status = hire[h].status
      /\ hire[h].outcome => hire'[h].outcome
      /\ hire[h].receiptId => hire'[h].receiptId
      /\ \A g \in HireIds \ {h} : hire'[g] = hire[g]
  <2>1. CASE CancelCheck(h)
    BY <2>1 DEF CancelCheck
  <2>2. CASE CancelSet(h)
    BY <1>1, <2>2, FlagSet DEF CancelSet
  <2> QED BY <2>1, <2>2
<1>3. Elsewhere(h)
  BY <1>1, <1>2, QueuesSame DEF Elsewhere
<1>4. Tasks(h)' /\ Standing(h)'
  BY <1>1, <1>2 DEF HireInv, Tasks, Standing
<1>5. Transaction(h)' /\ Published(h)' /\ Shared'
  BY <1>1, <1>2 DEF HireInv, Transaction, Published, Shared
<1>6. Sentinel(h)'
  BY <1>1, <1>2 DEF HireInv, Sentinel, Ended
<1>7. \A p \in Panels : Watched(p)'
  BY <1>1, <1>2, PanelsKept
<1> QED BY <1>3, <1>4, <1>5, <1>6, <1>7, OneHireStep DEF HireInv

\* A panel may take an element of a queue of events.
LEMMA PanelKeepsHires ==
  ASSUME IndInv, NEW p \in Panels, PanelStep(p)
  PROVE  /\ StreamUnchanged /\ Shared' /\ \A h \in HireIds : HireInv(h)'
<1>1. StreamUnchanged
  BY DEF PanelStep, StreamStep, FetchStep, Connect, StreamGet, StreamTimeout, ConnectionLost,
    StreamGone, FetchStatus, FetchOutcome, FetchReceipt, FetchFails
<1>2. \A h \in HireIds :
        \/ events'[h] = events[h]
        \/ events[h] # <<>> /\ events'[h] = Tail(events[h])
  <2>1. CASE StreamGet(p)
    <3>1. panel[p].hire \in HireIds /\ events \in [HireIds -> Seq({"event", "end"})]
      BY <2>1 DEF StreamGet, IndInv, Watched, TypeOK
    <3> QED BY <2>1, <3>1 DEF StreamGet
  <2>2. CASE ~ StreamGet(p)
    BY <2>2 DEF PanelStep, StreamStep, FetchStep, Connect, StreamTimeout, ConnectionLost,
      StreamGone, FetchStatus, FetchOutcome, FetchReceipt, FetchFails
  <2> QED BY <2>1, <2>2
<1>3. ASSUME NEW h \in HireIds PROVE HireInv(h)'
  <2>1. HireInv(h) /\ UNCHANGED <<hire, ready, finishing, executor, worker, stage, txn, db>>
    BY <1>1 DEF IndInv, StreamUnchanged
  <2>2. Tasks(h)' /\ Standing(h)'
    BY <2>1 DEF HireInv, Tasks, Standing
  <2>3. Transaction(h)' /\ Published(h)'
    BY <2>1 DEF HireInv, Transaction, Published
  <2>4. \A i \in DOMAIN events'[h] : events'[h][i] = "end" =>
          /\ i = Len(events'[h]) /\ Ended(h)
          /\ \A j \in DOMAIN ready : ~ (ready[j].hire = h /\ ready[j].do = "put")
    <3>1. CASE events'[h] = events[h]
      BY <2>1, <3>1 DEF HireInv, Sentinel
    <3>2. CASE events[h] # <<>> /\ events'[h] = Tail(events[h])
      <4>1. /\ events[h] \in Seq({"event", "end"})
            /\ Len(Tail(events[h])) = Len(events[h]) - 1 /\ Len(events[h]) \in Nat
        BY <3>2 DEF IndInv, TypeOK
      <4>2. \A i \in DOMAIN events'[h] :
              i + 1 \in DOMAIN events[h] /\ events'[h][i] = events[h][i + 1] /\ i \in Nat \ {0}
        BY <3>2, <4>1, Dropped
      <4> QED BY <2>1, <3>2, <4>1, <4>2 DEF HireInv, Sentinel
    <3> QED BY <1>2, <3>1, <3>2
  <2>5. Sentinel(h)'
    BY <2>1, <2>4 DEF HireInv, Sentinel, Ended
  <2> QED BY <2>2, <2>3, <2>5 DEF HireInv
<1> QED BY <1>1, <1>3 DEF IndInv, StreamUnchanged, Shared

LEMMA Moving ==
  ASSUME TypeOK, NEW p \in Panels, NEW at,
         panel' = [panel EXCEPT ![p].at = at]
  PROVE  /\ panel'[p].at = at /\ panel'[p].view = panel[p].view
         /\ panel'[p].hire = panel[p].hire
         /\ \A q \in Panels \ {p} : panel'[q] = panel[q]
<1>1. panel \in [Panels -> PanelStates]
  BY DEF TypeOK
<1>2. panel[p] \in PanelStates /\ panel'[p] = [panel[p] EXCEPT !.at = at]
      /\ \A q \in Panels \ {p} : panel'[q] = panel[q]
  BY <1>1
<1> QED BY <1>2 DEF PanelStates

LEMMA PanelKeeps ==
  ASSUME IndInv, TypeOK', NEW p \in Panels, PanelStep(p)
  PROVE  IndInv'
<1>1. /\ Shared' /\ \A h \in HireIds : HireInv(h)'
      /\ UNCHANGED <<hire, db>>
  BY PanelKeepsHires DEF StreamUnchanged
<1>2. /\ TypeOK /\ Watched(p) /\ panel[p].view \in Views /\ HiresAssumption
      /\ stream \in [Panels -> {"none", "open"}] /\ panel \in [Panels -> PanelStates]
  BY HiresAssumption DEF IndInv, TypeOK, PanelStates
<1>3. ASSUME \A q \in Panels \ {p} : panel'[q] = panel[q] /\ stream'[q] = stream[q], Watched(p)'
      PROVE  IndInv'
  <2>1. ASSUME NEW q \in Panels, q # p PROVE Watched(q)'
    BY <1>1, <1>3, <2>1 DEF IndInv, Watched
  <2> QED BY <1>1, <1>3, <2>1 DEF IndInv
<1>4. ASSUME NEW at \in {"status", "streaming"}, panel[p].at # "idle",
             stream'[p] \in {stream[p], "none"},
             \/ panel' = [panel EXCEPT ![p].at = at]
             \/ panel' = panel
      PROVE  Watched(p)' /\ \A q \in Panels \ {p} : panel'[q] = panel[q]
  <2>1. \/ panel' = panel
        \/ /\ panel'[p].at = at /\ panel'[p].view = panel[p].view
           /\ panel'[p].hire = panel[p].hire
    BY <1>2, <1>4, Moving
  <2>2. \A q \in Panels \ {p} : panel'[q] = panel[q]
    BY <1>2, <1>4, Moving
  <2> QED BY <1>1, <1>2, <1>4, <2>1, <2>2 DEF Watched
<1>5. ASSUME NEW h \in HireIds, Connect(p, h) PROVE IndInv'
  <2>1. /\ hire[h].status # "absent" /\ panel[p].at = "idle"
        /\ panel'[p].hire = h /\ panel'[p].at \in {"status", "streaming"}
        /\ panel'[p].view = NoView
        /\ \A q \in Panels \ {p} : panel'[q] = panel[q] /\ stream'[q] = stream[q]
    <3>1. PICK at \in {"status", "streaming"}, cut \in BOOLEAN :
            panel' = [panel EXCEPT ![p] = PanelOf(h, at, cut)]
      BY <1>5, ConnectedPanel
    <3>2. panel'[p] = PanelOf(h, at, cut) /\ \A q \in Panels \ {p} : panel'[q] = panel[q]
      BY <1>2, <3>1
    <3>3. \A q \in Panels \ {p} : stream'[q] = stream[q]
      BY <1>2, <1>5 DEF Connect
    <3> QED BY <1>5, <3>2, <3>3, NewPanel DEF Connect
  <2>2. Watched(p)'
    BY <1>1, <1>2, <2>1 DEF Watched, NoView
  <2> QED BY <1>3, <2>1, <2>2
<1>6. CASE StreamGet(p) \/ StreamTimeout(p)
  <2>1. /\ panel[p].at # "idle" /\ stream'[p] \in {"none", "open"} /\ stream[p] = "open"
        /\ \A q \in Panels \ {p} : stream'[q] = stream[q]
        /\ panel' \in {panel, [panel EXCEPT ![p].at = "status"]}
    BY <1>2, <1>6 DEF StreamGet, StreamTimeout, OnMessage, Watched
  <2> QED BY <1>3, <1>4, <2>1
<1>7. CASE ConnectionLost(p)
  <2>1. /\ panel[p] \in PanelStates /\ panel[p].at # "idle" /\ UNCHANGED stream
        /\ panel'[p] = [panel[p] EXCEPT !.at = "status", !.cut = TRUE]
        /\ \A q \in Panels \ {p} : panel'[q] = panel[q]
    BY <1>2, <1>7 DEF ConnectionLost
  <2>2. /\ panel'[p].at = "status" /\ panel'[p].view = panel[p].view
        /\ panel'[p].hire = panel[p].hire
    BY <2>1 DEF PanelStates
  <2>3. Watched(p)'
    BY <1>1, <1>2, <2>1, <2>2 DEF Watched
  <2> QED BY <1>3, <2>1, <2>3
<1>8. CASE StreamGone(p)
  <2>1. /\ stream' = [stream EXCEPT ![p] = "none"] /\ panel' = panel /\ panel[p].at # "idle"
    BY <1>2, <1>8 DEF StreamGone, Watched
  <2>2. stream'[p] = "none" /\ \A q \in Panels \ {p} : stream'[q] = stream[q]
    BY <1>2, <2>1
  <2> QED BY <1>3, <1>4, <2>1, <2>2
<1>12. ASSUME panel[p].at # "idle", UNCHANGED stream, panel' = [panel EXCEPT ![p] = Stuck(@)]
       PROVE  IndInv'
  <2>1. /\ panel'[p].at = "stuck" /\ panel'[p].view = NoView
        /\ panel'[p].hire = panel[p].hire
        /\ \A q \in Panels \ {p} : panel'[q] = panel[q] /\ stream'[q] = stream[q]
    BY <1>2, <1>12, StuckPanel
  <2>2. Watched(p)'
    BY <1>1, <1>2, <1>12, <2>1 DEF Watched, NoView
  <2> QED BY <1>3, <2>1, <2>2
<1>9. CASE FetchStatus(p)
  <2> DEFINE s == hire[panel[p].hire].status
             view == [panel[p].view EXCEPT !.status = s]
  <2>0. panel[p].hire \in HireIds /\ s # "absent" /\ UNCHANGED stream /\ panel[p].at = "status"
    BY <1>2, <1>9 DEF FetchStatus, Watched
  <2>1. CASE s = "lost"
    <3>1. panel' = [panel EXCEPT ![p] = Stuck(@)]
      BY <1>9, <2>1 DEF FetchStatus
    <3> QED BY <1>12, <2>0, <3>1
  <2>2. CASE s # "lost"
    <3>1. hire[panel[p].hire] \in HireObjects /\ HireInv(panel[p].hire)
      BY <2>0, <1>2 DEF IndInv, TypeOK
    <3>2. view \in Views /\ view.status = s
      BY <1>2, <2>0, <2>2, <3>1 DEF Views, HireObjects
    <3>3. panel' = [panel EXCEPT ![p].at = "outcome", ![p].view = view]
      BY <1>9, <2>2 DEF FetchStatus
    <3> HIDE DEF view
    <3>4. /\ panel'[p].at = "outcome" /\ panel'[p].view = view
          /\ panel'[p].hire = panel[p].hire
          /\ \A q \in Panels \ {p} : panel'[q] = panel[q]
      <4>1. /\ panel'[p] = [panel[p] EXCEPT !.at = "outcome", !.view = view]
            /\ \A q \in Panels \ {p} : panel'[q] = panel[q] /\ panel[p] \in PanelStates
        BY <1>2, <3>3
      <4> QED BY <1>2, <4>1 DEF PanelStates
    <3>5. view.status \in {"ok", "cancelled"} =>
            /\ hire[panel[p].hire].outcome /\ hire[panel[p].hire].receiptId
            /\ panel[p].hire \in db.receipts
      BY <3>1, <3>2 DEF HireInv, Published
    <3>6. Watched(p)'
      BY <1>1, <2>0, <3>4, <3>5 DEF Watched
    <3> QED BY <1>3, <2>0, <3>4, <3>6
  <2> QED BY <2>1, <2>2
<1>10. CASE FetchOutcome(p)
  <2> DEFINE view == [panel[p].view EXCEPT !.outcome = hire[panel[p].hire].outcome]
  <2>0. /\ panel[p].hire \in HireIds /\ UNCHANGED stream /\ panel[p].at = "outcome"
        /\ hire[panel[p].hire].status # "absent"
    BY <1>2, <1>10 DEF FetchOutcome, Watched
  <2>1. /\ view \in Views /\ view.status = panel[p].view.status
        /\ view.outcome = hire[panel[p].hire].outcome
    <3>1. hire[panel[p].hire].outcome \in BOOLEAN
      BY <1>2, <2>0 DEF TypeOK, HireObjects
    <3> QED BY <1>2, <3>1 DEF Views
  <2>2. panel' = [panel EXCEPT ![p].at = "receipt", ![p].view = view]
    BY <1>10 DEF FetchOutcome
  <2> HIDE DEF view
  <2>3. /\ panel'[p].at = "receipt" /\ panel'[p].view = view
        /\ panel'[p].hire = panel[p].hire
        /\ \A q \in Panels \ {p} : panel'[q] = panel[q]
    <3>1. /\ panel'[p] = [panel[p] EXCEPT !.at = "receipt", !.view = view]
          /\ \A q \in Panels \ {p} : panel'[q] = panel[q] /\ panel[p] \in PanelStates
      BY <1>2, <2>2
    <3> QED BY <1>2, <3>1 DEF PanelStates
  <2>4. Watched(p)'
    BY <1>1, <1>2, <2>0, <2>1, <2>3 DEF Watched
  <2> QED BY <1>3, <2>0, <2>3, <2>4
<1>11. CASE FetchReceipt(p)
  <2> DEFINE h == panel[p].hire
             view == [panel[p].view EXCEPT !.receipt = hire[h].receiptId /\ h \in db.receipts]
  <2>0. /\ h \in HireIds /\ UNCHANGED stream /\ panel[p].at = "receipt"
        /\ hire[h].status # "absent"
    BY <1>2, <1>11 DEF FetchReceipt, Watched
  <2>1. /\ view \in Views /\ view.status = panel[p].view.status
        /\ view.outcome = panel[p].view.outcome
        /\ hire[h].receiptId /\ h \in db.receipts => view.receipt
    BY <1>2 DEF Views
  <2>2. panel' = [panel EXCEPT ![p].at = "done", ![p].view = view]
    BY <1>11 DEF FetchReceipt
  <2> HIDE DEF view
  <2>3. /\ panel'[p].at = "done" /\ panel'[p].view = view
        /\ panel'[p].hire = panel[p].hire
        /\ \A q \in Panels \ {p} : panel'[q] = panel[q]
    <3>1. /\ panel'[p] = [panel[p] EXCEPT !.at = "done", !.view = view]
          /\ \A q \in Panels \ {p} : panel'[q] = panel[q] /\ panel[p] \in PanelStates
      BY <1>2, <2>2
    <3> QED BY <1>2, <3>1 DEF PanelStates
  <2>4. Watched(p)'
    BY <1>1, <1>2, <2>0, <2>1, <2>3 DEF Watched
  <2> QED BY <1>3, <2>0, <2>3, <2>4
<1>13. CASE FetchFails(p)
  BY <1>12, <1>13 DEF FetchFails
<1> QED BY <1>5, <1>6, <1>7, <1>8, <1>9, <1>10, <1>11, <1>13
        DEF PanelStep, StreamStep, FetchStep

LEMMA RestartKeeps ==
  ASSUME IndInv, TypeOK', Restart
  PROVE  IndInv'
<1>1. /\ ready' = <<>> /\ executor' = <<>> /\ UNCHANGED db
      /\ finishing' = [hire |-> NoHire, at |-> "idle"]
      /\ \A h \in HireIds :
           /\ hire'[h].status = IF hire[h].status = "absent" THEN "absent" ELSE "lost"
           /\ events'[h] = <<>> /\ worker'[h] = "none" /\ stage'[h] = 0 /\ txn'[h] = {}
      /\ \A p \in Panels : stream'[p] = "none" /\ panel'[p] = PanelAfterRestart(panel[p])
  BY DEF Restart, Idle, Absent, Lost
<1>2. Shared'
  BY <1>1 DEF IndInv, Shared
<1>3. ASSUME NEW h \in HireIds PROVE HireInv(h)'
  <2>1. Tasks(h)' /\ Sentinel(h)'
    BY <1>1 DEF Tasks, Sentinel
  <2>2. Standing(h)' /\ Transaction(h)' /\ Published(h)'
    BY <1>1, HiresAssumption DEF IndInv, HireInv, Standing, Transaction, Published
  <2> QED BY <2>1, <2>2 DEF HireInv
<1>4. ASSUME NEW p \in Panels PROVE Watched(p)'
  <2>1. Watched(p) /\ panel[p] \in PanelStates
    BY DEF IndInv, TypeOK
  <2>2. /\ panel'[p].hire = panel[p].hire
        /\ panel'[p].at \notin {"outcome", "receipt"}
        /\ panel'[p].at = "idle" <=> panel[p].at = "idle"
        /\ panel'[p].at = "done" => panel'[p] = panel[p]
    <3>1. CASE panel[p].at = "streaming"
      <4>1. panel'[p] = [panel[p] EXCEPT !.at = "status", !.cut = TRUE]
        BY <1>1, <3>1 DEF PanelAfterRestart
      <4> QED BY <2>1, <3>1, <4>1 DEF PanelStates
    <3>2. CASE panel[p].at \in {"outcome", "receipt"}
      <4>1. panel'[p] = Stuck(panel[p])
        BY <1>1, <3>2 DEF PanelAfterRestart
      <4> QED BY <2>1, <3>2, <4>1, StuckPanel
    <3>3. CASE panel[p].at \notin {"streaming", "outcome", "receipt"}
      BY <1>1, <3>3 DEF PanelAfterRestart
    <3> QED BY <3>1, <3>2, <3>3
  <2> QED BY <1>1, <2>1, <2>2 DEF Watched
<1> QED BY <1>2, <1>3, <1>4 DEF IndInv

-----------------------------------------------------------------------------
(* The invariant and what follows from it.                                  *)

LEMMA InitInv == Init => IndInv
<1> SUFFICES ASSUME Init PROVE IndInv
  OBVIOUS
<1>1. Shared
  BY DEF Init, Shared, Idle
<1>2. ASSUME NEW h \in HireIds PROVE HireInv(h)
  <2>1. /\ hire[h].status = "absent" /\ worker[h] = "none" /\ stage[h] = 0 /\ txn[h] = {}
        /\ finishing.hire = NoHire /\ ready = <<>> /\ executor = <<>> /\ events[h] = <<>>
        /\ db.receipts = {} /\ db.runs = {} /\ h # NoHire
    BY HiresAssumption DEF Init, Idle, Absent
  <2> QED BY <2>1 DEF HireInv, Tasks, Standing, Transaction, Published, Sentinel
<1>3. \A p \in Panels : Watched(p)
  BY DEF Init, Watched, NoView, PanelOf
<1> QED BY <1>1, <1>2, <1>3, InitTypeOK DEF IndInv

LEMMA NextTypes ==
  ASSUME IndInv, Next
  PROVE  TypeOK'
<1>1. TypeOK
  BY DEF IndInv
<1> QED BY <1>1, LoopTypes, WorkerTypes, StartTypes, CancelTypes, PanelTypes, RestartTypes
        DEF Next, PanelStep

LEMMA StepInv == IndInv /\ [Next]_vars => IndInv'
<1> SUFFICES ASSUME IndInv, [Next]_vars PROVE IndInv'
  OBVIOUS
<1>1. CASE Next
  <2>1. TypeOK'
    BY <1>1, NextTypes
  <2>2. CASE LoopStep
    BY <2>1, <2>2, RunTaskKeeps, DeliverPutKeeps, ResumeTaskKeeps, FinishKeeps, LastKeeps
       DEF LoopStep
  <2>3. CASE WorkerStart \/ Restart
    BY <2>1, <2>3, WorkerStartKeeps, RestartKeeps
  <2>4. ASSUME NEW h \in HireIds,
               Start(h) \/ WorkerStep(h) \/ CancelCheck(h) \/ CancelSet(h)
        PROVE  IndInv'
    BY <2>1, <2>4, StartKeeps, WorkerKeeps, CancelKeeps
  <2>5. ASSUME NEW p \in Panels, PanelStep(p) PROVE IndInv'
    BY <2>1, <2>5, PanelKeeps
  <2> QED BY <1>1, <2>2, <2>3, <2>4, <2>5 DEF Next, PanelStep
<1>2. CASE UNCHANGED vars
  <2>1. /\ UNCHANGED <<hire, ready, finishing, events, executor, worker, stage, txn>>
        /\ UNCHANGED <<db, canceller, stream, panel, restarts>>
    BY <1>2 DEF vars
  <2>2. TypeOK' /\ Shared'
    BY <2>1 DEF IndInv, TypeOK, Shared
  <2>3. ASSUME NEW h \in HireIds PROVE HireInv(h)'
    <3>1. Tasks(h)' /\ Standing(h)'
      BY <2>1 DEF IndInv, HireInv, Tasks, Standing
    <3>2. Transaction(h)' /\ Published(h)'
      BY <2>1 DEF IndInv, HireInv, Transaction, Published
    <3>3. Sentinel(h)'
      BY <2>1 DEF IndInv, HireInv, Sentinel, Ended
    <3> QED BY <3>1, <3>2, <3>3 DEF HireInv
  <2>4. \A p \in Panels : Watched(p)'
    BY <2>1, PanelsKept
  <2> QED BY <2>2, <2>3, <2>4 DEF IndInv
<1> QED BY <1>1, <1>2

\* The invariant holds of every behaviour of the loop, the thread, the database
\* and the panels.
THEOREM Invariance == Spec => []IndInv
<1>1. Init => IndInv
  BY InitInv
<1>2. IndInv /\ [Next]_vars => IndInv'
  BY StepInv
<1> QED BY <1>1, <1>2, PTL DEF Spec

\* The state of the manager, the thread, the database and the panels keeps its
\* types whatever the loop, the threads, the routes and a restart do.
THEOREM TypeCorrect == Spec => []TypeOK
<1>1. IndInv => TypeOK
  BY DEF IndInv
<1> QED BY <1>1, Invariance, PTL

\* _persist writes the three rows in one transaction after ensure_agent's own:
\* no receipt without its runs, no run without its pair and its receipt, and no
\* run without its agent, for any number of hires whose transactions interleave,
\* fail and commit unnoticed.
THEOREM ReceiptsComplete == Spec => []ReceiptComplete
<1>1. IndInv => ReceiptComplete
  BY DEF IndInv, Shared, HireInv, Transaction, ReceiptComplete, TypeOK, Tables
<1> QED BY <1>1, Invariance, PTL

\* _run publishes "ok" and "cancelled" only after the commit of the receipt.
THEOREM DoneStaysDurable == Spec => []DoneIsDurable
<1>1. IndInv => DoneIsDurable
  BY DEF IndInv, HireInv, Published, DoneIsDurable
<1> QED BY <1>1, Invariance, PTL

\* The sentinel of _run's finally block is the last thing scheduled for a
\* hire, although two threads schedule events of it.
THEOREM SentinelIsLast == Spec => []EndIsLast
<1>1. IndInv => EndIsLast
  BY DEF IndInv, HireInv, Sentinel, EndIsLast
<1> QED BY <1>1, Invariance, PTL

\* snapshot reads the status first and _run writes it last, so what a panel
\* shows of a finished hire is whole, for any number of panels and hires.
THEOREM SnapshotsComplete == Spec => []SnapshotComplete
<1>1. IndInv => SnapshotComplete
  BY DEF IndInv, Watched, SnapshotComplete
<1> QED BY <1>1, Invariance, PTL

\* No step gives a finished hire another status, but a restart forgets it.
THEOREM TerminalStays == Spec => TerminalIsFinal
<1> DEFINE Final == \A h \in HireIds :
             hire[h].status \in Terminal => hire'[h].status \in {hire[h].status, "lost"}
<1>1. IndInv /\ [Next]_vars => [Final]_vars
  <2> SUFFICES ASSUME IndInv, Next, NEW h \in HireIds, hire[h].status \in Terminal
               PROVE  hire'[h].status \in {hire[h].status, "lost"}
    OBVIOUS
  <2>1. TypeOK /\ HireInv(h) /\ hire \in [HireIds -> HireObjects]
    BY DEF IndInv, TypeOK
  <2>2. ASSUME NEW g \in HireIds, g # h \/ hire[h].status \notin Terminal, NEW s,
               hire' = [hire EXCEPT ![g].status = s]
        PROVE  hire'[h].status = hire[h].status
    BY <2>1, <2>2, StatusSet
  <2>3. ASSUME NEW g \in HireIds,
               hire' \in {[hire EXCEPT ![g].outcome = TRUE], [hire EXCEPT ![g].receiptId = TRUE],
                          [hire EXCEPT ![g].error = TRUE], [hire EXCEPT ![g].cancelled = TRUE]}
        PROVE  hire'[h].status = hire[h].status
    BY <2>1, <2>3, FlagSet
  <2>4. finishing.at # "idle" => finishing.hire \in HireIds
    BY DEF IndInv, Shared, TypeOK, FinishStates
  <2>5. finishing.hire = h /\ finishing.at # "error" => hire[h].status = "running"
    BY <2>1 DEF HireInv, Standing
  <2>6. CASE RunTask
    <3>1. PICK g \in HireIds : Head(ready).hire = g /\ hire[g].status = "queued"
      BY <2>1, <2>6, ReadyTaken DEF RunTask, IndInv, HireInv, Tasks
    <3>2. g # h /\ hire' = [hire EXCEPT ![g].status = "running"]
      BY <2>6, <3>1 DEF RunTask, Terminal
    <3> QED BY <2>2, <3>2
  <2>7. CASE DeliverPut \/ ResumeTask
    BY <2>7 DEF DeliverPut, ResumeTask
  <2>8. CASE FinishOutcome \/ FinishIds \/ FinishError
    BY <2>3, <2>4, <2>8 DEF FinishOutcome, FinishIds, FinishError
  <2>9. CASE FinishStatus \/ FinishFailed
    <3>1. PICK g \in HireIds : finishing.hire = g
      BY <2>4, <2>9 DEF FinishStatus, FinishFailed
    <3>2. g # h
      BY <2>5, <2>9, <3>1 DEF FinishStatus, FinishFailed, Terminal
    <3>3. \E s : hire' = [hire EXCEPT ![g].status = s]
      BY <2>9, <3>1 DEF FinishStatus, FinishFailed
    <3> QED BY <2>2, <3>2, <3>3
  <2>10. CASE WorkerStart \/ \E g \in HireIds : WorkerStep(g)
    BY <2>10 DEF WorkerStart, WorkerStep, WorkerStage, EnsureAgent, Insert, Commit, WorkerUnchanged
  <2>11. ASSUME NEW g \in HireIds, Start(g) PROVE hire'[h].status = hire[h].status
    BY <2>2, <2>11 DEF Start, Terminal
  <2>12. ASSUME NEW g \in HireIds, CancelCheck(g) \/ CancelSet(g)
         PROVE  hire'[h].status = hire[h].status
    BY <2>3, <2>12 DEF CancelCheck, CancelSet
  <2>13. ASSUME NEW p \in Panels, PanelStep(p) PROVE hire'[h].status = hire[h].status
    BY <2>13, PanelKeepsHires DEF StreamUnchanged
  <2>14. CASE Restart
    BY <2>14 DEF Restart, Terminal, Lost
  <2> QED BY <2>6, <2>7, <2>8, <2>9, <2>10, <2>11, <2>12, <2>13, <2>14
          DEF Next, LoopStep, PanelStep
<1> QED BY <1>1, Invariance, PTL DEF Spec, TerminalIsFinal

-----------------------------------------------------------------------------
(* The hires implement their lifecycle.                                     *)

Statuses == [h \in HireIds |-> hire[h].status]
Asked == {h \in HireIds : hire[h].cancelled}
Stored == db.runs \cup (db.receipts \X {"receipt"})

\* A cancel request past its check belongs to a hire that the server knows.
Checked ==
  \A h \in HireIds : canceller[h] = "checked" => hire[h].status \notin {"absent", "lost"}

LEMMA StatusMoves ==
  ASSUME TypeOK, NEW h \in HireIds, NEW s, hire' = [hire EXCEPT ![h].status = s]
  PROVE  Statuses' = [Statuses EXCEPT ![h] = s] /\ Asked' = Asked
<1>1. hire \in [HireIds -> HireObjects]
  BY DEF TypeOK
<1>2. hire[h] \in HireObjects /\ hire'[h] = [hire[h] EXCEPT !.status = s]
      /\ \A g \in HireIds \ {h} : hire'[g] = hire[g]
  BY <1>1
<1>3. hire'[h].status = s /\ hire'[h].cancelled = hire[h].cancelled
  BY <1>2 DEF HireObjects
<1>4. \A g \in HireIds : hire'[g].status = [Statuses EXCEPT ![h] = s][g]
  BY <1>2, <1>3 DEF Statuses
<1>5. \A g \in HireIds : hire'[g].cancelled = hire[g].cancelled
  BY <1>2, <1>3
<1>6. Statuses' = [Statuses EXCEPT ![h] = s]
  BY <1>4 DEF Statuses
<1>7. Asked' = Asked
  BY <1>5, ZenonT(20) DEF Asked
<1> QED BY <1>6, <1>7

LEMMA FlagMoves ==
  ASSUME TypeOK, NEW h \in HireIds,
         hire' \in {[hire EXCEPT ![h].outcome = TRUE], [hire EXCEPT ![h].receiptId = TRUE],
                    [hire EXCEPT ![h].error = TRUE]}
  PROVE  Statuses' = Statuses /\ Asked' = Asked
<1>1. hire \in [HireIds -> HireObjects]
  BY DEF TypeOK
<1>2. hire[h] \in HireObjects /\ \A g \in HireIds \ {h} : hire'[g] = hire[g]
  BY <1>1
<1>3. hire'[h].status = hire[h].status /\ hire'[h].cancelled = hire[h].cancelled
  <2>1. CASE hire' = [hire EXCEPT ![h].outcome = TRUE]
    <3>1. hire'[h] = [hire[h] EXCEPT !.outcome = TRUE]
      BY <1>1, <2>1
    <3> QED BY <1>2, <3>1 DEF HireObjects
  <2>2. CASE hire' = [hire EXCEPT ![h].receiptId = TRUE]
    <3>1. hire'[h] = [hire[h] EXCEPT !.receiptId = TRUE]
      BY <1>1, <2>2
    <3> QED BY <1>2, <3>1 DEF HireObjects
  <2>3. CASE hire' = [hire EXCEPT ![h].error = TRUE]
    <3>1. hire'[h] = [hire[h] EXCEPT !.error = TRUE]
      BY <1>1, <2>3
    <3> QED BY <1>2, <3>1 DEF HireObjects
  <2> QED BY <2>1, <2>2, <2>3
<1> QED BY <1>2, <1>3 DEF Statuses, Asked

LEMMA CancelMoves ==
  ASSUME TypeOK, NEW h \in HireIds, hire' = [hire EXCEPT ![h].cancelled = TRUE]
  PROVE  Statuses' = Statuses /\ Asked' = Asked \cup {h}
<1>1. hire \in [HireIds -> HireObjects]
  BY DEF TypeOK
<1>2. hire[h] \in HireObjects /\ hire'[h] = [hire[h] EXCEPT !.cancelled = TRUE]
      /\ \A g \in HireIds \ {h} : hire'[g] = hire[g]
  BY <1>1
<1>3. hire'[h].status = hire[h].status /\ hire'[h].cancelled
  BY <1>2 DEF HireObjects
<1> QED BY <1>2, <1>3 DEF Statuses, Asked

\* What the lifecycle sees of a step that touches neither hires nor tables.
LEMMA NothingSeen ==
  ASSUME UNCHANGED <<hire, db>>
  PROVE  UNCHANGED Lifecycle!life
<1>1. Statuses' = Statuses /\ Asked' = Asked /\ Stored' = Stored
  BY DEF Statuses, Asked, Stored
<1> QED BY <1>1 DEF Lifecycle!life, Statuses, Asked, Stored

LEMMA StoredStays ==
  ASSUME db' = db
  PROVE  Stored' = Stored
BY DEF Stored

LEMMA LifecycleInit == Init => Lifecycle!Init
<1> SUFFICES ASSUME Init PROVE Lifecycle!Init
  OBVIOUS
<1>1. Statuses = [h \in HireIds |-> "absent"] /\ Asked = {} /\ Stored = {}
  BY DEF Init, Absent, Statuses, Asked, Stored
<1> QED BY <1>1 DEF Lifecycle!Init, Statuses, Asked, Stored

\* POST /hires orders.
LEMMA StartIsOrder ==
  ASSUME TypeOK, NEW h \in HireIds, Start(h)
  PROVE  Lifecycle!Order(h)
<1>1. Statuses[h] = "absent" /\ Statuses' = [Statuses EXCEPT ![h] = "queued"] /\ Asked' = Asked
  BY StatusMoves DEF Start, Statuses
<1>2. Stored' = Stored
  BY StoredStays DEF Start
<1> QED BY <1>1, <1>2 DEF Lifecycle!Order, Statuses, Asked, Stored

\* The first lines of _run begin the hire that waited.
LEMMA RunTaskIsBegin ==
  ASSUME IndInv, RunTask
  PROVE  \E h \in HireIds : Lifecycle!Begin(h)
<1>1. TypeOK /\ ready # <<>> /\ Head(ready).do = "run"
  BY DEF IndInv, RunTask
<1>2. PICK h \in HireIds : Head(ready).hire = h /\ hire[h].status = "queued"
  BY <1>1, ReadyTaken DEF IndInv, HireInv, Tasks
<1>3. Statuses' = [Statuses EXCEPT ![h] = "running"] /\ Asked' = Asked /\ Statuses[h] = "queued"
  BY <1>1, <1>2, StatusMoves DEF RunTask, Statuses
<1>4. Stored' = Stored
  BY StoredStays DEF RunTask
<1> QED BY <1>3, <1>4 DEF Lifecycle!Begin, Statuses, Asked, Stored

\* The last lines of _run conclude the hire or give it up; what stands between
\* them shows nothing yet.
LEMMA FinishIsEnd ==
  ASSUME IndInv,
         FinishOutcome \/ FinishIds \/ FinishStatus \/ FinishFailed \/ FinishError
  PROVE  \/ \E h \in HireIds : Lifecycle!Conclude(h) \/ Lifecycle!Fail(h)
         \/ UNCHANGED Lifecycle!life
<1>1. PICK h \in HireIds : finishing.hire = h
  BY DEF IndInv, Shared, TypeOK, FinishStates, FinishOutcome, FinishIds, FinishStatus,
         FinishFailed, FinishError
<1>2. TypeOK /\ HireInv(h) /\ Stored' = Stored
  BY StoredStays DEF IndInv, FinishOutcome, FinishIds, FinishStatus, FinishFailed, FinishError,
                     FinishUnchanged
<1>3. CASE FinishOutcome \/ FinishIds \/ FinishError
  <2>1. hire' \in {[hire EXCEPT ![h].outcome = TRUE], [hire EXCEPT ![h].receiptId = TRUE],
                   [hire EXCEPT ![h].error = TRUE]}
    BY <1>1, <1>3 DEF FinishOutcome, FinishIds, FinishError
  <2>2. Statuses' = Statuses /\ Asked' = Asked
    BY <1>2, <2>1, FlagMoves
  <2> QED BY <1>2, <2>2 DEF Lifecycle!life, Statuses, Asked, Stored
<1>4. CASE FinishStatus
  <2>1. hire[h].status = "running" /\ h \in db.receipts /\ {h} \X RunKinds \subseteq db.runs
    BY <1>1, <1>2, <1>4 DEF FinishStatus, HireInv, Standing, Published, Transaction
  <2>2. {h} \X Rows \subseteq Stored
    BY <2>1 DEF Stored, Rows, RunKinds
  <2>3. hire' = [hire EXCEPT ![h].status = IF h \in Asked THEN "cancelled" ELSE "ok"]
    BY <1>1, <1>4 DEF FinishStatus, Asked
  <2>4. /\ Statuses' = [Statuses EXCEPT ![h] = IF h \in Asked THEN "cancelled" ELSE "ok"]
        /\ Asked' = Asked /\ Statuses[h] = "running"
    BY <1>2, <2>1, <2>3, StatusMoves DEF Statuses
  <2>5. Lifecycle!Conclude(h)
    BY <1>2, <2>2, <2>4 DEF Lifecycle!Conclude, Statuses, Asked, Stored
  <2> QED BY <2>5
<1>5. CASE FinishFailed
  <2>1. hire[h].status = "running" /\ hire' = [hire EXCEPT ![h].status = "failed"]
    BY <1>1, <1>2, <1>5 DEF FinishFailed, HireInv, Standing
  <2>2. Statuses' = [Statuses EXCEPT ![h] = "failed"] /\ Asked' = Asked /\ Statuses[h] = "running"
    BY <1>2, <2>1, StatusMoves DEF Statuses
  <2>3. Lifecycle!Fail(h)
    BY <1>2, <2>2 DEF Lifecycle!Fail, Statuses, Asked, Stored
  <2> QED BY <2>3
<1> QED BY <1>3, <1>4, <1>5

\* The commit of the thread's transaction, acknowledged or not, stores the
\* whole record of a running hire; nothing else the thread does is seen.
LEMMA WorkerIsRecord ==
  ASSUME IndInv, NEW h \in HireIds, WorkerStep(h)
  PROVE  Lifecycle!Record(h) \/ UNCHANGED Lifecycle!life
<1>1. hire' = hire /\ Statuses' = Statuses /\ Asked' = Asked
  BY DEF WorkerStep, WorkerStage, EnsureAgent, Insert, Commit, WorkerUnchanged, Statuses, Asked
<1>2. CASE Stored' = Stored
  BY <1>1, <1>2 DEF Lifecycle!life, Statuses, Asked, Stored
<1>3. CASE Stored' # Stored
  <2>1. db \in Tables
    BY DEF IndInv, TypeOK
  <2>2. ~ (WorkerStage(h) \/ Insert(h) \/ EnsureAgent(h))
    <3>1. CASE WorkerStage(h) \/ Insert(h)
      BY <1>3, <3>1, StoredStays DEF WorkerStage, Insert
    <3>2. CASE EnsureAgent(h)
      <4>1. db'.runs = db.runs /\ db'.receipts = db.receipts
        BY <2>1, <3>2 DEF EnsureAgent, Tables
      <4> QED BY <1>3, <4>1 DEF Stored
    <3> QED BY <3>1, <3>2
  <2>3. Commit(h) /\ worker[h] = "commit" /\ db' = Committed(h, txn[h])
    BY <1>3, <2>2, StoredStays DEF WorkerStep, Commit
  <2>4. txn[h] = Rows /\ hire[h].status = "running"
    BY <2>3 DEF IndInv, HireInv, Transaction, Standing
  <2>5. db'.runs = db.runs \cup ({h} \X RunKinds) /\ db'.receipts = db.receipts \cup {h}
    BY <2>1, <2>3, <2>4 DEF Committed, Tables, Rows, RunKinds
  <2>6. Stored' = Stored \cup ({h} \X Rows)
    BY <2>5 DEF Stored, Rows, RunKinds
  <2>7. Lifecycle!Record(h)
    BY <1>1, <2>4, <2>6 DEF Lifecycle!Record, Statuses, Asked, Stored
  <2> QED BY <2>7
<1> QED BY <1>2, <1>3

\* Setting the flag accepts the cancellation, of a hire that may have ended
\* since the check.
LEMMA CancelIsAsk ==
  ASSUME TypeOK, Checked, NEW h \in HireIds, CancelSet(h)
  PROVE  Lifecycle!Ask(h)
<1>1. Statuses' = Statuses /\ Asked' = Asked \cup {h} /\ Stored' = Stored
  BY CancelMoves, StoredStays DEF CancelSet, CancelUnchanged
<1>2. Statuses[h] \notin {"absent", "lost"}
  BY DEF Checked, CancelSet, Statuses
<1> QED BY <1>1, <1>2 DEF Lifecycle!Ask, Lifecycle!Known, Statuses, Asked, Stored

LEMMA RestartIsForget ==
  ASSUME Restart
  PROVE  Lifecycle!Forget
<1>1. /\ Statuses' = [h \in HireIds |-> IF Statuses[h] = "absent" THEN "absent" ELSE "lost"]
      /\ Asked' = {} /\ Stored' = Stored
  BY DEF Restart, Absent, Lost, Statuses, Asked, Stored
<1> QED BY <1>1 DEF Lifecycle!Forget, Statuses, Asked, Stored

\* While the server runs no hire is forgotten.
LEMMA GoesOn ==
  ASSUME IndInv, Checked, [Next]_vars, ~ Restart
  PROVE  \/ \E h \in HireIds :
              \/ Lifecycle!Order(h) \/ Lifecycle!Begin(h) \/ Lifecycle!Ask(h)
              \/ Lifecycle!Record(h) \/ Lifecycle!Conclude(h) \/ Lifecycle!Fail(h)
         \/ UNCHANGED Lifecycle!life
<1>0. TypeOK
  BY DEF IndInv
<1>1. ASSUME NEW h \in HireIds, Start(h) PROVE Lifecycle!Order(h)
  BY <1>0, <1>1, StartIsOrder
<1>2. CASE RunTask
  BY <1>2, RunTaskIsBegin
<1>3. CASE DeliverPut \/ ResumeTask \/ WorkerStart
  BY <1>3, NothingSeen DEF DeliverPut, ResumeTask, WorkerStart, WorkerUnchanged
<1>4. CASE FinishOutcome \/ FinishIds \/ FinishStatus \/ FinishFailed \/ FinishError
  BY <1>4, FinishIsEnd
<1>5. ASSUME NEW h \in HireIds, WorkerStep(h)
      PROVE  Lifecycle!Record(h) \/ UNCHANGED Lifecycle!life
  BY <1>5, WorkerIsRecord
<1>6. ASSUME NEW h \in HireIds, CancelCheck(h) PROVE UNCHANGED Lifecycle!life
  BY <1>6, NothingSeen DEF CancelCheck, CancelUnchanged
<1>7. ASSUME NEW h \in HireIds, CancelSet(h) PROVE Lifecycle!Ask(h)
  BY <1>0, <1>7, CancelIsAsk
<1>8. ASSUME NEW p \in Panels, PanelStep(p) PROVE UNCHANGED Lifecycle!life
  BY <1>8, PanelKeepsHires, NothingSeen DEF StreamUnchanged
<1>9. CASE UNCHANGED vars
  BY <1>9, NothingSeen DEF vars
<1> QED BY <1>1, <1>2, <1>3, <1>4, <1>5, <1>6, <1>7, <1>8, <1>9
        DEF Next, LoopStep, PanelStep

LEMMA LifecycleNext == IndInv /\ Checked /\ [Next]_vars => [Lifecycle!Next]_Lifecycle!life
<1> SUFFICES ASSUME IndInv, Checked, [Next]_vars
             PROVE  Lifecycle!Next \/ UNCHANGED Lifecycle!life
  OBVIOUS
<1>1. CASE Restart
  BY <1>1, RestartIsForget DEF Lifecycle!Next
<1>2. CASE ~ Restart
  BY <1>2, GoesOn DEF Lifecycle!Next
<1> QED BY <1>1, <1>2

\* Only a stop of the server makes a hire unknown, and it ends all requests.
LEMMA CheckedStep == IndInv /\ Checked /\ [Next]_vars => Checked'
<1> SUFFICES ASSUME IndInv, Checked, [Next]_vars, NEW h \in HireIds, canceller'[h] = "checked"
             PROVE  hire'[h].status \notin {"absent", "lost"}
  BY DEF Checked
<1>1. ~ Restart
  BY DEF Restart
<1>2. hire[h].status \notin {"absent", "lost"}
  <2>1. CASE canceller[h] = "checked"
    BY <2>1 DEF Checked
  <2>2. CASE canceller'[h] # canceller[h]
    <3>1. PICK g \in HireIds : CancelCheck(g) \/ CancelSet(g)
      BY <1>1, <2>2
      DEF Next, LoopStep, RunTask, DeliverPut, ResumeTask, FinishOutcome, FinishIds,
          FinishStatus, FinishFailed, FinishError, FinishUnchanged, Start, WorkerStart,
          WorkerStep, WorkerStage, EnsureAgent, Insert, Commit, WorkerUnchanged, Connect,
          StreamStep, StreamGet, StreamTimeout, ConnectionLost, StreamGone, FetchStep,
          FetchStatus, FetchOutcome, FetchReceipt, FetchFails, StreamUnchanged, vars
    <3>2. canceller \in [HireIds -> {"idle", "checked", "accepted", "refused"}]
      BY DEF IndInv, TypeOK
    <3> QED BY <2>2, <3>1, <3>2 DEF CancelCheck, CancelSet, Live
  <2> QED BY <2>1, <2>2
<1>3. \/ Statuses' = Statuses
      \/ \E g \in HireIds, s \in {"queued"} \cup {"running"} \cup Terminal :
           Statuses' = [Statuses EXCEPT ![g] = s]
  BY <1>1, GoesOn
  DEF Lifecycle!Order, Lifecycle!Begin, Lifecycle!Ask, Lifecycle!Record, Lifecycle!Conclude,
      Lifecycle!Fail, Lifecycle!life, Statuses, Terminal
<1>4. Statuses'[h] = Statuses[h] \/ Statuses'[h] \in {"queued", "running"} \cup Terminal
  BY <1>3 DEF Statuses
<1> QED BY <1>2, <1>4 DEF Statuses, Terminal

\* Whatever the loop, the threads, the routes, the panels and the database do,
\* and whenever the server stops, each hire goes the way of its lifecycle.
THEOREM Refinement == Spec => ImplementsLifecycle
<1>1. Init => Checked
  BY DEF Init, Checked
<1>2. IndInv /\ Checked /\ [Next]_vars => Checked'
  BY CheckedStep
<1>3. Init => Lifecycle!Init
  BY LifecycleInit
<1>4. IndInv /\ Checked /\ [Next]_vars => [Lifecycle!Next]_Lifecycle!life
  BY LifecycleNext
<1> QED BY <1>1, <1>2, <1>3, <1>4, Invariance, PTL
        DEF Spec, ImplementsLifecycle, Lifecycle!Spec

=============================================================================
