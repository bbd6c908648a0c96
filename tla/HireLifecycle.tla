---------------------------- MODULE HireLifecycle ----------------------------
(***************************************************************************)
(* What a hire promises to whoever ordered it: it waits, runs and ends       *)
(* once; its record is stored whole or not at all and only while it runs;    *)
(* it ends well only with its record stored, as "cancelled" if somebody      *)
(* asked for that in time and as "ok" if not. A server that stops forgets    *)
(* its hires and keeps what is stored. Hires implements it with a loop,      *)
(* executor threads, a database and routes.                                  *)
(***************************************************************************)
CONSTANTS
  HireIds,
  Rows        \* the parts of a hire's record

VARIABLES
  status,     \* status[h], as GET /hires/{h} tells it
  asked,      \* hires whose cancellation was accepted
  stored      \* <<hire, row>> pairs in the database

life == <<status, asked, stored>>

Known == {h \in HireIds : status[h] \notin {"absent", "lost"}}

Init ==
  /\ status = [h \in HireIds |-> "absent"]
  /\ asked = {}
  /\ stored = {}

Order(h) ==
  /\ status[h] = "absent"
  /\ status' = [status EXCEPT ![h] = "queued"]
  /\ UNCHANGED <<asked, stored>>

Begin(h) ==
  /\ status[h] = "queued"
  /\ status' = [status EXCEPT ![h] = "running"]
  /\ UNCHANGED <<asked, stored>>

\* The request was good when it was looked at; it may come too late to matter.
Ask(h) ==
  /\ h \in Known
  /\ asked' = asked \cup {h}
  /\ UNCHANGED <<status, stored>>

Record(h) ==
  /\ status[h] = "running"
  /\ stored' = stored \cup ({h} \X Rows)
  /\ UNCHANGED <<status, asked>>

Conclude(h) ==
  /\ status[h] = "running"
  /\ {h} \X Rows \subseteq stored
  /\ status' = [status EXCEPT ![h] = IF h \in asked THEN "cancelled" ELSE "ok"]
  /\ UNCHANGED <<asked, stored>>

Fail(h) ==
  /\ status[h] = "running"
  /\ status' = [status EXCEPT ![h] = "failed"]
  /\ UNCHANGED <<asked, stored>>

Forget ==
  /\ status' = [h \in HireIds |-> IF status[h] = "absent" THEN "absent" ELSE "lost"]
  /\ asked' = {}
  /\ UNCHANGED stored

Next ==
  \/ \E h \in HireIds :
       Order(h) \/ Begin(h) \/ Ask(h) \/ Record(h) \/ Conclude(h) \/ Fail(h)
  \/ Forget

Spec == Init /\ [][Next]_life
=============================================================================
