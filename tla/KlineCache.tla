----------------------------- MODULE KlineCache -----------------------------
(***************************************************************************)
(* The parquet cache of candles (packages/data/cache.py, read_klines) over  *)
(* the paginating Binance client (sources/binance.py). Agents in the        *)
(* orchestrator's executor threads, the run_* scripts and the cli call it   *)
(* on one file per pair and interval, without a lock.                       *)
(* Time is counted in ticks. Candle i opens at i * Step and closes one Step *)
(* later; a copy of it is the tick at which its contents were current, the  *)
(* close for a finished candle. A frame is a function from candles to       *)
(* copies.                                                                  *)
(***************************************************************************)
EXTENDS Naturals, FiniteSets

CONSTANTS
  Callers,     \* threads and processes that call read_klines
  Step,        \* INTERVAL_MS
  Day,         \* 86_400_000 ms
  DayCounts,   \* the values of `days` asked for
  PageSize,    \* _MAX_LIMIT
  MaxTime,     \* bound on the clock
  MaxCrashes   \* bound on killed calls

ASSUME KlineAssumption ==
  /\ Step \in Nat \ {0} /\ Day \in Nat \ {0} /\ Day % Step = 0
  /\ DayCounts \subseteq Nat \ {0} /\ PageSize \in Nat \ {0}
  /\ MaxTime \in Nat /\ Day <= MaxTime
  /\ MaxCrashes \in Nat

VARIABLES
  now,        \* the clock
  file,       \* the parquet file: "none", "torn" or "whole", and its rows
  call,       \* call[c]: the call that c is in, or its result
  crashes

vars == <<now, file, call, crashes>>

Candles == 0..(MaxTime \div Step)

Open(i) == i * Step
Close(i) == (i + 1) * Step

Frames == UNION {[D -> 0..MaxTime] : D \in SUBSET Candles}

NoRows == [i \in {} |-> 0]

SmallestOf(S) == CHOOSE x \in S : \A y \in S : x <= y
LargestOf(S) == CHOOSE x \in S : \A y \in S : y <= x

NoCall == [at |-> "idle", refresh |-> FALSE, asked |-> 0, from |-> 0,
           rows |-> NoRows, cursor |-> 0, limit |-> 0, out |-> NoRows, alone |-> FALSE]

Files == [at : {"none", "torn", "whole"}, rows : Frames]

Calls == [at : {"idle", "read", "fetch", "open", "write", "returned"}, refresh : BOOLEAN,
          asked : 0..MaxTime, from : 0..MaxTime, rows : Frames, cursor : Nat,
          limit : Nat, out : Frames, alone : BOOLEAN]

TypeOK ==
  /\ now \in 0..MaxTime
  /\ file \in Files
  /\ call \in [Callers -> Calls]
  /\ crashes \in 0..MaxCrashes

Init ==
  /\ now = Day
  /\ file = [at |-> "none", rows |-> NoRows]
  /\ call = [c \in Callers |-> NoCall]
  /\ crashes = 0

\* _merge: of two copies of a candle the fresh one is kept.
Merge(existing, fresh) ==
  [i \in DOMAIN existing \cup DOMAIN fresh |->
     IF i \in DOMAIN fresh THEN fresh[i] ELSE existing[i]]

\* _window
Window(rows, from) == [i \in {j \in DOMAIN rows : Open(j) >= from} |-> rows[i]]

\* The frame goes back to the caller; when it has not asked for a refresh the
\* moment of the call no longer matters.
Returned(c, rows) ==
  call' = [call EXCEPT ![c] =
             [NoCall EXCEPT !.at = "returned", !.refresh = call[c].refresh,
                            !.asked = IF call[c].refresh THEN call[c].asked ELSE 0,
                            !.rows = Window(rows, call[c].from)]]

Raised(c) == call' = [call EXCEPT ![c] = NoCall]

\* The call begins and looks at the clock; nobody asks for what was before
\* tick 0.
Ask(c, days, refresh) ==
  /\ call[c].at \in {"idle", "returned"}
  /\ days * Day <= now
  /\ call' = [call EXCEPT ![c] = [NoCall EXCEPT !.at = "read", !.refresh = refresh,
                                    !.asked = now, !.from = now - days * Day]]
  /\ UNCHANGED <<now, file, crashes>>

CeilDiv(a, b) == (a + b - 1) \div b

\* The fetch that Read decides on, from `start` and at most `limit` rows.
Fetch(c, start, limit) ==
  IF start < call[c].asked
  THEN call' = [call EXCEPT ![c].at = "fetch", ![c].rows = file.rows,
                            ![c].cursor = start, ![c].limit = limit]
  ELSE Returned(c, file.rows)

NextOpen == Open(LargestOf(DOMAIN file.rows) + 1)

\* How many candles are missing up to the clock's look, rounded up.
Missing(c, start) ==
  IF start < call[c].asked THEN CeilDiv(call[c].asked - start, Step) ELSE 0

\* Mutant of Read: the limits rounded down and without their margins.
ReadTight(c) ==
  /\ call[c].at = "read"
  /\ IF file.at = "torn" THEN Raised(c)
     ELSE IF file.at = "none"
          THEN Fetch(c, call[c].from, (call[c].asked - call[c].from) \div Step)
          ELSE IF call[c].refresh THEN Fetch(c, NextOpen, (IF NextOpen < call[c].asked THEN (call[c].asked - NextOpen) \div Step ELSE 0))
               ELSE Returned(c, file.rows)
  /\ UNCHANGED <<now, file, crashes>>

\* Cold: all of the window. Warm: what opened after the last cached candle,
\* or nothing when the caller does not want it refreshed. Torn: it raises.
Read(c) ==
  /\ call[c].at = "read"
  /\ \/ /\ file.at = "torn"
        /\ Raised(c)
     \/ /\ file.at = "none"
        /\ Fetch(c, call[c].from, CeilDiv(call[c].asked - call[c].from, Step) + 5)
     \/ /\ file.at = "whole"
        /\ IF call[c].refresh
           THEN Fetch(c, NextOpen, Missing(c, NextOpen) + 2)
           ELSE Returned(c, file.rows)
  /\ UNCHANGED <<now, file, crashes>>

\* What /api/v3/klines answers now: the first n candles that open in the range.
Klines(start, end, n) ==
  LET asked == {i \in Candles : start <= Open(i) /\ Open(i) <= end}
      first == {i \in asked : Cardinality({j \in asked : j < i}) < n}
  IN [i \in first |-> IF now < Close(i) THEN now ELSE Close(i)]

\* The rows of the request that get_klines sends at this point of its walk.
Page(c) ==
  LET left == call[c].limit - Cardinality(DOMAIN call[c].out)
  IN Klines(call[c].cursor, call[c].asked, IF PageSize < left THEN PageSize ELSE left)

\* Mutant of LastPage: only the limit ends the walk.
LastPageAtLimit(c) ==
  Cardinality(DOMAIN call[c].out) + Cardinality(DOMAIN Page(c)) = call[c].limit

\* A page with fewer rows than it asked for, or the last that fits the limit.
LastPage(c) ==
  LET got == Cardinality(DOMAIN call[c].out) + Cardinality(DOMAIN Page(c))
  IN Cardinality(DOMAIN Page(c)) < PageSize \/ got = call[c].limit

\* Mutant of FetchPage: the next page starts one Step after the last close.
FetchPageSkips(c) ==
  /\ call[c].at = "fetch"
  /\ LET rows == Page(c)
         out == Merge(call[c].out, rows) IN
     IF ~ LastPage(c)
     THEN call' = [call EXCEPT ![c].out = out,
                     ![c].cursor = IF rows = NoRows THEN @
                                   ELSE Close(LargestOf(DOMAIN rows)) + Step]
     ELSE IF out = NoRows THEN Returned(c, call[c].rows)
     ELSE call' = [call EXCEPT ![c].at = "open", ![c].out = NoRows, ![c].cursor = 0,
                               ![c].limit = 0, ![c].rows = Merge(@, out)]
  /\ UNCHANGED <<now, file, crashes>>

\* One request of get_klines' loop; with the last page read_klines goes on to
\* the file, or returns what it has when there is nothing new.
FetchPage(c) ==
  /\ call[c].at = "fetch"
  /\ LET rows == Page(c)
         out == Merge(call[c].out, rows) IN
     IF ~ LastPage(c)
     THEN call' = [call EXCEPT ![c].out = out,
                     ![c].cursor = IF rows = NoRows THEN @
                                   ELSE Close(LargestOf(DOMAIN rows))]
     ELSE IF out = NoRows THEN Returned(c, call[c].rows)
     ELSE call' = [call EXCEPT ![c].at = "open", ![c].out = NoRows, ![c].cursor = 0,
                               ![c].limit = 0, ![c].rows = Merge(@, out)]
  /\ UNCHANGED <<now, file, crashes>>

\* request_json gives up after four attempts.
FetchRaises(c) ==
  /\ call[c].at = "fetch"
  /\ Raised(c)
  /\ UNCHANGED <<now, file, crashes>>

Writing == {c \in Callers : call[c].at = "write"}

\* to_parquet opens, and so truncates, the file.
WriteOpen(c) ==
  /\ call[c].at = "open"
  /\ file' = [at |-> "torn", rows |-> NoRows]
  /\ call' = [d \in Callers |->
                IF d = c THEN [call[c] EXCEPT !.at = "write", !.alone = Writing = {}]
                ELSE [call[d] EXCEPT !.alone = FALSE]]
  /\ UNCHANGED <<now, crashes>>

\* The rows and the footer are on the disk. Two writers at a time may leave
\* the rows of this one, or bytes of both.
WriteClose(c) ==
  /\ call[c].at = "write"
  /\ \/ file' = [at |-> "whole", rows |-> call[c].rows]
     \/ ~ call[c].alone /\ file' = [at |-> "torn", rows |-> NoRows]
  /\ Returned(c, call[c].rows)
  /\ UNCHANGED <<now, crashes>>

\* The process is killed: a file it was writing stays as it is.
Crash(c) ==
  /\ crashes < MaxCrashes
  /\ call[c].at \notin {"idle", "returned"}
  /\ crashes' = crashes + 1
  /\ Raised(c)
  /\ UNCHANGED <<now, file>>

Tick ==
  /\ now < MaxTime
  /\ now' = now + 1
  /\ UNCHANGED <<file, call, crashes>>

CallStep(c) == Read(c) \/ FetchPage(c) \/ WriteOpen(c) \/ WriteClose(c)

Next ==
  \/ \E c \in Callers, days \in DayCounts, refresh \in BOOLEAN : Ask(c, days, refresh)
  \/ \E c \in Callers : CallStep(c) \/ FetchRaises(c) \/ Crash(c)
  \/ Tick

Spec == Init /\ [][Next]_vars

\* A call that is running goes on running; requests are answered or time out.
FairSpec == Spec /\ \A c \in Callers : WF_vars(CallStep(c))

-----------------------------------------------------------------------------
(* Properties.                                                              *)

GapFree(rows) ==
  \A i, j \in DOMAIN rows : \A k \in i..j : k \in DOMAIN rows

\* Neither the file nor a frame that is returned skips a candle, although
\* concurrent callers read, extend and overwrite the file as they please.
NoGaps ==
  /\ GapFree(file.rows)
  /\ \A c \in Callers : call[c].at = "returned" => GapFree(call[c].rows)

\* A refreshing call returns a frame that reaches up to its look at the clock:
\* the limits, pages and window never cut off the newest candles.
ReachesNow ==
  \A c \in Callers :
    call[c].at = "returned" /\ call[c].refresh =>
      \E i \in DOMAIN call[c].rows : Close(i) >= call[c].asked

\* Every call ends: the walk over the pages stops also when the candles fill
\* the last page exactly.
CallsEnd ==
  \A c \in Callers : call[c].at # "idle" ~> call[c].at \in {"idle", "returned"}

\* cache.py:151-153 says that only closed candles are fetched, and history
\* never again: a candle closed at the look at the clock is returned as it closed.
ClosedAreFinal ==
  \A c \in Callers :
    call[c].at = "returned" /\ call[c].refresh =>
      \A i \in DOMAIN call[c].rows :
        Close(i) <= call[c].asked => call[c].rows[i] = Close(i)
=============================================================================
