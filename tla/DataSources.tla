---------------------------- MODULE DataSources ----------------------------
(***************************************************************************)
(* How agents reach the outside (packages/data/sources): a BscScan call       *)
(* takes a token of the process's bucket and then makes an HTTP request that  *)
(* is retried with backoff; a multicall goes from one RPC provider to the     *)
(* next. Callers are threads of one process. Time is in parts of what it      *)
(* takes the bucket to refill by one token, Res parts to the token.           *)
(***************************************************************************)
EXTENDS Integers

CONSTANTS
  Callers,
  Res,         \* parts of a token, and of the time that refills one
  Capacity,    \* capacity of the bucket, in tokens
  Attempts,    \* stop_after_attempt
  Backoff,     \* Backoff[n]: wait_exponential after attempt n
  Providers,   \* number of distinct RPC urls of _clients
  MaxCalls,    \* bound: calls made
  MaxIdle,     \* bound: time that passes while nobody waits for it
  NoCaller

ASSUME SourcesAssumption ==
  /\ Res \in Nat \ {0} /\ Capacity \in Nat \ {0}
  /\ Attempts \in Nat \ {0} /\ Backoff \in [1..Attempts -> Nat]
  /\ Providers \in Nat \ {0}
  /\ MaxCalls \in Nat /\ MaxIdle \in Nat
  /\ NoCaller \notin Callers

VARIABLES
  now,
  tokens,   \* _tokens, in parts
  last,     \* _last
  holder,   \* who holds _lock, or NoCaller
  granted,  \* how often take has returned
  window,   \* history: the moment from which grants are counted, and how many there were
  at,       \* at[c]: "idle", "take", "asleep", "send", "backoff", "provider"
  wakeAt,   \* wakeAt[c]: end of c's sleep
  attempt,  \* attempt[c]: of request_json, or the provider a multicall is at
  calls

sourcesVars ==
  <<now, tokens, last, holder, granted, window, at, wakeAt, attempt, calls>>

bucketVars == <<tokens, last, holder, granted>>

SourcesInit ==
  /\ now = 0 /\ tokens = Capacity * Res /\ last = 0
  /\ holder = NoCaller /\ granted = 0
  /\ window = [from |-> 0, granted |-> 0]
  /\ at = [c \in Callers |-> "idle"]
  /\ wakeAt = [c \in Callers |-> 0]
  /\ attempt = [c \in Callers |-> 1]
  /\ calls = 0

Sleeping == {c \in Callers : at[c] \in {"asleep", "backoff"} /\ now < wakeAt[c]}

\* Time passes, more than a sleeper needs if it is slow to wake.
Tick ==
  /\ now < MaxIdle \/ Sleeping # {}
  /\ now' = now + 1
  /\ UNCHANGED <<bucketVars, window, at, wakeAt, attempt, calls>>

\* The window that is watched may begin at any moment.
Watch ==
  /\ window.from = 0 /\ now > 0
  /\ window' = [from |-> now, granted |-> granted]
  /\ UNCHANGED <<now, bucketVars, at, wakeAt, attempt, calls>>

\* bscscan._call, or a multicall.
Begin(c) ==
  /\ at[c] = "idle" /\ calls < MaxCalls
  /\ calls' = calls + 1
  /\ \E op \in {"take", "provider"} : at' = [at EXCEPT ![c] = op]
  /\ UNCHANGED <<now, bucketVars, window, wakeAt, attempt>>

\* Mutant of Refilled: the capacity is no limit.
RefilledWithoutCap == tokens + (now - last)

Refilled ==
  IF tokens + (now - last) > Capacity * Res THEN Capacity * Res ELSE tokens + (now - last)

Take(c) ==
  /\ at[c] = "take" /\ holder = NoCaller
  /\ Refilled >= Res
  /\ tokens' = Refilled - Res
  /\ last' = now
  /\ granted' = granted + 1
  /\ at' = [at EXCEPT ![c] = "send"]
  /\ UNCHANGED <<now, holder, window, wakeAt, attempt, calls>>

\* time.sleep inside the with: the lock stays taken.
TakeSleeps(c) ==
  /\ at[c] = "take" /\ holder = NoCaller
  /\ Refilled < Res
  /\ tokens' = Refilled
  /\ last' = now
  /\ holder' = c
  /\ wakeAt' = [wakeAt EXCEPT ![c] = now + (Res - Refilled)]
  /\ at' = [at EXCEPT ![c] = "asleep"]
  /\ UNCHANGED <<now, granted, window, attempt, calls>>

\* Mutant of TakeWakes: the lock is not released.
TakeWakesLocked(c) ==
  /\ at[c] = "asleep" /\ now >= wakeAt[c]
  /\ tokens' = 0
  /\ last' = now
  /\ granted' = granted + 1
  /\ at' = [at EXCEPT ![c] = "send"]
  /\ wakeAt' = [wakeAt EXCEPT ![c] = 0]
  /\ UNCHANGED <<now, holder, window, attempt, calls>>

TakeWakes(c) ==
  /\ at[c] = "asleep" /\ now >= wakeAt[c]
  /\ tokens' = 0
  /\ last' = now
  /\ holder' = NoCaller
  /\ granted' = granted + 1
  /\ at' = [at EXCEPT ![c] = "send"]
  /\ wakeAt' = [wakeAt EXCEPT ![c] = 0]
  /\ UNCHANGED <<now, window, attempt, calls>>

\* The call returns or raises.
Ends(c) ==
  /\ at' = [at EXCEPT ![c] = "idle"]
  /\ attempt' = [attempt EXCEPT ![c] = 1]

\* request_json, which takes no second token for a second attempt: the answer
\* or an error that is not retried, or one that is.
Answer(c) ==
  /\ at[c] = "send"
  /\ \/ Ends(c) /\ UNCHANGED wakeAt
     \/ /\ attempt[c] < Attempts
        /\ at' = [at EXCEPT ![c] = "backoff"]
        /\ wakeAt' = [wakeAt EXCEPT ![c] = now + Backoff[attempt[c]]]
        /\ UNCHANGED attempt
  /\ UNCHANGED <<now, bucketVars, window, calls>>

Retry(c) ==
  /\ at[c] = "backoff" /\ now >= wakeAt[c]
  /\ at' = [at EXCEPT ![c] = "send"]
  /\ wakeAt' = [wakeAt EXCEPT ![c] = 0]
  /\ attempt' = [attempt EXCEPT ![c] = @ + 1]
  /\ UNCHANGED <<now, bucketVars, window, calls>>

\* eth_call at a provider: it answers, or the next one is tried, if there is one.
AskProvider(c) ==
  /\ at[c] = "provider"
  /\ \/ Ends(c)
     \/ /\ attempt[c] < Providers
        /\ attempt' = [attempt EXCEPT ![c] = @ + 1]
        /\ UNCHANGED at
  /\ UNCHANGED <<now, bucketVars, window, wakeAt, calls>>

Works(c) ==
  \/ Take(c) \/ TakeSleeps(c) \/ TakeWakes(c) \/ Answer(c) \/ Retry(c)
  \/ AskProvider(c)

SourcesNext == Tick \/ Watch \/ \E c \in Callers : Begin(c) \/ Works(c)

\* Threads run, requests have timeouts and time passes.
SourcesFairness == WF_sourcesVars(Tick) /\ \A c \in Callers : WF_sourcesVars(Works(c))

SourcesSpec == SourcesInit /\ [][SourcesNext]_sourcesVars /\ SourcesFairness

-----------------------------------------------------------------------------
(* Properties.                                                              *)

SourcesTypeOK ==
  /\ {now, last, tokens, granted, calls} \subseteq Nat
  /\ holder \in Callers \cup {NoCaller}
  /\ window \in [from : Nat, granted : Nat]
  /\ at \in [Callers -> {"idle", "take", "asleep", "send", "backoff", "provider"}]
  /\ wakeAt \in [Callers -> Nat]
  /\ attempt \in [Callers -> Nat \ {0}]

\* The bucket's promise, over every window of time and for any number of
\* threads: no more grants than its capacity and what flowed in meanwhile.
RateBound ==
  Res * (granted - window.granted) <= Res * Capacity + (now - window.from)

\* Nobody waits for ever: not for the lock that another holds while it sleeps,
\* not for a token, and not for a service that keeps failing.
CallEnds == \A c \in Callers : at[c] # "idle" ~> at[c] = "idle"
=============================================================================
