------------------------- MODULE DataSources_proofs -------------------------
(***************************************************************************)
(* The token bucket keeps its rate for any number of threads, any capacity   *)
(* and any window of time. What makes it true is an account of the window:    *)
(* the grants in it and the tokens left are covered by the capacity and by    *)
(* what had flowed in when the bucket was last looked at, and a sleeper that   *)
(* holds the lock sleeps exactly as long as its token takes to flow in.        *)
(***************************************************************************)
EXTENDS DataSources, TLAPS

\* No grants since the window began, or the account of them.
WindowCovered ==
  IF last < window.from THEN granted = window.granted
  ELSE Res * (granted - window.granted) + tokens <= Res * Capacity + (last - window.from)

SleeperHolds ==
  \A c \in Callers : at[c] = "asleep" =>
    /\ holder = c
    /\ wakeAt[c] = last + Res - tokens

ClocksInOrder ==
  /\ last <= now /\ window.from <= now
  /\ tokens <= Capacity * Res

IInv == SourcesTypeOK /\ ClocksInOrder /\ WindowCovered /\ SleeperHolds

-----------------------------------------------------------------------------

\* One token more is Res parts more.
LEMMA OneMore == ASSUME NEW n \in Int PROVE Res * (n + 1) = Res * n + Res
  BY SourcesAssumption

\* The capacity is one token at least.
LEMMA RoomForOne == Res <= Res * Capacity /\ Res * Capacity \in Nat
<1>1. Capacity - 1 \in Nat /\ Res \in Nat /\ Capacity = (Capacity - 1) + 1
  BY SourcesAssumption
<1>2. Res * Capacity = Res * (Capacity - 1) + Res
  BY <1>1, OneMore
<1> DEFINE rest == Res * (Capacity - 1)
<1>3. rest \in Nat
  BY <1>1
<1> HIDE DEF rest
<1>4. Res * Capacity = rest + Res
  BY <1>2 DEF rest
<1> QED BY <1>1, <1>3, <1>4

\* What is in the bucket after a look at the clock (_http.py:37).
LEMMA RefilledBounds ==
  ASSUME IInv
  PROVE  /\ Refilled \in Nat
         /\ Refilled <= Capacity * Res
         /\ Refilled <= tokens + (now - last)
<1>1. Capacity * Res \in Nat
  BY SourcesAssumption
<1>2. tokens \in Nat /\ now \in Nat /\ last \in Nat /\ last <= now
  BY DEF IInv, SourcesTypeOK, ClocksInOrder
<1> QED BY <1>1, <1>2 DEF Refilled

LEMMA InitIInv == SourcesInit => IInv
<1> SUFFICES ASSUME SourcesInit PROVE IInv
  OBVIOUS
<1>1. Capacity * Res \in Nat /\ Res * Capacity = Capacity * Res /\ Res * 0 = 0
  BY SourcesAssumption
<1>2. SourcesTypeOK
  BY <1>1 DEF SourcesInit, SourcesTypeOK
<1>3. ClocksInOrder /\ SleeperHolds
  BY <1>1 DEF SourcesInit, ClocksInOrder, SleeperHolds
<1>4. WindowCovered
  BY <1>1 DEF SourcesInit, WindowCovered
<1> QED BY <1>2, <1>3, <1>4 DEF IInv

\* take without a wait: a token that is there, or has flowed in since.
LEMMA TakeKeeps ==
  ASSUME IInv, NEW c \in Callers, Take(c)
  PROVE  IInv'
<1> USE SourcesAssumption
<1>1. Refilled \in Nat /\ Refilled <= Capacity * Res /\ Refilled <= tokens + (now - last)
  BY RefilledBounds
<1>2. /\ Refilled >= Res /\ tokens' = Refilled - Res /\ last' = now /\ granted' = granted + 1
      /\ at' = [at EXCEPT ![c] = "send"]
      /\ UNCHANGED <<now, holder, window, wakeAt, attempt, calls>>
      /\ holder = NoCaller
  BY DEF Take
<1>3. SourcesTypeOK'
  BY SMTT(30), <1>1, <1>2 DEF IInv, SourcesTypeOK
<1>4. ClocksInOrder'
  BY <1>1, <1>2 DEF IInv, SourcesTypeOK, ClocksInOrder
<1>5. WindowCovered'
  <2> DEFINE used == Res * (granted - window.granted)
  <2>1. used \in Int /\ granted - window.granted \in Int /\ Res * Capacity = Capacity * Res
        /\ Res * Capacity \in Int /\ window.from \in Nat /\ now \in Nat /\ last \in Nat
        /\ window.granted \in Nat /\ granted \in Nat /\ tokens \in Nat
    BY DEF IInv, SourcesTypeOK
  <2>2. Res * (granted' - window'.granted) = used + Res
    <3>1. granted' - window'.granted = (granted - window.granted) + 1
      BY <1>2, <2>1
    <3> QED BY <3>1, <2>1, OneMore
  <2>3. now >= window.from
    BY DEF IInv, ClocksInOrder
  <2>4. CASE last < window.from
    <3>1. used = 0
      BY <2>4, <2>1 DEF IInv, WindowCovered
    <3> HIDE DEF used
    <3>2. used + Res + (Refilled - Res) <= Res * Capacity + (now - window.from)
      BY <3>1, <1>1, <2>1, <2>3
    <3> QED BY <3>2, <1>2, <2>1, <2>2, <2>3 DEF WindowCovered
  <2>5. CASE ~ (last < window.from)
    <3>1. used + tokens <= Res * Capacity + (last - window.from)
      BY <2>5, <2>1 DEF IInv, WindowCovered
    <3> HIDE DEF used
    <3>2. used + Res + (Refilled - Res) <= Res * Capacity + (now - window.from)
      BY <3>1, <1>1, <2>1, <2>3
    <3> QED BY <3>2, <1>2, <2>1, <2>2, <2>3 DEF WindowCovered
  <2> QED BY <2>4, <2>5
<1>6. SleeperHolds'
  BY <1>2 DEF IInv, SourcesTypeOK, SleeperHolds
<1> QED BY <1>3, <1>4, <1>5, <1>6 DEF IInv

LEMMA WakesLater ==
  ASSUME NEW n \in Nat, NEW part \in Nat, NEW r \in Nat, r < part
  PROVE  n + (part - r) \in Nat
  OBVIOUS

\* take that must wait: the lock is kept for as long as the token takes.
LEMMA TakeSleepsKeeps ==
  ASSUME IInv, NEW c \in Callers, TakeSleeps(c)
  PROVE  IInv'
<1> USE SourcesAssumption
<1>1. Refilled \in Nat /\ Refilled <= Capacity * Res /\ Refilled <= tokens + (now - last)
  BY RefilledBounds
<1>2. /\ Refilled < Res /\ tokens' = Refilled /\ last' = now /\ holder' = c
      /\ wakeAt' = [wakeAt EXCEPT ![c] = now + (Res - Refilled)]
      /\ at' = [at EXCEPT ![c] = "asleep"]
      /\ UNCHANGED <<now, granted, window, attempt, calls>>
      /\ holder = NoCaller
  BY DEF TakeSleeps
<1>3. SourcesTypeOK'
  <2>1. now \in Nat
    BY DEF IInv, SourcesTypeOK
  <2>2. now + (Res - Refilled) \in Nat
    BY <2>1, <1>1, <1>2, WakesLater
  <2> QED BY <2>2, <1>1, <1>2 DEF IInv, SourcesTypeOK
<1>4. ClocksInOrder'
  BY <1>1, <1>2 DEF IInv, SourcesTypeOK, ClocksInOrder
<1>5. WindowCovered'
  <2> DEFINE used == Res * (granted - window.granted)
  <2>1. used \in Int /\ Res * Capacity = Capacity * Res
        /\ Res * Capacity \in Int /\ window.from \in Nat /\ now \in Nat /\ last \in Nat
        /\ window.granted \in Nat /\ granted \in Nat /\ tokens \in Nat
    BY DEF IInv, SourcesTypeOK
  <2>2. Res * (granted' - window'.granted) = used
    BY <1>2
  <2>3. now >= window.from
    BY DEF IInv, ClocksInOrder
  <2>4. used + tokens <= Res * Capacity + (last - window.from) \/ used = 0
    BY <2>1 DEF IInv, WindowCovered
  <2> HIDE DEF used
  <2>5. used + Refilled <= Res * Capacity + (now - window.from)
    BY <1>1, <2>1, <2>3, <2>4
  <2> QED BY <2>5, <1>2, <2>1, <2>2, <2>3 DEF WindowCovered
<1>6. SleeperHolds'
  <2> SUFFICES ASSUME NEW d \in Callers, at'[d] = "asleep"
               PROVE  holder' = d /\ wakeAt'[d] = last' + Res - tokens'
    BY DEF SleeperHolds
  <2>1. d = c
    BY <1>2 DEF IInv, SourcesTypeOK, SleeperHolds
  <2> QED BY <2>1, <1>1, <1>2 DEF IInv, SourcesTypeOK
<1> QED BY <1>3, <1>4, <1>5, <1>6 DEF IInv

\* The end of the wait: by then the token has flowed in, and it is gone.
LEMMA TakeWakesKeeps ==
  ASSUME IInv, NEW c \in Callers, TakeWakes(c)
  PROVE  IInv'
<1> USE SourcesAssumption
<1>1. /\ at[c] = "asleep" /\ now >= wakeAt[c]
      /\ tokens' = 0 /\ last' = now /\ holder' = NoCaller /\ granted' = granted + 1
      /\ at' = [at EXCEPT ![c] = "send"] /\ wakeAt' = [wakeAt EXCEPT ![c] = 0]
      /\ UNCHANGED <<now, window, attempt, calls>>
  BY DEF TakeWakes
<1>2. holder = c /\ now >= last + Res - tokens
  BY <1>1 DEF IInv, SleeperHolds
<1>3. SourcesTypeOK'
  BY SMTT(30), <1>1 DEF IInv, SourcesTypeOK
<1>4. ClocksInOrder'
  BY <1>1 DEF IInv, SourcesTypeOK, ClocksInOrder
<1>5. WindowCovered'
  <2> DEFINE used == Res * (granted - window.granted)
  <2>1. used \in Int /\ granted - window.granted \in Int /\ Res <= Res * Capacity
        /\ Res * Capacity \in Int /\ window.from \in Nat /\ now \in Nat /\ last \in Nat
        /\ window.granted \in Nat /\ granted \in Nat /\ tokens \in Nat
    BY RoomForOne DEF IInv, SourcesTypeOK
  <2>2. Res * (granted' - window'.granted) = used + Res
    <3>1. granted' - window'.granted = (granted - window.granted) + 1
      BY <1>1, <2>1
    <3> QED BY <3>1, <2>1, OneMore
  <2>3. now >= window.from
    BY DEF IInv, ClocksInOrder
  <2>4. used + tokens <= Res * Capacity + (last - window.from) \/ used = 0
    BY <2>1 DEF IInv, WindowCovered
  <2>6. Res \in Nat
    OBVIOUS
  <2> DEFINE cap == Res * Capacity
  <2>7. cap \in Int /\ Res <= cap /\ (used + tokens <= cap + (last - window.from) \/ used = 0)
    BY <2>1, <2>4
  <2> HIDE DEF used, cap
  <2>8. used + Res <= cap + (now - window.from)
    BY SMTT(30), <1>2, <2>1, <2>3, <2>6, <2>7
  <2>5. used + Res <= Res * Capacity + (now - window.from)
    BY <2>8 DEF cap
  <2> QED BY <2>5, <1>1, <2>1, <2>2, <2>3 DEF WindowCovered
<1>6. SleeperHolds'
  BY <1>1, <1>2 DEF IInv, SourcesTypeOK, SleeperHolds
<1> QED BY <1>3, <1>4, <1>5, <1>6 DEF IInv

\* A new window starts with no grants.
LEMMA WatchKeeps == ASSUME IInv, Watch PROVE IInv'
<1> USE SourcesAssumption
<1>1. /\ window' = [from |-> now, granted |-> granted]
      /\ UNCHANGED <<now, bucketVars, at, wakeAt, attempt, calls>>
  BY DEF Watch
<1>2. SourcesTypeOK' /\ ClocksInOrder' /\ SleeperHolds'
  BY <1>1 DEF IInv, SourcesTypeOK, ClocksInOrder, SleeperHolds, bucketVars
<1>3. WindowCovered'
  <2>1. Res * (granted' - window'.granted) = 0 /\ Res * Capacity = Capacity * Res
    BY <1>1 DEF IInv, SourcesTypeOK, bucketVars
  <2> QED BY <2>1, <1>1 DEF IInv, SourcesTypeOK, ClocksInOrder, WindowCovered, bucketVars
<1> QED BY <1>2, <1>3 DEF IInv

\* Time moves on, and callers do something else: the bucket stays as it is.
LEMMA BucketUnchanged ==
  ASSUME IInv, SourcesTypeOK', UNCHANGED <<bucketVars, window>>,
         now' \in Nat, now' >= now,
         \A c \in Callers : at'[c] = "asleep" => at[c] = "asleep" /\ wakeAt'[c] = wakeAt[c]
  PROVE  IInv'
<1>1. ClocksInOrder'
  BY SourcesAssumption DEF IInv, SourcesTypeOK, ClocksInOrder, bucketVars
<1>2. WindowCovered'
  BY DEF IInv, WindowCovered, bucketVars
<1>3. SleeperHolds'
  BY DEF IInv, SleeperHolds, bucketVars
<1> QED BY <1>1, <1>2, <1>3 DEF IInv

LEMMA OthersKeep ==
  ASSUME IInv,
         \/ Tick
         \/ \E c \in Callers : Begin(c) \/ Answer(c) \/ Retry(c) \/ AskProvider(c)
  PROVE  IInv'
<1>1. CASE Tick
  <2>1. SourcesTypeOK'
    BY <1>1 DEF Tick, IInv, SourcesTypeOK, bucketVars
  <2>2. now' = now + 1 /\ now \in Nat /\ UNCHANGED <<bucketVars, window, at, wakeAt>>
    BY <1>1 DEF Tick, IInv, SourcesTypeOK
  <2> QED BY <2>1, <2>2, BucketUnchanged
<1>2. ASSUME NEW c \in Callers, Begin(c) PROVE IInv'
  <2>1. SourcesTypeOK'
    BY <1>2 DEF Begin, IInv, SourcesTypeOK, bucketVars
  <2>2. /\ now' = now /\ now \in Nat /\ UNCHANGED <<bucketVars, window, wakeAt>>
        /\ \A d \in Callers : at'[d] = "asleep" => at[d] = "asleep"
    BY <1>2 DEF Begin, IInv, SourcesTypeOK
  <2> QED BY <2>1, <2>2, BucketUnchanged
<1>3. ASSUME NEW c \in Callers, Answer(c) PROVE IInv'
  <2>1. attempt[c] < Attempts => now + Backoff[attempt[c]] \in Nat
    BY SMTT(30), SourcesAssumption DEF IInv, SourcesTypeOK
  <2>2. SourcesTypeOK'
    BY <1>3, <2>1 DEF Answer, Ends, IInv, SourcesTypeOK, bucketVars
  <2>3. /\ now' = now /\ now \in Nat /\ UNCHANGED <<bucketVars, window>>
        /\ \A d \in Callers : at'[d] = "asleep" => at[d] = "asleep" /\ wakeAt'[d] = wakeAt[d]
    BY <1>3 DEF Answer, Ends, IInv, SourcesTypeOK
  <2> QED BY <2>2, <2>3, BucketUnchanged
<1>4. ASSUME NEW c \in Callers, Retry(c) PROVE IInv'
  <2>1. SourcesTypeOK'
    BY <1>4 DEF Retry, IInv, SourcesTypeOK, bucketVars
  <2>2. /\ now' = now /\ now \in Nat /\ UNCHANGED <<bucketVars, window>>
        /\ \A d \in Callers : at'[d] = "asleep" => at[d] = "asleep" /\ wakeAt'[d] = wakeAt[d]
    BY <1>4 DEF Retry, IInv, SourcesTypeOK
  <2> QED BY <2>1, <2>2, BucketUnchanged
<1>5. ASSUME NEW c \in Callers, AskProvider(c) PROVE IInv'
  <2>1. SourcesTypeOK'
    BY <1>5 DEF AskProvider, Ends, IInv, SourcesTypeOK, bucketVars
  <2>2. /\ now' = now /\ now \in Nat /\ UNCHANGED <<bucketVars, window, wakeAt>>
        /\ \A d \in Callers : at'[d] = "asleep" => at[d] = "asleep"
    BY <1>5 DEF AskProvider, Ends, IInv, SourcesTypeOK
  <2> QED BY <2>1, <2>2, BucketUnchanged
<1> QED BY <1>1, <1>2, <1>3, <1>4, <1>5

LEMMA NextIInv == IInv /\ [SourcesNext]_sourcesVars => IInv'
<1> SUFFICES ASSUME IInv, [SourcesNext]_sourcesVars PROVE IInv'
  OBVIOUS
<1>1. CASE UNCHANGED sourcesVars
  BY <1>1 DEF sourcesVars, IInv, SourcesTypeOK, ClocksInOrder, WindowCovered, SleeperHolds
<1>2. CASE SourcesNext
  BY <1>2, TakeKeeps, TakeSleepsKeeps, TakeWakesKeeps, WatchKeeps, OthersKeep
  DEF SourcesNext, Works
<1> QED BY <1>1, <1>2

\* The account of the window gives the bound.
LEMMA IInvImpliesRateBound == IInv => RateBound
<1> SUFFICES ASSUME IInv PROVE RateBound
  OBVIOUS
<1> USE SourcesAssumption
<1> DEFINE used == Res * (granted - window.granted)
<1>1. used \in Int /\ Res * Capacity \in Nat /\ window.from \in Nat /\ now \in Nat /\ last \in Nat
      /\ tokens \in Nat /\ window.granted \in Nat /\ granted \in Nat
  BY DEF IInv, SourcesTypeOK
<1>2. used + tokens <= Res * Capacity + (last - window.from) \/ used = 0
  BY <1>1 DEF IInv, WindowCovered
<1>3. last <= now /\ window.from <= now
  BY DEF IInv, ClocksInOrder
<1>4. used = Res * (granted - window.granted)
  OBVIOUS
<1> HIDE DEF used
<1>5. used <= Res * Capacity + (now - window.from)
  BY <1>1, <1>2, <1>3
<1> QED BY <1>4, <1>5 DEF RateBound

\* The bucket of _http.py never lets more calls through in any window of time
\* than its capacity and what flowed in during the window, however many threads
\* call and however late a sleeper wakes.
THEOREM RateIsBounded == SourcesSpec => []RateBound
<1>1. SourcesSpec => []IInv
  BY InitIInv, NextIInv, PTL DEF SourcesSpec
<1> QED BY <1>1, IInvImpliesRateBound, PTL
=============================================================================
