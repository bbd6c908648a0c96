-------------------------- MODULE KlineCache_proofs --------------------------
(***************************************************************************)
(* The candle cache, for any number of callers, any interval, windows, page  *)
(* size and clock: what the pages of a walk add to the cached rows leaves no  *)
(* gap, and the limit of the walk is never what ends it too early.           *)
(***************************************************************************)
EXTENDS KlineCache, FiniteSetTheorems, WellFoundedInduction, TLAPS

\* A set of candles without a gap.
Convex(S) == \A i, j \in S : \A k \in i..j : k \in S

\* The rows a walk has so far, with the cached ones that it extends.
Held(c) == DOMAIN call[c].rows \cup DOMAIN call[c].out

\* The file is whole only with rows in it.
FileInv ==
  /\ Convex(DOMAIN file.rows)
  /\ file.at = "whole" <=> DOMAIN file.rows # {}

\* A window is a candle wide at least.
Window1(c) == call[c].from + Step <= call[c].asked

\* The walk: it goes on where what it holds ends, and has two candles to spare.
Walking(c) ==
  /\ Window1(c) /\ Convex(Held(c))
  /\ IF Held(c) = {} THEN call[c].cursor = call[c].from
     ELSE \E l \in Held(c) : (\A i \in Held(c) : i <= l) /\ call[c].cursor = Close(l)
  /\ Cardinality(DOMAIN call[c].out) <= call[c].limit
  /\ call[c].asked + 2 * Step
       <= call[c].cursor + (call[c].limit - Cardinality(DOMAIN call[c].out)) * Step

\* Rows that are complete up to the clock's look.
UpToDate(c) == \E i \in DOMAIN call[c].rows : Close(i) >= call[c].asked

CallInv(c) ==
  /\ call[c].at # "fetch" => call[c].out = NoRows
  /\ call[c].at = "read" => Window1(c)
  /\ call[c].at = "fetch" => Walking(c)
  /\ call[c].at \in {"open", "write"} => Window1(c) /\ Convex(DOMAIN call[c].rows) /\ UpToDate(c)
  /\ call[c].at = "returned" =>
       Convex(DOMAIN call[c].rows) /\ (call[c].refresh => UpToDate(c))

IndInv == TypeOK /\ FileInv /\ \A c \in Callers : CallInv(c)

-----------------------------------------------------------------------------
(* Numbers.                                                                 *)

\* A set of natural numbers has a least one: the order is well-founded.
LEMMA Least ==
  ASSUME NEW S \in SUBSET Nat, S # {}
  PROVE  \E m \in S : \A n \in S : m <= n
<1>1. PICK m \in S : \A n \in S : ~ (<<n, m>> \in OpToRel(<, Nat))
  BY NatLessThanWellFounded, WFMin
<1>2. \A n \in S : ~ (n < m)
  BY <1>1 DEF OpToRel
<1>3. \A n \in S : m <= n
  BY <1>2
<1> QED BY <1>3

LEMMA Largest ==
  ASSUME NEW bound \in Nat, NEW S \in SUBSET (0..bound), S # {}
  PROVE  \E m \in S : \A n \in S : n <= m
<1> DEFINE below == {bound - x : x \in S}
<1>1. below \in SUBSET Nat /\ below # {}
  <2>1. \A x \in S : x \in Nat /\ bound - x \in Nat
    OBVIOUS
  <2> QED BY <2>1
<1>2. PICK b \in below : \A d \in below : b <= d
  <2> HIDE DEF below
  <2> QED BY <1>1, Least
<1>3. PICK m \in S : b = bound - m
  OBVIOUS
<1>4. \A n \in S : bound - m <= bound - n
  BY <1>2, <1>3
<1>5. ASSUME NEW n \in S PROVE n <= m
  <2>1. bound - m <= bound - n
    BY <1>4
  <2> HIDE DEF below
  <2>2. n \in 0..bound /\ m \in 0..bound
    OBVIOUS
  <2> QED BY <2>1, <2>2
<1> QED BY <1>5

LEMMA LargestOfIs ==
  ASSUME NEW S \in SUBSET Nat, NEW l \in S, \A y \in S : y <= l
  PROVE  LargestOf(S) = l
<1>1. LargestOf(S) \in S /\ \A y \in S : y <= LargestOf(S)
  BY DEF LargestOf
<1>2. LargestOf(S) \in Nat /\ l \in Nat /\ l <= LargestOf(S) /\ LargestOf(S) <= l
  BY <1>1
<1> QED BY <1>2

LEMMA StepNat == Step \in Nat /\ Step > 0 /\ MaxTime \in Nat
  BY KlineAssumption

LEMMA OpenClose ==
  ASSUME NEW i \in Nat
  PROVE  /\ Open(i) \in Nat /\ Close(i) \in Nat
         /\ Close(i) = Open(i) + Step /\ Close(i) = Open(i + 1)
<1>1. i * Step \in Nat /\ (i + 1) * Step = i * Step + Step
  BY StepNat
<1> QED BY <1>1, StepNat DEF Open, Close

LEMMA OpenSum ==
  ASSUME NEW i \in Nat, NEW k \in Nat
  PROVE  k * Step \in Nat /\ Open(i + k) = Open(i) + k * Step
BY StepNat DEF Open

\* Candles do not overlap.
LEMMA OpenOrder ==
  ASSUME NEW i \in Nat, NEW j \in Nat
  PROVE  /\ i <= j => Open(i) <= Open(j)
         /\ i < j => Close(i) <= Open(j)
         /\ Open(i) <= Open(j) => i <= j
<1>1. ASSUME NEW m \in Nat, NEW n \in Nat, m <= n PROVE Open(m) <= Open(n)
  <2>1. n - m \in Nat /\ n = m + (n - m)
    BY <1>1
  <2>2. Open(n) = Open(m) + (n - m) * Step /\ (n - m) * Step \in Nat
    BY <2>1, OpenSum
  <2> QED BY <2>2, OpenClose
<1>2. i < j => Close(i) <= Open(j)
  BY <1>1, OpenClose
<1>3. j < i => Close(j) <= Open(i)
  BY <1>1, OpenClose
<1> QED BY <1>1, <1>2, <1>3, OpenClose, StepNat

LEMMA CandlesNat == Candles \in SUBSET Nat /\ MaxTime \div Step \in Nat /\ IsFiniteSet(Candles)
<1>1. MaxTime \div Step \in Nat
  BY StepNat
<1> QED BY <1>1, FS_Interval DEF Candles

LEMMA CeilDivBound ==
  ASSUME NEW a \in Nat
  PROVE  CeilDiv(a, Step) \in Nat /\ a <= CeilDiv(a, Step) * Step
<1> DEFINE n == a + Step - 1
<1>1. n \in Nat /\ n = a + (Step - 1)
  BY StepNat
<1> HIDE DEF n
<1>2. n \div Step \in Nat /\ n % Step \in 0..(Step - 1) /\ n = Step * (n \div Step) + (n % Step)
  BY <1>1, StepNat
<1>3. Step * (n \div Step) = (n \div Step) * Step
  BY <1>2, StepNat
<1> DEFINE q == n \div Step
           p == q * Step
<1>4. q \in Nat /\ p \in Nat /\ n = p + (n % Step)
  BY <1>2, <1>3, StepNat
<1> HIDE DEF p
<1>5. a <= p
  BY <1>1, <1>2, <1>4, StepNat
<1> QED BY <1>4, <1>5 DEF CeilDiv, n, p

-----------------------------------------------------------------------------
(* A page.                                                                  *)

\* The rows of a page are candles in a row, from the first one asked for, and
\* there are as many as allowed unless the range ends.
LEMMA PageShape ==
  ASSUME NEW start \in Nat, NEW end \in 0..MaxTime, NEW n \in Nat
  PROVE  LET S == DOMAIN Klines(start, end, n) IN
         \/ /\ S = {}
            /\ n = 0 \/ \A i \in Candles : ~ (start <= Open(i) /\ Open(i) <= end)
         \/ \E a, b \in Candles :
              /\ a <= b /\ S = a..b
              /\ start <= Open(a) /\ Open(b) <= end
              /\ \A i \in Candles : start <= Open(i) => a <= i
              /\ b - a + 1 <= n
              /\ b - a + 1 < n => ~ (b + 1 \in Candles /\ Open(b + 1) <= end)
<1> DEFINE asked == {i \in Candles : start <= Open(i) /\ Open(i) <= end}
           first == {i \in asked : Cardinality({j \in asked : j < i}) < n}
<1>1. DOMAIN Klines(start, end, n) = first
  BY DEF Klines
<1>2. asked \in SUBSET Nat /\ asked \in SUBSET (0..(MaxTime \div Step)) /\ MaxTime \div Step \in Nat
  BY CandlesNat DEF Candles
<1>3. CASE asked = {}
  BY <1>1, <1>3
<1>4. CASE asked # {}
  <2>1. PICK a \in asked : \A i \in asked : a <= i
    <3> HIDE DEF asked
    <3> QED BY <1>2, <1>4, Least
  <2>2. PICK m \in asked : \A i \in asked : i <= m
    <3> HIDE DEF asked
    <3> QED BY <1>2, <1>4, Largest
  <2>3. a \in Nat /\ m \in Nat /\ a <= m
    BY <1>2, <2>1, <2>2
  <2>4. ASSUME NEW i \in a..m PROVE i \in asked
    <3>1. i \in Nat /\ i \in Candles
      BY <2>1, <2>2, <2>3, CandlesNat DEF Candles
    <3>2. Open(a) <= Open(i) /\ Open(i) <= Open(m)
      BY <2>3, <3>1, OpenOrder
    <3>3. start <= Open(i) /\ Open(i) <= end
      BY <2>1, <2>2, <2>3, <3>1, <3>2, OpenClose
    <3> QED BY <3>1, <3>3
  <2>5. asked = a..m
    <3>1. \A i \in asked : i \in a..m
      BY <1>2, <2>1, <2>2, <2>3
    <3> QED BY <2>4, <3>1
  <2>6. ASSUME NEW i \in asked PROVE Cardinality({j \in asked : j < i}) = i - a
    <3>1. {j \in asked : j < i} = a..(i - 1) /\ i \in a..m
      BY <2>3, <2>5
    <3>2. Cardinality(a..(i - 1)) = i - a
      <4>1. i \in Int /\ i - 1 \in Int /\ a \in Int
        BY <2>3, <3>1
      <4>2. Cardinality(a..(i - 1)) = IF a > i - 1 THEN 0 ELSE (i - 1) - a + 1
        BY <4>1, FS_Interval
      <4> QED BY <3>1, <4>1, <4>2
    <3> QED BY <3>1, <3>2
  <2>7. first = {i \in a..m : i - a < n}
    BY <2>5, <2>6
  <2>8. \A i \in Candles : start <= Open(i) => a <= i
    <3>1. ASSUME NEW i \in Candles, start <= Open(i), ~ (a <= i) PROVE FALSE
      <4>1. i \in Nat /\ i <= a
        BY <2>3, <3>1, CandlesNat
      <4>2. Open(i) <= Open(a) /\ Open(i) \in Nat /\ Open(a) \in Nat /\ Open(a) <= end
        BY <2>1, <2>3, <4>1, OpenOrder, OpenClose
      <4>3. i \in asked
        BY <3>1, <4>2, StepNat
      <4> QED BY <2>1, <3>1, <4>3
    <3> QED BY <3>1
  <2>9. a \in Candles /\ m \in Candles /\ start <= Open(a) /\ Open(m) <= end
    OBVIOUS
  <2>10. CASE n = 0
    BY <1>1, <2>3, <2>7, <2>10
  <2>11. CASE n # 0 /\ m - a < n
    <3>1. first = a..m
      BY <2>3, <2>7, <2>11
    <3>2. ~ (m + 1 \in Candles /\ Open(m + 1) <= end)
      <4>1. ASSUME m + 1 \in Candles, Open(m + 1) <= end PROVE FALSE
        <5>1. Open(a) <= Open(m + 1) /\ Open(m + 1) \in Nat /\ Open(a) \in Nat
          BY <2>3, OpenOrder, OpenClose
        <5>2. start <= Open(m + 1)
          BY <2>9, <5>1
        <5>3. m + 1 \in asked
          BY <4>1, <5>2
        <5> QED BY <2>2, <2>3, <5>3
      <4> QED BY <4>1
    <3> HIDE DEF first, asked
    <3> QED BY <1>1, <2>3, <2>8, <2>9, <2>11, <3>1, <3>2
  <2>12. CASE n # 0 /\ ~ (m - a < n)
    <3> DEFINE b == a + n - 1
    <3>1. b \in a..m /\ b - a + 1 = n
      BY <2>3, <2>12
    <3>2. first = a..b
      BY <2>3, <2>7, <2>12, <3>1
    <3>3. b \in Candles /\ Open(b) <= end
      BY <2>4, <3>1
    <3> HIDE DEF first, asked, b
    <3> QED BY <1>1, <2>3, <2>8, <2>9, <3>1, <3>2, <3>3
  <2> QED BY <2>10, <2>11, <2>12
<1> QED BY <1>3, <1>4

-----------------------------------------------------------------------------
(* Frames and calls.                                                        *)

LEMMA FrameIs ==
  ASSUME NEW r
  PROVE  r \in Frames <=> \E D \in SUBSET Candles : r \in [D -> 0..MaxTime]
BY DEF Frames

LEMMA FrameOps ==
  ASSUME NEW r \in Frames, NEW e \in Frames, NEW from
  PROVE  /\ DOMAIN r \in SUBSET Candles
         /\ NoRows \in Frames /\ DOMAIN NoRows = {}
         /\ Merge(r, e) \in Frames /\ DOMAIN Merge(r, e) = DOMAIN r \cup DOMAIN e
         /\ Window(r, from) \in Frames
         /\ DOMAIN Window(r, from) = {j \in DOMAIN r : Open(j) >= from}
         /\ DOMAIN r = {} => r = NoRows
<1>1. PICK D \in SUBSET Candles : r \in [D -> 0..MaxTime]
  BY FrameIs
<1>2. PICK E \in SUBSET Candles : e \in [E -> 0..MaxTime]
  BY FrameIs
<1>3. NoRows \in [{} -> 0..MaxTime] /\ DOMAIN NoRows = {}
  BY DEF NoRows
<1>4. Merge(r, e) \in [D \cup E -> 0..MaxTime]
  BY <1>1, <1>2 DEF Merge
<1>5. Window(r, from) \in [{j \in D : Open(j) >= from} -> 0..MaxTime]
  BY <1>1 DEF Window
<1>6. NoRows \in Frames /\ Merge(r, e) \in Frames /\ Window(r, from) \in Frames
  <2>1. NoRows \in Frames
    BY <1>3, FrameIs
  <2>2. Merge(r, e) \in Frames
    BY <1>4, FrameIs
  <2>3. Window(r, from) \in Frames
    <3>1. {j \in D : Open(j) >= from} \in SUBSET Candles
      OBVIOUS
    <3> QED BY <1>5, <3>1, FrameIs
  <2> QED BY <2>1, <2>2, <2>3
<1>7. DOMAIN r = {} => r = NoRows
  BY <1>1 DEF NoRows
<1> QED BY <1>1, <1>2, <1>3, <1>4, <1>5, <1>6, <1>7

LEMMA KlinesFrame ==
  ASSUME TypeOK, NEW start, NEW end, NEW n
  PROVE  Klines(start, end, n) \in Frames
<1> DEFINE D == DOMAIN Klines(start, end, n)
<1>1. D \in SUBSET Candles
  BY DEF Klines
<1>2. \A i \in Candles : (IF now < Close(i) THEN now ELSE Close(i)) \in 0..MaxTime
  <2>1. ASSUME NEW i \in Candles PROVE (IF now < Close(i) THEN now ELSE Close(i)) \in 0..MaxTime
    <3>1. Close(i) \in Nat /\ now \in 0..MaxTime /\ MaxTime \in Nat
      BY CandlesNat, OpenClose, StepNat DEF TypeOK
    <3> QED BY <3>1
  <2> QED BY <2>1
<1>3. Klines(start, end, n) \in [D -> 0..MaxTime]
  BY <1>2 DEF Klines
<1> QED BY <1>1, <1>3, FrameIs

\* The part of a gap-free frame that is asked for has no gap.
LEMMA WindowConvex ==
  ASSUME NEW r \in Frames, NEW from \in Nat, Convex(DOMAIN r)
  PROVE  Convex(DOMAIN Window(r, from))
<1>1. DOMAIN Window(r, from) = {j \in DOMAIN r : Open(j) >= from} /\ DOMAIN r \in SUBSET Nat
  BY FrameOps, CandlesNat
<1>2. ASSUME NEW i \in DOMAIN Window(r, from), NEW j \in DOMAIN Window(r, from), NEW k \in i..j
      PROVE  k \in DOMAIN Window(r, from)
  <2>1. i \in Nat /\ j \in Nat /\ k \in Nat /\ i <= k /\ k \in DOMAIN r /\ Open(i) >= from
    BY <1>1, <1>2 DEF Convex
  <2>2. Open(i) <= Open(k) /\ Open(i) \in Nat /\ Open(k) \in Nat
    BY <2>1, OpenOrder, OpenClose
  <2> QED BY <1>1, <2>1, <2>2
<1> QED BY <1>2 DEF Convex

LEMMA CallFields ==
  ASSUME TypeOK, NEW c \in Callers
  PROVE  /\ call[c] \in Calls
         /\ call[c].refresh \in BOOLEAN /\ call[c].alone \in BOOLEAN
         /\ call[c].asked \in Nat /\ call[c].asked \in 0..MaxTime
         /\ call[c].from \in Nat /\ call[c].from \in 0..MaxTime
         /\ call[c].rows \in Frames /\ call[c].out \in Frames
         /\ call[c].cursor \in Nat /\ call[c].limit \in Nat
<1>1. call[c] \in Calls
  BY DEF TypeOK
<1> QED BY <1>1, StepNat DEF Calls

\* One call moves on; the others are where they were.
Others(c) == \A d \in Callers \ {c} : call'[d] = call[d] \/ call'[d] = [call[d] EXCEPT !.alone = FALSE]

LEMMA OneCallStep ==
  ASSUME IndInv, NEW c \in Callers, Others(c), TypeOK', FileInv', CallInv(c)'
  PROVE  IndInv'
<1>1. ASSUME NEW d \in Callers, d # c PROVE CallInv(d)'
  <2>1. call[d] \in Calls
    BY DEF IndInv, TypeOK
  <2>2. /\ call'[d].at = call[d].at /\ call'[d].refresh = call[d].refresh
        /\ call'[d].asked = call[d].asked /\ call'[d].from = call[d].from
        /\ call'[d].rows = call[d].rows /\ call'[d].cursor = call[d].cursor
        /\ call'[d].limit = call[d].limit /\ call'[d].out = call[d].out
    <3>1. CASE call'[d] = call[d]
      BY <3>1
    <3>2. CASE call'[d] = [call[d] EXCEPT !.alone = FALSE]
      BY <2>1, <3>2 DEF Calls
    <3> QED BY <1>1, <3>1, <3>2 DEF Others
  <2>3. CallInv(d)
    BY DEF IndInv
  <2>4. Held(d)' = Held(d) /\ (Window1(d)' <=> Window1(d)) /\ (UpToDate(d)' <=> UpToDate(d))
    BY <2>2 DEF Held, Window1, UpToDate
  <2>5. Walking(d)' <=> Walking(d)
    BY <2>2, <2>4 DEF Walking
  <2> QED BY <2>2, <2>3, <2>4, <2>5 DEF CallInv
<1> QED BY <1>1 DEF IndInv

LEMMA RaisedKeeps ==
  ASSUME TypeOK, NEW c \in Callers, Raised(c)
  PROVE  call' \in [Callers -> Calls] /\ CallInv(c)' /\ Others(c)
<1>1. /\ call'[c] = NoCall /\ NoCall.at = "idle" /\ NoCall.out = NoRows
      /\ \A d \in Callers \ {c} : call'[d] = call[d]
  BY DEF Raised, TypeOK, NoCall
<1>2. NoCall \in Calls
  <2>1. NoRows \in Frames
    BY <1>1, FrameOps, CallFields
  <2> QED BY <2>1, StepNat DEF NoCall, Calls
<1>3. call' \in [Callers -> Calls]
  BY <1>2 DEF Raised, TypeOK
<1> QED BY <1>1, <1>3 DEF CallInv, Others

LEMMA ReturnedKeeps ==
  ASSUME TypeOK, NEW c \in Callers, NEW rows \in Frames, Returned(c, rows),
         Convex(DOMAIN rows), Window1(c),
         call[c].refresh => \E i \in DOMAIN rows : Close(i) >= call[c].asked
  PROVE  call' \in [Callers -> Calls] /\ CallInv(c)' /\ Others(c)
<1> DEFINE q == [NoCall EXCEPT !.at = "returned", !.refresh = call[c].refresh,
                               !.asked = IF call[c].refresh THEN call[c].asked ELSE 0,
                               !.rows = Window(rows, call[c].from)]
<1>0. /\ call[c].refresh \in BOOLEAN /\ call[c].asked \in 0..MaxTime /\ call[c].asked \in Nat
      /\ call[c].from \in Nat /\ Window(rows, call[c].from) \in Frames /\ NoRows \in Frames
  BY CallFields, FrameOps
<1>1. /\ q.at = "returned" /\ q.refresh = call[c].refresh
      /\ q.asked = IF call[c].refresh THEN call[c].asked ELSE 0
      /\ q.rows = Window(rows, call[c].from) /\ q.out = NoRows
  BY DEF NoCall
<1>2. q \in Calls
  <2>1. ASSUME NEW b \in BOOLEAN, NEW x \in 0..MaxTime, NEW w \in Frames
        PROVE  [NoCall EXCEPT !.at = "returned", !.refresh = b, !.asked = x, !.rows = w] \in Calls
    <3>1. NoCall \in Calls
      BY <1>0, StepNat DEF NoCall, Calls
    <3> QED BY <3>1 DEF Calls
  <2>2. (IF call[c].refresh THEN call[c].asked ELSE 0) \in 0..MaxTime
    BY <1>0, StepNat
  <2> QED BY <1>0, <2>1, <2>2
<1>3. call' = [call EXCEPT ![c] = q]
  BY DEF Returned
<1> HIDE DEF q
<1>4. call' \in [Callers -> Calls] /\ call'[c] = q /\ \A d \in Callers \ {c} : call'[d] = call[d]
  BY <1>2, <1>3 DEF TypeOK
<1>5. Convex(DOMAIN Window(rows, call[c].from))
  BY <1>0, WindowConvex
<1>6. call[c].refresh => \E i \in DOMAIN Window(rows, call[c].from) : Close(i) >= call[c].asked
  <2> SUFFICES ASSUME call[c].refresh
               PROVE  \E i \in DOMAIN Window(rows, call[c].from) : Close(i) >= call[c].asked
    OBVIOUS
  <2>1. PICK i \in DOMAIN rows : Close(i) >= call[c].asked
    OBVIOUS
  <2>2. i \in Nat
    BY FrameOps, CandlesNat
  <2>3. Open(i) >= call[c].from
    <3>1. Open(i) \in Nat /\ Close(i) = Open(i) + Step /\ Step \in Nat
      BY <2>2, OpenClose, StepNat
    <3>2. call[c].from + Step <= Open(i) + Step
      BY <1>0, <2>1, <3>1 DEF Window1
    <3> QED BY <1>0, <3>1, <3>2
  <2>4. DOMAIN Window(rows, call[c].from) = {j \in DOMAIN rows : Open(j) >= call[c].from}
    BY FrameOps
  <2> QED BY <2>1, <2>3, <2>4
<1>7. CallInv(c)'
  <2>1. call[c].refresh => UpToDate(c)'
    BY <1>1, <1>4, <1>6 DEF UpToDate
  <2> QED BY <1>1, <1>4, <1>5, <2>1 DEF CallInv
<1> QED BY <1>4, <1>7 DEF Others

LEMMA AskKeeps ==
  ASSUME IndInv, NEW c \in Callers, NEW days \in DayCounts, NEW refresh \in BOOLEAN,
         Ask(c, days, refresh)
  PROVE  IndInv'
<1> DEFINE q == [NoCall EXCEPT !.at = "read", !.refresh = refresh, !.asked = now,
                               !.from = now - days * Day]
<1>0. /\ TypeOK /\ now \in 0..MaxTime /\ now \in Nat /\ days \in Nat \ {0}
      /\ Day \in Nat \ {0} /\ days * Day <= now
      /\ call' = [call EXCEPT ![c] = q] /\ UNCHANGED <<now, file, crashes>>
  BY StepNat, KlineAssumption DEF IndInv, TypeOK, Ask
<1>1. Step <= Day
  <2>1. Day % Step = 0 /\ Step \in Nat \ {0} /\ Day \in Nat \ {0}
    BY KlineAssumption
  <2>2. Day < Step => Day % Step = Day
    BY <2>1
  <2> QED BY <2>1, <2>2
<1>2. Day <= days * Day /\ days * Day \in Nat
  <2>1. days - 1 \in Nat /\ (days - 1) * Day \in Nat /\ days * Day = (days - 1) * Day + Day
    BY <1>0
  <2> QED BY <1>0, <2>1
<1> DEFINE width == days * Day
<1> HIDE DEF width
<1>3. now - width \in 0..MaxTime /\ now - width + Step <= now
  BY <1>0, <1>1, <1>2, StepNat DEF width
<1>4. /\ q.at = "read" /\ q.asked = now /\ q.from = now - width /\ q.out = NoRows
  BY DEF NoCall, width
<1>5. q \in Calls
  <2>1. NoRows \in Frames
    BY <1>0, CallFields, FrameOps
  <2> QED BY <1>0, <1>3, <2>1 DEF NoCall, Calls, width
<1> HIDE DEF q
<1>6. call' \in [Callers -> Calls] /\ call'[c] = q /\ \A d \in Callers \ {c} : call'[d] = call[d]
  BY <1>0, <1>5 DEF TypeOK
<1>7. CallInv(c)'
  BY <1>3, <1>4, <1>6 DEF CallInv, Window1
<1> QED BY <1>0, <1>6, <1>7, OneCallStep DEF IndInv, TypeOK, FileInv, Others

\* The least that the walk's limit may be.
Roomy(start, asked, limit) == asked + 2 * Step <= start + limit * Step

LEMMA LimitsSuffice ==
  ASSUME NEW start \in Nat, NEW asked \in Nat, start < asked
  PROVE  /\ CeilDiv(asked - start, Step) \in Nat
         /\ \A k \in Nat : k >= 2 => Roomy(start, asked, CeilDiv(asked - start, Step) + k)
<1> DEFINE q == CeilDiv(asked - start, Step)
<1>1. q \in Nat /\ q * Step \in Nat /\ asked - start <= q * Step /\ asked - start \in Nat
  BY CeilDivBound, StepNat
<1> HIDE DEF q
<1>2. ASSUME NEW k \in Nat, k >= 2 PROVE Roomy(start, asked, q + k)
  <2>1. k - 2 \in Nat /\ (k - 2) * Step \in Nat
    BY <1>2, StepNat
  <2>2. (q + k) * Step = q * Step + 2 * Step + (k - 2) * Step
    BY <1>1, <1>2, StepNat
  <2> QED BY <1>1, <2>1, <2>2, StepNat DEF Roomy
<1> QED BY <1>1, <1>2 DEF q

\* A call that begins to fetch.
LEMMA FetchKeeps ==
  ASSUME IndInv, NEW c \in Callers, call[c].at = "read",
         NEW start \in Nat, NEW limit \in Nat, Fetch(c, start, limit),
         start < call[c].asked => Roomy(start, call[c].asked, limit),
         IF DOMAIN file.rows = {} THEN start = call[c].from
         ELSE \E l \in DOMAIN file.rows :
                (\A i \in DOMAIN file.rows : i <= l) /\ start = Close(l)
  PROVE  call' \in [Callers -> Calls] /\ CallInv(c)' /\ Others(c)
<1>1. /\ TypeOK /\ call[c].out = NoRows /\ Window1(c) /\ Convex(DOMAIN file.rows)
      /\ file.rows \in Frames /\ DOMAIN NoRows = {}
  BY FrameOps, CallFields DEF IndInv, CallInv, FileInv, TypeOK, Files
<1>2. CASE start < call[c].asked
  <2> DEFINE q == [call[c] EXCEPT !.at = "fetch", !.rows = file.rows,
                                  !.cursor = start, !.limit = limit]
  <2>1. call' = [call EXCEPT ![c] = q]
    BY <1>1, <1>2 DEF Fetch, TypeOK
  <2>2. q \in Calls
    BY <1>1, CallFields DEF Calls
  <2>3. /\ q.at = "fetch" /\ q.rows = file.rows /\ q.cursor = start /\ q.limit = limit
        /\ q.out = NoRows /\ q.asked = call[c].asked /\ q.from = call[c].from
    BY <1>1, CallFields DEF Calls
  <2> HIDE DEF q
  <2>4. call' \in [Callers -> Calls] /\ call'[c] = q /\ \A d \in Callers \ {c} : call'[d] = call[d]
    BY <1>1, <2>1, <2>2 DEF TypeOK
  <2>5. Held(c)' = DOMAIN file.rows /\ Window1(c)' /\ Cardinality(DOMAIN call'[c].out) = 0
    BY <1>1, <2>3, <2>4, FS_EmptySet DEF Held, Window1
  <2>6. call'[c].asked + 2 * Step <= call'[c].cursor + (call'[c].limit - 0) * Step
    BY <1>2, <2>3, <2>4 DEF Roomy
  <2>7. Walking(c)'
    BY <1>1, <2>3, <2>4, <2>5, <2>6 DEF Walking
  <2> QED BY <2>3, <2>4, <2>7 DEF CallInv, Others
<1>3. CASE ~ (start < call[c].asked)
  <2>1. Returned(c, file.rows)
    BY <1>3 DEF Fetch
  <2>2. DOMAIN file.rows # {}
    <3>1. call[c].from \in Nat /\ call[c].asked \in Nat
      BY <1>1, CallFields
    <3> QED BY <1>1, <1>3, <3>1, StepNat DEF Window1
  <2>3. \E i \in DOMAIN file.rows : Close(i) >= call[c].asked
    <3>1. call[c].asked \in Nat
      BY <1>1, CallFields
    <3> QED BY <1>3, <2>2, <3>1
  <2> QED BY <1>1, <2>1, <2>3, ReturnedKeeps
<1> QED BY <1>2, <1>3

LEMMA ReadKeeps ==
  ASSUME IndInv, NEW c \in Callers, Read(c)
  PROVE  IndInv'
<1>1. /\ TypeOK /\ call[c].at = "read" /\ UNCHANGED <<now, file, crashes>> /\ Window1(c)
      /\ Convex(DOMAIN file.rows) /\ file.rows \in Frames
      /\ (file.at = "whole" <=> DOMAIN file.rows # {})
      /\ call[c].asked \in Nat /\ call[c].from \in Nat
  BY CallFields DEF IndInv, TypeOK, Files, FileInv, CallInv, Read
<1>2. call' \in [Callers -> Calls] /\ CallInv(c)' /\ Others(c)
  <2>1. CASE file.at = "torn" /\ Raised(c)
    BY <1>1, <2>1, RaisedKeeps
  <2>2. CASE file.at = "none" /\ Fetch(c, call[c].from, CeilDiv(call[c].asked - call[c].from, Step) + 5)
    <3>1. call[c].from < call[c].asked
      BY <1>1, StepNat DEF Window1
    <3>2. CeilDiv(call[c].asked - call[c].from, Step) + 5 \in Nat
      BY <1>1, <3>1, LimitsSuffice
    <3>3. Roomy(call[c].from, call[c].asked, CeilDiv(call[c].asked - call[c].from, Step) + 5)
      BY <1>1, <3>1, LimitsSuffice
    <3>4. DOMAIN file.rows = {}
      BY <1>1, <2>2
    <3> QED BY <1>1, <2>2, <3>2, <3>3, <3>4, FetchKeeps
  <2>3. CASE file.at = "whole" /\ call[c].refresh /\ Fetch(c, NextOpen, Missing(c, NextOpen) + 2)
    <3>1. DOMAIN file.rows \in SUBSET Nat /\ DOMAIN file.rows \in SUBSET (0..(MaxTime \div Step))
          /\ DOMAIN file.rows # {} /\ MaxTime \div Step \in Nat
      BY <1>1, <2>3, FrameOps, CandlesNat DEF Candles
    <3>2. PICK l \in DOMAIN file.rows : \A i \in DOMAIN file.rows : i <= l
      BY <3>1, Largest
    <3>3. NextOpen = Close(l) /\ NextOpen \in Nat
      BY <3>1, <3>2, LargestOfIs, OpenClose DEF NextOpen
    <3>4. Missing(c, NextOpen) + 2 \in Nat
          /\ (NextOpen < call[c].asked => Roomy(NextOpen, call[c].asked, Missing(c, NextOpen) + 2))
      BY <1>1, <3>3, LimitsSuffice DEF Missing
    <3> QED BY <1>1, <2>3, <3>1, <3>2, <3>3, <3>4, FetchKeeps
  <2>4. CASE file.at = "whole" /\ ~ call[c].refresh /\ Returned(c, file.rows)
    BY <1>1, <2>4, ReturnedKeeps
  <2> QED BY <1>1, <2>1, <2>2, <2>3, <2>4 DEF Read
<1> QED BY <1>1, <1>2, OneCallStep DEF IndInv, TypeOK, FileInv

\* What opens by the look at the clock is a candle of the model, and one opens
\* in every window that is a candle wide.
LEMMA OpensInTime ==
  ASSUME NEW asked \in 0..MaxTime
  PROVE  /\ \A i \in Nat : Open(i) <= asked => i \in Candles
         /\ \A from \in Nat : from + Step <= asked =>
              \E i \in Candles : from <= Open(i) /\ Open(i) <= asked
<1> DEFINE last == asked \div Step
           top == MaxTime \div Step
<1>1. /\ asked \in Nat /\ MaxTime \in Nat /\ Step \in Nat /\ Step > 0 /\ asked <= MaxTime
      /\ last \in Nat /\ top \in Nat
      /\ asked = Step * last + (asked % Step) /\ asked % Step \in 0..(Step - 1)
      /\ MaxTime = Step * top + (MaxTime % Step) /\ MaxTime % Step \in 0..(Step - 1)
  BY StepNat
<1> HIDE DEF last, top
<1>2. /\ Open(last) = Step * last /\ Open(top) = Step * top
      /\ Close(last) = Open(last) + Step /\ Close(top) = Open(top) + Step
      /\ Open(last) \in Nat /\ Open(top) \in Nat
  BY <1>1, OpenClose DEF Open
<1>3. Open(last) <= asked /\ asked < Close(last) /\ MaxTime < Close(top)
  BY <1>1, <1>2
<1>4. ASSUME NEW i \in Nat, Open(i) <= asked PROVE i \in Candles
  <2>1. Open(i) < Close(top) /\ Open(i) \in Nat /\ Close(top) = Open(top + 1) /\ top + 1 \in Nat
    BY <1>1, <1>2, <1>3, <1>4, OpenClose
  <2>2. ~ (top + 1 <= i)
    <3>1. top + 1 <= i => Open(top + 1) <= Open(i)
      BY <2>1, OpenOrder
    <3> QED BY <2>1, <3>1, OpenClose
  <2> QED BY <1>1, <2>2 DEF Candles, top
<1>5. ASSUME NEW from \in Nat, from + Step <= asked
      PROVE  \E i \in Candles : from <= Open(i) /\ Open(i) <= asked
  <2>1. from <= Open(last)
    BY <1>1, <1>2, <1>3, <1>5
  <2> QED BY <1>1, <1>3, <1>4, <2>1
<1> QED BY <1>4, <1>5

LEMMA FiniteFrame ==
  ASSUME NEW r \in Frames
  PROVE  IsFiniteSet(DOMAIN r) /\ Cardinality(DOMAIN r) \in Nat /\ DOMAIN r \in SUBSET Nat
<1>1. DOMAIN r \in SUBSET Candles
  BY FrameOps
<1>2. IsFiniteSet(DOMAIN r)
  BY <1>1, CandlesNat, FS_Subset
<1> QED BY <1>1, <1>2, CandlesNat, FS_CardinalityType

\* What a page adds to a walk: nothing when the walk is at its end, otherwise
\* the candles that follow, up to a last one, b, which reaches the clock's look
\* when the walk takes it for the last page.
LEMMA PageAdds ==
  ASSUME TypeOK, NEW c \in Callers, Walking(c)
  PROVE  LET S == DOMAIN Page(c)
             got == Cardinality(DOMAIN call[c].out) + Cardinality(S) IN
         /\ Page(c) \in Frames
         /\ \/ S = {} /\ \E i \in Held(c) : Close(i) >= call[c].asked
            \/ \E b \in S :
                 /\ \A i \in Held(c) \cup S : i <= b
                 /\ Convex(Held(c) \cup S)
                 /\ LargestOf(S) = b
                 /\ Cardinality(DOMAIN call[c].out \cup S) = got /\ got <= call[c].limit
                 /\ call[c].cursor + Cardinality(S) * Step <= Close(b)
                 /\ LastPage(c) => Close(b) >= call[c].asked
<1> DEFINE S == DOMAIN Page(c)
           O == DOMAIN call[c].out
           out == Cardinality(O)
           left == call[c].limit - out
           n == IF PageSize < left THEN PageSize ELSE left
           cursor == call[c].cursor
           asked == call[c].asked
<1>1. Page(c) = Klines(cursor, asked, n)
  BY DEF Page
<1>2. /\ cursor \in Nat /\ asked \in 0..MaxTime /\ asked \in Nat /\ call[c].from \in Nat
      /\ call[c].limit \in Nat /\ call[c].rows \in Frames /\ call[c].out \in Frames
      /\ PageSize \in Nat \ {0}
  BY CallFields, KlineAssumption
<1>3. out \in Nat /\ IsFiniteSet(O) /\ O \in SUBSET Nat /\ out <= call[c].limit
  BY <1>2, FiniteFrame DEF Walking
<1>4. left \in Nat /\ n \in Nat /\ n <= left /\ n <= PageSize /\ (n < PageSize => n = left)
  BY <1>2, <1>3
<1>5. /\ Held(c) \in SUBSET Nat /\ Convex(Held(c)) /\ O \subseteq Held(c)
      /\ asked + 2 * Step <= cursor + left * Step
      /\ call[c].from + Step <= asked
      /\ IF Held(c) = {} THEN cursor = call[c].from
         ELSE \E l \in Held(c) : (\A i \in Held(c) : i <= l) /\ cursor = Close(l)
  BY <1>2, FiniteFrame DEF Walking, Held, Window1
<1>6. Page(c) \in Frames
  BY <1>1, KlinesFrame
<1>7. (LastPage(c) <=> (Cardinality(S) < PageSize \/ out + Cardinality(S) = call[c].limit))
  BY DEF LastPage
<1> HIDE DEF S, out, left, n, cursor, asked
<1>8. CASE S = {}
  <2>1. n = 0 \/ \A i \in Candles : ~ (cursor <= Open(i) /\ Open(i) <= asked)
    <3>1. \/ /\ S = {}
             /\ n = 0 \/ \A i \in Candles : ~ (cursor <= Open(i) /\ Open(i) <= asked)
          \/ \E a, b \in Candles : a <= b /\ S = a..b
      BY <1>1, <1>2, <1>4, PageShape DEF S
    <3>2. ~ \E a, b \in Candles : a <= b /\ S = a..b
      BY <1>8, CandlesNat
    <3> QED BY <3>1, <3>2
  <2>2. n = 0 => asked <= cursor /\ asked # cursor
    <3> SUFFICES ASSUME n = 0 PROVE asked + 2 * Step <= cursor
      BY <1>2, StepNat
    <3>1. left = 0
      BY <1>2, <1>4
    <3> QED BY <1>2, <1>5, <3>1, StepNat
  <2>3. Held(c) # {}
    <3>1. ASSUME Held(c) = {} PROVE FALSE
      <4>1. cursor = call[c].from
        BY <1>5, <3>1
      <4>2. \E i \in Candles : cursor <= Open(i) /\ Open(i) <= asked
        BY <1>2, <1>5, <4>1, OpensInTime
      <4>3. n # 0
        BY <1>2, <1>5, <2>2, <4>1, StepNat
      <4> QED BY <2>1, <4>2, <4>3
    <3> QED BY <3>1
  <2>4. PICK l \in Held(c) : (\A i \in Held(c) : i <= l) /\ cursor = Close(l)
    BY <1>5, <2>3
  <2>5. asked <= cursor
    <3>1. l \in Nat /\ l + 1 \in Nat /\ Open(l + 1) = cursor
      BY <1>5, <2>4, OpenClose
    <3>2. ASSUME cursor <= asked, n # 0 PROVE FALSE
      <4>1. l + 1 \in Candles
        BY <1>2, <3>1, <3>2, OpensInTime
      <4> QED BY <1>2, <2>1, <3>1, <3>2, <4>1
    <3> QED BY <1>2, <2>2, <3>2
  <2>6. Close(l) >= asked
    BY <1>2, <2>4, <2>5
  <2> QED BY <1>6, <1>8, <2>4, <2>6 DEF S, asked
<1>9. CASE S # {}
  <2>1. PICK a \in Candles, b \in Candles :
          /\ a <= b /\ S = a..b /\ cursor <= Open(a) /\ Open(b) <= asked
          /\ \A i \in Candles : cursor <= Open(i) => a <= i
          /\ b - a + 1 <= n
          /\ b - a + 1 < n => ~ (b + 1 \in Candles /\ Open(b + 1) <= asked)
    BY <1>1, <1>2, <1>4, <1>9, PageShape DEF S
  <2>2. a \in Nat /\ b \in Nat /\ b - a + 1 \in Nat /\ b \in S
    BY <2>1, CandlesNat
  <2>3. IsFiniteSet(S) /\ Cardinality(S) = b - a + 1
    <3>1. a \in Int /\ b \in Int
      BY <2>2
    <3>2. IsFiniteSet(a..b) /\ Cardinality(a..b) = IF a > b THEN 0 ELSE b - a + 1
      BY <3>1, FS_Interval
    <3> QED BY <2>1, <2>2, <3>2
  <2>4. Held(c) # {} => a - 1 \in Held(c) /\ \A i \in Held(c) : i <= a - 1
    <3> SUFFICES ASSUME Held(c) # {} PROVE a - 1 \in Held(c) /\ \A i \in Held(c) : i <= a - 1
      OBVIOUS
    <3>1. PICK l \in Held(c) : (\A i \in Held(c) : i <= l) /\ cursor = Close(l)
      BY <1>5
    <3>2. l \in Nat /\ l + 1 \in Nat /\ Open(l + 1) = cursor
      BY <1>5, <3>1, OpenClose
    <3>3. l + 1 <= a
      BY <2>1, <2>2, <3>2, OpenOrder
    <3>4. Open(a) <= asked
      <4>1. Open(a) <= Open(b) /\ Open(a) \in Nat /\ Open(b) \in Nat
        BY <2>1, <2>2, OpenOrder, OpenClose
      <4> QED BY <1>2, <2>1, <4>1
    <3>5. l + 1 \in Candles
      <4>1. Open(l + 1) <= asked
        <5>1. Open(a) \in Nat
          BY <2>2, OpenClose
        <5> QED BY <1>2, <2>1, <3>2, <3>4, <5>1
      <4> QED BY <1>2, <3>2, <4>1, OpensInTime
    <3>6. a <= l + 1
      <4>1. cursor <= Open(l + 1)
        BY <1>2, <3>2
      <4> QED BY <2>1, <3>5, <4>1
    <3>7. l = a - 1
      BY <2>2, <3>2, <3>3, <3>6
    <3> QED BY <3>1, <3>7
  <2>5. \A i \in Held(c) : i \in Nat /\ i < a
    BY <1>5, <2>2, <2>4
  <2>6. \A i \in Held(c) \cup S : i <= b
    BY <2>1, <2>2, <2>5
  <2>7. Convex(Held(c) \cup S)
    <3> SUFFICES ASSUME NEW i \in Held(c) \cup S, NEW j \in Held(c) \cup S, NEW k \in i..j
                 PROVE  k \in Held(c) \cup S
      BY DEF Convex
    <3>1. i \in Nat /\ j \in Nat /\ k \in Nat /\ i <= k /\ k <= j /\ j <= b
      BY <1>5, <2>1, <2>2, <2>6
    <3>2. CASE a <= k
      BY <2>1, <2>2, <3>1, <3>2
    <3>3. CASE k < a
      <4>1. i \in Held(c) /\ a - 1 \in Held(c)
        BY <2>1, <2>2, <2>4, <3>1, <3>3
      <4>2. k \in i..(a - 1)
        BY <2>2, <3>1, <3>3
      <4> QED BY <1>5, <4>1, <4>2 DEF Convex
    <3> QED BY <2>2, <3>1, <3>2, <3>3
  <2>8. LargestOf(S) = b
    <3>1. S \in SUBSET Nat /\ \A y \in S : y <= b
      BY <2>1, <2>2
    <3> QED BY <2>2, <3>1, LargestOfIs
  <2>9. Cardinality(O \cup S) = out + Cardinality(S)
    <3>1. O \cap S = {}
      BY <1>5, <2>1, <2>2, <2>5
    <3>2. Cardinality(O \cup S) = Cardinality(O) + Cardinality(S) - Cardinality(O \cap S)
      BY <1>3, <2>3, FS_Union
    <3>3. Cardinality(O \cap S) = 0
      BY <3>1, FS_EmptySet
    <3> QED BY <1>3, <2>2, <2>3, <3>2, <3>3 DEF out
  <2>10. out + Cardinality(S) <= call[c].limit
    BY <1>2, <1>3, <1>4, <2>1, <2>2, <2>3 DEF left
  <2> DEFINE wide == b - a + 1
  <2>11. /\ wide \in Nat /\ wide * Step \in Nat /\ Open(a) \in Nat /\ Open(a) + wide * Step = Close(b)
         /\ Close(b) \in Nat
    <3>1. b + 1 = a + wide /\ wide \in Nat
      BY <2>2
    <3> HIDE DEF wide
    <3>2. Open(b + 1) = Open(a) + wide * Step /\ wide * Step \in Nat
      BY <2>2, <3>1, OpenSum
    <3> QED BY <2>2, <3>1, <3>2, OpenClose
  <2>12. cursor + Cardinality(S) * Step <= Close(b)
    <3>1. Cardinality(S) = wide
      BY <2>3
    <3> HIDE DEF wide
    <3> QED BY <1>2, <2>1, <2>11, <3>1
  <2>13. LastPage(c) => Close(b) >= asked
    <3>1. ASSUME LastPage(c), Close(b) < asked PROVE FALSE
      <4>1. b + 1 \in Candles /\ Open(b + 1) <= asked
        <5>1. Open(b + 1) < asked /\ Open(b + 1) \in Nat /\ b + 1 \in Nat
          BY <2>2, <3>1, OpenClose
        <5> QED BY <1>2, <5>1, OpensInTime
      <4>2. wide = n
        BY <1>4, <2>1, <2>11, <4>1
      <4>3. n = left
        BY <1>2, <1>3, <1>4, <1>7, <2>3, <3>1, <4>2 DEF left
      <4>4. cursor + left * Step <= Close(b)
        BY <2>3, <2>12, <4>2, <4>3
      <4>5. left * Step \in Nat
        BY <1>4, StepNat
      <4> HIDE DEF wide
      <4> QED BY <1>2, <1>5, <2>11, <3>1, <4>4, <4>5, StepNat
    <3> QED BY <1>2, <2>11, <3>1
  <2> HIDE DEF wide
  <2>14. /\ \A i \in Held(c) \cup S : i <= b
         /\ Convex(Held(c) \cup S)
         /\ LargestOf(S) = b
         /\ Cardinality(DOMAIN call[c].out \cup S) = Cardinality(DOMAIN call[c].out) + Cardinality(S)
         /\ Cardinality(DOMAIN call[c].out) + Cardinality(S) <= call[c].limit
         /\ call[c].cursor + Cardinality(S) * Step <= Close(b)
         /\ LastPage(c) => Close(b) >= call[c].asked
    BY <2>6, <2>7, <2>8, <2>9, <2>10, <2>12, <2>13 DEF out, cursor, asked
  <2> QED BY <1>6, <2>2, <2>14 DEF S
<1> QED BY <1>8, <1>9

LEMMA FetchPageKeeps ==
  ASSUME IndInv, NEW c \in Callers, FetchPage(c)
  PROVE  IndInv'
<1> DEFINE page == Page(c)
           out == Merge(call[c].out, page)
           S == DOMAIN page
<1>1. /\ TypeOK /\ call[c].at = "fetch" /\ UNCHANGED <<now, file, crashes>> /\ Walking(c)
      /\ call[c].asked \in Nat /\ call[c].limit \in Nat /\ call[c].cursor \in Nat
      /\ call[c].rows \in Frames /\ call[c].out \in Frames
      /\ call[c] \in Calls
  BY CallFields DEF IndInv, CallInv, FetchPage
<1>2. /\ page \in Frames
      /\ \/ S = {} /\ \E i \in Held(c) : Close(i) >= call[c].asked
         \/ \E b \in S :
              /\ \A i \in Held(c) \cup S : i <= b
              /\ Convex(Held(c) \cup S)
              /\ LargestOf(S) = b
              /\ Cardinality(DOMAIN call[c].out \cup S) = Cardinality(DOMAIN call[c].out) + Cardinality(S)
              /\ Cardinality(DOMAIN call[c].out) + Cardinality(S) <= call[c].limit
              /\ call[c].cursor + Cardinality(S) * Step <= Close(b)
              /\ LastPage(c) => Close(b) >= call[c].asked
  BY <1>1, PageAdds
<1>3. /\ out \in Frames /\ DOMAIN out = DOMAIN call[c].out \cup S
      /\ Merge(call[c].rows, out) \in Frames
      /\ DOMAIN Merge(call[c].rows, out) = Held(c) \cup S
      /\ NoRows \in Frames /\ DOMAIN NoRows = {}
      /\ (out = NoRows <=> DOMAIN out = {})
      /\ (page = NoRows <=> S = {})
  <2>1. out \in Frames /\ DOMAIN out = DOMAIN call[c].out \cup S
    BY <1>1, <1>2, FrameOps
  <2>2. Merge(call[c].rows, out) \in Frames
        /\ DOMAIN Merge(call[c].rows, out) = DOMAIN call[c].rows \cup DOMAIN out
    BY <1>1, <2>1, FrameOps
  <2>3. NoRows \in Frames /\ DOMAIN NoRows = {}
    BY <1>1, FrameOps
  <2>4. (out = NoRows <=> DOMAIN out = {}) /\ (page = NoRows <=> S = {})
    BY <1>2, <2>1, <2>3, FrameOps
  <2> QED BY <2>1, <2>2, <2>3, <2>4 DEF Held
<1>4. Window1(c) /\ Convex(Held(c))
  BY <1>1 DEF Walking
<1>5. IF ~ LastPage(c)
      THEN call' = [call EXCEPT ![c].out = out,
                      ![c].cursor = IF page = NoRows THEN @ ELSE Close(LargestOf(S))]
      ELSE IF out = NoRows THEN Returned(c, call[c].rows)
      ELSE call' = [call EXCEPT ![c].at = "open", ![c].out = NoRows, ![c].cursor = 0,
                                ![c].limit = 0, ![c].rows = Merge(@, out)]
  BY DEF FetchPage
<1>6. S = {} => LastPage(c)
  <2> SUFFICES ASSUME S = {} PROVE Cardinality(S) < PageSize
    BY DEF LastPage
  <2> QED BY FS_EmptySet, KlineAssumption
<1> HIDE DEF page, out, S
<1>7. call' \in [Callers -> Calls] /\ CallInv(c)' /\ Others(c)
  <2>1. CASE ~ LastPage(c)
    <3>1. PICK b \in S :
            /\ \A i \in Held(c) \cup S : i <= b
            /\ Convex(Held(c) \cup S)
            /\ LargestOf(S) = b
            /\ Cardinality(DOMAIN call[c].out \cup S) = Cardinality(DOMAIN call[c].out) + Cardinality(S)
            /\ Cardinality(DOMAIN call[c].out) + Cardinality(S) <= call[c].limit
            /\ call[c].cursor + Cardinality(S) * Step <= Close(b)
      BY <1>2, <1>6, <2>1
    <3>2. b \in Nat /\ Close(b) \in Nat
      BY <1>2, <3>1, FiniteFrame, OpenClose DEF S
    <3> DEFINE q == [call[c] EXCEPT !.out = out, !.cursor = Close(b)]
    <3>3. call' = [call EXCEPT ![c] = q]
      BY <1>1, <1>3, <1>5, <2>1, <3>1 DEF TypeOK
    <3>4. q \in Calls /\ q.out = out /\ q.cursor = Close(b) /\ q.at = "fetch"
          /\ q.rows = call[c].rows /\ q.limit = call[c].limit
          /\ q.asked = call[c].asked /\ q.from = call[c].from
      BY <1>1, <1>3, <3>2 DEF Calls
    <3> HIDE DEF q
    <3>5. call' \in [Callers -> Calls] /\ call'[c] = q /\ \A d \in Callers \ {c} : call'[d] = call[d]
      BY <1>1, <3>3, <3>4 DEF TypeOK
    <3>6. Held(c)' = Held(c) \cup S /\ DOMAIN call'[c].out = DOMAIN call[c].out \cup S
      BY <1>3, <3>4, <3>5 DEF Held
    <3>7. call'[c].asked + 2 * Step
            <= call'[c].cursor + (call'[c].limit - Cardinality(DOMAIN call'[c].out)) * Step
      <4> DEFINE had == Cardinality(DOMAIN call[c].out)
                 new == Cardinality(S)
                 left == call[c].limit - had
      <4>1. had \in Nat /\ new \in Nat
        BY <1>1, <1>2, FiniteFrame DEF S
      <4>2. Cardinality(DOMAIN call'[c].out) = had + new /\ had + new <= call[c].limit
            /\ call[c].cursor + new * Step <= Close(b)
            /\ call[c].asked + 2 * Step <= call[c].cursor + left * Step
        BY <1>1, <3>1, <3>6 DEF Walking
      <4> HIDE DEF had, new
      <4>3. left \in Nat /\ left - new \in Nat /\ call[c].limit - (had + new) = left - new
        BY <1>1, <4>1, <4>2
      <4> HIDE DEF left
      <4>4. new * Step \in Nat /\ (left - new) * Step \in Nat
            /\ left * Step = new * Step + (left - new) * Step
        BY <4>1, <4>3, StepNat
      <4>5. call[c].asked + 2 * Step <= Close(b) + (left - new) * Step
        BY <1>1, <3>2, <4>2, <4>4, StepNat
      <4> QED BY <3>4, <3>5, <4>2, <4>3, <4>5
    <3>8. Walking(c)'
      <4>1. Window1(c)'
        BY <1>4, <3>4, <3>5 DEF Window1
      <4>2. b \in Held(c)' /\ (\A i \in Held(c)' : i <= b) /\ call'[c].cursor = Close(b)
        BY <3>1, <3>4, <3>5, <3>6
      <4>3. Cardinality(DOMAIN call'[c].out) <= call'[c].limit
        BY <3>1, <3>4, <3>5, <3>6
      <4> QED BY <3>1, <3>6, <3>7, <4>1, <4>2, <4>3 DEF Walking
    <3> QED BY <3>4, <3>5, <3>8 DEF CallInv, Others
  <2>2. \E i \in Held(c) \cup S : LastPage(c) => Close(i) >= call[c].asked
    BY <1>2
  <2>3. CASE LastPage(c) /\ out = NoRows
    <3>1. S = {} /\ DOMAIN call[c].out = {} /\ Held(c) = DOMAIN call[c].rows
      BY <1>3, <2>3 DEF Held
    <3>2. Convex(DOMAIN call[c].rows) /\ \E i \in DOMAIN call[c].rows : Close(i) >= call[c].asked
      BY <1>4, <2>2, <2>3, <3>1
    <3>3. Returned(c, call[c].rows)
      BY <1>5, <2>3
    <3> QED BY <1>1, <1>4, <3>2, <3>3, ReturnedKeeps
  <2>4. CASE LastPage(c) /\ out # NoRows
    <3> DEFINE rows == Merge(call[c].rows, out)
               q == [call[c] EXCEPT !.at = "open", !.out = NoRows, !.cursor = 0,
                                    !.limit = 0, !.rows = rows]
    <3>1. call' = [call EXCEPT ![c] = q]
      BY <1>1, <1>5, <2>4 DEF TypeOK
    <3>2. rows \in Frames /\ DOMAIN rows = Held(c) \cup S
      BY <1>3
    <3> HIDE DEF rows
    <3>3. q \in Calls /\ q.out = NoRows /\ q.at = "open" /\ q.rows = rows
          /\ q.asked = call[c].asked /\ q.from = call[c].from
      BY <1>1, <1>3, <3>2 DEF Calls
    <3> HIDE DEF q
    <3>4. call' \in [Callers -> Calls] /\ call'[c] = q /\ \A d \in Callers \ {c} : call'[d] = call[d]
      BY <1>1, <3>1, <3>3 DEF TypeOK
    <3>5. Convex(Held(c) \cup S)
      BY <1>2, <1>4
    <3>6. Window1(c)' /\ Convex(DOMAIN call'[c].rows) /\ UpToDate(c)'
      BY <1>4, <2>2, <2>4, <3>2, <3>3, <3>4, <3>5 DEF Window1, UpToDate
    <3> QED BY <3>3, <3>4, <3>6 DEF CallInv, Others
  <2> QED BY <2>1, <2>3, <2>4
<1> QED BY <1>1, <1>7, OneCallStep DEF IndInv, TypeOK, FileInv

LEMMA RaisesKeeps ==
  ASSUME IndInv, NEW c \in Callers, FetchRaises(c) \/ Crash(c)
  PROVE  IndInv'
<1>1. /\ TypeOK /\ FileInv /\ UNCHANGED <<now, file>> /\ Raised(c)
      /\ crashes' \in 0..MaxCrashes
  BY KlineAssumption DEF IndInv, TypeOK, FetchRaises, Crash
<1>2. call' \in [Callers -> Calls] /\ CallInv(c)' /\ Others(c)
  BY <1>1, RaisedKeeps
<1> QED BY <1>1, <1>2, OneCallStep DEF TypeOK, FileInv

LEMMA TornFile ==
  ASSUME TypeOK, NEW c \in Callers, file' = [at |-> "torn", rows |-> NoRows]
  PROVE  file' \in Files /\ FileInv'
<1>1. NoRows \in Frames /\ DOMAIN NoRows = {}
  BY FrameOps, CallFields
<1>2. file'.at = "torn" /\ file'.rows = NoRows
  OBVIOUS
<1> QED BY <1>1, <1>2 DEF Files, FileInv, Convex

LEMMA WriteOpenKeeps ==
  ASSUME IndInv, NEW c \in Callers, WriteOpen(c)
  PROVE  IndInv'
<1>1. /\ TypeOK /\ call[c].at = "open" /\ UNCHANGED <<now, crashes>>
      /\ file' \in Files /\ FileInv'
  BY TornFile DEF IndInv, WriteOpen
<1> DEFINE q == [call[c] EXCEPT !.at = "write", !.alone = Writing = {}]
<1>2. call[c] \in Calls /\ CallInv(c)
  BY CallFields DEF IndInv
<1>3. q \in Calls /\ q.at = "write" /\ q.out = call[c].out /\ q.rows = call[c].rows
      /\ q.asked = call[c].asked /\ q.from = call[c].from
  BY <1>2 DEF Calls
<1> HIDE DEF q
<1>4. call' = [d \in Callers |-> IF d = c THEN q ELSE [call[d] EXCEPT !.alone = FALSE]]
  BY DEF WriteOpen, q
<1>5. \A d \in Callers : [call[d] EXCEPT !.alone = FALSE] \in Calls
  <2>1. ASSUME NEW d \in Callers PROVE [call[d] EXCEPT !.alone = FALSE] \in Calls
    <3>1. call[d] \in Calls
      BY <1>1, CallFields
    <3> QED BY <3>1 DEF Calls
  <2> QED BY <2>1
<1>6. call' \in [Callers -> Calls] /\ call'[c] = q /\ Others(c)
  BY <1>3, <1>4, <1>5 DEF Others
<1>7. CallInv(c)'
  <2>1. Window1(c)' /\ Convex(DOMAIN call'[c].rows) /\ UpToDate(c)' /\ call'[c].out = NoRows
    BY <1>1, <1>2, <1>3, <1>6 DEF CallInv, Window1, UpToDate
  <2> QED BY <1>3, <1>6, <2>1 DEF CallInv
<1> QED BY <1>1, <1>6, <1>7, OneCallStep DEF TypeOK

LEMMA WriteCloseKeeps ==
  ASSUME IndInv, NEW c \in Callers, WriteClose(c)
  PROVE  IndInv'
<1>1. /\ TypeOK /\ call[c].at = "write" /\ UNCHANGED <<now, crashes>>
      /\ Window1(c) /\ Convex(DOMAIN call[c].rows) /\ UpToDate(c)
      /\ call[c].rows \in Frames /\ Returned(c, call[c].rows)
  BY CallFields DEF IndInv, CallInv, WriteClose
<1>2. call' \in [Callers -> Calls] /\ CallInv(c)' /\ Others(c)
  BY <1>1, ReturnedKeeps DEF UpToDate
<1>3. file' \in Files /\ FileInv'
  <2>1. CASE file' = [at |-> "whole", rows |-> call[c].rows]
    <3>1. file'.at = "whole" /\ file'.rows = call[c].rows /\ DOMAIN call[c].rows # {}
      BY <1>1, <2>1 DEF UpToDate
    <3>2. file' \in Files
      BY <1>1, <2>1 DEF Files
    <3> QED BY <1>1, <3>1, <3>2 DEF FileInv
  <2>2. CASE file' = [at |-> "torn", rows |-> NoRows]
    BY <1>1, <2>2, TornFile
  <2> QED BY <2>1, <2>2 DEF WriteClose
<1> QED BY <1>1, <1>2, <1>3, OneCallStep DEF TypeOK

-----------------------------------------------------------------------------
(* The invariant and what it says.                                          *)

LEMMA StutterKeeps ==
  ASSUME IndInv, UNCHANGED <<file, call>>, now' \in 0..MaxTime, crashes' = crashes
  PROVE  IndInv'
<1>1. ASSUME NEW c \in Callers PROVE CallInv(c)'
  <2>1. CallInv(c)' <=> CallInv(c)
    BY DEF CallInv, Window1, UpToDate, Walking, Held
  <2> QED BY <2>1 DEF IndInv
<1>2. TypeOK' /\ FileInv'
  BY DEF IndInv, TypeOK, FileInv
<1> QED BY <1>1, <1>2 DEF IndInv

LEMMA InitInd == Init => IndInv
<1> SUFFICES ASSUME Init PROVE IndInv
  OBVIOUS
<1>1. NoRows \in Frames /\ DOMAIN NoRows = {}
  <2>1. NoRows \in [{} -> 0..MaxTime] /\ DOMAIN NoRows = {}
    BY DEF NoRows
  <2> QED BY <2>1, FrameIs
<1>2. /\ NoCall \in Calls /\ NoCall.at = "idle" /\ NoCall.out = NoRows
      /\ [at |-> "none", rows |-> NoRows] \in Files
  BY <1>1, StepNat DEF NoCall, Calls, Files
<1>3. TypeOK
  BY <1>2, KlineAssumption DEF Init, TypeOK
<1>4. FileInv
  BY <1>1 DEF Init, FileInv, Convex
<1>5. ASSUME NEW c \in Callers PROVE CallInv(c)
  BY <1>2 DEF Init, CallInv
<1> QED BY <1>3, <1>4, <1>5 DEF IndInv

LEMMA StepInd == IndInv /\ [Next]_vars => IndInv'
<1> SUFFICES ASSUME IndInv, [Next]_vars PROVE IndInv'
  OBVIOUS
<1>1. ASSUME NEW c \in Callers, NEW days \in DayCounts, NEW refresh \in BOOLEAN,
             Ask(c, days, refresh)
      PROVE  IndInv'
  BY <1>1, AskKeeps
<1>2. ASSUME NEW c \in Callers, Read(c) PROVE IndInv'
  BY <1>2, ReadKeeps
<1>3. ASSUME NEW c \in Callers, FetchPage(c) PROVE IndInv'
  BY <1>3, FetchPageKeeps
<1>4. ASSUME NEW c \in Callers, FetchRaises(c) \/ Crash(c) PROVE IndInv'
  BY <1>4, RaisesKeeps
<1>5. ASSUME NEW c \in Callers, WriteOpen(c) PROVE IndInv'
  BY <1>5, WriteOpenKeeps
<1>6. ASSUME NEW c \in Callers, WriteClose(c) PROVE IndInv'
  BY <1>6, WriteCloseKeeps
<1>7. CASE Tick
  <2>1. now' \in 0..MaxTime
    BY <1>7, StepNat DEF Tick, IndInv, TypeOK
  <2> QED BY <1>7, <2>1, StutterKeeps DEF Tick
<1>8. CASE UNCHANGED vars
  <2>1. now' \in 0..MaxTime /\ UNCHANGED <<file, call>> /\ crashes' = crashes
    BY <1>8 DEF IndInv, TypeOK, vars
  <2> QED BY <2>1, StutterKeeps
<1> QED BY <1>1, <1>2, <1>3, <1>4, <1>5, <1>6, <1>7, <1>8 DEF Next, CallStep

\* The invariant holds of every behaviour of the cache.
THEOREM Invariance == Spec => []IndInv
<1>1. Init => IndInv
  BY InitInd
<1>2. IndInv /\ [Next]_vars => IndInv'
  BY StepInd
<1> QED BY <1>1, <1>2, PTL DEF Spec

\* The variables keep their types: every frame is of candles and every copy
\* from a moment of the clock.
THEOREM TypeCorrect == Spec => []TypeOK
<1>1. IndInv => TypeOK
  BY DEF IndInv
<1> QED BY <1>1, Invariance, PTL

\* However calls on one file interleave, crash and overwrite each other, the
\* file and every frame that read_klines returns are without a missing candle.
THEOREM FramesHaveNoGaps == Spec => []NoGaps
<1>1. IndInv => NoGaps
  <2>1. \A S : Convex(S) <=> \A i, j \in S : \A k \in i..j : k \in S
    BY DEF Convex
  <2> QED BY <2>1 DEF IndInv, FileInv, CallInv, NoGaps, GapFree
<1> QED BY <1>1, Invariance, PTL

\* The row limits that read_klines computes and the page test of get_klines
\* never end the walk early: a refreshed frame reaches the look at the clock.
THEOREM RefreshReachesNow == Spec => []ReachesNow
<1>1. IndInv => ReachesNow
  BY DEF IndInv, CallInv, UpToDate, ReachesNow
<1> QED BY <1>1, Invariance, PTL

=============================================================================
