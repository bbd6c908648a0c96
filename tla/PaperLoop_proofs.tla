-------------------------- MODULE PaperLoop_proofs --------------------------
(***************************************************************************)
(* The state file of a paper deployment tells the truth, for any number of   *)
(* deployments and scripts, killed and started again anywhere. What makes it  *)
(* true is that a record, in memory or in the file, matches the receipts from *)
(* the moment it is made, and that receipts are only ever added.              *)
(***************************************************************************)
EXTENDS PaperLoop, FiniteSetTheorems, TLAPS

USE PaperAssumption

Records == [dep : Nat, cycles : Nat, last : Nat, halted : BOOLEAN,
            status : {"running", "halted"}]

Receipts == [of : Deployments, dep : Nat, halted : BOOLEAN]

Owned(d, dep, table) == {n \in DOMAIN table : table[n].of = d /\ table[n].dep = dep}

\* What a record says of deployment d is in the table of receipts.
Matches(d, r, table) ==
  /\ r \in Records
  /\ r.last # NoReceipt =>
       r.last \in Owned(d, r.dep, table) /\ r.halted = table[r.last].halted
  /\ r.cycles <= Cardinality(Owned(d, r.dep, table))
  /\ r.halted => r.status = "halted"
  /\ r.status = "halted" => d \in Breaker /\ \E n \in Owned(d, r.dep, table) : table[n].halted

Shape ==
  /\ receipts \in Seq(Receipts)
  /\ births \in Nat
  /\ DOMAIN file = Deployments
  /\ turn \in [Scripts -> Nat]
  /\ \A s \in Scripts : turn[s] \in DOMAIN Served[s]
  /\ DOMAIN rec = Scripts
  /\ \A s \in Scripts : DOMAIN rec[s] = DOMAIN Served[s]

FilesMatch == \A d \in Deployments : Readable(d) => Matches(d, file[d], receipts)

MemoryMatches ==
  \A s \in Scripts : \A i \in DOMAIN Served[s] : Matches(Served[s][i], rec[s][i], receipts)

PaperInv == Shape /\ FilesMatch /\ MemoryMatches

-----------------------------------------------------------------------------

LEMMA OwnedFinite ==
  ASSUME NEW d, NEW dep, NEW table \in Seq(Receipts)
  PROVE  IsFiniteSet(Owned(d, dep, table)) /\ Cardinality(Owned(d, dep, table)) \in Nat
<1>1. DOMAIN table = 1..Len(table) /\ Len(table) \in Nat
  OBVIOUS
<1>2. IsFiniteSet(DOMAIN table)
  BY <1>1, FS_Interval
<1>3. IsFiniteSet(Owned(d, dep, table))
  BY <1>2, FS_Subset DEF Owned
<1> QED BY <1>3, FS_CardinalityType

LEMMA FreshMatches ==
  ASSUME NEW d, NEW n \in Nat, NEW table \in Seq(Receipts)
  PROVE  Matches(d, Fresh(n), table)
<1>1. Fresh(n) \in Records /\ Fresh(n).last = NoReceipt /\ Fresh(n).cycles = 0
  BY DEF Fresh, Records, NoReceipt
<1>2. Fresh(n).halted = FALSE /\ Fresh(n).status # "halted"
  BY DEF Fresh
<1>3. 0 <= Cardinality(Owned(d, Fresh(n).dep, table))
  BY OwnedFinite
<1> QED BY <1>1, <1>2, <1>3 DEF Matches

\* One receipt more.
LEMMA OwnedLater ==
  ASSUME NEW d, NEW dep, NEW table \in Seq(Receipts), NEW e \in Receipts
  PROVE  Owned(d, dep, Append(table, e))
           = IF e.of = d /\ e.dep = dep THEN Owned(d, dep, table) \cup {Len(table) + 1}
             ELSE Owned(d, dep, table)
<1>1. /\ DOMAIN Append(table, e) = (DOMAIN table) \cup {Len(table) + 1}
      /\ \A n \in DOMAIN table : Append(table, e)[n] = table[n]
      /\ Append(table, e)[Len(table) + 1] = e
      /\ Len(table) + 1 \notin DOMAIN table
  OBVIOUS
<1> QED BY <1>1 DEF Owned

LEMMA MatchesLater ==
  ASSUME NEW d, NEW r, NEW table \in Seq(Receipts), NEW e \in Receipts, Matches(d, r, table)
  PROVE  Matches(d, r, Append(table, e))
<1> DEFINE own == Owned(d, r.dep, table)
           more == Owned(d, r.dep, Append(table, e))
<1>1. IsFiniteSet(own) /\ Cardinality(own) \in Nat
  BY OwnedFinite
<1>2. more = own \/ more = own \cup {Len(table) + 1}
  BY OwnedLater
<1>3. own \subseteq more /\ Cardinality(more) \in Nat /\ Cardinality(own) <= Cardinality(more)
  <2> HIDE DEF own, more
  <2>1. CASE more = own
    BY <1>1, <2>1
  <2>2. CASE more = own \cup {Len(table) + 1}
    <3>1. Cardinality(more) = IF Len(table) + 1 \in own THEN Cardinality(own)
                              ELSE Cardinality(own) + 1
      BY <1>1, <2>2, FS_AddElement
    <3> QED BY <1>1, <2>2, <3>1
  <2> QED BY <1>2, <2>1, <2>2
<1>4. r \in Records /\ r.cycles \in Nat /\ r.cycles <= Cardinality(own)
      /\ (r.halted => r.status = "halted")
  BY DEF Matches, Records
<1>5. r.last # NoReceipt => r.last \in more /\ r.halted = Append(table, e)[r.last].halted
  <2> SUFFICES ASSUME r.last # NoReceipt
               PROVE  r.last \in more /\ r.halted = Append(table, e)[r.last].halted
    OBVIOUS
  <2>1. r.last \in own /\ r.halted = table[r.last].halted
    BY DEF Matches
  <2>2. r.last \in DOMAIN table
    BY <2>1 DEF Owned
  <2>3. Append(table, e)[r.last] = table[r.last]
    BY <2>2
  <2> QED BY <1>3, <2>1, <2>3
<1>6. r.cycles <= Cardinality(more)
  BY <1>1, <1>3, <1>4
<1>7. r.status = "halted" => d \in Breaker /\ \E n \in more : Append(table, e)[n].halted
  <2> SUFFICES ASSUME r.status = "halted"
               PROVE  d \in Breaker /\ \E n \in more : Append(table, e)[n].halted
    OBVIOUS
  <2>1. d \in Breaker /\ \E n \in own : table[n].halted
    BY DEF Matches
  <2>2. PICK n \in own : table[n].halted
    BY <2>1
  <2>3. n \in DOMAIN table
    BY DEF Owned
  <2>4. Append(table, e)[n] = table[n]
    BY <2>3
  <2> QED BY <1>3, <2>1, <2>2, <2>4
<1> QED BY <1>4, <1>5, <1>6, <1>7 DEF Matches

LEMMA UpdatedFields ==
  ASSUME NEW r \in Records, NEW n \in Nat, NEW halted \in BOOLEAN
  PROVE  /\ Updated(r, n, halted) \in Records
         /\ Updated(r, n, halted).dep = r.dep
         /\ Updated(r, n, halted).cycles = r.cycles + 1
         /\ Updated(r, n, halted).last = n
         /\ Updated(r, n, halted).halted = halted
         /\ Updated(r, n, halted).status = IF halted THEN "halted" ELSE r.status
<1> DEFINE u == Updated(r, n, halted)
<1>1. u = [dep |-> r.dep, cycles |-> r.cycles + 1, last |-> n, halted |-> halted,
           status |-> IF halted THEN "halted" ELSE r.status]
  BY DEF Updated
<1> HIDE DEF u
<1>2. u.dep = r.dep /\ u.cycles = r.cycles + 1 /\ u.last = n /\ u.halted = halted
  BY <1>1
<1>3. u.status = IF halted THEN "halted" ELSE r.status
  BY <1>1
<1>4. u \in Records
  <2>1. r.dep \in Nat /\ r.cycles + 1 \in Nat /\ r.status \in {"running", "halted"}
    BY DEF Records
  <2>2. (IF halted THEN "halted" ELSE r.status) \in {"running", "halted"}
    BY <2>1
  <2> QED BY <1>1, <2>1, <2>2 DEF Records
<1> QED BY <1>2, <1>3, <1>4 DEF u

\* A receipt is added and noted in the record it was made for.
LEMMA UpdatedMatches ==
  ASSUME NEW d \in Deployments, NEW r, NEW table \in Seq(Receipts), NEW halted \in BOOLEAN,
         halted => d \in Breaker, Matches(d, r, table), NEW e, e = [of |-> d, dep |-> r.dep, halted |-> halted]
  PROVE  /\ e \in Receipts
         /\ Matches(d, Updated(r, Len(table) + 1, halted), Append(table, e))
<1> DEFINE n == Len(table) + 1
           u == Updated(r, n, halted)
           own == Owned(d, r.dep, table)
           more == Owned(d, r.dep, Append(table, e))
<1>1. r \in Records /\ r.dep \in Nat /\ r.cycles \in Nat /\ r.cycles <= Cardinality(own)
  BY DEF Matches, Records
<1>2. e \in Receipts /\ e.of = d /\ e.dep = r.dep
  BY <1>1 DEF Receipts
<1>3. n \in Nat /\ n # NoReceipt
  BY DEF NoReceipt
<1>4. /\ u \in Records /\ u.dep = r.dep /\ u.cycles = r.cycles + 1 /\ u.last = n
      /\ u.halted = halted
      /\ u.status = IF halted THEN "halted" ELSE r.status
  <2> HIDE DEF n
  <2>1. r \in Records /\ n \in Nat /\ halted \in BOOLEAN
    BY <1>1, <1>3
  <2> HIDE DEF u
  <2> QED BY <2>1, UpdatedFields, SMTT(20) DEF u
<1>6. more = own \cup {n} /\ n \notin own
  <2>1. n \notin DOMAIN table
    OBVIOUS
  <2> QED BY <1>2, <2>1, OwnedLater DEF Owned
<1>7. Cardinality(more) = Cardinality(own) + 1 /\ Cardinality(own) \in Nat
  BY <1>6, OwnedFinite, FS_AddElement
<1>8. Append(table, e)[n] = e /\ e.halted = halted
  BY <1>2
<1> HIDE DEF n, u, own, more
<1>9. u.cycles <= Cardinality(more)
  BY <1>1, <1>4, <1>7
<1>10. u.last \in more /\ u.halted = Append(table, e)[u.last].halted
  BY <1>4, <1>6, <1>8
<1>11. u.status = "halted" => d \in Breaker /\ \E k \in more : Append(table, e)[k].halted
  <2>1. CASE halted
    BY <1>6, <1>8, <2>1
  <2>2. CASE ~ halted /\ r.status = "halted"
    <3>1. d \in Breaker /\ \E k \in own : table[k].halted
      BY <2>2 DEF Matches, own
    <3>2. PICK k \in own : table[k].halted
      BY <3>1
    <3>3. k \in DOMAIN table
      BY DEF own, Owned
    <3>4. Append(table, e)[k] = table[k]
      BY <1>2, <3>3
    <3> QED BY <1>6, <3>1, <3>2, <3>4
  <2> QED BY <1>4, <2>1, <2>2
<1>12. Matches(d, u, Append(table, e))
  BY <1>4, <1>9, <1>10, <1>11 DEF Matches, more
<1> QED BY <1>2, <1>12 DEF u, n

-----------------------------------------------------------------------------
(* The invariant.                                                           *)

LEMMA InitPaperInv == PaperInit => PaperInv
<1> SUFFICES ASSUME PaperInit PROVE PaperInv
  OBVIOUS
<1>1. receipts = <<>> /\ receipts \in Seq(Receipts) /\ births = 0
  BY DEF PaperInit
<1>2. \A s \in Scripts : 1 \in DOMAIN Served[s]
  OBVIOUS
<1>3. Shape
  BY <1>1, <1>2 DEF PaperInit, Shape
<1>4. FilesMatch
  BY DEF PaperInit, FilesMatch, Readable
<1>5. MemoryMatches
  <2> SUFFICES ASSUME NEW s \in Scripts, NEW i \in DOMAIN Served[s]
               PROVE  Matches(Served[s][i], rec[s][i], receipts)
    BY DEF MemoryMatches
  <2>1. rec[s][i] = Fresh(1)
    BY DEF PaperInit
  <2> QED BY <1>1, <2>1, FreshMatches
<1> QED BY <1>3, <1>4, <1>5 DEF PaperInv

\* The deployment whose turn it is, and its record in memory.
LEMMA MyRecord ==
  ASSUME PaperInv, NEW s \in Scripts
  PROVE  /\ turn[s] \in DOMAIN Served[s] /\ Mine(s) \in Deployments
         /\ Mine(s) = Served[s][turn[s]]
         /\ Matches(Mine(s), rec[s][turn[s]], receipts)
  BY DEF PaperInv, Shape, MemoryMatches, Mine

\* A step that writes one record in memory, and perhaps moves on.
LEMMA RecordWritten ==
  ASSUME PaperInv, NEW s \in Scripts, NEW r, Matches(Mine(s), r, receipts'),
         rec' = [rec EXCEPT ![s][turn[s]] = r],
         \A t \in Scripts : \A i \in DOMAIN Served[t] : Matches(Served[t][i], rec[t][i], receipts')
  PROVE  /\ DOMAIN rec' = Scripts
         /\ \A t \in Scripts : DOMAIN rec'[t] = DOMAIN Served[t]
         /\ MemoryMatches'
<1>1. DOMAIN rec = Scripts /\ \A t \in Scripts : DOMAIN rec[t] = DOMAIN Served[t]
  BY DEF PaperInv, Shape
<1>2. rec'[s] = [rec[s] EXCEPT ![turn[s]] = r] /\ \A t \in Scripts : t # s => rec'[t] = rec[t]
  BY <1>1
<1>3. DOMAIN rec' = Scripts /\ \A t \in Scripts : DOMAIN rec'[t] = DOMAIN Served[t]
  BY <1>1, <1>2
<1>4. MemoryMatches'
  <2> SUFFICES ASSUME NEW t \in Scripts, NEW i \in DOMAIN Served[t]
               PROVE  Matches(Served[t][i], rec'[t][i], receipts')
    BY DEF MemoryMatches
  <2>1. CASE t = s /\ i = turn[s]
    <3>1. rec'[t][i] = r
      BY <1>1, <1>2, <2>1
    <3> QED BY <2>1, <3>1, MyRecord
  <2>2. CASE t = s /\ i # turn[s]
    <3>1. rec'[t][i] = rec[t][i]
      BY <1>1, <1>2, <2>2
    <3> QED BY <3>1
  <2>3. CASE t # s
    BY <1>2, <2>3
  <2> QED BY <2>1, <2>2, <2>3
<1> QED BY <1>3, <1>4

\* A step that keeps the tables, and what the turns may be.
LEMMA TurnKept ==
  ASSUME PaperInv, NEW s \in Scripts,
         \/ UNCHANGED turn
         \/ turn' = [turn EXCEPT ![s] = 1]
         \/ turn[s] < Len(Served[s]) /\ turn' = [turn EXCEPT ![s] = turn[s] + 1]
  PROVE  turn' \in [Scripts -> Nat] /\ \A t \in Scripts : turn'[t] \in DOMAIN Served[t]
<1>1. /\ turn \in [Scripts -> Nat]
      /\ \A t \in Scripts : turn[t] \in DOMAIN Served[t] /\ DOMAIN Served[t] = 1..Len(Served[t])
      /\ \A t \in Scripts : 1 \in DOMAIN Served[t] /\ Len(Served[t]) \in Nat
  BY DEF PaperInv, Shape
<1> QED BY <1>1

\* A step of script s that writes no record in memory.
LEMMA MemoryKept ==
  ASSUME PaperInv, NEW s \in Scripts, UNCHANGED <<receipts, rec, births>>,
         \/ UNCHANGED turn
         \/ turn' = [turn EXCEPT ![s] = 1]
         \/ turn[s] < Len(Served[s]) /\ turn' = [turn EXCEPT ![s] = turn[s] + 1],
         DOMAIN file' = Deployments, FilesMatch'
  PROVE  PaperInv'
<1>1. turn' \in [Scripts -> Nat] /\ \A t \in Scripts : turn'[t] \in DOMAIN Served[t]
  BY TurnKept
<1>2. MemoryMatches'
  BY DEF PaperInv, MemoryMatches
<1>3. Shape'
  BY <1>1 DEF PaperInv, Shape
<1> QED BY <1>2, <1>3 DEF PaperInv

\* One file is truncated or torn, or written with a record that matches.
LEMMA FileWritten ==
  ASSUME PaperInv, UNCHANGED receipts, NEW d \in Deployments, NEW r,
         r \in {Empty, Torn} \/ Matches(d, r, receipts), file' = [file EXCEPT ![d] = r]
  PROVE  DOMAIN file' = Deployments /\ FilesMatch'
<1>1. /\ DOMAIN file = Deployments
      /\ file'[d] = r /\ \A e \in Deployments : e # d => file'[e] = file[e]
  BY DEF PaperInv, Shape
<1>2. FilesMatch'
  <2> SUFFICES ASSUME NEW e \in Deployments, Readable(e)' PROVE Matches(e, file'[e], receipts')
    BY DEF FilesMatch
  <2>1. CASE e = d
    BY <1>1, <2>1 DEF Readable
  <2>2. CASE e # d
    BY <1>1, <2>2 DEF Readable, PaperInv, FilesMatch
  <2> QED BY <2>1, <2>2
<1> QED BY <1>1, <1>2

\* The files are left alone.
LEMMA FilesKept ==
  ASSUME PaperInv, UNCHANGED <<file, receipts>>
  PROVE  DOMAIN file' = Deployments /\ FilesMatch'
  BY DEF PaperInv, Shape, FilesMatch, Readable

\* A script writes the record that it has in memory.
LEMMA RecordSaved ==
  ASSUME PaperInv, UNCHANGED receipts, NEW s \in Scripts, NEW text \in Written(s),
         file' = [file EXCEPT ![Mine(s)] = text]
  PROVE  DOMAIN file' = Deployments /\ FilesMatch'
<1>1. text = Torn \/ Matches(Mine(s), text, receipts)
  BY MyRecord DEF Written
<1> QED BY <1>1, MyRecord, FileWritten

\* Writing a file fails halfway.
LEMMA FileSpoiled ==
  ASSUME PaperInv, UNCHANGED receipts, NEW s \in Scripts,
         file' \in {file, [file EXCEPT ![Mine(s)] = Torn]}
  PROVE  DOMAIN file' = Deployments /\ FilesMatch'
<1>1. CASE file' = file
  BY <1>1, FilesKept
<1>2. CASE file' = [file EXCEPT ![Mine(s)] = Torn]
  BY <1>2, MyRecord, FileWritten
<1> QED BY <1>1, <1>2

\* Every file and every record matches the table when one receipt is added.
LEMMA AllMatchLater ==
  ASSUME PaperInv, NEW e \in Receipts, receipts' = Append(receipts, e), UNCHANGED file
  PROVE  /\ receipts' \in Seq(Receipts)
         /\ DOMAIN file' = Deployments /\ FilesMatch'
         /\ \A t \in Scripts : \A i \in DOMAIN Served[t] :
              Matches(Served[t][i], rec[t][i], receipts')
<1>1. receipts \in Seq(Receipts)
  BY DEF PaperInv, Shape
<1>2. \A d, r : Matches(d, r, receipts) => Matches(d, r, receipts')
  BY <1>1, MatchesLater
<1> QED BY <1>1, <1>2 DEF PaperInv, Shape, FilesMatch, Readable, MemoryMatches

LEMMA MovesOn ==
  ASSUME NEW s \in Scripts, Loaded(s) \/ CycleOver(s)
  PROVE  \/ UNCHANGED turn
         \/ turn' = [turn EXCEPT ![s] = 1]
         \/ turn[s] < Len(Served[s]) /\ turn' = [turn EXCEPT ![s] = turn[s] + 1]
  BY DEF Loaded, CycleOver

LEMMA LoadKeeps == ASSUME PaperInv, NEW s \in Scripts, Load(s) PROVE PaperInv'
<1> DEFINE found == file[Mine(s)]
<1>1. /\ UNCHANGED <<file, receipts, births>> /\ Readable(Mine(s))
      /\ rec' = [rec EXCEPT ![s][turn[s]] = found]
      /\ UNCHANGED turn \/ Loaded(s)
  BY DEF Load
<1>2. Matches(Mine(s), found, receipts)
  BY <1>1, MyRecord DEF PaperInv, FilesMatch
<1>3. /\ DOMAIN rec' = Scripts
      /\ \A t \in Scripts : DOMAIN rec'[t] = DOMAIN Served[t]
      /\ MemoryMatches'
  <2>1. receipts' = receipts
    BY <1>1
  <2> HIDE DEF found
  <2> QED BY <1>1, <1>2, <2>1, RecordWritten DEF PaperInv, MemoryMatches
<1>4. turn' \in [Scripts -> Nat] /\ \A t \in Scripts : turn'[t] \in DOMAIN Served[t]
  BY <1>1, MovesOn, TurnKept
<1>5. DOMAIN file' = Deployments /\ FilesMatch'
  BY <1>1, FilesKept
<1>6. receipts' \in Seq(Receipts) /\ births' \in Nat
  BY <1>1 DEF PaperInv, Shape
<1> QED BY <1>3, <1>4, <1>5, <1>6 DEF PaperInv, Shape

LEMMA CreateKeeps == ASSUME PaperInv, NEW s \in Scripts, Create(s) PROVE PaperInv'
<1>1. /\ births' = births + 1 /\ births' \in Nat
      /\ rec' = [rec EXCEPT ![s][turn[s]] = Fresh(births + 1)]
      /\ file' = [file EXCEPT ![Mine(s)] = Empty]
      /\ UNCHANGED <<receipts, turn>>
  BY DEF Create, PaperInv, Shape
<1>2. Matches(Mine(s), Fresh(births + 1), receipts)
  BY <1>1, FreshMatches DEF PaperInv, Shape
<1>3. /\ DOMAIN rec' = Scripts
      /\ \A t \in Scripts : DOMAIN rec'[t] = DOMAIN Served[t]
      /\ MemoryMatches'
  BY <1>1, <1>2, RecordWritten DEF PaperInv, MemoryMatches
<1>4. DOMAIN file' = Deployments /\ FilesMatch'
  BY <1>1, MyRecord, FileWritten
<1> QED BY <1>1, <1>3, <1>4 DEF PaperInv, Shape

LEMMA HireKeeps == ASSUME PaperInv, NEW s \in Scripts, Hire(s) PROVE PaperInv'
<1>1. PICK halted \in BOOLEAN :
        /\ halted => Mine(s) \in Breaker
        /\ receipts' = Append(receipts, Receipt(s, halted))
        /\ rec' = [rec EXCEPT ![s][turn[s]] = Updated(rec[s][turn[s]], Len(receipts'), halted)]
  BY DEF Hire, PaperInv, Shape
<1> DEFINE e == Receipt(s, halted)
           r == rec[s][turn[s]]
<1>2. UNCHANGED <<file, turn, births>> /\ receipts \in Seq(Receipts) /\ births \in Nat
  BY DEF Hire, PaperInv, Shape
<1>3. e = [of |-> Mine(s), dep |-> r.dep, halted |-> halted]
  BY DEF Receipt
<1>4. Mine(s) \in Deployments /\ Matches(Mine(s), r, receipts)
  BY MyRecord
<1> HIDE DEF e, r
<1>5. /\ e \in Receipts
      /\ Matches(Mine(s), Updated(r, Len(receipts) + 1, halted), Append(receipts, e))
  BY <1>1, <1>2, <1>3, <1>4, UpdatedMatches
<1>6. receipts' = Append(receipts, e) /\ Len(receipts') = Len(receipts) + 1
  BY <1>1, <1>2, <1>5 DEF e
<1>7. /\ receipts' \in Seq(Receipts)
      /\ DOMAIN file' = Deployments /\ FilesMatch'
      /\ \A t \in Scripts : \A i \in DOMAIN Served[t] :
           Matches(Served[t][i], rec[t][i], receipts')
  BY <1>2, <1>5, <1>6, AllMatchLater
<1> DEFINE u == Updated(r, Len(receipts'), halted)
<1>8. rec' = [rec EXCEPT ![s][turn[s]] = u] /\ Matches(Mine(s), u, receipts')
  BY <1>1, <1>5, <1>6 DEF r
<1> HIDE DEF u
<1>9. /\ DOMAIN rec' = Scripts
      /\ \A t \in Scripts : DOMAIN rec'[t] = DOMAIN Served[t]
      /\ MemoryMatches'
  BY <1>7, <1>8, RecordWritten
<1> QED BY <1>2, <1>7, <1>9 DEF PaperInv, Shape

LEMMA KillKeeps == ASSUME PaperInv, NEW s \in Scripts, Kill(s) PROVE PaperInv'
<1>1. /\ UNCHANGED <<file, receipts, births>> /\ turn' = [turn EXCEPT ![s] = 1]
      /\ rec' = [rec EXCEPT ![s] = [i \in DOMAIN Served[s] |-> Fresh(1)]]
  BY DEF Kill
<1>2. DOMAIN rec' = Scripts /\ \A t \in Scripts : DOMAIN rec'[t] = DOMAIN Served[t]
  BY <1>1 DEF PaperInv, Shape
<1>3. MemoryMatches'
  <2> SUFFICES ASSUME NEW t \in Scripts, NEW i \in DOMAIN Served[t]
               PROVE  Matches(Served[t][i], rec'[t][i], receipts')
    BY DEF MemoryMatches
  <2>1. CASE t = s
    <3>1. rec'[t][i] = Fresh(1)
      BY <1>1, <2>1 DEF PaperInv, Shape
    <3> QED BY <1>1, <3>1, FreshMatches DEF PaperInv, Shape
  <2>2. CASE t # s
    <3>1. rec'[t][i] = rec[t][i]
      BY <1>1, <2>2 DEF PaperInv, Shape
    <3> QED BY <1>1, <3>1 DEF PaperInv, MemoryMatches
  <2> QED BY <2>1, <2>2
<1>4. turn' \in [Scripts -> Nat] /\ \A t \in Scripts : turn'[t] \in DOMAIN Served[t]
  BY <1>1, TurnKept
<1>5. DOMAIN file' = Deployments /\ FilesMatch'
  BY <1>1, FilesKept
<1> QED BY <1>1, <1>2, <1>3, <1>4, <1>5 DEF PaperInv, Shape

LEMMA NextPaperInv == PaperInv /\ [PaperNext]_paperVars => PaperInv'
<1> SUFFICES ASSUME PaperInv, [PaperNext]_paperVars PROVE PaperInv'
  OBVIOUS
<1>1. ASSUME NEW s \in Scripts, StartScript(s) PROVE PaperInv'
  BY <1>1, FilesKept, MemoryKept DEF StartScript
<1>2. ASSUME NEW s \in Scripts, ScriptStep(s) PROVE PaperInv'
  <2>1. CASE Load(s)
    BY <2>1, LoadKeeps
  <2>2. CASE Create(s)
    BY <2>2, CreateKeeps
  <2>3. CASE Hire(s)
    BY <2>3, HireKeeps
  <2>4. CASE Created(s)
    <3>1. DOMAIN file' = Deployments /\ FilesMatch'
      BY <2>4, RecordSaved DEF Created
    <3> QED BY <2>4, <3>1, MovesOn, MemoryKept DEF Created
  <2>5. CASE Truncate(s)
    <3>1. DOMAIN file' = Deployments /\ FilesMatch'
      BY <2>5, MyRecord, FileWritten DEF Truncate
    <3> QED BY <2>5, <3>1, MemoryKept DEF Truncate
  <2>6. CASE Save(s)
    <3>1. DOMAIN file' = Deployments /\ FilesMatch'
      BY <2>6, RecordSaved DEF Save
    <3> QED BY <2>6, <3>1, MovesOn, MemoryKept DEF Save
  <2>7. CASE SkipCycle(s) \/ HireFails(s)
    BY <2>7, FilesKept, MovesOn, MemoryKept DEF SkipCycle, HireFails
  <2>8. CASE Wake(s)
    BY <2>8, FilesKept, MemoryKept DEF Wake
  <2>9. CASE SaveFails(s) \/ LoadFails(s)
    <3>1. /\ file' \in {file, [file EXCEPT ![Mine(s)] = Torn]}
          /\ UNCHANGED <<receipts, rec, births>>
          /\ UNCHANGED turn \/ CycleOver(s)
      BY <2>9 DEF SaveFails, LoadFails
    <3>2. DOMAIN file' = Deployments /\ FilesMatch'
      BY <3>1, FileSpoiled
    <3> QED BY <3>1, <3>2, MovesOn, MemoryKept
  <2> QED BY <1>2, <2>1, <2>2, <2>3, <2>4, <2>5, <2>6, <2>7, <2>8, <2>9 DEF ScriptStep
<1>3. ASSUME NEW s \in Scripts, Kill(s) PROVE PaperInv'
  BY <1>3, KillKeeps
<1>4. CASE UNCHANGED paperVars
  BY <1>4 DEF paperVars, PaperInv, Shape, FilesMatch, Readable, MemoryMatches
<1> QED BY <1>1, <1>2, <1>3, <1>4 DEF PaperNext

\* However many paper loops overlap, are killed and are started again, a state
\* file that can be read speaks of a committed receipt of its own deployment with
\* that receipt's outcome, and counts no cycle that left no receipt
\* (run_grid.py:40-103, run_rebalancer.py:40-87).
THEOREM StateFilesAreTrue == PaperSpec => []FileMatchesReceipts
<1>1. PaperInv => FileMatchesReceipts
  BY DEF PaperInv, FilesMatch, FileMatchesReceipts, Matches, Owned
<1> QED BY <1>1, InitPaperInv, NextPaperInv, PTL DEF PaperSpec

-----------------------------------------------------------------------------
(* When a script ends by itself.                                            *)

Places == {"stopped", "load", "creating", "cycle", "save", "saving", "sleep", "over", "failed"}

\* The breaker of the deployment whose turn it is has tripped.
ForReason(s) ==
  /\ Mine(s) \in Breaker
  /\ \E n \in DOMAIN receipts :
       /\ receipts[n].of = Mine(s) /\ receipts[n].dep = rec'[s][turn[s]].dep
       /\ receipts[n].halted

\* A step moves one script at most, each to a place of its own.
LEMMA OneMoves ==
  ASSUME at \in [Scripts -> Places], [PaperNext]_paperVars
  PROVE  at' \in [Scripts -> Places]
<1>1. CASE UNCHANGED paperVars
  BY <1>1 DEF paperVars
<1>2. ASSUME NEW s \in Scripts, StartScript(s) \/ ScriptStep(s) \/ Kill(s)
      PROVE  \E p \in Places : at' = [at EXCEPT ![s] = p]
  <2>1. CASE StartScript(s) \/ Kill(s)
    BY <2>1 DEF StartScript, Kill, Places
  <2>2. CASE Load(s) \/ Create(s) \/ Created(s) \/ LoadFails(s)
    BY <2>2 DEF Load, Create, Created, LoadFails, Loaded, Places
  <2>3. CASE SkipCycle(s) \/ HireFails(s) \/ Hire(s) \/ SaveFails(s)
    BY <2>3 DEF SkipCycle, HireFails, Hire, SaveFails, CycleOver, Places
  <2>4. CASE Truncate(s) \/ Save(s) \/ Wake(s)
    BY <2>4 DEF Truncate, Save, Wake, CycleOver, Places
  <2> QED BY <1>2, <2>1, <2>2, <2>3, <2>4 DEF ScriptStep
<1> QED BY <1>1, <1>2 DEF PaperNext

\* A record whose status is "halted" has the receipt that says why.
LEMMA HaltedHasReceipt ==
  ASSUME PaperInv, NEW d, NEW r, Matches(d, r, receipts), r.status = "halted"
  PROVE  /\ d \in Breaker
         /\ \E n \in DOMAIN receipts :
              receipts[n].of = d /\ receipts[n].dep = r.dep /\ receipts[n].halted
  BY DEF Matches, Owned

LEMMA EndsForReason ==
  ASSUME PaperInv, at \in [Scripts -> Places], PaperNext,
         NEW s \in Scripts, at[s] # "over", at'[s] = "over"
  PROVE  ForReason(s)
<1>0. PICK t \in Scripts : StartScript(t) \/ ScriptStep(t) \/ Kill(t)
  BY DEF PaperNext
<1>1. CASE Load(t)
  <2> DEFINE found == file[Mine(s)]
  <2>1. /\ t = s /\ Readable(Mine(s)) /\ UNCHANGED receipts
        /\ rec' = [rec EXCEPT ![s][turn[s]] = found] /\ found.status = "halted"
    BY <1>1 DEF Load, Loaded
  <2>2. Matches(Mine(s), found, receipts)
    BY <2>1, MyRecord DEF PaperInv, FilesMatch
  <2> HIDE DEF found
  <2>3. rec'[s][turn[s]] = found
    BY <2>1 DEF PaperInv, Shape
  <2> QED BY <2>1, <2>2, <2>3, HaltedHasReceipt DEF ForReason
<1>2. CASE Save(t)
  <2>1. t = s /\ rec[s][turn[s]].halted /\ UNCHANGED rec
    BY <1>2 DEF Save, CycleOver
  <2>2. Matches(Mine(s), rec[s][turn[s]], receipts)
    BY MyRecord
  <2>3. rec[s][turn[s]].status = "halted"
    BY <2>1, <2>2 DEF Matches
  <2> QED BY <2>1, <2>2, <2>3, HaltedHasReceipt DEF ForReason
<1>3. CASE StartScript(t) \/ Kill(t)
  BY <1>3 DEF StartScript, Kill
<1>4. CASE Create(t) \/ Created(t) \/ LoadFails(t)
  BY <1>4 DEF Create, Created, LoadFails, Loaded
<1>5. CASE SkipCycle(t) \/ HireFails(t) \/ Hire(t) \/ SaveFails(t)
  BY <1>5 DEF SkipCycle, HireFails, Hire, SaveFails, CycleOver
<1>6. CASE Truncate(t) \/ Wake(t)
  BY <1>6 DEF Truncate, Wake
<1> QED BY <1>0, <1>1, <1>2, <1>3, <1>4, <1>5, <1>6 DEF ScriptStep

\* An exception leaves a script only while it loads or creates a record.
LEMMA FailsLoading ==
  ASSUME at \in [Scripts -> Places], PaperNext,
         NEW s \in Scripts, at[s] # "failed", at'[s] = "failed"
  PROVE  at[s] \in {"load", "creating"}
<1>1. PICK t \in Scripts : StartScript(t) \/ ScriptStep(t) \/ Kill(t)
  BY DEF PaperNext
<1>2. CASE StartScript(t) \/ Kill(t)
  BY <1>2 DEF StartScript, Kill
<1>3. CASE Load(t) \/ Create(t) \/ Created(t) \/ LoadFails(t)
  BY <1>3 DEF Load, Create, Created, LoadFails, Loaded
<1>4. CASE SkipCycle(t) \/ HireFails(t) \/ Hire(t) \/ SaveFails(t)
  BY <1>4 DEF SkipCycle, HireFails, Hire, SaveFails, CycleOver
<1>5. CASE Truncate(t) \/ Save(t) \/ Wake(t)
  BY <1>5 DEF Truncate, Save, Wake, CycleOver
<1> QED BY <1>1, <1>2, <1>3, <1>4, <1>5 DEF ScriptStep

\* A script comes to its end only because the breaker of the deployment whose turn
\* it was has tripped, as a committed receipt of that deployment says (run_grid.py:
\* 96-101, 120-123), and an exception ends it only while it reads, parses or creates
\* a state file (run_grid.py:40-58, 119, run_rebalancer.py:37-53): no failing hire
\* and no failing save ends a script that cycles (run_grid.py:136-143,
\* run_rebalancer.py:117-124, run_paper_loops.py:46-58).
THEOREM ScriptsEndOnBreaker == PaperSpec => EndsOnBreaker
<1> DEFINE Placed == at \in [Scripts -> Places]
           Reasons == \A s \in Scripts :
             /\ at[s] # "over" /\ at'[s] = "over" => ForReason(s)
             /\ at[s] # "failed" /\ at'[s] = "failed" => at[s] \in {"load", "creating"}
<1>1. PaperInit => Placed
  BY DEF PaperInit, Places
<1>2. Placed /\ [PaperNext]_paperVars => Placed'
  BY OneMoves
<1>3. PaperInv /\ Placed /\ PaperNext => Reasons
  BY EndsForReason, FailsLoading
<1> HIDE DEF Placed, Reasons
<1>4. PaperSpec => [][Reasons]_paperVars
  BY <1>1, <1>2, <1>3, InitPaperInv, NextPaperInv, PTL DEF PaperSpec
<1> QED BY <1>4 DEF EndsOnBreaker, ForReason, Reasons
=============================================================================
