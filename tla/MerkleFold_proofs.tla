------------------------- MODULE MerkleFold_proofs -------------------------
(***************************************************************************)
(* Proofs about MerkleFold for batches of every size and leaves of every    *)
(* kind: a proof verifies for the leaf it was made for and for no other.    *)
(***************************************************************************)
EXTENDS MerkleFold, SequenceTheorems, WellFoundedInduction, TLAPS

\* Hashing is injective where it matters: with one side of the pair fixed, the
\* result tells the other side.
LEMMA HashPairDetermines ==
  ASSUME NEW a, NEW b, NEW c
  PROVE  HashPair(a, c) = HashPair(b, c) <=> a = b
BY DEF HashPair

\* The order of the two nodes does not matter, so a proof need not say which
\* side a sibling is on.
LEMMA HashPairCommutes ==
  ASSUME NEW a, NEW b
  PROVE  HashPair(a, b) = HashPair(b, a)
BY DEF HashPair

LEMMA WidthBounds ==
  ASSUME NEW n \in Nat \ {0}
  PROVE  /\ Width(n) \in Nat \ {0}
         /\ 2 * Width(n) = n \/ 2 * Width(n) = n + 1
         /\ \A i \in 1..n : Width(i) \in 1..Width(n)
         /\ \A i \in 1..Width(n) : 2 * i - 1 \in 1..n
BY DEF Width

\* A sequence over some set is one over its own elements.
LEMMA OwnElements ==
  ASSUME NEW S, NEW s \in Seq(S)
  PROVE  s \in Seq(Elements(s)) /\ \A i \in 1..Len(s) : s[i] \in Elements(s)
BY DEF Elements

\* The next level is a sequence of Width(Len(s)) nodes.
LEMMA NextLevelSeq ==
  ASSUME NEW S, NEW s \in Seq(S), s # <<>>
  PROVE  /\ NextLevel(s) \in Seq(Elements(NextLevel(s)))
         /\ Len(NextLevel(s)) = Width(Len(s))
         /\ NextLevel(s) # <<>>
<1>1. Len(s) \in Nat \ {0}
  BY EmptySeq
<1>2. Width(Len(s)) \in Nat \ {0}
  BY <1>1, WidthBounds
<1>3. \A i \in 1..Width(Len(s)) : NextLevel(s)[i] \in Elements(NextLevel(s))
  BY DEF NextLevel, Elements
<1>4. NextLevel(s) = [i \in 1..Width(Len(s)) |-> NextLevel(s)[i]]
  BY DEF NextLevel
<1>5. NextLevel(s) \in Seq(Elements(NextLevel(s)))
  BY <1>2, <1>3, <1>4
<1>6. Len(NextLevel(s)) = Width(Len(s))
  BY <1>2, <1>4
<1> QED BY <1>2, <1>5, <1>6

\* The node above position i is the hash of position i and its sibling,
\* whether i is a left child, a right child or an odd tail.
LEMMA SiblingHashes ==
  ASSUME NEW S, NEW s \in Seq(S), NEW i \in 1..Len(s)
  PROVE  NextLevel(s)[Width(i)] = HashPair(s[i], Sibling(s, i))
<1> DEFINE n == Len(s)
           j == Width(i)
<1>1. n \in Nat \ {0} /\ i \in Nat \ {0} /\ i <= n
  OBVIOUS
<1>2. j \in 1..Width(n)
  BY <1>1, WidthBounds
<1>3. NextLevel(s)[j] =
        HashPair(s[2 * j - 1], IF 2 * j <= n THEN s[2 * j] ELSE s[2 * j - 1])
  BY <1>2 DEF NextLevel
<1>4. CASE i % 2 = 1
  <2>1. 2 * j - 1 = i /\ 2 * j = i + 1
    BY <1>1, <1>4 DEF Width
  <2>2. CASE i = n
    BY <1>1, <1>3, <1>4, <2>1, <2>2 DEF Sibling
  <2>3. CASE i # n
    BY <1>1, <1>3, <1>4, <2>1, <2>3 DEF Sibling
  <2> QED BY <2>2, <2>3
<1>5. CASE i % 2 # 1
  <2>1. 2 * j = i /\ 2 * j - 1 = i - 1
    BY <1>1, <1>5 DEF Width
  <2>2. NextLevel(s)[j] = HashPair(s[i - 1], s[i])
    BY <1>1, <1>3, <2>1
  <2>3. Sibling(s, i) = s[i - 1]
    BY <1>5 DEF Sibling
  <2> QED BY <2>2, <2>3, HashPairCommutes
<1> QED BY <1>4, <1>5

LEMMA AppendOwn ==
  ASSUME NEW s, s \in Seq(Elements(s)), NEW x
  PROVE  /\ Append(s, x) \in Seq(Elements(Append(s, x)))
         /\ Len(s) \in Nat /\ Len(Append(s, x)) = Len(s) + 1
         /\ \A i \in 1..Len(s) : Append(s, x)[i] = s[i]
         /\ Append(s, x)[Len(s) + 1] = x
<1> DEFINE S == Elements(s) \cup {x}
<1>1. s \in Seq(S)
  BY LenProperties
<1>2. /\ Append(s, x) \in Seq(S)
      /\ Len(Append(s, x)) = Len(s) + 1
      /\ \A i \in 1..Len(s) : Append(s, x)[i] = s[i]
      /\ Append(s, x)[Len(s) + 1] = x
  BY <1>1, AppendProperties
<1>3. Append(s, x) \in Seq(Elements(Append(s, x)))
  BY <1>2, OwnElements
<1> QED BY <1>1, <1>2, <1>3, LenProperties

-----------------------------------------------------------------------------
LEMMA InitInv == Init => IndInv
<1> SUFFICES ASSUME Init PROVE IndInv
  OBVIOUS
<1>1. leaves \in Seq(Leaf) /\ leaves # <<>> /\ leaves \in LeafLists
  BY MerkleAssumption DEF Init
<1>2. Len(leaves) \in Nat \ {0} /\ target \in 1..Len(leaves)
  BY <1>1, EmptySeq DEF Init, FirstPositions
<1>3. level \in Seq(Elements(level)) /\ level = leaves
  BY <1>1, OwnElements DEF Init
<1>4. /\ path \in Seq(Elements(path)) /\ Len(path) = 1 /\ path[1] = leaves[target]
      /\ proof \in Seq(Elements(proof)) /\ Len(proof) = 0
  BY DEF Init, Elements
<1>5. TypeOK
  BY <1>1, <1>2, <1>3, <1>4 DEF Init, TypeOK
<1>6. PathHashes
  BY <1>3, <1>4 DEF Init, PathHashes
<1>7. OnPath
  BY <1>4 DEF Init, OnPath
<1> QED BY <1>5, <1>6, <1>7 DEF Init, IndInv

LEMMA ClimbInv ==
  ASSUME IndInv, Climb
  PROVE  IndInv'
<1>1. /\ TypeOK /\ PathHashes /\ OnPath /\ step = 0
  BY DEF IndInv, Climb
<1>2. /\ proof' = Append(proof, Sibling(level, idx))
      /\ path' = Append(path, HashPair(level[idx], Sibling(level, idx)))
      /\ level' = NextLevel(level)
  BY <1>1, SiblingHashes DEF Climb, TypeOK
<1>3. /\ proof' \in Seq(Elements(proof')) /\ Len(proof) \in Nat
      /\ Len(proof') = Len(proof) + 1
      /\ \A i \in 1..Len(proof) : proof'[i] = proof[i]
      /\ proof'[Len(proof) + 1] = Sibling(level, idx)
  BY <1>1, <1>2, AppendOwn DEF TypeOK
<1>4. /\ path' \in Seq(Elements(path'))
      /\ Len(path) = Len(proof) + 1 /\ Len(path') = Len(path) + 1
      /\ \A i \in 1..Len(path) : path'[i] = path[i]
      /\ path'[Len(path) + 1] = HashPair(level[idx], Sibling(level, idx))
  BY <1>1, <1>2, AppendOwn DEF TypeOK
<1>5. /\ level' \in Seq(Elements(level')) /\ level' # <<>>
      /\ Len(level') = Width(Len(level))
  BY <1>1, <1>2, NextLevelSeq DEF TypeOK
<1>6. idx' \in 1..Len(level') /\ level'[idx'] = HashPair(level[idx], Sibling(level, idx))
  <2>1. Len(level) \in Nat \ {0}
    BY <1>1, EmptySeq DEF TypeOK
  <2>2. idx' = Width(idx)
    BY DEF Climb
  <2>3. Width(idx) \in 1..Width(Len(level))
    BY <1>1, <2>1, WidthBounds DEF TypeOK
  <2>4. NextLevel(level)[Width(idx)] = HashPair(level[idx], Sibling(level, idx))
    BY <1>1, SiblingHashes DEF TypeOK
  <2> QED BY <1>2, <1>5, <2>2, <2>3, <2>4
<1>7. TypeOK'
  BY <1>1, <1>3, <1>4, <1>5, <1>6 DEF TypeOK, Climb
<1>8. PathHashes'
  <2>1. path'[1] = leaves'[target']
    BY <1>1, <1>3, <1>4 DEF PathHashes, Climb
  <2>2. path'[Len(path')] = level'[idx']
    BY <1>4, <1>6
  <2>3. ASSUME NEW k \in 1..Len(proof')
        PROVE  path'[k + 1] = HashPair(path'[k], proof'[k])
    <3>1. CASE k \in 1..Len(proof)
      BY <1>1, <1>3, <1>4, <3>1 DEF PathHashes
    <3>2. CASE k = Len(proof) + 1
      BY <1>1, <1>3, <1>4, <3>2 DEF PathHashes
    <3> QED BY <1>3, <3>1, <3>2
  <2> QED BY <2>1, <2>2, <2>3 DEF PathHashes
<1>9. OnPath'
  BY <1>1, <1>3, <1>4 DEF OnPath, Climb
<1> QED BY <1>7, <1>8, <1>9 DEF IndInv, Climb

LEMMA FoldInv ==
  ASSUME IndInv, Fold
  PROVE  IndInv'
<1>1. TypeOK /\ PathHashes /\ OnPath
  BY DEF IndInv
<1>2. step \in Nat /\ Len(proof) \in Nat /\ step + 1 \in 1..Len(proof)
  BY <1>1, LenProperties DEF TypeOK, Fold
<1>3. TypeOK'
  BY <1>1, <1>2 DEF TypeOK, Fold
<1>4. PathHashes'
  BY <1>1 DEF PathHashes, Fold
<1>5. OnPath'
  <2>1. path[step + 2] = HashPair(path[step + 1], proof[step + 1])
    BY <1>1, <1>2 DEF PathHashes
  <2>2. node' = path[step + 2] <=> node = path[step + 1]
    BY <2>1, HashPairDetermines DEF Fold
  <2> QED BY <1>1, <1>2, <2>2 DEF OnPath, Fold
<1> QED BY <1>3, <1>4, <1>5 DEF IndInv, Fold

LEMMA NextInv == IndInv /\ [Next]_vars => IndInv'
<1> SUFFICES ASSUME IndInv, [Next]_vars PROVE IndInv'
  OBVIOUS
<1>1. CASE Climb
  BY <1>1, ClimbInv
<1>2. CASE Fold
  BY <1>2, FoldInv
<1>3. CASE Publish
  <2>1. TypeOK' /\ PathHashes' /\ OnPath'
    BY <1>3 DEF IndInv, Publish, TypeOK, PathHashes, OnPath
  <2> QED BY <1>3, <2>1 DEF IndInv, Publish
<1>4. CASE Compare
  <2>1. TypeOK' /\ PathHashes' /\ OnPath'
    BY <1>4 DEF IndInv, Compare, TypeOK, PathHashes, OnPath
  <2> QED BY <1>4, <2>1 DEF IndInv, Compare
<1>5. CASE UNCHANGED vars
  BY <1>5 DEF vars, IndInv, TypeOK, PathHashes, OnPath
<1> QED BY <1>1, <1>2, <1>3, <1>4, <1>5 DEF Next

\* The nodes of the path stay chained by the collected siblings.
THEOREM Invariance == Spec => []IndInv
<1>1. Init => IndInv
  BY InitInv
<1>2. IndInv /\ [Next]_vars => IndInv'
  BY NextInv
<1> QED BY <1>1, <1>2, PTL DEF Spec

\* Types, and positions inside their levels: no index of merkle_proof is ever
\* out of range.
THEOREM TypeCorrect == Spec => []TypeOK
<1>1. IndInv => TypeOK
  BY DEF IndInv
<1> QED BY <1>1, Invariance, PTL

\* verify_proof accepts a receipt's own leaf and rejects every other leaf, in
\* batches of any size.
THEOREM ExactVerification == Spec => []VerifiesExactly
<1>1. IndInv => VerifiesExactly
  <2> SUFFICES ASSUME IndInv, phase = "done" PROVE Verified <=> claimed = leaves[target]
    BY DEF VerifiesExactly
  <2>1. /\ TypeOK /\ PathHashes /\ OnPath
        /\ Len(level) = 1 /\ step = Len(proof)
    BY DEF IndInv
  <2>2. path[step + 1] = Root
    BY <2>1 DEF TypeOK, PathHashes, Root
  <2> QED BY <2>1, <2>2 DEF OnPath, Verified
<1> QED BY <1>1, Invariance, PTL

-----------------------------------------------------------------------------
(* The root fixes the leaves. Induction goes over the levels; its two forms   *)
(* are stated with sets.                                                    *)

LEMMA LeastNumber ==
  ASSUME NEW S \in SUBSET Nat, S # {}
  PROVE  \E m \in S : \A n \in S : m <= n
<1>1. PICK m \in S : \A n \in S : ~ (<<n, m>> \in OpToRel(<, Nat))
  BY NatLessThanWellFounded, WFMin
<1>2. \A n \in S : ~ (n < m)
  BY <1>1 DEF OpToRel
<1> QED BY <1>2

LEMMA Upwards ==
  ASSUME NEW n \in Nat, NEW S, 0 \in S, \A k \in 1..n : k - 1 \in S => k \in S
  PROVE  0..n \subseteq S
<1> DEFINE bad == (0..n) \ S
<1>1. ASSUME bad # {} PROVE FALSE
  <2>1. bad \in SUBSET Nat
    OBVIOUS
  <2>2. PICK m \in bad : \A k \in bad : m <= k
    BY <1>1, <2>1, LeastNumber
  <2>3. m \in 1..n /\ m - 1 \in 0..n /\ ~ (m <= m - 1)
    BY <2>2
  <2> QED BY <2>2, <2>3
<1> QED BY <1>1

LEMMA Downwards ==
  ASSUME NEW n \in Nat, NEW S, n \in S, \A k \in 1..n : k \in S => k - 1 \in S
  PROVE  0 \in S
<1> DEFINE good == (0..n) \cap S
<1>1. good \in SUBSET Nat /\ good # {}
  OBVIOUS
<1>2. PICK m \in good : \A k \in good : m <= k
  BY <1>1, LeastNumber
<1>3. CASE m # 0
  <2>1. m \in 1..n /\ m - 1 \in 0..n /\ ~ (m <= m - 1)
    BY <1>3
  <2> QED BY <1>2, <2>1
<1> QED BY <1>2, <1>3

\* levels are the first n levels above s.
Climbs(levels, s, n) ==
  levels = [k \in 0..n |->
              IF k = 0 THEN s
              ELSE IF Len(levels[k - 1]) = 1 THEN levels[k - 1] ELSE NextLevel(levels[k - 1])]

LEMMA LevelsExist ==
  ASSUME NEW s, NEW n \in Nat
  PROVE  \E levels : Climbs(levels, s, n)
<1> DEFINE S == {k \in 0..n : \E levels : Climbs(levels, s, k)}
<1>1. 0 \in S
  <2> DEFINE f == [k \in 0..0 |-> s]
  <2>1. Climbs(f, s, 0)
    BY DEF Climbs
  <2> QED BY <2>1
<1>2. ASSUME NEW k \in 1..n, k - 1 \in S PROVE k \in S
  <2>1. PICK f : Climbs(f, s, k - 1)
    BY <1>2
  <2> DEFINE top == f[k - 1]
             g == [i \in 0..k |-> IF i = k THEN IF Len(top) = 1 THEN top ELSE NextLevel(top)
                                  ELSE f[i]]
  <2>2. \A i \in 0..k :
          g[i] = IF i = 0 THEN s
                 ELSE IF Len(g[i - 1]) = 1 THEN g[i - 1] ELSE NextLevel(g[i - 1])
    <3> SUFFICES ASSUME NEW i \in 0..k
                 PROVE  g[i] = IF i = 0 THEN s
                               ELSE IF Len(g[i - 1]) = 1 THEN g[i - 1] ELSE NextLevel(g[i - 1])
      OBVIOUS
    <3>1. CASE i = k
      <4>1. i # 0 /\ k - 1 \in 0..k /\ k - 1 # k
        BY <3>1
      <4>2. g[k - 1] = top
        BY <4>1
      <4> QED BY <3>1, <4>1, <4>2
    <3>2. CASE i # k
      <4>1. i \in 0..(k - 1) /\ (i # 0 => i - 1 \in 0..k /\ i - 1 # k)
        BY <3>2
      <4>2. g[i] = f[i] /\ (i # 0 => g[i - 1] = f[i - 1])
        BY <3>2, <4>1
      <4>3. f[i] = IF i = 0 THEN s
                   ELSE IF Len(f[i - 1]) = 1 THEN f[i - 1] ELSE NextLevel(f[i - 1])
        BY <2>1, <4>1 DEF Climbs
      <4> QED BY <4>2, <4>3
    <3> QED BY <3>1, <3>2
  <2>3. Climbs(g, s, k)
    <3>1. g = [i \in 0..k |-> g[i]]
      OBVIOUS
    <3> HIDE DEF g
    <3> QED BY <2>2, <3>1 DEF Climbs
  <2> QED BY <2>3
<1>3. 0..n \subseteq S
  BY <1>1, <1>2, Upwards
<1> QED BY <1>3

LEMMA LevelsClimb ==
  ASSUME NEW S, NEW s \in Seq(S)
  PROVE  /\ Levels(s)[0] = s
         /\ \A k \in 1..Len(s) :
              Levels(s)[k] = IF Len(Levels(s)[k - 1]) = 1 THEN Levels(s)[k - 1]
                             ELSE NextLevel(Levels(s)[k - 1])
<1> DEFINE levels[k \in 0..Len(s)] ==
             IF k = 0 THEN s
             ELSE IF Len(levels[k - 1]) = 1 THEN levels[k - 1] ELSE NextLevel(levels[k - 1])
<1>1. Len(s) \in Nat
  BY LenProperties
<1>2. PICK f : Climbs(f, s, Len(s))
  BY <1>1, LevelsExist
<1>3. levels = [k \in 0..Len(s) |->
                  IF k = 0 THEN s
                  ELSE IF Len(levels[k - 1]) = 1 THEN levels[k - 1]
                  ELSE NextLevel(levels[k - 1])]
  BY <1>2 DEF Climbs
<1>4. Levels(s) = levels
  BY DEF Levels
<1> HIDE DEF levels
<1>5. /\ levels[0] = s
      /\ \A k \in 1..Len(s) :
           levels[k] = IF Len(levels[k - 1]) = 1 THEN levels[k - 1]
                       ELSE NextLevel(levels[k - 1])
  BY <1>1, <1>3
<1> QED BY <1>4, <1>5

LEMMA OneOrMore == \A n \in Nat \ {0} : n # 1 <=> n > 1
  OBVIOUS

LEMMA WidthShrinks ==
  ASSUME NEW n \in Nat, n > 1
  PROVE  Width(n) + 1 <= n /\ Width(n) >= 1
BY DEF Width

\* Every level has nodes, and after Len(s) levels it has one.
LEMMA LevelsShrink ==
  ASSUME NEW S, NEW s \in Seq(S), s # <<>>
  PROVE  \A k \in 0..Len(s) :
           /\ Levels(s)[k] \in Seq(Elements(Levels(s)[k])) /\ Levels(s)[k] # <<>>
           /\ Len(Levels(s)[k]) \in Nat \ {0}
           /\ Len(Levels(s)[k]) = 1 \/ Len(Levels(s)[k]) + k <= Len(s)
<1> DEFINE n == Len(s)
           L == Levels(s)
           Good(k) == /\ L[k] \in Seq(Elements(L[k])) /\ L[k] # <<>>
                      /\ Len(L[k]) \in Nat \ {0}
                      /\ Len(L[k]) = 1 \/ Len(L[k]) + k <= n
           G == {k \in 0..n : Good(k)}
<1>1. n \in Nat \ {0} /\ s \in Seq(Elements(s))
  BY EmptySeq, LenProperties, OwnElements
<1>2. 0 \in G
  BY <1>1, LevelsClimb
<1>3. ASSUME NEW k \in 1..n, k - 1 \in G PROVE k \in G
  <2> DEFINE x == L[k - 1]
  <2>1. /\ x \in Seq(Elements(x)) /\ x # <<>>
        /\ Len(x) \in Nat \ {0} /\ (Len(x) = 1 \/ Len(x) + (k - 1) <= n)
    BY <1>3
  <2>2. L[k] = IF Len(x) = 1 THEN x ELSE NextLevel(x)
    BY LevelsClimb
  <2> HIDE DEF x
  <2>3. CASE Len(x) = 1
    <3>1. L[k] = x /\ k \in 0..n
      BY <1>1, <2>2, <2>3
    <3> QED BY <2>1, <2>3, <3>1
  <2>4. CASE Len(x) # 1
    <3>1. L[k] = NextLevel(x) /\ k \in 0..n
      BY <1>1, <2>2, <2>4
    <3>2. /\ NextLevel(x) \in Seq(Elements(NextLevel(x)))
          /\ Len(NextLevel(x)) = Width(Len(x)) /\ NextLevel(x) # <<>>
      BY <2>1, NextLevelSeq
    <3>3. Width(Len(x)) \in Nat \ {0} /\ Width(Len(x)) + 1 <= Len(x)
      <4>1. Len(x) \in Nat \ {0} /\ Len(x) > 1
        BY <2>1, <2>4, OneOrMore
      <4>2. Width(Len(x)) \in Nat \ {0}
        BY <4>1, WidthBounds
      <4> QED BY <4>1, <4>2, WidthShrinks
    <3>4. Width(Len(x)) + k <= n
      BY <1>1, <2>1, <2>4, <3>3
    <3> QED BY <3>1, <3>2, <3>3, <3>4
  <2> QED BY <2>3, <2>4
<1> HIDE DEF G
<1>4. 0..n \subseteq G
  BY <1>1, <1>2, <1>3, Upwards
<1> QED BY <1>4 DEF G

\* Batches of one size have levels of one width.
LEMMA SameWidths ==
  ASSUME NEW S, NEW s \in Seq(S), s # <<>>, NEW t \in Seq(S), Len(t) = Len(s)
  PROVE  \A k \in 0..Len(s) : Len(Levels(s)[k]) = Len(Levels(t)[k])
<1> DEFINE n == Len(s)
           L == Levels(s)
           M == Levels(t)
           G == {k \in 0..n : Len(L[k]) = Len(M[k])}
<1>1. n \in Nat \ {0} /\ t # <<>>
  BY EmptySeq, LenProperties
<1>2. 0 \in G
  BY <1>1, LevelsClimb
<1>3. ASSUME NEW k \in 1..n, k - 1 \in G PROVE k \in G
  <2> DEFINE x == L[k - 1]
             y == M[k - 1]
  <2>1. x \in Seq(Elements(x)) /\ x # <<>> /\ y \in Seq(Elements(y)) /\ y # <<>>
    <3>1. k - 1 \in 0..n
      BY <1>1
    <3> QED BY <1>1, <3>1, LevelsShrink
  <2>2. L[k] = (IF Len(x) = 1 THEN x ELSE NextLevel(x))
        /\ M[k] = (IF Len(y) = 1 THEN y ELSE NextLevel(y))
    BY LevelsClimb
  <2>3. Len(x) = Len(y) /\ k \in 0..n
    BY <1>1, <1>3
  <2> HIDE DEF x, y
  <2>4. Len(NextLevel(x)) = Len(NextLevel(y))
    BY <2>1, <2>3, NextLevelSeq
  <2> QED BY <2>2, <2>3, <2>4
<1> HIDE DEF G
<1>4. 0..n \subseteq G
  BY <1>1, <1>2, <1>3, Upwards
<1> QED BY <1>4 DEF G

\* The level above holds the nodes of s, two by two.
LEMMA NextLevelCovers ==
  ASSUME NEW S, NEW s \in Seq(S), s # <<>>
  PROVE  Elements(s) = UNION Elements(NextLevel(s))
<1> DEFINE n == Len(s)
           N == NextLevel(s)
<1>1. n \in Nat \ {0} /\ DOMAIN s = 1..n
  BY EmptySeq, LenProperties
<1>2. DOMAIN N = 1..Width(n)
  BY DEF NextLevel
<1>3. ASSUME NEW i \in 1..n PROVE Width(i) \in DOMAIN N /\ s[i] \in N[Width(i)]
  BY <1>1, <1>2, WidthBounds, SiblingHashes DEF HashPair
<1>4. ASSUME NEW j \in DOMAIN N PROVE N[j] \subseteq Elements(s)
  <2>1. 2 * j - 1 \in 1..n
    BY <1>1, <1>2, WidthBounds
  <2>2. N[j] = HashPair(s[2 * j - 1], IF 2 * j <= n THEN s[2 * j] ELSE s[2 * j - 1])
    BY <1>2 DEF NextLevel
  <2>3. 2 * j <= n => 2 * j \in 1..n
    BY <1>2, <2>1
  <2> QED BY <1>1, <2>1, <2>2, <2>3 DEF HashPair, Elements
<1> HIDE DEF N
<1>5. Elements(s) \subseteq UNION Elements(N)
  BY <1>1, <1>3 DEF Elements
<1>6. UNION Elements(N) \subseteq Elements(s)
  BY <1>4 DEF Elements
<1> QED BY <1>5, <1>6 DEF N

\* Two batches of one size with the same root have the same leaves.
LEMMA RootTellsLeaves ==
  ASSUME NEW S, NEW s \in Seq(S), s # <<>>, NEW t \in Seq(S), Len(t) = Len(s),
         RootOf(s) = RootOf(t)
  PROVE  Elements(s) = Elements(t)
<1> DEFINE n == Len(s)
           L == Levels(s)
           M == Levels(t)
           G == {k \in 0..n : Elements(L[k]) = Elements(M[k])}
<1>1. n \in Nat \ {0} /\ t # <<>>
  BY EmptySeq, LenProperties
<1>2. \A k \in 0..n :
        /\ L[k] \in Seq(Elements(L[k])) /\ L[k] # <<>>
        /\ M[k] \in Seq(Elements(M[k])) /\ M[k] # <<>>
        /\ Len(L[k]) = Len(M[k])
  <2>1. \A k \in 0..n : L[k] \in Seq(Elements(L[k])) /\ L[k] # <<>>
    BY LevelsShrink
  <2>2. \A k \in 0..n : M[k] \in Seq(Elements(M[k])) /\ M[k] # <<>>
    BY <1>1, LevelsShrink
  <2>3. \A k \in 0..n : Len(L[k]) = Len(M[k])
    BY SameWidths
  <2> QED BY <2>1, <2>2, <2>3
<1>3. n \in G
  <2>1. n \in 0..n /\ Len(L[n]) = 1
    <3>1. n \in 0..n
      BY <1>1
    <3>2. Len(L[n]) \in Nat \ {0} /\ (Len(L[n]) = 1 \/ Len(L[n]) + n <= n)
      BY <3>1, LevelsShrink
    <3> HIDE DEF n, L
    <3> QED BY <1>1, <3>1, <3>2
  <2>2. Len(M[n]) = 1 /\ L[n] \in Seq(Elements(L[n])) /\ M[n] \in Seq(Elements(M[n]))
    BY <1>2, <2>1
  <2>3. L[n][1] = M[n][1]
    BY DEF RootOf
  <2>4. DOMAIN L[n] = {1} /\ DOMAIN M[n] = {1}
    BY <2>1, <2>2
  <2> QED BY <2>1, <2>3, <2>4 DEF Elements
<1>4. ASSUME NEW k \in 1..n, k \in G PROVE k - 1 \in G
  <2> DEFINE x == L[k - 1]
             y == M[k - 1]
  <2>1. k - 1 \in 0..n
    BY <1>1
  <2>2. /\ x \in Seq(Elements(x)) /\ x # <<>> /\ y \in Seq(Elements(y)) /\ y # <<>>
        /\ Len(x) = Len(y)
    BY <1>2, <2>1
  <2>3. L[k] = (IF Len(x) = 1 THEN x ELSE NextLevel(x))
        /\ M[k] = (IF Len(y) = 1 THEN y ELSE NextLevel(y))
    BY LevelsClimb
  <2>4. Elements(L[k]) = Elements(M[k])
    BY <1>4
  <2> HIDE DEF x, y
  <2>5. Elements(x) = Elements(y)
    BY <2>2, <2>3, <2>4, NextLevelCovers
  <2> QED BY <2>1, <2>5 DEF x, y
<1> HIDE DEF G
<1>5. 0 \in G
  BY <1>1, <1>3, <1>4, Downwards
<1> QED BY <1>1, <1>5, LevelsClimb DEF G

\* The proof's level is that of merkle_root.
Climbed == Len(proof) \in 0..Len(leaves) /\ level = Levels(leaves)[Len(proof)]

LEMMA ClimbClimbed == ASSUME IndInv, Climbed, Climb PROVE Climbed'
<1>1. /\ leaves \in Seq(Leaf) /\ leaves # <<>>
      /\ proof \in Seq(Elements(proof)) /\ Len(level) > 1
  BY MerkleAssumption DEF IndInv, TypeOK, Climb
<1>2. Len(proof) \in 0..Len(leaves) /\ level = Levels(leaves)[Len(proof)]
  BY DEF Climbed
<1>3. Len(level) \in Nat /\ Len(level) + Len(proof) <= Len(leaves) /\ Len(leaves) \in Nat
  <2>1. /\ Len(level) \in Nat \ {0}
        /\ Len(level) = 1 \/ Len(level) + Len(proof) <= Len(leaves)
    BY <1>1, <1>2, LevelsShrink
  <2>2. Len(level) # 1
    BY <1>1, <2>1, OneOrMore
  <2> QED BY <1>1, <2>1, <2>2, LenProperties
<1>4. Len(proof') = Len(proof) + 1 /\ Len(proof) \in Nat
  BY <1>1, AppendOwn DEF Climb
<1>5. Len(proof) + 1 \in 1..Len(leaves) /\ Len(level) # 1
  <2> DEFINE w == Len(level)
             p == Len(proof)
             n == Len(leaves)
  <2>1. w \in Nat /\ p \in Nat /\ n \in Nat /\ w + p <= n /\ w > 1
    BY <1>1, <1>3, <1>4
  <2> HIDE DEF w, p, n
  <2>2. p + 1 \in 1..n /\ w # 1
    BY <2>1
  <2> QED BY <2>2 DEF w, p, n
<1>6. Levels(leaves)[Len(proof) + 1] = NextLevel(level)
  <2>1. (Len(proof) + 1) - 1 = Len(proof)
    BY <1>4
  <2> QED BY <1>1, <1>2, <1>5, <2>1, LevelsClimb
<1> QED BY <1>4, <1>5, <1>6 DEF Climb, Climbed

LEMMA StaysClimbed == IndInv /\ Climbed /\ [Next]_vars => Climbed'
<1> SUFFICES ASSUME IndInv, Climbed, [Next]_vars PROVE Climbed'
  OBVIOUS
<1>1. CASE Climb
  BY <1>1, ClimbClimbed
<1>2. CASE Publish \/ Fold \/ Compare \/ UNCHANGED vars
  BY <1>2 DEF Publish, Fold, Compare, vars, Climbed
<1> QED BY <1>1, <1>2 DEF Next

\* The one node left is the root that merkle_root computes.
LEMMA RootIsRoot ==
  ASSUME IndInv, Climbed, Len(level) = 1
  PROVE  Root = RootOf(leaves)
<1> DEFINE n == Len(leaves)
           p == Len(proof)
           L == Levels(leaves)
           G == {k \in 0..n : k >= p => L[k] = level}
<1>1. leaves \in Seq(Leaf) /\ n \in Nat /\ p \in 0..n /\ L[p] = level
  BY MerkleAssumption, LenProperties DEF IndInv, TypeOK, Climbed
<1> HIDE DEF n, p, L
<1>2. 0 \in G
  BY <1>1
<1>3. ASSUME NEW k \in 1..n, k - 1 \in G PROVE k \in G
  <2>1. L[k] = IF Len(L[k - 1]) = 1 THEN L[k - 1] ELSE NextLevel(L[k - 1])
    BY <1>1, LevelsClimb DEF L, n
  <2>2. CASE k > p
    <3>1. k - 1 >= p
      BY <1>1, <2>2
    <3>2. L[k - 1] = level
      BY <1>3, <3>1
    <3> QED BY <1>1, <2>1, <3>2
  <2>3. CASE k <= p
    <3>1. k >= p => k = p
      BY <1>1, <2>3
    <3> QED BY <1>1, <3>1
  <2> QED BY <1>1, <2>2, <2>3
<1> HIDE DEF G
<1>4. 0..n \subseteq G
  BY <1>1, <1>2, <1>3, Upwards
<1>5. L[n] = level
  BY <1>1, <1>4 DEF G
<1> QED BY <1>5 DEF L, n, Root, RootOf

\* The root and the count that go on the chain fix the set of leaves of the batch,
\* for batches of every size: no other receipts of the same number could later be
\* passed off as the anchored ones (anchor.py:44-56, 131-132).
THEOREM AnchorFixesLeaves == Spec => []RootFixesLeaves
<1>1. Init => Climbed
  <2> SUFFICES ASSUME Init PROVE Climbed
    OBVIOUS
  <2>1. leaves \in Seq(Leaf) /\ level = leaves /\ Len(proof) = 0
    BY MerkleAssumption DEF Init
  <2> QED BY <2>1, LevelsClimb, LenProperties DEF Climbed
<1>2. IndInv /\ Climbed => RootFixesLeaves
  <2> SUFFICES ASSUME IndInv, Climbed, phase = "done", NEW other \in LeafLists,
                      Len(other) = Len(leaves), RootOf(other) = Root
               PROVE  Elements(other) = Elements(leaves)
    BY DEF RootFixesLeaves
  <2>1. leaves \in Seq(Leaf) /\ leaves # <<>> /\ other \in Seq(Leaf)
    BY MerkleAssumption DEF IndInv, TypeOK
  <2>2. Root = RootOf(leaves)
    BY RootIsRoot DEF IndInv
  <2> QED BY <2>1, <2>2, RootTellsLeaves
<1> QED BY <1>1, <1>2, StaysClimbed, Invariance, PTL DEF Spec
=============================================================================
