--------------------------- MODULE ListingProofs ---------------------------
(***************************************************************************)
(* Theorems about Listing, for every cluster, any number of changes and    *)
(* every order of the answers.                                             *)
(***************************************************************************)
EXTENDS Listing, FilteringProofs, FiniteSetTheorems

-----------------------------------------------------------------------------
(***************************************************************************)
(* The rows of one answer.                                                 *)
(***************************************************************************)
\* Sorting the entries of an answer, whatever order they came in, yields the same
\* entries with ascending names.
LEMMA SortedByName ==
  ASSUME NEW S \in SUBSET Rows, IsFiniteSet(S),
         \A r, q \in S : r.name = q.name => r = q,
         NEW e \in SetToSeqs(S)
  PROVE  LET s == sortByName(e)
         IN  /\ s \in Seq(Rows)
             /\ Range(s) = S
             /\ \A i, j \in DOMAIN s : i < j => s[i].name < s[j].name
<1> DEFINE n == Cardinality(S)
           lesser(r) == {q \in S : q.name < r.name}
           rank == [r \in S |-> Cardinality(lesser(r))]
<1>1. /\ n \in Nat /\ \A r \in S : r.name \in Nat
      /\ e \in [1..n -> S] /\ \A i, j \in 1..n : i # j => e[i] # e[j]
  BY FS_CardinalityType, ListingAssumption DEF ListingAssumption, Rows, SetToSeqs
<1>2. Len(e) = n /\ Range(e) = S
  <2>1. e \in Injection(1..n, S)
    BY <1>1 DEF Injection, IsInjective
  <2>2. Cardinality(1..n) = n
    BY <1>1, FS_Interval
  <2>3. e \in Surjection(1..n, S)
    BY <2>1, <2>2, FS_Injection
  <2>4. Range(e) = S
    BY <1>1, <2>3 DEF Surjection, Range
  <2>5. e \in Seq(S)
    BY <1>1
  <2> QED  BY <1>1, <2>4, <2>5
<1>3. \A r \in S : IsFiniteSet(lesser(r)) /\ rank[r] \in Nat /\ rank[r] < n
  <2> SUFFICES ASSUME NEW r \in S PROVE IsFiniteSet(lesser(r)) /\ rank[r] \in Nat /\ rank[r] < n
    OBVIOUS
  <2>1. lesser(r) \in SUBSET (S \ {r})
    BY <1>1
  <2>2. IsFiniteSet(S \ {r}) /\ Cardinality(S \ {r}) = n - 1
    BY FS_RemoveElement
  <2>3. IsFiniteSet(lesser(r)) /\ Cardinality(lesser(r)) <= n - 1
    BY <2>1, <2>2, FS_Subset
  <2>4. Cardinality(lesser(r)) \in Nat
    BY <2>3, FS_CardinalityType
  <2> HIDE DEF n
  <2>5. Cardinality(lesser(r)) < n
    BY <1>1, <2>3, <2>4
  <2> QED  BY <2>3, <2>4, <2>5
<1>13. /\ \A r \in S : rank[r] \in Nat
       /\ \A r \in S : rank[r] < n
  <2> HIDE DEF rank, lesser, n
  <2> QED  BY <1>3
<1>14. /\ \A r \in S : rank[r] \in Int
       /\ \A r \in S : r.name \in Int
  <2> HIDE DEF rank, n
  <2> QED  BY <1>1, <1>13
<1>4. \A r, q \in S : q.name < r.name => rank[q] < rank[r]
  <2> SUFFICES ASSUME NEW r \in S, NEW q \in S, q.name < r.name PROVE rank[q] < rank[r]
    OBVIOUS
  <2>1. lesser(q) \in SUBSET lesser(r)
    BY <1>1
  <2>2. q \in lesser(r) /\ q \notin lesser(q)
    BY <1>1
  <2>3. Cardinality(lesser(q)) <= Cardinality(lesser(r))
        /\ Cardinality(lesser(r)) # Cardinality(lesser(q))
    BY <1>3, <2>1, <2>2, FS_Subset
  <2>4. rank[q] \in Nat /\ rank[r] \in Nat
    BY <1>1, <1>3
  <2> QED  BY <2>3, <2>4
<1>5. \A r, q \in S : rank[q] < rank[r] => q.name < r.name
  <2> HIDE DEF rank
  <2> QED  BY <1>4, <1>14
<1>6. \A r, q \in S : rank[q] = rank[r] => q = r
  <2> HIDE DEF rank
  <2> QED  BY <1>4, <1>14
<1>7. \A i \in 1..n : \E r \in S : rank[r] = i - 1
  <2> HIDE DEF rank
  <2>1. rank \in Injection(S, 0..(n - 1))
    <3>1. rank \in [S -> 0..(n - 1)]
      <4>1. \A r \in S : rank[r] \in 0..(n - 1)
        <5> HIDE DEF n
        <5> QED  BY <1>1, <1>13
      <4> QED  BY <4>1 DEF rank
    <3> QED  BY <1>6, <3>1 DEF Injection, IsInjective
  <2>2. IsFiniteSet(0..(n - 1)) /\ Cardinality(0..(n - 1)) = n
    <3>1. 0 \in Int /\ n - 1 \in Int
      BY <1>1
    <3>2. Cardinality(0..(n - 1)) = IF 0 > n - 1 THEN 0 ELSE (n - 1) - 0 + 1
      BY <3>1, FS_Interval
    <3> QED  BY <1>1, <3>1, <3>2, FS_Interval
  <2>3. rank \in Surjection(S, 0..(n - 1))
    BY <2>1, <2>2, FS_Injection
  <2>4. \A i \in 1..n : i - 1 \in 0..(n - 1)
    BY <1>1
  <2> QED  BY <2>3, <2>4 DEF Surjection
<1> DEFINE s == sortByName(e)
<1>8. DOMAIN s = 1..n /\ \A i \in 1..n : s[i] = CHOOSE r \in S : Cardinality(lesser(r)) = i - 1
  BY <1>2 DEF sortByName
<1>9. s \in [1..n -> S] /\ \A i \in 1..n : rank[s[i]] = i - 1
  <2>1. \A i \in 1..n : \E r \in S : Cardinality(lesser(r)) = i - 1
    BY <1>7
  <2>2. \A i \in 1..n : s[i] \in S /\ Cardinality(lesser(s[i])) = i - 1
    BY <1>8, <2>1
  <2>3. s = [i \in 1..n |-> CHOOSE r \in S : Cardinality(lesser(r)) = i - 1]
    BY <1>2 DEF sortByName
  <2> QED  BY <1>8, <2>2, <2>3
<1> HIDE DEF s, rank
<1>10. s \in Seq(Rows)
  BY <1>1, <1>9
<1>11. Range(s) = S
  <2>1. ASSUME NEW r \in S PROVE r \in Range(s)
    <3>1. rank[r] + 1 \in 1..n /\ (rank[r] + 1) - 1 = rank[r]
      <4> HIDE DEF n
      <4> QED  BY <1>1, <1>13
    <3>2. s[rank[r] + 1] = r
      BY <1>6, <1>9, <3>1
    <3> QED  BY <1>9, <3>1, <3>2 DEF Range
  <2> QED  BY <1>9, <2>1 DEF Range
<1>12. ASSUME NEW i \in DOMAIN s, NEW j \in DOMAIN s, i < j PROVE s[i].name < s[j].name
  BY <1>1, <1>5, <1>9, <1>12
<1> QED  BY <1>10, <1>11, <1>12 DEF s

\* ListAliases counts, for every alias, the indices that have it: a fold over a
\* set counts its members whatever order it takes them in.
LEMMA AliasCounts ==
  ASSUME aliasesOf \in [Indices -> SUBSET Names]
  PROVE  aliasCounts = [n \in Names |-> Cardinality({i \in Indices : n \in aliasesOf[i]})]
<1> DEFINE having(s, n) == {i \in s : n \in aliasesOf[i]}
           count(s) == [n \in Names |-> Cardinality(having(s, n))]
           zero == [n \in Names |-> 0]
           op(i, c) == [n \in Names |-> IF n \in aliasesOf[i] THEN c[n] + 1 ELSE c[n]]
           pick(s) == CHOOSE x \in s : TRUE
           rec(f, s) == IF s = {} THEN zero ELSE op(pick(s), f[s \ {pick(s)}])
           iter == CHOOSE f : f = [s \in SUBSET Indices |-> rec(f, s)]
           W == [s \in SUBSET Indices |-> count(s)]
<1>1. aliasCounts = iter[Indices]
  BY DEF aliasCounts, FoldSet, MapThenFoldSet
<1>2. IsFiniteSet(Indices) /\ \A s \in SUBSET Indices : IsFiniteSet(s)
  BY FS_Subset, ListingAssumption DEF ListingAssumption
<1>3. count({}) = zero
  <2>1. \A n : having({}, n) = {}
    OBVIOUS
  <2> QED  BY <2>1, FS_EmptySet
<1>4. ASSUME NEW s \in SUBSET Indices, NEW x \in s
      PROVE  count(s) = op(x, count(s \ {x}))
  <2>1. ASSUME NEW n \in Names
        PROVE  Cardinality(having(s, n)) = IF n \in aliasesOf[x]
                                           THEN Cardinality(having(s \ {x}, n)) + 1
                                           ELSE Cardinality(having(s \ {x}, n))
    <3>1. having(s \ {x}, n) \in SUBSET Indices /\ x \notin having(s \ {x}, n)
      OBVIOUS
    <3>2. IsFiniteSet(having(s \ {x}, n))
      BY <1>2, <3>1
    <3>3. having(s, n) = IF n \in aliasesOf[x] THEN having(s \ {x}, n) \cup {x}
                                               ELSE having(s \ {x}, n)
      OBVIOUS
    <3> HIDE DEF having
    <3> QED  BY <3>1, <3>2, <3>3, FS_AddElement
  <2> HIDE DEF having
  <2> QED  BY <2>1
<1>5. ASSUME NEW s \in SUBSET Indices, s # {} PROVE pick(s) \in s
  BY <1>5
<1>6. W = [s \in SUBSET Indices |-> rec(W, s)]
  <2>1. ASSUME NEW s \in SUBSET Indices PROVE count(s) = rec(W, s)
    <3>1. CASE s = {}
      <4> HIDE DEF count, zero, op
      <4> QED  BY <1>3, <3>1
    <3>2. CASE s # {}
      <4> HIDE DEF count, zero, op, pick
      <4>1. pick(s) \in s /\ s \ {pick(s)} \in SUBSET Indices
        BY <1>5, <3>2
      <4>2. W[s \ {pick(s)}] = count(s \ {pick(s)})
        BY <4>1
      <4> QED  BY <1>4, <3>2, <4>1, <4>2
    <3> QED  BY <3>1, <3>2
  <2> HIDE DEF count, rec
  <2> QED  BY <2>1
<1>7. iter = [s \in SUBSET Indices |-> rec(iter, s)]
  <2> HIDE DEF rec, W
  <2>1. \E f : f = [s \in SUBSET Indices |-> rec(f, s)]
    BY <1>6
  <2> QED  BY <2>1
<1> HIDE DEF iter
<1>8. \A s \in SUBSET Indices : iter[s] = rec(iter, s)
  <2> HIDE DEF rec
  <2> QED  BY <1>7
<1> DEFINE T == {m \in Nat : \A s \in SUBSET Indices : Cardinality(s) = m => iter[s] = count(s)}
<1>9. 0 \in T
  <2> SUFFICES ASSUME NEW s \in SUBSET Indices, Cardinality(s) = 0 PROVE iter[s] = count(s)
    OBVIOUS
  <2>1. s = {}
    BY <1>2, FS_EmptySet
  <2> HIDE DEF count, zero, op
  <2> QED  BY <1>3, <1>8, <2>1
<1>10. ASSUME NEW m \in Nat, m \in T PROVE m + 1 \in T
  <2> SUFFICES ASSUME NEW s \in SUBSET Indices, Cardinality(s) = m + 1 PROVE iter[s] = count(s)
    OBVIOUS
  <2>1. s # {}
    BY FS_EmptySet
  <2>2. pick(s) \in s /\ s \ {pick(s)} \in SUBSET Indices
    BY <1>5, <2>1
  <2> HIDE DEF count, zero, op, pick
  <2>3. Cardinality(s \ {pick(s)}) = m
    <3>1. Cardinality(s \ {pick(s)}) = Cardinality(s) - 1
      BY <1>2, <2>2, FS_RemoveElement
    <3> QED  BY <3>1
  <2>4. iter[s \ {pick(s)}] = count(s \ {pick(s)})
    BY <1>10, <2>2, <2>3
  <2>5. iter[s] = op(pick(s), iter[s \ {pick(s)}])
    BY <1>8, <2>1
  <2> QED  BY <1>4, <2>2, <2>4, <2>5
<1>11. T = Nat
  <2> HIDE DEF T
  <2> QED  BY <1>9, <1>10, NatSetInduction DEF T
<1>12. iter[Indices] = count(Indices)
  <2>1. Cardinality(Indices) \in Nat
    BY <1>2, FS_CardinalityType
  <2> HIDE DEF count
  <2> QED  BY <1>11, <2>1
<1> QED  BY <1>1, <1>12

\* The rows of an answer are those that are true of the cluster: finitely many,
\* no two of one name.
LEMMA AliasRows ==
  ASSUME aliasesOf \in [Indices -> SUBSET Names]
  PROVE  /\ aliasRows = AliasTruth
         /\ aliasRows \in SUBSET Rows
         /\ \A r \in aliasRows : r.type = "alias"
         /\ IsFiniteSet(aliasRows)
         /\ \A r, q \in aliasRows : r.name = q.name => r = q
<1> DEFINE having(n) == {i \in Indices : n \in aliasesOf[i]}
           c == [n \in Names |-> Cardinality(having(n))]
           M == {m \in Names : c[m] > 0}
<1>1. aliasRows = {Row(n, "alias", c[n]) : n \in M}
  BY AliasCounts DEF aliasRows
<1>2. IsFiniteSet(Indices) /\ IsFiniteSet(Names)
  BY ListingAssumption DEF ListingAssumption
<1>3. ASSUME NEW n \in Names
      PROVE  c[n] \in Nat /\ (c[n] > 0 <=> n \in UNION {aliasesOf[i] : i \in Indices})
  <2>1. having(n) \in SUBSET Indices
    OBVIOUS
  <2>2. IsFiniteSet(having(n))
    BY <1>2, <2>1, FS_Subset
  <2>3. Cardinality(having(n)) \in Nat /\ (Cardinality(having(n)) = 0 <=> having(n) = {})
    <3> HIDE DEF having
    <3> QED  BY <2>2, FS_CardinalityType, FS_EmptySet
  <2>4. having(n) # {} <=> n \in UNION {aliasesOf[i] : i \in Indices}
    OBVIOUS
  <2>5. c[n] = Cardinality(having(n))
    OBVIOUS
  <2> HIDE DEF having, c
  <2> QED  BY <2>3, <2>4, <2>5
<1>4. M = UNION {aliasesOf[i] : i \in Indices}
  <2>1. UNION {aliasesOf[i] : i \in Indices} \subseteq Names
    OBVIOUS
  <2> HIDE DEF c
  <2> QED  BY <1>3, <2>1
<1>5. aliasRows = AliasTruth
  <2>1. \A n \in M : c[n] = Cardinality(having(n))
    OBVIOUS
  <2> HIDE DEF M
  <2> QED  BY <1>1, <1>4, <2>1 DEF AliasTruth
<1>6. IsFiniteSet(M) /\ M \in SUBSET Names
  BY <1>2, FS_Subset
<1> HIDE DEF c, M
<1>7. aliasRows \in SUBSET Rows
  BY <1>1, <1>3, <1>6 DEF Row, Rows
<1> DEFINE f == [n \in M |-> Row(n, "alias", c[n])]
<1>8. f \in Surjection(M, aliasRows)
  BY <1>1 DEF Surjection
<1>9. IsFiniteSet(aliasRows)
  <2> HIDE DEF f
  <2> QED  BY <1>6, <1>8, FS_Surjection
<1>10. \A r, q \in aliasRows : r.name = q.name => r = q
  BY <1>1 DEF Row
<1>11. \A r \in aliasRows : r.type = "alias"
  BY <1>1 DEF Row
<1> QED  BY <1>5, <1>7, <1>9, <1>10, <1>11

\* Likewise for the data streams.
LEMMA StreamRows ==
  ASSUME backing \in [Names -> Nat]
  PROVE  /\ streamRows \in SUBSET Rows
         /\ \A r \in streamRows : r.type = "datastream"
         /\ IsFiniteSet(streamRows)
         /\ \A r, q \in streamRows : r.name = q.name => r = q
<1> DEFINE M == {m \in Names : backing[m] > 0}
           f == [n \in M |-> Row(n, "datastream", backing[n])]
<1>1. IsFiniteSet(M) /\ M \in SUBSET Names
  BY FS_Subset, ListingAssumption DEF ListingAssumption
<1>2. streamRows = {Row(n, "datastream", backing[n]) : n \in M}
  BY DEF streamRows
<1> HIDE DEF M
<1>3. f \in Surjection(M, streamRows)
  BY <1>2 DEF Surjection
<1>4. IsFiniteSet(streamRows)
  <2> HIDE DEF f
  <2> QED  BY <1>1, <1>3, FS_Surjection
<1> QED  BY <1>1, <1>2, <1>4 DEF Row, Rows

-----------------------------------------------------------------------------
(***************************************************************************)
(* Types.                                                                  *)
(***************************************************************************)
ClusterTypes == aliasesOf \in [Indices -> SUBSET Names] /\ backing \in [Names -> Nat]

\* What is true of the cluster at a moment are rows.
LEMMA TruthRows == ClusterTypes => Truth \in SUBSET Rows
<1> SUFFICES ASSUME ClusterTypes PROVE Truth \in SUBSET Rows
  OBVIOUS
<1> QED  BY AliasRows, StreamRows DEF ClusterTypes, Truth

\* In the last moment the aliases are the rows ListAliases returns, and the data
\* streams those of ListDataStreams.
LEMMA TruthByType ==
  ASSUME ClusterTypes
  PROVE  OfType(Truth, "alias") = aliasRows /\ OfType(Truth, "datastream") = streamRows
<1>1. /\ Truth = aliasRows \cup streamRows
      /\ \A r \in aliasRows : r.type = "alias"
      /\ \A r \in streamRows : r.type = "datastream"
  BY AliasRows, StreamRows DEF ClusterTypes, Truth
<1> QED  BY <1>1 DEF OfType

\* The entries of either answer, sorted.
LEMMA AnswerSorted ==
  ASSUME ClusterTypes, NEW S, S = aliasRows \/ S = streamRows, NEW e \in SetToSeqs(S)
  PROVE  /\ sortByName(e) \in Seq(Rows)
         /\ Range(sortByName(e)) = S
         /\ IsListed(sortByName(e))
<1>1. /\ S \in SUBSET Rows /\ IsFiniteSet(S)
      /\ \A r, q \in S : r.name = q.name => r = q
      /\ \A r, q \in S : r.type = q.type
  BY AliasRows, StreamRows DEF ClusterTypes
<1> DEFINE s == sortByName(e)
<1>2. /\ s \in Seq(Rows) /\ Range(s) = S
      /\ \A i, j \in DOMAIN s : i < j => s[i].name < s[j].name
  BY <1>1, SortedByName
<1> HIDE DEF s
<1>3. IsListed(s)
  BY <1>1, <1>2 DEF IsListed, Precedes, Range
<1> QED  BY <1>2, <1>3 DEF s

\* Leaving out hidden names keeps the order of the others.
LEMMA FilterListed ==
  ASSUME NEW s \in Seq(Rows), IsListed(s)
  PROVE  /\ filterHidden(s) \in Seq(Rows)
         /\ Range(filterHidden(s)) = {r \in Range(s) : r.name \notin DotNames}
         /\ IsListed(filterHidden(s))
<1> DEFINE W == {r \in Range(s) : r.name \notin DotNames}
           R == {p \in Rows \X Rows : Precedes(p[1], p[2])}
           t == Filtered(s, W)
<1>1. DOMAIN s = 1..Len(s) /\ \A i \in 1..Len(s) : s[i] \in Rows
  OBVIOUS
<1>2. \A i, j \in 1..Len(s) : i < j => <<s[i], s[j]>> \in R
  BY <1>1 DEF IsListed
<1>3. /\ t \in Seq(Rows)
      /\ {t[i] : i \in 1..Len(t)} = {s[i] : i \in 1..Len(s)} \cap W
      /\ \A i, j \in 1..Len(t) : i < j => <<t[i], t[j]>> \in R
  <2> HIDE DEF W, R
  <2> QED  BY <1>2, FilteredMembers
<1> HIDE DEF t
<1>4. DOMAIN t = 1..Len(t)
  BY <1>3
<1>5. IsListed(t)
  BY <1>3, <1>4 DEF IsListed
<1>6. Range(t) = {r \in Range(s) : r.name \notin DotNames}
  BY <1>1, <1>3, <1>4 DEF Range
<1> QED  BY <1>3, <1>5, <1>6 DEF filterHidden, t

\* A row is not both before and after another.
LEMMA PrecedesOneWay ==
  ASSUME NEW r \in Rows, NEW q \in Rows, Precedes(r, q)
  PROVE  ~Precedes(q, r)
<1>1. r.name \in Nat /\ q.name \in Nat
  BY ListingAssumption DEF ListingAssumption, Rows
<1> QED  BY <1>1 DEF Precedes

\* The first rows of a listing are in order, and none is left out before them.
LEMMA RowsBegun ==
  ASSUME NEW s \in Seq(Rows), NEW n \in 0..Len(s)
  PROVE  LET t == SubSeq(s, 1, n)
         IN  /\ t \in Seq(Rows) /\ Range(t) \subseteq Range(s)
             /\ IsListed(s) =>
                   /\ IsListed(t)
                   /\ \A r \in Range(t), q \in Range(s) : Precedes(q, r) => q \in Range(t)
<1> DEFINE t == SubSeq(s, 1, n)
<1>1. /\ t \in Seq(Rows) /\ DOMAIN t = 1..n /\ DOMAIN s = 1..Len(s)
      /\ n \in Nat /\ Len(s) \in Nat /\ n <= Len(s)
      /\ \A i \in 1..n : t[i] = s[i]
      /\ \A i \in 1..Len(s) : s[i] \in Rows
  OBVIOUS
<1> HIDE DEF t
<1>2. Range(t) \subseteq Range(s)
  BY <1>1 DEF Range
<1>3. ASSUME IsListed(s)
      PROVE  /\ IsListed(t)
             /\ \A r \in Range(t), q \in Range(s) : Precedes(q, r) => q \in Range(t)
  <2>1. IsListed(t)
    BY <1>1, <1>3 DEF IsListed
  <2>2. ASSUME NEW r \in Range(t), NEW q \in Range(s), Precedes(q, r), q \notin Range(t)
        PROVE  FALSE
    <3>1. PICK i \in 1..n : t[i] = r
      BY <1>1 DEF Range
    <3>2. PICK j \in 1..Len(s) : s[j] = q
      BY <1>1 DEF Range
    <3>3. j \notin 1..n
      BY <1>1, <2>2, <3>2 DEF Range
    <3>4. i \in DOMAIN s /\ j \in DOMAIN s /\ i < j /\ s[i] = r
      BY <1>1, <3>1, <3>3
    <3>5. Precedes(r, q)
      BY <1>3, <3>2, <3>4 DEF IsListed
    <3>6. r \in Rows /\ q \in Rows
      BY <1>1, <3>2, <3>4
    <3> QED  BY <2>2, <3>5, <3>6, PrecedesOneWay
  <2> QED  BY <2>1, <2>2
<1> QED  BY <1>1, <1>2, <1>3 DEF t

\* Every step keeps the types.
LEMMA TypeStep == TypeOK /\ [Next]_vars => TypeOK'
<1> SUFFICES ASSUME TypeOK, [Next]_vars PROVE TypeOK'
  OBVIOUS
<1> USE DEF flags, command, cluster, vars
<1>0. ClusterTypes
  BY DEF TypeOK, ClusterTypes
<1>1. CASE Preflight
  BY <1>1 DEF Preflight, TypeOK, CommandExits, exitUsage
<1>2. CASE AliasesAnswered
  <2>1. rows' \in Seq(Rows)
    BY <1>0, <1>2, AnswerSorted DEF AliasesAnswered
  <2> QED  BY <1>2, <2>1 DEF AliasesAnswered, TypeOK
<1>3. CASE StreamsAnswered
  <2>1. rows' \in Seq(Rows)
    <3>1. PICK e \in SetToSeqs(streamRows) : rows' = rows \o sortByName(e)
      BY <1>3 DEF StreamsAnswered
    <3>2. sortByName(e) \in Seq(Rows)
      BY <1>0, AnswerSorted
    <3> QED  BY <3>1, <3>2 DEF TypeOK
  <2> QED  BY <1>3, <2>1 DEF StreamsAnswered, TypeOK
<1>4. CASE RequestFails
  BY <1>4 DEF RequestFails, TypeOK, ClassifyESError, CommandExits, exitConn, exitNotFound
<1>5. CASE Filter
  <2>1. rows' \in Seq(Rows)
    <3>1. filterHidden(rows) \in Seq(Rows)
      <4> DEFINE R == Rows \X Rows
                 W == {r \in Range(rows) : r.name \notin DotNames}
      <4>1. \A i, j \in 1..Len(rows) : i < j => <<rows[i], rows[j]>> \in R
        BY DEF TypeOK
      <4>2. rows \in Seq(Rows)
        BY DEF TypeOK
      <4> HIDE DEF R, W
      <4>3. Filtered(rows, W) \in Seq(Rows)
        BY <4>1, <4>2, FilteredMembers
      <4> QED  BY <4>3 DEF filterHidden, W
    <3> QED  BY <1>5, <3>1 DEF Filter, TypeOK
  <2> QED  BY <1>5, <2>1 DEF Filter, TypeOK
<1>6. CASE Render
  BY <1>6 DEF Render, TypeOK, CommandExits, exitOK
<1>9. CASE WriteFails
  <2>1. PICK n \in 0..Len(rows) : stdout' = SubSeq(rows, 1, n)
    BY <1>9 DEF WriteFails
  <2>2. stdout' \in Seq(Rows)
    BY <2>1, RowsBegun DEF TypeOK
  <2> QED  BY <1>9, <2>2 DEF WriteFails, TypeOK, CommandExits, exitUsage
<1>7. CASE Change
  <2>1. aliasesOf' \in [Indices -> SUBSET Names]
    BY <1>7 DEF Change, TypeOK, SymDiff
  <2>2. backing' \in [Names -> Nat]
    <3>1. \/ backing' = backing
          \/ \E n \in Names, k \in 0..2 : backing' = [backing EXCEPT ![n] = k]
      BY <1>7 DEF Change
    <3>2. 0..2 \subseteq Nat
      OBVIOUS
    <3> QED  BY <3>1, <3>2 DEF TypeOK
  <2>3. Truth' \in SUBSET Rows
    <3>1. ClusterTypes'
      BY <2>1, <2>2 DEF ClusterTypes
    <3>2. (ClusterTypes => Truth \in SUBSET Rows)'
      BY TruthRows, PTL
    <3>3. Rows' = Rows
      BY DEF Rows
    <3> QED  BY <3>1, <3>2, <3>3
  <2>4. moments' \in Seq(SUBSET Rows)
    BY <1>7, <2>3 DEF Change, TypeOK
  <2> QED  BY <1>7, <2>1, <2>2, <2>4 DEF Change, TypeOK
<1>8. CASE Ended \/ UNCHANGED vars
  BY <1>8 DEF Ended, TypeOK
<1> QED  BY <1>1, <1>2, <1>3, <1>4, <1>5, <1>6, <1>7, <1>8, <1>9 DEF Next

\* The initial state has the types.
LEMMA TypeInit == Init => TypeOK
<1> SUFFICES ASSUME Init PROVE TypeOK
  OBVIOUS
<1>1. backing \in [Names -> Nat]
  BY DEF Init
<1>2. Truth \in SUBSET Rows
  BY <1>1, TruthRows DEF Init, ClusterTypes
<1> QED  BY <1>1, <1>2 DEF Init, TypeOK

\* Rows, output and exit code have their types throughout a run of ls.
THEOREM ListingType == Spec => []TypeOK
<1> QED  BY TypeInit, TypeStep, PTL DEF Spec

-----------------------------------------------------------------------------
(***************************************************************************)
(* The rows of the two answers.                                            *)
(***************************************************************************)
\* What a step of the command does not touch: the moments and the command line,
\* hence what the rows are compared with.
MomentsKept ==
    /\ moments' = moments /\ mode' = mode /\ showHidden' = showHidden
    /\ aliasesOf' = aliasesOf /\ backing' = backing

LEMMA TruthKept ==
  ASSUME MomentsKept
  PROVE  /\ Truth' = Truth
         /\ \A i : AliasesAt(i)' = AliasesAt(i) /\ StreamsAt(i)' = StreamsAt(i)
<1> QED  BY DEF MomentsKept, Truth, AliasTruth, streamRows, AliasesAt, StreamsAt, OfType

\* The initial state.
LEMMA RowsInit == Init => RowsInv
<1> SUFFICES ASSUME Init PROVE RowsInv
  OBVIOUS
<1>1. moments = <<Truth>> /\ moments # <<>> /\ Len(moments) = 1 /\ moments[1] = Truth
  BY DEF Init
<1>2. IsListed(<<>>)
  BY DEF IsListed
<1>3. pc = "start" /\ rows = <<>> /\ stdout = <<>> /\ exit = NoExit
  BY DEF Init
<1> QED  BY <1>1, <1>2, <1>3 DEF RowsInv, ListsTwoMoments, BeginningOfListing, NoExit, exitOK,
              HardFailures, exitUsage, exitConn, exitNotFound

\* The aliases are those of the moment they were asked for.
LEMMA RowsAliases == TypeOK /\ RowsInv /\ AliasesAnswered => RowsInv'
<1> SUFFICES ASSUME TypeOK, RowsInv, AliasesAnswered PROVE RowsInv'
  OBVIOUS
<1>1. ClusterTypes /\ MomentsKept /\ stdout' = stdout /\ exit' = exit
  BY DEF TypeOK, ClusterTypes, AliasesAnswered, MomentsKept, flags, cluster
<1>2. Range(rows') = aliasRows /\ IsListed(rows')
  BY <1>1, AnswerSorted DEF AliasesAnswered
<1>3. /\ mode \in {"all", "alias"} /\ stdout = <<>> /\ exit = NoExit
      /\ moments # <<>> /\ moments[Len(moments)] = Truth
  BY DEF TypeOK, RowsInv, AliasesAnswered, Modes
<1> DEFINE n == Len(moments)
<1>4. n \in DOMAIN moments /\ n \in Nat
  BY <1>3 DEF TypeOK
<1>5. AliasesAt(n) = aliasRows /\ (mode = "alias" => StreamsAt(n) = {})
  BY <1>1, <1>3, TruthByType DEF AliasesAt, StreamsAt
<1>6. (pc' = "streams" /\ mode = "all") \/ (pc' = "filter" /\ mode = "alias")
  BY <1>3 DEF AliasesAnswered
<1>7. \A i : AliasesAt(i)' = AliasesAt(i) /\ StreamsAt(i)' = StreamsAt(i)
  BY <1>1, TruthKept
<1>8. Truth' = Truth
  BY <1>1, TruthKept
<1>9. pc' = "filter" => \E i, j \in DOMAIN moments :
                           i <= j /\ Range(rows') = AliasesAt(i) \cup StreamsAt(j)
  BY <1>2, <1>4, <1>5, <1>6
<1>10. IsListed(stdout)
  BY DEF RowsInv
<1>11. (IsListed(rows) /\ IsListed(stdout))'
  BY <1>1, <1>2, <1>10 DEF IsListed
<1>12. ListsTwoMoments' /\ BeginningOfListing'
  BY <1>1, <1>3 DEF ListsTwoMoments, BeginningOfListing, NoExit, exitOK,
              HardFailures, exitUsage, exitConn, exitNotFound
<1>13. moments' = moments /\ mode' = mode
  BY <1>1 DEF MomentsKept
<1> HIDE DEF n
<1> QED  BY <1>1, <1>2, <1>3, <1>4, <1>5, <1>6, <1>7, <1>8, <1>9, <1>11, <1>12, <1>13
         DEF RowsInv

\* The data streams are those of the same or a later moment, after the aliases.
LEMMA RowsStreams == TypeOK /\ RowsInv /\ StreamsAnswered => RowsInv'
<1> SUFFICES ASSUME TypeOK, RowsInv, StreamsAnswered PROVE RowsInv'
  OBVIOUS
<1>1. ClusterTypes /\ MomentsKept /\ stdout' = stdout /\ exit' = exit /\ pc' = "filter"
  BY DEF TypeOK, ClusterTypes, StreamsAnswered, MomentsKept, flags, cluster
<1>2. PICK e \in SetToSeqs(streamRows) : rows' = rows \o sortByName(e)
  BY DEF StreamsAnswered
<1> DEFINE t == sortByName(e)
<1>3. t \in Seq(Rows) /\ Range(t) = streamRows /\ IsListed(t)
  BY <1>1, AnswerSorted
<1> HIDE DEF t
<1>4. PICK i \in DOMAIN moments : Range(rows) = AliasesAt(i)
  BY DEF RowsInv, StreamsAnswered
<1>5. /\ mode # "alias" /\ stdout = <<>> /\ exit = NoExit
      /\ moments # <<>> /\ moments[Len(moments)] = Truth
      /\ IsListed(rows) /\ IsListed(stdout)
  BY DEF TypeOK, RowsInv, StreamsAnswered
<1>6. rows' = rows \o t
  BY <1>2 DEF t
<1>7. rows \in Seq(Rows)
  BY DEF TypeOK
<1>8. /\ DOMAIN rows = 1..Len(rows) /\ DOMAIN t = 1..Len(t)
      /\ Len(rows) \in Nat /\ Len(t) \in Nat
      /\ DOMAIN rows' = 1..(Len(rows) + Len(t))
      /\ \A k \in 1..Len(rows) : rows'[k] = rows[k]
      /\ \A k \in 1..Len(t) : rows'[Len(rows) + k] = t[k]
      /\ \A k \in (1..(Len(rows) + Len(t))) \ (1..Len(rows)) :
            k - Len(rows) \in 1..Len(t) /\ rows'[k] = t[k - Len(rows)]
  BY <1>3, <1>6, <1>7
<1>9. Range(rows') = Range(rows) \cup streamRows
  <2>1. Range(rows') \subseteq Range(rows) \cup Range(t)
    BY <1>8 DEF Range
  <2>2. Range(rows) \subseteq Range(rows')
    BY <1>8 DEF Range
  <2>3. Range(t) \subseteq Range(rows')
    BY <1>8 DEF Range
  <2> QED  BY <1>3, <2>1, <2>2, <2>3
<1>10. IsListed(rows')
  <2> SUFFICES ASSUME NEW k \in DOMAIN rows', NEW l \in DOMAIN rows', k < l
               PROVE  Precedes(rows'[k], rows'[l])
    BY DEF IsListed
  <2> DEFINE m == Len(rows)
  <2>1. CASE k \in 1..m /\ l \in 1..m
    BY <1>5, <1>8, <2>1 DEF IsListed
  <2>2. CASE k \in 1..m /\ l \notin 1..m
    <3>1. rows'[k] \in AliasesAt(i)
      BY <1>4, <1>8, <2>2 DEF Range
    <3>2. rows'[l] \in streamRows
      BY <1>3, <1>8, <2>2 DEF Range
    <3>3. rows'[k].type = "alias"
      BY <3>1 DEF AliasesAt, OfType
    <3>4. rows'[l].type = "datastream"
      BY <1>1, <3>2, StreamRows DEF ClusterTypes
    <3> QED  BY <3>3, <3>4 DEF Precedes
  <2>3. CASE k \notin 1..m /\ l \notin 1..m
    <3>1. k - m < l - m
      BY <1>8
    <3>2. k \in (1..(m + Len(t))) \ (1..m) /\ l \in (1..(m + Len(t))) \ (1..m)
      BY <1>8, <2>3
    <3>3. /\ k - m \in DOMAIN t /\ rows'[k] = t[k - m]
          /\ l - m \in DOMAIN t /\ rows'[l] = t[l - m]
      BY <1>8, <3>2
    <3>4. Precedes(t[k - m], t[l - m])
      BY <1>3, <3>1, <3>3 DEF IsListed
    <3> QED  BY <3>3, <3>4
  <2>4. k \in 1..m \/ l \notin 1..m
    BY <1>8
  <2> QED  BY <2>1, <2>2, <2>3, <2>4
<1> DEFINE n == Len(moments)
<1>11. n \in DOMAIN moments /\ i <= n
  BY <1>5 DEF TypeOK
<1>12. StreamsAt(n) = streamRows
  BY <1>1, <1>5, TruthByType DEF StreamsAt
<1>13. \E p, q \in DOMAIN moments : p <= q /\ Range(rows') = AliasesAt(p) \cup StreamsAt(q)
  BY <1>4, <1>9, <1>11, <1>12
<1>14. \A p : AliasesAt(p)' = AliasesAt(p) /\ StreamsAt(p)' = StreamsAt(p)
  BY <1>1, TruthKept
<1>15. Truth' = Truth
  BY <1>1, TruthKept
<1>16. (IsListed(rows) /\ IsListed(stdout))'
  BY <1>1, <1>5, <1>10 DEF IsListed
<1>17. ListsTwoMoments' /\ BeginningOfListing'
  BY <1>1, <1>5 DEF ListsTwoMoments, BeginningOfListing, NoExit, exitOK,
              HardFailures, exitUsage, exitConn, exitNotFound
<1>18. moments' = moments
  BY <1>1 DEF MomentsKept
<1> QED  BY <1>1, <1>5, <1>13, <1>14, <1>15, <1>16, <1>17, <1>18 DEF RowsInv

\* Filtering leaves the visible rows of the same two moments.
LEMMA RowsFilter == TypeOK /\ RowsInv /\ Filter => RowsInv'
<1> SUFFICES ASSUME TypeOK, RowsInv, Filter PROVE RowsInv'
  OBVIOUS
<1>1. /\ MomentsKept /\ stdout' = stdout /\ exit' = exit /\ pc' = "render"
      /\ rows' = IF showHidden THEN rows ELSE filterHidden(rows)
  BY DEF Filter, MomentsKept, flags, cluster
<1>2. /\ stdout = <<>> /\ exit = NoExit
      /\ moments # <<>> /\ moments[Len(moments)] = Truth
      /\ IsListed(rows) /\ IsListed(stdout)
  BY DEF RowsInv, Filter
<1>3. PICK i \in DOMAIN moments, j \in DOMAIN moments :
         i <= j /\ Range(rows) = AliasesAt(i) \cup StreamsAt(j)
  BY DEF RowsInv, Filter
<1>4. /\ IsListed(rows')
      /\ Range(rows') = {r \in Range(rows) : showHidden \/ r.name \notin DotNames}
  <2>1. CASE showHidden
    <3>1. rows' = rows
      BY <1>1, <2>1
    <3>2. Range(rows) = {r \in Range(rows) : showHidden \/ r.name \notin DotNames}
      BY <2>1
    <3> QED  BY <1>2, <3>1, <3>2
  <2>2. CASE ~ showHidden
    <3>1. rows' = filterHidden(rows) /\ rows \in Seq(Rows)
      BY <1>1, <2>2 DEF TypeOK
    <3>2. {r \in Range(rows) : showHidden \/ r.name \notin DotNames} =
             {r \in Range(rows) : r.name \notin DotNames}
      BY <2>2
    <3> QED  BY <1>2, <3>1, <3>2, FilterListed
  <2> QED  BY <2>1, <2>2
<1>5. Range(rows') = {r \in AliasesAt(i) \cup StreamsAt(j) :
                         showHidden \/ r.name \notin DotNames}
  BY <1>3, <1>4
<1>6. \A p : AliasesAt(p)' = AliasesAt(p) /\ StreamsAt(p)' = StreamsAt(p)
  BY <1>1, TruthKept
<1>7. Truth' = Truth
  BY <1>1, TruthKept
<1>8. (IsListed(rows) /\ IsListed(stdout))'
  BY <1>1, <1>2, <1>4 DEF IsListed
<1>9. ListsTwoMoments' /\ BeginningOfListing'
  BY <1>1, <1>2 DEF ListsTwoMoments, BeginningOfListing, NoExit, exitOK,
              HardFailures, exitUsage, exitConn, exitNotFound
<1>10. moments' = moments /\ showHidden' = showHidden
  BY <1>1 DEF MomentsKept
<1> QED  BY <1>1, <1>2, <1>3, <1>5, <1>6, <1>7, <1>8, <1>9, <1>10 DEF RowsInv

\* The rows to be rendered are those of a listing.
LEMMA RowsToRender ==
  ASSUME TypeOK, RowsInv, pc = "render"
  PROVE  \E i, j \in DOMAIN moments :
            /\ i <= j
            /\ Range(rows) = Listed(i, j)
            /\ {r \in Range(rows) : r.type = "alias"} =
                  IF mode = "datastream" THEN {} ELSE Visible(moments[i], "alias")
            /\ {r \in Range(rows) : r.type = "datastream"} =
                  IF mode = "alias" THEN {} ELSE Visible(moments[j], "datastream")
<1>1. PICK i \in DOMAIN moments, j \in DOMAIN moments :
         /\ i <= j
         /\ Range(rows) = {r \in AliasesAt(i) \cup StreamsAt(j) :
                              showHidden \/ r.name \notin DotNames}
  BY DEF RowsInv
<1>2. {r \in Range(rows) : r.type = "alias"} =
         IF mode = "datastream" THEN {} ELSE Visible(moments[i], "alias")
  BY <1>1 DEF Visible, AliasesAt, StreamsAt, OfType
<1>3. {r \in Range(rows) : r.type = "datastream"} =
         IF mode = "alias" THEN {} ELSE Visible(moments[j], "datastream")
  BY <1>1 DEF Visible, AliasesAt, StreamsAt, OfType
<1>4. Range(rows) = Listed(i, j)
  BY <1>1 DEF Listed, Visible, AliasesAt, StreamsAt, OfType
<1> QED  BY <1>1, <1>2, <1>3, <1>4

\* What is rendered is what was collected.
LEMMA RowsRender == TypeOK /\ RowsInv /\ Render => RowsInv'
<1> SUFFICES ASSUME TypeOK, RowsInv, Render PROVE RowsInv'
  OBVIOUS
<1>1. /\ MomentsKept /\ rows' = rows /\ stdout' = rows /\ exit' = exitOK /\ pc' = "done"
  BY DEF Render, MomentsKept, flags, cluster
<1>2. /\ moments # <<>> /\ moments[Len(moments)] = Truth
      /\ IsListed(rows)
  BY DEF RowsInv, Render
<1>3. PICK i \in DOMAIN moments, j \in DOMAIN moments :
         /\ i <= j
         /\ Range(rows) = Listed(i, j)
         /\ {r \in Range(rows) : r.type = "alias"} =
               IF mode = "datastream" THEN {} ELSE Visible(moments[i], "alias")
         /\ {r \in Range(rows) : r.type = "datastream"} =
               IF mode = "alias" THEN {} ELSE Visible(moments[j], "datastream")
  BY RowsToRender DEF Render
<1>4. /\ Visible(moments[i], "alias")' = Visible(moments[i], "alias")
      /\ Visible(moments[j], "datastream")' = Visible(moments[j], "datastream")
      /\ Listed(i, j)' = Listed(i, j)
  BY <1>1 DEF MomentsKept, Visible, Listed
<1>5. ListsTwoMoments'
  BY <1>1, <1>3, <1>4 DEF ListsTwoMoments, MomentsKept, Visible
<1>6. BeginningOfListing'
  <2>1. i \in DOMAIN moments' /\ j \in DOMAIN moments' /\ Range(stdout') = Listed(i, j)'
    BY <1>1, <1>3, <1>4 DEF MomentsKept
  <2> QED  BY <1>1, <1>3, <2>1 DEF BeginningOfListing, exitOK, HardFailures, exitUsage, exitConn, exitNotFound
<1>7. Truth' = Truth /\ moments' = moments
  BY <1>1, TruthKept DEF MomentsKept
<1>8. (IsListed(rows) /\ IsListed(stdout))'
  BY <1>1, <1>2 DEF IsListed
<1> QED  BY <1>1, <1>2, <1>5, <1>6, <1>7, <1>8 DEF RowsInv

\* What stdout takes before it fails is a beginning of it.
LEMMA RowsWriteFails == TypeOK /\ RowsInv /\ WriteFails => RowsInv'
<1> SUFFICES ASSUME TypeOK, RowsInv, WriteFails PROVE RowsInv'
  OBVIOUS
<1>1. /\ MomentsKept /\ rows' = rows /\ exit' = exitUsage /\ pc' = "done"
  BY DEF WriteFails, MomentsKept, flags, cluster
<1>2. PICK n \in 0..Len(rows) : stdout' = SubSeq(rows, 1, n)
  BY DEF WriteFails
<1>3. /\ moments # <<>> /\ moments[Len(moments)] = Truth
      /\ IsListed(rows)
  BY DEF RowsInv, WriteFails
<1>4. PICK i \in DOMAIN moments, j \in DOMAIN moments : i <= j /\ Range(rows) = Listed(i, j)
  BY RowsToRender DEF WriteFails
<1> DEFINE t == SubSeq(rows, 1, n)
<1>5. /\ Range(t) \subseteq Range(rows) /\ IsListed(t)
      /\ \A r \in Range(t), q \in Range(rows) : Precedes(q, r) => q \in Range(t)
  BY <1>3, RowsBegun DEF TypeOK
<1> HIDE DEF t
<1>6. stdout' = t /\ Listed(i, j)' = Listed(i, j)
  BY <1>1, <1>2 DEF MomentsKept, Visible, Listed, t
<1>7. ListsTwoMoments'
  BY <1>1 DEF ListsTwoMoments, exitOK, exitUsage
<1>8. BeginningOfListing'
  <2>1. i \in DOMAIN moments' /\ j \in DOMAIN moments' /\ Range(t) = Range(stdout')
    BY <1>1, <1>4, <1>6 DEF MomentsKept
  <2>2. /\ Range(stdout') \subseteq Listed(i, j)'
        /\ \A r \in Range(stdout'), q \in Listed(i, j)' : Precedes(q, r) => q \in Range(stdout')
    BY <1>4, <1>5, <1>6
  <2> QED  BY <1>1, <1>4, <2>1, <2>2 DEF BeginningOfListing
<1>9. Truth' = Truth /\ moments' = moments
  BY <1>1, TruthKept DEF MomentsKept
<1>10. (IsListed(rows) /\ IsListed(stdout))'
  BY <1>1, <1>3, <1>5, <1>6 DEF IsListed
<1> QED  BY <1>1, <1>3, <1>7, <1>8, <1>9, <1>10 DEF RowsInv

\* A change of the cluster adds a moment and leaves the earlier ones.
LEMMA RowsChange == TypeOK /\ RowsInv /\ Change => RowsInv'
<1> SUFFICES ASSUME TypeOK, RowsInv, Change PROVE RowsInv'
  OBVIOUS
<1>1. /\ pc # "done" /\ moments' = Append(moments, Truth')
      /\ mode' = mode /\ showHidden' = showHidden
      /\ pc' = pc /\ rows' = rows /\ stdout' = stdout /\ exit' = exit
  BY DEF Change, flags, command
<1>2. /\ stdout = <<>> /\ exit = NoExit
      /\ IsListed(rows) /\ IsListed(stdout)
  BY <1>1 DEF RowsInv
<1>3. moments \in Seq(SUBSET Rows) /\ Len(moments) \in Nat
  BY DEF TypeOK
<1>4. /\ moments' # <<>> /\ moments'[Len(moments')] = Truth'
      /\ \A i \in DOMAIN moments : i \in DOMAIN moments' /\ moments'[i] = moments[i]
  <2> DEFINE T == Truth'
  <2>1. moments' = Append(moments, T)
    BY <1>1
  <2> HIDE DEF T
  <2>2. /\ Len(moments') = Len(moments) + 1 /\ moments' # <<>>
        /\ moments'[Len(moments) + 1] = T
        /\ DOMAIN moments = 1..Len(moments) /\ DOMAIN moments' = 1..(Len(moments) + 1)
        /\ \A i \in 1..Len(moments) : moments'[i] = moments[i]
    BY <1>3, <2>1
  <2> QED  BY <1>3, <2>2 DEF T
<1>5. \A i \in DOMAIN moments : AliasesAt(i)' = AliasesAt(i) /\ StreamsAt(i)' = StreamsAt(i)
  BY <1>1, <1>4 DEF AliasesAt, StreamsAt, OfType
<1>6. ListsTwoMoments' /\ BeginningOfListing'
  BY <1>1, <1>2 DEF ListsTwoMoments, BeginningOfListing, NoExit, exitOK,
              HardFailures, exitUsage, exitConn, exitNotFound
<1>7. (IsListed(rows) /\ IsListed(stdout))'
  BY <1>1, <1>2 DEF IsListed
<1>8. /\ pc = "start" => rows = <<>>
      /\ pc = "aliases" => rows = <<>> /\ mode # "datastream"
      /\ pc = "streams" => mode # "alias"
  BY DEF RowsInv
<1>9. (pc = "streams" => \E i \in DOMAIN moments : Range(rows) = AliasesAt(i))'
  <2> SUFFICES ASSUME pc = "streams"
               PROVE  (\E i \in DOMAIN moments : Range(rows) = AliasesAt(i))'
    BY <1>1
  <2>1. PICK i \in DOMAIN moments : Range(rows) = AliasesAt(i)
    BY DEF RowsInv
  <2>2. i \in DOMAIN moments' /\ Range(rows)' = AliasesAt(i)'
    BY <1>1, <1>4, <1>5, <2>1 DEF Range
  <2> QED  BY <2>2
<1>10. (pc = "filter" => \E i, j \in DOMAIN moments :
                            i <= j /\ Range(rows) = AliasesAt(i) \cup StreamsAt(j))'
  <2> SUFFICES ASSUME pc = "filter"
               PROVE  (\E i, j \in DOMAIN moments :
                          i <= j /\ Range(rows) = AliasesAt(i) \cup StreamsAt(j))'
    BY <1>1
  <2>1. PICK i \in DOMAIN moments, j \in DOMAIN moments :
           i <= j /\ Range(rows) = AliasesAt(i) \cup StreamsAt(j)
    BY DEF RowsInv
  <2>2. /\ i \in DOMAIN moments' /\ j \in DOMAIN moments'
        /\ Range(rows)' = AliasesAt(i)' \cup StreamsAt(j)'
    BY <1>1, <1>4, <1>5, <2>1 DEF Range
  <2> QED  BY <2>1, <2>2
<1>11. (pc = "render" => \E i, j \in DOMAIN moments :
                            /\ i <= j
                            /\ Range(rows) = {r \in AliasesAt(i) \cup StreamsAt(j) :
                                                 showHidden \/ r.name \notin DotNames})'
  <2> SUFFICES ASSUME pc = "render"
               PROVE  (\E i, j \in DOMAIN moments :
                            /\ i <= j
                            /\ Range(rows) = {r \in AliasesAt(i) \cup StreamsAt(j) :
                                                 showHidden \/ r.name \notin DotNames})'
    BY <1>1
  <2>1. PICK i \in DOMAIN moments, j \in DOMAIN moments :
           /\ i <= j
           /\ Range(rows) = {r \in AliasesAt(i) \cup StreamsAt(j) :
                                showHidden \/ r.name \notin DotNames}
    BY DEF RowsInv
  <2>2. /\ i \in DOMAIN moments' /\ j \in DOMAIN moments'
        /\ Range(rows)' = {r \in AliasesAt(i)' \cup StreamsAt(j)' :
                              showHidden' \/ r.name \notin DotNames}
    BY <1>1, <1>4, <1>5, <2>1 DEF Range
  <2> QED  BY <2>1, <2>2
<1> QED  BY <1>1, <1>2, <1>4, <1>6, <1>7, <1>8, <1>9, <1>10, <1>11 DEF RowsInv

\* Every step keeps the invariant.
LEMMA RowsStep == TypeOK /\ RowsInv /\ [Next]_vars => RowsInv'
<1> SUFFICES ASSUME TypeOK, RowsInv, [Next]_vars PROVE RowsInv'
  OBVIOUS
<1>1. CASE Preflight
  <2>1. /\ pc = "start" /\ rows = <<>> /\ stdout = <<>> /\ exit = NoExit
        /\ moments # <<>> /\ moments[Len(moments)] = Truth
    BY <1>1 DEF Preflight, RowsInv
  <2>2. MomentsKept /\ rows' = rows /\ stdout' = stdout
    BY <1>1 DEF Preflight, MomentsKept, flags, cluster
  <2>3. Truth' = Truth /\ moments' = moments
        /\ \A i : AliasesAt(i)' = AliasesAt(i) /\ StreamsAt(i)' = StreamsAt(i)
    BY <2>2, TruthKept DEF MomentsKept
  <2>4. IsListed(<<>>) /\ Range(<<>>) = {}
    BY DEF IsListed, Range
  <2>5. (IsListed(rows) /\ IsListed(stdout))'
    BY <2>1, <2>2, <2>4
  <2>6. ListsTwoMoments' /\ BeginningOfListing'
    BY <1>1, <2>1, <2>2 DEF Preflight, ListsTwoMoments, BeginningOfListing, NoExit, exitOK,
              HardFailures, exitUsage, exitConn, exitNotFound
  <2>7. 1 \in DOMAIN moments
    BY <2>1 DEF TypeOK
  <2>8. /\ pc' \in {"aliases", "streams", "done"}
        /\ pc' = "aliases" => mode' # "datastream" /\ exit' = NoExit
        /\ pc' = "streams" => mode' = "datastream" /\ exit' = NoExit
    BY <1>1, <2>1, <2>2 DEF Preflight, MomentsKept
  <2>9. pc' = "streams" => AliasesAt(1)' = {}
    BY <2>8 DEF AliasesAt
  <2>10. Range(rows') = {}
    BY <2>1, <2>2, <2>4
  <2> QED  BY <2>1, <2>2, <2>3, <2>5, <2>6, <2>7, <2>8, <2>9, <2>10 DEF RowsInv
<1>2. CASE AliasesAnswered
  BY <1>2, RowsAliases
<1>3. CASE StreamsAnswered
  BY <1>3, RowsStreams
<1>4. CASE RequestFails
  <2>1. /\ stdout = <<>> /\ IsListed(rows) /\ IsListed(stdout)
        /\ moments # <<>> /\ moments[Len(moments)] = Truth
    BY <1>4 DEF RequestFails, RowsInv
  <2>2. MomentsKept /\ rows' = rows /\ stdout' = stdout /\ pc' = "done" /\ exit' # exitOK
    BY <1>4 DEF RequestFails, MomentsKept, flags, cluster, ClassifyESError, exitOK,
                exitConn, exitNotFound
  <2>3. Truth' = Truth /\ moments' = moments
    BY <2>2, TruthKept DEF MomentsKept
  <2>4. (IsListed(rows) /\ IsListed(stdout))'
    BY <2>1, <2>2 DEF IsListed
  <2>5. ListsTwoMoments' /\ BeginningOfListing'
    BY <2>1, <2>2 DEF ListsTwoMoments, BeginningOfListing
  <2> QED  BY <2>1, <2>2, <2>3, <2>4, <2>5 DEF RowsInv
<1>5. CASE Filter
  BY <1>5, RowsFilter
<1>6. CASE Render
  BY <1>6, RowsRender
<1>10. CASE WriteFails
  BY <1>10, RowsWriteFails
<1>7. CASE Change
  BY <1>7, RowsChange
<1>8. CASE UNCHANGED vars
  <2>1. MomentsKept /\ pc' = pc /\ rows' = rows /\ stdout' = stdout /\ exit' = exit
    BY <1>8 DEF vars, flags, command, cluster, MomentsKept
  <2>2. Truth' = Truth /\ moments' = moments /\ mode' = mode /\ showHidden' = showHidden
        /\ \A i : AliasesAt(i)' = AliasesAt(i) /\ StreamsAt(i)' = StreamsAt(i)
    BY <2>1, TruthKept DEF MomentsKept
  <2>3. ListsTwoMoments'
    <3>1. ListsTwoMoments
      BY DEF RowsInv
    <3> QED  BY <2>1, <2>2, <3>1 DEF ListsTwoMoments, Visible
  <2>4. BeginningOfListing'
    <3>1. BeginningOfListing
      BY DEF RowsInv
    <3> QED  BY <2>1, <2>2, <3>1 DEF BeginningOfListing, Listed, Visible
  <2>5. (IsListed(rows) /\ IsListed(stdout))'
    BY <2>1 DEF RowsInv, IsListed
  <2> QED  BY <2>1, <2>2, <2>3, <2>4, <2>5 DEF RowsInv
<1>9. CASE Ended
  BY <1>8, <1>9 DEF Ended
<1> QED  BY <1>1, <1>2, <1>3, <1>4, <1>5, <1>6, <1>7, <1>8, <1>9, <1>10 DEF Next

\* The rows collected are those of the moments the requests were answered at.
THEOREM RowsOfTwoMoments == Spec => []RowsInv
<1>1. Init => TypeOK /\ RowsInv
  BY TypeInit, RowsInit
<1>2. TypeOK /\ RowsInv /\ [Next]_vars => (TypeOK /\ RowsInv)'
  BY TypeStep, RowsStep
<1> QED  BY <1>1, <1>2, PTL DEF Spec

\* The aliases printed are those of one moment of the run and the data streams
\* those of the same or a later one, each with its count, for any cluster and any
\* number of changes.
THEOREM TwoMomentsListed == Spec => []ListsTwoMoments
<1>1. RowsInv => ListsTwoMoments
  BY DEF RowsInv
<1> QED  BY <1>1, RowsOfTwoMoments, PTL

\* ls prints aliases first, then data streams, each by name and none twice,
\* whatever order the answers come in.
THEOREM OrderListed == Spec => []ListedInOrder
<1>1. RowsInv => ListedInOrder
  BY DEF RowsInv, IsListed, ListedInOrder
<1> QED  BY <1>1, RowsOfTwoMoments, PTL

\* However ls ends, what it has printed is a beginning of the listing of two moments
\* with no row left out, and nothing when a request failed: for any cluster, any
\* number of changes, any order of the answers and any row that stdout fails at.
THEOREM ListingHasNoHole == Spec => []BeginningOfListing
<1>1. RowsInv => BeginningOfListing
  BY DEF RowsInv
<1> QED  BY <1>1, RowsOfTwoMoments, PTL
=============================================================================
