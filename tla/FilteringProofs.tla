-------------------------- MODULE FilteringProofs --------------------------
(***************************************************************************)
(* What Filtered yields, for sequences of any length.  The induction over  *)
(* the length is on the set of lengths for which the fact holds.           *)
(***************************************************************************)
EXTENDS Filtering, WellFoundedInduction, TLAPS

\* A set of natural numbers with 0 and the successor of each of its members is
\* all of Nat: it would otherwise lack a least one.
LEMMA NatSetInduction == 
  ASSUME NEW T \in SUBSET Nat, 0 \in T, \A n \in T : n + 1 \in T
  PROVE  T = Nat
<1> SUFFICES ASSUME Nat \ T # {} PROVE FALSE
  OBVIOUS
<1>1. PICK x \in Nat \ T : \A y \in Nat \ T : ~ (<<y, x>> \in OpToRel(<,Nat))
  BY WFMin, NatLessThanWellFounded
<1>2. x # 0 /\ x - 1 \in Nat /\ x - 1 \notin T
  OBVIOUS
<1>3. <<x - 1, x>> \in OpToRel(<,Nat)
  BY <1>2 DEF OpToRel
<1> QED  BY <1>1, <1>2, <1>3


\* FilteredPrefixes satisfies its recursion, and yields sequences.
LEMMA FilteredStep ==
  ASSUME NEW S, NEW s \in Seq(S), NEW W
  PROVE  LET f == FilteredPrefixes(s, W)
         IN  /\ f \in [0..Len(s) -> Seq(S)]
             /\ f[0] = <<>>
             /\ \A n \in 1..Len(s) :
                   f[n] = IF s[n] \in W THEN Append(f[n - 1], s[n]) ELSE f[n - 1]
<1> DEFINE Rec(f, n) == IF n = 0 THEN <<>>
                        ELSE IF s[n] \in W THEN Append(f[n - 1], s[n]) ELSE f[n - 1]
           Solves(f, m) == f[0] = <<>> /\ \A n \in 1..m : f[n] = Rec(f, n)
           T == {m \in Nat : m <= Len(s) => \E f \in [0..m -> Seq(S)] : Solves(f, m)}
<1>1. Len(s) \in Nat /\ \A n \in 1..Len(s) : s[n] \in S
  OBVIOUS
<1>2. 0 \in T
  <2>1. [n \in 0..0 |-> <<>>] \in [0..0 -> Seq(S)] /\ Solves([n \in 0..0 |-> <<>>], 0)
    OBVIOUS
  <2> QED  BY <2>1
<1>3. ASSUME NEW m \in Nat, m \in T PROVE m + 1 \in T
  <2> SUFFICES ASSUME m + 1 <= Len(s) PROVE \E f \in [0..(m + 1) -> Seq(S)] : Solves(f, m + 1)
    <3> HIDE DEF Solves
    <3> QED  OBVIOUS
  <2>1. PICK f \in [0..m -> Seq(S)] : Solves(f, m)
    <3>1. m <= Len(s)
      BY <1>1
    <3> HIDE DEF Solves
    <3> QED  BY <1>3, <3>1
  <2> DEFINE v == IF s[m + 1] \in W THEN Append(f[m], s[m + 1]) ELSE f[m]
             g == [n \in 0..(m + 1) |-> IF n = m + 1 THEN v ELSE f[n]]
  <2>2. v \in Seq(S)
    BY <1>1, <2>1
  <2> HIDE DEF v
  <2>3. g \in [0..(m + 1) -> Seq(S)]
    BY <2>1, <2>2
  <2>4. g[m + 1] = v /\ \A n \in 0..m : g[n] = f[n]
    BY <2>1
  <2> HIDE DEF g
  <2>5. g[m + 1] = Rec(g, m + 1)
    <3>1. (m + 1) - 1 = m /\ m \in 0..m /\ m + 1 # 0
      OBVIOUS
    <3> QED  BY <2>4, <3>1 DEF v
  <2>6. ASSUME NEW n \in 1..m PROVE g[n] = Rec(g, n)
    <3>1. n \in 0..m /\ n - 1 \in 0..m /\ n # 0 /\ n # m + 1
      BY <1>1
    <3>2. g[n] = f[n] /\ g[n - 1] = f[n - 1] /\ f[n] = Rec(f, n)
      BY <2>1, <2>4, <3>1
    <3> QED  BY <3>1, <3>2
  <2>7. Solves(g, m + 1)
    <3>1. 0 \in 0..m /\ \A n \in 1..(m + 1) : n = m + 1 \/ n \in 1..m
      OBVIOUS
    <3> HIDE DEF Rec
    <3> QED  BY <2>1, <2>4, <2>5, <2>6, <3>1
  <2> QED  BY <2>3, <2>7
<1>4. T = Nat
  <2> HIDE DEF T
  <2> QED  BY <1>2, <1>3, NatSetInduction DEF T
<1>5. PICK f \in [0..Len(s) -> Seq(S)] : Solves(f, Len(s))
  <2>1. Len(s) \in T
    BY <1>1, <1>4
  <2> QED  BY <1>1, <2>1
<1>6. f = [n \in 0..Len(s) |-> Rec(f, n)]
  <2>1. ASSUME NEW n \in 0..Len(s) PROVE f[n] = Rec(f, n)
    <3>1. n = 0 \/ n \in 1..Len(s)
      BY <1>1
    <3> QED  BY <1>5, <3>1
  <2> HIDE DEF Rec
  <2> QED  BY <1>5, <2>1
<1>7. FilteredPrefixes(s, W) = [n \in 0..Len(s) |-> Rec(FilteredPrefixes(s, W), n)]
  <2>1. FilteredPrefixes(s, W) = CHOOSE g : g = [n \in 0..Len(s) |-> Rec(g, n)]
    BY DEF FilteredPrefixes
  <2> HIDE DEF Rec
  <2>2. \E g : g = [n \in 0..Len(s) |-> Rec(g, n)]
    BY <1>6
  <2> QED  BY <2>1, <2>2
<1>8. \A n \in 0..Len(s) : FilteredPrefixes(s, W)[n] = Rec(FilteredPrefixes(s, W), n)
  BY <1>7
<1> DEFINE U == {n \in Nat : n <= Len(s) => FilteredPrefixes(s, W)[n] \in Seq(S)}
<1>9. 0 \in U
  <2>1. FilteredPrefixes(s, W)[0] = <<>> /\ <<>> \in Seq(S)
    BY <1>1, <1>8
  <2> QED  BY <2>1
<1>10. ASSUME NEW n \in Nat, n \in U PROVE n + 1 \in U
  <2> SUFFICES ASSUME n + 1 <= Len(s) PROVE FilteredPrefixes(s, W)[n + 1] \in Seq(S)
    OBVIOUS
  <2>1. FilteredPrefixes(s, W)[n] \in Seq(S) /\ s[n + 1] \in S
    BY <1>1, <1>10
  <2>2. n + 1 \in 0..Len(s) /\ n + 1 # 0 /\ (n + 1) - 1 = n
    BY <1>1
  <2>3. FilteredPrefixes(s, W)[n + 1] = Rec(FilteredPrefixes(s, W), n + 1)
    BY <1>8, <2>2
  <2> QED  BY <2>1, <2>2, <2>3
<1>11. U = Nat
  <2> HIDE DEF U
  <2> QED  BY <1>9, <1>10, NatSetInduction DEF U
<1>12. FilteredPrefixes(s, W) \in [0..Len(s) -> Seq(S)]
  <2>1. \A n \in 0..Len(s) : FilteredPrefixes(s, W)[n] \in Seq(S)
    BY <1>1, <1>11
  <2> QED  BY <1>7, <2>1
<1>13. 0 \in 0..Len(s) /\ \A n \in 1..Len(s) : n \in 0..Len(s) /\ n # 0
  BY <1>1
<1> QED  BY <1>8, <1>12, <1>13

\* Where no element is wanted nothing is left.
LEMMA FilteredNone ==
  ASSUME NEW S, NEW s \in Seq(S)
  PROVE  Filtered(s, {}) = <<>>
<1> DEFINE f == FilteredPrefixes(s, {})
           T == {n \in Nat : n <= Len(s) => f[n] = <<>>}
<1>1. Len(s) \in Nat
  OBVIOUS
<1>2. f[0] = <<>> /\ \A n \in 1..Len(s) : f[n] = f[n - 1]
  BY FilteredStep
<1> HIDE DEF f
<1>3. 0 \in T
  BY <1>2
<1>4. ASSUME NEW n \in Nat, n \in T PROVE n + 1 \in T
  <2> SUFFICES ASSUME n + 1 <= Len(s) PROVE f[n + 1] = <<>>
    OBVIOUS
  <2>1. n + 1 \in 1..Len(s) /\ (n + 1) - 1 = n /\ f[n] = <<>>
    BY <1>1, <1>4
  <2> QED  BY <1>2, <2>1
<1>5. T = Nat
  <2> HIDE DEF T
  <2> QED  BY <1>3, <1>4, NatSetInduction DEF T
<1> QED  BY <1>1, <1>5 DEF Filtered, f

\* What is left are the wanted elements, related to the later ones as they were
\* in the sequence.
LEMMA FilteredMembers ==
  ASSUME NEW S, NEW s \in Seq(S), NEW W, NEW R,
         \A i, j \in 1..Len(s) : i < j => <<s[i], s[j]>> \in R
  PROVE  LET t == Filtered(s, W)
         IN  /\ t \in Seq(S)
             /\ {t[i] : i \in 1..Len(t)} = {s[i] : i \in 1..Len(s)} \cap W
             /\ \A i, j \in 1..Len(t) : i < j => <<t[i], t[j]>> \in R
<1> DEFINE f == FilteredPrefixes(s, W)
           Left(n) == {f[n][i] : i \in 1..Len(f[n])} = {s[i] : i \in 1..n} \cap W
           Related(n) == \A i, j \in 1..Len(f[n]) : i < j => <<f[n][i], f[n][j]>> \in R
           T == {n \in Nat : n <= Len(s) => Left(n) /\ Related(n)}
<1>1. Len(s) \in Nat /\ \A n \in 1..Len(s) : s[n] \in S
  OBVIOUS
<1>2. /\ \A n \in 0..Len(s) : f[n] \in Seq(S)
      /\ f[0] = <<>>
      /\ \A n \in 1..Len(s) : f[n] = IF s[n] \in W THEN Append(f[n - 1], s[n]) ELSE f[n - 1]
  BY FilteredStep
<1> HIDE DEF f
<1>3. 0 \in T
  <2>1. Left(0) /\ Related(0)
    BY <1>2
  <2> QED  BY <2>1
<1>4. ASSUME NEW n \in Nat, n \in T PROVE n + 1 \in T
  <2> SUFFICES ASSUME n + 1 <= Len(s) PROVE Left(n + 1) /\ Related(n + 1)
    <3> HIDE DEF Left, Related
    <3> QED  OBVIOUS
  <2>1. n \in 0..Len(s) /\ n + 1 \in 1..Len(s) /\ (n + 1) - 1 = n
    BY <1>1
  <2>2. Left(n) /\ Related(n)
    <3> HIDE DEF Left, Related
    <3> QED  BY <1>1, <1>4
  <2>3. f[n] \in Seq(S) /\ Len(f[n]) \in Nat
    BY <1>2, <2>1
  <2>4. {s[i] : i \in 1..(n + 1)} = {s[i] : i \in 1..n} \cup {s[n + 1]}
    <3>1. 1..(n + 1) = (1..n) \cup {n + 1}
      OBVIOUS
    <3> QED  BY <3>1
  <2>5. CASE s[n + 1] \notin W
    <3>1. f[n + 1] = f[n]
      BY <1>2, <2>1, <2>5
    <3> QED  BY <2>2, <2>4, <2>5, <3>1
  <2>6. CASE s[n + 1] \in W
    <3> DEFINE m == Len(f[n])
    <3>1. f[n + 1] = Append(f[n], s[n + 1])
      BY <1>2, <2>1, <2>6
    <3>2. /\ Len(f[n + 1]) = m + 1 /\ m \in Nat
          /\ f[n + 1][m + 1] = s[n + 1]
          /\ \A i \in 1..m : f[n + 1][i] = f[n][i]
      BY <1>1, <2>1, <2>3, <3>1
    <3>3. 1..(m + 1) = (1..m) \cup {m + 1}
      BY <3>2
    <3>4. Left(n + 1)
      <4>1. {f[n + 1][i] : i \in 1..(m + 1)} = {f[n][i] : i \in 1..m} \cup {s[n + 1]}
        <5> HIDE DEF m
        <5> QED  BY <3>2, <3>3
      <4> QED  BY <2>2, <2>4, <2>6, <3>2, <4>1
    <3>5. Related(n + 1)
      <4> SUFFICES ASSUME NEW i \in 1..(m + 1), NEW j \in 1..(m + 1), i < j
                   PROVE  <<f[n + 1][i], f[n + 1][j]>> \in R
        BY <3>2
      <4>1. i \in 1..m
        BY <3>2
      <4>2. CASE j \in 1..m
        BY <2>2, <3>2, <4>1, <4>2
      <4>3. CASE j = m + 1
        <5>1. f[n][i] \in {s[k] : k \in 1..n}
          BY <2>2, <4>1
        <5>2. PICK k \in 1..n : f[n][i] = s[k]
          BY <5>1
        <5>3. k \in 1..Len(s) /\ k < n + 1
          BY <1>1, <2>1
        <5>4. <<s[k], s[n + 1]>> \in R
          BY <2>1, <5>3
        <5> QED  BY <3>2, <4>1, <4>3, <5>2, <5>4
      <4> QED  BY <3>3, <4>2, <4>3
    <3> QED  BY <3>4, <3>5
  <2> QED  BY <2>5, <2>6
<1>5. T = Nat
  <2> HIDE DEF T
  <2> QED  BY <1>3, <1>4, NatSetInduction DEF T
<1>6. Left(Len(s)) /\ Related(Len(s))
  <2> HIDE DEF Left, Related
  <2>1. Len(s) \in T
    BY <1>1, <1>5
  <2> QED  BY <1>1, <2>1
<1>7. Filtered(s, W) = f[Len(s)]
  BY DEF Filtered, f
<1>8. f[Len(s)] \in Seq(S)
  BY <1>1, <1>2
<1> QED  BY <1>6, <1>7, <1>8

\* Nothing is added, and as much is left as there was only where everything is
\* wanted: then it is the same.
LEMMA FilteredAll ==
  ASSUME NEW S, NEW s \in Seq(S), NEW W
  PROVE  /\ Len(Filtered(s, W)) <= Len(s)
         /\ Len(Filtered(s, W)) = Len(s) => \A i \in 1..Len(s) : s[i] \in W
         /\ (\A i \in 1..Len(s) : s[i] \in W) => Filtered(s, W) = s
<1> DEFINE f == FilteredPrefixes(s, W)
           Shorter(n) == Len(f[n]) <= n /\ (Len(f[n]) = n => \A i \in 1..n : s[i] \in W)
           Same(n) == (\A i \in 1..n : s[i] \in W) =>
                         Len(f[n]) = n /\ \A i \in 1..n : f[n][i] = s[i]
           T == {n \in Nat : n <= Len(s) => Shorter(n) /\ Same(n)}
<1>1. Len(s) \in Nat /\ \A n \in 1..Len(s) : s[n] \in S
  OBVIOUS
<1>2. /\ \A n \in 0..Len(s) : f[n] \in Seq(S)
      /\ f[0] = <<>>
      /\ \A n \in 1..Len(s) : f[n] = IF s[n] \in W THEN Append(f[n - 1], s[n]) ELSE f[n - 1]
  BY FilteredStep
<1> HIDE DEF f
<1>3. 0 \in T
  <2>1. Len(f[0]) = 0 /\ 1..0 = {}
    BY <1>2
  <2> QED  BY <2>1
<1>4. ASSUME NEW n \in Nat, n \in T PROVE n + 1 \in T
  <2> SUFFICES ASSUME n + 1 <= Len(s) PROVE Shorter(n + 1) /\ Same(n + 1)
    <3> HIDE DEF Shorter, Same
    <3> QED  OBVIOUS
  <2>1. n \in 0..Len(s) /\ n + 1 \in 1..Len(s) /\ (n + 1) - 1 = n
    BY <1>1
  <2>2. Shorter(n) /\ Same(n)
    <3> HIDE DEF Shorter, Same
    <3> QED  BY <1>1, <1>4
  <2>3. f[n] \in Seq(S) /\ Len(f[n]) \in Nat
    BY <1>2, <2>1
  <2>4. 1..(n + 1) = (1..n) \cup {n + 1}
    OBVIOUS
  <2>5. CASE s[n + 1] \notin W
    <3>1. f[n + 1] = f[n]
      BY <1>2, <2>1, <2>5
    <3> QED  BY <2>2, <2>3, <2>4, <2>5, <3>1
  <2>6. CASE s[n + 1] \in W
    <3> DEFINE m == Len(f[n])
    <3>1. f[n + 1] = Append(f[n], s[n + 1])
      BY <1>2, <2>1, <2>6
    <3>2. /\ Len(f[n + 1]) = m + 1 /\ m \in Nat
          /\ f[n + 1][m + 1] = s[n + 1]
          /\ \A i \in 1..m : f[n + 1][i] = f[n][i]
      BY <1>1, <2>1, <2>3, <3>1
    <3>3. Shorter(n + 1)
      BY <2>2, <2>4, <2>6, <3>2
    <3>4. Same(n + 1)
      BY <2>2, <2>4, <2>6, <3>2
    <3> QED  BY <3>3, <3>4
  <2> QED  BY <2>5, <2>6
<1>5. T = Nat
  <2> HIDE DEF T
  <2> QED  BY <1>3, <1>4, NatSetInduction DEF T
<1>6. Shorter(Len(s)) /\ Same(Len(s))
  <2> HIDE DEF Shorter, Same
  <2>1. Len(s) \in T
    BY <1>1, <1>5
  <2> QED  BY <1>1, <2>1
<1>7. Filtered(s, W) = f[Len(s)]
  BY DEF Filtered, f
<1> DEFINE t == f[Len(s)]
<1>8. t \in Seq(S)
  BY <1>1, <1>2
<1>9. (\A i \in 1..Len(s) : s[i] \in W) => t = s
  <2>1. (\A i \in 1..Len(s) : s[i] \in W) => Len(t) = Len(s) /\ \A i \in 1..Len(s) : t[i] = s[i]
    BY <1>6
  <2> HIDE DEF t
  <2> QED  BY <1>8, <2>1
<1> QED  BY <1>6, <1>7, <1>9

\* Sets that have the same elements of a sequence filter it alike.
LEMMA FilteredSame ==
  ASSUME NEW S, NEW s \in Seq(S), NEW A, NEW B, \A i \in 1..Len(s) : s[i] \in A <=> s[i] \in B
  PROVE  Filtered(s, A) = Filtered(s, B)
<1> DEFINE f == FilteredPrefixes(s, A)
           g == FilteredPrefixes(s, B)
           T == {n \in Nat : n <= Len(s) => f[n] = g[n]}
<1>1. Len(s) \in Nat
  OBVIOUS
<1>2. /\ f[0] = <<>>
      /\ \A n \in 1..Len(s) : f[n] = IF s[n] \in A THEN Append(f[n - 1], s[n]) ELSE f[n - 1]
  BY FilteredStep
<1>3. /\ g[0] = <<>>
      /\ \A n \in 1..Len(s) : g[n] = IF s[n] \in B THEN Append(g[n - 1], s[n]) ELSE g[n - 1]
  BY FilteredStep
<1> HIDE DEF f, g
<1>4. 0 \in T
  BY <1>2, <1>3
<1>5. ASSUME NEW n \in Nat, n \in T PROVE n + 1 \in T
  <2> SUFFICES ASSUME n + 1 <= Len(s) PROVE f[n + 1] = g[n + 1]
    OBVIOUS
  <2>1. n + 1 \in 1..Len(s) /\ (n + 1) - 1 = n /\ f[n] = g[n]
    BY <1>1, <1>5
  <2> QED  BY <1>2, <1>3, <2>1
<1>6. T = Nat
  <2> HIDE DEF T
  <2> QED  BY <1>4, <1>5, NatSetInduction DEF T
<1> QED  BY <1>1, <1>6 DEF Filtered, f, g

\* What is left of two sequences, one after the other, is what is left of each.
LEMMA FilteredJoined ==
  ASSUME NEW S, NEW W
  PROVE  \A a, b \in Seq(S) : Filtered(a \o b, W) = Filtered(a, W) \o Filtered(b, W)
<1>0. \A s, t \in Seq(S) : \A x \in S : Append(s \o t, x) = s \o Append(t, x)
  OBVIOUS
<1> TAKE a, b \in Seq(S)
<1> DEFINE c == a \o b  m == Len(a)  n == Len(b)
           f == FilteredPrefixes(c, W)
           g == FilteredPrefixes(a, W)
           k == FilteredPrefixes(b, W)
           T == {i \in Nat : i <= m => f[i] = g[i]}
           Both(j) == f[m + j] = g[m] \o k[j]
           U == {j \in Nat : j <= n => Both(j)}
<1>1. /\ c \in Seq(S) /\ m \in Nat /\ n \in Nat /\ Len(c) = m + n
      /\ \A i \in 1..m : c[i] = a[i]
      /\ \A j \in 1..n : c[m + j] = b[j] /\ b[j] \in S
  OBVIOUS
<1>2. /\ f[0] = <<>>
      /\ \A i \in 1..(m + n) : f[i] = IF c[i] \in W THEN Append(f[i - 1], c[i]) ELSE f[i - 1]
  <2> HIDE DEF c, m, n, g, k
  <2>0. c \in Seq(S)
    BY <1>1
  <2>1. /\ f[0] = <<>>
        /\ \A i \in 1..Len(c) : f[i] = IF c[i] \in W THEN Append(f[i - 1], c[i]) ELSE f[i - 1]
    BY <2>0, FilteredStep
  <2> HIDE DEF f
  <2> QED  BY <1>1, <2>1
<1>3. /\ g \in [0..m -> Seq(S)] /\ g[0] = <<>>
      /\ \A i \in 1..m : g[i] = IF a[i] \in W THEN Append(g[i - 1], a[i]) ELSE g[i - 1]
  BY FilteredStep
<1>4. /\ k \in [0..n -> Seq(S)] /\ k[0] = <<>>
      /\ \A j \in 1..n : k[j] = IF b[j] \in W THEN Append(k[j - 1], b[j]) ELSE k[j - 1]
  BY FilteredStep
<1>5. Filtered(c, W) = f[m + n] /\ Filtered(a, W) = g[m] /\ Filtered(b, W) = k[n]
  BY <1>1 DEF Filtered
<1> HIDE DEF c, m, n, f, g, k
<1>6. T = Nat
  <2>1. 0 \in T
    BY <1>2, <1>3
  <2>2. ASSUME NEW i \in Nat, i \in T PROVE i + 1 \in T
    <3> SUFFICES ASSUME i + 1 <= m PROVE f[i + 1] = g[i + 1]
      OBVIOUS
    <3>1. i + 1 \in 1..m /\ i + 1 \in 1..(m + n) /\ (i + 1) - 1 = i /\ f[i] = g[i]
      BY <1>1, <2>2
    <3>2. f[i + 1] = IF c[i + 1] \in W THEN Append(f[i], c[i + 1]) ELSE f[i]
      BY <1>2, <3>1
    <3>3. g[i + 1] = IF a[i + 1] \in W THEN Append(g[i], a[i + 1]) ELSE g[i]
      BY <1>3, <3>1
    <3>4. c[i + 1] = a[i + 1] /\ f[i] = g[i]
      BY <1>1, <3>1
    <3> QED  BY <3>2, <3>3, <3>4
  <2> HIDE DEF T
  <2> QED  BY <2>1, <2>2, NatSetInduction DEF T
<1>7. U = Nat
  <2>1. 0 \in U
    <3>1. m \in Nat /\ m <= m /\ m + 0 = m /\ g[m] \in Seq(S)
      BY <1>1, <1>3
    <3>2. f[m] = g[m]
      BY <1>6, <3>1
    <3>3. g[m] \o <<>> = g[m]
      BY <3>1
    <3> QED  BY <1>4, <3>1, <3>2, <3>3
  <2>2. ASSUME NEW j \in Nat, j \in U PROVE j + 1 \in U
    <3> SUFFICES ASSUME j + 1 <= n PROVE Both(j + 1)
      <4> HIDE DEF Both
      <4> QED  OBVIOUS
    <3>1. /\ j + 1 \in 1..n /\ j \in 0..n /\ m \in 0..m /\ m + (j + 1) \in 1..(m + n)
          /\ (j + 1) - 1 = j /\ (m + (j + 1)) - 1 = m + j /\ j <= n
      <4> HIDE DEF Both
      <4> QED  BY <1>1
    <3> DEFINE x == b[j + 1]  s == g[m]  t == k[j]
    <3>0. f[m + j] = s \o t
      BY <2>2, <3>1
    <3>2. x \in S /\ c[m + (j + 1)] = x
      BY <1>1, <3>1
    <3>3. f[m + (j + 1)] = IF x \in W THEN Append(s \o t, x) ELSE s \o t
      <4>1. f[m + (j + 1)] = IF x \in W THEN Append(f[m + j], x) ELSE f[m + j]
        BY <1>2, <3>1, <3>2
      <4> HIDE DEF s, t, x
      <4> QED  BY <3>0, <4>1
    <3>4. k[j + 1] = IF x \in W THEN Append(t, x) ELSE t
      BY <1>4, <3>1
    <3>5. s \in Seq(S) /\ t \in Seq(S)
      BY <1>3, <1>4, <3>1
    <3>6. x \in S
      BY <3>2
    <3> HIDE DEF x, s, t
    <3>7. Append(s \o t, x) = s \o Append(t, x)
      <4> HIDE DEF T, U, Both
      <4> QED  BY <1>0, <3>5, <3>6, Zenon
    <3> QED  BY <3>3, <3>4, <3>7 DEF s, t
  <2> HIDE DEF U
  <2> QED  BY <2>1, <2>2, NatSetInduction DEF U
<1>8. Both(n)
  <2>1. n \in U /\ n <= n
    <3> HIDE DEF U
    <3> QED  BY <1>1, <1>7
  <2> QED  BY <2>1
<1> QED  BY <1>5, <1>8 DEF c
=============================================================================
