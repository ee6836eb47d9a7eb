--------------------------- MODULE CommandsProofs ---------------------------
(***************************************************************************)
(* Theorems about Commands, for every command line, configuration,         *)
(* environment and answer.                                                 *)
(***************************************************************************)
EXTENDS Commands, FilteringProofs, FiniteSetTheorems

-----------------------------------------------------------------------------
(***************************************************************************)
(* The steps of a command.                                                 *)
(***************************************************************************)
CommandNames == {"search", "fields", "ping", "get-contexts", "view", "init", "version"}

\* The place of a call among those of any command.
Rank == [step \in {"flags", "load", "format", "connect", "send", "receive", "render"} |->
            CASE step = "flags" -> 1 [] step = "load" -> 2 [] step = "format" -> 3
              [] step = "connect" -> 4 [] step = "send" -> 5 [] step = "receive" -> 6
              [] step = "render" -> 7]

Calls(command) == Range(Steps(command))

\* The ranks, one by one.
LEMMA RankOf ==
  /\ Rank["flags"] = 1 /\ Rank["load"] = 2 /\ Rank["format"] = 3 /\ Rank["connect"] = 4
  /\ Rank["send"] = 5 /\ Rank["receive"] = 6 /\ Rank["render"] = 7
  BY DEF Rank

\* The calls of a command are in the order of their ranks.
LEMMA StepsOrder ==
  ASSUME NEW c \in CommandNames
  PROVE  LET s == Steps(c)
         IN  /\ Len(s) \in Nat /\ s \in [1..Len(s) -> DOMAIN Rank]
             /\ \A i, j \in 1..Len(s) : i < j => Rank[s[i]] < Rank[s[j]]
             /\ Rank \in [DOMAIN Rank -> 1..7]
             /\ "send" \in Calls(c) => {"connect", "load"} \subseteq Calls(c)
             /\ "connect" \in Calls(c) => "load" \in Calls(c)
             /\ "flags" \in Calls(c) <=> c \in {"search", "fields"}
             /\ "send" \in Calls(c) <=> c \in {"search", "fields", "ping"}
             /\ "receive" \in Calls(c) <=> c \in {"search", "fields", "ping"}
             /\ "load" \in Calls(c) => c \in {"search", "fields", "ping", "get-contexts", "view"}
             /\ "connect" \in Calls(c) => c \in {"search", "fields", "ping"}
             /\ "format" \in Calls(c) => c \in {"search", "fields", "get-contexts", "view", "init"}
<1> DEFINE s == Steps(c)
<1>1. Rank \in [DOMAIN Rank -> 1..7]
  BY DEF Rank
<1>2. DOMAIN Rank = {"flags", "load", "format", "connect", "send", "receive", "render"}
  BY DEF Rank
<1>3. CASE c \in {"search", "fields"}
  <2>1. s = <<"flags", "load", "format", "connect", "send", "receive", "render">>
    BY <1>3 DEF Steps
  <2> HIDE DEF s
  <2>2. /\ Len(s) = 7 /\ DOMAIN s = 1..7 /\ s = [i \in 1..7 |-> s[i]]
        /\ s[1] = "flags" /\ s[2] = "load" /\ s[3] = "format" /\ s[4] = "connect"
        /\ s[5] = "send" /\ s[6] = "receive" /\ s[7] = "render"
    BY <2>1
  <2>3. \A i \in 1..7 : s[i] \in DOMAIN Rank /\ Rank[s[i]] = i
    BY <1>2, <2>2, RankOf
  <2>4. Range(s) = DOMAIN Rank
    BY <1>2, <2>2, <2>3 DEF Range
  <2> QED  BY <1>1, <1>2, <1>3, <2>2, <2>3, <2>4 DEF s, Calls
<1>4. CASE c = "ping"
  <2>1. s = <<"load", "connect", "send", "receive", "render">>
    BY <1>4 DEF Steps
  <2> HIDE DEF s
  <2>2. /\ Len(s) = 5 /\ DOMAIN s = 1..5 /\ s = [i \in 1..5 |-> s[i]]
        /\ s[1] = "load" /\ s[2] = "connect"
        /\ s[3] = "send" /\ s[4] = "receive" /\ s[5] = "render"
    BY <2>1
  <2>3. /\ \A i \in 1..5 : s[i] \in DOMAIN Rank
        /\ Rank[s[1]] = 2 /\ Rank[s[2]] = 4 /\ Rank[s[3]] = 5 /\ Rank[s[4]] = 6 /\ Rank[s[5]] = 7
    BY <1>2, <2>2, RankOf
  <2>4. \A i, j \in 1..5 : i < j => Rank[s[i]] < Rank[s[j]]
    BY <2>3
  <2>5. Range(s) = {"load", "connect", "send", "receive", "render"}
    BY <2>2 DEF Range
  <2>6. Len(s) \in Nat /\ s \in [1..Len(s) -> DOMAIN Rank]
        /\ \A i, j \in 1..Len(s) : i < j => Rank[s[i]] < Rank[s[j]]
    BY <2>2, <2>3, <2>4
  <2> QED  BY <1>1, <1>4, <2>5, <2>6 DEF s, Calls
<1>5. CASE c \in {"get-contexts", "view"}
  <2>1. s = <<"load", "format", "render">>
    BY <1>5 DEF Steps
  <2> HIDE DEF s
  <2>2. /\ Len(s) = 3 /\ DOMAIN s = 1..3 /\ s = [i \in 1..3 |-> s[i]]
        /\ s[1] = "load" /\ s[2] = "format" /\ s[3] = "render"
    BY <2>1
  <2>3. /\ \A i \in 1..3 : s[i] \in DOMAIN Rank
        /\ Rank[s[1]] = 2 /\ Rank[s[2]] = 3 /\ Rank[s[3]] = 7
    BY <1>2, <2>2, RankOf
  <2>4. Range(s) = {"load", "format", "render"}
    BY <2>2 DEF Range
  <2> QED  BY <1>1, <1>5, <2>2, <2>3, <2>4 DEF s, Calls
<1>6. CASE c = "init"
  <2>1. s = <<"format", "render">>
    BY <1>6 DEF Steps
  <2> HIDE DEF s
  <2>2. /\ Len(s) = 2 /\ DOMAIN s = 1..2 /\ s = [i \in 1..2 |-> s[i]]
        /\ s[1] = "format" /\ s[2] = "render"
    BY <2>1
  <2>3. \A i \in 1..2 : s[i] \in DOMAIN Rank
    BY <1>2, <2>2
  <2>4. Range(s) = {"format", "render"}
    BY <2>2 DEF Range
  <2>5. Len(s) \in Nat /\ s \in [1..Len(s) -> DOMAIN Rank]
        /\ \A i, j \in 1..Len(s) : i < j => Rank[s[i]] < Rank[s[j]]
    BY <2>2, <2>3, RankOf
  <2> QED  BY <1>1, <1>6, <2>4, <2>5 DEF s, Calls
<1>7. CASE c = "version"
  <2>1. s = <<"render">>
    BY <1>7 DEF Steps
  <2> HIDE DEF s
  <2>2. /\ Len(s) = 1 /\ DOMAIN s = 1..1 /\ s = [i \in 1..1 |-> s[i]] /\ s[1] = "render"
    BY <2>1
  <2>3. Range(s) = {"render"} /\ \A i \in 1..1 : s[i] \in DOMAIN Rank
    BY <1>2, <2>2 DEF Range
  <2> QED  BY <1>1, <1>7, <2>2, <2>3 DEF s, Calls
<1> QED  BY <1>3, <1>4, <1>5, <1>6, <1>7 DEF CommandNames

\* Before a call is made, the calls behind are those of lesser rank.
LEMMA BehindAt ==
  ASSUME inv.command \in CommandNames, TodoInv, todo # <<>>
  PROVE  /\ todo[1] \in Calls(inv.command) /\ todo[1] \in DOMAIN Rank
         /\ \A x \in DOMAIN Rank :
               Behind(x) <=> x \in Calls(inv.command) /\ Rank[x] < Rank[todo[1]]
<1> DEFINE s == Steps(inv.command)
           n == Len(s)
           k == n - Len(todo)
<1>1. /\ n \in Nat /\ s \in [1..n -> DOMAIN Rank] /\ Rank \in [DOMAIN Rank -> 1..7]
      /\ \A i, j \in 1..n : i < j => Rank[s[i]] < Rank[s[j]]
  BY StepsOrder
<1>2. s \in Seq(DOMAIN Rank) /\ Len(todo) <= n /\ todo = SubSeq(s, k + 1, n)
  <2>1. s \in Seq(DOMAIN Rank)
    <3> HIDE DEF s
    <3> QED  BY <1>1
  <2>2. Len(todo) <= n /\ todo = SubSeq(s, k + 1, n)
    BY DEF TodoInv
  <2> QED  BY <2>1, <2>2
<1> HIDE DEF s
<1>3. Len(todo) \in Nat /\ Len(todo) # 0
  BY <1>1, <1>2
<1>4. k \in Nat /\ k + 1 \in 1..n
  BY <1>1, <1>2, <1>3
<1>5. todo[1] = s[k + 1]
  BY <1>1, <1>2, <1>3, <1>4
<1>6. todo[1] \in DOMAIN Rank /\ todo[1] \in Range(s)
  BY <1>1, <1>4, <1>5 DEF Range
<1>7. ASSUME NEW x \in DOMAIN Rank
      PROVE  (\E j \in 1..k : s[j] = x) <=> x \in Range(s) /\ Rank[x] < Rank[todo[1]]
  <2>1. ASSUME NEW j \in 1..k, s[j] = x PROVE x \in Range(s) /\ Rank[x] < Rank[todo[1]]
    <3>1. j \in 1..n /\ j < k + 1
      BY <1>1, <1>4
    <3>2. x \in Range(s)
      BY <1>1, <2>1, <3>1 DEF Range
    <3>3. Rank[s[j]] < Rank[s[k + 1]]
      BY <1>1, <1>4, <3>1
    <3> QED  BY <1>5, <2>1, <3>2, <3>3
  <2>2. ASSUME x \in Range(s), Rank[x] < Rank[todo[1]] PROVE \E j \in 1..k : s[j] = x
    <3>1. PICK j \in 1..n : s[j] = x
      BY <1>1, <2>2 DEF Range
    <3>2. ~ (k + 1 < j) /\ j # k + 1
      <4>1. k + 1 < j => Rank[s[k + 1]] < Rank[s[j]]
        BY <1>1, <1>4
      <4>2. Rank[s[j]] < Rank[s[k + 1]] /\ Rank[s[j]] \in Int /\ Rank[s[k + 1]] \in Int
        BY <1>1, <1>4, <1>5, <2>2, <3>1
      <4> QED  BY <4>1, <4>2
    <3>3. j \in 1..k
      BY <1>1, <1>4, <3>2
    <3> QED  BY <3>1, <3>3
  <2> QED  BY <2>1, <2>2
<1> QED  BY <1>6, <1>7 DEF Behind, Calls, s

\* At the end all of them are behind.
LEMMA BehindEnd ==
  ASSUME inv.command \in CommandNames, todo = <<>>
  PROVE  \A x : Behind(x) <=> x \in Calls(inv.command)
<1> DEFINE s == Steps(inv.command)
<1>1. DOMAIN s = 1..Len(s) /\ Len(s) \in Nat
  BY StepsOrder
<1>2. Len(todo) = 0
  OBVIOUS
<1> QED  BY <1>1, <1>2 DEF Behind, Calls, Range

\* A call that succeeds puts itself behind.
LEMMA StepOn ==
  ASSUME inv.command \in CommandNames, TodoInv, todo # <<>>, todo' = Tail(todo), inv' = inv
  PROVE  TodoInv' /\ \A x : Behind(x)' <=> Behind(x) \/ x = todo[1]
<1> DEFINE s == Steps(inv.command)
           n == Len(s)
           k == n - Len(todo)
<1>1. /\ n \in Nat /\ s \in [1..n -> DOMAIN Rank]
  BY StepsOrder
<1>2. s \in Seq(DOMAIN Rank) /\ Len(todo) <= n /\ todo = SubSeq(s, k + 1, n)
  <2>1. s \in Seq(DOMAIN Rank)
    <3> HIDE DEF s
    <3> QED  BY <1>1
  <2>2. Len(todo) <= n /\ todo = SubSeq(s, k + 1, n)
    BY DEF TodoInv
  <2> QED  BY <2>1, <2>2
<1> HIDE DEF s
<1>3. Len(todo) \in Nat /\ Len(todo) # 0
  BY <1>1, <1>2
<1>4. k \in Nat /\ k + 1 \in 1..n
  BY <1>1, <1>2, <1>3
<1>5. todo[1] = s[k + 1]
  BY <1>1, <1>2, <1>3, <1>4
<1>6. Len(todo') = Len(todo) - 1 /\ todo' = SubSeq(s, k + 2, n)
  BY <1>1, <1>2, <1>3, <1>4
<1>7. n - Len(todo') = k + 1 /\ Len(todo') <= n /\ (n - Len(todo')) + 1 = k + 2
  BY <1>1, <1>2, <1>3, <1>6
<1>8. 1..(k + 1) = (1..k) \cup {k + 1}
  BY <1>4
<1>9. TodoInv'
  BY <1>6, <1>7 DEF TodoInv, s
<1>10. ASSUME NEW x PROVE Behind(x)' <=> Behind(x) \/ x = todo[1]
  <2>1. Behind(x)' <=> \E j \in 1..(k + 1) : s[j] = x
    <3>1. Behind(x)' <=> \E j \in 1..(n - Len(todo')) : s[j] = x
      BY DEF Behind, s
    <3> QED  BY <1>7, <3>1
  <2>2. Behind(x) <=> \E j \in 1..k : s[j] = x
    BY DEF Behind, s
  <2> HIDE DEF k
  <2> QED  BY <1>5, <1>8, <2>1, <2>2
<1> QED  BY <1>9, <1>10

-----------------------------------------------------------------------------
(***************************************************************************)
(* The configuration file and the context.                                 *)
(***************************************************************************)
\* What is first of three things when some are left out.
LEMMA FirstOfThree ==
  ASSUME NEW S, NEW a \in S, NEW b \in S, NEW c \in S, NEW N
  PROVE  LET t == Filtered(<<a, b, c>>, N)
         IN  /\ a \in N => t # <<>> /\ t[1] = a
             /\ a \notin N /\ b \in N => t # <<>> /\ t[1] = b
             /\ a \notin N /\ b \notin N /\ c \in N => t # <<>> /\ t[1] = c
             /\ a \notin N /\ b \notin N /\ c \notin N => t = <<>>
<1> DEFINE s == <<a, b, c>>
           f == FilteredPrefixes(s, N)
<1>1. s \in Seq(S) /\ Len(s) = 3 /\ s[1] = a /\ s[2] = b /\ s[3] = c
  OBVIOUS
<1>2. Filtered(s, N) = f[3]
  BY <1>1 DEF Filtered
<1> HIDE DEF s
<1>3. /\ f \in [0..3 -> Seq(S)]
      /\ f[0] = <<>>
      /\ \A n \in 1..3 : f[n] = IF s[n] \in N THEN Append(f[n - 1], s[n]) ELSE f[n - 1]
  <2>1. f \in [0..Len(s) -> Seq(S)]
        /\ f[0] = <<>>
        /\ \A n \in 1..Len(s) : f[n] = IF s[n] \in N THEN Append(f[n - 1], s[n]) ELSE f[n - 1]
    <3> HIDE DEF f
    <3>1. \A W : LET g == FilteredPrefixes(s, W)
                 IN  /\ g \in [0..Len(s) -> Seq(S)]
                     /\ g[0] = <<>>
                     /\ \A n \in 1..Len(s) :
                           g[n] = IF s[n] \in W THEN Append(g[n - 1], s[n]) ELSE g[n - 1]
      BY <1>1, FilteredStep
    <3> QED  BY <3>1 DEF f
  <2> HIDE DEF f
  <2> QED  BY <1>1, <2>1
<1> HIDE DEF f
<1>4. /\ f[1] = IF a \in N THEN Append(f[0], a) ELSE f[0]
      /\ f[2] = IF b \in N THEN Append(f[1], b) ELSE f[1]
      /\ f[3] = IF c \in N THEN Append(f[2], c) ELSE f[2]
  <2>1. 1 - 1 = 0 /\ 2 - 1 = 1 /\ 3 - 1 = 2 /\ 1 \in 1..3 /\ 2 \in 1..3 /\ 3 \in 1..3
    OBVIOUS
  <2> QED  BY <1>1, <1>3, <2>1
<1>5. f[1] \in Seq(S) /\ f[2] \in Seq(S) /\ f[3] \in Seq(S)
  BY <1>3
<1>6. ASSUME NEW t \in Seq(S), NEW x \in S
      PROVE  /\ Append(t, x) # <<>>
             /\ t = <<>> => Append(t, x)[1] = x
             /\ t # <<>> => Append(t, x)[1] = t[1]
  <2>1. Append(t, x) \in Seq(S) /\ Len(Append(t, x)) = Len(t) + 1 /\ Len(t) \in Nat
    OBVIOUS
  <2>2. Append(t, x) # <<>>
    BY <2>1
  <2>3. CASE t = <<>>
    BY <2>3
  <2>4. CASE t # <<>>
    BY <2>4
  <2> QED  BY <2>2, <2>3, <2>4
<1>7. a \in N => f[1] # <<>> /\ f[1][1] = a
  BY <1>3, <1>4, <1>6
<1>8. a \notin N => f[1] = <<>>
  BY <1>3, <1>4
<1>9. a \in N => f[2] # <<>> /\ f[2][1] = a
  BY <1>4, <1>5, <1>6, <1>7
<1>10. a \notin N /\ b \in N => f[2] # <<>> /\ f[2][1] = b
  BY <1>4, <1>5, <1>6, <1>8
<1>11. a \notin N /\ b \notin N => f[2] = <<>>
  BY <1>4, <1>8
<1>12. f[2] # <<>> => f[3] # <<>> /\ f[3][1] = f[2][1]
  BY <1>4, <1>5, <1>6
<1>13. f[2] = <<>> /\ c \in N => f[3] # <<>> /\ f[3][1] = c
  <2>1. c \in N => f[3] = Append(f[2], c)
    BY <1>4
  <2>2. Append(f[2], c) # <<>> /\ (f[2] = <<>> => Append(f[2], c)[1] = c)
    BY <1>5, <1>6
  <2> DEFINE z == f[2]  y == f[3]
  <2> HIDE DEF z, y
  <2>3. ASSUME z = <<>>, c \in N PROVE y # <<>> /\ y[1] = c
    BY <2>1, <2>2, <2>3 DEF y, z
  <2> QED  BY <2>3 DEF y, z
<1>14. f[2] = <<>> /\ c \notin N => f[3] = <<>>
  BY <1>4
<1> QED  BY <1>2, <1>9, <1>10, <1>11, <1>12, <1>13, <1>14 DEF s

\* The first place that is named, or the home directory.
LEMMA PathResolved ==
  ASSUME NEW N
  PROVE  ResolvePath(N) = IF "flag" \in N THEN "flag"
                          ELSE IF "ES_LOG_CONFIG" \in N THEN "ES_LOG_CONFIG"
                          ELSE IF "XDG_CONFIG_HOME" \in N THEN "XDG_CONFIG_HOME" ELSE "home"
<1> DEFINE t == Filtered(ConfigPlaces, N)
<1>1. /\ "flag" \in N => t # <<>> /\ t[1] = "flag"
      /\ "flag" \notin N /\ "ES_LOG_CONFIG" \in N => t # <<>> /\ t[1] = "ES_LOG_CONFIG"
      /\ "flag" \notin N /\ "ES_LOG_CONFIG" \notin N /\ "XDG_CONFIG_HOME" \in N =>
            t # <<>> /\ t[1] = "XDG_CONFIG_HOME"
      /\ "flag" \notin N /\ "ES_LOG_CONFIG" \notin N /\ "XDG_CONFIG_HOME" \notin N => t = <<>>
  <2> DEFINE S == {"flag", "ES_LOG_CONFIG", "XDG_CONFIG_HOME"}
  <2>1. "flag" \in S /\ "ES_LOG_CONFIG" \in S /\ "XDG_CONFIG_HOME" \in S
    OBVIOUS
  <2> HIDE DEF S
  <2> QED  BY <2>1, FirstOfThree DEF ConfigPlaces
<1>2. ResolvePath(N) = IF t = <<>> THEN "home" ELSE t[1]
  BY DEF ResolvePath
<1> HIDE DEF t
<1> QED  BY <1>1, <1>2

\* It is the file the properties speak of.
LEMMA FileFound ==
  ASSUME inv \in Invocation
  PROVE  /\ inv.files[ResolvePath(inv.named)] = ConfigFile
         /\ ConfigFile \in [state : STRING, contexts : Seq(Context)]
<1>1. inv.files[ResolvePath(inv.named)] = ConfigFile
  BY PathResolved DEF ConfigFile
<1>2. Range(ConfigPlaces) = {"flag", "ES_LOG_CONFIG", "XDG_CONFIG_HOME"}
  <2> DEFINE s == ConfigPlaces
  <2>1. DOMAIN s = 1..3 /\ s[1] = "flag" /\ s[2] = "ES_LOG_CONFIG" /\ s[3] = "XDG_CONFIG_HOME"
    BY DEF ConfigPlaces
  <2> HIDE DEF s
  <2> QED  BY <2>1 DEF Range, s
<1>3. inv.files \in [Range(ConfigPlaces) \cup {"home"} -> [state : STRING, contexts : Seq(Context)]]
  BY DEF Invocation
<1> QED  BY <1>1, <1>2, <1>3 DEF ConfigFile

\* A set of natural numbers that is not empty has a least one.
LEMMA LeastOf ==
  ASSUME NEW S \in SUBSET Nat, S # {}
  PROVE  Min(S) \in S /\ \A x \in S : Min(S) <= x
<1>1. PICK x \in S : \A y \in S : ~ (<<y, x>> \in OpToRel(<, Nat))
  BY WFMin, NatLessThanWellFounded
<1>2. \A y \in S : x <= y
  <2> SUFFICES ASSUME NEW y \in S PROVE x <= y
    OBVIOUS
  <2>1. y \in Nat /\ x \in Nat /\ ~ (y < x)
    BY <1>1 DEF OpToRel
  <2> QED  BY <2>1
<1> QED  BY <1>2 DEF Min

\* The context chosen is the first of those with the selected name.
LEMMA ChosenIsSelected ==
  ASSUME inv \in Invocation, contexts = ConfigFile.contexts
  PROVE  \/ Chosen = <<>> /\ \A i \in DOMAIN ConfigFile.contexts : ~Selected(i)
         \/ \E i \in DOMAIN ConfigFile.contexts :
               /\ Selected(i) /\ Chosen = <<ConfigFile.contexts[i]>>
               /\ \A j \in DOMAIN ConfigFile.contexts : Selected(j) => j = i
<1> DEFINE C == ConfigFile.contexts
           name == resolveContextName(inv.context, inv.contextVar)
           found == {i \in DOMAIN C : C[i].name = name}
           named(j) == /\ C[j].name # ""
                       /\ \/ C[j].name = inv.context
                          \/ inv.context = "" /\ C[j].name = inv.contextVar
<1>1. C \in Seq(Context) /\ DOMAIN C = 1..Len(C) /\ Len(C) \in Nat
  BY FileFound
<1>2. \A j : named(j) <=> name # "" /\ C[j].name = name
  <2>1. name = IF inv.context # "" THEN inv.context ELSE inv.contextVar
    BY DEF resolveContextName
  <2> SUFFICES ASSUME NEW j PROVE named(j) <=> name # "" /\ C[j].name = name
    OBVIOUS
  <2> DEFINE x == C[j].name  flag == inv.context  variable == inv.contextVar
  <2>2. named(j) <=> x # "" /\ (x = flag \/ (flag = "" /\ x = variable))
    BY Zenon
  <2> HIDE DEF C, name, x, flag, variable, named
  <2>3. name = IF flag # "" THEN flag ELSE variable
    BY <2>1 DEF flag, variable
  <2>4. (x # "" /\ (x = flag \/ (flag = "" /\ x = variable))) <=> (name # "" /\ x = name)
    <3>1. CASE flag = ""
      BY <2>3, <3>1
    <3>2. CASE flag # ""
      BY <2>3, <3>2
    <3> QED  BY <3>1, <3>2
  <2> QED  BY <2>2, <2>4, Zenon DEF x
<1>3. \A i : Selected(i) <=> named(i) /\ \A j \in 1..(i - 1) : ~named(j)
  BY DEF Selected
<1>4. Chosen = IF name = "" \/ found = {} THEN <<>> ELSE <<C[Min(found)]>>
  BY DEF Chosen, Find
<1> HIDE DEF C, name
<1>5. CASE name = "" \/ found = {}
  <2>1. Chosen = <<>>
    BY <1>4, <1>5
  <2>2. \A i \in DOMAIN C : ~named(i)
    BY <1>2, <1>5
  <2> QED  BY <1>3, <2>1, <2>2 DEF C
<1>6. CASE name # "" /\ found # {}
  <2> DEFINE i == Min(found)
  <2>1. found \in SUBSET Nat
    BY <1>1
  <2>2. i \in found /\ \A j \in found : i <= j
    <3> HIDE DEF found
    <3> QED  BY <1>6, <2>1, LeastOf
  <2>3. Chosen = <<C[i]>>
    BY <1>4, <1>6
  <2> HIDE DEF i, found
  <2>4. \A j \in DOMAIN C : named(j) <=> j \in found
    BY <1>2, <1>6 DEF found
  <2> HIDE DEF named
  <2>5. i \in DOMAIN C /\ i \in Nat /\ \A j \in DOMAIN C : j \in Nat
    BY <1>1, <2>2 DEF found
  <2>6. \A j \in 1..(i - 1) : j \in DOMAIN C /\ ~ (i <= j)
    BY <1>1, <2>5
  <2>7. Selected(i)
    BY <1>3, <2>2, <2>4, <2>5, <2>6
  <2>8. ASSUME NEW j \in DOMAIN C, Selected(j) PROVE j = i
    <3>1. j \in found /\ i <= j /\ \A k \in 1..(j - 1) : ~named(k)
      BY <1>3, <2>2, <2>4, <2>8
    <3>2. i \notin 1..(j - 1)
      BY <2>2, <2>4, <2>5, <3>1
    <3> QED  BY <1>1, <2>5, <3>1, <3>2
  <2> QED  BY <2>3, <2>5, <2>7, <2>8 DEF C
<1> QED  BY <1>5, <1>6
-----------------------------------------------------------------------------
(***************************************************************************)
(* The inductive invariant.                                                *)
(***************************************************************************)
USE DEF NoExit, exitOK, exitPartial, exitUsage, exitConn, exitNotFound

\* An invocation is of one of the commands.
LEMMA Commanded ==
  ASSUME inv \in Invocation
  PROVE  inv.command \in CommandNames
  BY DEF Invocation, CommandNames

\* What depends on what: the calls that are behind, the context, the request.
LEMMA BehindKept ==
  ASSUME inv' = inv, todo' = todo
  PROVE  (TodoInv <=> TodoInv') /\ \A x : Behind(x)' <=> Behind(x)
  BY DEF TodoInv, Behind

\* The selected context and the checks change only with the invocation and the
\* file that was loaded,
LEMMA ChosenKept ==
  ASSUME inv' = inv, contexts' = contexts
  PROVE  /\ Chosen' = Chosen /\ (Connects' <=> Connects)
         /\ FlagsOK' = FlagsOK /\ ConfigFile' = ConfigFile /\ (FormatOK' <=> FormatOK)
<1>1. Chosen' = Chosen
  BY DEF Chosen
<1>2. Connects' <=> Connects
  BY <1>1 DEF Connects
<1>3. FlagsOK' = FlagsOK
  BY DEF FlagsOK
<1>4. ConfigFile' = ConfigFile
  BY DEF ConfigFile
<1>5. FormatOK' <=> FormatOK
  BY DEF FormatOK, Format, DefaultFor
<1> QED  BY <1>1, <1>2, <1>3, <1>4, <1>5

\* ... the request with the invocation and the client,
LEMMA RequestKept ==
  ASSUME inv' = inv, client' = client
  PROVE  Request' = Request
  BY DEF Request

\* ... and a refusal with what it is about.
LEMMA RefusedKept ==
  ASSUME inv' = inv, contexts' = contexts
  PROVE  \A x : Refused(x)' <=> Refused(x)
  BY ChosenKept DEF Refused

\* While a command runs, it has printed nothing.
LEMMA RunningOn ==
  ASSUME ExitInv, exit = NoExit, exit' = exit, printed' = printed
  PROVE  ExitInv'
  BY DEF ExitInv, CommandExits

\* What is behind at the call that is made.
LEMMA AtCall ==
  ASSUME CommandInv, NEW step, At(step)
  PROVE  /\ exit = NoExit /\ todo # <<>> /\ todo[1] = step
         /\ step \in DOMAIN Rank /\ step \in Calls(inv.command) /\ inv.command \in CommandNames
         /\ \A x \in DOMAIN Rank :
               Behind(x) <=> x \in Calls(inv.command) /\ Rank[x] < Rank[step]
<1>1. exit = NoExit /\ todo # <<>> /\ todo[1] = step
  BY DEF At
<1>2. inv.command \in CommandNames /\ TodoInv
  BY Commanded DEF CommandInv
<1> QED  BY <1>1, <1>2, BehindAt

\* Steps that make no call.
LEMMA NoCallMade ==
  ASSUME CommandInv, exit = NoExit,
         UNCHANGED <<inv, todo, contexts, client, request, printed>>
  PROVE  /\ inv' \in Invocation /\ TodoInv' /\ CallsInv'
         /\ exit' = exit => CommandInv'
<1>1. inv' \in Invocation /\ TodoInv'
  BY BehindKept DEF CommandInv
<1>2. CallsInv'
  BY BehindKept, ChosenKept, RequestKept DEF CommandInv, CallsInv
<1>3. exit' = exit => ExitInv'
  BY RunningOn DEF CommandInv
<1> QED  BY <1>1, <1>2, <1>3 DEF CommandInv

\* A call that is made and succeeds.
LEMMA CallMade ==
  ASSUME CommandInv, NEW step, At(step), todo' = Tail(todo), inv' = inv
  PROVE  /\ inv' \in Invocation /\ TodoInv'
         /\ \A x : Behind(x)' <=> Behind(x) \/ x = step
<1>1. todo # <<>> /\ todo[1] = step /\ inv.command \in CommandNames /\ TodoInv
  BY AtCall DEF CommandInv
<1> QED  BY <1>1, StepOn DEF CommandInv

\* A check that fails.
LEMMA CheckFailed ==
  ASSUME CommandInv, NEW step, At(step), Checks(FALSE), Refused(step),
         contexts' = contexts, client' = client
  PROVE  CommandInv'
<1>1. UNCHANGED <<inv, todo, contexts, client, request, printed>> /\ exit' = exitUsage
  BY DEF Checks
<1>2. exit = NoExit /\ todo # <<>> /\ todo[1] = step
  BY AtCall
<1>3. inv' \in Invocation /\ TodoInv' /\ CallsInv'
  BY <1>1, <1>2, NoCallMade
<1>4. Refused(todo[1])'
  BY <1>1, <1>2, RefusedKept
<1>5. printed' = Nowhere
  BY <1>1, <1>2 DEF CommandInv, ExitInv
<1>6. ExitInv'
  BY <1>1, <1>2, <1>4, <1>5 DEF ExitInv, CommandExits
<1> QED  BY <1>3, <1>6 DEF CommandInv

\* The calls of a command, each keeping the invariant: its own flags,
LEMMA FlagsChecked ==
  ASSUME CommandInv, CheckFlags
  PROVE  CommandInv'
<1>1. At("flags") /\ Checks(FlagsOK) /\ contexts' = contexts /\ client' = client
  BY DEF CheckFlags
<1>2. CASE ~FlagsOK
  <2>1. Refused("flags")
    BY <1>2 DEF Refused
  <2>2. Checks(FALSE)
    BY <1>1, <1>2 DEF Checks
  <2> QED  BY <1>1, <2>1, <2>2, CheckFailed
<1>3. CASE FlagsOK
  <2>1. UNCHANGED <<inv, request, printed, exit>> /\ todo' = Tail(todo)
    BY <1>1, <1>3 DEF Checks
  <2>2. inv' \in Invocation /\ TodoInv' /\ \A x : Behind(x)' <=> Behind(x) \/ x = "flags"
    BY <1>1, <2>1, CallMade
  <2>3. exit = NoExit
    BY <1>1, AtCall
  <2>4. CallsInv'
    BY <1>1, <1>3, <2>1, <2>2, ChosenKept, RequestKept DEF CommandInv, CallsInv
  <2>5. ExitInv'
    BY <2>1, <2>3, RunningOn DEF CommandInv
  <2> QED  BY <2>2, <2>4, <2>5 DEF CommandInv
<1> QED  BY <1>2, <1>3

\* ... the output format,
LEMMA FormatResolved ==
  ASSUME CommandInv, ResolveFormat
  PROVE  CommandInv'
<1>1. At("format") /\ Checks(FormatOK) /\ contexts' = contexts /\ client' = client
  BY DEF ResolveFormat
<1>2. CASE ~FormatOK
  <2>1. Refused("format")
    BY <1>2 DEF Refused
  <2>2. Checks(FALSE)
    BY <1>1, <1>2 DEF Checks
  <2> QED  BY <1>1, <2>1, <2>2, CheckFailed
<1>3. CASE FormatOK
  <2>1. UNCHANGED <<inv, request, printed, exit>> /\ todo' = Tail(todo)
    BY <1>1, <1>3 DEF Checks
  <2>2. inv' \in Invocation /\ TodoInv' /\ \A x : Behind(x)' <=> Behind(x) \/ x = "format"
    BY <1>1, <2>1, CallMade
  <2>3. exit = NoExit
    BY <1>1, AtCall
  <2>4. CallsInv'
    BY <1>1, <2>1, <2>2, ChosenKept, RequestKept DEF CommandInv, CallsInv
  <2>5. ExitInv'
    BY <2>1, <2>3, RunningOn DEF CommandInv
  <2> QED  BY <2>2, <2>4, <2>5 DEF CommandInv
<1> QED  BY <1>2, <1>3

\* ... the configuration file,
LEMMA ConfigLoaded ==
  ASSUME CommandInv, LoadConfig
  PROVE  CommandInv'
<1> DEFINE file == inv.files[ResolvePath(inv.named)]
<1>1. At("load") /\ Checks(file.state = "ok") /\ client' = client
      /\ contexts' = IF file.state = "ok" THEN file.contexts ELSE contexts
  BY DEF LoadConfig
<1>2. file = ConfigFile
  BY FileFound DEF CommandInv
<1> HIDE DEF file
<1>3. CASE file.state # "ok"
  <2>1. Refused("load") /\ Checks(FALSE) /\ contexts' = contexts
    BY <1>1, <1>2, <1>3 DEF Refused, Checks
  <2> QED  BY <1>1, <2>1, CheckFailed
<1>4. CASE file.state = "ok"
  <2>1. UNCHANGED <<inv, request, printed, exit>> /\ todo' = Tail(todo)
        /\ contexts' = ConfigFile.contexts
    BY <1>1, <1>2, <1>4 DEF Checks
  <2>2. inv' \in Invocation /\ TodoInv' /\ \A x : Behind(x)' <=> Behind(x) \/ x = "load"
    BY <1>1, <2>1, CallMade
  <2>3. exit = NoExit
    BY <1>1, AtCall
  <2>4. ~Behind("connect") /\ ~Behind("send")
    <3>1. Rank["load"] = 2 /\ Rank["connect"] = 4 /\ Rank["send"] = 5
          /\ "connect" \in DOMAIN Rank /\ "send" \in DOMAIN Rank
      BY RankOf DEF Rank
    <3> QED  BY <1>1, <3>1, AtCall
  <2>5. ConfigFile' = ConfigFile /\ FlagsOK' = FlagsOK
    BY <2>1 DEF ConfigFile, FlagsOK
  <2>6. CallsInv'
    BY <2>1, <2>2, <2>4, <2>5 DEF CommandInv, CallsInv
  <2>7. ExitInv'
    BY <2>1, <2>3, RunningOn DEF CommandInv
  <2> QED  BY <2>2, <2>6, <2>7 DEF CommandInv
<1> QED  BY <1>3, <1>4

\* ... the context and its client,
LEMMA ClientBuilt ==
  ASSUME CommandInv, BuildClient
  PROVE  CommandInv'
<1>1. At("connect") /\ Checks(Connects) /\ contexts' = contexts
      /\ client' = IF Connects THEN <<ExpandSecrets(Chosen[1], inv.env)>> ELSE client
  BY DEF BuildClient
<1>2. CASE ~Connects
  <2>1. Refused("connect") /\ Checks(FALSE) /\ client' = client
    BY <1>1, <1>2 DEF Refused, Checks
  <2> QED  BY <1>1, <2>1, CheckFailed
<1>3. CASE Connects
  <2>1. UNCHANGED <<inv, request, printed, exit>> /\ todo' = Tail(todo)
        /\ client' = <<ExpandSecrets(Chosen[1], inv.env)>>
    BY <1>1, <1>3 DEF Checks
  <2>2. inv' \in Invocation /\ TodoInv' /\ \A x : Behind(x)' <=> Behind(x) \/ x = "connect"
    BY <1>1, <2>1, CallMade
  <2>3. exit = NoExit
    BY <1>1, AtCall
  <2>4. ~Behind("send")
    <3>1. Rank["connect"] = 4 /\ Rank["send"] = 5 /\ "send" \in DOMAIN Rank
      BY RankOf DEF Rank
    <3> QED  BY <1>1, <3>1, AtCall
  <2>5. /\ Chosen' = Chosen /\ Connects' /\ FlagsOK' = FlagsOK /\ ConfigFile' = ConfigFile
    BY <1>1, <1>3, <2>1, ChosenKept
  <2>6. (Behind("flags") => FlagsOK)' /\ (request = IF Behind("send") THEN <<Request>> ELSE <<>>)'
    BY <2>1, <2>2, <2>4, <2>5 DEF CommandInv, CallsInv
  <2>7. (contexts = IF Behind("load") THEN ConfigFile.contexts ELSE <<>>)'
    BY <1>1, <2>2, <2>5 DEF CommandInv, CallsInv
  <2>8. (Connects /\ client = <<ExpandSecrets(Chosen[1], inv.env)>>)'
    BY <2>1, <2>5
  <2>9. CallsInv'
    BY <2>6, <2>7, <2>8 DEF CallsInv
  <2>10. ExitInv'
    BY <2>1, <2>3, RunningOn DEF CommandInv
  <2> QED  BY <2>2, <2>9, <2>10 DEF CommandInv
<1> QED  BY <1>2, <1>3

\* ... the request,
LEMMA RequestSent ==
  ASSUME CommandInv, Send
  PROVE  CommandInv'
<1>1. At("send") /\ todo' = Tail(todo) /\ request' = <<Request>>
      /\ UNCHANGED <<inv, contexts, client, printed, exit>>
  BY DEF Send
<1>2. inv' \in Invocation /\ TodoInv' /\ \A x : Behind(x)' <=> Behind(x) \/ x = "send"
  BY <1>1, CallMade
<1>3. exit = NoExit
  BY <1>1, AtCall
<1>4. Request' = Request
  BY <1>1, RequestKept
<1>5. CallsInv'
  BY <1>1, <1>2, <1>4, ChosenKept DEF CommandInv, CallsInv
<1>6. ExitInv'
  BY <1>1, <1>3, RunningOn DEF CommandInv
<1> QED  BY <1>2, <1>5, <1>6 DEF CommandInv

\* ... its answer,
LEMMA AnswerReceived ==
  ASSUME CommandInv, Receive
  PROVE  CommandInv'
<1>1. At("receive") /\ todo' = Tail(todo)
      /\ UNCHANGED <<inv, contexts, client, request, printed, exit>>
  BY DEF Receive
<1>2. inv' \in Invocation /\ TodoInv' /\ \A x : Behind(x)' <=> Behind(x) \/ x = "receive"
  BY <1>1, CallMade
<1>3. exit = NoExit
  BY <1>1, AtCall
<1>4. CallsInv'
  BY <1>1, <1>2, ChosenKept, RequestKept DEF CommandInv, CallsInv
<1>5. ExitInv'
  BY <1>1, <1>3, RunningOn DEF CommandInv
<1> QED  BY <1>2, <1>4, <1>5 DEF CommandInv

\* ... the end of the command,
LEMMA Finished ==
  ASSUME CommandInv, NEW code, Finishes(code)
  PROVE  /\ inv' \in Invocation /\ TodoInv' /\ CallsInv'
         /\ todo' = <<>> /\ exit' = code /\ printed = Nowhere
         /\ Output' = Output /\ (Readable' <=> Readable)
<1>1. At("render") /\ todo' = <<>> /\ exit' = code
      /\ UNCHANGED <<inv, contexts, client, request, answer, byField, unread>>
  BY DEF Finishes
<1>2. /\ inv.command \in CommandNames
      /\ \A x \in DOMAIN Rank :
            Behind(x) <=> x \in Calls(inv.command) /\ Rank[x] < Rank["render"]
  BY <1>1, AtCall
<1>3. inv' \in Invocation
  BY <1>1 DEF CommandInv
<1>4. TodoInv'
  <2> DEFINE s == Steps(inv.command)
  <2>1. Len(s) \in Nat /\ s \in [1..Len(s) -> DOMAIN Rank]
    BY <1>2, StepsOrder
  <2>2. s \in Seq(DOMAIN Rank)
    <3> HIDE DEF s
    <3> QED  BY <2>1
  <2> HIDE DEF s
  <2>3. Len(<<>>) = 0 /\ Len(s) - 0 + 1 = Len(s) + 1 /\ <<>> = SubSeq(s, Len(s) + 1, Len(s))
    BY <2>1, <2>2
  <2> QED  BY <1>1, <2>1, <2>3 DEF TodoInv, s
<1>5. \A x : Behind(x)' <=> x \in Calls(inv.command)
  <2>1. inv'.command \in CommandNames /\ (\A x : Behind(x)' <=> x \in Calls(inv'.command))
    <3>1. inv.command \in CommandNames /\ todo = <<>> => \A x : Behind(x) <=> x \in Calls(inv.command)
      BY BehindEnd
    <3>2. (inv.command \in CommandNames /\ todo = <<>> => \A x : Behind(x) <=> x \in Calls(inv.command))'
      BY BehindEnd, PTL
    <3> QED  BY <1>1, <1>2, <3>2
  <2> QED  BY <1>1, <2>1
<1>6. \A x \in {"flags", "load", "connect", "send"} : Behind(x)' <=> Behind(x)
  <2>1. \A x \in {"flags", "load", "connect", "send"} : x \in DOMAIN Rank /\ Rank[x] < Rank["render"]
    BY RankOf DEF Rank
  <2> QED  BY <1>2, <1>5, <2>1
<1>7. CallsInv'
  BY <1>1, <1>6, ChosenKept, RequestKept DEF CommandInv, CallsInv
<1>8. Output' = Output /\ (Readable' <=> Readable)
  BY <1>1 DEF Output, Readable, Format, DefaultFor
<1>9. printed = Nowhere
  <2>1. exit = NoExit
    BY <1>1, AtCall
  <2> QED  BY <2>1 DEF CommandInv, ExitInv
<1> QED  BY <1>1, <1>3, <1>4, <1>7, <1>8, <1>9

\* ... well or not,
LEMMA Rendered ==
  ASSUME CommandInv, Render \/ UnreadableAggregations \/ WriteFails \/ LineLost
  PROVE  CommandInv'
<1>1. CASE Render
  <2>1. Finishes(exitOK) /\ Readable /\ printed' = Output
    BY <1>1 DEF Render
  <2>2. /\ inv' \in Invocation /\ TodoInv' /\ CallsInv'
        /\ todo' = <<>> /\ exit' = exitOK /\ Output' = Output /\ Readable'
    BY <2>1, Finished
  <2>3. ExitInv'
    BY <2>1, <2>2 DEF ExitInv, CommandExits
  <2> QED  BY <2>2, <2>3 DEF CommandInv
<1>2. CASE UnreadableAggregations
  <2>1. Finishes(exitUsage) /\ inv.command = "search" /\ ~Readable /\ printed' = printed
    BY <1>2 DEF UnreadableAggregations
  <2>2. /\ inv' \in Invocation /\ TodoInv' /\ CallsInv'
        /\ todo' = <<>> /\ exit' = exitUsage /\ ~Readable' /\ printed' = Nowhere
    BY <2>1, Finished
  <2>3. inv'.command = "search" /\ inv'.command \notin OneLiners'
    BY <2>1 DEF Finishes, OneLiners
  <2>4. ExitInv'
    BY <2>2, <2>3 DEF ExitInv, CommandExits
  <2> QED  BY <2>2, <2>4 DEF CommandInv
<1>3. CASE WriteFails
  <2>1. Finishes(exitUsage) /\ inv.command \notin OneLiners /\ Readable /\ printed' = Output
    BY <1>3 DEF WriteFails
  <2>2. /\ inv' \in Invocation /\ TodoInv' /\ CallsInv'
        /\ todo' = <<>> /\ exit' = exitUsage /\ Output' = Output /\ Readable'
    BY <2>1, Finished
  <2>3. inv'.command \notin OneLiners'
    BY <2>1 DEF Finishes, OneLiners
  <2>4. ExitInv'
    BY <2>1, <2>2, <2>3 DEF ExitInv, CommandExits
  <2> QED  BY <2>2, <2>4 DEF CommandInv
<1>4. CASE LineLost
  <2>1. Finishes(exitOK) /\ inv.command \in OneLiners /\ printed' = printed /\ inv' = inv
    BY <1>4 DEF LineLost, Finishes
  <2>2. /\ inv' \in Invocation /\ TodoInv' /\ CallsInv'
        /\ todo' = <<>> /\ exit' = exitOK /\ printed' = Nowhere
    BY <2>1, Finished
  <2>3. inv'.command \in OneLiners'
    BY <2>1 DEF OneLiners
  <2>4. ExitInv'
    BY <2>2, <2>3 DEF ExitInv, CommandExits
  <2> QED  BY <2>2, <2>4 DEF CommandInv
<1> QED  BY <1>1, <1>2, <1>3, <1>4

\* ... a request that fails,
LEMMA CommandFailed ==
  ASSUME CommandInv, RequestFails
  PROVE  CommandInv'
<1>1. At("receive") /\ UNCHANGED <<inv, todo, contexts, client, request, printed>>
      /\ \E e \in ServerErrors : exit' = FailureCode(e)
  BY DEF RequestFails, Waiting
<1>2. exit = NoExit /\ todo # <<>> /\ todo[1] = "receive" /\ "receive" \in Calls(inv.command)
      /\ inv.command \in CommandNames
  BY <1>1, AtCall
<1>3. inv.command \in {"search", "fields", "ping"}
  BY <1>2, StepsOrder
<1>4. exit' \in {exitConn, exitNotFound} /\ (exit' = exitNotFound => inv.command # "ping")
  <2>1. PICK e \in ServerErrors : exit' = FailureCode(e)
    BY <1>1
  <2>2. FailureCode(e) \in {exitConn, exitNotFound}
    BY DEF FailureCode, ClassifyESError
  <2>3. inv.command = "ping" => FailureCode(e) = exitConn
    BY DEF FailureCode
  <2> QED  BY <2>1, <2>2, <2>3
<1>5. inv' \in Invocation /\ TodoInv' /\ CallsInv'
  BY <1>1, <1>2, NoCallMade
<1>6. printed' = Nowhere
  BY <1>1, <1>2 DEF CommandInv, ExitInv
<1>7. ExitInv'
  BY <1>1, <1>2, <1>3, <1>4, <1>6 DEF ExitInv, CommandExits
<1> QED  BY <1>5, <1>7 DEF CommandInv

\* ... and one that cannot be made.
LEMMA NothingSent ==
  ASSUME CommandInv, RequestNotMade
  PROVE  CommandInv'
<1>1. At("send") /\ UNCHANGED <<inv, todo, contexts, client, request, printed>>
      /\ ~HasURL /\ exit' = FailureCode("transport")
  BY DEF RequestNotMade
<1>2. exit = NoExit /\ todo # <<>> /\ todo[1] = "send"
  BY <1>1, AtCall
<1>3. exit' = exitConn
  BY <1>1 DEF FailureCode, ClassifyESError
<1>4. inv' \in Invocation /\ TodoInv' /\ CallsInv'
  BY <1>1, <1>2, NoCallMade
<1>5. printed' = Nowhere
  BY <1>1, <1>2 DEF CommandInv, ExitInv
<1>6. ~HasURL'
  BY <1>1 DEF HasURL
<1>7. ExitInv'
  BY <1>1, <1>2, <1>3, <1>5, <1>6 DEF ExitInv, CommandExits
<1> QED  BY <1>4, <1>7 DEF CommandInv

\* Every reachable state has the invariant.
THEOREM CommandInductive == Spec => []CommandInv
<1>1. Init => CommandInv
  <2> SUFFICES ASSUME Init PROVE CommandInv
    OBVIOUS
  <2>1. inv \in Invocation
    BY CommandAssumption DEF Init
  <2>2. todo = Steps(inv.command) /\ contexts = <<>> /\ request = <<>>
        /\ printed = Nowhere /\ exit = NoExit
    BY DEF Init
  <2> DEFINE s == Steps(inv.command)
  <2>3. Len(s) \in Nat /\ s \in [1..Len(s) -> DOMAIN Rank]
    BY <2>1, Commanded, StepsOrder
  <2> HIDE DEF s
  <2>4. s \in Seq(DOMAIN Rank)
    BY <2>3
  <2>5. Len(s) - Len(s) + 1 = 1 /\ SubSeq(s, 1, Len(s)) = s
    BY <2>3, <2>4
  <2>6. TodoInv
    BY <2>2, <2>3, <2>5 DEF TodoInv, s
  <2>7. 1..(Len(s) - Len(s)) = {}
    BY <2>3
  <2>8. \A x : ~Behind(x)
    BY <2>2, <2>7 DEF Behind, s
  <2>9. CallsInv
    BY <2>2, <2>8 DEF CallsInv
  <2>10. ExitInv
    BY <2>2 DEF ExitInv
  <2> QED  BY <2>1, <2>6, <2>9, <2>10 DEF CommandInv
<1>2. CommandInv /\ [Next]_vars => CommandInv'
  <2> SUFFICES ASSUME CommandInv, [Next]_vars PROVE CommandInv'
    OBVIOUS
  <2>1. CASE CheckFlags
    BY <2>1, FlagsChecked
  <2>2. CASE LoadConfig
    BY <2>2, ConfigLoaded
  <2>3. CASE ResolveFormat
    BY <2>3, FormatResolved
  <2>4. CASE BuildClient
    BY <2>4, ClientBuilt
  <2>5. CASE Send
    BY <2>5, RequestSent
  <2>6. CASE MappingAnswered
    BY <2>6, NoCallMade DEF MappingAnswered, Answers, Waiting, At
  <2>7. CASE SearchAnswered
    <3>1. exit = NoExit
      BY <2>7 DEF SearchAnswered, Waiting, At
    <3>2. \E a : Answers(a)
      BY <2>7 DEF SearchAnswered
    <3> QED  BY <3>1, <3>2, NoCallMade DEF Answers
  <2>8. CASE VersionAnswered
    BY <2>8, NoCallMade DEF VersionAnswered, Answers, Waiting, At
  <2>9. CASE RequestFails
    BY <2>9, CommandFailed
  <2>10. CASE Receive
    BY <2>10, AnswerReceived
  <2>11. CASE ReadIndex
    BY <2>11, NoCallMade DEF ReadIndex, At
  <2>12. CASE Render \/ UnreadableAggregations \/ WriteFails \/ LineLost
    BY <2>12, Rendered
  <2>14. CASE RequestNotMade
    BY <2>14, NothingSent
  <2>13. CASE Ended \/ UNCHANGED vars
    <3>1. UNCHANGED vars
      BY <2>13 DEF Ended
    <3>2. inv' \in Invocation /\ TodoInv' /\ CallsInv'
      BY <3>1, BehindKept, ChosenKept, RequestKept DEF vars, CommandInv, CallsInv
    <3>3. /\ Output' = Output /\ (Readable' <=> Readable) /\ (HasURL' <=> HasURL)
          /\ \A x : Refused(x)' <=> Refused(x)
      BY <3>1, RefusedKept DEF vars, Output, Readable, HasURL, Format, DefaultFor
    <3>4. ExitInv'
      BY <3>1, <3>3 DEF vars, CommandInv, ExitInv
    <3> QED  BY <3>2, <3>4 DEF CommandInv
  <2> QED  BY <2>1, <2>2, <2>3, <2>4, <2>5, <2>6, <2>7, <2>8, <2>9, <2>10, <2>11, <2>12,
              <2>13, <2>14 DEF Next
<1> QED  BY <1>1, <1>2, PTL DEF Spec

-----------------------------------------------------------------------------
(***************************************************************************)
(* The properties.                                                         *)
(***************************************************************************)
\* The calls behind a command that ended in a failure, or well.
LEMMA BehindFailure ==
  ASSUME CommandInv
  PROVE  /\ inv.command \in CommandNames
         /\ exit = exitUsage /\ todo # <<>> =>
               /\ Refused(todo[1]) /\ todo[1] \in {"flags", "load", "format", "connect"}
               /\ todo[1] \in Calls(inv.command) /\ ~Behind("send")
         /\ exit \in {exitConn, exitNotFound} => Behind("send") \/ (exit = exitConn /\ ~HasURL)
         /\ todo = <<>> => \A x : Behind(x) <=> x \in Calls(inv.command)
         /\ todo # <<>> =>
              \A x \in DOMAIN Rank : Behind(x) <=> x \in Calls(inv.command) /\ Rank[x] < Rank[todo[1]]
<1>1. inv.command \in CommandNames /\ TodoInv /\ ExitInv
  BY Commanded DEF CommandInv
<1>2. /\ "send" \in DOMAIN Rank /\ Rank["send"] = 5 /\ Rank["receive"] = 6
      /\ \A x \in {"flags", "load", "format", "connect"} : Rank[x] < 5
  BY RankOf DEF Rank
<1>3. ASSUME exit = exitUsage, todo # <<>>
      PROVE  /\ Refused(todo[1]) /\ todo[1] \in {"flags", "load", "format", "connect"}
             /\ todo[1] \in Calls(inv.command) /\ ~Behind("send")
  <2>1. todo # <<>> /\ Refused(todo[1])
    BY <1>1, <1>3 DEF ExitInv
  <2>2. todo[1] \in {"flags", "load", "format", "connect"}
    BY <2>1 DEF Refused
  <2>3. todo[1] \in Calls(inv.command) /\ (Behind("send") => Rank["send"] < Rank[todo[1]])
    BY <1>1, <1>2, <2>1, BehindAt
  <2> DEFINE x == todo[1]
  <2>4. Rank[x] < 5 /\ Rank[x] \in Int
    BY <2>2, RankOf
  <2>5. ~ (5 < Rank[x])
    BY <2>4
  <2> QED  BY <1>2, <2>1, <2>2, <2>3, <2>5
<1>4. ASSUME exit \in {exitConn, exitNotFound}, ~(exit = exitConn /\ ~HasURL)
      PROVE  Behind("send")
  <2>1. todo # <<>> /\ todo[1] = "receive"
    BY <1>1, <1>4 DEF ExitInv
  <2>2. "receive" \in Calls(inv.command)
    BY <1>1, <2>1, BehindAt
  <2>3. "send" \in Calls(inv.command)
    BY <1>1, <2>2, StepsOrder
  <2> QED  BY <1>1, <1>2, <2>1, <2>3, BehindAt
<1>5. todo = <<>> => \A x : Behind(x) <=> x \in Calls(inv.command)
  BY <1>1, BehindEnd
<1> QED  BY <1>1, <1>3, <1>4, <1>5, BehindAt

\* What a command writes is something, but for ping and version.
LEMMA SomethingToPrint ==
  ASSUME CommandInv
  PROVE  inv.command \in OneLiners \/ Output # Nowhere
<1>1. inv.command \in CommandNames
  BY Commanded DEF CommandInv
<1>2. inv.command \notin OneLiners => Output.kind # "nothing"
  <2>1. CASE inv.command = "fields"
    BY <2>1 DEF Output
  <2>2. CASE inv.command = "search"
    BY <2>2 DEF Output
  <2>3. CASE inv.command \in {"get-contexts", "view", "init"}
    BY <2>3 DEF Output
  <2>4. CASE inv.command \in {"ping", "version"}
    BY <2>4 DEF OneLiners
  <2> QED  BY <1>1, <2>1, <2>2, <2>3, <2>4 DEF CommandNames
<1> QED  BY <1>2 DEF Nowhere

\* ExitCodesMean, whatever the command line, the file, the environment and the
\* answer (README "Exit codes"): exit 2 after a request is for its answer or for
\* stdout, 3 and 4 come with nothing printed and, but for a server that is no URL,
\* after a request, 0 with everything printed, and what asks the cluster prints
\* nothing before.
THEOREM ExitCodesCorrect == Spec => []ExitCodesMean
<1>1. CommandInv => ExitCodesMean
  <2> SUFFICES ASSUME CommandInv PROVE ExitCodesMean
    OBVIOUS
  <2>1. request = IF Behind("send") THEN <<Request>> ELSE <<>>
    BY DEF CommandInv, CallsInv
  <2>2. Output # Nowhere \/ inv.command \in OneLiners
    BY SomethingToPrint
  <2>3. ASSUME exit = exitUsage, request # <<>>
        PROVE  printed # Nowhere \/ ~Readable
    <3>1. todo = <<>>
      BY <2>1, <2>3, BehindFailure
    <3>2. inv.command \notin OneLiners /\ (~Readable \/ printed = Output)
      BY <2>3, <3>1 DEF CommandInv, ExitInv
    <3> QED  BY <2>2, <3>2
  <2>4. ASSUME exit \in {exitConn, exitNotFound}
        PROVE  printed = Nowhere /\ (request = <<>> => exit = exitConn /\ ~HasURL)
    <3>1. printed = Nowhere
      BY <2>4 DEF CommandInv, ExitInv
    <3>2. <<Request>> # <<>>
      OBVIOUS
    <3>3. request = <<>> => exit = exitConn /\ ~HasURL
      BY <2>1, <2>4, <3>2, BehindFailure
    <3> QED  BY <3>1, <3>3
  <2>5. exit = exitNotFound => inv.command \in {"search", "fields"}
    BY DEF CommandInv, ExitInv
  <2>6. exit = exitOK => printed # Nowhere \/ inv.command \in OneLiners
    BY <2>2 DEF CommandInv, ExitInv
  <2>7. ASSUME printed # Nowhere
        PROVE  /\ exit \in {exitOK, exitUsage}
               /\ inv.command \in {"search", "fields", "ping"} => request # <<>>
    <3>1. exit \in {exitOK, exitUsage} /\ todo = <<>>
      BY <2>7 DEF CommandInv, ExitInv
    <3>2. inv.command \in {"search", "fields", "ping"} => "send" \in Calls(inv.command)
      BY BehindFailure, StepsOrder
    <3>3. <<Request>> # <<>>
      OBVIOUS
    <3> QED  BY <2>1, <3>1, <3>2, <3>3, BehindFailure
  <2> QED  BY <2>3, <2>4, <2>5, <2>6, <2>7 DEF ExitCodesMean, Readable
<1> QED  BY <1>1, CommandInductive, PTL

-----------------------------------------------------------------------------
(***************************************************************************)
(* The flags of a search and the body made of them.                        *)
(***************************************************************************)
\* What is left of a sequence is what of it is wanted.
LEMMA FilteredRange ==
  ASSUME NEW S, NEW s \in Seq(S), NEW W
  PROVE  /\ Filtered(s, W) \in Seq(S)
         /\ Range(Filtered(s, W)) = Range(s) \cap W
<1> DEFINE t == Filtered(s, W)
<1>1. \A i, j \in 1..Len(s) : i < j => <<s[i], s[j]>> \in S \X S
  OBVIOUS
<1>2. t \in Seq(S) /\ {t[i] : i \in 1..Len(t)} = {s[i] : i \in 1..Len(s)} \cap W
  <2> DEFINE R == S \X S
  <2>1. \A i, j \in 1..Len(s) : i < j => <<s[i], s[j]>> \in R
    BY <1>1
  <2> HIDE DEF R
  <2>2. /\ t \in Seq(S)
        /\ {t[i] : i \in 1..Len(t)} = {s[i] : i \in 1..Len(s)} \cap W
        /\ \A i, j \in 1..Len(t) : i < j => <<t[i], t[j]>> \in R
    BY <2>1, FilteredMembers
  <2> QED  BY <2>2
<1> HIDE DEF t
<1>3. DOMAIN t = 1..Len(t) /\ DOMAIN s = 1..Len(s)
  BY <1>2
<1> QED  BY <1>2, <1>3 DEF Range, t

\* The entries of two sequences, one after the other.
LEMMA Joined ==
  ASSUME NEW A, NEW a \in Seq(A), NEW b \in Seq(A)
  PROVE  /\ a \o b \in Seq(A) /\ Len(a) \in Nat /\ Len(b) \in Nat
         /\ Len(a \o b) = Len(a) + Len(b) /\ DOMAIN (a \o b) = 1..(Len(a) + Len(b))
         /\ DOMAIN a = 1..Len(a) /\ DOMAIN b = 1..Len(b)
         /\ \A i \in DOMAIN a : i \in DOMAIN (a \o b) /\ (a \o b)[i] = a[i]
         /\ \A j \in DOMAIN b : Len(a) + j \in DOMAIN (a \o b) /\ (a \o b)[Len(a) + j] = b[j]
         /\ \A i \in DOMAIN (a \o b) :
               \/ i \in DOMAIN a /\ (a \o b)[i] = a[i]
               \/ i - Len(a) \in DOMAIN b /\ (a \o b)[i] = b[i - Len(a)]
<1> DEFINE c == a \o b  m == Len(a)  n == Len(b)
<1>1. /\ c \in Seq(A) /\ m \in Nat /\ n \in Nat /\ Len(c) = m + n
      /\ DOMAIN c = 1..(m + n) /\ DOMAIN a = 1..m /\ DOMAIN b = 1..n
      /\ \A i \in 1..(m + n) : c[i] = IF i <= m THEN a[i] ELSE b[i - m]
  OBVIOUS
<1> HIDE DEF c, m, n
<1>2. ASSUME NEW i \in 1..m PROVE i \in 1..(m + n) /\ c[i] = a[i]
  BY <1>1
<1>3. ASSUME NEW j \in 1..n PROVE m + j \in 1..(m + n) /\ c[m + j] = b[j]
  <2>1. m + j \in 1..(m + n) /\ ~ (m + j <= m) /\ (m + j) - m = j
    BY <1>1
  <2> QED  BY <1>1, <2>1
<1>4. ASSUME NEW i \in 1..(m + n)
      PROVE  (i \in 1..m /\ c[i] = a[i]) \/ (i - m \in 1..n /\ c[i] = b[i - m])
  <2>1. CASE i <= m
    BY <1>1, <2>1
  <2>2. CASE ~ (i <= m)
    BY <1>1, <2>2
  <2> QED  BY <2>1, <2>2
<1> QED  BY <1>1, <1>2, <1>3, <1>4 DEF c, m, n

\* What is nowhere in two sequences, one after the other, is not in the first,
LEMMA FirstWithout ==
  ASSUME NEW s \in Seq(Int), NEW t \in Seq(Int), NEW x,
         \A i \in DOMAIN (s \o t) : (s \o t)[i] # x
  PROVE  \A i \in DOMAIN s : s[i] # x
<1>1. \A i \in DOMAIN s : i \in DOMAIN (s \o t) /\ (s \o t)[i] = s[i]
  BY Joined
<1> QED  BY <1>1

\* ... and not in the second.
LEMMA SecondWithout ==
  ASSUME NEW s \in Seq(Int), NEW t \in Seq(Int), NEW x,
         \A i \in DOMAIN (s \o t) : (s \o t)[i] # x
  PROVE  \A i \in DOMAIN t : t[i] # x
<1>1. \A i \in DOMAIN t : Len(s) + i \in DOMAIN (s \o t) /\ (s \o t)[Len(s) + i] = t[i]
  BY Joined
<1> QED  BY <1>1

\* An entry of a sequence over a set is in the set.
LEMMA EntryOf ==
  ASSUME NEW S, NEW s \in Seq(S), NEW i \in DOMAIN s
  PROVE  s[i] \in S
  OBVIOUS

\* A sequence over a set is one over a larger set.
LEMMA SeqWider ==
  ASSUME NEW S, NEW T, S \subseteq T, NEW t \in Seq(S)
  PROVE  t \in Seq(T)
  OBVIOUS

\* The magnitude of a duration is a number.
LEMMA MagnitudeOf ==
  ASSUME NEW x \in [magnitude : Nat, unit : STRING]
  PROVE  x.magnitude \in Int
  OBVIOUS

\* Two sequences without a value, one after the other, are without it.
LEMMA JoinedWithout ==
  ASSUME NEW s \in Seq(Int), NEW t \in Seq(Int), NEW x,
         \A i \in DOMAIN s : s[i] # x, \A i \in DOMAIN t : t[i] # x
  PROVE  \A i \in DOMAIN (s \o t) : (s \o t)[i] # x
<1>1. \A i \in DOMAIN (s \o t) :
         \/ i \in DOMAIN s /\ (s \o t)[i] = s[i]
         \/ i - Len(s) \in DOMAIN t /\ (s \o t)[i] = t[i - Len(s)]
  BY Joined
<1> QED  BY <1>1

\* Arithmetic, apart from the records it is about.
LEMMA AboveZero ==
  ASSUME NEW x \in [magnitude : Nat, unit : STRING], x.magnitude # 0
  PROVE  x.magnitude > 0
  OBVIOUS

\* ... of two bounds,
LEMMA AtMostIf ==
  ASSUME NEW x \in Int, NEW y \in Int, ~ (x > y)
  PROVE  x <= y
  OBVIOUS

\* ... of a size,
LEMMA NotBelowZero ==
  ASSUME NEW x \in Int, ~ (x < 0)
  PROVE  x >= 0
  OBVIOUS

\* ... of two bounds the other way,
LEMMA NotAbove ==
  ASSUME NEW x \in Int, NEW y \in Int, x <= y
  PROVE  ~ (x > y)
  OBVIOUS

\* ... and of a magnitude.
LEMMA NotZero ==
  ASSUME NEW x \in Int, x > 0
  PROVE  x # 0
  OBVIOUS

\* Entries taken from a sequence are entries of it.
LEMMA EntriesTaken ==
  ASSUME NEW S, NEW s \in Seq(S), NEW places
  PROVE  LET t == EntriesAt(s, places)
         IN  /\ t \in Seq(S)
             /\ \A k \in DOMAIN t : \E i \in DOMAIN s \cap places : t[k] = s[i]
             /\ \A i \in DOMAIN s \cap places : \E k \in DOMAIN t : t[k] = s[i]
<1> DEFINE numbers == [i \in DOMAIN s |-> i]
           kept == Filtered(numbers, places)
           t == EntriesAt(s, places)
           D == DOMAIN s
<1>1. D = 1..Len(s) /\ Len(s) \in Nat
  OBVIOUS
<1>2. /\ numbers \in Seq(D) /\ DOMAIN numbers = D
      /\ \A i \in D : numbers[i] = i
  BY <1>1
<1>3. t = [k \in DOMAIN kept |-> s[kept[k]]]
  BY DEF EntriesAt
<1> HIDE DEF numbers, D
<1>4. kept \in Seq(D) /\ Range(kept) = Range(numbers) \cap places
  BY <1>2, FilteredRange
<1>5. Range(numbers) = D
  BY <1>2 DEF Range
<1> HIDE DEF kept
<1>6. Len(kept) \in Nat /\ DOMAIN kept = 1..Len(kept) /\ \A k \in DOMAIN kept : kept[k] \in D
  BY <1>4
<1>7. \A k \in DOMAIN kept : s[kept[k]] \in S
  BY <1>1, <1>6
<1>8. t \in Seq(S) /\ DOMAIN t = DOMAIN kept /\ \A k \in DOMAIN t : t[k] = s[kept[k]]
  BY <1>3, <1>6, <1>7
<1>9. \A k \in DOMAIN kept : kept[k] \in D \cap places
  BY <1>4, <1>5, <1>6 DEF Range
<1>10. \A i \in D \cap places : \E k \in DOMAIN kept : kept[k] = i
  BY <1>4, <1>5 DEF Range
<1> HIDE DEF t
<1> QED  BY <1>8, <1>9, <1>10 DEF t, D

\* The places of short sequences: of the empty one,
LEMMA NoEntry == DOMAIN <<>> = {}
<1>1. \A s \in Seq(Nat) : DOMAIN s = 1..Len(s)
  OBVIOUS
<1>2. <<>> \in Seq(Nat) /\ Len(<<>>) = 0
  OBVIOUS
<1> QED  BY <1>1, <1>2

\* ... of one entry,
LEMMA OneEntry ==
  ASSUME NEW x
  PROVE  DOMAIN <<x>> = {1} /\ <<x>>[1] = x
<1> DEFINE s == <<x>>
<1>1. s \in Seq({x}) /\ Len(s) = 1 /\ s[1] = x
  OBVIOUS
<1> HIDE DEF s
<1>2. DOMAIN s = 1..1
  BY <1>1
<1> QED  BY <1>1, <1>2 DEF s

\* ... of two,
LEMMA TwoEntries ==
  ASSUME NEW x, NEW y
  PROVE  DOMAIN <<x, y>> = {1, 2} /\ <<x, y>>[1] = x /\ <<x, y>>[2] = y
<1> DEFINE s == <<x, y>>
<1>1. s \in Seq({x, y}) /\ Len(s) = 2 /\ s[1] = x /\ s[2] = y
  OBVIOUS
<1> HIDE DEF s
<1>2. DOMAIN s = 1..2
  BY <1>1
<1> QED  BY <1>1, <1>2 DEF s

\* ... and of one entry after another.
LEMMA TwoJoined ==
  ASSUME NEW x, NEW y
  PROVE  <<x>> \o <<y>> = <<x, y>>
<1> DEFINE S == {x, y}  u == <<x>>  v == <<y>>  w == u \o v  z == <<x, y>>
<1>1. u \in Seq(S) /\ v \in Seq(S) /\ Len(u) = 1 /\ Len(v) = 1 /\ u[1] = x /\ v[1] = y
  OBVIOUS
<1>2. z \in Seq(S) /\ Len(z) = 2 /\ z[1] = x /\ z[2] = y
  OBVIOUS
<1> HIDE DEF u, v, z, S
<1>3. w \in Seq(S) /\ Len(w) = 2 /\ w[1] = x /\ w[2] = y
  <2>1. w \in Seq(S) /\ Len(w) = Len(u) + Len(v)
    BY <1>1, Joined
  <2>2. DOMAIN u = 1..1 /\ DOMAIN v = 1..1
    BY <1>1
  <2>3. w[1] = u[1]
    BY <1>1, <2>2, Joined
  <2>4. w[Len(u) + 1] = v[1]
    BY <1>1, <2>2, Joined
  <2> HIDE DEF w
  <2> QED  BY <1>1, <2>1, <2>3, <2>4
<1> HIDE DEF w
<1>4. w = z
  BY <1>2, <1>3
<1> QED  BY <1>4 DEF w, u, v, z

\* What follows the same beginning is the same.
LEMMA SameEnd ==
  ASSUME NEW S, NEW h \in Seq(S), NEW t \in Seq(S), NEW u \in Seq(S), h \o t = h \o u
  PROVE  t = u
<1> DEFINE v == h \o t  w == h \o u
<1>1. /\ Len(v) = Len(h) + Len(t) /\ Len(h) \in Nat /\ Len(t) \in Nat
      /\ \A j \in DOMAIN t : v[Len(h) + j] = t[j]
  BY Joined
<1>2. /\ Len(w) = Len(h) + Len(u) /\ Len(u) \in Nat
      /\ \A j \in DOMAIN u : w[Len(h) + j] = u[j]
  BY Joined
<1>3. v = w
  OBVIOUS
<1> HIDE DEF v, w
<1>4. Len(t) = Len(u)
  BY <1>1, <1>2, <1>3
<1>5. DOMAIN t = 1..Len(t) /\ DOMAIN u = 1..Len(u)
  OBVIOUS
<1>6. \A j \in 1..Len(t) : t[j] = u[j]
  BY <1>1, <1>2, <1>3, <1>4, <1>5
<1> QED  BY <1>4, <1>6

\* The operations differ in their first piece.
allOps == metricOps \cup {<<"cardinality">>}

\* Two operations with the same first piece are the same.
LEMMA OpsDiffer ==
  ASSUME NEW o1 \in allOps, NEW o2 \in allOps, o1[1] = o2[1]
  PROVE  o1 = o2
<1>1. o1 \in {<<"sum">>, <<"avg">>, <<"min">>, <<"max">>, <<"value", "_", "count">>, <<"cardinality">>}
      /\ o2 \in {<<"sum">>, <<"avg">>, <<"min">>, <<"max">>, <<"value", "_", "count">>, <<"cardinality">>}
  BY DEF allOps, metricOps
<1>2. /\ <<"sum">>[1] = "sum" /\ <<"avg">>[1] = "avg" /\ <<"min">>[1] = "min" /\ <<"max">>[1] = "max"
      /\ <<"cardinality">>[1] = "cardinality"
  BY OneEntry
<1>3. <<"value", "_", "count">>[1] = "value"
  OBVIOUS
<1> DEFINE a == <<"sum">>  b == <<"avg">>  c == <<"min">>  d == <<"max">>  e == <<"cardinality">>
           g == <<"value", "_", "count">>
<1>4. o1 \in {a, b, c, d, e, g} /\ o2 \in {a, b, c, d, e, g}
  BY <1>1
<1>5. a[1] = "sum" /\ b[1] = "avg" /\ c[1] = "min" /\ d[1] = "max" /\ e[1] = "cardinality"
      /\ g[1] = "value"
  BY <1>2, <1>3
<1> HIDE DEF a, b, c, d, e, g
<1> QED  BY <1>4, <1>5

\* The pieces a name is made of.
Pieces == STRING \cup {"sum", "avg", "min", "max", "value", "_", "count", "cardinality"}

\* Every operation is a sequence of pieces, and not empty.
LEMMA OpsArePieces ==
  ASSUME NEW o \in allOps
  PROVE  o \in Seq(Pieces) /\ 1 \in DOMAIN o /\ <<"_">> \in Seq(Pieces)
<1>1. o \in {<<"sum">>, <<"avg">>, <<"min">>, <<"max">>, <<"value", "_", "count">>, <<"cardinality">>}
  BY DEF allOps, metricOps
<1>2. {"sum", "avg", "min", "max", "value", "_", "count", "cardinality"} \subseteq Pieces
  BY DEF Pieces
<1>3. ASSUME NEW x \in Pieces PROVE <<x>> \in Seq(Pieces) /\ 1 \in DOMAIN <<x>>
  OBVIOUS
<1>4. ASSUME NEW x \in Pieces, NEW y \in Pieces, NEW z \in Pieces
      PROVE  <<x, y, z>> \in Seq(Pieces) /\ 1 \in DOMAIN <<x, y, z>>
  OBVIOUS
<1>5. <<"_">> \in Seq(Pieces)
  BY <1>2, <1>3
<1>6. CASE o = <<"value", "_", "count">>
  BY <1>2, <1>4, <1>5, <1>6
<1>7. CASE o # <<"value", "_", "count">>
  BY <1>1, <1>2, <1>3, <1>5, <1>7
<1> QED  BY <1>6, <1>7

\* What two sequences, one after the other, begin with.
LEMMA StartOf ==
  ASSUME NEW S, NEW s \in Seq(S), NEW t \in Seq(S), 1 \in DOMAIN s
  PROVE  s \o t \in Seq(S) /\ 1 \in DOMAIN (s \o t) /\ (s \o t)[1] = s[1]
  BY Joined

\* Two flags of one name are the same operation on the same field.
LEMMA NamesDiffer ==
  ASSUME NEW o1 \in allOps, NEW o2 \in allOps, NEW f1 \in Seq(Pieces), NEW f2 \in Seq(Pieces),
         metricName(o1, f1) = metricName(o2, f2)
  PROVE  o1 = o2 /\ f1 = f2
<1> DEFINE bar == <<"_">>  h1 == o1 \o bar  h2 == o2 \o bar  T == Pieces
<1>1. bar \in Seq(T) /\ o1 \in Seq(T) /\ o2 \in Seq(T) /\ 1 \in DOMAIN o1 /\ 1 \in DOMAIN o2
      /\ f1 \in Seq(T) /\ f2 \in Seq(T)
  BY OpsArePieces
<1>2. h1 \o f1 = h2 \o f2
  BY DEF metricName
<1> HIDE DEF bar, T
<1>3. h1 \in Seq(T) /\ 1 \in DOMAIN h1 /\ h1[1] = o1[1]
  BY <1>1, StartOf
<1>4. h2 \in Seq(T) /\ 1 \in DOMAIN h2 /\ h2[1] = o2[1]
  BY <1>1, StartOf
<1>5. o1 = o2 => h1 = h2
  OBVIOUS
<1> HIDE DEF h1, h2
<1>6. (h1 \o f1)[1] = h1[1]
  BY <1>1, <1>3, StartOf
<1>7. (h2 \o f2)[1] = h2[1]
  BY <1>1, <1>4, StartOf
<1>8. o1 = o2
  BY <1>2, <1>3, <1>4, <1>6, <1>7, OpsDiffer
<1>9. f1 = f2
  <2>1. h1 \o f1 = h1 \o f2
    BY <1>2, <1>5, <1>8
  <2> QED  BY <1>1, <1>3, <2>1, SameEnd
<1> QED  BY <1>8, <1>9

\* The sub-aggregations of the flags: what a metric that is valid asks for, in
\* order, and then what a cardinality does, each under the name of both.
AskedFor(x, op, field) == x = [name |-> metricName(op, field), op |-> op, field |-> field]

\* metricFlags, entry by entry.
LEMMA FlagsAreMetrics ==
  ASSUME NEW p \in SearchParams
  PROVE  LET all == metricFlags(p)
             kept == Filtered(p.metrics, {m \in Range(p.metrics) : validMetric(m)})
             cards == p.cardinalities
         IN  /\ all \in Seq(Range(all)) /\ Len(kept) \in Nat /\ Len(cards) \in Nat
             /\ Len(all) = Len(kept) + Len(cards) /\ DOMAIN all = 1..Len(all)
             /\ \A i \in 1..Len(kept) :
                   /\ i \in DOMAIN all /\ AskedFor(all[i], kept[i].op, kept[i].field)
                   /\ validMetric(kept[i]) /\ kept[i].field \in Seq(Pieces)
             /\ \A j \in DOMAIN cards :
                   /\ Len(kept) + j \in DOMAIN all
                   /\ AskedFor(all[Len(kept) + j], <<"cardinality">>, cards[j])
                   /\ cards[j] \in Seq(Pieces)
             /\ \A i \in DOMAIN all :
                   i \in 1..Len(kept) \/ \E j \in DOMAIN cards : i = Len(kept) + j
<1> DEFINE M == [op : Seq(STRING), field : Seq(STRING)]
           T == Seq(STRING)
           W == {m \in Range(p.metrics) : validMetric(m)}
           kept == Filtered(p.metrics, W)
           cards == p.cardinalities
           first == [i \in DOMAIN kept |->
                       [name |-> metricName(kept[i].op, kept[i].field),
                        op |-> kept[i].op, field |-> kept[i].field]]
           second == [i \in DOMAIN cards |->
                       [name |-> cardinalityName(cards[i]),
                        op |-> <<"cardinality">>, field |-> cards[i]]]
           A == Range(first) \cup Range(second)
<1>1. p.metrics \in Seq(M) /\ cards \in Seq(T)
  BY DEF SearchParams
<1>2. metricFlags(p) = first \o second
  BY DEF metricFlags
<1>3. \A m \in W : validMetric(m)
  OBVIOUS
<1>4. \A m \in M : m.field \in T
  OBVIOUS
<1>5. \A t \in T : t \in Seq(Pieces)
  <2>1. STRING \subseteq Pieces
    BY DEF Pieces
  <2> QED  BY <2>1, SeqWider
<1> HIDE DEF M, T, W, cards
<1>6. kept \in Seq(M) /\ Range(kept) = Range(p.metrics) \cap W
  BY <1>1, FilteredRange
<1> HIDE DEF kept
<1>7. Len(kept) \in Nat /\ DOMAIN kept = 1..Len(kept)
      /\ \A i \in DOMAIN kept : validMetric(kept[i]) /\ kept[i].field \in Seq(Pieces)
  BY <1>3, <1>4, <1>5, <1>6 DEF Range
<1>8. Len(cards) \in Nat /\ DOMAIN cards = 1..Len(cards)
      /\ \A j \in DOMAIN cards : cards[j] \in Seq(Pieces)
  BY <1>1, <1>5
<1>9. DOMAIN first = 1..Len(kept)
      /\ \A i \in DOMAIN first : AskedFor(first[i], kept[i].op, kept[i].field)
  BY <1>7 DEF AskedFor
<1>10. \A f \in Seq(Pieces) : cardinalityName(f) = metricName(<<"cardinality">>, f)
  <2>1. <<"cardinality">> \o <<"_">> = <<"cardinality", "_">>
    BY TwoJoined
  <2> QED  BY <2>1 DEF cardinalityName, metricName
<1>11. DOMAIN second = 1..Len(cards)
       /\ \A j \in DOMAIN second : AskedFor(second[j], <<"cardinality">>, cards[j])
  <2>1. DOMAIN second = DOMAIN cards
    OBVIOUS
  <2>2. ASSUME NEW j \in DOMAIN cards PROVE AskedFor(second[j], <<"cardinality">>, cards[j])
    <3>1. cardinalityName(cards[j]) = metricName(<<"cardinality">>, cards[j])
      BY <1>8, <1>10
    <3> QED  BY <3>1 DEF AskedFor
  <2> QED  BY <1>8, <2>1, <2>2
<1>12. \A i \in 1..Len(kept) : first[i] \in A
  BY <1>9 DEF Range
<1>13. \A i \in 1..Len(cards) : second[i] \in A
  BY <1>11 DEF Range
<1>14. first = [i \in 1..Len(kept) |-> first[i]] /\ second = [i \in 1..Len(cards) |-> second[i]]
  BY <1>7, <1>8
<1> HIDE DEF first, second, A
<1>15. first \in Seq(A) /\ second \in Seq(A) /\ Len(first) = Len(kept) /\ Len(second) = Len(cards)
  BY <1>7, <1>8, <1>12, <1>13, <1>14
<1> DEFINE all == first \o second
<1>16. /\ all \in Seq(A) /\ Len(all) = Len(first) + Len(second)
       /\ DOMAIN all = 1..(Len(first) + Len(second))
       /\ \A i \in DOMAIN first : i \in DOMAIN all /\ all[i] = first[i]
       /\ \A j \in DOMAIN second : Len(first) + j \in DOMAIN all /\ all[Len(first) + j] = second[j]
  <2>1. all \in Seq(A) /\ Len(all) = Len(first) + Len(second)
    BY <1>15, Joined
  <2>4. DOMAIN all = 1..(Len(first) + Len(second))
    <3> HIDE DEF all
    <3>1. DOMAIN all = 1..Len(all)
      BY <2>1
    <3> QED  BY <2>1, <3>1
  <2>2. all \in Seq(A) /\ \A i \in DOMAIN first : i \in DOMAIN all /\ all[i] = first[i]
    BY <1>15, Joined
  <2>3. all \in Seq(A)
        /\ \A j \in DOMAIN second : Len(first) + j \in DOMAIN all /\ all[Len(first) + j] = second[j]
    BY <1>15, Joined
  <2> QED  BY <2>1, <2>2, <2>3, <2>4
<1> HIDE DEF all
<1>17. all \in Seq(Range(all))
  BY <1>16 DEF Range
<1> DEFINE m == Len(kept)  n == Len(cards)
<1>18. m \in Nat /\ n \in Nat /\ DOMAIN cards = 1..n
  BY <1>7, <1>8
<1>19. \A i \in 1..m : i \in DOMAIN all /\ AskedFor(all[i], kept[i].op, kept[i].field)
                       /\ validMetric(kept[i]) /\ kept[i].field \in Seq(Pieces)
  BY <1>7, <1>9, <1>16
<1>20. \A j \in 1..n : m + j \in DOMAIN all /\ AskedFor(all[m + j], <<"cardinality">>, cards[j])
                       /\ cards[j] \in Seq(Pieces)
  BY <1>8, <1>11, <1>15, <1>16
<1>21. Len(all) = m + n /\ DOMAIN all = 1..(m + n)
  BY <1>15, <1>16
<1> HIDE DEF m, n
<1>22. \A i \in 1..(m + n) : i \in 1..m \/ \E j \in 1..n : i = m + j
  <2> SUFFICES ASSUME NEW i \in 1..(m + n), i \notin 1..m PROVE \E j \in 1..n : i = m + j
    OBVIOUS
  <2>1. i - m \in 1..n /\ i = m + (i - m)
    BY <1>18
  <2> QED  BY <2>1
<1> QED  BY <1>2, <1>17, <1>18, <1>19, <1>20, <1>21, <1>22 DEF all, cards, kept, W, m, n

\* In short: each is a legal metric or a cardinality, under its own name.
LEMMA FlagsAreNamed ==
  ASSUME NEW p \in SearchParams
  PROVE  LET all == metricFlags(p)
         IN  \A i \in DOMAIN all :
                /\ all[i].op \in allOps /\ all[i].field \in Seq(Pieces)
                /\ all[i].name = metricName(all[i].op, all[i].field)
                /\ \/ validMetric(all[i])
                   \/ /\ all[i].op = <<"cardinality">>
                      /\ \E j \in DOMAIN p.cardinalities : all[i].field = p.cardinalities[j]
<1> DEFINE all == metricFlags(p)
           kept == Filtered(p.metrics, {m \in Range(p.metrics) : validMetric(m)})
           cards == p.cardinalities
<1>1. \A i \in 1..Len(kept) :
         AskedFor(all[i], kept[i].op, kept[i].field) /\ validMetric(kept[i])
         /\ kept[i].field \in Seq(Pieces)
  BY FlagsAreMetrics
<1>2. \A j \in DOMAIN cards :
         AskedFor(all[Len(kept) + j], <<"cardinality">>, cards[j]) /\ cards[j] \in Seq(Pieces)
  BY FlagsAreMetrics
<1>3. \A i \in DOMAIN all : i \in 1..Len(kept) \/ \E j \in DOMAIN cards : i = Len(kept) + j
  BY FlagsAreMetrics
<1> HIDE DEF all, kept, cards
<1>4. ASSUME NEW i \in DOMAIN all
      PROVE  /\ all[i].op \in allOps /\ all[i].field \in Seq(Pieces)
             /\ all[i].name = metricName(all[i].op, all[i].field)
             /\ \/ validMetric(all[i])
                \/ /\ all[i].op = <<"cardinality">>
                   /\ \E j \in DOMAIN cards : all[i].field = cards[j]
  <2>1. CASE i \in 1..Len(kept)
    <3>1. AskedFor(all[i], kept[i].op, kept[i].field) /\ validMetric(kept[i])
          /\ kept[i].field \in Seq(Pieces)
      BY <1>1, <2>1
    <3>2. all[i].op = kept[i].op /\ all[i].field = kept[i].field
          /\ all[i].name = metricName(kept[i].op, kept[i].field)
      BY <3>1 DEF AskedFor
    <3>3. kept[i].op \in metricOps /\ kept[i].field # <<>>
      BY <3>1 DEF validMetric
    <3>4. validMetric(all[i])
      BY <3>2, <3>3 DEF validMetric
    <3> QED  BY <3>1, <3>2, <3>3, <3>4 DEF allOps
  <2>2. CASE i \notin 1..Len(kept)
    <3>1. PICK j \in DOMAIN cards : i = Len(kept) + j
      BY <1>3, <2>2
    <3>2. AskedFor(all[i], <<"cardinality">>, cards[j]) /\ cards[j] \in Seq(Pieces)
      BY <1>2, <3>1
    <3>3. all[i].op = <<"cardinality">> /\ all[i].field = cards[j]
          /\ all[i].name = metricName(<<"cardinality">>, cards[j])
      BY <3>2 DEF AskedFor
    <3>4. <<"cardinality">> \in allOps
      BY DEF allOps
    <3> QED  BY <3>2, <3>3, <3>4
  <2> QED  BY <2>1, <2>2
<1> QED  BY <1>4 DEF all, cards

\* A metric as it is sent gives its operation and its field back.
LEMMA FieldsOf ==
  ASSUME NEW x, NEW op, NEW field, x = [op |-> op, field |-> field]
  PROVE  x.op = op /\ x.field = field
  OBVIOUS

\* What is sent under a name is what a flag of that name asks for.
LEMMA MetricsAreFlags ==
  ASSUME NEW p \in SearchParams
  PROVE  LET all == metricFlags(p)
             map == metricAggMap(p)
         IN  \A name \in DOMAIN map : \E i \in DOMAIN all :
                 all[i].name = name /\ map[name] = [op |-> all[i].op, field |-> all[i].field]
<1> DEFINE all == metricFlags(p)
           parsed == parsedMetrics(p)
           map == metricAggMap(p)
           places == {i \in DOMAIN all : \A j \in 1..(i - 1) : all[j].name # all[i].name}
<1>1. parsed = EntriesAt(all, places)
  BY DEF parsedMetrics
<1>2. map = [name \in {parsed[i].name : i \in DOMAIN parsed} |->
               LET m == CHOOSE n \in Range(parsed) : n.name = name
               IN [op |-> m.op, field |-> m.field]]
  BY DEF metricAggMap
<1>3. all \in Seq(Range(all))
  BY FlagsAreMetrics
<1> HIDE DEF all, parsed, map, places
<1>4. \A k \in DOMAIN parsed : \E i \in DOMAIN all : parsed[k] = all[i]
  <2> DEFINE S == Range(all)
  <2>1. all \in Seq(S)
    BY <1>3
  <2> HIDE DEF S
  <2> QED  BY <1>1, <2>1, EntriesTaken
<1>5. ASSUME NEW name \in DOMAIN map
      PROVE  \E i \in DOMAIN all :
                all[i].name = name /\ map[name] = [op |-> all[i].op, field |-> all[i].field]
  <2> DEFINE m == CHOOSE n \in Range(parsed) : n.name = name
  <2>1. name \in {parsed[i].name : i \in DOMAIN parsed}
        /\ map[name] = [op |-> m.op, field |-> m.field]
    BY <1>2
  <2>2. \E n \in Range(parsed) : n.name = name
    BY <2>1 DEF Range
  <2>3. m \in Range(parsed) /\ m.name = name
    BY <2>2
  <2> HIDE DEF m
  <2>4. \E i \in DOMAIN all : m = all[i]
    BY <1>4, <2>3 DEF Range
  <2> QED  BY <2>1, <2>3, <2>4
<1> QED  BY <1>5 DEF all, map

\* A flag given at most once has nothing or one value.
LEMMA OnceAtMost ==
  ASSUME NEW S, NEW s \in AtMostOne(S)
  PROVE  /\ s \in Seq(S)
         /\ (s = <<>> /\ DOMAIN s = {}) \/ (s # <<>> /\ DOMAIN s = {1} /\ s[1] \in S)
<1>1. s \in Seq(S) /\ Len(s) \in 0..1 /\ DOMAIN s = 1..Len(s)
  <2>1. s \in Seq(S) /\ Len(s) <= 1
    BY DEF AtMostOne
  <2>2. Len(s) \in Nat /\ DOMAIN s = 1..Len(s)
    BY <2>1
  <2> QED  BY <2>1, <2>2
<1>2. CASE Len(s) = 0
  <2>1. DOMAIN s = {} /\ s = <<>>
    BY <1>1, <1>2
  <2> QED  BY <1>1, <2>1
<1>3. CASE Len(s) = 1
  <2>1. DOMAIN s = {1} /\ s[1] \in S /\ s # <<>>
    BY <1>1, <1>3
  <2> QED  BY <1>1, <2>1
<1> QED  BY <1>1, <1>2, <1>3

\* The parts of a body made of flags that are valid.
LEMMA RangeIsLegal ==
  ASSUME NEW p \in SearchParams, validate(p), p.tsField # ""
  PROVE  \A i \in DOMAIN rangeFilter(p) :
            LegalRange(rangeFilter(p)[i]) /\ ~EmptyRange(rangeFilter(p)[i])
<1> DEFINE r == [field |-> p.tsField, since |-> p.since,
                 gte |-> IF p.since # <<>> THEN <<>> ELSE p.from,
                 lte |-> IF p.since # <<>> THEN <<>> ELSE p.to]
<1>1. p.from \in AtMostOne(Int) /\ p.to \in AtMostOne(Int)
      /\ p.since \in AtMostOne([magnitude : Nat, unit : STRING])
  BY DEF SearchParams
<1>2. p.from \in Seq(Int) /\ p.to \in Seq(Int)
  BY <1>1, OnceAtMost
<1>3. (\A i \in DOMAIN p.from : p.from[i] # Malformed) /\ (\A i \in DOMAIN p.to : p.to[i] # Malformed)
  <2> DEFINE u == p.from  v == p.to
  <2>1. \A i \in DOMAIN (u \o v) : (u \o v)[i] # Malformed
    BY DEF validate, validAbsoluteRange
  <2>2. u \in Seq(Int) /\ v \in Seq(Int)
    BY <1>2
  <2> HIDE DEF u, v
  <2>3. \A i \in DOMAIN u : u[i] # Malformed
    BY <2>1, <2>2, FirstWithout
  <2>4. \A i \in DOMAIN v : v[i] # Malformed
    BY <2>1, <2>2, SecondWithout
  <2> QED  BY <2>3, <2>4 DEF u, v
<1>4. \A i \in DOMAIN p.from, j \in DOMAIN p.to : p.from[i] <= p.to[j]
  BY DEF validate, validAbsoluteRange
<1>5. \A i \in DOMAIN p.since : p.since[i].unit \in {"s", "m", "h", "d"} /\ p.since[i].magnitude > 0
  BY DEF validate, validSince
<1>6. DOMAIN <<>> = {}
  BY NoEntry
<1>7. r.field = p.tsField /\ r.since = p.since
      /\ (r.gte = p.from \/ r.gte = <<>>) /\ (r.lte = p.to \/ r.lte = <<>>)
  OBVIOUS
<1>8. rangeFilter(p) = <<>> \/ rangeFilter(p) = <<r>>
  BY DEF rangeFilter
<1> HIDE DEF r
<1>9. LegalRange(r)
  BY <1>3, <1>5, <1>6, <1>7 DEF LegalRange
<1>10. ~EmptyRange(r)
  <2>1. ~ \E i \in DOMAIN r.since : r.since[i].magnitude = 0
    <3> SUFFICES ASSUME NEW i \in DOMAIN p.since PROVE p.since[i].magnitude # 0
      BY <1>7
    <3> DEFINE S == [magnitude : Nat, unit : STRING]
               t == p.since
    <3>1. t \in Seq(S)
      <4>1. t \in AtMostOne(S)
        BY <1>1
      <4> HIDE DEF S, t
      <4> QED  BY <4>1, OnceAtMost
    <3>2. t[i] \in S
      <4>1. i \in DOMAIN t
        OBVIOUS
      <4> HIDE DEF S, t
      <4> QED  BY <3>1, <4>1, EntryOf
    <3>3. t[i].magnitude \in Int
      BY <3>2, MagnitudeOf
    <3>4. t[i].magnitude > 0
      BY <1>5
    <3> QED  BY <3>3, <3>4, NotZero
  <2>2. ~ \E i \in DOMAIN r.gte, j \in DOMAIN r.lte : r.gte[i] > r.lte[j]
    <3> SUFFICES ASSUME NEW i \in DOMAIN r.gte, NEW j \in DOMAIN r.lte
                 PROVE  ~ (r.gte[i] > r.lte[j])
      OBVIOUS
    <3>1. r.gte = p.from /\ r.lte = p.to
      BY <1>6, <1>7
    <3>2. p.from[i] <= p.to[j]
      BY <1>4, <3>1
    <3>3. p.from[i] \in Int /\ p.to[j] \in Int
      <4>1. p.from \in Seq(Int) /\ p.to \in Seq(Int) /\ i \in DOMAIN p.from /\ j \in DOMAIN p.to
        BY <1>2, <3>1
      <4> QED  BY <4>1, EntryOf
    <3>4. ~ (p.from[i] > p.to[j])
      BY <3>2, <3>3, NotAbove
    <3> QED  BY <3>1, <3>4
  <2> QED  BY <2>1, <2>2 DEF EmptyRange
<1>11. CASE rangeFilter(p) = <<>>
  BY <1>6, <1>11
<1>12. CASE rangeFilter(p) = <<r>>
  <2>1. DOMAIN <<r>> = {1} /\ <<r>>[1] = r
    BY OneEntry
  <2> DEFINE s == <<r>>
  <2> HIDE DEF s
  <2>2. \A i \in DOMAIN s : s[i] = r
    BY <2>1 DEF s
  <2> QED  BY <1>9, <1>10, <1>12, <2>2 DEF s
<1> QED  BY <1>8, <1>11, <1>12

\* ... its sort,
LEMMA SortIsLegal ==
  ASSUME NEW p \in SearchParams, validate(p), p.tsField # ""
  PROVE  \A i \in DOMAIN sortClause(p) : LegalSort(sortClause(p)[i])
<1> DEFINE first == [field |-> IF p.sort = <<>> THEN p.tsField ELSE p.sort[1].field,
                     dir |-> IF p.sort # <<>> /\ p.sort[1].dir \notin {"none", ""}
                             THEN p.sort[1].dir ELSE "desc"]
           second == [field |-> "_doc", dir |-> "asc"]
<1>1. p.sort \in AtMostOne([field : STRING, dir : STRING])
  BY DEF SearchParams
<1>2. \A i \in DOMAIN p.sort : p.sort[i].field # "" /\ p.sort[i].dir \in {"none", "asc", "desc"}
  BY DEF validate, validateSort
<1>3. p.sort = <<>> \/ 1 \in DOMAIN p.sort
  <2> DEFINE u == p.sort
  <2>1. (u = <<>> /\ DOMAIN u = {}) \/ (u # <<>> /\ DOMAIN u = {1})
    BY <1>1, OnceAtMost
  <2> HIDE DEF u
  <2>2. u = <<>> \/ 1 \in DOMAIN u
    BY <2>1
  <2> QED  BY <2>2 DEF u
<1>4. first.field # "" /\ first.dir \in {"asc", "desc"}
  BY <1>2, <1>3
<1>5. sortClause(p) = <<first, second>>
  BY DEF sortClause
<1>6. LegalSort(second)
  BY DEF LegalSort
<1> HIDE DEF first, second
<1>7. LegalSort(first)
  BY <1>4 DEF LegalSort
<1>8. DOMAIN <<first, second>> = {1, 2} /\ <<first, second>>[1] = first /\ <<first, second>>[2] = second
  BY TwoEntries
<1> DEFINE u == <<first, second>>
<1> HIDE DEF u
<1>9. \A i \in DOMAIN u : u[i] = first \/ u[i] = second
  BY <1>8 DEF u
<1> QED  BY <1>5, <1>6, <1>7, <1>9 DEF u

AggFlagsValid(p) ==
    /\ \A i \in DOMAIN p.terms : validTerms(p.terms[i])
    /\ \A i \in DOMAIN p.dateHistogram : validDateHistogram(p.dateHistogram[i])
    /\ \A i \in DOMAIN p.cardinalities : p.cardinalities[i] # <<>>

\* ... its aggregations, of which raw ones come alone,
LEMMA AggFlags ==
  ASSUME NEW p, validateAggregation(p)
  PROVE  AggFlagsValid(p) /\ p.rawAggs # "other"
<1>1. CASE p.rawAggs # ""
  <2>1. ~hasStructuredAggregation(p) /\ p.rawAggs = "object"
    BY <1>1 DEF validateAggregation
  <2>2. p.terms = <<>> /\ p.dateHistogram = <<>> /\ p.cardinalities = <<>>
    BY <2>1 DEF hasStructuredAggregation
  <2>3. AggFlagsValid(p)
    BY <2>2, NoEntry DEF AggFlagsValid
  <2> QED  BY <2>1, <2>3
<1>2. CASE p.rawAggs = ""
  BY <1>2 DEF validateAggregation, AggFlagsValid
<1> QED  BY <1>1, <1>2

\* ... its terms,
LEMMA TermsAreLegal ==
  ASSUME NEW p \in SearchParams, AggFlagsValid(p)
  PROVE  \A i \in DOMAIN buildAggs(p).terms :
            buildAggs(p).terms[i].field # "" /\ buildAggs(p).terms[i].size > 0
<1> DEFINE sent == buildAggs(p).terms
<1>1. sent = [i \in DOMAIN p.terms |->
                [field |-> p.terms[i].field, size |-> termsSize(p.terms[i])]]
  BY DEF buildAggs
<1>2. \A i \in DOMAIN p.terms : p.terms[i].field # "" /\ (p.terms[i].size # <<>> => p.terms[i].size[1] > 0)
  BY DEF AggFlagsValid, validTerms
<1>3. ASSUME NEW t, t.size # <<>> => t.size[1] > 0 PROVE termsSize(t) > 0
  <2>1. CASE t.size = <<>>
    <3>1. termsSize(t) = 10
      BY <2>1 DEF termsSize, defaultBucketSize
    <3> QED  BY <3>1
  <2>2. CASE t.size # <<>>
    <3>1. termsSize(t) = t.size[1]
      BY <2>2 DEF termsSize
    <3>2. t.size[1] > 0
      BY <1>3, <2>2, Zenon
    <3> QED  BY <3>1, <3>2, Zenon
  <2> QED  BY <2>1, <2>2
<1> HIDE DEF sent
<1>4. ASSUME NEW i \in DOMAIN sent PROVE sent[i].field # "" /\ sent[i].size > 0
  <2>1. i \in DOMAIN p.terms /\ sent[i].field = p.terms[i].field /\ sent[i].size = termsSize(p.terms[i])
    BY <1>1
  <2> QED  BY <1>2, <1>3, <2>1
<1> QED  BY <1>4 DEF sent

\* ... its date histogram,
LEMMA HistogramIsLegal ==
  ASSUME NEW p \in SearchParams, AggFlagsValid(p)
  PROVE  \A i \in DOMAIN buildAggs(p).histogram : LegalInterval(buildAggs(p).histogram[i])
<1> DEFINE sent == buildAggs(p).histogram
<1>1. sent = [i \in DOMAIN p.dateHistogram |->
                [field |-> p.dateHistogram[i].field, key |-> intervalKey(p.dateHistogram[i]),
                 digits |-> p.dateHistogram[i].digits, unit |-> p.dateHistogram[i].unit]]
  BY DEF buildAggs
<1> HIDE DEF sent
<1>2. ASSUME NEW i \in DOMAIN sent PROVE LegalInterval(sent[i])
  <2> DEFINE h == p.dateHistogram[i]
  <2>1. i \in DOMAIN p.dateHistogram /\ sent[i].field = h.field /\ sent[i].key = intervalKey(h)
        /\ sent[i].digits = h.digits /\ sent[i].unit = h.unit
    BY <1>1
  <2>2. validDateHistogram(h)
    BY <2>1 DEF AggFlagsValid
  <2>3. h.unit \in IntervalUnits
    <3> DEFINE S == [field : STRING, digits : STRING, unit : IntervalUnits]
               u == p.dateHistogram
    <3>1. u \in AtMostOne(S)
      BY DEF SearchParams
    <3>2. u[i] \in S
      <4>1. i \in DOMAIN u
        BY <2>1
      <4> HIDE DEF S, u
      <4> QED  BY <3>1, <4>1, OnceAtMost, EntryOf
    <3> QED  BY <3>2
  <2> HIDE DEF h
  <2>4. CASE h.unit \in {"s", "m", "h", "d"}
    <3>1. intervalKey(h) = "fixed_interval"
      BY <2>4 DEF intervalKey
    <3> QED  BY <2>1, <2>2, <2>4, <3>1 DEF LegalInterval, validDateHistogram
  <2>5. CASE h.unit \in {"w", "M", "y"}
    <3>1. intervalKey(h) = "calendar_interval"
      BY <2>5 DEF intervalKey
    <3> QED  BY <2>1, <2>2, <2>5, <3>1 DEF LegalInterval, validDateHistogram
  <2> QED  BY <2>2, <2>3, <2>4, <2>5 DEF IntervalUnits, validDateHistogram
<1> QED  BY <1>2 DEF sent

\* ... and its metrics.
LEMMA MetricsAreLegal ==
  ASSUME NEW p \in SearchParams, AggFlagsValid(p)
  PROVE  \A name \in DOMAIN buildAggs(p).metrics :
            /\ buildAggs(p).metrics[name].op \in metricOps \cup {<<"cardinality">>}
            /\ buildAggs(p).metrics[name].field # <<>>
<1> DEFINE all == metricFlags(p)
           map == metricAggMap(p)
<1>1. buildAggs(p).metrics = map
  BY DEF buildAggs
<1>2. \A name \in DOMAIN map : \E i \in DOMAIN all :
          all[i].name = name /\ map[name] = [op |-> all[i].op, field |-> all[i].field]
  BY MetricsAreFlags
<1>3. \A i \in DOMAIN all :
         \/ validMetric(all[i])
         \/ /\ all[i].op = <<"cardinality">>
            /\ \E j \in DOMAIN p.cardinalities : all[i].field = p.cardinalities[j]
  BY FlagsAreNamed
<1>4. \A j \in DOMAIN p.cardinalities : p.cardinalities[j] # <<>>
  BY DEF AggFlagsValid
<1> HIDE DEF all, map
<1>5. \A i \in DOMAIN all : all[i].op \in metricOps \cup {<<"cardinality">>} /\ all[i].field # <<>>
  BY <1>3, <1>4 DEF validMetric
<1>6. ASSUME NEW name \in DOMAIN map
      PROVE  map[name].op \in metricOps \cup {<<"cardinality">>} /\ map[name].field # <<>>
  <2>1. PICK i \in DOMAIN all : map[name] = [op |-> all[i].op, field |-> all[i].field]
    BY <1>2
  <2>2. map[name].op = all[i].op /\ map[name].field = all[i].field
    BY <2>1, FieldsOf
  <2> QED  BY <1>5, <2>2
<1> QED  BY <1>1, <1>6 DEF map

\* A body made of flags that are valid is legal.
LEMMA BodyIsLegal ==
  ASSUME NEW p \in SearchParams, validate(p), p.tsField # ""
  PROVE  LegalBody(buildBody(p))
<1> DEFINE body == buildBody(p)
           aggs == buildAggs(p)
<1>1. AggFlagsValid(p) /\ p.rawAggs # "other"
  BY AggFlags DEF validate
<1>2. body.range = rangeFilter(p) /\ (body.sort = sortClause(p) \/ body.sort = <<>>)
      /\ body.aggs = aggs
  BY DEF buildBody
<1>3. aggs.raw = p.rawAggs
  BY DEF buildAggs
<1>4. \A i \in DOMAIN body.sort : LegalSort(body.sort[i])
  <2>1. CASE body.sort = sortClause(p)
    BY <2>1, SortIsLegal
  <2>2. CASE body.sort = <<>>
    BY <2>2, NoEntry
  <2> QED  BY <1>2, <2>1, <2>2
<1>5. \A i \in DOMAIN body.range : LegalRange(body.range[i]) /\ ~EmptyRange(body.range[i])
  BY <1>2, RangeIsLegal
<1>6. \A i \in DOMAIN aggs.terms : aggs.terms[i].field # "" /\ aggs.terms[i].size > 0
  BY <1>1, TermsAreLegal
<1>7. \A i \in DOMAIN aggs.histogram : LegalInterval(aggs.histogram[i])
  BY <1>1, HistogramIsLegal
<1>8. \A name \in DOMAIN aggs.metrics :
         aggs.metrics[name].op \in metricOps \cup {<<"cardinality">>} /\ aggs.metrics[name].field # <<>>
  BY <1>1, MetricsAreLegal
<1> HIDE DEF body, aggs
<1>9. LegalBody(body)
  BY <1>1, <1>2, <1>3, <1>4, <1>5, <1>6, <1>7, <1>8 DEF LegalBody
<1> QED  BY <1>9 DEF body

\* What of the flags is behind a request, and what it carries.
LEMMA RequestBehind ==
  ASSUME CommandInv
  PROVE  /\ request # <<>> <=> Behind("send")
         /\ request # <<>> => Len(request) = 1 /\ request[1] = Request /\ Behind("connect")
         /\ request # <<>> /\ inv.command = "search" => Behind("flags")
<1>1. request = IF Behind("send") THEN <<Request>> ELSE <<>>
  BY DEF CommandInv, CallsInv
<1>2. Behind("send") => Behind("connect") /\ (inv.command = "search" => Behind("flags"))
  <2>1. inv.command \in CommandNames
    BY BehindFailure
  <2>2. /\ "send" \in Calls(inv.command) => "connect" \in Calls(inv.command)
        /\ inv.command = "search" => "flags" \in Calls(inv.command)
    BY <2>1, StepsOrder
  <2>3. CASE todo # <<>>
    <3>1. \A x \in DOMAIN Rank : Behind(x) <=> x \in Calls(inv.command) /\ Rank[x] < Rank[todo[1]]
      BY <2>3, BehindFailure
    <3>2. /\ "send" \in DOMAIN Rank /\ "connect" \in DOMAIN Rank /\ "flags" \in DOMAIN Rank
          /\ Rank["flags"] = 1 /\ Rank["connect"] = 4 /\ Rank["send"] = 5
      BY RankOf DEF Rank
    <3>3. Rank[todo[1]] \in Int
      <4>1. todo[1] \in DOMAIN Rank
        BY <2>1, <2>3, BehindAt DEF CommandInv
      <4> QED  BY <2>1, <4>1, StepsOrder
    <3>4. Rank["send"] < Rank[todo[1]] => Rank["connect"] < Rank[todo[1]] /\ Rank["flags"] < Rank[todo[1]]
      <4> DEFINE r == Rank[todo[1]]
      <4>1. r \in Int
        BY <3>3
      <4> HIDE DEF r
      <4>2. 5 < r => 4 < r /\ 1 < r
        BY <4>1
      <4> QED  BY <3>2, <4>2 DEF r
    <3> QED  BY <2>2, <3>1, <3>2, <3>4
  <2>4. CASE todo = <<>>
    BY <2>1, <2>2, <2>4, BehindEnd
  <2> QED  BY <2>3, <2>4
<1>3. <<Request>> # <<>> /\ Len(<<Request>>) = 1 /\ <<Request>>[1] = Request
  OBVIOUS
<1> QED  BY <1>1, <1>2, <1>3

\* SentIsLegal: for any flags with a timestamp field, a search that Elasticsearch
\* would answer with a 400 is not sent (search.go:103).
THEOREM LegalBodiesSent ==
  ASSUME \A group \in Invocations : \A i \in group : i.flags.tsField # ""
  PROVE  Spec => []SentIsLegal
<1> DEFINE Named == inv.flags.tsField # ""
<1>1. Init => Named
  BY DEF Init
<1>2. Named /\ [Next]_vars => Named'
  <2> SUFFICES ASSUME Named, [Next]_vars PROVE inv' = inv
    OBVIOUS
  <2> QED  BY DEF Next, vars, CheckFlags, LoadConfig, ResolveFormat, BuildClient, Checks, Send,
              MappingAnswered, SearchAnswered, VersionAnswered, Answers, RequestFails, Receive,
              ReadIndex, Finishes, Render,
              UnreadableAggregations, WriteFails, LineLost, RequestNotMade, Ended
<1>3. CommandInv /\ Named => SentIsLegal
  <2> SUFFICES ASSUME CommandInv, Named, inv.command = "search", request # <<>>
               PROVE  LegalBody(request[1].body[1])
    BY DEF SentIsLegal
  <2>1. request[1] = Request /\ Behind("flags")
    BY RequestBehind
  <2>2. FlagsOK
    BY <2>1 DEF CommandInv, CallsInv
  <2>3. validate(inv.flags)
    BY <2>2 DEF FlagsOK
  <2>4. inv.flags \in SearchParams
    BY DEF CommandInv, Invocation
  <2>5. request[1].body[1] = buildBody(inv.flags)
    <3>1. Request.body = <<buildBody(inv.flags)>>
      BY DEF Request
    <3>2. <<buildBody(inv.flags)>>[1] = buildBody(inv.flags)
      BY OneEntry
    <3> QED  BY <2>1, <3>1, <3>2, Zenon
  <2> QED  BY <2>3, <2>4, <2>5, BodyIsLegal
<1> QED  BY <1>1, <1>2, <1>3, CommandInductive, PTL DEF Spec


-----------------------------------------------------------------------------
(***************************************************************************)
(* What is refused.                                                        *)
(***************************************************************************)
\* What each flag asks for is sent, under its own name.
LEMMA MapIsFaithful ==
  ASSUME NEW p \in SearchParams
  PROVE  LET all == metricFlags(p)
             map == metricAggMap(p)
         IN  \A i \in DOMAIN all :
                all[i].name \in DOMAIN map
                /\ map[all[i].name] = [op |-> all[i].op, field |-> all[i].field]
<1> DEFINE all == metricFlags(p)
           parsed == parsedMetrics(p)
           map == metricAggMap(p)
           places == {i \in DOMAIN all : \A j \in 1..(i - 1) : all[j].name # all[i].name}
<1>1. parsed = EntriesAt(all, places)
  BY DEF parsedMetrics
<1>2. DOMAIN map = {parsed[i].name : i \in DOMAIN parsed}
  BY DEF metricAggMap
<1>3. all \in Seq(Range(all)) /\ Len(all) \in Nat /\ DOMAIN all = 1..Len(all)
  <2>1. all \in Seq(Range(all))
    BY FlagsAreMetrics
  <2> HIDE DEF all
  <2> QED  BY <2>1
<1>4. \A i \in DOMAIN all :
         /\ all[i].op \in allOps /\ all[i].field \in Seq(Pieces)
         /\ all[i].name = metricName(all[i].op, all[i].field)
  BY FlagsAreNamed
<1>5. \A name \in DOMAIN map : \E i \in DOMAIN all :
          all[i].name = name /\ map[name] = [op |-> all[i].op, field |-> all[i].field]
  BY MetricsAreFlags
<1> HIDE DEF all, parsed, map
<1>6. \A i \in DOMAIN all \cap places : \E k \in DOMAIN parsed : parsed[k] = all[i]
  <2> DEFINE S == Range(all)
  <2>1. all \in Seq(S)
    BY <1>3
  <2> HIDE DEF S, places
  <2> QED  BY <1>1, <2>1, EntriesTaken
<1>7. ASSUME NEW i \in DOMAIN all PROVE all[i].name \in DOMAIN map
  <2> DEFINE J == {j \in DOMAIN all : all[j].name = all[i].name}
             m == Min(J)
  <2>1. J \in SUBSET Nat /\ J # {}
    BY <1>3
  <2>2. m \in J /\ \A j \in J : m <= j
    <3> HIDE DEF J
    <3> QED  BY <2>1, LeastOf
  <2> HIDE DEF m
  <2>3. m \in DOMAIN all /\ all[m].name = all[i].name /\ m \in Nat
    BY <1>3, <2>2
  <2>4. \A j \in 1..(m - 1) : j \in DOMAIN all /\ ~ (m <= j)
    BY <1>3, <2>3
  <2>5. \A j \in 1..(m - 1) : all[j].name # all[m].name
    BY <2>2, <2>3, <2>4
  <2>6. \E k \in DOMAIN parsed : parsed[k] = all[m]
    BY <1>6, <2>3, <2>5
  <2> QED  BY <1>2, <2>3, <2>6
<1>8. ASSUME NEW i \in DOMAIN all
      PROVE  map[all[i].name] = [op |-> all[i].op, field |-> all[i].field]
  <2>1. PICK j \in DOMAIN all : all[j].name = all[i].name
                                /\ map[all[i].name] = [op |-> all[j].op, field |-> all[j].field]
    BY <1>5, <1>7
  <2>2. metricName(all[i].op, all[i].field) = metricName(all[j].op, all[j].field)
    BY <1>4, <2>1
  <2>3. all[i].op = all[j].op /\ all[i].field = all[j].field
    BY <1>4, <2>2, NamesDiffer
  <2> QED  BY <2>1, <2>3
<1> QED  BY <1>7, <1>8 DEF all, map

\* Flags that ask for a legal time range are valid.
LEMMA LegalRangeIsValid ==
  ASSUME NEW p \in SearchParams, ~Contradictory(p),
         \A i \in DOMAIN rangeFilter(p) :
            LegalRange(rangeFilter(p)[i]) /\ ~EmptyRange(rangeFilter(p)[i])
  PROVE  /\ p.since # <<>> => p.from = <<>> /\ p.to = <<>>
         /\ \A i \in DOMAIN p.since : validSince(p.since[i])
         /\ validAbsoluteRange(p)
<1> DEFINE r == [field |-> p.tsField, since |-> p.since,
                 gte |-> IF p.since # <<>> THEN <<>> ELSE p.from,
                 lte |-> IF p.since # <<>> THEN <<>> ELSE p.to]
<1>1. p.since # <<>> => p.from = <<>> /\ p.to = <<>>
  BY DEF Contradictory
<1>2. r.since = p.since /\ r.gte = p.from /\ r.lte = p.to
  BY <1>1
<1>3. p.from \in AtMostOne(Int) /\ p.to \in AtMostOne(Int)
      /\ p.since \in AtMostOne([magnitude : Nat, unit : STRING])
  BY DEF SearchParams
<1>4. CASE p.since = <<>> /\ p.from = <<>> /\ p.to = <<>>
  <2>1. DOMAIN p.since = {} /\ DOMAIN p.from = {} /\ DOMAIN p.to = {}
    BY <1>4, NoEntry
  <2>2. DOMAIN (p.from \o p.to) = {}
    <3>1. <<>> \o <<>> = <<>>
      OBVIOUS
    <3> QED  BY <1>4, <3>1, NoEntry
  <2> QED  BY <1>1, <2>1, <2>2 DEF validAbsoluteRange
<1>5. CASE ~ (p.since = <<>> /\ p.from = <<>> /\ p.to = <<>>)
  <2>1. rangeFilter(p) = <<r>>
    BY <1>5 DEF rangeFilter
  <2>2. DOMAIN <<r>> = {1} /\ <<r>>[1] = r
    BY OneEntry
  <2> HIDE DEF r
  <2>3. LegalRange(r) /\ ~EmptyRange(r)
    BY <2>1, <2>2
  <2>4. \A i \in DOMAIN p.since : validSince(p.since[i])
    <3> SUFFICES ASSUME NEW i \in DOMAIN p.since PROVE validSince(p.since[i])
      OBVIOUS
    <3>1. p.since[i].unit \in {"s", "m", "h", "d"} /\ p.since[i].magnitude # 0
      BY <1>2, <2>3 DEF LegalRange, EmptyRange
    <3> DEFINE S == [magnitude : Nat, unit : STRING]
               t == p.since
    <3>2. t[i] \in S
      <4>1. t \in AtMostOne(S) /\ i \in DOMAIN t
        BY <1>3
      <4> HIDE DEF S, t
      <4> QED  BY <4>1, OnceAtMost, EntryOf
    <3>3. p.since[i].magnitude > 0
      BY <3>1, <3>2, AboveZero
    <3> QED  BY <3>1, <3>3 DEF validSince
  <2> DEFINE u == p.from  v == p.to
  <2>5. (\A i \in DOMAIN u : u[i] # Malformed) /\ (\A i \in DOMAIN v : v[i] # Malformed)
    BY <1>2, <2>3 DEF LegalRange
  <2>6. \A i \in DOMAIN u, j \in DOMAIN v : ~ (u[i] > v[j])
    BY <1>2, <2>3 DEF EmptyRange
  <2>7. u \in Seq(Int) /\ v \in Seq(Int)
    BY <1>3, OnceAtMost
  <2> HIDE DEF u, v
  <2>8. \A i \in DOMAIN (u \o v) : (u \o v)[i] # Malformed
    BY <2>5, <2>7, JoinedWithout
  <2>9. \A i \in DOMAIN u, j \in DOMAIN v : u[i] <= v[j]
    <3> SUFFICES ASSUME NEW i \in DOMAIN u, NEW j \in DOMAIN v PROVE u[i] <= v[j]
      OBVIOUS
    <3>1. u[i] \in Int /\ v[j] \in Int /\ ~ (u[i] > v[j])
      BY <2>6, <2>7, EntryOf
    <3> QED  BY <3>1, AtMostIf
  <2>10. validAbsoluteRange(p)
    BY <2>8, <2>9 DEF validAbsoluteRange, u, v
  <2> QED  BY <1>1, <2>4, <2>10
<1> QED  BY <1>4, <1>5

\* ... a legal sort,
LEMMA LegalSortIsValid ==
  ASSUME NEW p \in SearchParams, ~Incomplete(p),
         \A i \in DOMAIN sortClause(p) : LegalSort(sortClause(p)[i])
  PROVE  validateSort(p)
<1> DEFINE first == [field |-> IF p.sort = <<>> THEN p.tsField ELSE p.sort[1].field,
                     dir |-> IF p.sort # <<>> /\ p.sort[1].dir \notin {"none", ""}
                             THEN p.sort[1].dir ELSE "desc"]
           second == [field |-> "_doc", dir |-> "asc"]
<1>1. \A i \in DOMAIN p.sort : p.sort[i].dir # ""
  BY DEF Incomplete
<1>2. \A i \in DOMAIN p.sort : i = 1 /\ p.sort # <<>>
  <2> DEFINE u == p.sort  S == [field : STRING, dir : STRING]
  <2>1. u \in AtMostOne(S)
    BY DEF SearchParams
  <2> HIDE DEF u, S
  <2>2. \A i \in DOMAIN u : i = 1 /\ u # <<>>
    BY <2>1, OnceAtMost
  <2> QED  BY <2>2 DEF u
<1>3. sortClause(p) = <<first, second>>
  BY DEF sortClause
<1>4. 1 \in DOMAIN <<first, second>> /\ <<first, second>>[1] = first
  BY TwoEntries
<1>5. LegalSort(first)
  <2> DEFINE u == <<first, second>>
  <2> HIDE DEF first, second
  <2>1. \A i \in DOMAIN u : LegalSort(u[i])
    BY <1>3
  <2> QED  BY <1>4, <2>1
<1>6. first.field # "" /\ first.dir \in {"asc", "desc"}
  BY <1>5 DEF LegalSort
<1>7. ASSUME NEW i \in DOMAIN p.sort
      PROVE  p.sort[i].field # "" /\ p.sort[i].dir \in {"none", "asc", "desc"}
  <2>1. i = 1 /\ p.sort # <<>> /\ p.sort[1].dir # ""
    BY <1>1, <1>2, <1>7
  <2>2. first.field = p.sort[1].field
        /\ (p.sort[1].dir # "none" => first.dir = p.sort[1].dir)
    BY <2>1
  <2> QED  BY <1>6, <2>1, <2>2
<1> QED  BY <1>7 DEF validateSort

\* ... legal terms,
LEMMA LegalTermsAreValid ==
  ASSUME NEW p \in SearchParams,
         \A i \in DOMAIN buildAggs(p).terms :
            buildAggs(p).terms[i].field # "" /\ buildAggs(p).terms[i].size > 0
  PROVE  \A i \in DOMAIN p.terms : validTerms(p.terms[i])
<1> DEFINE sent == buildAggs(p).terms
<1>1. sent = [i \in DOMAIN p.terms |->
                [field |-> p.terms[i].field, size |-> termsSize(p.terms[i])]]
  BY DEF buildAggs
<1> HIDE DEF sent
<1>2. ASSUME NEW i \in DOMAIN p.terms PROVE validTerms(p.terms[i])
  <2> DEFINE t == p.terms[i]
  <2>1. i \in DOMAIN sent /\ sent[i].field = t.field /\ sent[i].size = termsSize(t)
    BY <1>1
  <2>2. t.field # "" /\ termsSize(t) > 0
    BY <2>1 DEF sent
  <2> HIDE DEF t
  <2>3. ASSUME t.size # <<>> PROVE t.size[1] > 0
    <3>1. termsSize(t) = t.size[1]
      BY <2>3 DEF termsSize
    <3> QED  BY <2>2, <3>1, Zenon
  <2>4. validTerms(t)
    BY <2>2, <2>3, Zenon DEF validTerms
  <2> QED  BY <2>4 DEF t
<1> QED  BY <1>2

\* ... a legal date histogram,
LEMMA LegalHistogramIsValid ==
  ASSUME NEW p \in SearchParams,
         \A i \in DOMAIN buildAggs(p).histogram : LegalInterval(buildAggs(p).histogram[i])
  PROVE  \A i \in DOMAIN p.dateHistogram : validDateHistogram(p.dateHistogram[i])
<1> DEFINE sent == buildAggs(p).histogram
<1>1. sent = [i \in DOMAIN p.dateHistogram |->
                [field |-> p.dateHistogram[i].field, key |-> intervalKey(p.dateHistogram[i]),
                 digits |-> p.dateHistogram[i].digits, unit |-> p.dateHistogram[i].unit]]
  BY DEF buildAggs
<1> HIDE DEF sent
<1>2. ASSUME NEW i \in DOMAIN p.dateHistogram PROVE validDateHistogram(p.dateHistogram[i])
  <2> DEFINE h == p.dateHistogram[i]
  <2>1. i \in DOMAIN sent /\ sent[i].field = h.field /\ sent[i].key = intervalKey(h)
        /\ sent[i].digits = h.digits /\ sent[i].unit = h.unit
    BY <1>1
  <2>2. LegalInterval(sent[i])
    BY <2>1 DEF sent
  <2> HIDE DEF h
  <2>3. h.field # "" /\ h.digits \notin ZeroDigits \cup {""}
        /\ \/ h.unit \in {"s", "m", "h", "d"}
           \/ h.unit \in {"w", "M", "y"} /\ h.digits = "1"
    BY <2>1, <2>2 DEF LegalInterval
  <2>4. validDateHistogram(h)
    BY <2>3 DEF validDateHistogram
  <2> QED  BY <2>4 DEF h
<1> QED  BY <1>2

\* ... and legal metrics.
LEMMA LegalMetricsAreValid ==
  ASSUME NEW p \in SearchParams, ~Incomplete(p),
         \A name \in DOMAIN buildAggs(p).metrics : buildAggs(p).metrics[name].field # <<>>
  PROVE  /\ \A i \in DOMAIN p.metrics : validMetric(p.metrics[i])
         /\ \A i \in DOMAIN p.cardinalities : p.cardinalities[i] # <<>>
<1> DEFINE all == metricFlags(p)
           map == metricAggMap(p)
           W == {m \in Range(p.metrics) : validMetric(m)}
           kept == Filtered(p.metrics, W)
           cards == p.cardinalities
           M == [op : Seq(STRING), field : Seq(STRING)]
           given == p.metrics
<1>1. given \in Seq(M)
  BY DEF SearchParams
<1>2. Len(all) = Len(kept) + Len(cards) /\ Len(kept) \in Nat /\ Len(cards) \in Nat
  BY FlagsAreMetrics
<1>3. Len(given) \in Nat /\ Len(all) \in Nat /\ ~ (Len(all) < Len(given) + Len(cards))
  <2>1. ~ (Len(all) < Len(given) + Len(cards))
    BY DEF Incomplete
  <2>2. Len(given) \in Nat
    <3> HIDE DEF given, M
    <3> QED  BY <1>1
  <2>3. Len(all) \in Nat
    <3> HIDE DEF all, kept, cards
    <3> QED  BY <1>2
  <2> QED  BY <2>1, <2>2, <2>3, Zenon
<1>4. \A m \in W : validMetric(m)
  OBVIOUS
<1>5. \A i \in DOMAIN given : given[i] \in W
  <2> HIDE DEF given, W, M, all, cards
  <2>1. Len(kept) <= Len(given) /\ (Len(kept) = Len(given) => \A i \in 1..Len(given) : given[i] \in W)
    BY <1>1, FilteredAll DEF given
  <2>2. Len(kept) = Len(given)
    <3> HIDE DEF kept
    <3> QED  BY <1>2, <1>3, <2>1
  <2>3. DOMAIN given = 1..Len(given)
    BY <1>1
  <2> QED  BY <2>1, <2>2, <2>3
<1>6. \A i \in DOMAIN given : validMetric(given[i])
  BY <1>4, <1>5
<1>7. ASSUME NEW j \in DOMAIN cards PROVE cards[j] # <<>>
  <2> DEFINE i == Len(kept) + j
  <2>1. i \in DOMAIN all /\ AskedFor(all[i], <<"cardinality">>, cards[j])
    BY FlagsAreMetrics
  <2>2. all[i].name \in DOMAIN map /\ map[all[i].name] = [op |-> all[i].op, field |-> all[i].field]
    BY <2>1, MapIsFaithful
  <2>3. all[i].field = cards[j]
    BY <2>1 DEF AskedFor
  <2>4. map[all[i].name].field = all[i].field
    BY <2>2, FieldsOf
  <2>5. buildAggs(p).metrics = map
    BY DEF buildAggs
  <2>6. map[all[i].name].field # <<>>
    BY <2>2, <2>5
  <2> QED  BY <2>3, <2>4, <2>6
<1> QED  BY <1>6, <1>7

\* Flags that are not contradictory or incomplete and ask for a legal body are
\* accepted.
LEMMA LegalIsValid ==
  ASSUME NEW p \in SearchParams, ~Contradictory(p), ~Incomplete(p),
         LegalBody([buildBody(p) EXCEPT !.sort = sortClause(p)])
  PROVE  validate(p)
<1> DEFINE body == [buildBody(p) EXCEPT !.sort = sortClause(p)]
           aggs == buildAggs(p)
<1>1. body.range = rangeFilter(p) /\ body.sort = sortClause(p) /\ body.aggs = aggs
  BY DEF buildBody
<1>2. LegalBody(body)
  OBVIOUS
<1>3. aggs.raw = p.rawAggs
  BY DEF buildAggs
<1> HIDE DEF body, aggs
<1>4. /\ \A i \in DOMAIN rangeFilter(p) :
            LegalRange(rangeFilter(p)[i]) /\ ~EmptyRange(rangeFilter(p)[i])
      /\ \A i \in DOMAIN sortClause(p) : LegalSort(sortClause(p)[i])
      /\ p.rawAggs # "other"
  BY <1>1, <1>2, <1>3 DEF LegalBody
<1>5. /\ \A i \in DOMAIN aggs.terms : aggs.terms[i].field # "" /\ aggs.terms[i].size > 0
      /\ \A i \in DOMAIN aggs.histogram : LegalInterval(aggs.histogram[i])
      /\ \A name \in DOMAIN aggs.metrics : aggs.metrics[name].field # <<>>
  BY <1>1, <1>2 DEF LegalBody
<1>6. p.target # "" /\ ~ (p.size < 0) /\ p.size \in Int /\ p.rawAggs \in {"", "object", "other"}
  BY DEF Incomplete, SearchParams
<1>7. p.size >= 0
  BY <1>6, NotBelowZero
<1>8. validateSort(p)
  BY <1>4, LegalSortIsValid
<1>9. /\ p.since # <<>> => p.from = <<>> /\ p.to = <<>>
      /\ \A i \in DOMAIN p.since : validSince(p.since[i])
      /\ validAbsoluteRange(p)
  BY <1>4, LegalRangeIsValid
<1>10. \A i \in DOMAIN p.terms : validTerms(p.terms[i])
  BY <1>5, LegalTermsAreValid DEF aggs
<1>11. \A i \in DOMAIN p.dateHistogram : validDateHistogram(p.dateHistogram[i])
  BY <1>5, LegalHistogramIsValid DEF aggs
<1>12. (\A i \in DOMAIN p.metrics : validMetric(p.metrics[i]))
       /\ (\A i \in DOMAIN p.cardinalities : p.cardinalities[i] # <<>>)
  BY <1>5, LegalMetricsAreValid DEF aggs
<1>13. validateAggregation(p)
  <2>1. CASE p.rawAggs # ""
    <3>1. p.rawAggs = "object" /\ ~hasStructuredAggregation(p)
      BY <1>4, <1>6, <2>1 DEF Contradictory
    <3> QED  BY <2>1, <3>1 DEF validateAggregation
  <2>2. CASE p.rawAggs = ""
    <3>1. p.terms = <<>> \/ p.dateHistogram = <<>>
      BY DEF Contradictory
    <3> QED  BY <1>10, <1>11, <1>12, <2>2, <3>1 DEF validateAggregation
  <2> QED  BY <2>1, <2>2
<1> QED  BY <1>6, <1>7, <1>8, <1>9, <1>13 DEF validate

\* RefusedForAReason: a search is refused for its flags only where they are
\* contradictory, incomplete, or ask for what Elasticsearch refuses or cannot
\* answer, whatever the flags.
THEOREM RefusalsJustified == Spec => []RefusedForAReason
<1>1. CommandInv => RefusedForAReason
  <2> SUFFICES ASSUME CommandInv, inv.command = "search", exit = exitUsage,
                      todo # <<>>, todo[1] = "flags", inv.patterns, ~Contradictory(inv.flags), ~Incomplete(inv.flags),
                      LegalBody([buildBody(inv.flags) EXCEPT !.sort = sortClause(inv.flags)])
               PROVE  FALSE
    BY DEF RefusedForAReason
  <2>1. Refused("flags")
    BY BehindFailure
  <2>2. ~FlagsOK
    BY <2>1 DEF Refused
  <2>3. inv.flags \in SearchParams
    BY DEF CommandInv, Invocation
  <2>4. validate(inv.flags)
    BY <2>3, LegalIsValid
  <2> QED  BY <2>2, <2>4 DEF FlagsOK
<1> QED  BY <1>1, CommandInductive, PTL

-----------------------------------------------------------------------------
(***************************************************************************)
(* Which context is used, and what is sent of it.                          *)
(***************************************************************************)
\* The calls before one that is behind, or that the command is at, are behind.
LEMMA EarlierCalls ==
  ASSUME CommandInv, NEW x \in DOMAIN Rank, NEW y \in DOMAIN Rank,
         y \in Calls(inv.command), Rank[y] < Rank[x],
         Behind(x) \/ (todo # <<>> /\ todo[1] = x)
  PROVE  Behind(y)
<1>1. inv.command \in CommandNames /\ TodoInv
  BY BehindFailure DEF CommandInv
<1>2. CASE todo = <<>>
  BY <1>1, <1>2, BehindEnd
<1>3. CASE todo # <<>>
  <2> DEFINE z == todo[1]
  <2>1. z \in DOMAIN Rank
        /\ \A w \in DOMAIN Rank : Behind(w) <=> w \in Calls(inv.command) /\ Rank[w] < Rank[z]
    BY <1>1, <1>3, BehindAt
  <2>2. Rank \in [DOMAIN Rank -> 1..7]
    BY <1>1, StepsOrder
  <2>3. Rank[x] < Rank[z] \/ x = z
    BY <2>1
  <2> HIDE DEF z
  <2>4. Rank[x] \in Int /\ Rank[y] \in Int /\ Rank[z] \in Int
    BY <2>1, <2>2
  <2>5. Rank[y] < Rank[z]
    <3>1. CASE x = z
      BY <3>1
    <3>2. CASE Rank[x] < Rank[z]
      BY <2>4, <3>2
    <3> QED  BY <2>3, <3>1, <3>2
  <2> QED  BY <2>1, <2>5
<1> QED  BY <1>2, <1>3

\* The file has been read before its context is connected to.
LEMMA FileRead ==
  ASSUME CommandInv, Behind("connect") \/ (todo # <<>> /\ todo[1] = "connect")
  PROVE  inv \in Invocation /\ contexts = ConfigFile.contexts
<1>1. "connect" \in DOMAIN Rank /\ "load" \in DOMAIN Rank /\ Rank["load"] < Rank["connect"]
  BY RankOf DEF Rank
<1>2. "connect" \in Calls(inv.command)
  <2>1. CASE todo = <<>>
    BY <2>1, BehindFailure, BehindEnd
  <2>2. CASE todo # <<>>
    BY <1>1, <2>2, BehindFailure, BehindAt DEF CommandInv
  <2> QED  BY <2>1, <2>2
<1>3. "load" \in Calls(inv.command)
  BY <1>2, BehindFailure, StepsOrder
<1>4. Behind("load")
  BY <1>1, <1>3, EarlierCalls
<1> QED  BY <1>4 DEF CommandInv, CallsInv

\* A context that cannot be connected to is of no use, whatever other contexts
\* there are.
LEMMA Unconnected ==
  ASSUME inv \in Invocation, contexts = ConfigFile.contexts, ~Connects
  PROVE  \A i \in DOMAIN ConfigFile.contexts : Selected(i) => Unusable(ConfigFile.contexts[i])
<1> SUFFICES ASSUME NEW i \in DOMAIN ConfigFile.contexts, Selected(i)
             PROVE  Unusable(ConfigFile.contexts[i])
  OBVIOUS
<1> DEFINE c == ConfigFile.contexts[i]
           full == ExpandSecrets(c, inv.env)
<1>1. Chosen = <<c>>
  BY ChosenIsSelected
<1>2. Chosen # <<>> /\ Chosen[1] = c
  BY <1>1
<1>3. c \in Context
  BY FileFound
<1>4. /\ full.authType = c.authType
      /\ full.apiKey = expandValue(c.apiKey, inv.env)
      /\ full.username = expandValue(c.username, inv.env)
      /\ full.password = expandValue(c.password, inv.env)
      /\ full.caCert = expandValue(c.caCert, inv.env)
  BY <1>3 DEF Context, ExpandSecrets, SecretFields
<1>5. ~CanExpand(c, inv.env) \/ ~validAuth(full) \/ ~validTLS(full)
  BY <1>2 DEF Connects
<1> HIDE DEF c, full
<1>6. CASE ~CanExpand(c, inv.env)
  BY <1>6 DEF CanExpand, Unusable, c
<1>7. CASE ~validAuth(full)
  <2>1. \/ c.authType \notin {"", "apikey", "basic"}
        \/ c.authType = "apikey" /\ full.apiKey = Empty
        \/ c.authType = "basic" /\ (full.username = Empty \/ full.password = Empty)
    BY <1>4, <1>7 DEF validAuth
  <2> QED  BY <1>4, <2>1 DEF Unusable, c
<1>8. CASE ~validTLS(full)
  BY <1>4, <1>8 DEF validTLS, Unusable, c
<1> QED  BY <1>5, <1>6, <1>7, <1>8

\* OnlyOwnContextMatters: nothing but the file, the format and, for ping, the
\* selected context keeps a command without flags of its own from working.
THEOREM OtherContextsIgnored == Spec => []OnlyOwnContextMatters
<1>1. CommandInv => OnlyOwnContextMatters
  <2> SUFFICES ASSUME CommandInv, exit = exitUsage, printed = Nowhere,
                      inv.command \notin {"search", "fields"}
               PROVE  \/ /\ inv.command \in {"get-contexts", "view", "ping"}
                         /\ ConfigFile.state # "ok"
                      \/ /\ inv.command \in {"get-contexts", "view", "init"}
                         /\ inv.output \notin {"", "json", "jsonl", "table"}
                      \/ /\ inv.command = "ping"
                         /\ \A i \in DOMAIN ConfigFile.contexts :
                               Selected(i) => Unusable(ConfigFile.contexts[i])
    BY DEF OnlyOwnContextMatters
  <2>0. inv.command \in OneLiners \/ Output # Nowhere
    BY SomethingToPrint
  <2>1. /\ inv.command \in CommandNames /\ todo # <<>>
        /\ todo[1] \in {"flags", "load", "format", "connect"} /\ todo[1] \in Calls(inv.command)
    <3>1. todo # <<>>
      BY <2>0 DEF CommandInv, ExitInv
    <3> QED  BY <3>1, BehindFailure
  <2>2. Refused(todo[1])
    BY <2>1, BehindFailure
  <2>3. /\ todo[1] # "flags"
        /\ todo[1] = "load" => inv.command \in {"get-contexts", "view", "ping"}
        /\ todo[1] = "format" => inv.command \in {"get-contexts", "view", "init"}
        /\ todo[1] = "connect" => inv.command = "ping"
    BY <2>1, StepsOrder DEF CommandNames
  <2>4. CASE todo[1] = "load"
    BY <2>2, <2>3, <2>4 DEF Refused
  <2>5. CASE todo[1] = "format"
    <3>1. ~FormatOK
      BY <2>2, <2>5 DEF Refused
    <3>2. inv.output \notin {"", "json", "jsonl", "table"}
      BY <3>1 DEF FormatOK, Format, DefaultFor
    <3> QED  BY <2>3, <2>5, <3>2
  <2>6. CASE todo[1] = "connect"
    <3>1. ~Connects
      BY <2>2, <2>6 DEF Refused
    <3> QED  BY <2>1, <2>3, <2>6, <3>1, FileRead, Unconnected
  <2> QED  BY <2>1, <2>3, <2>4, <2>5, <2>6
<1> QED  BY <1>1, CommandInductive, PTL

\* What is joined of sequences over a set is a sequence over it.
LEMMA FlattenedOver ==
  ASSUME NEW S, NEW Q \in Seq(Seq(S))
  PROVE  FlattenSeq(Q) \in Seq(S)
<1> DEFINE N == Len(Q)
           Rec(f, n) == IF n = 1 THEN Q[n] ELSE f[n - 1] \o Q[n]
           T == {m \in Nat : m <= N /\ m # 0 =>
                     \E f \in [1..m -> Seq(S)] : \A n \in 1..m : f[n] = Rec(f, n)}
<1>1. N \in Nat /\ \A n \in 1..N : Q[n] \in Seq(S)
  OBVIOUS
<1>2. CASE N = 0
  <2>1. Q = <<>>
    BY <1>2
  <2>2. FlattenSeq(Q) = Q
    BY <1>2 DEF FlattenSeq
  <2>3. <<>> \in Seq(S)
    OBVIOUS
  <2> QED  BY <2>1, <2>2, <2>3, Zenon
<1>3. CASE N # 0
  <2>1. 0 \in T
    OBVIOUS
  <2>2. ASSUME NEW m \in Nat, m \in T PROVE m + 1 \in T
    <3> SUFFICES ASSUME m + 1 <= N
                 PROVE  \E f \in [1..(m + 1) -> Seq(S)] : \A n \in 1..(m + 1) : f[n] = Rec(f, n)
      <4> HIDE DEF Rec
      <4> QED  OBVIOUS
    <3>1. CASE m = 0
      <4> DEFINE g == [n \in 1..1 |-> Q[n]]
      <4>1. g \in [1..1 -> Seq(S)] /\ \A n \in 1..1 : n = 1 /\ g[n] = Q[n]
        BY <1>1, <1>3
      <4> HIDE DEF g
      <4>2. \A n \in 1..1 : g[n] = Rec(g, n)
        BY <4>1
      <4>3. m + 1 = 1
        BY <3>1
      <4> HIDE DEF Rec
      <4> QED  BY <4>1, <4>2, <4>3
    <3>2. CASE m # 0
      <4>1. PICK f \in [1..m -> Seq(S)] : \A n \in 1..m : f[n] = Rec(f, n)
        <5>1. m <= N /\ m # 0
          BY <1>1, <3>2
        <5> HIDE DEF Rec
        <5> QED  BY <2>2, <5>1
      <4> DEFINE v == f[m] \o Q[m + 1]
                 g == [n \in 1..(m + 1) |-> IF n = m + 1 THEN v ELSE f[n]]
      <4>2. v \in Seq(S)
        <5>1. m \in 1..m /\ m + 1 \in 1..N
          BY <1>1, <3>2
        <5>2. f[m] \in Seq(S) /\ Q[m + 1] \in Seq(S)
          BY <1>1, <4>1, <5>1
        <5> QED  BY <5>2
      <4> HIDE DEF v
      <4>3. g \in [1..(m + 1) -> Seq(S)]
        BY <4>1, <4>2
      <4>4. g[m + 1] = v /\ \A n \in 1..m : g[n] = f[n]
        OBVIOUS
      <4> HIDE DEF g
      <4>5. g[m + 1] = Rec(g, m + 1)
        <5>1. (m + 1) - 1 = m /\ m \in 1..m /\ m + 1 # 1
          BY <3>2
        <5> QED  BY <4>4, <5>1 DEF v
      <4>6. ASSUME NEW n \in 1..m PROVE g[n] = Rec(g, n)
        <5>1. n = 1 \/ n - 1 \in 1..m
          OBVIOUS
        <5>2. f[n] = Rec(f, n) /\ g[n] = f[n]
          BY <4>1, <4>4
        <5> QED  BY <4>4, <5>1, <5>2
      <4>7. \A n \in 1..(m + 1) : n = m + 1 \/ n \in 1..m
        OBVIOUS
      <4> HIDE DEF Rec
      <4> QED  BY <4>3, <4>5, <4>6, <4>7
    <3> QED  BY <3>1, <3>2
  <2>3. T = Nat
    <3> HIDE DEF T
    <3> QED  BY <2>1, <2>2, NatSetInduction DEF T
  <2>4. PICK f \in [1..N -> Seq(S)] : \A n \in 1..N : f[n] = Rec(f, n)
    <3>1. N \in T
      BY <1>1, <2>3
    <3> HIDE DEF Rec, N
    <3> QED  BY <1>1, <1>3, <3>1
  <2> DEFINE h == CHOOSE g : g = [n \in 1..N |-> Rec(g, n)]
  <2>5. f = [n \in 1..N |-> Rec(f, n)]
    <3> HIDE DEF Rec, N
    <3> QED  BY <2>4
  <2>6. h = [n \in 1..N |-> Rec(h, n)]
    <3> HIDE DEF Rec
    <3> QED  BY <2>5
  <2>7. \A n \in 1..N : h[n] = Rec(h, n)
    <3> HIDE DEF h
    <3> QED  BY <2>6
  <2> HIDE DEF h
  <2> DEFINE U == {m \in Nat : m \in 1..N => h[m] \in Seq(S)}
  <2>8. 0 \in U
    OBVIOUS
  <2>9. ASSUME NEW m \in Nat, m \in U PROVE m + 1 \in U
    <3> SUFFICES ASSUME m + 1 \in 1..N PROVE h[m + 1] \in Seq(S)
      OBVIOUS
    <3>1. h[m + 1] = Rec(h, m + 1) /\ Q[m + 1] \in Seq(S)
      BY <1>1, <2>7
    <3>2. CASE m = 0
      BY <3>1, <3>2
    <3>3. CASE m # 0
      <4>1. m \in 1..N /\ m + 1 # 1 /\ (m + 1) - 1 = m
        BY <1>1, <3>3
      <4>2. h[m] \in Seq(S) /\ h[m + 1] = h[m] \o Q[m + 1]
        BY <2>9, <3>1, <4>1
      <4> QED  BY <3>1, <4>2
    <3> QED  BY <3>2, <3>3
  <2>10. U = Nat
    <3> HIDE DEF U
    <3> QED  BY <2>8, <2>9, NatSetInduction DEF U
  <2>11. h[N] \in Seq(S)
    <3>1. N \in 1..N /\ N \in U
      BY <1>1, <1>3, <2>10
    <3> QED  BY <3>1
  <2>12. FlattenSeq(Q) = h[N]
    BY <1>3 DEF FlattenSeq, h
  <2> QED  BY <2>11, <2>12
<1> QED  BY <1>2, <1>3

\* A text with its references replaced has none left.
LEMMA ExpandedText ==
  ASSUME NEW text \in Texts, NEW env \in [Variables -> Values]
  PROVE  expandValue(text, env) \in Values
<1> DEFINE S == {piece \in STRING \X STRING : piece[1] # "var"}
           Q == [i \in DOMAIN text |->
                   IF text[i][1] = "var" THEN env[text[i][2]] ELSE <<text[i]>>]
<1>1. text \in Seq(STRING \X STRING)
      /\ \A i \in DOMAIN text : text[i][1] = "var" => text[i][2] \in Variables
  BY DEF Texts
<1>2. ASSUME NEW value \in Values PROVE value \in Seq(S)
  <2>1. value \in Seq(STRING \X STRING) /\ \A i \in DOMAIN value : value[i][1] # "var"
    BY DEF Values
  <2>2. \A i \in 1..Len(value) : value[i] \in S
    BY <2>1
  <2> HIDE DEF S
  <2> QED  BY <2>1, <2>2
<1>3. ASSUME NEW value \in Seq(S) PROVE value \in Values
  <2>1. \A i \in 1..Len(value) : value[i] \in STRING \X STRING /\ value[i][1] # "var"
    OBVIOUS
  <2>2. value \in Seq(STRING \X STRING)
    BY <2>1
  <2>3. DOMAIN value = 1..Len(value)
    OBVIOUS
  <2> QED  BY <2>1, <2>2, <2>3 DEF Values
<1>4. ASSUME NEW i \in DOMAIN text
      PROVE  (IF text[i][1] = "var" THEN env[text[i][2]] ELSE <<text[i]>>) \in Seq(S)
  <2>1. CASE text[i][1] = "var"
    <3>1. env[text[i][2]] \in Values
      BY <1>1, <2>1
    <3> QED  BY <1>2, <2>1, <3>1
  <2>2. CASE text[i][1] # "var"
    <3>1. text[i] \in S
      BY <1>1, <2>2
    <3> HIDE DEF S
    <3> QED  BY <2>2, <3>1
  <2> QED  BY <2>1, <2>2
<1>5. Q \in Seq(Seq(S))
  <2>1. DOMAIN text = 1..Len(text) /\ Len(text) \in Nat
    BY <1>1
  <2> HIDE DEF S
  <2> QED  BY <1>4, <2>1
<1>6. expandValue(text, env) = FlattenSeq(Q)
  BY DEF expandValue
<1>7. FlattenSeq(Q) \in Seq(S)
  <2> HIDE DEF S, Q
  <2> QED  BY <1>5, FlattenedOver
<1> QED  BY <1>3, <1>6, <1>7

\* What a request carries of the context it is sent with: all its credentials.
LEMMA CredentialsOf ==
  ASSUME NEW c \in Context, NEW env, validAuth(ExpandSecrets(c, env))
  PROVE  LET full == ExpandSecrets(c, env)
         IN  /\ full.server = expandValue(c.server, env)
             /\ Range(Credentials(full)) =
                   {expandValue(text, env) :
                      text \in (IF c.authType = "apikey" THEN {c.apiKey} ELSE {}) \cup
                               (IF c.authType = "basic" THEN {c.username, c.password} ELSE {})}
             /\ \A k \in DOMAIN Credentials(full) : Credentials(full)[k] # Empty
<1> DEFINE full == ExpandSecrets(c, env)
<1>1. /\ full.authType = c.authType
      /\ full.server = expandValue(c.server, env)
      /\ full.apiKey = expandValue(c.apiKey, env)
      /\ full.username = expandValue(c.username, env)
      /\ full.password = expandValue(c.password, env)
  BY DEF Context, ExpandSecrets, SecretFields
<1>2. \/ full.authType = ""
      \/ full.authType = "apikey" /\ full.apiKey # Empty
      \/ full.authType = "basic" /\ full.username # Empty /\ full.password # Empty
  BY DEF validAuth
<1>3. CASE full.authType = ""
  <2>1. Credentials(full) = <<>>
    BY <1>3 DEF Credentials
  <2> QED  BY <1>1, <1>3, <2>1, NoEntry DEF Range
<1>4. CASE full.authType = "apikey" /\ full.apiKey # Empty
  <2> DEFINE s == <<full.apiKey>>
  <2>1. Credentials(full) = s
    BY <1>4 DEF Credentials
  <2>2. DOMAIN s = {1} /\ s[1] = full.apiKey
    <3> DEFINE x == full.apiKey
    <3> HIDE DEF x, full
    <3>1. DOMAIN <<x>> = {1} /\ <<x>>[1] = x
      OBVIOUS
    <3> QED  BY <3>1 DEF x
  <2> HIDE DEF s
  <2> QED  BY <1>1, <1>4, <2>1, <2>2 DEF Range
<1>5. CASE full.authType = "basic" /\ full.username # Empty /\ full.password # Empty
  <2> DEFINE s == <<full.username, full.password>>
  <2>1. Credentials(full) = s
    BY <1>5 DEF Credentials
  <2>2. DOMAIN s = {1, 2} /\ s[1] = full.username /\ s[2] = full.password
    <3> DEFINE x == full.username  y == full.password
    <3> HIDE DEF x, y, full
    <3>1. DOMAIN <<x, y>> = {1, 2} /\ <<x, y>>[1] = x /\ <<x, y>>[2] = y
      OBVIOUS
    <3> QED  BY <3>1 DEF x, y
  <2> HIDE DEF s
  <2> QED  BY <1>1, <1>5, <2>1, <2>2 DEF Range
<1> QED  BY <1>2, <1>3, <1>4, <1>5

\* SentAsConfigured: a request is sent to the first context of the selected name,
\* in the file that counts, with its credentials and no one else's, and without
\* a reference left in them, whatever is configured.
THEOREM SelectedContextAsked == Spec => []SentAsConfigured
<1>1. CommandInv => SentAsConfigured
  <2> SUFFICES ASSUME CommandInv, request # <<>> PROVE SentAsConfigured
    BY DEF SentAsConfigured
  <2> DEFINE C == ConfigFile.contexts
  <2>1. request[1] = Request /\ Behind("connect")
    BY RequestBehind
  <2>2. inv \in Invocation /\ contexts = C
    BY <2>1, FileRead
  <2>3. Connects /\ client = <<ExpandSecrets(Chosen[1], inv.env)>>
    BY <2>1 DEF CommandInv, CallsInv
  <2>4. PICK i \in DOMAIN C : Selected(i) /\ Chosen = <<C[i]>>
    <3>1. Chosen # <<>>
      BY <2>3 DEF Connects
    <3> QED  BY <2>2, <3>1, ChosenIsSelected
  <2> DEFINE c == C[i]
             full == ExpandSecrets(c, inv.env)
             secrets == (IF c.authType = "apikey" THEN {c.apiKey} ELSE {}) \cup
                        (IF c.authType = "basic" THEN {c.username, c.password} ELSE {})
             sent == {request[1].server} \cup Range(request[1].credentials)
  <2>5. Chosen[1] = c
    BY <2>4
  <2>6. client[1] = full /\ validAuth(full)
    <3>1. client = <<full>>
      BY <2>3, <2>5
    <3>2. validAuth(full)
      BY <2>3, <2>5 DEF Connects
    <3> HIDE DEF full
    <3>3. <<full>>[1] = full
      OBVIOUS
    <3> QED  BY <3>1, <3>2, <3>3
  <2>7. c \in Context
    BY <2>2, FileFound
  <2>8. request[1].server = full.server /\ request[1].credentials = Credentials(full)
    BY <2>1, <2>6 DEF Request
  <2>9. sent = {expandValue(text, inv.env) : text \in {c.server} \cup secrets}
        /\ \A k \in DOMAIN request[1].credentials : request[1].credentials[k] # Empty
    <3>1. /\ full.server = expandValue(c.server, inv.env)
          /\ Range(Credentials(full)) = {expandValue(text, inv.env) : text \in secrets}
          /\ \A k \in DOMAIN Credentials(full) : Credentials(full)[k] # Empty
      BY <2>6, <2>7, CredentialsOf
    <3> HIDE DEF C, c, full, secrets
    <3> QED  BY <2>8, <3>1
  <2>10. {c.server} \cup secrets \subseteq Texts /\ inv.env \in [Variables -> Values]
    BY <2>2, <2>7 DEF Context, Invocation
  <2>11. \A text \in sent : \A j \in DOMAIN text : text[j][1] # "var"
    <3> SUFFICES ASSUME NEW text \in sent PROVE text \in Values
      BY DEF Values
    <3> HIDE DEF sent, secrets, c
    <3>1. PICK written \in {c.server} \cup secrets : text = expandValue(written, inv.env)
      BY <2>9
    <3> QED  BY <2>10, <3>1, ExpandedText
  <2> QED  BY <2>4, <2>9, <2>11 DEF SentAsConfigured
<1> QED  BY <1>1, CommandInductive, PTL

-----------------------------------------------------------------------------
(***************************************************************************)
(* Mappings: flattening a tree finds what walking down to a path finds.    *)
(***************************************************************************)
Root(props) == Node("", props, Nothing)

\* The recursion of Visited has a solution.
LEMMA VisitedStep ==
  ASSUME NEW props
  PROVE  /\ Visited(props)[0] = {<<<<>>, Root(props)>>}
         /\ \A n \in 1..MaxDepth :
               Visited(props)[n] =
                  UNION {{<<Append(v[1], name), v[2].properties[name]>> :
                            name \in DOMAIN v[2].properties} : v \in Visited(props)[n - 1]}
<1> DEFINE Below(S) == UNION {{<<Append(v[1], name), v[2].properties[name]>> :
                                name \in DOMAIN v[2].properties} : v \in S}
           first == {<<<<>>, Root(props)>>}
           Rec(f, n) == IF n = 0 THEN first ELSE Below(f[n - 1])
           T == {m \in Nat : \E f : f = [n \in 0..m |-> Rec(f, n)]}
<1> HIDE DEF Below, first
<1>1. 0 \in T
  <2> DEFINE f == [n \in 0..0 |-> first]
  <2>1. f = [n \in 0..0 |-> Rec(f, n)]
    OBVIOUS
  <2> HIDE DEF f, Rec
  <2> QED  BY <2>1
<1>2. ASSUME NEW m \in Nat, m \in T PROVE m + 1 \in T
  <2>1. PICK f : f = [n \in 0..m |-> Rec(f, n)]
    <3> HIDE DEF Rec
    <3> QED  BY <1>2
  <2> DEFINE g == [n \in 0..(m + 1) |-> IF n = m + 1 THEN Below(f[m]) ELSE f[n]]
  <2>2. g[m + 1] = Below(f[m]) /\ \A n \in 0..m : g[n] = f[n]
    OBVIOUS
  <2>3. g = [n \in 0..(m + 1) |-> g[n]]
    OBVIOUS
  <2> HIDE DEF g
  <2>4. ASSUME NEW n \in 0..(m + 1) PROVE g[n] = Rec(g, n)
    <3>1. CASE n = m + 1
      <4>1. n # 0 /\ n - 1 = m /\ m \in 0..m
        BY <3>1
      <4> QED  BY <2>2, <3>1, <4>1
    <3>2. CASE n # m + 1
      <4>1. n \in 0..m /\ (n # 0 => n - 1 \in 0..m)
        BY <3>2
      <4>2. f[n] = Rec(f, n)
        BY <2>1, <4>1
      <4> QED  BY <2>2, <4>1, <4>2
    <3> QED  BY <3>1, <3>2
  <2>5. g = [n \in 0..(m + 1) |-> Rec(g, n)]
    <3> HIDE DEF Rec
    <3> QED  BY <2>3, <2>4
  <2> HIDE DEF Rec
  <2> QED  BY <2>5
<1>3. T = Nat
  <2> HIDE DEF T
  <2> QED  BY <1>1, <1>2, NatSetInduction DEF T
<1>4. MaxDepth \in Nat
  BY FieldPathsAssumption
<1>5. \E f : f = [n \in 0..MaxDepth |-> Rec(f, n)]
  <2>1. MaxDepth \in T
    BY <1>3, <1>4
  <2> HIDE DEF Rec
  <2> QED  BY <2>1
<1> DEFINE h == Visited(props)
<1>6. h = CHOOSE f : f = [n \in 0..MaxDepth |-> Rec(f, n)]
  BY DEF Visited, Root, Below, first
<1>7. h = [n \in 0..MaxDepth |-> Rec(h, n)]
  <2> HIDE DEF Rec, h
  <2> QED  BY <1>5, <1>6
<1> HIDE DEF h
<1>8. \A n \in 0..MaxDepth : h[n] = Rec(h, n)
  <2> HIDE DEF Rec
  <2> QED  BY <1>7
<1>9. h[0] = first /\ \A n \in 1..MaxDepth : h[n] = Below(h[n - 1])
  BY <1>4, <1>8
<1> QED  BY <1>9 DEF h, Below, first

\* The prefixes of a depth are paths of that length.
LEMMA VisitedPaths ==
  ASSUME NEW props, IsMapping(props)
  PROVE  \A n \in 0..MaxDepth : \A v \in Visited(props)[n] : v[1] \in Seq(STRING) /\ Len(v[1]) = n
<1> DEFINE f == Visited(props)
           Typed(n) == \A v \in f[n] : v[1] \in Seq(STRING) /\ Len(v[1]) = n
           T == {n \in Nat : n <= MaxDepth => Typed(n)}
<1>1. MaxDepth \in Nat
  BY FieldPathsAssumption
<1>2. 0 \in T
  <2>1. \A v \in f[0] : v = <<<<>>, Root(props)>>
    BY VisitedStep
  <2> HIDE DEF f
  <2>2. \A v \in f[0] : v[1] = <<>>
    BY <2>1
  <2>3. Typed(0)
    <3>1. <<>> \in Seq(STRING) /\ Len(<<>>) = 0
      OBVIOUS
    <3> QED  BY <2>2, <3>1, Zenon
  <2> HIDE DEF Typed
  <2> QED  BY <2>3
<1>3. ASSUME NEW n \in Nat, n \in T PROVE n + 1 \in T
  <2> SUFFICES ASSUME n + 1 <= MaxDepth PROVE Typed(n + 1)
    <3> HIDE DEF Typed
    <3> QED  OBVIOUS
  <2>1. Typed(n) /\ n \in 0..MaxDepth /\ n + 1 \in 1..MaxDepth /\ (n + 1) - 1 = n
    <3> HIDE DEF Typed
    <3> QED  BY <1>1, <1>3
  <2>2. f[n + 1] = UNION {{<<Append(v[1], name), v[2].properties[name]>> :
                             name \in DOMAIN v[2].properties} : v \in f[n]}
    BY <2>1, VisitedStep
  <2> SUFFICES ASSUME NEW u \in f[n + 1] PROVE u[1] \in Seq(STRING) /\ Len(u[1]) = n + 1
    OBVIOUS
  <2>3. PICK v \in f[n] : \E name \in DOMAIN v[2].properties :
           u = <<Append(v[1], name), v[2].properties[name]>>
    BY <2>2
  <2>6. PICK name \in DOMAIN v[2].properties :
           u = <<Append(v[1], name), v[2].properties[name]>>
    BY <2>3
  <2>4. name \in STRING
    BY <2>1, <2>6 DEF IsMapping
  <2>5. u[1] = Append(v[1], name) /\ v[1] \in Seq(STRING) /\ Len(v[1]) = n
    BY <2>1, <2>6
  <2> QED  BY <2>4, <2>5
<1>4. T = Nat
  <2> HIDE DEF T
  <2> QED  BY <1>2, <1>3, NatSetInduction DEF T
<1> QED  BY <1>1, <1>4

\* What is appended, and to what, can be told from the result.
LEMMA AppendedOnce ==
  ASSUME NEW S, NEW s \in Seq(S), NEW x \in S, NEW r \in Seq(S), NEW y \in S,
         Append(s, x) = Append(r, y)
  PROVE  s = r /\ x = y
<1>1. Len(Append(s, x)) = Len(s) + 1 /\ Len(Append(r, y)) = Len(r) + 1
  OBVIOUS
<1>2. Len(s) = Len(r)
  BY <1>1
<1>3. \A i \in 1..Len(s) : Append(s, x)[i] = s[i] /\ Append(r, y)[i] = r[i]
  BY <1>2
<1>4. s = r
  BY <1>2, <1>3
<1>5. Append(s, x)[Len(s) + 1] = x /\ Append(r, y)[Len(r) + 1] = y
  OBVIOUS
<1> QED  BY <1>4, <1>5

\* Appending makes a prefix of p exactly of the prefix before it.
LEMMA PrefixAppended ==
  ASSUME NEW S, NEW s \in Seq(S), NEW x \in S, NEW p \in Seq(S), NEW n \in 1..Len(p)
  PROVE  Append(s, x) = SubSeq(p, 1, n) <=> s = SubSeq(p, 1, n - 1) /\ x = p[n]
<1>1. /\ SubSeq(p, 1, n) \in Seq(S) /\ Len(SubSeq(p, 1, n)) = n
      /\ SubSeq(p, 1, n - 1) \in Seq(S) /\ Len(SubSeq(p, 1, n - 1)) = n - 1
      /\ \A i \in 1..n : SubSeq(p, 1, n)[i] = p[i]
      /\ \A i \in 1..(n - 1) : SubSeq(p, 1, n - 1)[i] = p[i]
  OBVIOUS
<1>2. SubSeq(p, 1, n) = Append(SubSeq(p, 1, n - 1), p[n])
  OBVIOUS
<1>3. p[n] \in S
  OBVIOUS
<1> DEFINE t == SubSeq(p, 1, n - 1)
<1>5. t \in Seq(S)
  BY <1>1
<1> HIDE DEF t
<1> QED  BY <1>2, <1>3, <1>5, AppendedOnce DEF t

\* Walking down a path arrives at what is visited under it.
LEMMA WalkedTo ==
  ASSUME NEW props, IsMapping(props), NEW path \in Seq(STRING), Len(path) <= MaxDepth
  PROVE  NodeAt(props, path) = {v[2] : v \in {w \in Visited(props)[Len(path)] : w[1] = path}}
<1> DEFINE N == Len(path)
           f == Visited(props)
           W(n) == {v[2] : v \in {w \in f[n] : w[1] = SubSeq(path, 1, n)}}
           Further(S, n) == {node.properties[path[n]] :
                               node \in {m \in S : path[n] \in DOMAIN m.properties}}
           Rec(g, n) == IF n = 0 THEN {Root(props)} ELSE Further(g[n - 1], n)
           solution == [n \in 0..N |-> W(n)]
<1>1. N \in Nat /\ MaxDepth \in Nat
  BY FieldPathsAssumption
<1>2. W(0) = {Root(props)}
  <2>1. SubSeq(path, 1, 0) = <<>>
    OBVIOUS
  <2> DEFINE z == <<<<>>, Root(props)>>
  <2>2. f[0] = {z}
    BY VisitedStep
  <2>3. z[1] = <<>> /\ z[2] = Root(props)
    OBVIOUS
  <2> HIDE DEF z, f
  <2> QED  BY <2>1, <2>2, <2>3
<1>3. ASSUME NEW n \in 1..N PROVE W(n) = Further(W(n - 1), n)
  <2>1. n \in 1..MaxDepth /\ n - 1 \in 0..MaxDepth
    BY <1>1
  <2>2. f[n] = UNION {{<<Append(v[1], name), v[2].properties[name]>> :
                         name \in DOMAIN v[2].properties} : v \in f[n - 1]}
    BY <2>1, VisitedStep
  <2>3. ASSUME NEW v \in f[n - 1], NEW name \in DOMAIN v[2].properties
        PROVE  Append(v[1], name) = SubSeq(path, 1, n)
                 <=> v[1] = SubSeq(path, 1, n - 1) /\ name = path[n]
    <3>1. name \in STRING /\ v[1] \in Seq(STRING)
      BY <2>1, VisitedPaths DEF IsMapping
    <3>2. n \in 1..Len(path)
      OBVIOUS
    <3> HIDE DEF N, f
    <3> QED  BY <3>1, <3>2, PrefixAppended
  <2>4. ASSUME NEW node \in W(n) PROVE node \in Further(W(n - 1), n)
    <3>1. PICK u \in f[n] : u[1] = SubSeq(path, 1, n) /\ node = u[2]
      OBVIOUS
    <3>6. PICK v \in f[n - 1] : \E name \in DOMAIN v[2].properties :
             u = <<Append(v[1], name), v[2].properties[name]>>
      BY <2>2
    <3>2. PICK name \in DOMAIN v[2].properties :
             u = <<Append(v[1], name), v[2].properties[name]>>
      BY <3>6
    <3>3. u[1] = Append(v[1], name) /\ u[2] = v[2].properties[name]
      BY <3>2
    <3>4. v[1] = SubSeq(path, 1, n - 1) /\ name = path[n]
      BY <2>3, <3>1, <3>3
    <3>5. v[2] \in W(n - 1)
      BY <3>4
    <3> HIDE DEF W, f
    <3> QED  BY <3>1, <3>2, <3>3, <3>4, <3>5
  <2>5. ASSUME NEW node \in Further(W(n - 1), n) PROVE node \in W(n)
    <3>1. PICK m \in W(n - 1) : path[n] \in DOMAIN m.properties /\ node = m.properties[path[n]]
      <4> HIDE DEF W
      <4> QED  OBVIOUS
    <3>2. PICK v \in f[n - 1] : v[1] = SubSeq(path, 1, n - 1) /\ m = v[2]
      BY <3>1
    <3> DEFINE u == <<Append(v[1], path[n]), v[2].properties[path[n]]>>
    <3>5. path[n] \in DOMAIN v[2].properties
      BY <3>1, <3>2
    <3>6. u \in f[n]
      <4> HIDE DEF f
      <4> QED  BY <2>2, <3>5
    <3>7. Append(v[1], path[n]) = SubSeq(path, 1, n)
      <4> HIDE DEF f
      <4> QED  BY <2>3, <3>2, <3>5
    <3>3. u \in f[n] /\ Append(v[1], path[n]) = SubSeq(path, 1, n)
      BY <3>6, <3>7
    <3>4. u[1] = Append(v[1], path[n]) /\ u[2] = node
      BY <3>1, <3>2
    <3> HIDE DEF u, f
    <3> QED  BY <3>3, <3>4
  <2> HIDE DEF W, Further
  <2> QED  BY <2>4, <2>5
<1> HIDE DEF W, Further, f
<1>4. solution = [n \in 0..N |-> Rec(solution, n)]
  <2>1. ASSUME NEW n \in 0..N PROVE W(n) = Rec(solution, n)
    <3>1. CASE n = 0
      BY <1>2, <3>1
    <3>2. CASE n # 0
      <4>1. n \in 1..N /\ n - 1 \in 0..N
        BY <1>1, <3>2
      <4> QED  BY <1>3, <3>2, <4>1
    <3> QED  BY <3>1, <3>2
  <2> HIDE DEF Rec
  <2> QED  BY <2>1
<1> DEFINE h == CHOOSE g : g = [n \in 0..N |-> Rec(g, n)]
<1>5. h = [n \in 0..N |-> Rec(h, n)]
  <2> HIDE DEF Rec, solution
  <2> QED  BY <1>4
<1>6. NodeAt(props, path) = h[N]
  BY DEF NodeAt, Root, Further
<1> HIDE DEF h, solution
<1>7. \A n \in 0..N : h[n] = Rec(h, n)
  <2> HIDE DEF Rec
  <2> QED  BY <1>5
<1> DEFINE T == {n \in Nat : n <= N => h[n] = W(n)}
<1>8. 0 \in T
  <2>1. h[0] = Rec(h, 0)
    <3>1. 0 \in 0..N
      BY <1>1
    <3> HIDE DEF Rec, N
    <3> QED  BY <1>7, <3>1
  <2>2. h[0] = W(0)
    BY <1>2, <2>1
  <2> QED  BY <2>2
<1>9. ASSUME NEW n \in Nat, n \in T PROVE n + 1 \in T
  <2> SUFFICES ASSUME n + 1 <= N PROVE h[n + 1] = W(n + 1)
    OBVIOUS
  <2>1. h[n] = W(n) /\ n + 1 \in 1..N /\ n + 1 \in 0..N /\ n + 1 # 0 /\ (n + 1) - 1 = n
    BY <1>1, <1>9
  <2>2. h[n + 1] = Further(h[n], n + 1)
    BY <1>7, <2>1
  <2> QED  BY <1>3, <2>1, <2>2
<1>10. T = Nat
  <2> HIDE DEF T
  <2> QED  BY <1>8, <1>9, NatSetInduction DEF T
<1>11. h[N] = W(N)
  BY <1>1, <1>10
<1>12. SubSeq(path, 1, N) = path
  OBVIOUS
<1> QED  BY <1>6, <1>11, <1>12 DEF W, f

\* One prefix has one node.
LEMMA VisitedOnce ==
  ASSUME NEW props, IsMapping(props)
  PROVE  \A n \in 0..MaxDepth : \A v, w \in Visited(props)[n] : v[1] = w[1] => v[2] = w[2]
<1> DEFINE f == Visited(props)
           Once(n) == \A v, w \in f[n] : v[1] = w[1] => v[2] = w[2]
           T == {n \in Nat : n <= MaxDepth => Once(n)}
<1>1. MaxDepth \in Nat
  BY FieldPathsAssumption
<1>2. 0 \in T
  <2>1. \A v, w \in f[0] : v = w
    BY VisitedStep
  <2>2. Once(0)
    BY <2>1, Zenon
  <2> HIDE DEF Once
  <2> QED  BY <2>2
<1>3. ASSUME NEW n \in Nat, n \in T PROVE n + 1 \in T
  <2> SUFFICES ASSUME n + 1 <= MaxDepth PROVE Once(n + 1)
    <3> HIDE DEF Once
    <3> QED  OBVIOUS
  <2>1. Once(n) /\ n \in 0..MaxDepth /\ n + 1 \in 1..MaxDepth /\ (n + 1) - 1 = n
    <3> HIDE DEF Once
    <3> QED  BY <1>1, <1>3
  <2>2. f[n + 1] = UNION {{<<Append(v[1], name), v[2].properties[name]>> :
                             name \in DOMAIN v[2].properties} : v \in f[n]}
    BY <2>1, VisitedStep
  <2>3. ASSUME NEW u \in f[n + 1]
        PROVE  \E v \in f[n] : \E name \in DOMAIN v[2].properties :
                  /\ u[1] = Append(v[1], name) /\ u[2] = v[2].properties[name]
                  /\ v[1] \in Seq(STRING) /\ name \in STRING
    <3>1. PICK v \in f[n] : \E name \in DOMAIN v[2].properties :
             u = <<Append(v[1], name), v[2].properties[name]>>
      BY <2>2
    <3>2. PICK name \in DOMAIN v[2].properties :
             u = <<Append(v[1], name), v[2].properties[name]>>
      BY <3>1
    <3>3. v[1] \in Seq(STRING) /\ name \in STRING
      BY <2>1, <3>2, VisitedPaths DEF IsMapping
    <3> QED  BY <3>2, <3>3
  <2> SUFFICES ASSUME NEW a \in f[n + 1], NEW b \in f[n + 1], a[1] = b[1] PROVE a[2] = b[2]
    OBVIOUS
  <2>4. PICK v \in f[n] : \E name \in DOMAIN v[2].properties :
           /\ a[1] = Append(v[1], name) /\ a[2] = v[2].properties[name]
           /\ v[1] \in Seq(STRING) /\ name \in STRING
    BY <2>3
  <2>5. PICK x \in DOMAIN v[2].properties :
           /\ a[1] = Append(v[1], x) /\ a[2] = v[2].properties[x]
           /\ v[1] \in Seq(STRING) /\ x \in STRING
    BY <2>4
  <2>6. PICK w \in f[n] : \E name \in DOMAIN w[2].properties :
           /\ b[1] = Append(w[1], name) /\ b[2] = w[2].properties[name]
           /\ w[1] \in Seq(STRING) /\ name \in STRING
    BY <2>3
  <2>7. PICK y \in DOMAIN w[2].properties :
           /\ b[1] = Append(w[1], y) /\ b[2] = w[2].properties[y]
           /\ w[1] \in Seq(STRING) /\ y \in STRING
    BY <2>6
  <2>8. v[1] = w[1] /\ x = y
    <3> DEFINE s == v[1]  r == w[1]
    <3>1. s \in Seq(STRING) /\ r \in Seq(STRING) /\ x \in STRING /\ y \in STRING
          /\ Append(s, x) = Append(r, y)
      BY <2>5, <2>7
    <3> HIDE DEF f, s, r
    <3>2. s = r /\ x = y
      BY <3>1, AppendedOnce
    <3> QED  BY <3>2 DEF s, r
  <2>9. v[2] = w[2]
    BY <2>1, <2>8
  <2> QED  BY <2>5, <2>7, <2>8, <2>9
<1>4. T = Nat
  <2> HIDE DEF T
  <2> QED  BY <1>2, <1>3, NatSetInduction DEF T
<1> QED  BY <1>1, <1>4

TypeOf(node) == IF node.type = "" THEN "object" ELSE node.type

\* A path that is not empty ends in a name.
LEMMA FrontAndLast ==
  ASSUME NEW S, NEW p \in Seq(S), p # <<>>
  PROVE  /\ SubSeq(p, 1, Len(p) - 1) \in Seq(S) /\ Len(SubSeq(p, 1, Len(p) - 1)) = Len(p) - 1
         /\ p[Len(p)] \in S /\ p = Append(SubSeq(p, 1, Len(p) - 1), p[Len(p)])
<1> DEFINE n == Len(p)
           t == SubSeq(p, 1, n - 1)
<1>1. n \in Nat \ {0}
  OBVIOUS
<1>2. t \in Seq(S) /\ Len(t) = n - 1 /\ \A i \in 1..(n - 1) : t[i] = p[i]
  <2>1. n \in 1..Len(p)
    BY <1>1
  <2> HIDE DEF n
  <2>2. SubSeq(p, 1, n - 1) \in Seq(S) /\ Len(SubSeq(p, 1, n - 1)) = n - 1
        /\ \A i \in 1..(n - 1) : SubSeq(p, 1, n - 1)[i] = p[i]
    BY <2>1
  <2> QED  BY <2>2
<1>3. p[n] \in S
  BY <1>1
<1> HIDE DEF t
<1> DEFINE u == Append(t, p[n])
<1>4. u \in Seq(S) /\ Len(u) = n /\ u[n] = p[n] /\ \A i \in 1..(n - 1) : u[i] = t[i]
  BY <1>1, <1>2, <1>3
<1> HIDE DEF u
<1>5. \A i \in 1..n : u[i] = p[i]
  <2>1. \A i \in 1..n : i = n \/ i \in 1..(n - 1)
    BY <1>1
  <2> QED  BY <1>2, <1>4, <2>1
<1>6. u = p
  BY <1>4, <1>5
<1> QED  BY <1>2, <1>3, <1>6 DEF t, u

\* An entry of flat is that of a leaf or an empty object at its path, or of a
\* multi-field of the leaf above it.
LEMMA FlatEntry ==
  ASSUME NEW props, IsMapping(props), NEW path \in Seq(STRING), path # <<>>,
         Len(path) <= MaxDepth, NEW t
  PROVE  LET front == SubSeq(path, 1, Len(path) - 1)
             last  == path[Len(path)]
         IN  <<path, t>> \in flattenProperties(props)
             <=> \/ \E node \in NodeAt(props, path) : ~HasProperties(node) /\ t = TypeOf(node)
                 \/ \E node \in NodeAt(props, front) :
                       /\ ~HasProperties(node) /\ node.type # "" /\ last \in DOMAIN node.fields
                       /\ t = node.fields[last].type
<1> DEFINE N == Len(path)
           f == Visited(props)
           front == SubSeq(path, 1, N - 1)
           last == path[N]
           Own == \E node \in NodeAt(props, path) : ~HasProperties(node) /\ t = TypeOf(node)
           Multi == \E node \in NodeAt(props, front) :
                       /\ ~HasProperties(node) /\ node.type # "" /\ last \in DOMAIN node.fields
                       /\ t = node.fields[last].type
           e == <<path, t>>
<1>1. N \in 1..MaxDepth /\ N - 1 \in 0..MaxDepth /\ MaxDepth \in Nat /\ N \in Nat
  BY FieldPathsAssumption
<1>2. front \in Seq(STRING) /\ Len(front) = N - 1 /\ last \in STRING /\ path = Append(front, last)
  BY FrontAndLast
<1> HIDE DEF f, front, last
<1>3. NodeAt(props, path) = {v[2] : v \in {w \in f[N] : w[1] = path}}
  BY WalkedTo DEF f
<1>4. NodeAt(props, front) = {v[2] : v \in {w \in f[N - 1] : w[1] = front}}
  <2>1. Len(front) <= MaxDepth
    BY <1>1, <1>2
  <2>2. NodeAt(props, front) = {v[2] : v \in {w \in f[Len(front)] : w[1] = front}}
    BY <1>2, <2>1, WalkedTo DEF f
  <2> QED  BY <1>2, <2>2
<1>5. flattenProperties(props) = UNION {Entries(v[1], v[2]) : v \in UNION {f[n] : n \in 1..MaxDepth}}
  BY DEF flattenProperties, f
<1>6. ASSUME e \in flattenProperties(props) PROVE Own \/ Multi
  <2>1. PICK n \in 1..MaxDepth : \E v \in f[n] : e \in Entries(v[1], v[2])
    BY <1>5, <1>6
  <2>2. PICK v \in f[n] : e \in Entries(v[1], v[2])
    BY <2>1
  <2> DEFINE p == v[1]  node == v[2]
  <2>3. n \in 0..MaxDepth /\ p \in Seq(STRING) /\ Len(p) = n
    <3>1. n \in 0..MaxDepth
      BY <1>1
    <3> QED  BY <3>1, VisitedPaths DEF f
  <2>4. ~HasProperties(node)
        /\ \/ e = <<p, TypeOf(node)>>
           \/ node.type # "" /\ \E sub \in DOMAIN node.fields : e = <<Append(p, sub), node.fields[sub].type>>
    <3> HIDE DEF e
    <3> QED  BY <2>2 DEF Entries, TypeOf
  <2>5. CASE e = <<p, TypeOf(node)>>
    <3>1. p = path /\ t = TypeOf(node)
      BY <2>5
    <3>2. n = N
      BY <2>3, <3>1
    <3>3. node \in NodeAt(props, path)
      BY <1>3, <2>2, <3>1, <3>2
    <3> QED  BY <2>4, <3>1, <3>3
  <2>6. CASE node.type # "" /\ \E sub \in DOMAIN node.fields : e = <<Append(p, sub), node.fields[sub].type>>
    <3>1. PICK sub \in DOMAIN node.fields : e = <<Append(p, sub), node.fields[sub].type>>
      BY <2>6
    <3>2. path = Append(p, sub) /\ t = node.fields[sub].type
      BY <3>1
    <3>3. sub \in STRING
      BY <2>2, <2>3 DEF IsMapping, f
    <3>4. p = front /\ sub = last
      <4> HIDE DEF p, node
      <4>1. Append(p, sub) = Append(front, last)
        BY <1>2, <3>2
      <4> QED  BY <1>2, <2>3, <3>3, <4>1, AppendedOnce
    <3>5. n = N - 1
      BY <1>2, <2>3, <3>4
    <3>6. node \in NodeAt(props, front)
      BY <1>4, <2>2, <3>4, <3>5
    <3> QED  BY <2>4, <2>6, <3>2, <3>4, <3>6
  <2> QED  BY <2>4, <2>5, <2>6
<1>7. ASSUME Own PROVE e \in flattenProperties(props)
  <2>1. PICK node \in NodeAt(props, path) : ~HasProperties(node) /\ t = TypeOf(node)
    BY <1>7
  <2>2. PICK v \in f[N] : v[1] = path /\ v[2] = node
    BY <1>3
  <2>3. e \in Entries(v[1], v[2])
    BY <2>1, <2>2 DEF Entries, TypeOf
  <2> HIDE DEF e, N
  <2> QED  BY <1>1, <1>5, <2>2, <2>3
<1>8. ASSUME Multi PROVE e \in flattenProperties(props)
  <2>1. PICK node \in NodeAt(props, front) :
           /\ ~HasProperties(node) /\ node.type # "" /\ last \in DOMAIN node.fields
           /\ t = node.fields[last].type
    BY <1>8
  <2>2. PICK v \in f[N - 1] : v[1] = front /\ v[2] = node
    BY <1>4
  <2>3. e \in Entries(v[1], v[2])
    BY <1>2, <2>1, <2>2 DEF Entries
  <2>4. N - 1 # 0
    <3> SUFFICES ASSUME N - 1 = 0 PROVE FALSE
      OBVIOUS
    <3> DEFINE z == <<<<>>, Root(props)>>
    <3>1. f[0] = {z}
      BY VisitedStep DEF f
    <3>2. z[2] = Root(props)
      OBVIOUS
    <3> HIDE DEF z
    <3>3. v[2] = Root(props)
      BY <3>1, <3>2
    <3>4. v[2].type = ""
      <4>1. Root(props).type = ""
        BY DEF Root, Node
      <4> QED  BY <3>3, <4>1, Zenon
    <3> QED  BY <2>1, <2>2, <3>4
  <2>5. N - 1 \in 1..MaxDepth
    <3> DEFINE k == N - 1
    <3>1. k \in 0..MaxDepth /\ k # 0
      BY <1>1, <2>4
    <3> HIDE DEF k
    <3>2. k \in 1..MaxDepth
      BY <1>1, <3>1
    <3> QED  BY <3>2 DEF k
  <2> HIDE DEF e, N
  <2> QED  BY <1>5, <2>2, <2>3, <2>5
<1> QED  BY <1>6, <1>7, <1>8 DEF front, last

\* A path has one type in an index, and it is what walking down to it finds.
LEMMA FlatTypes ==
  ASSUME NEW props, IsMapping(props), NEW path \in Seq(STRING), path # <<>>,
         Len(path) <= MaxDepth
  PROVE  /\ \A t : t \in FieldTypesAt(props, path) <=> <<path, t>> \in flattenProperties(props)
         /\ \A t, u \in FieldTypesAt(props, path) : t = u
<1> DEFINE N == Len(path)
           f == Visited(props)
           front == SubSeq(path, 1, N - 1)
           last == path[N]
           Own(t) == \E node \in NodeAt(props, path) : ~HasProperties(node) /\ t = TypeOf(node)
           Multi(t) == \E node \in NodeAt(props, front) :
                       /\ ~HasProperties(node) /\ node.type # "" /\ last \in DOMAIN node.fields
                       /\ t = node.fields[last].type
<1>1. N \in 1..MaxDepth /\ N - 1 \in 0..MaxDepth /\ N \in 0..MaxDepth
  BY FieldPathsAssumption
<1>2. front \in Seq(STRING) /\ Len(front) = N - 1 /\ last \in STRING /\ path = Append(front, last)
  BY FrontAndLast
<1>3. \A t : t \in FieldTypesAt(props, path) <=> Own(t) \/ Multi(t)
  BY DEF FieldTypesAt, TypeOf
<1>4. \A t : <<path, t>> \in flattenProperties(props) <=> Own(t) \/ Multi(t)
  BY FlatEntry
<1> HIDE DEF f, front, last
<1>5. NodeAt(props, path) = {v[2] : v \in {w \in f[N] : w[1] = path}}
  BY WalkedTo DEF f
<1>6. NodeAt(props, front) = {v[2] : v \in {w \in f[N - 1] : w[1] = front}}
  <2>1. Len(front) <= MaxDepth
    BY <1>1, <1>2, FieldPathsAssumption
  <2>2. NodeAt(props, front) = {v[2] : v \in {w \in f[Len(front)] : w[1] = front}}
    BY <1>2, <2>1, WalkedTo DEF f
  <2> QED  BY <1>2, <2>2
<1>7. \A a, b \in NodeAt(props, path) : a = b
  BY <1>1, <1>5, VisitedOnce DEF f
<1>8. \A a, b \in NodeAt(props, front) : a = b
  BY <1>1, <1>6, VisitedOnce DEF f
<1>9. ASSUME NEW a \in NodeAt(props, path)
      PROVE  \E b \in NodeAt(props, front) : HasProperties(b)
  <2>1. PICK v \in f[N] : v[1] = path /\ v[2] = a
    BY <1>5
  <2>2. f[N] = UNION {{<<Append(u[1], name), u[2].properties[name]>> :
                         name \in DOMAIN u[2].properties} : u \in f[N - 1]}
    BY <1>1, VisitedStep DEF f
  <2>3. PICK u \in f[N - 1] : \E name \in DOMAIN u[2].properties :
           v = <<Append(u[1], name), u[2].properties[name]>>
    BY <2>2
  <2>4. PICK name \in DOMAIN u[2].properties : v = <<Append(u[1], name), u[2].properties[name]>>
    BY <2>3
  <2>5. u[1] \in Seq(STRING) /\ name \in STRING
    BY <1>1, <2>4, VisitedPaths DEF IsMapping, f
  <2> DEFINE p == u[1]
  <2>6. Append(p, name) = Append(front, last)
    BY <1>2, <2>1, <2>4
  <2>7. p = front
    <3> HIDE DEF p
    <3>1. p \in Seq(STRING)
      BY <2>5 DEF p
    <3> QED  BY <1>2, <2>5, <2>6, <3>1, AppendedOnce
  <2>8. u[2] \in NodeAt(props, front) /\ HasProperties(u[2])
    BY <1>6, <2>4, <2>7 DEF HasProperties
  <2> QED  BY <2>8
<1>10. ASSUME NEW t, NEW u, Own(t) \/ Multi(t), Own(u) \/ Multi(u) PROVE t = u
  <2>1. ~ (Own(t) /\ Multi(u)) /\ ~ (Own(u) /\ Multi(t))
    BY <1>8, <1>9
  <2>2. CASE Own(t) /\ Own(u)
    BY <1>7, <2>2
  <2>3. CASE Multi(t) /\ Multi(u)
    BY <1>8, <2>3
  <2> HIDE DEF Own, Multi
  <2> QED  BY <1>10, <2>1, <2>2, <2>3
<1> HIDE DEF Own, Multi
<1> QED  BY <1>3, <1>4, <1>10

\* A call other than this one leaves it behind or not, as it was.
LEMMA OtherCall ==
  ASSUME CommandInv, NEW step, At(step), step # "receive", todo' = Tail(todo) \/ todo' = todo, inv' = inv
  PROVE  Behind("receive")' <=> Behind("receive")
<1>1. CASE todo' = todo
  BY <1>1, BehindKept
<1>2. CASE todo' = Tail(todo)
  BY <1>2, CallMade
<1> QED  BY <1>1, <1>2

\* All calls are behind a command that has rendered, and were before it did.
LEMMA RenderedBehind ==
  ASSUME CommandInv, NEW code, Finishes(code)
  PROVE  Behind("receive")' <=> Behind("receive")
<1>1. At("render") /\ todo' = <<>> /\ inv' = inv
  BY DEF Finishes
<1>2. /\ inv.command \in CommandNames
      /\ \A x \in DOMAIN Rank :
            Behind(x) <=> x \in Calls(inv.command) /\ Rank[x] < Rank["render"]
  BY <1>1, AtCall
<1>3. "receive" \in DOMAIN Rank /\ Rank["receive"] < Rank["render"]
  BY RankOf DEF Rank
<1>4. Behind("receive") <=> "receive" \in Calls(inv.command)
  BY <1>2, <1>3
<1>5. inv'.command \in CommandNames /\ (\A x : Behind(x)' <=> x \in Calls(inv'.command))
  <2>1. inv.command \in CommandNames /\ todo = <<>> => \A x : Behind(x) <=> x \in Calls(inv.command)
    BY BehindEnd
  <2>2. (inv.command \in CommandNames /\ todo = <<>> => \A x : Behind(x) <=> x \in Calls(inv.command))'
    BY BehindEnd, PTL
  <2> QED  BY <1>1, <1>2, <2>2
<1> QED  BY <1>1, <1>4, <1>5

\* While a command waits, it has not received.
LEMMA WaitingBefore ==
  ASSUME CommandInv, At("receive")
  PROVE  ~Behind("receive") /\ Behind("send")
<1>1. /\ "receive" \in Calls(inv.command) /\ inv.command \in CommandNames
      /\ \A x \in DOMAIN Rank :
            Behind(x) <=> x \in Calls(inv.command) /\ Rank[x] < Rank["receive"]
  BY AtCall
<1>2. "receive" \in DOMAIN Rank /\ "send" \in DOMAIN Rank /\ Rank["receive"] = 6 /\ Rank["send"] = 5
  BY RankOf DEF Rank
<1>3. "send" \in Calls(inv.command)
  BY <1>1, StepsOrder
<1> QED  BY <1>1, <1>2, <1>3

\* What may come back depends on the invocation alone.
LEMMA AnswerKept ==
  ASSUME inv' = inv
  PROVE  \A a : IsAnswer(a)' <=> IsAnswer(a)
  BY DEF IsAnswer

\* The calls before the answer is received.
LEMMA ChecksStep ==
  ASSUME CommandInv, CheckFlags \/ LoadConfig \/ ResolveFormat \/ BuildClient \/ Send
  PROVE  UNCHANGED <<inv, answer, byField, unread, printed>> /\ (Behind("receive")' <=> Behind("receive"))
<1>1. \E step \in {"flags", "load", "format", "connect", "send"} : At(step)
  BY DEF CheckFlags, LoadConfig, ResolveFormat, BuildClient, Send
<1>2. UNCHANGED <<inv, answer, byField, unread, printed>> /\ (todo' = todo \/ todo' = Tail(todo))
  <2>1. CASE CheckFlags
    BY <2>1 DEF CheckFlags, Checks
  <2>2. CASE LoadConfig
    BY <2>2 DEF LoadConfig, Checks
  <2>3. CASE ResolveFormat
    BY <2>3 DEF ResolveFormat, Checks
  <2>4. CASE BuildClient
    BY <2>4 DEF BuildClient, Checks
  <2>5. CASE Send
    BY <2>5 DEF Send
  <2> QED  BY <2>1, <2>2, <2>3, <2>4, <2>5
<1>3. Behind("receive")' <=> Behind("receive")
  BY <1>1, <1>2, OtherCall
<1> QED  BY <1>2, <1>3

\* The answer that comes.
LEMMA AnswersStep ==
  ASSUME CommandInv, MappingAnswered \/ SearchAnswered \/ VersionAnswered
  PROVE  /\ UNCHANGED <<inv, todo, byField, unread, printed, exit>> /\ exit = NoExit
         /\ ~Behind("receive") /\ ~Behind("receive")' /\ IsAnswer(answer')
<1>1. At("receive") /\ UNCHANGED <<inv, todo, byField, unread, printed, exit>>
  BY DEF MappingAnswered, SearchAnswered, VersionAnswered, Answers, Waiting
<1>2. ~Behind("receive") /\ Behind("send")
  BY <1>1, WaitingBefore
<1>3. ~Behind("receive")'
  BY <1>1, <1>2, BehindKept
<1>4. CASE MappingAnswered
  <2>1. inv.command = "fields" /\ \E n \in 0..MaxIndices : \E properties \in [1..n -> Mappings] :
           answer' = [kind |-> "mapping", properties |-> properties]
    BY <1>4 DEF MappingAnswered, Waiting, Answers
  <2>2. IsAnswer(answer')
    BY <2>1 DEF IsAnswer
  <2> QED  BY <1>1, <1>2, <1>3, <2>2 DEF At
<1>5. CASE SearchAnswered
  <2>1. inv.command = "search"
    BY <1>5 DEF SearchAnswered, Waiting
  <2>2. request # <<>> /\ request[1] = Request
    BY <1>2, RequestBehind
  <2>3. request[1].body[1].aggs = buildAggs(inv.flags)
    <3>1. Request.body = <<buildBody(inv.flags)>>
      BY <2>1 DEF Request
    <3>2. <<buildBody(inv.flags)>>[1] = buildBody(inv.flags)
      BY OneEntry
    <3>3. buildBody(inv.flags).aggs = buildAggs(inv.flags)
      BY DEF buildBody
    <3> QED  BY <2>2, <3>1, <3>2, <3>3, Zenon
  <2>4. IsAnswer(answer')
    <3>1. CASE ~hasStructuredAggregation(inv.flags)
      BY <1>5, <2>1, <3>1 DEF SearchAnswered, Answers, IsAnswer
    <3>2. CASE hasStructuredAggregation(inv.flags)
      <4> DEFINE aggs == buildAggs(inv.flags)
      <4>1. \/ \E n \in 0..MaxBuckets, lacking \in SUBSET Range(aggs.metrics), plain \in BOOLEAN :
                  answer' = [kind |-> "aggregations", aggs |-> AggAnswer(aggs, n, lacking, plain)]
            \/ answer' = [kind |-> "aggregations", aggs |-> NoAggregations]
            \/ answer' = [kind |-> "unreadable"]
        <5> HIDE DEF aggs
        <5>1. request[1].body[1].aggs = aggs
          BY <2>3 DEF aggs
        <5> QED  BY <1>5, <3>2, <5>1 DEF SearchAnswered, Answers
      <4> QED  BY <2>1, <3>2, <4>1 DEF IsAnswer
    <3> QED  BY <3>1, <3>2
  <2> QED  BY <1>1, <1>2, <1>3, <2>4 DEF At
<1>6. CASE VersionAnswered
  <2>1. IsAnswer(answer')
    BY <1>6 DEF VersionAnswered, Waiting, Answers, IsAnswer
  <2> QED  BY <1>1, <1>2, <1>3, <2>1 DEF At
<1> QED  BY <1>4, <1>5, <1>6

\* The steps that leave the answer alone and go through no index.
Quiet ==
  \/ RequestFails \/ RequestNotMade
  \/ Render \/ UnreadableAggregations \/ WriteFails \/ LineLost
  \/ Ended \/ UNCHANGED vars

\* They leave what has been gathered.
LEMMA QuietStep ==
  ASSUME CommandInv, Quiet
  PROVE  /\ UNCHANGED <<inv, answer, byField, unread>>
         /\ (Behind("receive")' <=> Behind("receive"))
         /\ printed' = printed \/ unread = {}
<1>1. CASE RequestFails \/ RequestNotMade
  BY <1>1, BehindKept DEF RequestFails, RequestNotMade
<1>2. CASE Render \/ UnreadableAggregations \/ WriteFails \/ LineLost
  <2>1. \E code : Finishes(code)
    BY <1>2 DEF Render, UnreadableAggregations, WriteFails, LineLost
  <2> QED  BY <2>1, RenderedBehind DEF Finishes
<1>3. CASE Ended \/ UNCHANGED vars
  BY <1>3, BehindKept DEF Ended, vars
<1> QED  BY <1>1, <1>2, <1>3 DEF Quiet

\* The answer is one that the request can have.
LEMMA AnswerInductive == Spec => []AnswerInv
<1>1. Init => AnswerInv
  <2> SUFFICES ASSUME Init PROVE AnswerInv
    OBVIOUS
  <2>1. answer = NoReply /\ todo = Steps(inv.command) /\ inv \in Invocation
    BY CommandAssumption DEF Init
  <2>2. Len(todo) \in Nat
    BY <2>1, Commanded, StepsOrder
  <2>3. ~Behind("receive")
    <3> DEFINE k == Len(todo)
    <3>1. Len(Steps(inv.command)) = k /\ k \in Nat
      BY <2>1, <2>2
    <3> HIDE DEF k
    <3>2. 1..(k - k) = {}
      BY <3>1
    <3> QED  BY <3>1, <3>2 DEF Behind, k
  <2> QED  BY <2>1, <2>3 DEF AnswerInv
<1>2. CommandInv /\ AnswerInv /\ [Next]_vars => AnswerInv'
  <2> SUFFICES ASSUME CommandInv, AnswerInv, [Next]_vars PROVE AnswerInv'
    OBVIOUS
  <2>1. CASE CheckFlags \/ LoadConfig \/ ResolveFormat \/ BuildClient \/ Send
    BY <2>1, ChecksStep, AnswerKept DEF AnswerInv, NoReply
  <2>2. CASE MappingAnswered \/ SearchAnswered \/ VersionAnswered
    BY <2>2, AnswersStep, AnswerKept DEF AnswerInv, NoReply
  <2>3. CASE Receive
    <3>1. UNCHANGED <<inv, answer>> /\ answer # NoReply
      BY <2>3 DEF Receive, NoReply
    <3> QED  BY <3>1, AnswerKept DEF AnswerInv, NoReply
  <2>4. CASE ReadIndex
    <3>1. UNCHANGED <<inv, todo, answer>>
      BY <2>4 DEF ReadIndex
    <3> QED  BY <3>1, AnswerKept, BehindKept DEF AnswerInv, NoReply
  <2>5. CASE Quiet
    BY <2>5, QuietStep, AnswerKept DEF AnswerInv, NoReply
  <2> QED  BY <2>1, <2>2, <2>3, <2>4, <2>5 DEF Next, Quiet
<1> QED  BY <1>1, <1>2, CommandInductive, PTL DEF Spec

-----------------------------------------------------------------------------
(***************************************************************************)
(* The loop over the indices of a mapping.                                 *)
(***************************************************************************)
\* An entry of flat is a pair.
LEMMA FlatPairs ==
  ASSUME NEW props, NEW e \in flattenProperties(props)
  PROVE  e = <<e[1], e[2]>>
<1>1. PICK v : e \in Entries(v[1], v[2])
  BY DEF flattenProperties
<1>2. \E a, b : e = <<a, b>>
  BY <1>1 DEF Entries
<1>3. PICK a, b : e = <<a, b>>
  BY <1>2
<1> QED  BY <1>3

\* Before the first index nothing has been gathered.
LEMMA GatheredNone ==
  ASSUME NEW properties
  PROVE  Gathered(properties, {}) = [path \in {} |-> Nothing]
  BY DEF Gathered

\* One more index adds its own entries, whichever have been gone through.
LEMMA GatheredOn ==
  ASSUME NEW properties, NEW read, NEW index, index \notin read
  PROVE  AddIndex(Gathered(properties, read), index, properties[index])
            = Gathered(properties, read \cup {index})
<1> DEFINE flat(i) == flattenProperties(properties[i])
           Has(i, path) == \E e \in flat(i) : e[1] = path
           TypeIn(i, path) == (CHOOSE e \in flat(i) : e[1] = path)[2]
           P(set) == UNION {{e[1] : e \in flat(i)} : i \in set}
           G(set) == [path \in P(set) |-> [i \in {j \in set : Has(j, path)} |-> TypeIn(i, path)]]
           old == G(read)
           more == read \cup {index}
           Before(path) == IF path \in DOMAIN old THEN DOMAIN old[path] ELSE {}
           Now(path)    == {i \in {index} : Has(index, path)}
           new == [path \in DOMAIN old \cup {e[1] : e \in flat(index)} |->
                     [i \in Before(path) \cup Now(path) |->
                         IF i = index THEN TypeIn(index, path) ELSE old[path][i]]]
<1>1. /\ Gathered(properties, read) = old
      /\ Gathered(properties, more) = G(more)
      /\ AddIndex(old, index, properties[index]) = new
  BY DEF Gathered, AddIndex
<1>2. P(more) = P(read) \cup {e[1] : e \in flat(index)}
  OBVIOUS
<1>3. \A path, i : i \in read /\ Has(i, path) => path \in P(read)
  OBVIOUS
<1> HIDE DEF P, flat, TypeIn
<1>4. DOMAIN old = P(read) /\ \A path \in P(read) : old[path] = [i \in {j \in read : Has(j, path)} |-> TypeIn(i, path)]
  OBVIOUS
<1>5. ASSUME NEW path \in P(more)
      PROVE  [i \in Before(path) \cup Now(path) |->
                         IF i = index THEN TypeIn(index, path) ELSE old[path][i]]
             = [i \in {j \in more : Has(j, path)} |-> TypeIn(i, path)]
  <2> HIDE DEF Has, old
  <2>1. Before(path) = {j \in read : Has(j, path)}
    <3>1. CASE path \in P(read)
      BY <1>4, <3>1
    <3>2. CASE path \notin P(read)
      BY <1>3, <1>4, <3>2
    <3> QED  BY <3>1, <3>2
  <2>2. Before(path) \cup Now(path) = {j \in more : Has(j, path)}
    BY <2>1
  <2>3. ASSUME NEW i \in Before(path) \cup Now(path)
        PROVE  (IF i = index THEN TypeIn(index, path) ELSE old[path][i]) = TypeIn(i, path)
    BY <1>3, <1>4, <2>1
  <2> HIDE DEF Before, Now, more
  <2> QED  BY <2>2, <2>3
<1>6. DOMAIN old \cup {e[1] : e \in flat(index)} = P(more)
  BY <1>2, <1>4
<1>7. new = G(more)
  <2> DEFINE Row(path) == [i \in Before(path) \cup Now(path) |->
                              IF i = index THEN TypeIn(index, path) ELSE old[path][i]]
             Want(path) == [i \in {j \in more : Has(j, path)} |-> TypeIn(i, path)]
  <2>1. \A path \in P(more) : Row(path) = Want(path)
    BY <1>5
  <2>2. new = [path \in P(more) |-> Row(path)]
    BY <1>6
  <2>3. G(more) = [path \in P(more) |-> Want(path)]
    OBVIOUS
  <2> HIDE DEF Row, Want, new, G
  <2> QED  BY <2>1, <2>2, <2>3
<1> HIDE DEF old, new, G
<1> QED  BY <1>1, <1>7

\* Before the answer is received there is nothing to go through.
LEMMA NothingGathered ==
  ASSUME ~Behind("receive")
  PROVE  FieldsInv <=> unread = {} /\ byField = [path \in {} |-> Nothing] 
<1>1. {} \ unread = {}
  OBVIOUS
<1>2. Gathered(answer.properties, {} \ unread) = [path \in {} |-> Nothing]
  BY <1>1, GatheredNone
<1> QED  BY <1>2 DEF FieldsInv

\* A step that goes through no index keeps FieldsInv.
LEMMA FieldsKept ==
  ASSUME UNCHANGED <<answer, byField, unread>>, Behind("receive")' <=> Behind("receive"),
         printed' = printed \/ unread = {}, FieldsInv
  PROVE  FieldsInv'
<1> DEFINE all == IF answer.kind = "mapping" /\ Behind("receive")
                  THEN DOMAIN answer.properties ELSE {}
           g == Gathered(answer.properties, all \ unread)
<1>1. all' = all
  OBVIOUS
<1>2. g' = g
  BY <1>1 DEF Gathered
<1>3. FieldsInv <=> unread \subseteq all /\ byField = g /\ (printed # Nowhere => unread = {})
  BY DEF FieldsInv
<1>4. FieldsInv' <=> unread' \subseteq all' /\ byField' = g' /\ (printed' # Nowhere => unread' = {})
  BY DEF FieldsInv
<1>5. Nowhere' = Nowhere
  BY DEF Nowhere
<1> HIDE DEF all, g
<1> QED  BY <1>1, <1>2, <1>3, <1>4, <1>5

\* What has been gathered is what is in the indices that have been gone through.
LEMMA FieldsInductive == Spec => []FieldsInv
<1>1. Init => FieldsInv
  <2> SUFFICES ASSUME Init PROVE FieldsInv
    OBVIOUS
  <2>1. unread = {} /\ byField = [path \in {} |-> Nothing] /\ answer.kind = "none"
        /\ printed = Nowhere
    BY DEF Init, NoReply
  <2>2. Gathered(answer.properties, {} \ unread) = [path \in {} |-> Nothing]
    <3>1. {} \ unread = {}
      OBVIOUS
    <3> QED  BY <3>1, GatheredNone
  <2> QED  BY <2>1, <2>2 DEF FieldsInv
<1>2. CommandInv /\ FieldsInv /\ [Next]_vars => FieldsInv'
  <2> SUFFICES ASSUME CommandInv, FieldsInv, [Next]_vars PROVE FieldsInv'
    OBVIOUS
  <2>1. CASE CheckFlags \/ LoadConfig \/ ResolveFormat \/ BuildClient \/ Send
    BY <2>1, ChecksStep, FieldsKept
  <2>2. CASE MappingAnswered \/ SearchAnswered \/ VersionAnswered
    <3>1. ~Behind("receive") /\ ~Behind("receive")' /\ UNCHANGED <<byField, unread>>
          /\ printed' = Nowhere
      BY <2>2, AnswersStep DEF CommandInv, ExitInv
    <3>2. unread = {} /\ byField = [path \in {} |-> Nothing]
      BY <3>1, NothingGathered
    <3>3. Gathered(answer'.properties, {} \ unread') = [path \in {} |-> Nothing]
      <4>1. {} \ unread' = {}
        OBVIOUS
      <4> QED  BY <4>1, GatheredNone
    <3> QED  BY <3>1, <3>2, <3>3 DEF FieldsInv
  <2>3. CASE Receive
    <3>1. At("receive") /\ todo' = Tail(todo) /\ UNCHANGED <<inv, answer, byField, printed>>
          /\ unread' = IF answer.kind = "mapping" THEN DOMAIN answer.properties ELSE {}
      BY <2>3 DEF Receive
    <3>2. ~Behind("receive") /\ Behind("receive")' /\ exit = NoExit
      BY <3>1, WaitingBefore, CallMade DEF At
    <3>3. byField = [path \in {} |-> Nothing]
      BY <3>2, NothingGathered
    <3>4. Gathered(answer'.properties, unread' \ unread') = [path \in {} |-> Nothing]
      <4>1. unread' \ unread' = {}
        OBVIOUS
      <4> QED  BY <4>1, GatheredNone
    <3>5. printed' = Nowhere
      BY <3>1, <3>2 DEF CommandInv, ExitInv
    <3>6. unread' = IF answer'.kind = "mapping" /\ Behind("receive")'
                    THEN DOMAIN answer'.properties ELSE {}
      BY <3>1, <3>2
    <3> QED  BY <3>1, <3>3, <3>4, <3>5, <3>6 DEF FieldsInv
  <2>4. CASE ReadIndex
    <3>1. At("render") /\ UNCHANGED <<inv, todo, answer, printed>>
      BY <2>4 DEF ReadIndex
    <3>2. PICK index \in unread :
             /\ byField' = AddIndex(byField, index, answer.properties[index])
             /\ unread' = unread \ {index}
      BY <2>4 DEF ReadIndex
    <3> DEFINE all == IF answer.kind = "mapping" /\ Behind("receive")
                      THEN DOMAIN answer.properties ELSE {}
    <3>3. unread \subseteq all /\ byField = Gathered(answer.properties, all \ unread)
      BY DEF FieldsInv
    <3>4. all' = all
      BY <3>1, BehindKept
    <3>5. printed' = Nowhere
      BY <3>1 DEF At, CommandInv, ExitInv
    <3>6. FieldsInv' <=> /\ unread' \subseteq all' /\ (printed' # Nowhere => unread' = {})
                         /\ byField' = Gathered(answer'.properties, all' \ unread')
      BY DEF FieldsInv
    <3> HIDE DEF all
    <3>7. (all \ unread) \cup {index} = all \ unread' /\ index \notin all \ unread
      BY <3>2, <3>3
    <3>8. byField' = Gathered(answer.properties, all \ unread')
      <4> DEFINE read == all \ unread
      <4>1. index \notin read /\ read \cup {index} = all \ unread'
        BY <3>7
      <4>2. byField' = AddIndex(Gathered(answer.properties, read), index, answer.properties[index])
        BY <3>2, <3>3
      <4> HIDE DEF read
      <4>3. AddIndex(Gathered(answer.properties, read), index, answer.properties[index])
              = Gathered(answer.properties, read \cup {index})
        BY <4>1, GatheredOn
      <4> QED  BY <4>1, <4>2, <4>3
    <3> QED  BY <3>1, <3>2, <3>3, <3>4, <3>5, <3>6, <3>8
  <2>5. CASE Quiet
    BY <2>5, QuietStep, FieldsKept
  <2> QED  BY <2>1, <2>2, <2>3, <2>4, <2>5 DEF Next, Quiet
<1> QED  BY <1>1, <1>2, CommandInductive, PTL DEF Spec

\* All that a command that shows fields has gone through.
LEMMA FieldsShown ==
  ASSUME CommandInv, AnswerInv, FieldsInv, printed.kind = "fields"
  PROVE  /\ printed = [kind |-> "fields", rows |-> toFieldRows(byField)]
         /\ byField = Gathered(answer.properties, DOMAIN answer.properties)
         /\ \A i \in DOMAIN answer.properties : IsMapping(answer.properties[i])
<1>1. printed # Nowhere /\ printed = Output /\ todo = <<>> /\ inv.command \in CommandNames
  BY Commanded DEF CommandInv, ExitInv, Nowhere
<1>2. inv.command = "fields"
  BY <1>1 DEF Output, Nowhere, CommandNames
<1>3. printed = [kind |-> "fields", rows |-> toFieldRows(byField)]
  BY <1>1, <1>2 DEF Output
<1>4. Behind("receive")
  BY <1>1, <1>2, BehindEnd, StepsOrder
<1>5. PICK n \in 0..MaxIndices : \E properties \in [1..n -> Mappings] :
         answer = [kind |-> "mapping", properties |-> properties]
  BY <1>2, <1>4 DEF AnswerInv, IsAnswer
<1>6. PICK properties \in [1..n -> Mappings] :
         answer = [kind |-> "mapping", properties |-> properties]
  BY <1>5
<1>7. answer.kind = "mapping" /\ answer.properties = properties
  BY <1>6
<1>8. unread = {}
  BY <1>1 DEF FieldsInv
<1>9. byField = Gathered(answer.properties, DOMAIN answer.properties)
  <2>1. byField = Gathered(answer.properties, DOMAIN answer.properties \ unread)
    BY <1>4, <1>7 DEF FieldsInv
  <2>2. DOMAIN answer.properties \ unread = DOMAIN answer.properties
    BY <1>8
  <2> QED  BY <2>1, <2>2
<1>10. \A i \in DOMAIN answer.properties : IsMapping(answer.properties[i])
  BY <1>6, <1>7, CommandAssumption
<1> QED  BY <1>3, <1>9, <1>10

\* What has been gathered of a possible path is what its indices hold.
LEMMA GatheredTypes ==
  ASSUME NEW props, \A i \in DOMAIN props : IsMapping(props[i]),
         NEW path \in Range(FieldPaths)
  PROVE  LET g == Gathered(props, DOMAIN props)
         IN  /\ path \in DOMAIN g <=> UNION {FieldTypesAt(props[i], path) : i \in DOMAIN props} # {}
             /\ path \in DOMAIN g =>
                   /\ Range(g[path]) = UNION {FieldTypesAt(props[i], path) : i \in DOMAIN props}
                   /\ \A i \in DOMAIN props : FieldTypesAt(props[i], path) =
                          IF i \in DOMAIN g[path] THEN {g[path][i]} ELSE {}
<1> DEFINE g == Gathered(props, DOMAIN props)
           flat(i) == flattenProperties(props[i])
           Has(i) == \E e \in flat(i) : e[1] = path
           TypeIn(i) == (CHOOSE e \in flat(i) : e[1] = path)[2]
           types(i) == FieldTypesAt(props[i], path)
<1>1. path \in Seq(STRING) /\ path # <<>> /\ Len(path) <= MaxDepth
  BY FieldPathsAssumption DEF Range
<1>2. \A i \in DOMAIN props : /\ \A t : t \in types(i) <=> <<path, t>> \in flat(i)
                              /\ \A t, u \in types(i) : t = u
  BY <1>1, FlatTypes
<1>3. \A i : \A e \in flat(i) : e = <<e[1], e[2]>>
  BY FlatPairs
<1>4. /\ path \in DOMAIN g <=> \E i \in DOMAIN props : Has(i)
      /\ path \in DOMAIN g => g[path] = [i \in {j \in DOMAIN props : Has(j)} |-> TypeIn(i)]
  <2> DEFINE paths == UNION {{e[1] : e \in flat(i)} : i \in DOMAIN props}
             Row(p) == [i \in {j \in DOMAIN props : \E e \in flat(j) : e[1] = p} |->
                           (CHOOSE e \in flat(i) : e[1] = p)[2]]
  <2>1. g = [p \in paths |-> Row(p)]
    BY DEF Gathered
  <2>2. path \in paths <=> \E i \in DOMAIN props : Has(i)
    OBVIOUS
  <2>3. Row(path) = [i \in {j \in DOMAIN props : Has(j)} |-> TypeIn(i)]
    OBVIOUS
  <2> HIDE DEF g, paths, Row, Has, TypeIn
  <2> QED  BY <2>1, <2>2, <2>3
<1> HIDE DEF g, flat, types
<1>5. \A i \in DOMAIN props : types(i) = IF Has(i) THEN {TypeIn(i)} ELSE {}
  <2> SUFFICES ASSUME NEW i \in DOMAIN props
               PROVE  types(i) = IF Has(i) THEN {TypeIn(i)} ELSE {}
    OBVIOUS
  <2>1. CASE Has(i)
    <3> DEFINE e == CHOOSE e \in flat(i) : e[1] = path
    <3>1. e \in flat(i) /\ e[1] = path
      BY <2>1
    <3>2. TypeIn(i) = e[2]
      OBVIOUS
    <3> HIDE DEF e
    <3>3. <<path, e[2]>> \in flat(i)
      BY <1>3, <3>1
    <3>4. e[2] \in types(i)
      BY <1>2, <3>3
    <3> HIDE DEF TypeIn
    <3> QED  BY <1>2, <2>1, <3>2, <3>4
  <2>2. CASE ~Has(i)
    <3> SUFFICES ASSUME NEW t \in types(i) PROVE FALSE
      BY <2>2
    <3>1. <<path, t>> \in flat(i) /\ <<path, t>>[1] = path
      BY <1>2
    <3> QED  BY <2>2, <3>1
  <2> QED  BY <2>1, <2>2
<1> HIDE DEF Has, TypeIn
<1> QED  BY <1>4, <1>5 DEF Range, g, types

\* For every set of mappings, in whatever order the indices are gone through
\* (Go's order over a map), `fields' prints the paths that are fields in some
\* index, in the order of their names, each with all of its types, and as
\* conflicts those and only those that have more than one.
THEOREM FieldsShownAreTheMappings == Spec => []FieldsAreTheMappings
<1>1. CommandInv /\ AnswerInv /\ FieldsInv => FieldsAreTheMappings
  <2> SUFFICES ASSUME CommandInv, AnswerInv, FieldsInv, printed.kind = "fields"
               PROVE  FieldsAreTheMappings
    BY DEF FieldsAreTheMappings
  <2> DEFINE props == answer.properties
             rows == printed.rows
             types(path) == UNION {FieldTypesAt(props[i], path) : i \in DOMAIN props}
             W == {path \in Range(FieldPaths) : types(path) # {}}
             fields == Filtered(FieldPaths, W)
             found == Filtered(FieldPaths, DOMAIN byField)
  <2>1. /\ printed = [kind |-> "fields", rows |-> toFieldRows(byField)]
        /\ byField = Gathered(props, DOMAIN props)
        /\ \A i \in DOMAIN props : IsMapping(props[i])
    BY FieldsShown
  <2>2. \A path \in Range(FieldPaths) :
           /\ path \in DOMAIN byField <=> types(path) # {}
           /\ path \in DOMAIN byField =>
                 /\ Range(byField[path]) = types(path)
                 /\ \A i \in DOMAIN props : FieldTypesAt(props[i], path) =
                       IF i \in DOMAIN byField[path] THEN {byField[path][i]} ELSE {}
    <3> SUFFICES ASSUME NEW path \in Range(FieldPaths)
                 PROVE  /\ path \in DOMAIN byField <=> types(path) # {}
                        /\ path \in DOMAIN byField =>
                              /\ Range(byField[path]) = types(path)
                              /\ \A i \in DOMAIN props : FieldTypesAt(props[i], path) =
                                    IF i \in DOMAIN byField[path] THEN {byField[path][i]} ELSE {}
      OBVIOUS
    <3> HIDE DEF props
    <3> DEFINE g == Gathered(props, DOMAIN props)
    <3>1. /\ path \in DOMAIN g <=> types(path) # {}
          /\ path \in DOMAIN g =>
                /\ Range(g[path]) = types(path)
                /\ \A i \in DOMAIN props : FieldTypesAt(props[i], path) =
                      IF i \in DOMAIN g[path] THEN {g[path][i]} ELSE {}
      BY <2>1, GatheredTypes
    <3> HIDE DEF types, g
    <3>2. byField = g
      BY <2>1 DEF g
    <3> QED  BY <3>1, <3>2
  <2>3. FieldPaths \in Seq(Seq(STRING))
    BY FieldPathsAssumption
  <2> HIDE DEF props, types
  <2>4. found = fields
    <3>1. \A i \in 1..Len(FieldPaths) : FieldPaths[i] \in Range(FieldPaths)
      BY <2>3 DEF Range
    <3>2. \A i \in 1..Len(FieldPaths) : FieldPaths[i] \in DOMAIN byField <=> FieldPaths[i] \in W
      BY <2>2, <3>1
    <3> HIDE DEF W
    <3> QED  BY <2>3, <3>2, FilteredSame
  <2>5. Range(found) = Range(FieldPaths) \cap DOMAIN byField /\ found \in Seq(Seq(STRING))
    BY <2>3, FilteredRange
  <2> HIDE DEF found, W, fields
  <2>6. /\ rows = [i \in DOMAIN found |-> FieldRow(found[i], byField[found[i]])]
    BY <2>1 DEF toFieldRows, found
  <2>7. [r \in DOMAIN rows |-> rows[r].name] = fields
    <3>1. DOMAIN rows = DOMAIN found /\ \A r \in DOMAIN rows : rows[r].name = found[r]
      BY <2>6 DEF FieldRow
    <3>2. found = [r \in DOMAIN found |-> found[r]]
      BY <2>5
    <3> HIDE DEF rows
    <3> QED  BY <2>4, <3>1, <3>2
  <2>8. ASSUME NEW r \in DOMAIN rows
        PROVE  /\ rows[r].types = types(rows[r].name)
               /\ rows[r].conflict = (Cardinality(types(rows[r].name)) > 1)
               /\ rows[r].conflict => \A i \in DOMAIN props :
                     FieldTypesAt(props[i], rows[r].name) =
                         IF i \in DOMAIN rows[r].byIndex THEN {rows[r].byIndex[i]} ELSE {}
    <3> DEFINE path == found[r]
               per == byField[path]
    <3>1. r \in DOMAIN found /\ rows[r] = FieldRow(path, per)
      BY <2>6
    <3>2. path \in Range(FieldPaths) /\ path \in DOMAIN byField
      BY <2>5, <3>1 DEF Range
    <3>3. Range(per) = types(path) /\ \A i \in DOMAIN props : FieldTypesAt(props[i], path) =
                                          IF i \in DOMAIN per THEN {per[i]} ELSE {}
      BY <2>2, <3>2
    <3> HIDE DEF path, per, rows
    <3> DEFINE conflict == Cardinality(Range(per)) > 1
    <3>4. rows[r] = [name |-> path, types |-> Range(per), conflict |-> conflict,
                     byIndex |-> IF conflict THEN per ELSE Nothing]
      BY <3>1 DEF FieldRow, distinctTypes
    <3>5. /\ rows[r].name = path /\ rows[r].types = Range(per)
          /\ rows[r].conflict = conflict
          /\ rows[r].conflict => rows[r].byIndex = per
      <4> HIDE DEF conflict
      <4> QED  BY <3>4
    <3>6. rows[r].conflict = (Cardinality(Range(per)) > 1)
      BY <3>5
    <3> QED  BY <3>3, <3>5, <3>6
  <2> QED  BY <2>7, <2>8 DEF FieldsAreTheMappings, props, types, rows, fields, W
<1> QED  BY <1>1, CommandInductive, AnswerInductive, FieldsInductive, PTL

-----------------------------------------------------------------------------
(***************************************************************************)
(* The columns of an aggregation.                                          *)
(***************************************************************************)
\* Distinct entries are as many as there are places, and can be put at as many
\* places from any one on.
PlacedFrom(first, k, A, f) ==
    \E column \in Bijection(A, first..(first - 1 + k)) :
        \A i \in 1..k : column[f[i]] = first - 1 + i

\* Distinct entries can be put at as many places.
LEMMA PlacesOfEntries ==
  ASSUME NEW k \in Nat, NEW A, NEW f \in [1..k -> A], NEW first \in Nat,
         \A i, j \in 1..k : f[i] = f[j] => i = j,
         \A a \in A : \E i \in 1..k : f[i] = a
  PROVE  Cardinality(A) = k /\ PlacedFrom(first, k, A, f)
<1>1. Cardinality(A) = k
  <2>1. f \in Bijection(1..k, A)
    BY DEF Bijection, Injection, Surjection, IsInjective
  <2> QED  BY <2>1, FS_CountingElements DEF ExistsBijection
<1> DEFINE place(a) == CHOOSE i \in 1..k : f[i] = a
           column == [a \in A |-> first - 1 + place(a)]
           B == first..(first - 1 + k)
<1>2. \A a \in A : place(a) \in 1..k /\ f[place(a)] = a
  OBVIOUS
<1>3. \A i \in 1..k : f[i] \in A /\ place(f[i]) = i
  BY <1>2
<1> HIDE DEF place
<1>4. \A a \in A : column[a] = first - 1 + place(a)
  OBVIOUS
<1>5. column \in [A -> B]
  BY <1>2
<1> HIDE DEF column
<1>6. \A a, b \in A : column[a] = column[b] => a = b
  <2> SUFFICES ASSUME NEW a \in A, NEW b \in A, column[a] = column[b] PROVE a = b
    OBVIOUS
  <2>1. place(a) = place(b)
    BY <1>2, <1>4
  <2> QED  BY <1>2, <2>1
<1>7. \A n \in B : \E a \in A : column[a] = n
  <2> SUFFICES ASSUME NEW n \in B PROVE \E a \in A : column[a] = n
    OBVIOUS
  <2> DEFINE i == n - first + 1
  <2>1. i \in 1..k /\ first - 1 + i = n
    OBVIOUS
  <2> HIDE DEF i
  <2>2. column[f[i]] = n
    BY <1>3, <1>4, <2>1
  <2> QED  BY <1>3, <2>1, <2>2
<1>8. column \in Bijection(A, B)
  <2> HIDE DEF B
  <2> QED  BY <1>5, <1>6, <1>7 DEF Bijection, Injection, Surjection, IsInjective
<1>9. \A i \in 1..k : column[f[i]] = first - 1 + i
  BY <1>3, <1>4
<1> QED  BY <1>1, <1>8, <1>9 DEF PlacedFrom

\* Entries are taken in the order of their places, each place once.
LEMMA TakenInOrder ==
  ASSUME NEW S, NEW s \in Seq(S), NEW places
  PROVE  LET t == EntriesAt(s, places)
         IN  \E kept \in [DOMAIN t -> DOMAIN s \cap places] :
                /\ \A k \in DOMAIN t : t[k] = s[kept[k]]
                /\ \A k, l \in DOMAIN t : k < l => kept[k] < kept[l]
<1> DEFINE numbers == [i \in DOMAIN s |-> i]
           kept == Filtered(numbers, places)
           t == EntriesAt(s, places)
           D == DOMAIN s
           R == {x \in D \X D : x[1] < x[2]}
<1>1. D = 1..Len(s) /\ Len(s) \in Nat
  OBVIOUS
<1>2. /\ numbers \in Seq(D) /\ DOMAIN numbers = D /\ Len(numbers) = Len(s)
      /\ \A i \in D : numbers[i] = i
  BY <1>1
<1>3. t = [k \in DOMAIN kept |-> s[kept[k]]]
  BY DEF EntriesAt
<1> HIDE DEF numbers, D
<1>4. \A i, j \in 1..Len(numbers) : i < j => <<numbers[i], numbers[j]>> \in R
  BY <1>1, <1>2
<1> HIDE DEF R
<1>5. /\ kept \in Seq(D)
      /\ \A i, j \in 1..Len(kept) : i < j => <<kept[i], kept[j]>> \in R
  BY <1>2, <1>4, FilteredMembers
<1>6. Range(kept) = Range(numbers) \cap places
  BY <1>2, FilteredRange
<1> HIDE DEF kept
<1>7. DOMAIN kept = 1..Len(kept) /\ \A k \in DOMAIN kept : kept[k] \in D
  BY <1>5
<1>8. \A k \in DOMAIN kept : kept[k] \in D \cap places
  BY <1>6, <1>7 DEF Range
<1>9. \A i, j \in DOMAIN kept : i < j => kept[i] < kept[j]
  BY <1>5, <1>7 DEF R
<1>10. kept = [k \in DOMAIN kept |-> kept[k]]
  BY <1>5
<1>11. DOMAIN t = DOMAIN kept /\ \A k \in DOMAIN t : t[k] = s[kept[k]]
  BY <1>3
<1> HIDE DEF t
<1>12. kept \in [DOMAIN t -> D \cap places]
  BY <1>8, <1>10, <1>11
<1> QED  BY <1>9, <1>11, <1>12 DEF t, D

\* What is left of the sub-aggregations once each name is taken once: one for
\* each of them, under a name that says which operation and field it is.
LEMMA ParsedOnce ==
  ASSUME NEW p \in SearchParams
  PROVE  LET parsed == parsedMetrics(p)
             all    == metricFlags(p)
         IN  /\ Len(parsed) \in Nat /\ DOMAIN parsed = 1..Len(parsed)
             /\ \A i \in DOMAIN parsed : \E a \in DOMAIN all : parsed[i] = all[a]
             /\ \A i \in DOMAIN parsed :
                   /\ parsed[i].op \in allOps /\ parsed[i].field \in Seq(Pieces)
                   /\ parsed[i].name = metricName(parsed[i].op, parsed[i].field)
             /\ \A i, j \in DOMAIN parsed : parsed[i].name = parsed[j].name => i = j
             /\ \A a \in DOMAIN all : \E i \in DOMAIN parsed :
                   parsed[i].op = all[a].op /\ parsed[i].field = all[a].field
<1> DEFINE all == metricFlags(p)
           parsed == parsedMetrics(p)
           map == metricAggMap(p)
           places == {i \in DOMAIN all : \A j \in 1..(i - 1) : all[j].name # all[i].name}
           S == Range(all)
<1>1. parsed = EntriesAt(all, places)
  BY DEF parsedMetrics
<1>2. all \in Seq(S) /\ Len(all) \in Nat /\ DOMAIN all = 1..Len(all)
  <2>1. all \in Seq(S)
    BY FlagsAreMetrics
  <2> HIDE DEF all, S
  <2> QED  BY <2>1
<1>3. DOMAIN map = {parsed[i].name : i \in DOMAIN parsed}
  BY DEF metricAggMap
<1>4. \A a \in DOMAIN all :
         /\ all[a].op \in allOps /\ all[a].field \in Seq(Pieces)
         /\ all[a].name = metricName(all[a].op, all[a].field)
  BY FlagsAreNamed
<1>5. \A a \in DOMAIN all : all[a].name \in DOMAIN map
  BY MapIsFaithful
<1> HIDE DEF all, parsed, map, S
<1>6. parsed \in Seq(S) /\ \A k \in DOMAIN parsed : \E a \in DOMAIN all : parsed[k] = all[a]
  <2> HIDE DEF places
  <2> DEFINE taken == EntriesAt(all, places)
  <2>1. all \in Seq(S)
    BY <1>2
  <2>2. /\ taken \in Seq(S)
        /\ \A k \in DOMAIN taken : \E a \in DOMAIN all \cap places : taken[k] = all[a]
    BY <2>1, EntriesTaken
  <2> HIDE DEF taken
  <2>3. \A k \in DOMAIN taken : \E a \in DOMAIN all : taken[k] = all[a]
    BY <2>2
  <2>4. parsed = taken
    BY <1>1 DEF taken
  <2> QED  BY <2>2, <2>3, <2>4
<1>7. \E kept \in [DOMAIN parsed -> DOMAIN all \cap places] :
         /\ \A k \in DOMAIN parsed : parsed[k] = all[kept[k]]
         /\ \A k, l \in DOMAIN parsed : k < l => kept[k] < kept[l]
  <2> HIDE DEF places
  <2> QED  BY <1>1, <1>2, TakenInOrder
<1>8. PICK kept \in [DOMAIN parsed -> DOMAIN all \cap places] :
         /\ \A k \in DOMAIN parsed : parsed[k] = all[kept[k]]
         /\ \A k, l \in DOMAIN parsed : k < l => kept[k] < kept[l]
  BY <1>7
<1>9. Len(parsed) \in Nat /\ DOMAIN parsed = 1..Len(parsed)
  BY <1>6
<1>10. ASSUME NEW i \in DOMAIN parsed, NEW j \in DOMAIN parsed, i < j
       PROVE  parsed[i].name # parsed[j].name
  <2>1. kept[i] < kept[j] /\ kept[i] \in DOMAIN all /\ kept[j] \in DOMAIN all /\ kept[j] \in places
    BY <1>8, <1>10
  <2>2. kept[i] \in 1..(kept[j] - 1)
    BY <1>2, <2>1
  <2>3. all[kept[i]].name # all[kept[j]].name
    BY <2>1, <2>2
  <2> QED  BY <1>8, <2>3
<1>11. \A i, j \in DOMAIN parsed : parsed[i].name = parsed[j].name => i = j
  <2> SUFFICES ASSUME NEW i \in DOMAIN parsed, NEW j \in DOMAIN parsed,
                      parsed[i].name = parsed[j].name
               PROVE  i = j
    OBVIOUS
  <2>1. ~ (i < j) /\ ~ (j < i)
    BY <1>10
  <2> QED  BY <1>9, <2>1
<1>12. \A i \in DOMAIN parsed :
          /\ parsed[i].op \in allOps /\ parsed[i].field \in Seq(Pieces)
          /\ parsed[i].name = metricName(parsed[i].op, parsed[i].field)
  BY <1>4, <1>6
<1>13. ASSUME NEW a \in DOMAIN all
       PROVE  \E i \in DOMAIN parsed : parsed[i].op = all[a].op /\ parsed[i].field = all[a].field
  <2>1. PICK i \in DOMAIN parsed : parsed[i].name = all[a].name
    BY <1>3, <1>5
  <2>2. metricName(parsed[i].op, parsed[i].field) = metricName(all[a].op, all[a].field)
    BY <1>4, <1>12, <2>1
  <2>3. parsed[i].op = all[a].op /\ parsed[i].field = all[a].field
    BY <1>4, <1>12, <2>2, NamesDiffer
  <2> QED  BY <2>3
<1> QED  BY <1>6, <1>9, <1>11, <1>12, <1>13 DEF all, parsed

\* The operations on fields that the flags ask for.
AskedBy(p) ==
    {<<p.metrics[i].op, p.metrics[i].field>> : i \in DOMAIN p.metrics}
    \cup {<<<<"cardinality">>, p.cardinalities[i]>> : i \in DOMAIN p.cardinalities}

\* Equal pairs have equal parts.
LEMMA PairsDiffer ==
  ASSUME NEW a, NEW b, NEW c, NEW d, <<a, b>> = <<c, d>>
  PROVE  a = c /\ b = d
  OBVIOUS

\* A sub-aggregation gives its operation and its field back.
LEMMA AskedFields ==
  ASSUME NEW x, NEW op, NEW field, AskedFor(x, op, field)
  PROVE  x.op = op /\ x.field = field
  BY DEF AskedFor

\* Where every metric is valid, each that is asked for is one of the columns.
LEMMA ColumnsAreAsked ==
  ASSUME NEW p \in SearchParams, \A i \in DOMAIN p.metrics : validMetric(p.metrics[i])
  PROVE  LET parsed == parsedMetrics(p)
             column == [i \in 1..Len(parsed) |-> <<parsed[i].op, parsed[i].field>>]
         IN  /\ column \in [1..Len(parsed) -> AskedBy(p)]
             /\ \A i, j \in 1..Len(parsed) : column[i] = column[j] => i = j
             /\ \A m \in AskedBy(p) : \E i \in 1..Len(parsed) : column[i] = m
<1> DEFINE all == metricFlags(p)
           parsed == parsedMetrics(p)
           kept == Filtered(p.metrics, {m \in Range(p.metrics) : validMetric(m)})
           cards == p.cardinalities
           column == [i \in 1..Len(parsed) |-> <<parsed[i].op, parsed[i].field>>]
<1>1. kept = p.metrics
  <2> DEFINE M == [op : Seq(STRING), field : Seq(STRING)]
             W == {m \in Range(p.metrics) : validMetric(m)}
             s == p.metrics
  <2>1. s \in Seq(M)
    BY DEF SearchParams
  <2> HIDE DEF M
  <2>2. \A i \in 1..Len(s) : s[i] \in W
    BY <2>1 DEF Range
  <2> HIDE DEF W
  <2>3. Filtered(s, W) = s
    BY <2>1, <2>2, FilteredAll
  <2> QED  BY <2>3 DEF W
<1>2. /\ DOMAIN all = 1..Len(all) /\ DOMAIN kept = 1..Len(kept)
      /\ \A i \in 1..Len(kept) : i \in DOMAIN all /\ AskedFor(all[i], kept[i].op, kept[i].field)
      /\ \A j \in DOMAIN cards :
            /\ Len(kept) + j \in DOMAIN all
            /\ AskedFor(all[Len(kept) + j], <<"cardinality">>, cards[j])
      /\ \A i \in DOMAIN all : i \in 1..Len(kept) \/ \E j \in DOMAIN cards : i = Len(kept) + j
  <2>1. DOMAIN p.metrics = 1..Len(p.metrics)
    <3> DEFINE s == p.metrics  M == [op : Seq(STRING), field : Seq(STRING)]
    <3>1. s \in Seq(M)
      BY DEF SearchParams
    <3> HIDE DEF s, M
    <3>2. DOMAIN s = 1..Len(s)
      BY <3>1
    <3> QED  BY <3>2 DEF s
  <2>2. DOMAIN kept = 1..Len(kept)
    <3> HIDE DEF kept
    <3> QED  BY <1>1, <2>1
  <2> QED  BY <2>2, FlagsAreMetrics
<1>3. /\ Len(parsed) \in Nat /\ DOMAIN parsed = 1..Len(parsed)
      /\ \A i \in DOMAIN parsed : \E a \in DOMAIN all : parsed[i] = all[a]
      /\ \A i \in DOMAIN parsed : parsed[i].name = metricName(parsed[i].op, parsed[i].field)
      /\ \A i, j \in DOMAIN parsed : parsed[i].name = parsed[j].name => i = j
      /\ \A a \in DOMAIN all : \E i \in DOMAIN parsed :
            parsed[i].op = all[a].op /\ parsed[i].field = all[a].field
  BY ParsedOnce
<1>4. AskedBy(p) = {<<kept[i].op, kept[i].field>> : i \in DOMAIN kept}
                   \cup {<<<<"cardinality">>, cards[i]>> : i \in DOMAIN cards}
  <2> HIDE DEF kept
  <2> QED  BY <1>1 DEF AskedBy
<1> HIDE DEF all, parsed, kept, cards
<1>11. \A i \in 1..Len(kept) : i \in DOMAIN kept /\ i \in DOMAIN all
                               /\ all[i].op = kept[i].op /\ all[i].field = kept[i].field
  <2> SUFFICES ASSUME NEW i \in 1..Len(kept)
               PROVE  i \in DOMAIN kept /\ i \in DOMAIN all
                      /\ all[i].op = kept[i].op /\ all[i].field = kept[i].field
    OBVIOUS
  <2>1. i \in DOMAIN kept /\ i \in DOMAIN all /\ AskedFor(all[i], kept[i].op, kept[i].field)
    BY <1>2
  <2> QED  BY <2>1, AskedFields
<1>12. \A j \in DOMAIN cards :
          Len(kept) + j \in DOMAIN all
          /\ all[Len(kept) + j].op = <<"cardinality">> /\ all[Len(kept) + j].field = cards[j]
  <2> SUFFICES ASSUME NEW j \in DOMAIN cards
               PROVE  Len(kept) + j \in DOMAIN all
                      /\ all[Len(kept) + j].op = <<"cardinality">>
                      /\ all[Len(kept) + j].field = cards[j]
    OBVIOUS
  <2> DEFINE a == Len(kept) + j
  <2>1. a \in DOMAIN all /\ AskedFor(all[a], <<"cardinality">>, cards[j])
    BY <1>2
  <2> HIDE DEF a
  <2>2. all[a].op = <<"cardinality">> /\ all[a].field = cards[j]
    BY <2>1, AskedFields
  <2> QED  BY <2>1, <2>2 DEF a
<1>5. ASSUME NEW a \in DOMAIN all PROVE <<all[a].op, all[a].field>> \in AskedBy(p)
  <2>1. CASE a \in 1..Len(kept)
    <3>1. a \in DOMAIN kept /\ all[a].op = kept[a].op /\ all[a].field = kept[a].field
      BY <1>11, <2>1
    <3>2. <<kept[a].op, kept[a].field>> \in AskedBy(p)
      BY <1>4, <3>1
    <3> QED  BY <3>1, <3>2
  <2>2. CASE a \notin 1..Len(kept)
    <3>1. PICK j \in DOMAIN cards : a = Len(kept) + j
      BY <1>2, <2>2
    <3>2. all[a].op = <<"cardinality">> /\ all[a].field = cards[j]
      BY <1>12, <3>1
    <3>3. <<<<"cardinality">>, cards[j]>> \in AskedBy(p)
      BY <1>4
    <3> QED  BY <3>2, <3>3
  <2> QED  BY <2>1, <2>2
<1>6. ASSUME NEW m \in AskedBy(p) PROVE \E a \in DOMAIN all : m = <<all[a].op, all[a].field>>
  <2>1. CASE \E i \in DOMAIN kept : m = <<kept[i].op, kept[i].field>>
    <3>1. PICK i \in DOMAIN kept : m = <<kept[i].op, kept[i].field>>
      BY <2>1
    <3>2. i \in DOMAIN all /\ all[i].op = kept[i].op /\ all[i].field = kept[i].field
      BY <1>2, <1>11
    <3> QED  BY <3>1, <3>2
  <2>2. CASE \E i \in DOMAIN cards : m = <<<<"cardinality">>, cards[i]>>
    <3>1. PICK i \in DOMAIN cards : m = <<<<"cardinality">>, cards[i]>>
      BY <2>2
    <3> DEFINE a == Len(kept) + i
    <3>2. a \in DOMAIN all /\ all[a].op = <<"cardinality">> /\ all[a].field = cards[i]
      BY <1>12
    <3> HIDE DEF a
    <3> QED  BY <3>1, <3>2
  <2> QED  BY <1>4, <2>1, <2>2
<1>7. column \in [1..Len(parsed) -> AskedBy(p)]
  BY <1>3, <1>5
<1>8. \A i \in 1..Len(parsed) : column[i] = <<parsed[i].op, parsed[i].field>>
  OBVIOUS
<1> HIDE DEF column
<1>9. \A i, j \in 1..Len(parsed) : column[i] = column[j] => i = j
  <2> SUFFICES ASSUME NEW i \in 1..Len(parsed), NEW j \in 1..Len(parsed), column[i] = column[j]
               PROVE  i = j
    OBVIOUS
  <2>1. parsed[i].op = parsed[j].op /\ parsed[i].field = parsed[j].field
    BY <1>8, PairsDiffer
  <2> QED  BY <1>3, <2>1
<1>10. ASSUME NEW m \in AskedBy(p) PROVE \E i \in 1..Len(parsed) : column[i] = m
  <2>1. PICK a \in DOMAIN all : m = <<all[a].op, all[a].field>>
    BY <1>6
  <2>2. PICK i \in DOMAIN parsed : parsed[i].op = all[a].op /\ parsed[i].field = all[a].field
    BY <1>3
  <2> QED  BY <1>3, <1>8, <2>1, <2>2
<1> QED  BY <1>7, <1>9, <1>10 DEF column, parsed

\* Under a column's name is what its operation yields, and under no other.
LEMMA AskedOnce ==
  ASSUME NEW p \in SearchParams, NEW i \in 1..Len(parsedMetrics(p))
  PROVE  LET parsed == parsedMetrics(p)
             map == metricAggMap(p)
         IN  {n \in DOMAIN map : map[n] = [op |-> parsed[i].op, field |-> parsed[i].field]}
                = {parsed[i].name}
<1> DEFINE all == metricFlags(p)
           parsed == parsedMetrics(p)
           map == metricAggMap(p)
<1>1. /\ DOMAIN parsed = 1..Len(parsed)
      /\ \A j \in DOMAIN parsed : \E a \in DOMAIN all : parsed[j] = all[a]
  BY ParsedOnce
<1>2. \A a \in DOMAIN all : all[a].name = metricName(all[a].op, all[a].field)
  BY FlagsAreNamed
<1>3. \A a \in DOMAIN all :
         all[a].name \in DOMAIN map /\ map[all[a].name] = [op |-> all[a].op, field |-> all[a].field]
  BY MapIsFaithful
<1>4. \A n \in DOMAIN map : \E a \in DOMAIN all :
          all[a].name = n /\ map[n] = [op |-> all[a].op, field |-> all[a].field]
  BY MetricsAreFlags
<1>5. i \in 1..Len(parsed)
  OBVIOUS
<1> HIDE DEF all, parsed, map
<1>6. PICK a \in DOMAIN all : parsed[i] = all[a]
  BY <1>1, <1>5
<1>7. parsed[i].name \in DOMAIN map
      /\ map[parsed[i].name] = [op |-> parsed[i].op, field |-> parsed[i].field]
  BY <1>3, <1>6
<1>8. ASSUME NEW n \in DOMAIN map, map[n] = [op |-> parsed[i].op, field |-> parsed[i].field]
      PROVE  n = parsed[i].name
  <2>1. PICK b \in DOMAIN all : all[b].name = n /\ map[n] = [op |-> all[b].op, field |-> all[b].field]
    BY <1>4
  <2>2. map[n].op = parsed[i].op /\ map[n].field = parsed[i].field
    BY <1>8, FieldsOf
  <2>3. map[n].op = all[b].op /\ map[n].field = all[b].field
    BY <2>1, FieldsOf
  <2>4. all[b].name = all[a].name
    BY <1>2, <1>6, <2>2, <2>3
  <2> QED  BY <1>6, <2>1, <2>4
<1>9. {n \in DOMAIN map : map[n] = [op |-> parsed[i].op, field |-> parsed[i].field]} = {parsed[i].name}
  BY <1>7, <1>8
<1> QED  BY <1>9 DEF parsed, map

\* An empty sequence before or after another adds nothing.
LEMMA NothingJoined ==
  ASSUME NEW S, NEW s \in Seq(S)
  PROVE  s \o <<>> = s /\ <<>> \o s = s
  OBVIOUS

\* The cells of the metrics: in the order of the names, what is under each.
LEMMA MetricCells ==
  ASSUME NEW p \in SearchParams, NEW bucket, DOMAIN bucket.metrics = DOMAIN metricAggMap(p)
  PROVE  LET parsed == parsedMetrics(p)
             cells  == MetricPairs(p, bucket)
         IN  /\ cells \in Seq(Range(cells)) /\ Len(cells) = Len(parsed)
             /\ \A i \in 1..Len(parsed) : /\ cells[i].value = bucket.metrics[parsed[i].name]
                                           /\ cells[i].column = parsed[i].name
<1> DEFINE parsed == parsedMetrics(p)
           names == metricNames(p)
           cells == MetricPairs(p, bucket)
           k == Len(parsed)
<1>1. k \in Nat /\ DOMAIN parsed = 1..k
  BY ParsedOnce
<1>2. names = [i \in DOMAIN parsed |-> parsed[i].name]
  BY DEF metricNames
<1>3. cells = [i \in DOMAIN names |-> Pair(names[i], metricValue(bucket.metrics, names[i]))]
  BY DEF MetricPairs
<1>4. DOMAIN metricAggMap(p) = {parsed[i].name : i \in DOMAIN parsed}
  BY DEF metricAggMap
<1> HIDE DEF parsed, names, cells, k
<1>5. DOMAIN names = 1..k /\ \A i \in 1..k : names[i] = parsed[i].name
  BY <1>1, <1>2
<1>6. DOMAIN cells = 1..k
  BY <1>3, <1>5
<1>7. cells = [i \in 1..k |-> cells[i]]
  BY <1>3, <1>6
<1>8. cells \in Seq(Range(cells)) /\ Len(cells) = k
  <2> DEFINE A == Range(cells)
  <2>1. \A i \in 1..k : cells[i] \in A
    BY <1>6 DEF Range
  <2> HIDE DEF A
  <2>2. cells \in [1..k -> A]
    BY <1>7, <2>1
  <2> QED  BY <1>1, <2>2 DEF A
<1>9. ASSUME NEW i \in 1..k
      PROVE  cells[i].value = bucket.metrics[parsed[i].name] /\ cells[i].column = parsed[i].name
  <2>1. cells[i] = Pair(names[i], metricValue(bucket.metrics, names[i]))
    BY <1>3, <1>5
  <2>2. names[i] \in DOMAIN bucket.metrics
    BY <1>1, <1>4, <1>5
  <2>3. metricValue(bucket.metrics, names[i]) = bucket.metrics[names[i]]
    BY <2>2 DEF metricValue
  <2> QED  BY <1>5, <2>1, <2>3 DEF Pair
<1> QED  BY <1>8, <1>9 DEF cells, parsed, k

\* The row of a bucket: its key, its count and these cells.
LEMMA BucketRow ==
  ASSUME NEW x, NEW y, NEW S, NEW cells \in Seq(S)
  PROVE  LET row == <<x, y>> \o cells
         IN  /\ row[1] = x /\ row[2] = y /\ Len(row) = 2 + Len(cells)
             /\ \A i \in 1..Len(cells) : row[2 + i] = cells[i]
<1> DEFINE A == S \cup {x, y}  two == <<x, y>>  row == two \o cells
<1>1. two \in Seq(A) /\ Len(two) = 2 /\ two[1] = x /\ two[2] = y
  OBVIOUS
<1>2. cells \in Seq(A)
  <2>1. S \subseteq A
    OBVIOUS
  <2> HIDE DEF A
  <2> QED  BY <2>1, SeqWider
<1> HIDE DEF A, two
<1>3. /\ Len(row) = Len(two) + Len(cells) /\ DOMAIN two = 1..2 /\ DOMAIN cells = 1..Len(cells)
      /\ \A i \in DOMAIN two : row[i] = two[i]
      /\ \A j \in DOMAIN cells : row[Len(two) + j] = cells[j]
  <2>5. two \in Seq(A)
    BY <1>1
  <2>1. Len(row) = Len(two) + Len(cells)
    BY <2>5, <1>2, Joined
  <2>2. DOMAIN two = 1..Len(two) /\ DOMAIN cells = 1..Len(cells)
    BY <1>1, <1>2
  <2>3. \A i \in DOMAIN two : row[i] = two[i]
    BY <1>1, <1>2, Joined
  <2>4. \A j \in DOMAIN cells : Len(two) + j \in DOMAIN row /\ row[Len(two) + j] = cells[j]
    BY <1>2, <2>5, Joined
  <2> HIDE DEF row
  <2> QED  BY <1>1, <2>1, <2>2, <2>3, <2>4
<1> HIDE DEF row
<1>4. row[1] = x /\ row[2] = y /\ Len(row) = 2 + Len(cells)
      /\ \A i \in 1..Len(cells) : row[2 + i] = cells[i]
  BY <1>1, <1>3
<1> QED  BY <1>4 DEF row, two

\* A table's head names the same columns.
LEMMA HeadersNamed ==
  ASSUME NEW p \in SearchParams
  PROVE  LET parsed == parsedMetrics(p)
             first  == IF bucketed(p) THEN 3 ELSE 1
         IN  /\ Len(headers(p)) = first - 1 + Len(parsed)
             /\ \A i \in 1..Len(parsed) : headers(p)[first - 1 + i] = parsed[i].name
<1> DEFINE parsed == parsedMetrics(p)
           names == metricNames(p)
           k == Len(parsed)
           key == <<"key">>
           count == <<"doc_count">>
<1>1. k \in Nat /\ DOMAIN parsed = 1..k
  BY ParsedOnce
<1>2. names = [i \in DOMAIN parsed |-> parsed[i].name]
  BY DEF metricNames
<1> HIDE DEF parsed, names, k
<1>3. names \in Seq(Range(names)) /\ Len(names) = k /\ \A i \in 1..k : names[i] = parsed[i].name
  <2> DEFINE A == Range(names)
  <2>1. DOMAIN names = 1..k /\ names = [i \in 1..k |-> names[i]]
    BY <1>1, <1>2
  <2>2. \A i \in 1..k : names[i] \in A /\ names[i] = parsed[i].name
    BY <1>1, <1>2, <2>1 DEF Range
  <2> HIDE DEF A
  <2>3. names \in [1..k -> A]
    BY <2>1, <2>2
  <2> QED  BY <1>1, <2>2, <2>3 DEF A
<1>4. CASE bucketed(p)
  <2> HIDE DEF key, count
  <2> DEFINE S == Range(names)
             row == <<key, count>> \o names
  <2>1. headers(p) = row
    BY <1>4 DEF headers, names, key, count
  <2>2. Len(row) = 2 + Len(names) /\ \A i \in 1..Len(names) : row[2 + i] = names[i]
    <3>1. names \in Seq(S)
      BY <1>3
    <3> HIDE DEF S
    <3> QED  BY <3>1, BucketRow
  <2> HIDE DEF row
  <2>3. Len(headers(p)) = 2 + k /\ \A i \in 1..k : headers(p)[2 + i] = parsed[i].name
    BY <1>3, <2>1, <2>2
  <2> QED  BY <1>4, <2>3 DEF parsed, k
<1>5. CASE ~bucketed(p)
  <2>1. headers(p) = names
    BY <1>5 DEF headers, names
  <2>2. Len(headers(p)) = 1 - 1 + k /\ \A i \in 1..k : headers(p)[1 - 1 + i] = parsed[i].name
    BY <1>1, <1>3, <2>1
  <2> QED  BY <1>5, <2>2 DEF parsed, k
<1> QED  BY <1>4, <1>5

\* What the row of a bucket shows, and that of a query without buckets.
ShowsBucket(p, row, bucket) ==
    LET first == IF bucketed(p) THEN 3 ELSE 1
        parsed == parsedMetrics(p)
    IN  /\ Len(row) = first - 1 + Len(parsed)
        /\ bucketed(p) =>
              /\ row[1].value = IF bucket.keyAsString # <<>> THEN bucket.keyAsString[1]
                                                            ELSE bucket.key
              /\ row[2].value = bucket.docCount
        /\ \A i \in 1..Len(parsed) :
              /\ row[first - 1 + i].value = bucket.metrics[parsed[i].name]
              /\ row[first - 1 + i].column = parsed[i].name

\* Every bucket of an answer has its row, and an answer without any has none.
LEMMA RowsOfAnswer ==
  ASSUME NEW p \in SearchParams, NEW n \in Nat, NEW lacking, NEW plain,
         NEW a, a = AggAnswer(buildAggs(p), n, lacking, plain) \/ a = NoAggregations
  PROVE  LET rows  == structuredAggRows(p, a)
             truth == a.buckets \o a.top
         IN  /\ Len(rows) = Len(truth) /\ DOMAIN rows = 1..Len(truth)
             /\ \A b \in DOMAIN rows : ShowsBucket(p, rows[b], truth[b])
<1> DEFINE rows  == structuredAggRows(p, a)
           truth == a.buckets \o a.top
           aggs == buildAggs(p)
           B(b) == Bucket(aggs, b, lacking, plain)
           k == Len(parsedMetrics(p))
<1>1. CASE a = NoAggregations
  <2>1. rows = <<>> /\ a.buckets = <<>> /\ a.top = <<>>
    BY <1>1 DEF structuredAggRows, NoAggregations
  <2>2. <<>> \o <<>> = <<>>
    OBVIOUS
  <2>3. truth = <<>>
    BY <2>1, <2>2
  <2> HIDE DEF rows, truth
  <2>4. Len(rows) = Len(truth) /\ DOMAIN rows = {} /\ 1..Len(truth) = {}
    BY <2>1, <2>3, NoEntry
  <2> QED  BY <2>4 DEF rows, truth
<1>2. CASE a = AggAnswer(aggs, n, lacking, plain)
  <2>1. k \in Nat
    BY ParsedOnce
  <2>2. \A b : DOMAIN B(b).metrics = DOMAIN metricAggMap(p)
    <3>1. aggs.metrics = metricAggMap(p)
      BY DEF buildAggs
    <3> QED  BY <3>1 DEF Bucket
  <2>3. (aggs.terms = <<>> <=> p.terms = <<>>) /\ (aggs.histogram = <<>> <=> p.dateHistogram = <<>>)
    <3>1. /\ DOMAIN aggs.terms = DOMAIN p.terms /\ DOMAIN aggs.histogram = DOMAIN p.dateHistogram
          /\ aggs.terms = [i \in DOMAIN p.terms |-> aggs.terms[i]]
          /\ aggs.histogram = [i \in DOMAIN p.dateHistogram |-> aggs.histogram[i]]
      BY DEF buildAggs
    <3>2. \A s, t : DOMAIN s = DOMAIN t /\ s = [i \in DOMAIN t |-> s[i]] /\ t = <<>> => s = <<>>
      <4> SUFFICES ASSUME NEW s, NEW t, DOMAIN s = DOMAIN t, s = [i \in DOMAIN t |-> s[i]], t = <<>>
                   PROVE  s = <<>>
        OBVIOUS
      <4>1. DOMAIN s = {}
        BY NoEntry
      <4>2. s \in [1..0 -> {}]
        BY <4>1
      <4>3. s \in Seq({}) /\ Len(s) = 0
        BY <4>2
      <4> QED  BY <4>3
    <3>3. /\ (p.terms = <<>> /\ DOMAIN p.terms = {}) \/ (p.terms # <<>> /\ DOMAIN p.terms = {1})
          /\ (p.dateHistogram = <<>> /\ DOMAIN p.dateHistogram = {})
             \/ (p.dateHistogram # <<>> /\ DOMAIN p.dateHistogram = {1})
      <4> DEFINE t == p.terms  h == p.dateHistogram
                 T == [field : STRING, size : AtMostOne(Int)]
                 H == [field : STRING, digits : STRING, unit : IntervalUnits]
      <4>1. t \in AtMostOne(T) /\ h \in AtMostOne(H)
        BY DEF SearchParams
      <4> HIDE DEF t, h, T, H
      <4>2. (t = <<>> /\ DOMAIN t = {}) \/ (t # <<>> /\ DOMAIN t = {1})
        BY <4>1, OnceAtMost
      <4>3. (h = <<>> /\ DOMAIN h = {}) \/ (h # <<>> /\ DOMAIN h = {1})
        BY <4>1, OnceAtMost
      <4> QED  BY <4>2, <4>3 DEF t, h
    <3> HIDE DEF aggs
    <3> QED  BY <3>1, <3>2, <3>3, NoEntry
  <2>4. Grouped(aggs) <=> bucketed(p)
    BY <2>3 DEF Grouped, bucketed
  <2>5. \A b : B(b).keyAsString # <<>> => p.dateHistogram # <<>>
    BY <2>3 DEF Bucket
  <2>6. \A b : bucketKey(p, B(b)) = IF B(b).keyAsString # <<>> THEN B(b).keyAsString[1] ELSE B(b).key
    BY <2>5 DEF bucketKey
  <2> HIDE DEF B, aggs
  <2>7. CASE bucketed(p)
    <3> DEFINE buckets == [b \in 1..n |-> B(b)]
               Row(b) == <<Pair(<<"key">>, bucketKey(p, B(b))),
                           Pair(<<"doc_count">>, B(b).docCount)>> \o MetricPairs(p, B(b))
    <3>1. a.present /\ a.buckets = buckets /\ a.top = <<>>
      BY <1>2, <2>4, <2>7 DEF AggAnswer, B
    <3>2. buckets \in Seq({B(b) : b \in 1..n}) /\ Len(buckets) = n
      OBVIOUS
    <3>3. truth = buckets
      <4> HIDE DEF buckets
      <4>1. buckets \o <<>> = buckets
        BY <3>2, NothingJoined
      <4> QED  BY <3>1, <4>1
    <3>4. rows = [b \in DOMAIN buckets |->
                    <<Pair(<<"key">>, bucketKey(p, buckets[b])),
                      Pair(<<"doc_count">>, buckets[b].docCount)>> \o MetricPairs(p, buckets[b])]
      BY <2>7, <3>1 DEF structuredAggRows
    <3>5. rows = [b \in 1..n |-> Row(b)]
      BY <3>4
    <3>6. ASSUME NEW b \in 1..n PROVE ShowsBucket(p, Row(b), B(b))
      <4> DEFINE x == Pair(<<"key">>, bucketKey(p, B(b)))
                 y == Pair(<<"doc_count">>, B(b).docCount)
                 cells == MetricPairs(p, B(b))
                 row == <<x, y>> \o cells
      <4>1. /\ cells \in Seq(Range(cells)) /\ Len(cells) = k
            /\ \A i \in 1..k : /\ cells[i].value = B(b).metrics[parsedMetrics(p)[i].name]
                               /\ cells[i].column = parsedMetrics(p)[i].name
        BY <2>2, MetricCells
      <4>2. x.value = (IF B(b).keyAsString # <<>> THEN B(b).keyAsString[1] ELSE B(b).key)
            /\ y.value = B(b).docCount
        BY <2>6 DEF Pair
      <4> HIDE DEF x, y, cells
      <4> DEFINE S == Range(cells)
      <4>3. /\ row[1] = x /\ row[2] = y /\ Len(row) = 2 + Len(cells)
            /\ \A i \in 1..Len(cells) : row[2 + i] = cells[i]
        <5>1. cells \in Seq(S)
          BY <4>1
        <5> HIDE DEF S
        <5> QED  BY <5>1, BucketRow
      <4>4. Row(b) = row
        BY DEF x, y, cells
      <4> HIDE DEF row, Row, k
      <4>5. Len(row) = 2 + k /\ row[1].value = x.value /\ row[2].value = y.value
            /\ \A i \in 1..k : /\ row[2 + i].value = B(b).metrics[parsedMetrics(p)[i].name]
                               /\ row[2 + i].column = parsedMetrics(p)[i].name
        BY <4>1, <4>3
      <4>6. ShowsBucket(p, row, B(b))
        BY <2>7, <4>2, <4>5 DEF ShowsBucket, k
      <4> QED  BY <4>4, <4>6
    <3> HIDE DEF Row, rows, truth
    <3>7. rows \in Seq({Row(b) : b \in 1..n}) /\ Len(rows) = n /\ DOMAIN rows = 1..n
      BY <3>5
    <3>8. \A b \in 1..n : rows[b] = Row(b) /\ truth[b] = B(b)
      BY <3>3, <3>5
    <3>9. Len(truth) = n
      BY <3>2, <3>3
    <3> QED  BY <3>6, <3>7, <3>8, <3>9 DEF rows, truth
  <2>8. CASE ~bucketed(p)
    <3> DEFINE cells == MetricPairs(p, B(0))
    <3>1. a.present /\ a.buckets = <<>> /\ a.top = <<B(0)>>
      BY <1>2, <2>4, <2>8 DEF AggAnswer, B
    <3>2. a.top[1] = B(0)
      BY <3>1
    <3>3. rows = <<cells>>
      BY <2>8, <3>1, <3>2 DEF structuredAggRows
    <3>4. truth = <<B(0)>>
      <4> DEFINE s == <<B(0)>>
      <4>1. s \in Seq({B(0)})
        OBVIOUS
      <4> HIDE DEF s
      <4>2. <<>> \o s = s
        BY <4>1, NothingJoined
      <4> QED  BY <3>1, <4>2 DEF s
    <3>5. /\ cells \in Seq(Range(cells)) /\ Len(cells) = k
          /\ \A i \in 1..k : /\ cells[i].value = B(0).metrics[parsedMetrics(p)[i].name]
                             /\ cells[i].column = parsedMetrics(p)[i].name
      BY <2>2, MetricCells
    <3> HIDE DEF cells, rows, truth
    <3>6. ShowsBucket(p, cells, B(0))
      <4> HIDE DEF k
      <4>1. Len(cells) = 1 - 1 + k /\ \A i \in 1..k :
               /\ cells[1 - 1 + i].value = B(0).metrics[parsedMetrics(p)[i].name]
               /\ cells[1 - 1 + i].column = parsedMetrics(p)[i].name
        BY <2>1, <3>5
      <4> QED  BY <2>8, <4>1 DEF ShowsBucket, k
    <3>7. DOMAIN rows = {1} /\ rows[1] = cells /\ truth[1] = B(0) /\ Len(rows) = 1 /\ Len(truth) = 1
      BY <3>3, <3>4, OneEntry
    <3>8. 1..1 = {1}
      OBVIOUS
    <3> QED  BY <3>6, <3>7, <3>8 DEF rows, truth
  <2> QED  BY <2>7, <2>8
<1> QED  BY <1>1, <1>2

\* All that a search that shows rows of an aggregation has gone through.
LEMMA RowsShown ==
  ASSUME CommandInv, AnswerInv, printed.kind = "aggregations"
  PROVE  LET p == inv.flags
         IN  /\ p \in SearchParams /\ \A i \in DOMAIN p.metrics : validMetric(p.metrics[i])
             /\ printed.rows = structuredAggRows(p, answer.aggs)
             /\ printed.headers = IF Format = "table" THEN headers(p) ELSE <<>>
             /\ request[1].body[1].aggs = buildAggs(p)
             /\ \E n \in Nat : \E lacking, plain :
                   \/ answer.aggs = AggAnswer(buildAggs(p), n, lacking, plain)
                   \/ answer.aggs = NoAggregations
<1> DEFINE p == inv.flags
<1>1. printed # Nowhere /\ printed = Output /\ todo = <<>> /\ inv.command \in CommandNames
  BY Commanded DEF CommandInv, ExitInv, Nowhere
<1>2. inv.command = "search" /\ hasStructuredAggregation(p) /\ Format # "json"
  BY <1>1 DEF Output, Nowhere, CommandNames
<1>3. printed.rows = structuredAggRows(p, answer.aggs)
      /\ printed.headers = IF Format = "table" THEN headers(p) ELSE <<>>
  BY <1>1, <1>2 DEF Output
<1>4. p \in SearchParams
  BY DEF CommandInv, Invocation
<1>5. Behind("receive") /\ Behind("send") /\ Behind("flags")
  BY <1>1, <1>2, BehindEnd, StepsOrder
<1>6. \A i \in DOMAIN p.metrics : validMetric(p.metrics[i])
  <2>1. FlagsOK
    BY <1>5 DEF CommandInv, CallsInv
  <2>2. validateAggregation(p)
    BY <1>2, <2>1 DEF FlagsOK, validate
  <2> HIDE DEF p
  <2> QED  BY <1>2, <2>2 DEF validateAggregation
<1>7. request[1].body[1].aggs = buildAggs(p)
  <2>1. request # <<>> /\ request[1] = Request
    BY <1>5, RequestBehind
  <2>2. Request.body = <<buildBody(p)>>
    BY <1>2 DEF Request
  <2>3. <<buildBody(p)>>[1] = buildBody(p)
    BY OneEntry
  <2>4. buildBody(p).aggs = buildAggs(p)
    BY DEF buildBody
  <2> QED  BY <2>1, <2>2, <2>3, <2>4, Zenon
<1>8. \E n \in Nat : \E lacking, plain :
         \/ answer.aggs = AggAnswer(buildAggs(p), n, lacking, plain)
         \/ answer.aggs = NoAggregations
  <2> DEFINE aggs == buildAggs(p)
             Given(n, lacking, plain) == [kind |-> "aggregations", aggs |-> AggAnswer(aggs, n, lacking, plain)]
             None == [kind |-> "aggregations", aggs |-> NoAggregations]
             Garbled == [kind |-> "unreadable"]
  <2>1. IsAnswer(answer)
    BY <1>5 DEF AnswerInv
  <2>2. \/ \E n \in 0..MaxBuckets, lacking \in SUBSET Range(aggs.metrics), plain \in BOOLEAN :
              answer = Given(n, lacking, plain)
        \/ answer = None
    <3>1. answer # Garbled
      BY <1>1, <1>2 DEF CommandInv, ExitInv, Readable
    <3>2. \/ \E n \in 0..MaxBuckets, lacking \in SUBSET Range(aggs.metrics), plain \in BOOLEAN :
                answer = Given(n, lacking, plain)
          \/ answer = None
          \/ answer = Garbled
      BY <1>2, <2>1 DEF IsAnswer
    <3> HIDE DEF Given, None, aggs, Garbled
    <3> QED  BY <3>1, <3>2
  <2>3. \A n, lacking, plain : Given(n, lacking, plain).aggs = AggAnswer(aggs, n, lacking, plain)
    OBVIOUS
  <2>4. None.aggs = NoAggregations
    OBVIOUS
  <2> HIDE DEF Given, None, aggs
  <2>5. CASE answer = None
    <3>1. 0 \in Nat
      OBVIOUS
    <3> QED  BY <2>4, <2>5, <3>1 DEF aggs
  <2>6. CASE \E n \in 0..MaxBuckets, lacking \in SUBSET Range(aggs.metrics), plain \in BOOLEAN :
                answer = Given(n, lacking, plain)
    <3>1. PICK n \in 0..MaxBuckets : \E lacking, plain : answer = Given(n, lacking, plain)
      BY <2>6
    <3>2. PICK lacking, plain : answer = Given(n, lacking, plain)
      BY <3>1
    <3>3. n \in Nat /\ answer.aggs = AggAnswer(aggs, n, lacking, plain)
      BY <2>3, <3>2
    <3> QED  BY <3>3 DEF aggs
  <2> QED  BY <2>2, <2>5, <2>6
<1> QED  BY <1>3, <1>4, <1>6, <1>7, <1>8

\* For all flags and answers: each --metric and --cardinality, repeated or not,
\* has one column, which shows what that operation yields in each bucket, and
\* each bucket one row.
THEOREM ColumnsAreTheFlags == Spec => []EachFlagHasItsColumn
<1>1. CommandInv /\ AnswerInv => EachFlagHasItsColumn
  <2> SUFFICES ASSUME CommandInv, AnswerInv, printed.kind = "aggregations"
               PROVE  EachFlagHasItsColumn
    BY DEF EachFlagHasItsColumn
  <2> DEFINE p == inv.flags
             a == answer.aggs
             parsed == parsedMetrics(p)
             k == Len(parsed)
             map == request[1].body[1].aggs.metrics
             asked == AskedBy(p)
             first == IF bucketed(p) THEN 3 ELSE 1
             truth == a.buckets \o a.top
             rows == printed.rows
             names(m) == {n \in DOMAIN map : map[n] = [op |-> m[1], field |-> m[2]]}
             Of(b, m) == {truth[b].metrics[name] : name \in names(m)}
             heads == printed.headers
             Labels(c) == {rows[b][c].column : b \in DOMAIN rows}
                          \cup {heads[i] : i \in DOMAIN heads \cap {c}}
             f == [i \in 1..k |-> <<parsed[i].op, parsed[i].field>>]
  <2>1. /\ p \in SearchParams /\ \A i \in DOMAIN p.metrics : validMetric(p.metrics[i])
        /\ rows = structuredAggRows(p, a)
        /\ heads = IF Format = "table" THEN headers(p) ELSE <<>>
        /\ request[1].body[1].aggs = buildAggs(p)
        /\ \E n \in Nat : \E lacking, plain :
              a = AggAnswer(buildAggs(p), n, lacking, plain) \/ a = NoAggregations
    BY RowsShown
  <2>2. map = metricAggMap(p)
    BY <2>1 DEF buildAggs
  <2>3. /\ Len(rows) = Len(truth) /\ DOMAIN rows = 1..Len(truth)
        /\ \A b \in DOMAIN rows : ShowsBucket(p, rows[b], truth[b])
    <3>1. PICK n \in Nat : \E lacking, plain :
             a = AggAnswer(buildAggs(p), n, lacking, plain) \/ a = NoAggregations
      BY <2>1
    <3>2. PICK lacking, plain : a = AggAnswer(buildAggs(p), n, lacking, plain) \/ a = NoAggregations
      BY <3>1
    <3> DEFINE shown == structuredAggRows(p, a)
    <3>3. p \in SearchParams /\ rows = shown
      BY <2>1
    <3>4. /\ Len(shown) = Len(truth) /\ DOMAIN shown = 1..Len(truth)
          /\ \A b \in DOMAIN shown : ShowsBucket(p, shown[b], truth[b])
      <4> HIDE DEF p, a
      <4> QED  BY <3>2, <3>3, RowsOfAnswer
    <3> HIDE DEF shown, rows
    <3> QED  BY <3>3, <3>4
  <2>4. k \in Nat
    BY <2>1, ParsedOnce
  <2>5. /\ f \in [1..k -> asked]
        /\ \A i, j \in 1..k : f[i] = f[j] => i = j
        /\ \A m \in asked : \E i \in 1..k : f[i] = m
    BY <2>1, ColumnsAreAsked
  <2>6. \A i \in 1..k : f[i] = <<parsed[i].op, parsed[i].field>>
    OBVIOUS
  <2>7. first \in Nat
    OBVIOUS
  <2>8. Cardinality(asked) = k /\ PlacedFrom(first, k, asked, f)
    <3> HIDE DEF f, asked, first, k
    <3> QED  BY <2>4, <2>5, <2>7, PlacesOfEntries
  <2>10. PICK column \in Bijection(asked, first..(first - 1 + k)) :
            \A i \in 1..k : column[f[i]] = first - 1 + i
    BY <2>8 DEF PlacedFrom
  <2>11. \A i \in 1..k : {n \in DOMAIN map : map[n] = [op |-> parsed[i].op, field |-> parsed[i].field]}
                            = {parsed[i].name}
    <3> DEFINE made == metricAggMap(p)
    <3>1. \A i \in 1..k : {n \in DOMAIN made : made[n] = [op |-> parsed[i].op, field |-> parsed[i].field]}
                            = {parsed[i].name}
      BY <2>1, AskedOnce
    <3>2. map = made
      BY <2>2
    <3> HIDE DEF made, map, parsed, k
    <3> QED  BY <3>1, <3>2
  <2>9. /\ Format = "table" => Len(heads) = first - 1 + k
        /\ \A i \in 1..k : first - 1 + i \in DOMAIN heads => heads[first - 1 + i] = parsed[i].name
    <3>1. CASE Format = "table"
      <4> DEFINE h == headers(p)
      <4>1. Len(h) = first - 1 + k /\ \A i \in 1..k : h[first - 1 + i] = parsed[i].name
        BY <2>1, HeadersNamed
      <4>2. heads = h
        BY <2>1, <3>1
      <4> HIDE DEF h, heads, parsed, k, first
      <4> QED  BY <4>1, <4>2
    <3>2. CASE Format # "table"
      <4>1. heads = <<>> /\ DOMAIN heads = {}
        BY <2>1, <3>2, NoEntry
      <4> QED  BY <3>2, <4>1
    <3> QED  BY <3>1, <3>2
  <2> HIDE DEF f, asked, map
  <2>12. ASSUME NEW m \in asked
         PROVE  /\ \A b \in DOMAIN rows : Of(b, m) = {rows[b][column[m]].value}
                /\ Labels(column[m]) \subseteq names(m)
    <3>1. PICK i \in 1..k : f[i] = m
      BY <2>5
    <3>2. m[1] = parsed[i].op /\ m[2] = parsed[i].field
      <4> DEFINE x == parsed[i].op  y == parsed[i].field  z == <<x, y>>
      <4>1. z[1] = x /\ z[2] = y /\ m = z
        BY <2>6, <3>1
      <4> HIDE DEF z
      <4> QED  BY <4>1
    <3>3. names(m) = {parsed[i].name}
      <4> HIDE DEF parsed
      <4> QED  BY <2>11, <3>1, <3>2
    <3>4. column[m] = first - 1 + i
      BY <2>10, <3>1
    <3>5. ASSUME NEW b \in DOMAIN rows
          PROVE  /\ rows[b][first - 1 + i].value = truth[b].metrics[parsed[i].name]
                 /\ rows[b][first - 1 + i].column = parsed[i].name
      <4>1. ShowsBucket(p, rows[b], truth[b])
        BY <2>3
      <4> HIDE DEF rows, truth, p
      <4>2. \A j \in 1..Len(parsedMetrics(p)) :
               /\ rows[b][(IF bucketed(p) THEN 3 ELSE 1) - 1 + j].value
                    = truth[b].metrics[parsedMetrics(p)[j].name]
               /\ rows[b][(IF bucketed(p) THEN 3 ELSE 1) - 1 + j].column = parsedMetrics(p)[j].name
        BY <4>1 DEF ShowsBucket
      <4> QED  BY <3>1, <4>2
    <3> HIDE DEF names, truth, parsed, first, rows, heads, k
    <3>6. \A b \in DOMAIN rows : Of(b, m) = {rows[b][column[m]].value}
      BY <3>3, <3>4, <3>5
    <3>7. Labels(column[m]) \subseteq names(m)
      BY <2>9, <3>1, <3>3, <3>4, <3>5
    <3> QED  BY <3>6, <3>7
  <2>13. ASSUME NEW b \in DOMAIN rows
         PROVE  /\ Len(rows[b]) = first - 1 + Cardinality(asked)
                /\ bucketed(p) =>
                      /\ rows[b][1].value = IF truth[b].keyAsString # <<>> THEN truth[b].keyAsString[1]
                                                                           ELSE truth[b].key
                      /\ rows[b][2].value = truth[b].docCount
    <3>1. ShowsBucket(p, rows[b], truth[b])
      BY <2>3
    <3> HIDE DEF rows, truth, p
    <3> QED  BY <2>8, <3>1 DEF ShowsBucket
  <2>14. \E col \in Bijection(asked, first..(first - 1 + Cardinality(asked))) :
            \A m \in asked :
               /\ Labels(col[m]) \subseteq names(m)
               /\ \A b \in DOMAIN rows : Of(b, m) = {rows[b][col[m]].value}
    <3> HIDE DEF Of, Labels, names, rows, first
    <3> QED  BY <2>8, <2>10, <2>12
  <2>15. Format = "table" => Len(heads) = first - 1 + Cardinality(asked)
    BY <2>8, <2>9
  <2> QED
    <3> USE DEF map
    <3> QED  BY <2>3, <2>13, <2>14, <2>15 DEF EachFlagHasItsColumn, AskedBy, asked
<1> QED  BY <1>1, CommandInductive, AnswerInductive, PTL

-----------------------------------------------------------------------------
(***************************************************************************)
(* Secrets: what is masked is the password and nothing else.               *)
(***************************************************************************)
\* The pieces of a configuration, and the mask: that "***" is a string is for
\* no prover here to see.
Piece == (STRING \X STRING) \cup {<<"mask", "***">>}

Written == {piece \in Piece : piece[1] = "text"}

\* One set serves for the text of all texts.
LEMMA TextFiltered ==
  ASSUME NEW text \in Seq(Piece)
  PROVE  TextOf(text) = Filtered(text, Written)
<1> DEFINE W == {piece \in Range(text) : piece[1] = "text"}
<1>1. \A i \in 1..Len(text) : text[i] \in Piece /\ text[i] \in Range(text)
  BY DEF Range
<1>2. \A i \in 1..Len(text) : text[i] \in W <=> text[i] \in Written
  BY <1>1 DEF Written
<1> HIDE DEF W
<1>3. Filtered(text, W) = Filtered(text, Written)
  BY <1>2, FilteredSame
<1> QED  BY <1>3 DEF TextOf, W

\* What nothing written is in has no text.
LEMMA NothingWritten ==
  ASSUME NEW text \in Seq(Piece), \A i \in 1..Len(text) : text[i][1] # "text"
  PROVE  Filtered(text, Written) = <<>>
<1>1. \A i \in 1..Len(text) : text[i] \in Written <=> text[i] \in {}
  BY DEF Written
<1>2. Filtered(text, Written) = Filtered(text, {})
  BY <1>1, FilteredSame
<1> QED  BY <1>2, FilteredNone

\* A member of a set that no other is below, and one that no other is above.
LEMMA LeastIs ==
  ASSUME NEW S \in SUBSET Nat, NEW x \in S, \A y \in S : x <= y
  PROVE  Min(S) = x
<1>1. Min(S) \in S /\ \A y \in S : Min(S) <= y
  BY LeastOf
<1>2. x \in Nat /\ Min(S) \in Nat /\ x <= Min(S) /\ Min(S) <= x
  BY <1>1
<1> QED  BY <1>2

LEMMA GreatestIs ==
  ASSUME NEW S \in SUBSET Nat, NEW x \in S, \A y \in S : y <= x
  PROVE  Max(S) = x
<1> DEFINE m == Max(S)
<1>1. m = CHOOSE z \in S : \A y \in S : z >= y
  BY DEF Max
<1>2. \A y \in S : x >= y
  OBVIOUS
<1>3. m \in S /\ \A y \in S : m >= y
  BY <1>1, <1>2
<1> HIDE DEF m
<1>4. m \in Nat /\ x \in Nat /\ m >= x /\ m <= x
  BY <1>3
<1> QED  BY <1>4 DEF m

\* A sequence in three parts.
LEMMA ThreeParts ==
  ASSUME NEW S, NEW s \in Seq(S), NEW c \in 1..Len(s), NEW u \in (c + 1)..Len(s)
  PROVE  s = SubSeq(s, 1, c) \o SubSeq(s, c + 1, u - 1) \o SubSeq(s, u, Len(s))
  OBVIOUS

\* Two public texts, one after the other.
LEMMA PublicJoined ==
  ASSUME NEW s \in Seq(Piece), NEW t \in Seq(Piece), Public(s), Public(t)
  PROVE  s \o t \in Seq(Piece) /\ Public(s \o t)
  BY DEF Public

\* The text of two texts, one after the other.
LEMMA WrittenJoined ==
  \A s, t \in Seq(Piece) : /\ s \o t \in Seq(Piece)
                            /\ Filtered(s \o t, Written) = Filtered(s, Written) \o Filtered(t, Written)
<1>1. \A s, t \in Seq(Piece) : Filtered(s \o t, Written) = Filtered(s, Written) \o Filtered(t, Written)
  BY FilteredJoined
<1>2. \A s, t \in Seq(Piece) : s \o t \in Seq(Piece)
  OBVIOUS
<1> QED  BY <1>1, <1>2, Zenon

\* The mask is one piece.
LEMMA MaskIsPublic ==
  Mask \in Seq(Piece) /\ Len(Mask) = 1 /\ DOMAIN Mask = 1..1 /\ Mask[1][1] = "mask"
<1> DEFINE star == <<"mask", "***">>
<1>1. star \in Piece /\ star[1] = "mask"
  BY DEF Piece
<1> HIDE DEF star
<1>2. Mask = <<star>>
  BY DEF Mask, star
<1> QED  BY <1>1, <1>2

\* A stretch with nothing written in it and all of the secrets, masked.
LEMMA MaskedBetween ==
  ASSUME NEW text \in Seq(Piece), NEW c \in 1..Len(text), NEW u \in (c + 1)..Len(text),
         \A i \in DOMAIN text : IF i \in (c + 1)..(u - 1) THEN text[i][1] # "text"
                                                          ELSE text[i][1] # "secret"
  PROVE  LET shown == SubSeq(text, 1, c) \o Mask \o SubSeq(text, u, Len(text))
         IN  Public(shown) /\ TextOf(shown) = TextOf(text)
<1> DEFINE n == Len(text)
           a == SubSeq(text, 1, c)
           b == SubSeq(text, c + 1, u - 1)
           d == SubSeq(text, u, n)
           M == Mask
<1>1. n \in Nat /\ c \in Nat /\ u \in Nat /\ 1 <= c /\ c + 1 <= u /\ u <= n
  OBVIOUS
<1>2. text \in [1..n -> Piece] /\ DOMAIN text = 1..n
  OBVIOUS
<1>3. a \in Seq(Piece) /\ Len(a) = c /\ DOMAIN a = 1..c /\ \A i \in 1..c : a[i] = text[i]
  BY <1>1
<1>4. /\ b \in Seq(Piece) /\ Len(b) = (u - 1) - c
      /\ \A i \in 1..((u - 1) - c) : b[i] = text[c + i]
  BY <1>1
<1>5. /\ d \in Seq(Piece) /\ DOMAIN d = 1..((n - u) + 1)
      /\ \A i \in 1..((n - u) + 1) : d[i] = text[(u - 1) + i]
  BY <1>1
<1>6. M \in Seq(Piece) /\ Len(M) = 1 /\ DOMAIN M = 1..1 /\ M[1][1] = "mask"
  BY MaskIsPublic
<1>7. text = a \o b \o d
  BY ThreeParts
<1> HIDE DEF n, a, b, d, M
<1>8. Public(a \o M \o d) /\ a \o M \o d \in Seq(Piece)
  <2>1. Public(a)
    <3> SUFFICES ASSUME NEW i \in DOMAIN a PROVE a[i][1] # "secret"
      BY DEF Public
    <3>1. i \in 1..c /\ i \in 1..n /\ i \notin (c + 1)..(u - 1)
      BY <1>1, <1>3
    <3> QED  BY <1>2, <1>3, <3>1
  <2>2. Public(d)
    <3> SUFFICES ASSUME NEW i \in DOMAIN d PROVE d[i][1] # "secret"
      BY DEF Public
    <3>1. i \in 1..((n - u) + 1)
      BY <1>5
    <3>2. (u - 1) + i \in 1..n /\ (u - 1) + i \notin (c + 1)..(u - 1)
      BY <1>1, <3>1
    <3> QED  BY <1>2, <1>5, <3>1, <3>2
  <2>3. Public(M)
    <3> SUFFICES ASSUME NEW i \in DOMAIN M PROVE M[i][1] # "secret"
      BY DEF Public
    <3>1. i = 1
      BY <1>6
    <3> QED  BY <1>6, <3>1
  <2>4. a \o M \in Seq(Piece) /\ Public(a \o M)
    BY <1>3, <1>6, <2>1, <2>3, PublicJoined, Zenon
  <2> QED  BY <1>5, <2>2, <2>4, PublicJoined, Zenon
<1>9. Filtered(b, Written) = <<>>
  <2>1. ASSUME NEW i \in 1..Len(b) PROVE b[i][1] # "text"
    <3>1. i \in 1..((u - 1) - c)
      BY <1>4
    <3>2. c + i \in 1..n /\ c + i \in (c + 1)..(u - 1)
      BY <1>1, <3>1
    <3> QED  BY <1>2, <1>4, <3>1, <3>2
  <2> QED  BY <1>4, <2>1, NothingWritten
<1>10. Filtered(M, Written) = <<>>
  <2>1. \A i \in 1..Len(M) : M[i][1] # "text"
    <3>1. \A i \in 1..1 : i = 1
      OBVIOUS
    <3> QED  BY <1>6, <3>1
  <2> QED  BY <1>6, <2>1, NothingWritten
<1>11. Filtered(a \o M \o d, Written) = Filtered(a \o b \o d, Written)
  <2>1. /\ a \o b \in Seq(Piece)
        /\ Filtered(a \o b, Written) = Filtered(a, Written) \o Filtered(b, Written)
    BY <1>3, <1>4, WrittenJoined, Zenon
  <2>2. /\ a \o M \in Seq(Piece)
        /\ Filtered(a \o M, Written) = Filtered(a, Written) \o Filtered(M, Written)
    BY <1>3, <1>6, WrittenJoined, Zenon
  <2>3. Filtered(a \o b \o d, Written) = Filtered(a \o b, Written) \o Filtered(d, Written)
    BY <1>5, <2>1, WrittenJoined, Zenon
  <2>4. Filtered(a \o M \o d, Written) = Filtered(a \o M, Written) \o Filtered(d, Written)
    BY <1>5, <2>2, WrittenJoined, Zenon
  <2> QED  BY <1>9, <1>10, <2>1, <2>2, <2>3, <2>4, Zenon
<1> QED
  <2>1. TextOf(a \o M \o d) = TextOf(text)
    BY <1>7, <1>8, <1>11, TextFiltered, Zenon
  <2> QED  BY <1>8, <2>1, Zenon DEF a, d, M, n

\* The authority of a server, as it is found, is the one it has.
LEMMA AuthorityOf ==
  ASSUME NEW server \in Seq(Piece), NEW s \in 0..Len(server), NEW h \in s..Len(server),
         Places(server, {"://"}) \cap 1..h = {s} \ {0},
         s = 0 => Places(server, {"://"}) = {},
         Places(server, PathMarks) \cap (s + 1)..h = {},
         h < Len(server) => h + 1 \in Places(server, PathMarks)
  PROVE  Authority(server) = (s + 1)..h
<1> DEFINE n == Len(server)
           scheme == Places(server, {"://"})
           marks  == Places(server, PathMarks)
           both   == Places(server, PathMarks \cup {"://"})
           start  == IF scheme = {} THEN 0 ELSE Min(scheme)
           ends   == {i \in both : i > start}
           end    == IF ends = {} THEN n ELSE Min(ends) - 1
<1>1. both = marks \cup scheme
  BY DEF Places
<1>2. n \in Nat /\ s \in 0..n /\ h \in s..n /\ scheme \subseteq 1..n /\ marks \subseteq 1..n
  BY DEF Places
<1>3. Authority(server) = (start + 1)..end
  BY DEF Authority
<1>4. /\ scheme \cap 1..h = {s} \ {0} /\ (s = 0 => scheme = {})
      /\ marks \cap (s + 1)..h = {} /\ (h < n => h + 1 \in marks)
  OBVIOUS
<1> HIDE DEF n, scheme, marks, both
<1>5. start = s
  <2>1. CASE s = 0
    BY <1>4, <2>1
  <2>2. CASE s # 0
    <3>1. s \in scheme /\ scheme \in SUBSET Nat
      BY <1>2, <1>4, <2>2
    <3>2. ASSUME NEW y \in scheme PROVE s <= y
      <4>1. y \in 1..n /\ (y \in 1..h => y = s)
        BY <1>2, <1>4
      <4> QED  BY <1>2, <4>1
    <3>3. Min(scheme) = s
      BY <3>1, <3>2, LeastIs
    <3> QED  BY <3>1, <3>3
  <2> QED  BY <2>1, <2>2
<1> HIDE DEF start
<1>6. ends \in SUBSET Nat /\ \A i \in ends : i \in 1..n /\ h + 1 <= i
  <2> SUFFICES ASSUME NEW i \in both, i > s PROVE i \in 1..n /\ h + 1 <= i
    BY <1>2, <1>5
  <2>1. i \in 1..n
    BY <1>1, <1>2
  <2>2. ~ (i <= h)
    <3> SUFFICES ASSUME i <= h PROVE FALSE
      OBVIOUS
    <3>1. i \in 1..h /\ i \in (s + 1)..h /\ i # s
      BY <1>2, <2>1
    <3> QED  BY <1>1, <1>4, <3>1
  <2> QED  BY <1>2, <2>1, <2>2
<1>7. end = h
  <2>1. CASE h < n
    <3>1. h + 1 \in ends
      BY <1>1, <1>2, <1>4, <1>5, <2>1
    <3> HIDE DEF ends
    <3>2. Min(ends) = h + 1
      BY <1>6, <3>1, LeastIs
    <3> QED  BY <1>2, <3>1, <3>2
  <2>2. CASE ~ (h < n)
    <3>1. h = n
      BY <1>2, <2>2
    <3>2. ends = {}
      <4> HIDE DEF ends
      <4> QED  BY <1>2, <1>6, <3>1
    <3> QED  BY <3>1, <3>2
  <2> QED  BY <2>1, <2>2
<1> QED  BY <1>3, <1>5, <1>7

\* A server is shown without its password and with all that is written in it.
LEMMA RedactedURL ==
  ASSUME NEW server \in Seq(Piece), IsServerURL(server)
  PROVE  Public(RedactServerURL(server)) /\ TextOf(RedactServerURL(server)) = TextOf(server)
<1> DEFINE n == Len(server)
           at == Places(server, {"@"})
           colon == Places(server, {":"})
           Hidden(c, u) == \A i \in DOMAIN server : IF i \in (c + 1)..(u - 1)
                              THEN server[i][1] # "text" ELSE server[i][1] # "secret"
           Password(s, u) == \E c \in colon \cap (s + 1)..(u - 1) :
                                colon \cap (s + 1)..(c - 1) = {} /\ Hidden(c, u)
           None(s, u) == colon \cap (s + 1)..(u - 1) = {} /\ Public(server)
<1>1. \E s \in 0..n, u \in 0..n, h \in 0..n :
         /\ s <= u /\ u <= h
         /\ Authority(server) = (s + 1)..h
         /\ at \cap (u + 1)..h = {} /\ (u > s => u \in at)
         /\ None(s, u) \/ Password(s, u)
  <2> DEFINE Found(s, u, h) ==
               /\ Places(server, {"://"}) \cap 1..h = {s} \ {0}
               /\ s = 0 => Places(server, {"://"}) = {}
               /\ Places(server, PathMarks) \cap (s + 1)..h = {}
               /\ h < n => h + 1 \in Places(server, PathMarks)
             Used(s, u, h) ==
               /\ at \cap (u + 1)..h = {} /\ (u > s => u \in at)
               /\ None(s, u) \/ Password(s, u)
  <2>1. \E s \in 0..n : \E u \in s..n : \E h \in u..n : Found(s, u, h) /\ Used(s, u, h)
    BY Zenon DEF IsServerURL
  <2>2. ASSUME NEW s \in 0..n, NEW u \in s..n, NEW h \in u..n, Found(s, u, h)
        PROVE  /\ s \in 0..n /\ u \in 0..n /\ h \in 0..n /\ s <= u /\ u <= h
               /\ Authority(server) = (s + 1)..h
    <3>1. h \in s..n /\ u \in 0..n /\ h \in 0..n /\ s <= u /\ u <= h
      OBVIOUS
    <3> QED  BY <2>2, <3>1, AuthorityOf
  <2> HIDE DEF Found, n
  <2> QED  BY <2>1, <2>2
<1>2. PICK s \in 0..n, u \in 0..n, h \in 0..n :
         /\ s <= u /\ u <= h
         /\ Authority(server) = (s + 1)..h
         /\ at \cap (u + 1)..h = {} /\ (u > s => u \in at)
         /\ None(s, u) \/ Password(s, u)
  <2> HIDE DEF None, Password, at, n
  <2> QED  BY <1>1
<1>3. n \in Nat /\ s \in Nat /\ u \in Nat /\ h \in Nat /\ s <= u /\ u <= h /\ h <= n
  BY <1>2
<1>4. at \subseteq 1..n /\ colon \subseteq 1..n
  BY DEF Places
<1> DEFINE ats == at \cap Authority(server)
           colons == {i \in colon \cap Authority(server) : i < u}
<1>5. RedactServerURL(server) = IF ats = {} THEN server ELSE MaskBefore(server, Max(ats))
  BY DEF RedactServerURL
<1>6. MaskBefore(server, u) =
         IF colons = {} THEN server
         ELSE SubSeq(server, 1, Min(colons)) \o Mask \o SubSeq(server, u, n)
  BY DEF MaskBefore
<1>7. ASSUME Public(server), RedactServerURL(server) = server
      PROVE  Public(RedactServerURL(server)) /\ TextOf(RedactServerURL(server)) = TextOf(server)
  BY <1>7
<1> HIDE DEF n, at, colon
<1>8. CASE u = s
  <2>1. ats = {}
    BY <1>2, <1>8
  <2>2. (s + 1)..(u - 1) = {}
    BY <1>3, <1>8
  <2>3. Public(server)
    BY <1>2, <2>2
  <2> QED  BY <1>5, <1>7, <2>1, <2>3
<1>9. CASE u # s
  <2>1. Max(ats) = u /\ ats # {}
    <3>1. u \in ats /\ ats \in SUBSET Nat
      BY <1>2, <1>3, <1>4, <1>9
    <3>2. ASSUME NEW i \in ats PROVE i <= u
      <4>1. i \in Nat /\ i <= h /\ i \notin (u + 1)..h
        BY <1>2, <1>3
      <4> QED  BY <1>3, <4>1
    <3> HIDE DEF ats
    <3> QED  BY <3>1, <3>2, GreatestIs
  <2>2. colons = colon \cap (s + 1)..(u - 1)
    <3>1. \A i \in Nat : i \in (s + 1)..h /\ i < u <=> i \in (s + 1)..(u - 1)
      BY <1>3
    <3> QED  BY <1>2, <1>4, <3>1
  <2>3. CASE None(s, u)
    <3>1. colons = {} /\ Public(server)
      BY <2>2, <2>3
    <3> QED  BY <1>5, <1>6, <1>7, <2>1, <3>1
  <2>4. CASE Password(s, u)
    <3>1. PICK c \in colon \cap (s + 1)..(u - 1) :
             colon \cap (s + 1)..(c - 1) = {} /\ Hidden(c, u)
      <4> HIDE DEF Hidden
      <4> QED  BY <2>4
    <3>2. Min(colons) = c /\ colons # {}
      <4>1. c \in colons /\ colons \in SUBSET Nat
        BY <1>3, <1>4, <2>2
      <4>2. ASSUME NEW i \in colons PROVE c <= i
        <5>1. i \in (s + 1)..(u - 1) /\ i \notin (s + 1)..(c - 1) /\ c \in (s + 1)..(u - 1)
          BY <2>2, <3>1
        <5> QED  BY <1>3, <5>1
      <4> HIDE DEF colons
      <4> QED  BY <4>1, <4>2, LeastIs
    <3>3. RedactServerURL(server) = SubSeq(server, 1, c) \o Mask \o SubSeq(server, u, n)
      <4> HIDE DEF colons, ats
      <4> QED  BY <1>5, <1>6, <2>1, <3>2
    <3>4. c \in 1..n /\ u \in (c + 1)..n
      BY <1>3, <3>1
    <3> QED  BY <3>1, <3>3, <3>4, MaskedBetween DEF n
  <2> QED  BY <1>2, <2>3, <2>4
<1> QED  BY <1>8, <1>9

\* A text that a server may have, or that it may be expanded to, is one of pieces.
LEMMA TextsOfPieces ==
  /\ \A text \in Texts : text \in Seq(Piece)
  /\ \A value \in Values : value \in Seq(Piece)
<1>1. \A text \in Seq(STRING \X STRING) : text \in Seq(Piece)
  <2> DEFINE S == STRING \X STRING
  <2>1. S \subseteq Piece
    BY DEF Piece
  <2> HIDE DEF S
  <2>2. \A text \in Seq(S) : text \in Seq(Piece)
    BY <2>1, SeqWider
  <2> QED  BY <2>2 DEF S
<1> QED  BY <1>1, Zenon DEF Texts, Values

\* Secrets stand in their places in the files of an invocation.
Placed(i) ==
    \A place \in DOMAIN i.files : \A k \in DOMAIN i.files[place].contexts :
        SecretsInPlace(i.files[place].contexts[k], i.env)

\* In the file that counts, too.
LEMMA PlacedInFile ==
  ASSUME inv \in Invocation, Placed(inv), NEW k \in DOMAIN ConfigFile.contexts
  PROVE  ConfigFile.contexts[k] \in Context /\ SecretsInPlace(ConfigFile.contexts[k], inv.env)
<1>1. ConfigFile.contexts \in Seq(Context)
  BY FileFound
<1>2. PICK place \in Range(ConfigPlaces) \cup {"home"} : ConfigFile = inv.files[place]
  <2>1. {"flag", "ES_LOG_CONFIG", "XDG_CONFIG_HOME"} \subseteq Range(ConfigPlaces)
    <3> DEFINE s == ConfigPlaces
    <3>1. s[1] = "flag" /\ s[2] = "ES_LOG_CONFIG" /\ s[3] = "XDG_CONFIG_HOME" /\ DOMAIN s = 1..3
      BY DEF ConfigPlaces
    <3> HIDE DEF s
    <3> QED  BY <3>1 DEF Range, s
  <2> QED  BY <2>1 DEF ConfigFile
<1>3. place \in DOMAIN inv.files
  BY DEF Invocation
<1>4. SecretsInPlace(ConfigFile.contexts[k], inv.env)
  BY <1>2, <1>3 DEF Placed
<1> QED  BY <1>1, <1>4

\* `config view' shows what was loaded, masked.
LEMMA ViewShown ==
  ASSUME CommandInv, Placed(inv), printed.kind = "view"
  PROVE  /\ DOMAIN printed.contexts = DOMAIN contexts
         /\ \A i \in DOMAIN contexts : /\ printed.contexts[i] = Redact(contexts[i])
                                       /\ contexts[i] \in Context
                                       /\ SecretsInPlace(contexts[i], inv.env)
<1>1. printed # Nowhere /\ printed = Output /\ todo = <<>> /\ inv.command \in CommandNames
  BY Commanded DEF CommandInv, ExitInv, Nowhere
<1>2. inv.command = "view"
  BY <1>1 DEF Output, Nowhere, CommandNames
<1>3. printed = [kind |-> "view", contexts |-> [i \in DOMAIN contexts |-> Redact(contexts[i])]]
  BY <1>1, <1>2 DEF Output
<1>4. "load" \in Calls("view")
  <2> DEFINE s == Steps("view")
  <2>1. s = <<"load", "format", "render">>
    BY DEF Steps
  <2> HIDE DEF s
  <2>2. 1 \in DOMAIN s /\ s[1] = "load"
    BY <2>1
  <2> QED  BY <2>2 DEF Calls, Range, s
<1>5. Behind("load")
  BY <1>1, <1>2, <1>4, BehindEnd
<1>6. inv \in Invocation /\ contexts = ConfigFile.contexts
  BY <1>5 DEF CommandInv, CallsInv
<1> QED  BY <1>3, <1>6, PlacedInFile

\* ping shows the server that it asked, masked.
LEMMA PingShown ==
  ASSUME CommandInv, Placed(inv), printed.kind = "ping"
  PROVE  /\ printed.server = RedactServerURL(request[1].server)
         /\ request[1].server \in Values /\ IsServerURL(request[1].server)
<1>1. printed # Nowhere /\ printed = Output /\ todo = <<>> /\ inv.command \in CommandNames
  BY Commanded DEF CommandInv, ExitInv, Nowhere
<1>2. inv.command = "ping" /\ ~inv.quiet
  BY <1>1 DEF Output, Nowhere, CommandNames
<1>3. printed.server = RedactServerURL(client[1].server)
  BY <1>1, <1>2 DEF Output
<1>4. "send" \in Calls(inv.command)
  BY <1>1, <1>2, StepsOrder
<1>5. request # <<>> /\ request[1] = Request /\ Behind("connect")
  BY <1>1, <1>2, <1>4, BehindEnd, RequestBehind
<1>6. inv \in Invocation /\ contexts = ConfigFile.contexts
  BY <1>5, FileRead
<1>7. Connects /\ client = <<ExpandSecrets(Chosen[1], inv.env)>>
  BY <1>5 DEF CommandInv, CallsInv
<1>8. PICK i \in DOMAIN ConfigFile.contexts : Chosen = <<ConfigFile.contexts[i]>>
  <2>1. Chosen # <<>>
    BY <1>7 DEF Connects
  <2> QED  BY <1>6, <2>1, ChosenIsSelected
<1> DEFINE c == ConfigFile.contexts[i]
<1>9. c \in Context /\ SecretsInPlace(c, inv.env)
  BY <1>6, PlacedInFile
<1>10. Chosen[1] = c
  BY <1>8
<1>11. request[1].server = client[1].server
  BY <1>5 DEF Request
<1>12. client[1].server = expandValue(c.server, inv.env)
  <2>1. ExpandSecrets(c, inv.env).server = expandValue(c.server, inv.env)
    BY <1>9 DEF Context, ExpandSecrets, SecretFields
  <2> DEFINE full == ExpandSecrets(c, inv.env)
  <2>2. client = <<full>>
    BY <1>7, <1>10
  <2> HIDE DEF full
  <2>3. client[1] = full
    BY <2>2
  <2> QED  BY <2>1, <2>3 DEF full
<1>13. UnsetIn(c.server, inv.env) = {}
  BY <1>7, <1>10 DEF Connects, CanExpand, SecretFields
<1>14. c.server \in Texts /\ inv.env \in [Variables -> Values]
  BY <1>6, <1>9 DEF Context, Invocation
<1> HIDE DEF c
<1>15. IsServerURL(expandValue(c.server, inv.env))
  BY <1>9, <1>13 DEF SecretsInPlace
<1> QED  BY <1>3, <1>11, <1>12, <1>14, <1>15, ExpandedText

\* SecretsMasked: neither `config view' nor ping shows a password or a key, and
\* nothing else of a server is lost, whatever is configured, where secrets are
\* kept in the fields that are for them and in the passwords of URLs (config.go:120).
THEOREM SecretsAreMasked ==
  ASSUME \A group \in Invocations : \A i \in group :
            \A place \in DOMAIN i.files : \A k \in DOMAIN i.files[place].contexts :
                SecretsInPlace(i.files[place].contexts[k], i.env)
  PROVE  Spec => []SecretsMasked
<1> DEFINE InPlace == Placed(inv)
<1>1. Init => InPlace
  BY DEF Init, Placed
<1>2. InPlace /\ [Next]_vars => InPlace'
  <2> SUFFICES ASSUME InPlace, [Next]_vars PROVE inv' = inv
    BY DEF Placed
  <2> QED  BY DEF Next, vars, CheckFlags, LoadConfig, ResolveFormat, BuildClient, Checks, Send,
              MappingAnswered, SearchAnswered, VersionAnswered, Answers, RequestFails, Receive,
              ReadIndex, Finishes, Render,
              UnreadableAggregations, WriteFails, LineLost, RequestNotMade, Ended
<1>3. CommandInv /\ InPlace => SecretsMasked
  <2> SUFFICES ASSUME CommandInv, Placed(inv) PROVE SecretsMasked
    OBVIOUS
  <2>1. ASSUME NEW shown \in ServersShown
        PROVE  (\A i \in DOMAIN shown[2] : shown[2][i][1] # "secret") /\ TextOf(shown[2]) = TextOf(shown[1])
    <3>1. \E server \in Seq(Piece) :
             IsServerURL(server) /\ shown = <<server, RedactServerURL(server)>>
      <4>1. CASE printed.kind = "ping"
        <5>1. shown = <<request[1].server, printed.server>>
          BY <2>1, <4>1 DEF ServersShown
        <5>2. request[1].server \in Seq(Piece)
          BY <4>1, PingShown, TextsOfPieces
        <5> QED  BY <4>1, <5>1, <5>2, PingShown
      <4>2. CASE printed.kind = "view"
        <5>1. PICK i \in DOMAIN contexts : shown = <<contexts[i].server, printed.contexts[i].server>>
          BY <2>1, <4>2 DEF ServersShown
        <5>2. /\ contexts[i] \in Context /\ IsServerURL(contexts[i].server)
              /\ printed.contexts[i] = Redact(contexts[i])
          BY <4>2, ViewShown DEF SecretsInPlace
        <5>3. contexts[i].server \in Texts
          BY <5>2 DEF Context
        <5>4. printed.contexts[i].server = RedactServerURL(contexts[i].server)
          BY <5>2 DEF Redact, Context
        <5> QED  BY <5>1, <5>2, <5>3, <5>4, TextsOfPieces
      <4> QED  BY <2>1, <4>1, <4>2 DEF ServersShown
    <3>2. PICK server \in Seq(Piece) :
             IsServerURL(server) /\ shown = <<server, RedactServerURL(server)>>
      BY <3>1
    <3>3. shown[1] = server /\ shown[2] = RedactServerURL(server)
      BY <3>2
    <3>4. Public(shown[2]) /\ TextOf(shown[2]) = TextOf(shown[1])
      BY <3>2, <3>3, RedactedURL
    <3> QED  BY <3>4 DEF Public
  <2>2. ASSUME printed.kind = "view", NEW i \in DOMAIN printed.contexts
        PROVE  LET c == printed.contexts[i]
               IN \A text \in {c.apiKey, c.username, c.password} :
                     \A j \in DOMAIN text : text[j][1] # "secret"
    <3> DEFINE c == printed.contexts[i]
    <3>1. contexts[i] \in Context /\ c = Redact(contexts[i]) /\ Public(contexts[i].username)
      BY <2>2, ViewShown DEF SecretsInPlace
    <3>2. /\ c.apiKey \in {Empty, Mask} /\ c.password \in {Empty, Mask}
          /\ c.username = contexts[i].username
      BY <3>1 DEF Redact, Context
    <3>3. Public(Empty) /\ Public(Mask)
      <4>1. \A j \in 1..1 : j = 1
        OBVIOUS
      <4>2. Public(Mask)
        BY <4>1, MaskIsPublic DEF Public
      <4>3. Public(Empty)
        BY DEF Public, Empty
      <4> QED  BY <4>2, <4>3
    <3> HIDE DEF c
    <3>4. \A text \in {c.apiKey, c.username, c.password} : Public(text)
      BY <3>1, <3>2, <3>3
    <3> QED  BY <3>4 DEF Public, c
  <2> QED  BY <2>1, <2>2 DEF SecretsMasked
<1> QED  BY <1>1, <1>2, <1>3, CommandInductive, PTL DEF Spec
=============================================================================
