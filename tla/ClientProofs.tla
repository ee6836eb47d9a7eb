---------------------------- MODULE ClientProofs ----------------------------
(***************************************************************************)
(* Theorems about Client, for any number of callers and calls and whatever *)
(* the cluster answers.                                                    *)
(***************************************************************************)
EXTENDS Client, SequenceTheorems, TLAPS

-----------------------------------------------------------------------------
(***************************************************************************)
(* Sequences.                                                              *)
(***************************************************************************)
\* What is in a sequence with one element more.
LEMMA AppendRange ==
  ASSUME NEW S, NEW s \in Seq(S), NEW x \in S
  PROVE  Range(Append(s, x)) = Range(s) \cup {x}
<1>1. /\ DOMAIN s = 1..Len(s) /\ DOMAIN Append(s, x) = 1..(Len(s) + 1)
      /\ \A i \in 1..Len(s) : Append(s, x)[i] = s[i]
      /\ Append(s, x)[Len(s) + 1] = x
      /\ Len(s) \in Nat
  BY AppendProperties
<1>2. 1..(Len(s) + 1) = 1..Len(s) \cup {Len(s) + 1}
  BY <1>1
<1> QED  BY <1>1, <1>2 DEF Range

\* A new element leaves a sequence without repetitions.
LEMMA AppendNew ==
  ASSUME NEW S, NEW s \in Seq(S), NEW x \in S, IsInjective(s), x \notin Range(s)
  PROVE  IsInjective(Append(s, x))
<1> DEFINE n == Len(s)  t == Append(s, x)
<1>1. /\ DOMAIN s = 1..n /\ DOMAIN t = 1..(n + 1)
      /\ \A i \in 1..n : t[i] = s[i]
      /\ t[n + 1] = x
      /\ n \in Nat
  BY AppendProperties
<1>2. \A i \in 1..n : s[i] # x
  BY <1>1 DEF Range
<1>3. \A i, j \in 1..n : s[i] = s[j] => i = j
  BY <1>1 DEF IsInjective
<1> HIDE DEF n, t
<1>4. \A i \in 1..(n + 1) : i \in 1..n \/ i = n + 1
  BY <1>1
<1>5. \A i, j \in 1..(n + 1) : t[i] = t[j] => i = j
  BY <1>1, <1>2, <1>3, <1>4
<1>6. IsInjective(t)
  BY <1>1, <1>5 DEF IsInjective
<1> QED  BY <1>6 DEF t

\* What is in a sequence is its head and what is in its tail.
LEMMA HeadTail ==
  ASSUME NEW S, NEW s \in Seq(S), s # <<>>
  PROVE  /\ Head(s) \in S /\ Tail(s) \in Seq(S)
         /\ Range(s) = {Head(s)} \cup Range(Tail(s))
<1>1. /\ Head(s) \in S /\ Tail(s) \in Seq(S) /\ Head(s) = s[1]
      /\ Len(s) \in Nat \ {0} /\ DOMAIN s = 1..Len(s)
      /\ DOMAIN Tail(s) = 1..(Len(s) - 1)
      /\ \A i \in 1..(Len(s) - 1) : Tail(s)[i] = s[i + 1]
  OBVIOUS
<1>2. \A i \in 1..Len(s) : s[i] = Head(s) \/ \E j \in DOMAIN Tail(s) : s[i] = Tail(s)[j]
  <2> TAKE i \in 1..Len(s)
  <2>1. i # 1 => i - 1 \in 1..(Len(s) - 1) /\ (i - 1) + 1 = i
    BY <1>1
  <2> QED  BY <1>1, <2>1
<1>3. \A i \in 1..(Len(s) - 1) : i + 1 \in 1..Len(s)
  BY <1>1
<1>4. \A x \in Range(s) : x = Head(s) \/ x \in Range(Tail(s))
  BY <1>1, <1>2 DEF Range
<1>5. \A x \in Range(Tail(s)) : x \in Range(s)
  BY <1>1, <1>3 DEF Range
<1>6. Head(s) \in Range(s)
  BY <1>1 DEF Range
<1> QED  BY <1>1, <1>4, <1>5, <1>6

-----------------------------------------------------------------------------
(***************************************************************************)
(* Type correctness.                                                       *)
(***************************************************************************)
\* A bounded sequence of values the cluster emits is a sequence of values.
LEMMA EmittedType ==
  ASSUME NEW vs \in BoundedSeqs(Emitted, MaxWarnings)
  PROVE  vs \in Seq(WarningValues) /\ Range(vs) \subseteq WarningValues
<1>1. PICK k \in 0..MaxWarnings : vs \in [1..k -> Emitted]
  BY DEF BoundedSeqs
<1>2. k \in Nat /\ vs \in [1..k -> WarningValues]
  BY <1>1, ClientAssumption DEF ClientAssumption
<1> QED  BY <1>2, SeqDef DEF Range

\* What onWarning is given is a report.
LEMMA MessageType ==
  ASSUME NEW raw \in WarningValues
  PROVE  warningMessage(raw) \in Reports
  BY DEF warningMessage, Reports, WarningValues

\* The initial state is typed.
LEMMA TypeInit == Init => TypeOK
<1> SUFFICES ASSUME Init PROVE TypeOK
  OBVIOUS
<1>1. reported \in Seq(Reports) /\ values \in [Callers -> Seq(WarningValues)]
  BY DEF Init
<1> QED  BY <1>1 DEF Init, TypeOK, Methods, Outcomes, Versions

\* Every step of a caller preserves the types.
LEMMA TypeStep ==
  ASSUME TypeOK, NEW c \in Callers, Step(c)
  PROVE  TypeOK'
<1>1. ASSUME NEW m \in Methods, Call(c, m) PROVE TypeOK'
  <2>1. pc' \in [Callers -> {"idle", "request", "report", "callback", "store"}]
        /\ \A d \in Callers : pc'[d] = "callback" => pc[d] = "callback"
    BY <1>1 DEF TypeOK, Call
  <2>2. calls' \in [Callers -> Nat]
    BY <1>1 DEF TypeOK, Call
  <2>3. informed' \in [Callers -> BOOLEAN] /\ method' \in [Callers -> Methods]
    BY <1>1 DEF TypeOK, Call
  <2> QED  BY <1>1, <2>1, <2>2, <2>3 DEF TypeOK, Call
<1>2. CASE RequestFails(c)
  BY <1>2 DEF TypeOK, RequestFails
<1>3. CASE Respond(c)
  <2>1. PICK vs \in BoundedSeqs(Emitted, MaxWarnings), out \in Outcomes, v \in Versions :
          /\ values' = [values EXCEPT ![c] = ReportedValues(out, vs)]
          /\ outcome' = [outcome EXCEPT ![c] = out]
          /\ read' = [read EXCEPT ![c] = v]
          /\ received' = received \cup Range(vs)
          /\ served' = IF method[c] = "info" /\ out = "ok" THEN served \cup {v} ELSE served
    BY <1>3 DEF Respond
  <2>2. vs \in Seq(WarningValues) /\ Range(vs) \subseteq WarningValues
    BY EmittedType
  <2> QED  BY <1>3, <2>1, <2>2 DEF TypeOK, Respond, ReportedValues
<1>4. CASE MarkSeen(c)
  <2>1. values[c] \in Seq(WarningValues) /\ values[c] # <<>>
    BY <1>4 DEF TypeOK, MarkSeen
  <2>2. Head(values[c]) \in WarningValues /\ Tail(values[c]) \in Seq(WarningValues)
    BY <2>1, HeadTail
  <2>3. warningMessage(Head(values[c])) \in Reports
    BY <2>2, MessageType
  <2> QED  BY <1>4, <2>2, <2>3 DEF TypeOK, MarkSeen
<1>5. CASE OnWarning(c)
  <2>1. reported' \in Seq(Reports) /\ \A d \in Callers : pc'[d] = "callback" => pc[d] = "callback" /\ d # c
    BY <1>5 DEF TypeOK, OnWarning
  <2> QED  BY <1>5, <2>1 DEF TypeOK, OnWarning
<1>6. CASE Finish(c)
  BY <1>6 DEF TypeOK, Finish, Versions, Outcomes
<1>7. CASE Store(c)
  BY <1>7 DEF TypeOK, Store, Versions
<1> QED  BY <1>1, <1>2, <1>3, <1>4, <1>5, <1>6, <1>7 DEF Step

\* The types hold in every behaviour.
THEOREM TypeCorrect == Spec => []TypeOK
<1>1. TypeOK /\ [Next]_vars => TypeOK'
  <2> SUFFICES ASSUME TypeOK, [Next]_vars PROVE TypeOK'
    OBVIOUS
  <2>1. ASSUME NEW c \in Callers, Step(c) PROVE TypeOK'
    BY <2>1, TypeStep
  <2>2. CASE UNCHANGED vars
    BY <2>2 DEF TypeOK, vars
  <2> QED  BY <2>1, <2>2 DEF Next
<1> QED  BY TypeInit, <1>1, PTL DEF Spec

-----------------------------------------------------------------------------
(***************************************************************************)
(* Each message once, and none lost.                                       *)
(***************************************************************************)
\* A step of c leaves the other callers' messages alone.
LEMMA OthersKeepPending ==
  ASSUME TypeOK, NEW c \in Callers, Step(c), NEW d \in Callers, d # c
  PROVE  Pending(d)' = Pending(d)
  BY DEF Step, Call, RequestFails, Respond, MarkSeen, OnWarning, Finish, Store,
         Pending, TypeOK

\* A step preserves: a message in the set is reported or about to be, once.
LEMMA WarningsStep ==
  ASSUME TypeOK, WarningsInv, NEW c \in Callers, Step(c)
  PROVE  WarningsInv'
<1>1. \A d \in Callers : d # c => Pending(d)' = Pending(d)
  BY OthersKeepPending
<1>2. CASE Pending(c)' = Pending(c) /\ UNCHANGED <<warnings, reported>>
  <2>1. \A d \in Callers : Pending(d)' = Pending(d)
    BY <1>1, <1>2
  <2> QED  BY <1>2, <2>1 DEF WarningsInv
<1>3. CASE MarkSeen(c)
  <2> DEFINE msg == warningMessage(Head(values[c]))
  <2>1. Pending(c) = {} /\ reported' = reported /\ warnings' = warnings \cup {msg}
    BY <1>3 DEF MarkSeen, Pending
  <2>2. CASE msg \in warnings
    <3>1. Pending(c)' = Pending(c)
      BY <1>3, <2>2 DEF MarkSeen, Pending
    <3> QED  BY <1>2, <2>1, <2>2, <3>1
  <2>3. CASE msg \notin warnings
    <3>1. Pending(c)' = {msg}
      BY <1>3, <2>3 DEF MarkSeen, Pending, TypeOK
    <3> HIDE DEF msg
    <3>2. \A d \in Callers : msg \notin Pending(d) /\ msg \notin Range(reported)
      BY <2>3 DEF WarningsInv
    <3> QED  BY <1>1, <2>1, <3>1, <3>2 DEF WarningsInv
  <2> QED  BY <2>2, <2>3
<1>4. CASE OnWarning(c)
  <2> DEFINE msg == pending[c]
  <2>1. /\ Pending(c) = {msg} /\ Pending(c)' = {}
        /\ reported' = Append(reported, msg) /\ warnings' = warnings
    BY <1>4 DEF OnWarning, Pending, TypeOK
  <2>2. reported \in Seq(Reports) /\ msg \in Reports
    BY <1>4 DEF OnWarning, TypeOK
  <2> HIDE DEF msg
  <2>3. IsInjective(reported) /\ msg \notin Range(reported)
    BY <2>1 DEF WarningsInv
  <2>4. Range(reported)' = Range(reported) \cup {msg}
    BY <2>1, <2>2, AppendRange
  <2>5. IsInjective(reported)'
    BY <2>1, <2>2, <2>3, AppendNew
  <2>6. \A d \in Callers : d # c => msg \notin Pending(d)
    BY <2>1 DEF WarningsInv
  <2> QED  BY <1>1, <2>1, <2>4, <2>5, <2>6 DEF WarningsInv
<1>5. CASE ~MarkSeen(c) /\ ~OnWarning(c)
  <2>1. Pending(c)' = Pending(c) /\ UNCHANGED <<warnings, reported>>
    BY <1>5 DEF Step, Call, RequestFails, Respond, Finish, Store, Pending, TypeOK
  <2> QED  BY <1>2, <2>1
<1> QED  BY <1>3, <1>4, <1>5

\* A step preserves: what was received is in the set or still to be looked at.
LEMMA ForgottenStep ==
  ASSUME TypeOK, NothingForgotten, NEW c \in Callers, Step(c)
  PROVE  NothingForgotten'
<1>1. CASE UNCHANGED <<values, received, warnings>>
           /\ (pc'[c] \in {"report", "callback"} \/ values[c] = <<>>)
  <2>1. \A d \in Callers : d # c => pc'[d] = pc[d]
    BY DEF Step, Call, RequestFails, Respond, MarkSeen, OnWarning, Finish, Store, TypeOK
  <2> QED  BY <1>1, <2>1 DEF NothingForgotten
<1>2. CASE Respond(c)
  <2>1. PICK vs \in BoundedSeqs(Emitted, MaxWarnings), out \in Outcomes :
          /\ values' = [values EXCEPT ![c] = ReportedValues(out, vs)]
          /\ received' = received \cup Range(vs)
    BY <1>2 DEF Respond
  <2>2. /\ values'[c] = vs /\ values[c] = <<>> /\ Range(values[c]) = {}
        /\ \A d \in Callers : d # c => values'[d] = values[d] /\ pc'[d] = pc[d]
        /\ pc'[c] = "report" /\ warnings' = warnings
    <3>1. values[c] = <<>> /\ Range(<<>>) = {}
      BY <1>2 DEF Respond, NothingForgotten, Range
    <3>2. pc \in [Callers -> {"idle", "request", "report", "callback", "store"}]
          /\ values \in [Callers -> Seq(WarningValues)]
      BY DEF TypeOK
    <3> QED  BY <1>2, <2>1, <3>1, <3>2 DEF Respond, ReportedValues
  <2> QED  BY <2>1, <2>2 DEF NothingForgotten
<1>3. CASE MarkSeen(c)
  <2> DEFINE raw == Head(values[c])
  <2>1. values[c] \in Seq(WarningValues) /\ values[c] # <<>>
    BY <1>3 DEF TypeOK, MarkSeen
  <2>2. Range(values[c]) = {raw} \cup Range(Tail(values[c]))
    BY <2>1, HeadTail
  <2>3. /\ values'[c] = Tail(values[c]) /\ received' = received
        /\ warnings' = warnings \cup {warningMessage(raw)}
        /\ \A d \in Callers : d # c => values'[d] = values[d] /\ pc'[d] = pc[d]
        /\ pc'[c] \in {"report", "callback"}
    BY <1>3 DEF MarkSeen, TypeOK
  <2> HIDE DEF raw
  <2> QED  BY <2>2, <2>3 DEF NothingForgotten
<1>4. CASE ~Respond(c) /\ ~MarkSeen(c)
  <2>1. UNCHANGED <<values, received, warnings>>
        /\ (pc'[c] \in {"report", "callback"} \/ values[c] = <<>>)
    BY <1>4 DEF Step, Call, RequestFails, OnWarning, Finish, Store, TypeOK,
                NothingForgotten
  <2> QED  BY <1>1, <2>1
<1> QED  BY <1>2, <1>3, <1>4

\* A step preserves: the cache holds a served version, and who is informed has
\* filled it or found it filled.
LEMMA CacheStep ==
  ASSUME TypeOK, CacheInv, NEW c \in Callers, Step(c)
  PROVE  CacheInv'
<1> USE DEF CacheInv, CacheFromSuccess, TypeOK
<1>1. ASSUME NEW m \in Methods, Call(c, m) PROVE CacheInv'
  BY <1>1 DEF Call
<1>2. CASE RequestFails(c)
  BY <1>2 DEF RequestFails
<1>3. CASE Respond(c)
  <2>1. PICK out \in Outcomes, v \in Versions :
          /\ outcome' = [outcome EXCEPT ![c] = out]
          /\ read' = [read EXCEPT ![c] = v]
          /\ served' = IF method[c] = "info" /\ out = "ok" THEN served \cup {v} ELSE served
    BY <1>3 DEF Respond
  <2> QED  BY <1>3, <2>1 DEF Respond, Caches
<1>4. CASE MarkSeen(c) \/ OnWarning(c)
  BY <1>4 DEF MarkSeen, OnWarning
<1>5. CASE Finish(c)
  BY <1>5 DEF Finish, Caches
<1>6. CASE Store(c)
  <2>1. read[c] # Nil
    BY ClientAssumption DEF ClientAssumption, Versions
  <2> QED  BY <1>6, <2>1 DEF Store
<1> QED  BY <1>1, <1>2, <1>3, <1>4, <1>5, <1>6 DEF Step

\* The strengthening holds in every behaviour.
THEOREM ClientCorrect == Spec => []ClientInv
<1>1. Init => ClientInv
  BY DEF Init, ClientInv, WarningsInv, NothingForgotten, CacheInv,
         CacheFromSuccess, IsInjective, Pending, Range
<1>2. TypeOK /\ ClientInv /\ [Next]_vars => ClientInv'
  <2> SUFFICES ASSUME TypeOK, ClientInv, [Next]_vars PROVE ClientInv'
    OBVIOUS
  <2>1. ASSUME NEW c \in Callers, Step(c) PROVE ClientInv'
    BY <2>1, WarningsStep, ForgottenStep, CacheStep DEF ClientInv
  <2>2. CASE UNCHANGED vars
    BY <2>2 DEF vars, ClientInv, WarningsInv, NothingForgotten, CacheInv,
                CacheFromSuccess, Pending
  <2> QED  BY <2>1, <2>2 DEF Next
<1> QED  BY TypeCorrect, <1>1, <1>2, PTL DEF Spec

\* reportWarnings passes a message to onWarning at most once, whichever callers
\* meet it at the same time.
THEOREM WarnedOnceCorrect == Spec => []WarnedOnce
<1>1. ClientInv => WarnedOnce
  BY DEF ClientInv, WarningsInv, WarnedOnce
<1> QED  BY ClientCorrect, <1>1, PTL

\* What a reader is to be told is what warningMessage extracts.
LEMMA TellsMessage ==
  ASSUME NEW raw \in WarningValues, NEW msg
  PROVE  Tells(raw, msg) <=> msg = warningMessage(raw)
  BY ClientAssumption DEF ClientAssumption, Tells, warningMessage, WarningValues

\* When no call is under way, every Warning value of every answer, an error's
\* included, has been told and nothing else has.
THEOREM NoWarningLostCorrect == Spec => []NoWarningLost
<1>1. TypeOK /\ ClientInv => NoWarningLost
  <2> SUFFICES ASSUME TypeOK, ClientInv, \A c \in Callers : pc[c] = "idle"
               PROVE  /\ \A raw \in received : \E msg \in Range(reported) : Tells(raw, msg)
                      /\ \A msg \in Range(reported) : \E raw \in received : Tells(raw, msg)
    BY DEF NoWarningLost
  <2>1. warnings = Range(reported)
    BY DEF ClientInv, WarningsInv, Pending
  <2>2. \A c \in Callers : Range(values[c]) = {}
    BY DEF ClientInv, NothingForgotten, Range
  <2>3. \A raw \in received : raw \in WarningValues
    BY DEF TypeOK
  <2> QED  BY <2>1, <2>2, <2>3, TellsMessage DEF ClientInv, NothingForgotten
<1> QED  BY TypeCorrect, ClientCorrect, <1>1, PTL

\* Info caches what a 2xx answer said, and nothing on a failure.
THEOREM CacheCorrect == Spec => []CacheFromSuccess
<1>1. ClientInv => CacheFromSuccess
  BY DEF ClientInv, CacheInv
<1> QED  BY ClientCorrect, <1>1, PTL

\* Info asks the cluster no more once it has succeeded.
THEOREM InformedCorrect == Spec => InformedNeverAsks
<1>1. TypeOK /\ ClientInv /\ [Next]_vars =>
        [\A c \in Callers :
            informed[c] /\ pc[c] = "idle" /\ pc'[c] = "request"
                => method'[c] # "info"]_vars
  <2> SUFFICES ASSUME TypeOK, ClientInv, [Next]_vars, NEW c \in Callers,
                      informed[c], pc[c] = "idle", pc'[c] = "request"
               PROVE  method'[c] # "info"
    OBVIOUS
  <2>1. version # Nil
    BY DEF ClientInv, CacheInv
  <2>2. PICK d \in Callers : Step(d)
    BY DEF Next, vars
  <2>3. PICK m \in Methods : Call(c, m)
    BY <2>2 DEF Step, Call, RequestFails, Respond, MarkSeen, OnWarning, Finish, Store, TypeOK
  <2> QED  BY <2>1, <2>3 DEF Call, TypeOK
<1> QED  BY TypeCorrect, ClientCorrect, <1>1, PTL DEF Spec, InformedNeverAsks
=============================================================================
