-------------------------- MODULE SearchRunProofs --------------------------
(***************************************************************************)
(* Theorems about SearchRun, for every corpus, command line and set of     *)
(* disturbances.                                                           *)
(***************************************************************************)
EXTENDS SearchRun, SequenceTheorems, FiniteSetTheorems, TLAPS

-----------------------------------------------------------------------------
(***************************************************************************)
(* Sort keys and pages.                                                    *)
(***************************************************************************)
\* The key of a document is a sort key.
LEMMA SortKeyType == \A d \in Docs : SortKey(d) \in SortKeys
  BY CorpusAssumption DEF CorpusAssumption, SortKey, SortKeys

\* KeyBefore is a strict total order on sort keys, in both directions.
LEMMA KeyOrder ==
  ASSUME NEW dir \in Directions,
         NEW k \in SortKeys, NEW l \in SortKeys, NEW m \in SortKeys
  PROVE  /\ ~KeyBefore(dir, k, k)
         /\ KeyBefore(dir, k, l) /\ KeyBefore(dir, l, m) => KeyBefore(dir, k, m)
         /\ k = l \/ KeyBefore(dir, k, l) \/ KeyBefore(dir, l, k)
<1>1. /\ k[1] \in Int /\ k[2] \in Nat /\ k = <<k[1], k[2]>>
      /\ l[1] \in Int /\ l[2] \in Nat /\ l = <<l[1], l[2]>>
      /\ m[1] \in Int /\ m[2] \in Nat
  BY DEF SortKeys
<1>2. (k[1] = l[1] /\ k[2] = l[2]) => k = l
  BY <1>1
<1>3. CASE dir = "asc"
  <2>1. \A x, y : KeyBefore(dir, x, y) <=> (x[1] < y[1] \/ (x[1] = y[1] /\ x[2] < y[2]))
    BY <1>3 DEF KeyBefore, TimeBefore
  <2> QED  BY <1>1, <1>2, <2>1
<1>4. CASE dir # "asc"
  <2>1. \A x, y : KeyBefore(dir, x, y) <=> (x[1] > y[1] \/ (x[1] = y[1] /\ x[2] < y[2]))
    BY <1>4 DEF KeyBefore, TimeBefore
  <2> QED  BY <1>1, <1>2, <2>1
<1> QED  BY <1>3, <1>4

\* A page is a sequence of the documents it was chosen from.
LEMMA PageType ==
  ASSUME NEW dir, NEW S \in SUBSET Docs, NEW n \in Nat, NEW pg \in Pages(dir, S, n)
  PROVE  /\ pg \in Seq(Docs)
         /\ IsPage(dir, S, n, pg)
         /\ \A i \in DOMAIN pg : pg[i] \in S
<1>1. PICK k \in 0..n : pg \in [1..k -> S]
  BY DEF Pages
<1>2. k \in Nat /\ pg \in [1..k -> Docs]
  BY <1>1
<1>3. pg \in Seq(Docs)
  BY <1>2, SeqDef
<1> QED  BY <1>1, <1>3 DEF Pages

-----------------------------------------------------------------------------
(***************************************************************************)
(* Type correctness.                                                       *)
(***************************************************************************)
\* A record that is written is a record.
LEMMA LinesType ==
  ASSUME TypeOK
  PROVE  Lines(shown) \in Seq(Records)
<1>1. shown \in Seq(Docs) /\ Len(shown) \in Nat
  BY DEF TypeOK
<1>2. CASE params.mode = "hits" /\ params.format = "jsonl"
  <2>1. \A i \in 1..Len(shown) : Record(<<shown[i]>>, NoTotal, FALSE) \in Records
    BY <1>1 DEF Record, Records
  <2>2. Lines(shown) \in [1..Len(shown) -> Records]
    BY <1>2, <2>1 DEF Lines
  <2> QED  BY <1>1, <2>2, SeqDef
<1>3. CASE ~(params.mode = "hits" /\ params.format = "jsonl")
  <2> DEFINE hs == IF IsAggregation /\ params.format # "json" THEN <<>> ELSE shown
             t  == IF params.format = "json" THEN total ELSE NoTotal
  <2>1. hs \in Seq(Docs) /\ t \in Nat \cup {NoTotal} /\ IsAggregation \in BOOLEAN
    BY <1>1 DEF TypeOK, IsAggregation
  <2>2. Record(hs, t, IsAggregation) \in Records
    BY <2>1 DEF Record, Records
  <2>3. Lines(shown) = <<Record(hs, t, IsAggregation)>>
    BY <1>3 DEF Lines
  <2> QED  BY <2>2, <2>3
<1> QED  BY <1>2, <1>3

\* The initial states are typed.
LEMMA TypeInit == Init => TypeOK
<1> SUFFICES ASSUME Init PROVE TypeOK
  OBVIOUS
<1>1. NoAnswer \in Answers
  BY DEF NoAnswer, Refusal, Answers
<1>2. /\ <<>> \in Seq(Docs) /\ <<>> \in Seq(Records)
      /\ <<>> \in Seq(SUBSET Shards)
  OBVIOUS
<1>3. status \in [Docs -> {"absent", "live", "deleted"}]
  BY DEF Init
<1>4. hits \in Seq(Docs) /\ shown \in Seq(Docs) /\ stdout \in Seq(Records)
      /\ failures \in Seq(SUBSET Shards) /\ answer \in Answers
  BY <1>1, <1>2 DEF Init
<1>5. params \in ParamSpace /\ limit \in [Shards -> Windows]
  BY DEF Init
<1>6. /\ reqSize \in Nat /\ total \in Nat /\ next \in Nat \ {0}
      /\ exit \in CommandExits \cup {NoExit}
      /\ partial \in SUBSET Shards /\ searchAfter \in SortKeys \cup {NoCursor}
  BY DEF Init
<1>7. firstPage \in BOOLEAN /\ warned \in BOOLEAN /\ ctxDone \in BOOLEAN
  BY DEF Init
<1>8. pc \in {"start", "lookup", "lookupWait", "send", "wait", "filter",
             "render", "done"}
  BY DEF Init
<1> QED  BY <1>3, <1>4, <1>5, <1>6, <1>7, <1>8 DEF TypeOK

\* The run's own steps, up to sending a request, preserve the types.
LEMMA TypeRequest ==
  ASSUME TypeOK,
         Preflight \/ SendLookup \/ LookupAborted \/ LookupFails \/ Send \/ Aborts
           \/ \E reporting \in Reporting : LookupAnswered(reporting)
  PROVE  TypeOK'
<1>1. \A w \in Nat : UseWindow(w) => TypeOK'
  <2> SUFFICES ASSUME NEW w \in Nat, UseWindow(w) PROVE TypeOK'
    OBVIOUS
  <2>1. reqSize' \in Nat
    BY DEF TypeOK, UseWindow, CappedSize
  <2>2. warned' \in BOOLEAN
    BY DEF UseWindow
  <2> QED  BY <2>1, <2>2 DEF TypeOK, UseWindow, corpus
<1>2. FallbackWindow \in Nat
  BY RunAssumption DEF RunAssumption, FallbackWindow
<1>3. CASE Preflight
  <2>1. Requested(params) \in Nat
    BY RunAssumption DEF RunAssumption, TypeOK, Requested, Params
  <2> QED  BY <1>3, <2>1 DEF TypeOK, Preflight, Ends, CommandExits, corpus
<1>4. CASE SendLookup
  BY <1>4 DEF TypeOK, SendLookup, corpus
<1>5. CASE LookupAborted \/ LookupFails
  BY <1>1, <1>2, <1>5 DEF LookupAborted, LookupFails
<1>6. CASE Send
  <2>1. NoAnswer \in Answers
    BY DEF NoAnswer, Refusal, Answers
  <2> QED  BY <1>6, <2>1 DEF TypeOK, Send, corpus
<1>7. CASE Aborts
  BY <1>7 DEF TypeOK, Aborts, Ends, ClassifyESError, CommandExits, corpus
<1>8. CASE \E reporting \in Reporting : LookupAnswered(reporting)
  BY <1>1, <1>2, <1>8, RunAssumption DEF RunAssumption, LookupAnswered
<1> QED  BY <1>3, <1>4, <1>5, <1>6, <1>7, <1>8

\* Receiving an answer preserves the types.
LEMMA TypeReceive ==
  ASSUME TypeOK, ReceiveError \/ ReceivePage \/ ReceiveOnly
  PROVE  TypeOK'
<1>1. /\ answer.page \in Seq(Docs) /\ answer.total \in Nat
      /\ answer.failed \in SUBSET Shards
  BY DEF TypeOK, Answers
<1>2. Append(failures, answer.failed) \in Seq(SUBSET Shards)
  BY <1>1 DEF TypeOK
<1>3. CASE ReceiveError
  BY <1>3 DEF TypeOK, ReceiveError, Ends, ClassifyESError, CommandExits, corpus
<1>4. CASE ReceivePage
  <2>1. hits' \in Seq(Docs)
    BY <1>1, <1>4, ConcatProperties DEF TypeOK, ReceivePage, Collect
  <2>2. searchAfter' \in SortKeys \cup {NoCursor}
    <3>1. CASE answer.page = <<>>
      BY <1>4, <3>1 DEF TypeOK, ReceivePage
    <3>2. CASE answer.page # <<>>
      <4>1. answer.page[Len(answer.page)] \in Docs
        BY <1>1, <3>2
      <4> QED  BY <1>4, <3>2, <4>1, SortKeyType DEF ReceivePage, NextCursor
    <3> QED  BY <3>1, <3>2
  <2>3. partial' \in SUBSET Shards
    BY <1>1, <1>4 DEF TypeOK, ReceivePage, KeepPartial
  <2> QED  BY <1>1, <1>2, <1>4, <2>1, <2>2, <2>3 DEF TypeOK, ReceivePage, corpus
<1>5. CASE ReceiveOnly
  BY <1>1, <1>2, <1>5 DEF TypeOK, ReceiveOnly, corpus
<1> QED  BY <1>3, <1>4, <1>5

\* Filtering, writing and ending preserve the types.
LEMMA TypeOutput ==
  ASSUME TypeOK,
         FilterHit \/ FilterDone \/ WriteRecord \/ Finish \/ WriteFails
           \/ UnreadableAggregations
  PROVE  TypeOK'
<1>1. stdout \in Seq(Records) /\ Len(stdout) \in Nat
  BY DEF TypeOK
<1>2. CASE FilterHit
  <2>1. next \in Nat \ {0} /\ next <= Len(hits) /\ hits \in Seq(Docs)
    BY <1>2 DEF TypeOK, FilterHit
  <2>2. hits[next] \in Docs
    BY <2>1
  <2>3. shown' \in Seq(Docs)
    BY <1>2, <2>2 DEF TypeOK, FilterHit
  <2> QED  BY <1>2, <2>1, <2>3 DEF TypeOK, FilterHit, corpus
<1>3. CASE FilterDone
  BY <1>3 DEF TypeOK, FilterDone, corpus
<1>4. CASE WriteRecord
  <2> DEFINE lines == Lines(shown)
  <2>1. lines \in Seq(Records)
    BY LinesType
  <2>2. Len(stdout) < Len(lines) /\ stdout' = Append(stdout, lines[Len(stdout) + 1])
    BY <1>4 DEF WriteRecord
  <2> HIDE DEF lines
  <2>3. lines[Len(stdout) + 1] \in Records
    BY <1>1, <2>1, <2>2
  <2>4. stdout' \in Seq(Records)
    BY <1>1, <2>2, <2>3
  <2> QED  BY <1>4, <2>4 DEF TypeOK, WriteRecord, corpus
<1>5. CASE Finish
  BY <1>5 DEF TypeOK, Finish, Ends, FinishCode, CommandExits, corpus
<1>6. CASE WriteFails
  <2>1. Torn \in Records
    BY DEF Torn, Record, Records
  <2>2. stdout' \in Seq(Records)
    BY <1>1, <1>6, <2>1 DEF WriteFails
  <2> QED  BY <1>6, <2>2 DEF TypeOK, WriteFails, Ends, CommandExits, corpus
<1>7. CASE UnreadableAggregations
  BY <1>7 DEF TypeOK, UnreadableAggregations, Ends, CommandExits, corpus
<1> QED  BY <1>2, <1>3, <1>4, <1>5, <1>6, <1>7

\* An answer to a search is typed, and its page is one of the documents that
\* live on the shards that did not fail, after the cursor.
LEMMA AnswerGiven ==
  ASSUME TypeOK, NEW unavailable \in Unavailable, SearchAnswered(unavailable)
  PROVE  /\ answer' \in Answers
         /\ answer'.kind = "ok" =>
              LET served == SearchAfter(params.dir,
                                        {d \in Live : Home[d] \notin answer'.failed},
                                        searchAfter)
              IN  /\ IsPage(params.dir, served, reqSize, answer'.page)
                  /\ \A i \in DOMAIN answer'.page : answer'.page[i] \in served
<1> DEFINE failed  == RejectedBy \cup unavailable
           matches == {d \in Live : Home[d] \notin failed}
           served  == SearchAfter(params.dir, matches, searchAfter)
           count   == Cardinality(matches)
           found   == IF ~TracksTotal(params) /\ count > TotalCap
                      THEN TotalCap ELSE count
<1>1. failed \in SUBSET Shards
  BY DEF RejectedBy, Unavailable
<1>2. matches \in SUBSET Docs /\ served \in SUBSET Docs
  BY DEF Live, SearchAfter
<1>3. count \in Nat
  BY <1>2, CorpusAssumption, FS_Subset, FS_CardinalityType DEF CorpusAssumption
<1>4. found \in Nat
  BY <1>3, RunAssumption DEF RunAssumption
<1>5. CASE answer' = Refusal("api")
  BY <1>5 DEF Refusal, Answers, ServerErrors
<1>6. ASSUME NEW page \in Pages(params.dir, served, reqSize),
             answer' = Answer(page, found, failed)
      PROVE  /\ answer' \in Answers
             /\ answer'.failed = failed
             /\ IsPage(params.dir, served, reqSize, answer'.page)
             /\ \A i \in DOMAIN answer'.page : answer'.page[i] \in served
  <2>1. reqSize \in Nat
    BY DEF TypeOK
  <2> HIDE DEF served, found, failed
  <2>2. /\ page \in Seq(Docs)
        /\ IsPage(params.dir, served, reqSize, page)
        /\ \A i \in DOMAIN page : page[i] \in served
    BY <1>2, <1>6, <2>1, PageType
  <2>3. answer'.page = page /\ answer'.failed = failed
    BY <1>6 DEF Answer
  <2>4. answer' \in Answers
    BY <1>1, <1>4, <1>6, <2>2 DEF Answer, Answers
  <2> QED  BY <2>2, <2>3, <2>4
<1>7. \/ \E page \in Pages(params.dir, served, reqSize) :
            answer' = Answer(page, found, failed)
      \/ answer' = Refusal("api")
  BY DEF SearchAnswered
<1>8. answer' = Refusal("api") => answer'.kind # "ok"
  BY DEF Refusal
<1> QED  BY <1>5, <1>6, <1>7, <1>8

\* The cluster's and the user's steps preserve the types.
LEMMA TypeEnvironment ==
  ASSUME TypeOK,
         \/ \E unavailable \in Unavailable : SearchAnswered(unavailable)
         \/ SearchFails \/ IndexDoc \/ DeleteDoc \/ ChangeWindow \/ Interrupt
  PROVE  TypeOK'
<1>1. CASE \E unavailable \in Unavailable : SearchAnswered(unavailable)
  <2>1. answer' \in Answers
    BY <1>1, AnswerGiven
  <2>2. UNCHANGED <<params, client, ctxDone, corpus, failures>>
    BY <1>1 DEF SearchAnswered
  <2> QED  BY <2>1, <2>2 DEF TypeOK, client, corpus
<1>2. CASE SearchFails
  <2>1. \A e \in ServerErrors : Refusal(e) \in Answers
    BY DEF Refusal, Answers
  <2>2. answer' \in Answers
    BY <1>2, <2>1 DEF SearchFails
  <2> QED  BY <1>2, <2>2 DEF TypeOK, SearchFails, client, corpus
<1>3. CASE IndexDoc \/ DeleteDoc
  <2>1. status' \in [Docs -> {"absent", "live", "deleted"}]
    BY <1>3 DEF TypeOK, IndexDoc, DeleteDoc
  <2> QED  BY <1>3, <2>1 DEF TypeOK, IndexDoc, DeleteDoc, client
<1>4. CASE ChangeWindow
  <2>1. limit' \in [Shards -> Windows]
    BY <1>4 DEF TypeOK, ChangeWindow
  <2> QED  BY <1>4, <2>1 DEF TypeOK, ChangeWindow, client
<1>5. CASE Interrupt
  BY <1>5 DEF TypeOK, Interrupt, client, corpus
<1> QED  BY <1>1, <1>2, <1>3, <1>4, <1>5

\* Every step preserves the types.
LEMMA TypeStep == TypeOK /\ [Next]_vars => TypeOK'
<1> SUFFICES ASSUME TypeOK, [Next]_vars PROVE TypeOK'
  OBVIOUS
<1>1. CASE UNCHANGED vars
  BY <1>1 DEF TypeOK, vars, client, corpus
<1>2. CASE Next
  BY <1>1, <1>2, TypeRequest, TypeReceive, TypeOutput, TypeEnvironment
     DEF Next, ClientStep, ServerStep, Disturbance, Ended
<1> QED  BY <1>1, <1>2

\* No run ever leaves the types: sizes stay natural numbers whatever window the
\* lookup yields, cursors are sort keys, and exit codes are those of exit.go.
THEOREM TypeCorrect == Spec => []TypeOK
  BY TypeInit, TypeStep, PTL DEF Spec

-----------------------------------------------------------------------------
(***************************************************************************)
(* Paging: no duplicates, one order.                                       *)
(***************************************************************************)
\* SortedBefore is a strict order on documents; unordered documents tie.
LEMMA DocumentOrder ==
  ASSUME NEW dir \in Directions, NEW d \in Docs, NEW e \in Docs, NEW f \in Docs
  PROVE  /\ ~SortedBefore(dir, d, d)
         /\ SortedBefore(dir, d, e) /\ SortedBefore(dir, e, f) => SortedBefore(dir, d, f)
         /\ \/ SortKey(d) = SortKey(e)
            \/ SortedBefore(dir, d, e)
            \/ SortedBefore(dir, e, d)
  BY KeyOrder, SortKeyType DEF SortedBefore

\* Two ordered sequences without duplicates, the second strictly after the last
\* element of the first, are one ordered sequence without duplicates.
LEMMA JoinPages ==
  ASSUME NEW dir \in Directions, NEW s \in Seq(Docs), NEW t \in Seq(Docs),
         IsInjective(s), InSortOrder(dir, s),
         IsInjective(t), InSortOrder(dir, t),
         s # <<>> => \A i \in DOMAIN t : SortedBefore(dir, s[Len(s)], t[i])
  PROVE  /\ IsInjective(s \o t)
         /\ InSortOrder(dir, s \o t)
         /\ Range(s \o t) = Range(s) \cup Range(t)
         /\ t # <<>> => /\ s \o t # <<>>
                        /\ (s \o t)[Len(s \o t)] = t[Len(t)]
<1> DEFINE m == Len(s)  n == Len(t)  u == s \o t
<1>1. /\ m \in Nat /\ n \in Nat
      /\ DOMAIN s = 1..m /\ DOMAIN t = 1..n
      /\ \A i \in 1..m : s[i] \in Docs
      /\ \A i \in 1..n : t[i] \in Docs
  OBVIOUS
<1>2. /\ DOMAIN u = 1..(m + n) /\ Len(u) = m + n
      /\ \A i \in 1..m : u[i] = s[i]
      /\ \A i \in (m + 1)..(m + n) : u[i] = t[i - m] /\ i - m \in 1..n
  OBVIOUS
<1>3. ASSUME NEW i \in 1..m, NEW j \in 1..n PROVE ~SortedBefore(dir, t[j], s[i]) /\ s[i] # t[j]
  <2>1. s # <<>> /\ m \in 1..m
    BY <1>1
  <2>2. SortedBefore(dir, s[m], t[j])
    BY <1>1, <2>1
  <2>3. i = m \/ ~SortedBefore(dir, s[m], s[i])
    <3>1. \A k, l \in 1..m : k < l => ~SortedBefore(dir, s[l], s[k])
      BY <1>1 DEF InSortOrder
    <3>2. m \in Nat
      BY <1>1
    <3> HIDE DEF m
    <3>3. i = m \/ i < m
      BY <3>2
    <3> QED  BY <2>1, <3>1, <3>3
  <2>4. s[m] \in Docs /\ s[i] \in Docs /\ t[j] \in Docs
    BY <1>1, <2>1
  <2> QED  BY <2>2, <2>3, <2>4, DocumentOrder
<1>4. IsInjective(u)
  <2> SUFFICES ASSUME NEW i \in 1..(m + n), NEW j \in 1..(m + n), u[i] = u[j], i # j
               PROVE  FALSE
    BY <1>2 DEF IsInjective
  <2>1. CASE i <= m /\ j <= m
    <3>1. i \in 1..m /\ j \in 1..m
      BY <1>1, <2>1
    <3> QED  BY <1>1, <1>2, <3>1 DEF IsInjective
  <2>2. CASE i > m /\ j > m
    <3>1. i \in (m + 1)..(m + n) /\ j \in (m + 1)..(m + n)
      BY <1>1, <2>2
    <3>2. t[i - m] = t[j - m] /\ i - m \in 1..n /\ j - m \in 1..n /\ i - m # j - m
      BY <1>1, <1>2, <3>1
    <3> QED  BY <1>1, <3>2 DEF IsInjective
  <2>3. CASE i <= m /\ j > m
    <3>1. i \in 1..m /\ j \in (m + 1)..(m + n)
      BY <1>1, <2>3
    <3> QED  BY <1>2, <1>3, <3>1
  <2>4. CASE i > m /\ j <= m
    <3>1. j \in 1..m /\ i \in (m + 1)..(m + n)
      BY <1>1, <2>4
    <3> QED  BY <1>2, <1>3, <3>1
  <2> QED  BY <1>1, <2>1, <2>2, <2>3, <2>4
<1>5. InSortOrder(dir, u)
  <2> SUFFICES ASSUME NEW i \in 1..(m + n), NEW j \in 1..(m + n), i < j
               PROVE  ~SortedBefore(dir, u[j], u[i])
    BY <1>2 DEF InSortOrder
  <2>1. CASE j <= m
    <3>1. i \in 1..m /\ j \in 1..m
      BY <1>1, <2>1
    <3> QED  BY <1>1, <1>2, <3>1 DEF InSortOrder
  <2>2. CASE i > m
    <3>1. i \in (m + 1)..(m + n) /\ j \in (m + 1)..(m + n)
      BY <1>1, <2>2
    <3>2. i - m \in 1..n /\ j - m \in 1..n /\ i - m < j - m
      BY <1>1, <1>2, <3>1
    <3> QED  BY <1>1, <1>2, <3>1, <3>2 DEF InSortOrder
  <2>3. CASE i <= m /\ j > m
    <3>1. i \in 1..m /\ j \in (m + 1)..(m + n)
      BY <1>1, <2>3
    <3> QED  BY <1>2, <1>3, <3>1
  <2> QED  BY <1>1, <2>1, <2>2, <2>3
<1>6. Range(u) = Range(s) \cup Range(t)
  BY RangeConcatenation
<1>7. t # <<>> => u # <<>> /\ u[Len(u)] = t[n]
  <2> SUFFICES ASSUME t # <<>> PROVE u # <<>> /\ u[Len(u)] = t[n]
    OBVIOUS
  <2>1. n > 0
    BY <1>1
  <2>2. m + n \in (m + 1)..(m + n) /\ (m + n) - m = n
    BY <1>1, <2>1
  <2> QED  BY <1>1, <1>2, <2>1, <2>2
<1> QED  BY <1>4, <1>5, <1>6, <1>7

\* Documents never become stable, so what an answer left out stays accounted for.
LEMMA StableShrinks ==
  ASSUME TypeOK, PagingInv, [Next]_vars
  PROVE  /\ Stable' \subseteq Stable
         /\ \A d \in InitialDocs : status'[d] # "absent"
<1>1. /\ \A d \in InitialDocs : status[d] # "absent"
      /\ \A d \in InitialDocs : d \in Docs
      /\ status \in [Docs -> {"absent", "live", "deleted"}]
  BY RunAssumption DEF RunAssumption, TypeOK, PagingInv
<1>2. CASE IndexDoc
  <2>1. PICK d \in Docs : status[d] = "absent" /\ status' = [status EXCEPT ![d] = "live"]
    BY <1>2 DEF IndexDoc
  <2>2. \A e \in InitialDocs : status'[e] = status[e]
    BY <1>1, <2>1
  <2> QED  BY <1>1, <2>2 DEF Stable
<1>3. CASE DeleteDoc
  <2>1. PICK d \in Docs : status[d] = "live" /\ status' = [status EXCEPT ![d] = "deleted"]
    BY <1>3 DEF DeleteDoc
  <2>2. \A e \in InitialDocs : status'[e] = status[e] \/ status'[e] = "deleted"
    BY <1>1, <2>1
  <2> QED  BY <1>1, <2>2 DEF Stable
<1>4. CASE ~IndexDoc /\ ~DeleteDoc
  <2>1. status' = status
    BY <1>4 DEF Next, ClientStep, ServerStep, Disturbance, Ended, vars, corpus,
       Preflight, SendLookup, LookupAborted, Send, Aborts, ReceiveError,
       ReceivePage, ReceiveOnly, FilterHit, FilterDone, WriteRecord, Finish,
       LookupAnswered, SearchAnswered, LookupFails, WriteFails,
       UnreadableAggregations, SearchFails, ChangeWindow, Interrupt, UseWindow
  <2> QED  BY <1>1, <2>1 DEF Stable
<1> QED  BY <1>2, <1>3, <1>4

\* The initial states satisfy the paging invariant.
LEMMA PagingInit == Init => PagingInv
<1> SUFFICES ASSUME Init PROVE PagingInv
  OBVIOUS
<1>1. hits = <<>> /\ searchAfter = NoCursor /\ pc = "start"
  BY DEF Init
<1>2. DOMAIN hits = {}
  BY <1>1
<1>3. NoDuplicateHits /\ HitsInSortOrder
  BY <1>2 DEF NoDuplicateHits, HitsInSortOrder, IsInjective, InSortOrder
<1>4. CursorInv /\ AnswerInv /\ AnswerComplete
  BY <1>1 DEF CursorInv, AnswerInv, AnswerComplete, Requesting
<1>5. \A d \in InitialDocs : status[d] # "absent"
  BY RunAssumption DEF RunAssumption, Init
<1> QED  BY <1>3, <1>4, <1>5 DEF PagingInv, OrderInv

\* The steps that touch neither the hits nor the answer leave the order alone.
LEMMA SameHits ==
  ASSUME OrderInv, UNCHANGED <<params, hits>>
  PROVE  NoDuplicateHits' /\ HitsInSortOrder'
  BY DEF OrderInv, NoDuplicateHits, HitsInSortOrder

\* Up to sending a request, the cursor stays that of the last hit, and a run
\* that fetches everything asks for at least one hit.
LEMMA OrderRequest ==
  ASSUME TypeOK, OrderInv,
         Preflight \/ SendLookup \/ LookupAborted \/ LookupFails \/ Send \/ Aborts
           \/ \E reporting \in Reporting : LookupAnswered(reporting)
  PROVE  OrderInv'
<1>1. CursorInv
  BY DEF OrderInv
<1>2. UNCHANGED <<params, hits, searchAfter>>
  BY DEF Preflight, SendLookup, LookupAborted, LookupFails, Send, Aborts,
     LookupAnswered, UseWindow
<1>3. NoDuplicateHits' /\ HitsInSortOrder'
  BY <1>2, SameHits
<1>4. FetchesAll' = FetchesAll
  BY <1>2 DEF FetchesAll
<1>5. \A w \in Nat \ {0} :
         pc \in {"lookup", "lookupWait"} /\ UseWindow(w) => CursorInv' /\ AnswerInv'
  <2> SUFFICES ASSUME NEW w \in Nat \ {0}, pc \in {"lookup", "lookupWait"}, UseWindow(w)
               PROVE  CursorInv' /\ AnswerInv'
    OBVIOUS
  <2>1. pc' = "send" /\ (FetchesAll => reqSize' = w)
    BY DEF UseWindow
  <2>2. hits = <<>> /\ searchAfter = NoCursor
    BY <1>1 DEF CursorInv, BeforeFirstRequest
  <2> QED  BY <1>2, <1>4, <2>1, <2>2 DEF CursorInv, AnswerInv, BeforeFirstRequest
<1>6. FallbackWindow \in Nat \ {0} /\ Windows \subseteq Nat \ {0}
  BY RunAssumption DEF RunAssumption, FallbackWindow
<1>7. CASE Preflight
  <2>1. pc = "start" /\ pc' \in {"done", "lookup", "send"} /\ (FetchesAll => pc' # "send")
    BY <1>7 DEF Preflight, Ends, FetchesAll, NeedsWindow
  <2>2. hits = <<>> /\ searchAfter = NoCursor
    BY <1>1, <2>1 DEF CursorInv, BeforeFirstRequest
  <2> QED  BY <1>2, <1>3, <1>4, <2>1, <2>2
           DEF OrderInv, CursorInv, AnswerInv, BeforeFirstRequest, Requesting
<1>8. CASE SendLookup
  <2>1. pc = "lookup" /\ pc' = "lookupWait"
    BY <1>8 DEF SendLookup
  <2> QED  BY <1>1, <1>2, <1>3, <2>1
           DEF OrderInv, CursorInv, AnswerInv, BeforeFirstRequest, Requesting
<1>9. CASE LookupAborted \/ LookupFails
  BY <1>3, <1>5, <1>6, <1>9 DEF LookupAborted, LookupFails, OrderInv
<1>10. CASE \E reporting \in Reporting : LookupAnswered(reporting)
  BY <1>3, <1>5, <1>6, <1>10 DEF LookupAnswered, OrderInv
<1>11. CASE Send
  <2>1. pc = "send" /\ pc' = "wait" /\ reqSize' = reqSize /\ answer'.kind # "ok"
    BY <1>11 DEF Send, NoAnswer, Refusal
  <2> QED  BY <1>1, <1>2, <1>3, <1>4, <2>1
           DEF OrderInv, CursorInv, AnswerInv, BeforeFirstRequest, Requesting
<1>12. CASE Aborts
  <2>1. pc' = "done"
    BY <1>12 DEF Aborts, Ends
  <2> QED  BY <1>3, <2>1 DEF OrderInv, CursorInv, AnswerInv, BeforeFirstRequest,
              Requesting
<1> QED  BY <1>7, <1>8, <1>9, <1>10, <1>11, <1>12

\* A page that is received continues the hits in order and moves the cursor to
\* its last hit.
LEMMA OrderReceive ==
  ASSUME TypeOK, OrderInv, ReceiveError \/ ReceivePage \/ ReceiveOnly
  PROVE  OrderInv'
<1>1. /\ params.dir \in Directions /\ hits \in Seq(Docs) /\ answer.page \in Seq(Docs)
  BY RunAssumption DEF RunAssumption, TypeOK, Params, Answers
<1>2. NoDuplicateHits /\ HitsInSortOrder /\ CursorInv /\ AnswerInv
  BY DEF OrderInv
<1>3. CASE ReceiveError
  <2>1. pc' = "done" /\ UNCHANGED <<params, hits>>
    BY <1>3 DEF ReceiveError, Ends
  <2> QED  BY <2>1, SameHits DEF OrderInv, CursorInv, AnswerInv, BeforeFirstRequest,
              Requesting
<1>4. CASE ReceivePage
  <2> DEFINE page == answer.page
  <2>1. /\ pc = "wait" /\ FetchesAll /\ params' = params /\ reqSize' = reqSize
        /\ hits' = hits \o page /\ pc' \in {"filter", "send"}
        /\ searchAfter' = IF page = <<>> THEN searchAfter ELSE SortKey(page[Len(page)])
    BY <1>4 DEF ReceivePage, Collect, NextCursor
  <2>2. /\ IsInjective(page) /\ InSortOrder(params.dir, page)
        /\ \A i \in DOMAIN page : IsAfter(params.dir, searchAfter, page[i])
    BY <1>2, <1>4 DEF AnswerInv, ReceivePage
  <2>3. /\ searchAfter = IF hits = <<>> THEN NoCursor ELSE SortKey(hits[Len(hits)])
        /\ reqSize > 0
    BY <1>2, <2>1 DEF CursorInv, Requesting
  <2>4. hits # <<>> => \A i \in DOMAIN page : SortedBefore(params.dir, hits[Len(hits)], page[i])
    <3>1. hits # <<>> => searchAfter # NoCursor
      BY <2>3 DEF NoCursor, SortKey
    <3> QED  BY <2>2, <2>3, <3>1 DEF IsAfter, SortedBefore
  <2> HIDE DEF page
  <2>5. /\ IsInjective(hits \o page) /\ InSortOrder(params.dir, hits \o page)
        /\ page # <<>> => /\ hits \o page # <<>>
                          /\ (hits \o page)[Len(hits \o page)] = page[Len(page)]
    BY <1>1, <1>2, <2>2, <2>4, JoinPages DEF NoDuplicateHits, HitsInSortOrder, page
  <2>6. page = <<>> => hits \o page = hits
    BY <1>1
  <2>7. searchAfter' = IF hits' = <<>> THEN NoCursor ELSE SortKey(hits'[Len(hits')])
    BY <2>1, <2>3, <2>5, <2>6
  <2>8. FetchesAll'
    BY <2>1 DEF FetchesAll
  <2>9. CursorInv' /\ AnswerInv'
    BY <2>1, <2>3, <2>7, <2>8 DEF CursorInv, AnswerInv, BeforeFirstRequest
  <2> QED  BY <2>1, <2>5, <2>9 DEF OrderInv, NoDuplicateHits, HitsInSortOrder
<1>5. CASE ReceiveOnly
  <2>1. pc' = "filter" /\ hits' = answer.page /\ params' = params
    BY <1>5 DEF ReceiveOnly
  <2>2. IsInjective(answer.page) /\ InSortOrder(params.dir, answer.page)
    BY <1>2, <1>5 DEF AnswerInv, ReceiveOnly
  <2> QED  BY <2>1, <2>2 DEF OrderInv, NoDuplicateHits, HitsInSortOrder, CursorInv, AnswerInv,
              BeforeFirstRequest, Requesting
<1> QED  BY <1>3, <1>4, <1>5

\* After the last page the hits stay as they are.
LEMMA OrderOutput ==
  ASSUME TypeOK, OrderInv,
         FilterHit \/ FilterDone \/ WriteRecord \/ Finish \/ WriteFails
           \/ UnreadableAggregations
  PROVE  OrderInv'
<1>1. UNCHANGED <<params, hits>> /\ pc' \in {"filter", "render", "done"}
  BY DEF FilterHit, FilterDone, WriteRecord, Finish, WriteFails,
     UnreadableAggregations, Ends
<1> QED  BY <1>1, SameHits DEF OrderInv, CursorInv, AnswerInv, BeforeFirstRequest, Requesting

\* What the cluster does between two steps of the run: its answers respect the
\* cursor, and an answer on its way stays as good as it was.
LEMMA OrderEnvironment ==
  ASSUME TypeOK, OrderInv,
         \/ \E unavailable \in Unavailable : SearchAnswered(unavailable)
         \/ SearchFails \/ IndexDoc \/ DeleteDoc \/ ChangeWindow \/ Interrupt
  PROVE  OrderInv'
<1>1. UNCHANGED <<params, pc, reqSize, searchAfter, hits>>
  BY DEF SearchAnswered, SearchFails, IndexDoc, DeleteDoc, ChangeWindow,
     Interrupt, client
<1>2. NoDuplicateHits' /\ HitsInSortOrder'
  BY <1>1, SameHits
<1>3. CursorInv'
  BY <1>1 DEF OrderInv, CursorInv, BeforeFirstRequest, Requesting, FetchesAll
<1>4. CASE \E unavailable \in Unavailable : SearchAnswered(unavailable)
  <2>1. PICK unavailable \in Unavailable : SearchAnswered(unavailable)
    BY <1>4
  <2> SUFFICES ASSUME answer'.kind = "ok" PROVE AnswerInv'
    BY <1>2, <1>3 DEF OrderInv, AnswerInv
  <2>2. PICK served : /\ IsPage(params.dir, SearchAfter(params.dir, served, searchAfter),
                                reqSize, answer'.page)
                      /\ \A i \in DOMAIN answer'.page :
                            answer'.page[i] \in SearchAfter(params.dir, served, searchAfter)
    BY <2>1, AnswerGiven
  <2>3. \A i \in DOMAIN answer'.page : IsAfter(params.dir, searchAfter, answer'.page[i])
    BY <2>2 DEF SearchAfter
  <2> QED  BY <1>1, <2>2, <2>3 DEF AnswerInv, IsPage
<1>5. CASE SearchFails
  <2>1. answer'.kind # "ok"
    BY <1>5 DEF SearchFails, Refusal, ServerErrors
  <2> QED  BY <1>2, <1>3, <2>1 DEF OrderInv, AnswerInv
<1>6. CASE IndexDoc \/ DeleteDoc \/ ChangeWindow \/ Interrupt
  <2>1. answer' = answer
    BY <1>6 DEF IndexDoc, DeleteDoc, ChangeWindow, Interrupt
  <2>2. AnswerInv
    BY DEF OrderInv
  <2>3. AnswerInv'
    BY <1>1, <2>1, <2>2 DEF AnswerInv
  <2> QED  BY <1>2, <1>3, <2>3 DEF OrderInv
<1> QED  BY <1>4, <1>5, <1>6

\* Every step of the run and of its surroundings preserves the order of the pages,
\* whatever happens to the documents.
LEMMA OrderStep == TypeOK /\ OrderInv /\ [Next]_vars => OrderInv'
<1> SUFFICES ASSUME TypeOK, OrderInv, [Next]_vars PROVE OrderInv'
  OBVIOUS
<1>1. CASE UNCHANGED vars \/ Ended
  <2>1. UNCHANGED <<params, pc, reqSize, searchAfter, hits, answer>>
    BY <1>1 DEF Ended, vars, client
  <2> QED  BY <2>1 DEF OrderInv, NoDuplicateHits, HitsInSortOrder, CursorInv,
              AnswerInv, BeforeFirstRequest, Requesting, FetchesAll
<1>2. CASE Next
  BY <1>1, <1>2, OrderRequest, OrderReceive, OrderOutput, OrderEnvironment
     DEF Next, ClientStep, ServerStep, Disturbance
<1> QED  BY <1>1, <1>2

\* What a complete answer leaves out comes after its full page, from the moment
\* it is given to the moment it is received.
LEMMA AnswerCompleteStep ==
  ASSUME TypeOK, AnswerComplete, Stable' \subseteq Stable, [Next]_vars
  PROVE  AnswerComplete'
<1>1. CASE \E unavailable \in Unavailable : SearchAnswered(unavailable)
  <2>1. PICK unavailable \in Unavailable : SearchAnswered(unavailable)
    BY <1>1
  <2>2. UNCHANGED <<params, pc, reqSize, searchAfter, hits>>
    BY <2>1 DEF SearchAnswered, client
  <2> DEFINE served == SearchAfter(params.dir,
                                   {d \in Live : Home[d] \notin answer'.failed},
                                   searchAfter)
  <2> SUFFICES ASSUME answer'.kind = "ok", answer'.failed = {} PROVE AnswerComplete'
    BY DEF AnswerComplete
  <2>3. IsPage(params.dir, served, reqSize, answer'.page) /\ answer' \in Answers
    BY <2>1, AnswerGiven
  <2>4. \A d \in Stable : IsAfter(params.dir, searchAfter, d) => d \in served
    BY RunAssumption DEF RunAssumption, Stable, Live, SearchAfter
  <2> HIDE DEF served
  <2>5. \A d \in served \ Range(answer'.page) :
           /\ Len(answer'.page) = reqSize
           /\ \A i \in DOMAIN answer'.page : ~SortedBefore(params.dir, d, answer'.page[i])
    <3>1. Len(answer'.page) \in Nat /\ reqSize \in Nat
      BY <2>3 DEF TypeOK, Answers
    <3>2. Len(answer'.page) = reqSize \/ Len(answer'.page) < reqSize
      BY <2>3, <3>1 DEF IsPage
    <3> QED  BY <2>3, <3>2 DEF IsPage
  <2> QED  BY <2>2, <2>4, <2>5 DEF AnswerComplete
<1>2. CASE SearchFails
  BY <1>2 DEF SearchFails, Refusal, ServerErrors, AnswerComplete
<1>3. CASE \/ IndexDoc \/ DeleteDoc \/ ChangeWindow \/ Interrupt
           \/ Ended \/ UNCHANGED vars
  <2>1. UNCHANGED <<params, pc, reqSize, searchAfter, answer>>
    BY <1>3 DEF IndexDoc, DeleteDoc, ChangeWindow, Interrupt, Ended, vars, client
  <2> QED  BY <2>1 DEF AnswerComplete
<1>4. CASE Send
  BY <1>4 DEF Send, NoAnswer, Refusal, AnswerComplete
<1>5. CASE \/ Preflight \/ SendLookup \/ LookupAborted \/ LookupFails \/ Aborts
           \/ \E reporting \in Reporting : LookupAnswered(reporting)
           \/ ReceiveError \/ ReceivePage \/ ReceiveOnly
           \/ FilterHit \/ FilterDone \/ WriteRecord \/ Finish \/ WriteFails
           \/ UnreadableAggregations
  <2>1. pc' # "wait"
    BY <1>5 DEF Preflight, SendLookup, LookupAborted, LookupFails, Aborts,
       LookupAnswered, UseWindow, ReceiveError, ReceivePage, ReceiveOnly,
       FilterHit, FilterDone, WriteRecord, Finish, WriteFails,
       UnreadableAggregations, Ends
  <2> QED  BY <2>1 DEF AnswerComplete
<1> QED  BY <1>1, <1>2, <1>3, <1>4, <1>5
         DEF Next, ClientStep, ServerStep, Disturbance

\* Every step preserves the paging invariant.
LEMMA PagingStep == TypeOK /\ PagingInv /\ [Next]_vars => PagingInv'
<1> SUFFICES ASSUME TypeOK, PagingInv, [Next]_vars PROVE PagingInv'
  OBVIOUS
<1>1. Stable' \subseteq Stable /\ \A d \in InitialDocs : status'[d] # "absent"
  BY StableShrinks
<1> QED  BY <1>1, OrderStep, AnswerCompleteStep DEF PagingInv

\* The pages of a run stay one ordered sequence, joined by the cursor.
THEOREM PagingCorrect == Spec => []PagingInv
  BY TypeInit, TypeStep, PagingInit, PagingStep, PTL DEF Spec

\* search_after pagination never collects a document twice, although documents
\* are indexed and deleted, windows change and shards fail between the pages.
THEOREM NoDuplicates == Spec => []NoDuplicateHits
<1>1. PagingInv => NoDuplicateHits
  BY DEF PagingInv, OrderInv
<1> QED  BY <1>1, PagingCorrect, PTL

\* The concatenation of the pages is in the requested order.
THEOREM OrderKept == Spec => []HitsInSortOrder
<1>1. PagingInv => HitsInSortOrder
  BY DEF PagingInv, OrderInv
<1> QED  BY <1>1, PagingCorrect, PTL

-----------------------------------------------------------------------------
(***************************************************************************)
(* Paging: nothing is left out but ties.                                   *)
(***************************************************************************)
\* Every document comes after the absent cursor.
LEMMA NoCursorAdmitsAll == \A dir, d : IsAfter(dir, NoCursor, d)
  BY DEF IsAfter

\* The initial states satisfy the coverage invariant.
LEMMA CoverageInit == Init => CoverageInv
  BY DEF Init, CoverageInv, Requesting, NoExit, exitOK

\* A page from which no shard was missing extends what is covered up to its
\* last hit; if it is the last page, to everything.
LEMMA PageCovers ==
  ASSUME TypeOK, PagingInv, ReceivePage, answer.failed = {},
         \A d \in Stable : Represented(d) \/ IsAfter(params.dir, searchAfter, d)
  PROVE  /\ \A d \in Stable : Represented(d)' \/ IsAfter(params.dir, searchAfter', d)
         /\ pc' = "filter" => \A d \in Stable : Represented(d)'
<1> DEFINE page == answer.page
<1>1. /\ params.dir \in Directions /\ hits \in Seq(Docs) /\ page \in Seq(Docs)
      /\ reqSize \in Nat /\ \A d \in Stable : d \in Docs
  BY RunAssumption DEF RunAssumption, TypeOK, Params, Answers, Stable
<1>2. /\ hits' = hits \o page
      /\ searchAfter' = IF page = <<>> THEN searchAfter ELSE SortKey(page[Len(page)])
      /\ pc' = IF Len(page) = 0 \/ Len(page) < reqSize THEN "filter" ELSE "send"
  BY DEF ReceivePage, Collect, NextCursor, IsLastPage
<1>3. /\ reqSize > 0
      /\ \A d \in Stable \ Range(page) :
            IsAfter(params.dir, searchAfter, d) =>
                /\ Len(page) = reqSize
                /\ \A i \in DOMAIN page : ~SortedBefore(params.dir, d, page[i])
  BY DEF ReceivePage, PagingInv, OrderInv, CursorInv, AnswerComplete, Requesting
<1> HIDE DEF page
<1>4. Range(hits') = Range(hits) \cup Range(page)
  BY <1>1, <1>2, RangeConcatenation
<1>5. ASSUME NEW d \in Stable, Represented(d) \/ d \in Range(page)
      PROVE  Represented(d)'
  BY <1>4, <1>5 DEF Represented
<1>6. ASSUME NEW d \in Stable, ~Represented(d), d \notin Range(page)
      PROVE  /\ pc' # "filter"
             /\ Represented(d)' \/ IsAfter(params.dir, searchAfter', d)
  <2>1. /\ Len(page) = reqSize
        /\ \A i \in DOMAIN page : ~SortedBefore(params.dir, d, page[i])
    BY <1>3, <1>6
  <2>2. page # <<>> /\ Len(page) > 0 /\ pc' # "filter"
    BY <1>1, <1>2, <1>3, <2>1
  <2> DEFINE last == page[Len(page)]
  <2>3. Len(page) \in DOMAIN page /\ last \in Docs
    BY <1>1, <2>2
  <2>4. last \in Range(page) /\ searchAfter' = SortKey(last)
    BY <1>2, <2>2, <2>3 DEF Range
  <2> HIDE DEF last
  <2>5. SortKey(d) = SortKey(last) \/ SortedBefore(params.dir, last, d)
    <3>1. ~SortedBefore(params.dir, d, last)
      BY <2>1, <2>3 DEF last
    <3> QED  BY <1>1, <2>3, <3>1, DocumentOrder
  <2>6. CASE SortKey(d) = SortKey(last)
    BY <1>4, <2>2, <2>4, <2>6 DEF Represented
  <2>7. CASE SortedBefore(params.dir, last, d)
    BY <2>2, <2>4, <2>7 DEF SortedBefore, IsAfter
  <2> QED  BY <2>5, <2>6, <2>7
<1> QED  BY <1>5, <1>6

\* Every step preserves the coverage invariant.
LEMMA CoverageStep == TypeOK /\ PagingInv /\ CoverageInv /\ [Next]_vars => CoverageInv'
<1> SUFFICES ASSUME TypeOK, PagingInv, CoverageInv, [Next]_vars PROVE CoverageInv'
  OBVIOUS
<1> USE DEF Requesting, exitOK, NoExit
<1>1. Stable' \subseteq Stable
  BY StableShrinks
<1>2. /\ exit = exitOK => partial = {} /\ pc = "done"
      /\ pc = "done" => exit # NoExit
  BY DEF CoverageInv
<1>3. BeforeFirstRequest => searchAfter = NoCursor
  BY DEF PagingInv, OrderInv, CursorInv
<1>4. ASSUME UNCHANGED <<params, pc, searchAfter, hits, partial, exit>>
      PROVE  CoverageInv'
  BY <1>1, <1>4 DEF CoverageInv, FetchesAll, Represented
<1>5. ASSUME BeforeFirstRequest, exit # exitOK, searchAfter' = NoCursor, exit' # exitOK,
             pc' \in {"lookup", "lookupWait", "send"} \/ (pc' = "done" /\ exit' # NoExit)
      PROVE  CoverageInv'
  BY <1>5, NoCursorAdmitsAll DEF CoverageInv
<1>6. ASSUME pc' = "done", exit' \notin {exitOK, NoExit}
      PROVE  CoverageInv'
  BY <1>6 DEF CoverageInv
<1>7. CASE Preflight
  BY <1>2, <1>3, <1>5, <1>7 DEF Preflight, Ends, exitUsage, BeforeFirstRequest
<1>8. CASE SendLookup
  BY <1>2, <1>3, <1>5, <1>8 DEF SendLookup, BeforeFirstRequest
<1>9. CASE LookupAborted \/ LookupFails \/ \E reporting \in Reporting : LookupAnswered(reporting)
  <2>1. /\ pc \in {"lookup", "lookupWait"} /\ pc' = "send"
        /\ searchAfter' = searchAfter /\ exit' = exit
    BY <1>9 DEF LookupAborted, LookupFails, LookupAnswered, UseWindow
  <2> QED  BY <1>2, <1>3, <1>5, <2>1 DEF BeforeFirstRequest
<1>10. CASE Send
  <2>1. /\ pc = "send" /\ pc' = "wait"
        /\ UNCHANGED <<params, searchAfter, hits, partial, exit>>
    BY <1>10 DEF Send
  <2> QED  BY <1>1, <2>1 DEF CoverageInv, FetchesAll, Represented
<1>11. CASE Aborts \/ ReceiveError \/ WriteFails \/ UnreadableAggregations
  <2>1. pc' = "done" /\ exit' \in HardFailures
    BY <1>11 DEF Aborts, ReceiveError, WriteFails, UnreadableAggregations, Ends,
       ClassifyESError, HardFailures
  <2> QED  BY <1>6, <2>1 DEF HardFailures, exitUsage, exitConn, exitNotFound
<1>12. CASE ReceivePage
  <2>1. /\ pc = "wait" /\ FetchesAll /\ params' = params /\ exit' = exit
        /\ pc' \in {"filter", "send"}
        /\ partial' = {} => partial = {} /\ answer.failed = {}
    BY <1>12 DEF ReceivePage, KeepPartial
  <2>2. exit # exitOK
    BY <1>2, <2>1
  <2>3. partial = {} =>
          \A d \in Stable : Represented(d) \/ IsAfter(params.dir, searchAfter, d)
    BY <2>1 DEF CoverageInv
  <2>4. partial' = {} =>
          /\ \A d \in Stable : Represented(d)' \/ IsAfter(params.dir, searchAfter', d)
          /\ pc' = "filter" => \A d \in Stable : Represented(d)'
    BY <1>12, <2>1, <2>3, PageCovers
  <2> QED  BY <1>1, <2>1, <2>2, <2>4 DEF CoverageInv
<1>13. CASE ReceiveOnly
  <2>1. pc = "wait" /\ pc' = "filter" /\ ~FetchesAll /\ params' = params /\ exit' = exit
    BY <1>13 DEF ReceiveOnly
  <2> QED  BY <1>2, <2>1 DEF CoverageInv, FetchesAll
<1>14. CASE FilterHit \/ FilterDone \/ WriteRecord
  <2>1. /\ pc \in {"filter", "render"} /\ pc' \in {"filter", "render"}
        /\ UNCHANGED <<params, searchAfter, hits, partial, exit>>
    BY <1>14 DEF FilterHit, FilterDone, WriteRecord
  <2> QED  BY <1>1, <1>2, <2>1 DEF CoverageInv, FetchesAll, Represented
<1>15. CASE Finish
  <2>1. /\ pc = "render" /\ pc' = "done" /\ exit' = FinishCode(partial)
        /\ UNCHANGED <<params, searchAfter, hits, partial>>
    BY <1>15 DEF Finish, Ends
  <2>2. exit' # NoExit /\ (exit' = exitOK => partial = {})
    BY <2>1 DEF FinishCode, exitPartial
  <2> QED  BY <1>1, <2>1, <2>2 DEF CoverageInv, FetchesAll, Represented
<1>16. CASE \/ \E unavailable \in Unavailable : SearchAnswered(unavailable)
            \/ SearchFails \/ IndexDoc \/ DeleteDoc \/ ChangeWindow \/ Interrupt
            \/ Ended \/ UNCHANGED vars
  <2>1. UNCHANGED <<params, pc, searchAfter, hits, partial, exit>>
    BY <1>16 DEF SearchAnswered, SearchFails, IndexDoc, DeleteDoc, ChangeWindow,
       Interrupt, Ended, vars, client
  <2> QED  BY <1>4, <2>1
<1> QED  BY <1>7, <1>8, <1>9, <1>10, <1>11, <1>12, <1>13, <1>14, <1>15, <1>16
         DEF Next, ClientStep, ServerStep, Disturbance

\* As long as no shard fails, what has been collected is complete up to ties.
THEOREM CoverageCorrect == Spec => []CoverageInv
  BY TypeInit, TypeStep, PagingInit, PagingStep, CoverageInit, CoverageStep, PTL DEF Spec

\* Whatever the corpus does, a --size 0 run that exits 0 misses no document that
\* matched all along, unless it ties with one that was collected.
THEOREM FetchAllUpToTies == Spec => []OnlyTiesMissing
<1>1. CoverageInv => OnlyTiesMissing
  BY DEF CoverageInv, OnlyTiesMissing
<1> QED  BY <1>1, CoverageCorrect, PTL

\* Without ties across shards, a --size 0 run that exits 0 is complete.
THEOREM FetchAllIsComplete == SortKeysUnique => (Spec => []FetchAllComplete)
<1> SUFFICES ASSUME SortKeysUnique PROVE Spec => []FetchAllComplete
  OBVIOUS
<1>1. ASSUME TypeOK, OnlyTiesMissing PROVE FetchAllComplete
  <2> SUFFICES ASSUME FetchesAll, exit = exitOK, NEW d \in Stable PROVE d \in Range(hits)
    BY DEF FetchAllComplete
  <2>1. PICK e \in Range(hits) : SortKey(e) = SortKey(d)
    BY <1>1 DEF OnlyTiesMissing, Represented
  <2>2. d \in Docs /\ e \in Docs
    <3>1. hits \in Seq(Docs) /\ \A i \in DOMAIN hits : hits[i] \in Docs
      BY <1>1 DEF TypeOK
    <3> QED  BY <3>1, RunAssumption DEF RunAssumption, Stable, Range
  <2> QED  BY <2>1, <2>2 DEF SortKeysUnique
<1> QED  BY <1>1, TypeCorrect, FetchAllUpToTies, PTL
=============================================================================
