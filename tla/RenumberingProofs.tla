------------------------- MODULE RenumberingProofs -------------------------
(***************************************************************************)
(* Theorems about searches on a cluster whose `_doc' numbers change        *)
(* between two pages, for every corpus and pair of numberings.             *)
(***************************************************************************)
EXTENDS Renumbering, SearchRunProofs

-----------------------------------------------------------------------------
(***************************************************************************)
(* What a renumbering leaves alone.                                        *)
(***************************************************************************)
\* A renumbering is typed, and changes nothing but which number is in use.
LEMMA RenumberType ==
  ASSUME TypeOK, NEW s \in Shards, Renumber(s)
  PROVE  /\ TypeOK'
         /\ \A d \in Live' : d \in Live \/ Twin[d] \in Live
<1>1. /\ status \in [Docs -> {"absent", "live", "deleted"}]
      /\ Twin \in [Docs -> Docs]
  BY TwinAssumption DEF TwinAssumption, TypeOK
<1>2. status' = [d \in Docs |-> status[IF Home[d] = s THEN Twin[d] ELSE d]]
  BY DEF Renumber
<1>3. status' \in [Docs -> {"absent", "live", "deleted"}]
  BY <1>1, <1>2
<1>4. UNCHANGED <<params, client, ctxDone, limit, answer, failures>>
  BY DEF Renumber
<1>5. TypeOK'
  BY <1>3, <1>4 DEF TypeOK, client
<1> QED  BY <1>1, <1>2, <1>5 DEF Live

\* Without new documents, those that are live under a number only get fewer.
LEMMA LiveShrinks ==
  ASSUME TypeOK, [Next]_vars
  PROVE  Live' \subseteq Live
<1>1. CASE DeleteDoc
  BY <1>1 DEF DeleteDoc, TypeOK, Live
<1>2. CASE ~DeleteDoc
  <2>1. ~IndexDoc
    BY TwinAssumption DEF TwinAssumption, IndexDoc
  <2>2. status' = status
    BY <1>2, <2>1 DEF Next, ClientStep, ServerStep, Disturbance, Ended, vars,
       corpus, Preflight, SendLookup, LookupAborted, Send, Aborts, ReceiveError,
       ReceivePage, ReceiveOnly, FilterHit, FilterDone, WriteRecord, Finish,
       LookupAnswered, SearchAnswered, LookupFails, WriteFails,
       UnreadableAggregations, SearchFails, ChangeWindow, Interrupt, UseWindow
  <2> QED  BY <2>2 DEF Live
<1> QED  BY <1>1, <1>2

\* Every step preserves the types.
LEMMA RenumberedTypeStep == TypeOK /\ [RenumberedNext]_vars => TypeOK'
  BY TypeStep, RenumberType DEF RenumberedNext

\* Types survive a renumbering.
THEOREM RenumberedType == RenumberedSpec => []TypeOK
  BY TypeInit, RenumberedTypeStep, PTL DEF RenumberedSpec

\* Every step preserves the order of the pages: they are ordered by the numbers
\* the documents had when they were collected.
LEMMA RenumberedOrderStep ==
  TypeOK /\ OrderInv /\ [RenumberedNext]_vars => OrderInv'
<1> SUFFICES ASSUME TypeOK, OrderInv, NEW s \in Shards, Renumber(s) PROVE OrderInv'
  BY OrderStep DEF RenumberedNext
<1>1. UNCHANGED <<params, pc, reqSize, searchAfter, hits, answer>>
  BY DEF Renumber, client
<1> QED  BY <1>1 DEF OrderInv, NoDuplicateHits, HitsInSortOrder, CursorInv,
            AnswerInv, BeforeFirstRequest, Requesting, FetchesAll

\* The cursor invariant does not depend on lasting numbers.
THEOREM RenumberedOrder == RenumberedSpec => []OrderInv
<1>1. Init => OrderInv
  BY PagingInit DEF PagingInv
<1> QED  BY <1>1, TypeInit, RenumberedTypeStep, RenumberedOrderStep, PTL
         DEF RenumberedSpec

\* Hits in the order of their sort keys are in the order of their times.
LEMMA TimeOrder == TypeOK /\ OrderInv => HitsInTimeOrder
  BY DEF OrderInv, HitsInSortOrder, InSortOrder, SortedBefore, KeyBefore, SortKey,
     HitsInTimeOrder

\* The order by time survives all renumberings, in both directions.
THEOREM TimeOrderKept == RenumberedSpec => []HitsInTimeOrder
  BY TimeOrder, RenumberedType, RenumberedOrder, PTL

-----------------------------------------------------------------------------
(***************************************************************************)
(* Repetitions.                                                            *)
(***************************************************************************)
\* The next page ends at the next multiple of the page size.
LEMMA NextMultiple ==
  ASSUME NEW a \in Nat, NEW r \in Nat \ {0}, a % r = 0
  PROVE  (a + r) % r = 0
<1> DEFINE q == a \div r
<1>1. a = r * q /\ q \in Nat
  OBVIOUS
<1> HIDE DEF q
<1>2. a + r = r * (q + 1) /\ q + 1 \in Nat
  BY <1>1
<1>3. \A m \in Nat : (r * m) % r = 0
  OBVIOUS
<1> QED  BY <1>2, <1>3

\* What the other steps leave as it is while answers are received: the hits, and
\* the page size once there are hits; and where they lead the run.
LEMMA OtherSteps ==
  ASSUME TypeOK, OrderInv, exit = exitOK => pc = "done",
         [Next]_vars, ~ReceivePage, ~ReceiveOnly
  PROVE  /\ UNCHANGED <<params, hits, partial, searchAfter>>
         /\ hits = <<>> \/ reqSize' = reqSize
         /\ \/ pc' # "wait" \/ answer'.kind # "ok"
            \/ pc = "wait" /\ UNCHANGED <<answer, reqSize>>
            \/ \E unavailable \in Unavailable : SearchAnswered(unavailable)
         /\ Requesting' => Requesting \/ BeforeFirstRequest
         /\ pc' \in {"filter", "render"} => pc \in {"filter", "render"}
         /\ exit' = exitOK => \/ exit = exitOK /\ pc' = pc
                              \/ pc = "render" /\ pc' = "done" /\ partial = {}
<1> USE DEF Requesting, BeforeFirstRequest
<1>1. BeforeFirstRequest => hits = <<>>
  BY DEF OrderInv, CursorInv
<1>2. CASE Preflight
  BY <1>1, <1>2 DEF Preflight, Ends, exitUsage, exitOK
<1>3. ASSUME NEW w, pc \in {"lookup", "lookupWait"}, UseWindow(w)
      PROVE  /\ UNCHANGED <<params, hits, partial, searchAfter, exit>>
             /\ hits = <<>> /\ pc' = "send" /\ BeforeFirstRequest
  BY <1>1, <1>3 DEF UseWindow
<1>4. CASE LookupAborted \/ LookupFails \/ \E reporting \in Reporting : LookupAnswered(reporting)
  <2>1. PICK w : pc \in {"lookup", "lookupWait"} /\ UseWindow(w)
    BY <1>4 DEF LookupAborted, LookupFails, LookupAnswered
  <2>2. /\ UNCHANGED <<params, hits, partial, searchAfter, exit>>
        /\ hits = <<>> /\ pc' = "send" /\ BeforeFirstRequest
    BY <1>3, <2>1
  <2>3. exit' # exitOK
    BY <2>1, <2>2
  <2> QED  BY <2>2, <2>3
<1>5. CASE Aborts \/ ReceiveError
  <2>1. pc' = "done" /\ exit' \in {exitConn, exitNotFound}
    BY <1>5 DEF Aborts, ReceiveError, Ends, ClassifyESError
  <2>2. UNCHANGED <<params, hits, partial, searchAfter, reqSize>>
    BY <1>5 DEF Aborts, ReceiveError
  <2> QED  BY <2>1, <2>2 DEF exitConn, exitNotFound, exitOK
<1>11. CASE SendLookup
  BY <1>11 DEF SendLookup
<1>12. CASE Send
  BY <1>12 DEF Send, NoAnswer, Refusal
<1>6. CASE FilterHit \/ FilterDone \/ WriteRecord \/ WriteFails \/ UnreadableAggregations
  BY <1>6 DEF FilterHit, FilterDone, WriteRecord, WriteFails,
     UnreadableAggregations, Ends, exitUsage, exitOK
<1>7. CASE Finish
  BY <1>7 DEF Finish, Ends, FinishCode, exitPartial, exitOK
<1>8. CASE \E unavailable \in Unavailable : SearchAnswered(unavailable)
  <2>1. UNCHANGED client /\ UNCHANGED params
    BY <1>8 DEF SearchAnswered
  <2> QED  BY <1>8, <2>1 DEF client
<1>9. CASE SearchFails
  BY <1>9 DEF SearchFails, Refusal, ServerErrors, client
<1>10. CASE IndexDoc \/ DeleteDoc \/ ChangeWindow \/ Interrupt \/ Ended \/ UNCHANGED vars
  <2>1. UNCHANGED <<params, client, answer>>
    BY <1>10 DEF IndexDoc, DeleteDoc, ChangeWindow, Interrupt, Ended, vars
  <2> QED  BY <2>1 DEF client
<1> QED  BY <1>2, <1>4, <1>5, <1>6, <1>7, <1>8, <1>9, <1>10, <1>11, <1>12
         DEF Next, ClientStep, ServerStep, Disturbance

\* Between two occurrences of a document all hits have its time, since the hits
\* are in the order of time.
LEMMA BetweenOccurrences ==
  ASSUME NEW dir \in Directions, NEW h \in Seq(Docs),
         \A i, j \in DOMAIN h : i < j => ~TimeBefore(dir, TimeOf[h[j]], TimeOf[h[i]]),
         NEW i \in DOMAIN h, NEW j \in DOMAIN h, i < j, SameDocument(h[i], h[j]),
         NEW k \in i..j
  PROVE  TimeOf[h[k]] = TimeOf[h[i]]
<1>1. /\ DOMAIN h = 1..Len(h) /\ Len(h) \in Nat /\ k \in DOMAIN h
      /\ h[i] \in Docs /\ h[j] \in Docs /\ h[k] \in Docs
  OBVIOUS
<1>2. TimeOf[h[j]] = TimeOf[h[i]]
  BY <1>1, TwinAssumption DEF TwinAssumption, SameDocument
<1>3. TimeOf[h[i]] \in Int /\ TimeOf[h[k]] \in Int
  BY <1>1, CorpusAssumption DEF CorpusAssumption
<1>4. i = k \/ ~TimeBefore(dir, TimeOf[h[k]], TimeOf[h[i]])
  BY <1>1
<1>5. j = k \/ ~TimeBefore(dir, TimeOf[h[j]], TimeOf[h[k]])
  BY <1>1
<1> QED  BY <1>2, <1>3, <1>4, <1>5 DEF TimeBefore

\* A page without a repetition, put after full pages, leaves each repetition
\* with a page end inside.
LEMMA RepeatReceive ==
  ASSUME TypeOK, OrderInv, RepeatInv, OrderInv', TypeOK', ReceivePage
  PROVE  /\ FetchesAll' /\ Requesting' => Len(hits') % reqSize' = 0
         /\ RepeatsStraddlePages'
<1> DEFINE page == answer.page  m == Len(hits)  n == Len(page)
<1>1. /\ params.dir \in Directions /\ hits \in Seq(Docs) /\ page \in Seq(Docs)
      /\ m \in Nat /\ n \in Nat /\ reqSize \in Nat \ {0} /\ n <= reqSize
      /\ m % reqSize = 0
  <2>1. pc = "wait" /\ answer.kind = "ok" /\ FetchesAll
    BY DEF ReceivePage
  <2>2. n <= reqSize /\ reqSize > 0 /\ m % reqSize = 0
    BY <2>1 DEF OrderInv, CursorInv, AnswerInv, RepeatInv, Requesting
  <2>3. /\ params.dir \in Directions /\ hits \in Seq(Docs) /\ page \in Seq(Docs)
        /\ reqSize \in Nat
    BY RunAssumption DEF RunAssumption, TypeOK, Params, Answers
  <2> QED  BY <2>2, <2>3
<1>2. /\ hits' = hits \o page /\ reqSize' = reqSize /\ params' = params
      /\ pc' = IF n = 0 \/ n < reqSize THEN "filter" ELSE "send"
  BY DEF ReceivePage, Collect, IsLastPage
<1>3. \A i, j \in DOMAIN page : i < j => ~SameDocument(page[i], page[j])
  <2>1. pc = "wait" /\ answer.kind = "ok"
    BY DEF ReceivePage
  <2>2. IsInjective(page) /\ \A i, j \in DOMAIN page : page[j] # Twin[page[i]]
    BY <2>1 DEF OrderInv, AnswerInv, RepeatInv
  <2> QED  BY <1>1, <2>2 DEF IsInjective, SameDocument
<1>4. RepeatsStraddlePages /\ HitsInTimeOrder'
  <2>1. HitsInTimeOrder'
    BY DEF OrderInv, HitsInSortOrder, InSortOrder, SortedBefore, KeyBefore, SortKey,
       HitsInTimeOrder
  <2> QED  BY <2>1 DEF RepeatInv
<1> HIDE DEF page, m, n
<1>5. ASSUME FetchesAll', Requesting' PROVE Len(hits') % reqSize' = 0
  <2>1. n = reqSize
    BY <1>1, <1>2, <1>5 DEF Requesting
  <2>2. Len(hits') = m + n
    BY <1>1, <1>2 DEF m, n
  <2> QED  BY <1>1, <1>2, <2>1, <2>2, NextMultiple
<1>6. ASSUME NEW i \in DOMAIN hits', NEW j \in DOMAIN hits', i < j,
             SameDocument(hits'[i], hits'[j])
      PROVE  \E k \in i..(j - 1) : k % reqSize = 0
  <2>1. /\ DOMAIN hits' = 1..(m + n) /\ i \in Int /\ j \in Int
        /\ \A l \in 1..m : hits'[l] = hits[l] /\ l \in DOMAIN hits
        /\ \A l \in (m + 1)..(m + n) : hits'[l] = page[l - m] /\ l - m \in DOMAIN page
    BY <1>1, <1>2 DEF m, n
  <2>2. CASE j <= m
    <3>1. i \in 1..m /\ j \in 1..m
      BY <1>1, <2>1, <2>2, <1>6
    <3> QED  BY <1>4, <1>6, <2>1, <3>1 DEF RepeatsStraddlePages
  <2>3. CASE i > m
    <3>1. i \in (m + 1)..(m + n) /\ j \in (m + 1)..(m + n) /\ i - m < j - m
      BY <1>1, <1>6, <2>1, <2>3
    <3> QED  BY <1>3, <1>6, <2>1, <3>1
  <2>4. CASE i <= m /\ j > m
    <3>1. m \in i..(j - 1)
      BY <1>1, <2>1, <2>4
    <3> QED  BY <1>1, <3>1
  <2> QED  BY <1>1, <2>1, <2>2, <2>3, <2>4
<1>7. ASSUME NEW i \in DOMAIN hits', NEW j \in DOMAIN hits', i < j,
             SameDocument(hits'[i], hits'[j])
      PROVE  \A k \in i..j : TimeOf[hits'[k]] = TimeOf[hits'[i]]
  <2>1. \A k, l \in DOMAIN hits' : k < l => ~TimeBefore(params.dir, TimeOf[hits'[l]], TimeOf[hits'[k]])
    BY <1>2, <1>4 DEF HitsInTimeOrder
  <2>2. hits' \in Seq(Docs)
    BY DEF TypeOK
  <2> QED  BY <1>1, <1>7, <2>1, <2>2, BetweenOccurrences
<1> QED  BY <1>2, <1>5, <1>6, <1>7 DEF RepeatsStraddlePages

\* The initial states satisfy both strengthenings.
LEMMA RenumberedInit == Init => RepeatInv /\ LossInv
<1> SUFFICES ASSUME Init PROVE RepeatInv /\ LossInv
  OBVIOUS
<1>1. hits = <<>> /\ pc = "start" /\ exit = NoExit
  BY DEF Init
<1>2. \A d \in Live : Twin[d] \notin Live
  BY TwinAssumption DEF TwinAssumption, Init, Live
<1>3. RepeatsStraddlePages
  BY <1>1 DEF RepeatsStraddlePages
<1> QED  BY <1>1, <1>2, <1>3
         DEF RepeatInv, LossInv, Requesting, AfterLastAnswer, NoExit, exitOK

\* Every step of the run and its surroundings preserves it; an answer is made of
\* live numbers.
LEMMA RepeatStep ==
  ASSUME TypeOK, OrderInv, RepeatInv, LossInv, TypeOK', OrderInv', [Next]_vars
  PROVE  RepeatInv'
<1>1. \A d \in Live' : Twin[d] \notin Live'
  BY LiveShrinks DEF RepeatInv
<1>2. CASE ReceivePage
  <2>1. pc' # "wait"
    BY <1>2 DEF ReceivePage
  <2> QED  BY <1>1, <1>2, <2>1, RepeatReceive DEF RepeatInv
<1>3. CASE ReceiveOnly
  <2>1. /\ hits' = answer.page /\ pc = "wait" /\ answer.kind = "ok"
        /\ pc' = "filter"
    BY <1>3 DEF ReceiveOnly
  <2>2. IsInjective(hits') /\ \A i, j \in DOMAIN hits' : hits'[j] # Twin[hits'[i]]
    BY <2>1 DEF OrderInv, AnswerInv, RepeatInv
  <2>3. hits' \in Seq(Docs)
    BY DEF TypeOK
  <2>4. \A i, j \in DOMAIN hits' : i < j => ~SameDocument(hits'[i], hits'[j])
    BY <2>2, <2>3 DEF IsInjective, SameDocument
  <2>5. RepeatsStraddlePages'
    BY <2>4 DEF RepeatsStraddlePages
  <2> QED  BY <1>1, <2>1, <2>5 DEF RepeatInv, Requesting
<1>4. CASE ~ReceivePage /\ ~ReceiveOnly
  <2>1. exit = exitOK => pc = "done"
    BY DEF LossInv
  <2>2. /\ UNCHANGED <<params, hits>>
        /\ hits = <<>> \/ reqSize' = reqSize
        /\ \/ pc' # "wait" \/ answer'.kind # "ok"
           \/ pc = "wait" /\ UNCHANGED <<answer, reqSize>>
           \/ \E unavailable \in Unavailable : SearchAnswered(unavailable)
        /\ Requesting' => Requesting \/ BeforeFirstRequest
    BY <1>4, <2>1, OtherSteps
  <2>3. RepeatsStraddlePages'
    BY <2>2 DEF RepeatInv, RepeatsStraddlePages
  <2>4. ASSUME FetchesAll', Requesting' PROVE Len(hits') % reqSize' = 0
    <3>1. reqSize' \in Nat /\ reqSize' > 0
      BY <2>4 DEF OrderInv, CursorInv, TypeOK
    <3>2. CASE hits = <<>>
      <4>1. Len(hits') = 0
        BY <2>2, <3>2
      <4>2. \A r \in Nat \ {0} : 0 % r = 0
        OBVIOUS
      <4>3. reqSize' \in Nat \ {0}
        BY <3>1
      <4> QED  BY <4>1, <4>2, <4>3
    <3>3. CASE hits # <<>>
      <4>1. Requesting /\ FetchesAll
        BY <2>2, <2>4, <3>3 DEF OrderInv, CursorInv, FetchesAll
      <4> QED  BY <2>2, <3>3, <4>1 DEF RepeatInv
    <3> QED  BY <3>2, <3>3
  <2>5. ASSUME pc' = "wait", answer'.kind = "ok"
        PROVE  \A i, j \in DOMAIN answer'.page : answer'.page[j] # Twin[answer'.page[i]]
    <3>1. CASE pc = "wait" /\ UNCHANGED <<answer, reqSize>>
      BY <2>5, <3>1 DEF RepeatInv
    <3>2. CASE \E unavailable \in Unavailable : SearchAnswered(unavailable)
      <4>1. \A i \in DOMAIN answer'.page : answer'.page[i] \in Live
        BY <2>5, <3>2, AnswerGiven DEF SearchAfter
      <4> QED  BY <4>1 DEF RepeatInv
    <3> QED  BY <2>2, <2>5, <3>1, <3>2
  <2> QED  BY <1>1, <2>3, <2>4, <2>5 DEF RepeatInv
<1> QED  BY <1>2, <1>3, <1>4

\* A renumbering takes one number of each document for the other.
LEMMA RepeatRenumber ==
  ASSUME TypeOK, RepeatInv, NEW s \in Shards, Renumber(s)
  PROVE  RepeatInv'
<1>1. /\ status \in [Docs -> {"absent", "live", "deleted"}]
      /\ \A d \in Docs : /\ Twin[d] \in Docs /\ Twin[Twin[d]] = d
                         /\ Home[Twin[d]] = Home[d]
  BY TwinAssumption DEF TwinAssumption, TypeOK
<1>2. status' = [d \in Docs |-> status[IF Home[d] = s THEN Twin[d] ELSE d]]
  BY DEF Renumber
<1>3. ASSUME NEW d \in Live', Twin[d] \in Live' PROVE FALSE
  <2>1. d \in Docs /\ Twin[d] \in Docs /\ status'[d] = "live" /\ status'[Twin[d]] = "live"
    BY <1>3 DEF Live
  <2>2. status[d] = "live" /\ status[Twin[d]] = "live"
    BY <1>1, <1>2, <2>1
  <2> QED  BY <2>1, <2>2 DEF RepeatInv, Live
<1>4. UNCHANGED <<params, pc, reqSize, hits, answer>>
  BY DEF Renumber, client
<1> QED  BY <1>3, <1>4 DEF RepeatInv, RepeatsStraddlePages, Requesting, FetchesAll

-----------------------------------------------------------------------------
(***************************************************************************)
(* Losses.                                                                 *)
(***************************************************************************)
\* What is collected stays so, and the page ends stay where they are.
LEMMA CoveredStays ==
  ASSUME NEW d,
         hits = <<>> \/ reqSize' = reqSize,
         \A i \in DOMAIN hits : i \in DOMAIN hits' /\ hits'[i] = hits[i],
         Collected(d) \/ TiesAtPageEnd(d)
  PROVE  (Collected(d) \/ TiesAtPageEnd(d))'
<1>1. CASE Collected(d)
  BY <1>1 DEF Collected, SameDocument
<1>2. CASE TiesAtPageEnd(d)
  <2>1. PICK i \in DOMAIN hits : i % reqSize = 0 /\ TimeOf[hits[i]] = TimeOf[d]
    BY <1>2 DEF TiesAtPageEnd
  <2>2. hits # <<>>
    BY <2>1
  <2>3. i \in DOMAIN hits' /\ i % reqSize' = 0 /\ TimeOf[hits'[i]] = TimeOf[d]
    BY <2>1, <2>2
  <2> QED  BY <2>3 DEF TiesAtPageEnd
<1> QED  BY <1>1, <1>2

\* A page that is received accounts for everything but what comes after its last
\* hit; and for all if it is not full.
LEMMA LossReceive ==
  ASSUME TypeOK, OrderInv, RepeatInv, LossInv, ReceivePage, partial' = {},
         NEW d \in Live
  PROVE  \/ (Collected(d) \/ TiesAtPageEnd(d))'
         \/ pc' = "send" /\ IsAfter(params.dir, searchAfter', d)
<1> DEFINE page == answer.page  m == Len(hits)  n == Len(page)
<1>1. /\ pc = "wait" /\ answer.kind = "ok" /\ FetchesAll
      /\ partial = {} /\ answer.failed = {}
  BY DEF ReceivePage, KeepPartial
<1>2. /\ hits \in Seq(Docs) /\ page \in Seq(Docs) /\ m \in Nat /\ n \in Nat
      /\ d \in Docs /\ params.dir \in Directions
  <2>1. hits \in Seq(Docs) /\ page \in Seq(Docs) /\ d \in Docs
    BY DEF TypeOK, Answers, Live
  <2>2. params.dir \in Directions
    BY RunAssumption DEF RunAssumption, TypeOK, Params
  <2> QED  BY <2>1, <2>2
<1>3. /\ hits' = hits \o page /\ reqSize' = reqSize
      /\ searchAfter' = IF page = <<>> THEN searchAfter ELSE SortKey(page[n])
      /\ pc' = IF n = 0 \/ n < reqSize THEN "filter" ELSE "send"
  BY DEF ReceivePage, Collect, IsLastPage, NextCursor
<1>4. reqSize \in Nat /\ reqSize > 0 /\ m % reqSize = 0
  BY <1>1 DEF TypeOK, OrderInv, CursorInv, RepeatInv, Requesting
<1>5. Collected(d) \/ TiesAtPageEnd(d) \/ AnswerAccountsFor(d)
  BY <1>1 DEF LossInv
<1>6. /\ \A i \in DOMAIN hits : i \in DOMAIN hits' /\ hits'[i] = hits[i]
      /\ \A i \in 1..n : m + i \in DOMAIN hits' /\ hits'[m + i] = page[i]
      /\ DOMAIN page = 1..n
  BY <1>2, <1>3
<1>7. CASE Collected(d) \/ TiesAtPageEnd(d)
  BY <1>3, <1>6, <1>7, CoveredStays
<1>8. CASE \E i \in DOMAIN page : SameDocument(d, page[i])
  BY <1>6, <1>8 DEF Collected, SameDocument
<1>9. CASE /\ n = reqSize
           /\ ~TimeBefore(params.dir, TimeOf[d], TimeOf[page[n]])
  <2> HIDE DEF m
  <2>1. n \in 1..n /\ page # <<>> /\ page[n] \in Docs
    BY <1>2, <1>4, <1>9
  <2>2. pc' = "send" /\ searchAfter' = SortKey(page[n])
    BY <1>3, <1>4, <1>9, <2>1
  <2> DEFINE last == page[n]
  <2>3. TimeOf[d] \in Int /\ TimeOf[last] \in Int
    BY <1>2, <2>1, CorpusAssumption DEF CorpusAssumption
  <2>4. TimeOf[last] = TimeOf[d] \/ TimeBefore(params.dir, TimeOf[last], TimeOf[d])
    BY <1>9, <2>3 DEF TimeBefore
  <2>5. CASE TimeBefore(params.dir, TimeOf[last], TimeOf[d])
    BY <2>2, <2>5 DEF IsAfter, KeyBefore, SortKey
  <2>6. CASE TimeOf[last] = TimeOf[d]
    <3>1. (m + n) % reqSize' = 0
      <4>1. m \in Nat /\ reqSize \in Nat \ {0}
        BY <1>2, <1>4
      <4> QED  BY <1>3, <1>4, <1>9, <4>1, NextMultiple
    <3>2. m + n \in DOMAIN hits' /\ hits'[m + n] = last
      BY <1>6, <2>1
    <3> QED  BY <2>6, <3>1, <3>2 DEF TiesAtPageEnd
  <2> QED  BY <2>4, <2>5, <2>6
<1> QED  BY <1>5, <1>7, <1>8, <1>9 DEF AnswerAccountsFor

\* An answer from all shards accounts for every document that is there and has
\* not been passed by the cursor.
LEMMA LossAnswer ==
  ASSUME TypeOK, NEW unavailable \in Unavailable, SearchAnswered(unavailable),
         reqSize > 0, answer'.kind = "ok", answer'.failed = {},
         NEW d \in Live, IsAfter(params.dir, searchAfter, d)
  PROVE  AnswerAccountsFor(d)'
<1> DEFINE page == answer'.page
           served == SearchAfter(params.dir,
                                 {e \in Live : Home[e] \notin answer'.failed},
                                 searchAfter)
<1>1. answer' \in Answers /\ IsPage(params.dir, served, reqSize, page)
  BY AnswerGiven
<1>2. d \in served
  BY DEF SearchAfter
<1>3. params' = params /\ reqSize' = reqSize
  BY DEF SearchAnswered, client
<1>4. page \in Seq(Docs) /\ reqSize \in Nat
  BY <1>1 DEF Answers, TypeOK
<1> HIDE DEF served, page
<1>5. CASE d \in Range(page)
  <2>1. PICK i \in DOMAIN page : page[i] = d
    BY <1>5 DEF Range
  <2> QED  BY <2>1 DEF AnswerAccountsFor, SameDocument, page
<1>6. CASE d \notin Range(page)
  <2>1. Len(page) = reqSize /\ \A i \in DOMAIN page : ~SortedBefore(params.dir, d, page[i])
    <3>1. Len(page) = reqSize \/ Len(page) < reqSize
      BY <1>1, <1>4 DEF IsPage
    <3> QED  BY <1>1, <1>2, <1>6, <3>1 DEF IsPage
  <2>2. reqSize \in DOMAIN page
    BY <1>4, <2>1
  <2>3. ~TimeBefore(params.dir, TimeOf[d], TimeOf[page[reqSize]])
    BY <2>1, <2>2 DEF SortedBefore, KeyBefore, SortKey
  <2> QED  BY <1>3, <2>1, <2>3 DEF AnswerAccountsFor, page
<1> QED  BY <1>5, <1>6

\* Every step of the run and its surroundings preserves the invariant.
LEMMA LossStep ==
  ASSUME TypeOK, OrderInv, RepeatInv, LossInv, [Next]_vars
  PROVE  LossInv'
<1>1. Live' \subseteq Live
  BY LiveShrinks
<1>2. exit = exitOK => pc = "done" /\ partial = {}
  BY DEF LossInv
<1>3. CASE ReceivePage
  <2>1. /\ pc = "wait" /\ exit' = exit /\ params' = params
        /\ pc' \in {"filter", "send"}
    BY <1>3 DEF ReceivePage
  <2>2. exit' # exitOK
    BY <1>2, <2>1
  <2>3. partial' = {} =>
          \A d \in Live' : \/ (Collected(d) \/ TiesAtPageEnd(d))'
                           \/ pc' = "send" /\ IsAfter(params.dir, searchAfter', d)
    BY <1>1, <1>3, LossReceive
  <2> QED  BY <2>1, <2>2, <2>3 DEF LossInv, AfterLastAnswer, Requesting
<1>4. CASE ReceiveOnly
  <2>1. /\ pc = "wait" /\ exit' = exit /\ params' = params /\ ~FetchesAll
    BY <1>4 DEF ReceiveOnly
  <2> QED  BY <1>2, <2>1 DEF LossInv, FetchesAll
<1>5. CASE ~ReceivePage /\ ~ReceiveOnly
  <2>1. /\ UNCHANGED <<params, hits, partial, searchAfter>>
        /\ hits = <<>> \/ reqSize' = reqSize
        /\ \/ pc' # "wait" \/ answer'.kind # "ok"
           \/ pc = "wait" /\ UNCHANGED <<answer, reqSize>>
           \/ \E unavailable \in Unavailable : SearchAnswered(unavailable)
        /\ Requesting' => Requesting \/ BeforeFirstRequest
        /\ pc' \in {"filter", "render"} => pc \in {"filter", "render"}
        /\ exit' = exitOK => \/ exit = exitOK /\ pc' = pc
                             \/ pc = "render" /\ pc' = "done" /\ partial = {}
    BY <1>2, <1>5, OtherSteps
  <2>2. exit' = exitOK => pc' = "done" /\ partial' = {}
    BY <1>2, <2>1
  <2>3. AfterLastAnswer' => AfterLastAnswer
    BY <2>1 DEF AfterLastAnswer
  <2>4. \A d : Collected(d) \/ TiesAtPageEnd(d) => (Collected(d) \/ TiesAtPageEnd(d))'
    BY <2>1, CoveredStays
  <2> SUFFICES ASSUME FetchesAll, partial = {}, NEW d \in Live',
                      ~(Collected(d) \/ TiesAtPageEnd(d))
               PROVE  /\ Requesting' => IsAfter(params.dir, searchAfter, d)
                      /\ pc' = "wait" /\ answer'.kind = "ok" /\ answer'.failed = {} =>
                            AnswerAccountsFor(d)'
                      /\ ~AfterLastAnswer'
    BY <2>1, <2>2, <2>4 DEF LossInv, FetchesAll
  <2>5. d \in Live
    BY <1>1
  <2>6. ~AfterLastAnswer'
    BY <2>3, <2>5 DEF LossInv
  <2>7. ASSUME Requesting' PROVE IsAfter(params.dir, searchAfter, d)
    <3>1. CASE Requesting
      BY <2>5, <3>1 DEF LossInv
    <3>2. CASE BeforeFirstRequest
      BY <3>2, NoCursorAdmitsAll DEF OrderInv, CursorInv
    <3> QED  BY <2>1, <2>7, <3>1, <3>2
  <2>8. ASSUME pc' = "wait", answer'.kind = "ok", answer'.failed = {}
        PROVE  AnswerAccountsFor(d)'
    <3>1. CASE pc = "wait" /\ UNCHANGED <<answer, reqSize>>
      <4>1. AnswerAccountsFor(d)
        BY <2>5, <2>8, <3>1 DEF LossInv
      <4> QED  BY <2>1, <3>1, <4>1 DEF AnswerAccountsFor
    <3>2. CASE \E unavailable \in Unavailable : SearchAnswered(unavailable)
      <4>1. pc = "wait" /\ Requesting'
        BY <2>8, <3>2 DEF SearchAnswered, Requesting
      <4>2. reqSize > 0
        BY <4>1 DEF OrderInv, CursorInv, Requesting
      <4> QED  BY <2>5, <2>7, <2>8, <3>2, <4>1, <4>2, LossAnswer
    <3> QED  BY <2>1, <2>8, <3>1, <3>2
  <2> QED  BY <2>6, <2>7, <2>8
<1> QED  BY <1>3, <1>4, <1>5

\* A renumbering moves a document past the cursor only among those with the time
\* of the last hit, where a page has just ended.
LEMMA LossRenumber ==
  ASSUME TypeOK, OrderInv, RepeatInv, LossInv, NEW s \in Shards, Renumber(s)
  PROVE  LossInv'
<1>1. UNCHANGED <<params, pc, reqSize, searchAfter, hits, partial, exit, answer>>
  BY DEF Renumber, client
<1>2. \A d \in Live' : d \in Live \/ Twin[d] \in Live
  BY RenumberType
<1>3. exit = exitOK => pc = "done" /\ partial = {}
  BY DEF LossInv
<1>4. \A d \in Docs : /\ Twin[d] \in Docs /\ TimeOf[Twin[d]] = TimeOf[d]
                      /\ \A e : SameDocument(Twin[d], e) <=> SameDocument(d, e)
  BY TwinAssumption DEF TwinAssumption, SameDocument
<1>5. \A d \in Docs : /\ Collected(Twin[d]) <=> Collected(d)
                      /\ TiesAtPageEnd(Twin[d]) <=> TiesAtPageEnd(d)
                      /\ AnswerAccountsFor(Twin[d]) <=> AnswerAccountsFor(d)
  BY <1>4 DEF Collected, TiesAtPageEnd, AnswerAccountsFor
<1>6. \A d : /\ Collected(d)' <=> Collected(d)
             /\ TiesAtPageEnd(d)' <=> TiesAtPageEnd(d)
             /\ AnswerAccountsFor(d)' <=> AnswerAccountsFor(d)
  BY <1>1 DEF Collected, TiesAtPageEnd, AnswerAccountsFor, SameDocument
<1> SUFFICES ASSUME FetchesAll, partial = {}, NEW d \in Live',
                    ~(Collected(d) \/ TiesAtPageEnd(d))
             PROVE  /\ Requesting => IsAfter(params.dir, searchAfter, d)
                    /\ pc = "wait" /\ answer.kind = "ok" /\ answer.failed = {} =>
                          AnswerAccountsFor(d)
                    /\ ~AfterLastAnswer
  BY <1>1, <1>3, <1>6 DEF LossInv, FetchesAll, Requesting, AfterLastAnswer
<1>7. d \in Docs
  BY DEF Live
<1>8. PICK e \in Live : e = d \/ e = Twin[d]
  BY <1>2
<1>9. /\ ~(Collected(e) \/ TiesAtPageEnd(e)) /\ e \in Docs
      /\ TimeOf[e] = TimeOf[d]
      /\ AnswerAccountsFor(e) => AnswerAccountsFor(d)
  BY <1>4, <1>5, <1>7, <1>8
<1>10. ~AfterLastAnswer
  BY <1>9 DEF LossInv
<1>11. ASSUME pc = "wait", answer.kind = "ok", answer.failed = {}
       PROVE  AnswerAccountsFor(d)
  BY <1>9, <1>11 DEF LossInv
<1>12. ASSUME Requesting PROVE IsAfter(params.dir, searchAfter, d)
  <2>1. IsAfter(params.dir, searchAfter, e)
    BY <1>9, <1>12 DEF LossInv
  <2>2. searchAfter = IF hits = <<>> THEN NoCursor ELSE SortKey(hits[Len(hits)])
    BY <1>12 DEF OrderInv, CursorInv
  <2>3. CASE hits = <<>>
    BY <2>2, <2>3, NoCursorAdmitsAll
  <2>4. CASE hits # <<>>
    <3> DEFINE last == hits[Len(hits)]
    <3>1. Len(hits) \in DOMAIN hits
      BY <2>4 DEF TypeOK
    <3>2. TimeOf[last] # TimeOf[d]
      <4>1. Len(hits) % reqSize = 0
        BY <1>12 DEF RepeatInv
      <4> QED  BY <3>1, <4>1 DEF TiesAtPageEnd
    <3>3. searchAfter = SortKey(last) /\ searchAfter # NoCursor
      BY <2>2, <2>4 DEF SortKey, NoCursor
    <3>4. TimeBefore(params.dir, TimeOf[last], TimeOf[d])
      BY <1>9, <2>1, <3>2, <3>3 DEF IsAfter, KeyBefore, SortKey
    <3> QED  BY <3>3, <3>4 DEF IsAfter, KeyBefore, SortKey
  <2> QED  BY <2>3, <2>4
<1> QED  BY <1>10, <1>11, <1>12

\* Every step of the cluster that renumbers preserves both.
LEMMA RenumberedStep ==
  TypeOK /\ OrderInv /\ RepeatInv /\ LossInv /\ TypeOK' /\ OrderInv'
    /\ [RenumberedNext]_vars => RepeatInv' /\ LossInv'
  BY RepeatStep, LossStep, RepeatRenumber, LossRenumber DEF RenumberedNext

\* Each document has one number at a time and a page is appended to full pages
\* only; what is missing of a search without failed shards has the time of a
\* page's end.
THEOREM RenumberedCorrect == RenumberedSpec => [](RepeatInv /\ LossInv)
  BY TypeInit, RenumberedInit, RenumberedStep, RenumberedType, RenumberedOrder, PTL
     DEF RenumberedSpec

\* A document is repeated only where a page ended in between, and among hits of
\* one time.
THEOREM RepeatsConfined == RenumberedSpec => []RepeatsStraddlePages
<1>1. RepeatInv /\ LossInv => RepeatsStraddlePages
  BY DEF RepeatInv
<1> QED  BY <1>1, RenumberedCorrect, PTL

\* Whatever merges and copies do to the numbers, a --size 0 run that exits 0 misses
\* only documents that have the time of a hit at which a page ended.
THEOREM LossesConfined == RenumberedSpec => []OnlyTimeTiesMissing
<1>1. RepeatInv /\ LossInv => OnlyTimeTiesMissing
  BY DEF LossInv, OnlyTimeTiesMissing, AfterLastAnswer
<1> QED  BY <1>1, RenumberedCorrect, PTL
=============================================================================
