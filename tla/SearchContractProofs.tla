----------------------- MODULE SearchContractProofs -----------------------
(***************************************************************************)
(* What the caller of a search may rely on: the exit code tells of every   *)
(* failed shard, stdout holds the selection of what was fetched, a bounded *)
(* search announces its cap, and SearchRun implements SearchContract.  The *)
(* paging itself is in SearchRunProofs.                                    *)
(***************************************************************************)
EXTENDS SearchRefinement, SearchRunProofs, FilteringProofs

-----------------------------------------------------------------------------
(***************************************************************************)
(* Failed shards.                                                          *)
(***************************************************************************)
\* The initial states satisfy the invariant.
LEMMA PartialInit == Init => PartialInv
  BY DEF Init, PartialInv, NoExit, exitOK, exitPartial

\* A summary that is kept is that of the first answer that lacked shards.
LEMMA PartialKept ==
  ASSUME TypeOK, PartialInv, ReceivePage \/ ReceiveOnly
  PROVE  LET failing == {i \in DOMAIN failures : failures[i] # {}}
         IN  /\ failing' = {} => partial' = {}
             /\ failing' # {} => \E i \in failing' : /\ \A j \in failing' : i <= j
                                                     /\ partial' = failures'[i]
<1> DEFINE failing == {i \in DOMAIN failures : failures[i] # {}}
           n == Len(failures)
<1>1. /\ failures \in Seq(SUBSET Shards) /\ answer.failed \in SUBSET Shards
      /\ n \in Nat /\ DOMAIN failures = 1..n
  BY DEF TypeOK, Answers
<1>2. /\ failures' = Append(failures, answer.failed)
      /\ partial' = IF partial = {} THEN answer.failed ELSE partial
  <2>1. CASE ReceivePage
    BY <2>1 DEF ReceivePage, KeepPartial
  <2>2. CASE ReceiveOnly
    <3>1. failures = <<>>
      BY <2>2 DEF ReceiveOnly, PartialInv, Requesting
    <3>2. partial = {}
      BY <3>1 DEF PartialInv
    <3> QED  BY <2>2, <3>2 DEF ReceiveOnly
  <2> QED  BY <2>1, <2>2
<1>3. /\ DOMAIN failures' = 1..(n + 1)
      /\ failures'[n + 1] = answer.failed
      /\ \A i \in 1..n : failures'[i] = failures[i]
  BY <1>1, <1>2
<1>4. /\ failing = {} => partial = {}
      /\ failing # {} => \E i \in failing : /\ \A j \in failing : i <= j
                                            /\ partial = failures[i]
  BY DEF PartialInv
<1> HIDE DEF n
<1>5. failing' = IF answer.failed = {} THEN failing ELSE failing \cup {n + 1}
  BY <1>1, <1>3
<1>6. \A i \in failing : i \in 1..n /\ failures[i] # {} /\ failures'[i] = failures[i]
  BY <1>1, <1>3
<1>7. CASE failing = {}
  BY <1>1, <1>2, <1>3, <1>4, <1>5, <1>7
<1>8. CASE failing # {}
  <2>1. PICK i \in failing : (\A j \in failing : i <= j) /\ partial = failures[i]
    BY <1>4, <1>8
  <2>2. partial' = failures'[i] /\ i \in failing' /\ \A j \in failing' : i <= j
    BY <1>1, <1>2, <1>5, <1>6, <2>1
  <2> QED  BY <2>2
<1> QED  BY <1>7, <1>8

\* Every step preserves the invariant.
LEMMA PartialStep == TypeOK /\ PartialInv /\ [Next]_vars => PartialInv'
<1> SUFFICES ASSUME TypeOK, PartialInv, [Next]_vars PROVE PartialInv'
  OBVIOUS
<1> USE DEF Requesting, BeforeFirstRequest
<1>1. ASSUME UNCHANGED <<params, partial, failures>>, exit' \notin {exitOK, exitPartial},
             ~FetchesAll /\ (BeforeFirstRequest \/ Requesting)'
                => BeforeFirstRequest \/ Requesting
      PROVE  PartialInv'
  BY <1>1 DEF PartialInv, FetchesAll
<1>2. pc # "done" => exit \notin {exitOK, exitPartial}
  BY DEF PartialInv
<1>3. CASE Preflight
  BY <1>1, <1>2, <1>3 DEF Preflight, Ends, exitUsage, exitOK, exitPartial
<1>4. CASE SendLookup \/ Send
  BY <1>1, <1>2, <1>4 DEF SendLookup, Send
<1>5. CASE LookupAborted \/ LookupFails \/ \E reporting \in Reporting : LookupAnswered(reporting)
  BY <1>1, <1>2, <1>5 DEF LookupAborted, LookupFails, LookupAnswered, UseWindow
<1>6. CASE Aborts \/ ReceiveError \/ WriteFails \/ UnreadableAggregations
  <2>1. /\ pc' = "done" /\ exit' \in HardFailures
        /\ UNCHANGED <<params, partial, failures>>
    BY <1>6 DEF Aborts, ReceiveError, WriteFails, UnreadableAggregations, Ends,
       ClassifyESError, HardFailures
  <2>2. exit' \notin {exitOK, exitPartial}
    BY <2>1 DEF HardFailures, exitOK, exitPartial, exitUsage, exitConn, exitNotFound
  <2> QED  BY <1>1, <2>1, <2>2
<1>7. CASE ReceivePage \/ ReceiveOnly
  <2>1. /\ pc = "wait" /\ params' = params /\ exit' = exit
        /\ ~FetchesAll => pc' = "filter"
    BY <1>7 DEF ReceivePage, ReceiveOnly
  <2>2. exit' \notin {exitOK, exitPartial}
    BY <1>2, <2>1
  <2> QED  BY <1>7, <2>1, <2>2, PartialKept DEF PartialInv, FetchesAll
<1>8. CASE FilterHit \/ FilterDone \/ WriteRecord
  BY <1>1, <1>2, <1>8 DEF FilterHit, FilterDone, WriteRecord
<1>9. CASE Finish
  BY <1>9 DEF Finish, Ends, FinishCode, PartialInv, FetchesAll, exitOK, exitPartial
<1>10. CASE \/ \E unavailable \in Unavailable : SearchAnswered(unavailable)
            \/ SearchFails \/ IndexDoc \/ DeleteDoc \/ ChangeWindow \/ Interrupt
            \/ Ended \/ UNCHANGED vars
  <2>1. UNCHANGED <<params, pc, partial, exit, failures>>
    BY <1>10 DEF SearchAnswered, SearchFails, IndexDoc, DeleteDoc, ChangeWindow,
       Interrupt, Ended, vars, client
  <2> QED  BY <2>1 DEF PartialInv, FetchesAll
<1> QED  BY <1>3, <1>4, <1>5, <1>6, <1>7, <1>8, <1>9, <1>10
         DEF Next, ClientStep, ServerStep, Disturbance

\* `partial' is what the code means it to be, at any time.
THEOREM PartialCorrect == Spec => []PartialInv
  BY TypeInit, TypeStep, PartialInit, PartialStep, PTL DEF Spec

\* A run that exits 0 had no answer with a failed shard, however many pages it
\* took; a run that exits 5 reports the first answer that had one.
THEOREM PartialIsTold == Spec => []PartialNeverSilent
<1>1. PartialInv => PartialNeverSilent
  BY DEF PartialInv, PartialNeverSilent
<1> QED  BY <1>1, PartialCorrect, PTL

-----------------------------------------------------------------------------
(***************************************************************************)
(* stdout.                                                                 *)
(***************************************************************************)
\* filterHits keeps the documents the patterns select.
LEMMA KeepsWanted ==
  ASSUME TypeOK, NEW d \in Docs
  PROVE  Keeps(params, d) <=> d \in Wanted
<1>1. params.includes \in SUBSET SUBSET Docs /\ params.excludes \in SUBSET SUBSET Docs
  BY RunAssumption DEF RunAssumption, TypeOK, Params
<1> QED  BY <1>1 DEF Keeps, Wanted, IsAggregation

\* The initial states satisfy the invariant.
LEMMA OutputInit == Init => OutputInv
<1> SUFFICES ASSUME Init PROVE OutputInv
  OBVIOUS
<1>1. pc = "start" /\ exit = NoExit /\ next = 1 /\ shown = <<>> /\ stdout = <<>>
  BY DEF Init
<1>2. WrittenInOrder /\ OutputIsFilteredFetch
  BY <1>1 DEF WrittenInOrder, OutputIsFilteredFetch, NoExit, exitOK, exitPartial
<1> QED  BY <1>1, <1>2 DEF OutputInv, Requesting

\* While the last answer is outstanding nothing is kept or written.
LEMMA OutputBefore ==
  ASSUME TypeOK, TypeOK', OutputInv,
         BeforeFirstRequest \/ Requesting,
         UNCHANGED <<next, shown, stdout>>,
         \/ (BeforeFirstRequest \/ Requesting \/ pc = "filter")' /\ exit' = exit
         \/ pc' = "done" /\ exit' \in HardFailures
  PROVE  OutputInv'
<1>1. next = 1 /\ shown = <<>> /\ stdout = <<>> /\ exit = NoExit
  BY DEF OutputInv, BeforeFirstRequest, Requesting
<1>2. WrittenInOrder'
  BY <1>1 DEF WrittenInOrder
<1>3. OutputIsFilteredFetch'
  BY <1>1 DEF OutputIsFilteredFetch, HardFailures, NoExit, exitOK, exitPartial,
     exitUsage, exitConn, exitNotFound
<1>4. hits' \in Seq(Docs)
  BY DEF TypeOK
<1>5. Len(hits') \in Nat /\ FilteredPrefixes(hits', Wanted')[0] = <<>>
  BY <1>4, FilteredStep
<1> QED  BY <1>1, <1>2, <1>3, <1>5 DEF OutputInv, BeforeFirstRequest, Requesting

\* One turn of the loop of filterHits keeps the hit or not, as Filtered does.
LEMMA OutputFilter ==
  ASSUME TypeOK, OutputInv, FilterHit \/ FilterDone
  PROVE  OutputInv'
<1>1. /\ pc = "filter" /\ exit = NoExit /\ stdout = <<>>
      /\ next <= Len(hits) + 1
      /\ shown = FilteredPrefixes(hits, Wanted)[next - 1]
  BY DEF OutputInv, FilterHit, FilterDone
<1>2. /\ UNCHANGED <<params, hits, total, stdout, exit>>
      /\ Wanted' = Wanted
  BY DEF FilterHit, FilterDone, Wanted, IsAggregation
<1>3. WrittenInOrder' /\ OutputIsFilteredFetch'
  BY <1>1, <1>2 DEF WrittenInOrder, OutputIsFilteredFetch, NoExit, exitOK, exitPartial
<1>4. hits \in Seq(Docs) /\ Len(hits) \in Nat /\ next \in Nat \ {0}
  BY DEF TypeOK
<1>5. CASE FilterHit
  <2>1. next \in 1..Len(hits) /\ hits[next] \in Docs /\ (next + 1) - 1 = next
    BY <1>4, <1>5 DEF FilterHit
  <2>2. FilteredPrefixes(hits, Wanted)[next] =
          IF hits[next] \in Wanted THEN Append(shown, hits[next]) ELSE shown
    BY <1>1, <1>4, <2>1, FilteredStep
  <2>3. shown' = FilteredPrefixes(hits, Wanted)[next] /\ next' = next + 1 /\ pc' = pc
    BY <1>5, <2>1, <2>2, KeepsWanted DEF FilterHit
  <2> QED  BY <1>1, <1>2, <1>3, <1>4, <2>1, <2>3
           DEF OutputInv, BeforeFirstRequest, Requesting
<1>6. CASE FilterDone
  <2>1. next - 1 = Len(hits)
    BY <1>1, <1>4, <1>6 DEF FilterDone
  <2>2. pc' = "render" /\ shown' = shown /\ shown = Filtered(hits, Wanted)
    BY <1>1, <1>6, <2>1 DEF FilterDone, Filtered
  <2>3. Len(stdout) <= Len(Lines(shown)) /\ Lines(shown)' = Lines(shown)
    <3>1. Len(stdout) = 0 /\ Len(Lines(shown)) \in Nat
      BY <1>1, LinesType
    <3>2. Lines(shown)' = Lines(shown)
      BY <1>2, <2>2 DEF Lines, IsAggregation
    <3> QED  BY <3>1, <3>2
  <2> QED  BY <1>1, <1>2, <1>3, <2>2, <2>3
           DEF OutputInv, BeforeFirstRequest, Requesting
<1> QED  BY <1>5, <1>6

\* What is written is the next line of the selection, or a torn record at the
\* end of the run.
LEMMA OutputWrite ==
  ASSUME TypeOK, OutputInv,
         WriteRecord \/ Finish \/ WriteFails \/ UnreadableAggregations
  PROVE  OutputInv'
<1> DEFINE lines == Lines(shown)
<1>1. /\ pc = "render" /\ exit = NoExit
      /\ shown = Filtered(hits, Wanted)
      /\ Len(stdout) <= Len(lines)
  BY DEF OutputInv, WriteRecord, Finish, WriteFails, UnreadableAggregations
<1>2. /\ UNCHANGED <<params, hits, total, shown>>
      /\ Wanted' = Wanted
  BY DEF WriteRecord, Finish, WriteFails, UnreadableAggregations, Wanted, IsAggregation
<1>3. lines' = lines
  BY <1>2 DEF Lines, IsAggregation
<1>4. lines \in Seq(Records) /\ stdout \in Seq(Records)
  BY LinesType DEF TypeOK
<1>5. \A i \in DOMAIN stdout : i <= Len(lines) /\ stdout[i] = lines[i]
  BY <1>1 DEF OutputInv, WrittenInOrder, NoExit, exitUsage
<1>6. lines' = Lines(Filtered(hits, Wanted))'
  BY <1>1, <1>2, <1>3 DEF Lines, IsAggregation
<1>7. WrittenInOrder' <=>
        \A i \in DOMAIN stdout' :
          \/ i <= Len(lines) /\ stdout'[i] = lines[i]
          \/ i = Len(stdout') /\ stdout'[i] = Torn /\ exit' = exitUsage
  BY <1>3, <1>6 DEF WrittenInOrder
<1>8. OutputIsFilteredFetch' <=> (exit' \in {exitOK, exitPartial} => stdout' = lines)
  BY <1>3, <1>6 DEF OutputIsFilteredFetch
<1> HIDE DEF lines
<1>9. CASE WriteRecord
  <2>1. /\ Len(stdout) < Len(lines)
        /\ stdout' = Append(stdout, lines[Len(stdout) + 1])
        /\ UNCHANGED <<pc, exit>>
    BY <1>9 DEF WriteRecord, lines
  <2>2. /\ Len(stdout') = Len(stdout) + 1
        /\ \A i \in DOMAIN stdout' : i <= Len(lines) /\ stdout'[i] = lines[i]
    BY <1>4, <1>5, <2>1
  <2>3. Len(stdout') <= Len(lines)
    BY <1>4, <2>1, <2>2
  <2>4. WrittenInOrder' /\ OutputIsFilteredFetch'
    BY <1>1, <1>7, <1>8, <2>1, <2>2 DEF NoExit, exitOK, exitPartial
  <2> QED  BY <1>1, <1>2, <1>3, <2>1, <2>3, <2>4
           DEF OutputInv, BeforeFirstRequest, Requesting, lines
<1>10. CASE Finish
  <2>1. Len(stdout) = Len(lines) /\ pc' = "done" /\ stdout' = stdout
    BY <1>10 DEF Finish, Ends, lines
  <2>2. stdout = lines
    BY <1>4, <1>5, <2>1
  <2>3. WrittenInOrder'
    BY <1>5, <1>7, <2>1
  <2> QED  BY <1>8, <2>1, <2>2, <2>3 DEF OutputInv, BeforeFirstRequest, Requesting
<1>11. CASE WriteFails \/ UnreadableAggregations
  <2>1. /\ pc' = "done" /\ exit' = exitUsage
        /\ stdout' \in {stdout, Append(stdout, Torn)}
    BY <1>11 DEF WriteFails, UnreadableAggregations, Ends
  <2>2. WrittenInOrder'
    <3>1. CASE stdout' = stdout
      BY <1>5, <1>7, <3>1
    <3>2. CASE stdout' = Append(stdout, Torn)
      <4>1. \A i \in DOMAIN stdout' :
               \/ i \in DOMAIN stdout /\ stdout'[i] = stdout[i]
               \/ i = Len(stdout') /\ stdout'[i] = Torn
        BY <1>4, <3>2
      <4> QED  BY <1>5, <1>7, <2>1, <4>1
    <3> QED  BY <2>1, <3>1, <3>2
  <2> QED  BY <1>8, <2>1, <2>2
           DEF OutputInv, BeforeFirstRequest, Requesting, exitUsage, exitOK, exitPartial
<1> QED  BY <1>9, <1>10, <1>11

\* Every step preserves the invariant.
LEMMA OutputStep == TypeOK /\ OutputInv /\ [Next]_vars => OutputInv'
<1> SUFFICES ASSUME TypeOK, OutputInv, [Next]_vars PROVE OutputInv'
  OBVIOUS
<1>1. TypeOK'
  BY TypeStep
<1>2. CASE \/ Preflight \/ SendLookup \/ LookupAborted \/ LookupFails \/ Send
           \/ \E reporting \in Reporting : LookupAnswered(reporting)
  <2>1. /\ BeforeFirstRequest \/ Requesting
        /\ UNCHANGED <<next, shown, stdout>>
        /\ \/ (BeforeFirstRequest \/ Requesting)' /\ exit' = exit
           \/ pc' = "done" /\ exit' \in HardFailures
    BY <1>2 DEF Preflight, SendLookup, LookupAborted, LookupFails, Send, LookupAnswered,
       UseWindow, Ends, HardFailures, BeforeFirstRequest, Requesting
  <2> QED  BY <1>1, <2>1, OutputBefore
<1>3. CASE Aborts \/ ReceiveError \/ ReceivePage \/ ReceiveOnly
  <2>1. /\ Requesting
        /\ UNCHANGED <<next, shown, stdout>>
        /\ \/ (Requesting \/ pc = "filter")' /\ exit' = exit
           \/ pc' = "done" /\ exit' \in HardFailures
    BY <1>3 DEF Aborts, ReceiveError, ReceivePage, ReceiveOnly, Ends, ClassifyESError,
       HardFailures, Requesting
  <2> QED  BY <1>1, <2>1, OutputBefore
<1>4. CASE \/ \E unavailable \in Unavailable : SearchAnswered(unavailable)
           \/ SearchFails \/ IndexDoc \/ DeleteDoc \/ ChangeWindow \/ Interrupt
           \/ Ended \/ UNCHANGED vars
  <2>1. UNCHANGED <<params, pc, hits, total, next, shown, stdout, exit>>
    BY <1>4 DEF SearchAnswered, SearchFails, IndexDoc, DeleteDoc, ChangeWindow,
       Interrupt, Ended, vars, client
  <2>2. Wanted' = Wanted
    BY <2>1 DEF Wanted, IsAggregation
  <2>3. /\ Lines(shown)' = Lines(shown)
        /\ Lines(Filtered(hits, Wanted))' = Lines(Filtered(hits, Wanted))
    BY <2>1, <2>2 DEF Lines, IsAggregation
  <2>4. WrittenInOrder' /\ OutputIsFilteredFetch'
    BY <2>1, <2>3 DEF OutputInv, WrittenInOrder, OutputIsFilteredFetch
  <2> QED  BY <2>1, <2>2, <2>3, <2>4 DEF OutputInv, BeforeFirstRequest, Requesting
<1> QED  BY <1>2, <1>3, <1>4, OutputFilter, OutputWrite
         DEF Next, ClientStep, ServerStep, Disturbance

\* At any time stdout is accounted for.
THEOREM OutputCorrect == Spec => []OutputInv
  BY TypeInit, TypeStep, OutputInit, OutputStep, PTL DEF Spec

\* Whatever happens to the run, stdout holds the beginning of the selection, in
\* the order the hits were fetched, and a torn record only where it exits 2.
THEOREM OutputInOrder == Spec => []WrittenInOrder
<1>1. OutputInv => WrittenInOrder
  BY DEF OutputInv
<1> QED  BY <1>1, OutputCorrect, PTL

\* A run that exits 0 or 5 has written all of the selection and nothing else,
\* for any patterns, format and number of hits.
THEOREM OutputIsSelection == Spec => []OutputIsFilteredFetch
<1>1. OutputInv => OutputIsFilteredFetch
  BY DEF OutputInv
<1> QED  BY <1>1, OutputCorrect, PTL

-----------------------------------------------------------------------------
(***************************************************************************)
(* Bounded searches.                                                       *)
(***************************************************************************)
\* The initial states satisfy the invariant.
LEMMA BoundedInit == Init => BoundedInv
  BY DEF Init, BoundedInv, AfterLastAnswer, Requesting, NoExit, exitOK

\* The window that is used caps the request, and says so.
LEMMA BoundedWindow ==
  ASSUME TypeOK, BoundedInv, CoverageInv, pc \in {"lookup", "lookupWait"},
         NEW w \in Nat, UseWindow(w)
  PROVE  BoundedInv'
<1>1. /\ pc' = "send" /\ UNCHANGED <<params, exit>>
      /\ reqSize' = IF FetchesAll THEN w ELSE CappedSize(reqSize, w)
      /\ ~FetchesAll /\ reqSize > w /\ ~params.quiet => warned'
  BY DEF UseWindow, WarnsOfCap
<1>2. reqSize = Requested(params) /\ reqSize \in Nat
  BY DEF BoundedInv, TypeOK
<1>3. ~FetchesAll => reqSize' >= Requested(params) \/ warned' \/ params.quiet
  BY <1>1, <1>2 DEF CappedSize
<1>4. exit # exitOK
  BY DEF CoverageInv
<1>5. Requested(params)' = Requested(params) /\ FetchesAll' = FetchesAll
  BY <1>1 DEF Requested, FetchesAll
<1> QED  BY <1>1, <1>3, <1>4, <1>5 DEF BoundedInv, AfterLastAnswer

\* Every step preserves the invariant.
LEMMA BoundedStep ==
  TypeOK /\ PagingInv /\ CoverageInv /\ BoundedInv /\ [Next]_vars => BoundedInv'
<1> SUFFICES ASSUME TypeOK, PagingInv, CoverageInv, BoundedInv, [Next]_vars
             PROVE  BoundedInv'
  OBVIOUS
<1> USE DEF Requesting, AfterLastAnswer, exitOK
<1>1. Stable' \subseteq Stable
  BY StableShrinks
<1>2. /\ pc # "done" => exit # exitOK
      /\ exit = exitOK => partial = {}
      /\ reqSize \in Nat /\ Requested(params) \in Nat
  BY RunAssumption DEF CoverageInv, TypeOK, RunAssumption, Requested, Params
<1>3. ASSUME UNCHANGED <<params, reqSize, hits, partial, warned, exit>>,
             \/ pc' = pc
             \/ pc = "lookup" /\ pc' = "lookupWait"
             \/ pc = "send" /\ pc' = "wait"
             \/ pc = "filter" /\ pc' = "render"
      PROVE  BoundedInv'
  <2>1. FetchesAll' = FetchesAll /\ Requested(params)' = Requested(params)
    BY <1>3 DEF FetchesAll, Requested
  <2> QED  BY <1>1, <1>3, <2>1 DEF BoundedInv
<1>4. ASSUME pc' = "done", exit' # exitOK
      PROVE  BoundedInv'
  BY <1>4 DEF BoundedInv
<1>5. CASE Preflight
  <2>1. \/ pc' = "done" /\ exit' = exitUsage
        \/ /\ pc' \in {"lookup", "send"} /\ exit' = exit
           /\ reqSize' = Requested(params) /\ params' = params
    BY <1>5 DEF Preflight, Ends
  <2>2. Requested(params)' = Requested(params') /\ exit # exitOK
    BY <1>2, <1>5 DEF Preflight, Requested
  <2> QED  BY <1>2, <1>4, <2>1, <2>2 DEF BoundedInv, exitUsage
<1>6. CASE LookupAborted \/ LookupFails \/ \E reporting \in Reporting : LookupAnswered(reporting)
  <2>1. FallbackWindow \in Nat /\ Windows \subseteq Nat
    BY RunAssumption DEF RunAssumption, FallbackWindow
  <2>2. pc \in {"lookup", "lookupWait"} /\ \E w \in Nat : UseWindow(w)
    BY <1>6, <2>1 DEF LookupAborted, LookupFails, LookupAnswered
  <2> QED  BY <2>2, BoundedWindow
<1>7. CASE Aborts \/ ReceiveError \/ WriteFails \/ UnreadableAggregations
  <2>1. pc' = "done" /\ exit' \in HardFailures
    BY <1>7 DEF Aborts, ReceiveError, WriteFails, UnreadableAggregations, Ends,
       ClassifyESError, HardFailures
  <2> QED  BY <1>4, <2>1 DEF HardFailures, exitUsage, exitConn, exitNotFound
<1>8. CASE ReceivePage
  BY <1>2, <1>8 DEF ReceivePage, BoundedInv, FetchesAll
<1>9. CASE ReceiveOnly
  <2>1. /\ pc = "wait" /\ ~FetchesAll /\ pc' = "filter" /\ hits' = answer.page
        /\ partial' = answer.failed /\ answer.kind = "ok"
        /\ UNCHANGED <<params, reqSize, warned, exit>>
    BY <1>9 DEF ReceiveOnly
  <2>2. searchAfter = NoCursor
    BY <2>1 DEF PagingInv, OrderInv, CursorInv
  <2>3. answer.failed = {} =>
          \A d \in Stable \ Range(answer.page) :
             /\ Len(answer.page) = reqSize
             /\ \A i \in DOMAIN answer.page : ~SortedBefore(params.dir, d, answer.page[i])
    BY <2>1, <2>2, NoCursorAdmitsAll DEF PagingInv, AnswerComplete
  <2>4. FetchesAll' = FetchesAll /\ Requested(params)' = Requested(params)
    BY <2>1 DEF FetchesAll, Requested
  <2> QED  BY <1>1, <2>1, <2>3, <2>4 DEF BoundedInv
<1>10. CASE SendLookup \/ Send \/ FilterHit \/ FilterDone \/ WriteRecord
  BY <1>3, <1>10 DEF SendLookup, Send, FilterHit, FilterDone, WriteRecord
<1>11. CASE Finish
  <2>1. /\ pc = "render" /\ pc' = "done" /\ exit' = FinishCode(partial)
        /\ UNCHANGED <<params, reqSize, hits, partial, warned>>
    BY <1>11 DEF Finish, Ends
  <2>2. FetchesAll' = FetchesAll /\ Requested(params)' = Requested(params)
    BY <2>1 DEF FetchesAll, Requested
  <2> QED  BY <1>1, <2>1, <2>2 DEF BoundedInv
<1>12. CASE \/ \E unavailable \in Unavailable : SearchAnswered(unavailable)
            \/ SearchFails \/ IndexDoc \/ DeleteDoc \/ ChangeWindow \/ Interrupt
            \/ Ended \/ UNCHANGED vars
  <2>1. UNCHANGED <<params, pc, reqSize, hits, partial, warned, exit>>
    BY <1>12 DEF SearchAnswered, SearchFails, IndexDoc, DeleteDoc, ChangeWindow,
       Interrupt, Ended, vars, client
  <2> QED  BY <1>3, <2>1
<1> QED  BY <1>5, <1>6, <1>7, <1>8, <1>9, <1>10, <1>11, <1>12
         DEF Next, ClientStep, ServerStep, Disturbance

\* A bounded search that exits 0 without a document that matched all along has
\* a full page of documents that come before it or with it, and if the page is
\* shorter than --size the cap was announced: whatever else happens meanwhile.
THEOREM TruncationIsAnnounced == Spec => []TruncationAnnounced
<1>1. TypeOK /\ CoverageInv /\ BoundedInv => TruncationAnnounced
  <2> SUFFICES ASSUME TypeOK, CoverageInv, BoundedInv, ~FetchesAll, exit = exitOK,
                      NEW d \in Stable \ Range(hits)
               PROVE  /\ \A i \in DOMAIN hits : ~SortedBefore(params.dir, d, hits[i])
                      /\ Len(hits) = reqSize
                      /\ Len(hits) < Requested(params) => warned \/ params.quiet
    BY DEF TruncationAnnounced
  <2>1. partial = {} /\ AfterLastAnswer
    BY DEF CoverageInv, AfterLastAnswer
  <2>2. reqSize \in Nat /\ Requested(params) \in Nat
    BY RunAssumption DEF TypeOK, RunAssumption, Requested, Params
  <2> QED  BY <2>1, <2>2 DEF BoundedInv
<1> QED  BY <1>1, TypeInit, TypeStep, PagingInit, PagingStep, CoverageInit, CoverageStep,
            BoundedInit, BoundedStep, PTL DEF Spec

-----------------------------------------------------------------------------
(***************************************************************************)
(* Requests and windows.                                                   *)
(***************************************************************************)
\* Every index reports its window, and nobody changes it.
WindowsKnown == "lookup" \notin Events /\ "reconfigure" \notin Events

\* The initial states satisfy the invariant.
LEMMA WindowInit == Init => WindowInv
  BY DEF Init, WindowInv

\* Every step preserves the invariant.
LEMMA WindowStep ==
  ASSUME WindowsKnown
  PROVE  TypeOK /\ WindowInv /\ [Next]_vars => WindowInv'
<1> SUFFICES ASSUME TypeOK, WindowInv, [Next]_vars PROVE WindowInv'
  OBVIOUS
<1>1. ASSUME params' = params => NeedsWindow(params)' = NeedsWindow(params),
             pc' \notin {"send", "wait"}
      PROVE  WindowInv'
  BY <1>1 DEF WindowInv
<1>2. ASSUME UNCHANGED <<params, reqSize, limit>>,
             \/ pc' = pc /\ (ctxDone => ctxDone')
             \/ pc = "send" /\ pc' = "wait" /\ ~ctxDone
             \/ pc = "wait"
      PROVE  WindowInv'
  <2>1. NeedsWindow(params)' = NeedsWindow(params) /\ RejectedBy' = RejectedBy
    BY <1>2 DEF NeedsWindow, Requested, RejectedBy
  <2> QED  BY <1>2, <2>1 DEF WindowInv
<1>3. CASE Preflight
  <2>1. params' = params /\ (pc' = "send" => ~NeedsWindow(params)) /\ pc' # "wait"
    BY <1>3 DEF Preflight, Ends
  <2>2. NeedsWindow(params)' = NeedsWindow(params)
    BY <2>1 DEF NeedsWindow, Requested
  <2> QED  BY <2>1, <2>2 DEF WindowInv
<1>4. CASE \E reporting \in Reporting : LookupAnswered(reporting)
  <2>1. PICK w \in Windows \cup {FallbackWindow} :
           IsReportedWindow(Shards, w) /\ UseWindow(w)
    BY <1>4 DEF WindowsKnown, Reporting, LookupAnswered
  <2>2. w \in Nat /\ \A s \in Shards : limit[s] \in Nat
    BY RunAssumption DEF RunAssumption, FallbackWindow, TypeOK
  <2>3. \A s \in Shards : w <= limit[s]
    BY <2>1 DEF IsReportedWindow
  <2>4. pc' = "send" /\ limit' = limit /\ reqSize' <= w /\ reqSize' \in Nat
    BY <2>1, <2>2 DEF UseWindow, CappedSize, TypeOK, corpus
  <2>5. RejectedBy' = {}
    BY <2>2, <2>3, <2>4 DEF RejectedBy
  <2> QED  BY <2>4, <2>5 DEF WindowInv
<1>5. CASE LookupAborted
  BY <1>5 DEF LookupAborted, UseWindow, WindowInv
<1>6. CASE LookupFails \/ ChangeWindow
  BY <1>6 DEF LookupFails, ChangeWindow, WindowsKnown
<1>7. CASE Send
  BY <1>2, <1>7 DEF Send, MayStartRequest, corpus
<1>8. CASE ReceivePage
  BY <1>2, <1>8 DEF ReceivePage, corpus
<1>9. CASE \/ SendLookup \/ Aborts \/ ReceiveError \/ ReceiveOnly \/ FilterHit
           \/ FilterDone \/ WriteRecord \/ Finish \/ WriteFails \/ UnreadableAggregations
  <2>1. pc' \notin {"send", "wait"}
    BY <1>9 DEF SendLookup, Aborts, ReceiveError, ReceiveOnly, FilterHit, FilterDone,
       WriteRecord, Finish, WriteFails, UnreadableAggregations, Ends
  <2> QED  BY <2>1 DEF WindowInv
<1>10. CASE \/ \E unavailable \in Unavailable : SearchAnswered(unavailable)
            \/ SearchFails \/ IndexDoc \/ DeleteDoc \/ Ended \/ UNCHANGED vars
  <2>1. UNCHANGED <<params, pc, reqSize, limit, ctxDone>>
    BY <1>10 DEF SearchAnswered, SearchFails, IndexDoc, DeleteDoc, Ended, vars, client,
       corpus
  <2> QED  BY <1>2, <2>1
<1>11. CASE Interrupt
  BY <1>2, <1>11 DEF Interrupt, client, corpus
<1> QED  BY <1>3, <1>4, <1>5, <1>6, <1>7, <1>8, <1>9, <1>10, <1>11
         DEF Next, ClientStep, ServerStep, Disturbance

\* Where every index reports its window and keeps it, no request whose size was
\* looked up exceeds any of them, even when an interrupt lets a lookup fail.
THEOREM LookedUpRequestFits == WindowsKnown => (Spec => []RequestFitsEveryIndex)
<1> SUFFICES ASSUME WindowsKnown PROVE Spec => []RequestFitsEveryIndex
  OBVIOUS
<1>1. WindowInv => RequestFitsEveryIndex
  BY DEF WindowInv, RequestFitsEveryIndex
<1>2. TypeOK /\ WindowInv /\ [Next]_vars => WindowInv'
  BY WindowStep
<1> QED  BY <1>1, <1>2, TypeInit, TypeStep, WindowInit, PTL DEF Spec

-----------------------------------------------------------------------------
(***************************************************************************)
(* The total.                                                              *)
(***************************************************************************)
\* No document comes or goes during the run.
CorpusStands == "index" \notin Events /\ "delete" \notin Events

\* The initial states satisfy the invariant.
LEMMA TotalInit == Init => TotalInv
<1> SUFFICES ASSUME Init PROVE TotalInv
  OBVIOUS
<1>1. hits = <<>> /\ firstPage = TRUE /\ answer.kind # "ok" /\ ~AfterLastAnswer
  BY DEF Init, NoAnswer, Refusal, AfterLastAnswer, NoExit, exitOK
<1>2. Range(hits) \subseteq InitialDocs
  BY <1>1 DEF Range
<1>3. status = [d \in Docs |-> IF d \in InitialDocs THEN "live" ELSE "absent"]
  BY DEF Init
<1> QED  BY <1>1, <1>2, <1>3 DEF TotalInv

\* An answer in which no shard failed counts the whole corpus for the json
\* output, for which the count is not capped.
LEMMA TotalAnswered ==
  ASSUME TypeOK, TotalInv, NEW unavailable \in Unavailable, SearchAnswered(unavailable),
         answer'.kind = "ok"
  PROVE  /\ Range(answer'.page) \subseteq InitialDocs
         /\ answer'.failed = {} /\ TracksTotal(params) =>
               answer'.total = Cardinality(InitialDocs)
<1>1. Live = InitialDocs
  BY RunAssumption DEF RunAssumption, TotalInv, Live
<1>2. Range(answer'.page) \subseteq InitialDocs
  <2> DEFINE served == SearchAfter(params.dir,
                                   {d \in Live : Home[d] \notin answer'.failed},
                                   searchAfter)
  <2>1. \A i \in DOMAIN answer'.page : answer'.page[i] \in served
    BY AnswerGiven
  <2>2. served \subseteq InitialDocs
    BY <1>1 DEF SearchAfter
  <2> HIDE DEF served
  <2> QED  BY <2>1, <2>2 DEF Range
<1>3. ASSUME answer'.failed = {}, TracksTotal(params)
      PROVE  answer'.total = Cardinality(InitialDocs)
  <2> DEFINE failed  == RejectedBy \cup unavailable
             matches == {d \in Live : Home[d] \notin failed}
             pages   == Pages(params.dir, SearchAfter(params.dir, matches, searchAfter),
                              reqSize)
  <2>1. answer' # Refusal("api")
    BY DEF Refusal
  <2>2. \E page \in pages : answer' = Answer(page, Cardinality(matches), failed)
    BY <1>3, <2>1 DEF SearchAnswered
  <2>3. answer'.failed = failed /\ answer'.total = Cardinality(matches)
    <3> HIDE DEF pages, failed, matches
    <3> QED  BY <2>2 DEF Answer
  <2>4. matches = InitialDocs
    BY <1>1, <1>3, <2>3
  <2> QED  BY <2>3, <2>4
<1> QED  BY <1>2, <1>3

\* Every step preserves the invariant.
LEMMA TotalStep ==
  ASSUME CorpusStands
  PROVE  TypeOK /\ CoverageInv /\ TotalInv /\ [Next]_vars => TotalInv'
<1> SUFFICES ASSUME TypeOK, CoverageInv, TotalInv, [Next]_vars PROVE TotalInv'
  OBVIOUS
<1> USE DEF AfterLastAnswer, exitOK
<1>1. status' = status
  BY DEF CorpusStands, Next, ClientStep, ServerStep, Disturbance, Ended, vars, corpus,
     Preflight, SendLookup, LookupAborted, Send, Aborts, ReceiveError,
     ReceivePage, ReceiveOnly, FilterHit, FilterDone, WriteRecord, Finish,
     LookupAnswered, SearchAnswered, LookupFails, WriteFails,
     UnreadableAggregations, SearchFails, IndexDoc, DeleteDoc, ChangeWindow,
     Interrupt, UseWindow
<1>2. pc # "done" => exit # exitOK
  BY DEF CoverageInv
<1>3. ASSUME UNCHANGED <<params, hits, firstPage, total, partial>>,
             AfterLastAnswer' => AfterLastAnswer
      PROVE  /\ Range(hits') \subseteq InitialDocs
             /\ partial' = {} /\ TracksTotal(params)'
                  /\ (IF FetchesAll' THEN ~firstPage' ELSE AfterLastAnswer') =>
                total' = Cardinality(InitialDocs)
             /\ FetchesAll' /\ AfterLastAnswer' => ~firstPage'
  BY <1>3 DEF TotalInv, FetchesAll, TracksTotal
<1>4. ASSUME UNCHANGED <<params, hits, firstPage, total, partial>>,
             AfterLastAnswer' => AfterLastAnswer,
             answer' = answer \/ answer'.kind # "ok"
      PROVE  TotalInv'
  <2>1. answer'.kind = "ok" =>
          /\ Range(answer'.page) \subseteq InitialDocs
          /\ answer'.failed = {} /\ TracksTotal(params)' =>
                answer'.total = Cardinality(InitialDocs)
    BY <1>4 DEF TotalInv, TracksTotal
  <2> QED  BY <1>1, <1>3, <1>4, <2>1 DEF TotalInv
<1>5. CASE \/ Preflight \/ SendLookup \/ LookupAborted \/ LookupFails \/ Send
           \/ \E reporting \in Reporting : LookupAnswered(reporting)
  <2>1. /\ UNCHANGED <<params, hits, firstPage, total, partial>>
        /\ answer' = answer \/ answer' = NoAnswer
    BY <1>5 DEF Preflight, SendLookup, LookupAborted, LookupFails, Send, LookupAnswered,
       UseWindow
  <2>2. ~AfterLastAnswer'
    BY <1>2, <1>5 DEF Preflight, SendLookup, LookupAborted, LookupFails, Send,
       LookupAnswered, UseWindow, Ends, exitUsage
  <2> QED  BY <1>4, <2>1, <2>2 DEF NoAnswer, Refusal
<1>6. CASE Aborts \/ ReceiveError \/ WriteFails \/ UnreadableAggregations
  <2>1. /\ pc' = "done" /\ exit' \in HardFailures
        /\ UNCHANGED <<params, hits, firstPage, total, partial, answer>>
    BY <1>6 DEF Aborts, ReceiveError, WriteFails, UnreadableAggregations, Ends,
       ClassifyESError, HardFailures
  <2>2. ~AfterLastAnswer'
    BY <2>1 DEF HardFailures, exitUsage, exitConn, exitNotFound
  <2> QED  BY <1>4, <2>1, <2>2
<1>7. CASE ReceivePage
  <2>1. /\ FetchesAll /\ answer.kind = "ok"
        /\ total' = IF firstPage THEN answer.total ELSE total
        /\ firstPage' = FALSE
        /\ hits' = hits \o answer.page
        /\ UNCHANGED <<params, answer>>
        /\ partial' = {} => partial = {} /\ answer.failed = {}
    BY <1>7 DEF ReceivePage, Collect, KeepPartial
  <2>2. hits \in Seq(Docs) /\ answer.page \in Seq(Docs)
    BY DEF TypeOK, Answers
  <2>3. Range(hits') = Range(hits) \cup Range(answer.page)
    BY <2>1, <2>2, RangeConcatenation
  <2>4. FetchesAll' = FetchesAll /\ TracksTotal(params)' = TracksTotal(params)
    BY <2>1 DEF FetchesAll, TracksTotal
  <2>5. partial' = {} /\ TracksTotal(params) => total' = Cardinality(InitialDocs)
    BY <2>1 DEF TotalInv
  <2> QED  BY <1>1, <2>1, <2>3, <2>4, <2>5 DEF TotalInv
<1>8. CASE ReceiveOnly
  <2>1. /\ ~FetchesAll /\ answer.kind = "ok"
        /\ total' = answer.total /\ partial' = answer.failed /\ hits' = answer.page
        /\ UNCHANGED <<params, answer>>
    BY <1>8 DEF ReceiveOnly
  <2>2. FetchesAll' = FetchesAll /\ TracksTotal(params)' = TracksTotal(params)
    BY <2>1 DEF FetchesAll, TracksTotal
  <2> QED  BY <1>1, <2>1, <2>2 DEF TotalInv
<1>9. CASE FilterHit \/ FilterDone \/ WriteRecord \/ Finish
  <2>1. UNCHANGED <<params, hits, firstPage, total, partial, answer>> /\ AfterLastAnswer
    BY <1>9 DEF FilterHit, FilterDone, WriteRecord, Finish
  <2> QED  BY <1>4, <2>1
<1>10. CASE \E unavailable \in Unavailable : SearchAnswered(unavailable)
  <2>1. PICK unavailable \in Unavailable : SearchAnswered(unavailable)
    BY <1>10
  <2>2. UNCHANGED <<params, pc, exit, hits, firstPage, total, partial>>
    BY <2>1 DEF SearchAnswered, client
  <2>3. answer'.kind = "ok" =>
          /\ Range(answer'.page) \subseteq InitialDocs
          /\ answer'.failed = {} /\ TracksTotal(params)' =>
                answer'.total = Cardinality(InitialDocs)
    BY <2>1, <2>2, TotalAnswered DEF TracksTotal
  <2> QED  BY <1>1, <1>3, <2>2, <2>3 DEF TotalInv
<1>11. CASE SearchFails
  <2>1. answer'.kind # "ok"
    BY <1>11 DEF SearchFails, Refusal, ServerErrors
  <2>2. UNCHANGED <<params, pc, exit, hits, firstPage, total, partial>>
    BY <1>11 DEF SearchFails, client
  <2> QED  BY <1>4, <2>1, <2>2
<1>12. CASE IndexDoc \/ DeleteDoc \/ ChangeWindow \/ Interrupt \/ Ended \/ UNCHANGED vars
  <2>1. UNCHANGED <<params, pc, exit, hits, firstPage, total, partial, answer>>
    BY <1>12 DEF IndexDoc, DeleteDoc, ChangeWindow, Interrupt, Ended, vars, client
  <2> QED  BY <1>4, <2>1
<1> QED  BY <1>5, <1>6, <1>7, <1>8, <1>9, <1>10, <1>11, <1>12
         DEF Next, ClientStep, ServerStep, Disturbance

\* An injective sequence is as long as its range is large.
LEMMA InjectiveLength ==
  ASSUME NEW S, NEW s \in Seq(S), IsInjective(s)
  PROVE  Cardinality(Range(s)) = Len(s)
<1>1. Len(s) \in Nat /\ DOMAIN s = 1..Len(s)
  OBVIOUS
<1>2. s \in [1..Len(s) -> Range(s)] /\ \A t \in Range(s) : \E i \in 1..Len(s) : s[i] = t
  BY <1>1 DEF Range
<1>3. s \in Bijection(1..Len(s), Range(s))
  BY <1>2 DEF Bijection, Injection, Surjection
<1> QED  BY <1>1, <1>3, FS_CountingElements DEF ExistsBijection

\* While no document comes or goes, and none ties with another, the total that
\* the json output of a run that exits 0 reports is the number of matches, and
\* for --size 0 that of the hits, however many pages and whatever failed before.
THEOREM TotalReported == CorpusStands /\ SortKeysUnique => (Spec => []TotalIsExact)
<1> SUFFICES ASSUME CorpusStands, SortKeysUnique PROVE Spec => []TotalIsExact
  OBVIOUS
<1>1. ASSUME TypeOK, PagingInv, CoverageInv, OutputInv, TotalInv, FetchAllComplete
      PROVE  TotalIsExact
  <2> SUFFICES ASSUME exit = exitOK, params.format = "json"
               PROVE  /\ stdout[1].total = Cardinality(InitialDocs)
                      /\ FetchesAll => stdout[1].total = Len(hits)
    BY DEF TotalIsExact
  <2>1. stdout = Lines(Filtered(hits, Wanted))
    BY <1>1 DEF OutputInv, OutputIsFilteredFetch
  <2>2. stdout[1].total = total
    BY <2>1 DEF Lines, Record
  <2>3. partial = {} /\ AfterLastAnswer
    BY <1>1 DEF CoverageInv, AfterLastAnswer
  <2>4. total = Cardinality(InitialDocs)
    BY <1>1, <2>3 DEF TotalInv, TracksTotal
  <2>5. ASSUME FetchesAll PROVE Len(hits) = Cardinality(InitialDocs)
    <3>1. Stable = InitialDocs
      BY <1>1, RunAssumption DEF RunAssumption, TotalInv, Stable
    <3>2. Range(hits) = InitialDocs
      BY <1>1, <2>5, <3>1 DEF FetchAllComplete, TotalInv
    <3>3. IsInjective(hits) /\ hits \in Seq(Docs)
      BY <1>1 DEF PagingInv, OrderInv, NoDuplicateHits, TypeOK
    <3> QED  BY <3>2, <3>3, InjectiveLength
  <2> QED  BY <2>2, <2>4, <2>5
<1>2. TypeOK /\ CoverageInv /\ TotalInv /\ [Next]_vars => TotalInv'
  BY TotalStep
<1>3. Spec => []FetchAllComplete
  BY FetchAllIsComplete
<1> QED  BY <1>1, <1>2, <1>3, TypeInit, TypeStep, TotalInit, PagingCorrect, CoverageCorrect,
            OutputCorrect, PTL DEF Spec

-----------------------------------------------------------------------------
(***************************************************************************)
(* SearchRun implements SearchContract.                                    *)
(***************************************************************************)
\* The contract selects as filterHits does, and nothing where the format drops
\* the hits.
LEMMA ContractSelection ==
  ASSUME TypeOK
  PROVE  /\ Contract!Selection = Filtered(hits, Selected)
         /\ Contract!Selection \in Seq(Docs)
         /\ IsAggregation /\ params.format # "json" => Contract!Selection = <<>>
<1>1. Contract!Selection = Filtered(hits, Selected)
  BY DEF Contract!Selection, Contract!Filtered, Contract!FilteredPrefixes, Filtered,
     FilteredPrefixes
<1>2. hits \in Seq(Docs) /\ Len(hits) \in 0..Len(hits)
  BY DEF TypeOK
<1>3. Filtered(hits, Selected) \in Seq(Docs)
  BY <1>2, FilteredStep DEF Filtered
<1>4. IsAggregation /\ params.format # "json" => Filtered(hits, Selected) = <<>>
  BY <1>2, FilteredNone DEF Selected
<1> QED  BY <1>1, <1>3, <1>4

\* What is printed is the beginning of the selection: a line for each document,
\* or all of them in one record.
PrintedPrefix ==
    LET lines     == Lines(Filtered(hits, Wanted))
        selection == Contract!Selection
        byLine    == params.mode = "hits" /\ params.format = "jsonl"
    IN  /\ Len(stdout) <= Len(lines)
        /\ Len(stdout) = Len(lines) => Printed = selection
        /\ Printed \in Seq(Docs) /\ Len(Printed) <= Len(selection)
        /\ \A i \in 1..Len(Printed) : Printed[i] = selection[i]
        /\ byLine => Len(Printed) = Len(stdout)
        /\ ~byLine => Printed = IF stdout = <<>> THEN <<>> ELSE selection

\* It is so at any time but after a torn record.
LEMMA PrintedIsSelected ==
  TypeOK /\ OutputInv /\ exit # exitUsage => PrintedPrefix
<1> SUFFICES ASSUME TypeOK, OutputInv, exit # exitUsage PROVE PrintedPrefix
  OBVIOUS
<1> DEFINE lines == Lines(Filtered(hits, Wanted))
           selection == Contract!Selection
<1>1. stdout \in Seq(Records) /\ Len(stdout) \in Nat /\ DOMAIN stdout = 1..Len(stdout)
  BY DEF TypeOK
<1>2. \A i \in 1..Len(stdout) : i <= Len(lines) /\ stdout[i] = lines[i]
  BY <1>1 DEF OutputInv, WrittenInOrder
<1>3. selection = Filtered(hits, Selected) /\ selection \in Seq(Docs)
  BY ContractSelection
<1>4. CASE params.mode = "hits" /\ params.format = "jsonl"
  <2>1. selection = Filtered(hits, Wanted)
    BY <1>3, <1>4 DEF Selected, IsAggregation
  <2>2. lines = [i \in 1..Len(selection) |-> Record(<<selection[i]>>, NoTotal, FALSE)]
    BY <1>4, <2>1 DEF Lines
  <2>3. Len(selection) \in Nat /\ Len(lines) = Len(selection)
    BY <1>3, <2>2
  <2>4. Printed = [i \in 1..Len(stdout) |-> stdout[i].hits[1]]
    BY <1>1, <1>4 DEF Printed
  <2>5. Len(stdout) <= Len(selection)
    BY <1>1, <1>2, <2>3
  <2>6. \A i \in 1..Len(stdout) : stdout[i].hits[1] = selection[i]
    <3> SUFFICES ASSUME NEW i \in 1..Len(stdout) PROVE stdout[i].hits[1] = selection[i]
      OBVIOUS
    <3> HIDE DEF selection, lines
    <3>1. i \in 1..Len(selection)
      BY <1>1, <2>3, <2>5
    <3>2. stdout[i] = Record(<<selection[i]>>, NoTotal, FALSE)
      BY <1>2, <2>2, <3>1
    <3> QED  BY <3>2 DEF Record
  <2>7. Printed = [i \in 1..Len(stdout) |-> selection[i]]
    BY <2>4, <2>6
  <2>8. /\ Printed \in Seq(Docs) /\ Len(Printed) = Len(stdout)
        /\ \A i \in 1..Len(Printed) : Printed[i] = selection[i]
    <3> HIDE DEF selection
    <3>1. \A i \in 1..Len(stdout) : selection[i] \in Docs
      BY <1>1, <1>3, <2>3, <2>5
    <3>2. Printed \in [1..Len(stdout) -> Docs]
      BY <2>7, <3>1
    <3>3. Printed \in Seq(Docs) /\ Len(Printed) = Len(stdout)
      BY <1>1, <3>2, SeqDef
    <3> QED  BY <2>7, <3>3
  <2>9. Len(stdout) = Len(lines) => Printed = selection
    BY <1>3, <2>3, <2>8
  <2> QED  BY <1>4, <2>3, <2>5, <2>8, <2>9 DEF PrintedPrefix
<1>5. CASE ~(params.mode = "hits" /\ params.format = "jsonl")
  <2>1. lines = <<Record(IF IsAggregation /\ params.format # "json" THEN <<>>
                         ELSE Filtered(hits, Wanted),
                         IF params.format = "json" THEN total ELSE NoTotal,
                         IsAggregation)>>
    BY <1>5 DEF Lines
  <2>2. Len(lines) = 1 /\ lines[1].hits = selection
    <3>1. CASE IsAggregation /\ params.format # "json"
      <4>1. selection = <<>>
        BY <3>1, ContractSelection
      <4> QED  BY <2>1, <3>1, <4>1 DEF Record
    <3>2. CASE ~(IsAggregation /\ params.format # "json")
      <4>1. selection = Filtered(hits, Wanted)
        BY <1>3, <3>2 DEF Selected
      <4> QED  BY <2>1, <3>2, <4>1 DEF Record
    <3> QED  BY <3>1, <3>2
  <2>3. Len(stdout) <= 1
    BY <1>1, <1>2, <2>2
  <2>4. Printed = IF stdout = <<>> THEN <<>> ELSE stdout[1].hits
    BY <1>5 DEF Printed
  <2>5. stdout # <<>> => Printed = selection
    <3> HIDE DEF lines, selection
    <3>1. stdout # <<>> => 1 \in 1..Len(stdout)
      BY <1>1
    <3> QED  BY <1>2, <2>2, <2>4, <3>1
  <2>6. Printed = <<>> \/ Printed = selection
    BY <2>4, <2>5
  <2>7. /\ Printed \in Seq(Docs) /\ Len(Printed) <= Len(selection)
        /\ \A i \in 1..Len(Printed) : Printed[i] = selection[i]
    <3> HIDE DEF selection
    <3>1. Len(selection) \in Nat /\ Len(<<>>) = 0
      BY <1>3
    <3>2. CASE Printed = <<>>
      BY <3>1, <3>2
    <3>3. CASE Printed = selection
      BY <1>3, <3>1, <3>3
    <3> QED  BY <2>6, <3>2, <3>3
  <2>8. Len(stdout) = Len(lines) => stdout # <<>>
    BY <2>2
  <2> QED  BY <1>5, <2>2, <2>3, <2>4, <2>5, <2>7, <2>8 DEF PrintedPrefix
<1> QED  BY <1>4, <1>5

\* So it is after a step.
LEMMA PrintedIsSelectedThen ==
  (TypeOK /\ OutputInv /\ exit # exitUsage => PrintedPrefix)'
  BY PrintedIsSelected, PTL

\* A sequence that agrees with another as far as it goes is a prefix of it.
LEMMA PrefixOf ==
  ASSUME NEW S, NEW s \in Seq(S), NEW t \in Seq(S), Len(s) <= Len(t),
         \A i \in 1..Len(s) : s[i] = t[i]
  PROVE  Contract!IsPrefix(s, t)
<1>1. Len(s) \in Nat /\ SubSeq(s, 1, Len(s)) = s
  OBVIOUS
<1>2. SubSeq(t, 1, Len(s)) = [i \in 1..Len(s) |-> t[i]]
  BY <1>1
<1>3. s = [i \in 1..Len(s) |-> t[i]]
  BY <1>1
<1> QED  BY <1>1, <1>2, <1>3 DEF Contract!IsPrefix

\* What has been printed is final while the run goes on: the selection is that
\* of hits which no longer change.
LEMMA PrintedGrows ==
  ASSUME TypeOK, TypeOK', OutputInv, OutputInv', WriteRecord
  PROVE  Contract!Write
<1>1. /\ pc = "render" /\ exit = NoExit /\ exit' = NoExit
      /\ UNCHANGED <<params, status, hits, failures, exit>>
      /\ Len(stdout') = Len(stdout) + 1
  BY DEF WriteRecord, OutputInv, corpus, TypeOK
<1>2. Contract!Selection' = Contract!Selection
  BY <1>1 DEF Contract!Selection, Selected, Wanted, IsAggregation
<1> DEFINE selection == Contract!Selection
<1>3. selection \in Seq(Docs) /\ Len(stdout) \in Nat
  BY ContractSelection DEF TypeOK
<1>4. /\ Printed \in Seq(Docs) /\ Len(Printed) <= Len(selection)
      /\ \A i \in 1..Len(Printed) : Printed[i] = selection[i]
      /\ params.mode = "hits" /\ params.format = "jsonl" => Len(Printed) = Len(stdout)
      /\ ~(params.mode = "hits" /\ params.format = "jsonl") =>
            Printed = <<>> \/ Printed = selection
  BY <1>1, PrintedIsSelected DEF NoExit, exitUsage, PrintedPrefix
<1>5. /\ Printed' \in Seq(Docs) /\ Len(Printed') <= Len(selection)
      /\ \A i \in 1..Len(Printed') : Printed'[i] = selection[i]
      /\ params.mode = "hits" /\ params.format = "jsonl" => Len(Printed') = Len(stdout')
      /\ ~(params.mode = "hits" /\ params.format = "jsonl") => Printed' = selection
  <2>1. stdout' # <<>>
    BY <1>1, <1>3
  <2>2. exit' # exitUsage
    BY <1>1 DEF NoExit, exitUsage
  <2>3. TypeOK' /\ OutputInv' /\ exit' # exitUsage => PrintedPrefix'
    BY PrintedIsSelectedThen
  <2> QED  BY <1>1, <1>2, <2>1, <2>2, <2>3 DEF PrintedPrefix
<1> HIDE DEF selection
<1>6. Len(Printed) <= Len(Printed')
  BY <1>1, <1>3, <1>4, <1>5
<1>7. Contract!IsPrefix(Printed, Printed') /\ Contract!IsPrefix(Printed', selection)
  <2>1. \A i \in 1..Len(Printed) : Printed[i] = Printed'[i]
    BY <1>3, <1>4, <1>5, <1>6
  <2> QED  BY <1>3, <1>4, <1>5, <1>6, <2>1, PrefixOf
<1>8. Stable' = Stable /\ Selected' = Selected /\ FetchesAll' = FetchesAll
  BY <1>1 DEF Stable, Selected, Wanted, IsAggregation, FetchesAll
<1> QED  BY <1>1, <1>7, <1>8 DEF Contract!Write, Contract!NoExit, NoExit, selection

\* A page is gathered in order, before anything is printed.
LEMMA PagesGather ==
  ASSUME TypeOK, PagingInv', OutputInv, TypeOK', OutputInv', PartialInv, CursorInv,
         ReceivePage \/ ReceiveOnly
  PROVE  Contract!Gather
<1>1. /\ pc = "wait" /\ exit = NoExit /\ stdout = <<>> /\ stdout' = <<>>
      /\ UNCHANGED <<params, status, exit>>
      /\ failures' = Append(failures, answer.failed)
  BY DEF ReceivePage, ReceiveOnly, OutputInv, corpus
<1>2. Printed = <<>> /\ Printed' = <<>>
  BY <1>1 DEF Printed
<1>3. hits \in Seq(Docs) /\ hits' \in Seq(Docs) /\ answer.page \in Seq(Docs)
  BY DEF TypeOK, Answers
<1>4. Contract!IsPrefix(hits, hits')
  <2>1. CASE ReceivePage
    <3>1. hits' = hits \o answer.page
      BY <2>1 DEF ReceivePage, Collect
    <3>2. Len(hits) <= Len(hits') /\ \A i \in 1..Len(hits) : hits[i] = hits'[i]
      BY <1>3, <3>1
    <3> QED  BY <1>3, <3>2, PrefixOf
  <2>2. CASE ReceiveOnly
    <3>1. hits = <<>>
      BY <2>2 DEF ReceiveOnly, CursorInv, Requesting
    <3>2. Len(hits) <= Len(hits') /\ \A i \in 1..Len(hits) : hits[i] = hits'[i]
      BY <1>3, <3>1
    <3> QED  BY <1>3, <3>2, PrefixOf
  <2> QED  BY <2>1, <2>2
<1>5. IsInjective(hits') /\ InSortOrder(params.dir, hits')
  BY <1>1 DEF PagingInv, OrderInv, NoDuplicateHits, HitsInSortOrder
<1>6. (\E i \in DOMAIN failures : failures[i] # {}) =>
         \E i \in DOMAIN failures' : failures'[i] # {}
  <2>1. failures \in Seq(SUBSET Shards)
    BY DEF TypeOK
  <2>2. \A i \in DOMAIN failures : i \in DOMAIN failures' /\ failures'[i] = failures[i]
    BY <1>1, <2>1
  <2> QED  BY <2>2
<1>7. Stable' = Stable /\ Selected' = Selected /\ FetchesAll' = FetchesAll
  BY <1>1 DEF Stable, Selected, Wanted, IsAggregation, FetchesAll
<1>8. Contract!IsInjective(hits') /\ Contract!InSortOrder(params.dir, hits')
  BY <1>5 DEF Contract!IsInjective, IsInjective, Contract!InSortOrder, InSortOrder,
     Contract!SortedBefore, SortedBefore, Contract!KeyBefore, KeyBefore,
     Contract!TimeBefore, TimeBefore, Contract!SortKey, SortKey
<1> QED  BY <1>1, <1>2, <1>4, <1>6, <1>7, <1>8
         DEF Contract!Gather, Contract!NoExit, NoExit

\* Exit 0 and 5 follow a complete selection, and exit 0 of a --size 0 run
\* complete pages.
LEMMA FinishDelivers ==
  ASSUME TypeOK, OutputInv, PartialInv, CoverageInv, Finish
  PROVE  Contract!Deliver
<1> DEFINE degraded == \E i \in DOMAIN failures : failures[i] # {}
<1>1. /\ pc = "render" /\ exit = NoExit
      /\ UNCHANGED <<params, status, hits, stdout, failures>>
      /\ Len(stdout) = Len(Lines(Filtered(hits, Wanted)))
      /\ exit' = IF partial # {} THEN exitPartial ELSE exitOK
  BY DEF Finish, OutputInv, corpus, Ends, FinishCode
<1>2. Printed = Contract!Selection
  BY <1>1, PrintedIsSelected DEF NoExit, exitUsage, PrintedPrefix
<1>3. degraded <=> partial # {}
  BY DEF PartialInv
<1>4. FetchesAll /\ ~degraded =>
         \A d \in Stable : \E e \in Range(hits) : SortKey(e) = SortKey(d)
  BY <1>1, <1>3 DEF CoverageInv, Represented
<1>5. Contract!NothingMissing <=>
         \A d \in Stable : \E e \in Range(hits) : SortKey(e) = SortKey(d)
  BY DEF Contract!NothingMissing, Contract!SortKey, SortKey, Contract!Range, Range
<1>6. /\ Stable' = Stable /\ Selected' = Selected /\ FetchesAll' = FetchesAll
      /\ Printed' = Printed
  BY <1>1 DEF Stable, Selected, Wanted, IsAggregation, FetchesAll, Printed
<1> QED  BY <1>1, <1>2, <1>3, <1>4, <1>5, <1>6
         DEF Contract!Deliver, Contract!NoExit, NoExit, Contract!exitOK, exitOK,
             Contract!exitPartial, exitPartial

\* Every step of the run is one of the contract or changes nothing it speaks of.
LEMMA ContractStep ==
  StdoutAccepts /\ TypeOK /\ PagingInv /\ CoverageInv /\ PartialInv /\ OutputInv
  /\ TypeOK' /\ PagingInv' /\ OutputInv' /\ [Next]_vars
    => [Contract!Next]_(Contract!vars)
<1> SUFFICES ASSUME StdoutAccepts, TypeOK, PagingInv, CoverageInv, PartialInv, OutputInv,
                    TypeOK', PagingInv', OutputInv', [Next]_vars
             PROVE  [Contract!Next]_(Contract!vars)
  OBVIOUS
<1>1. CASE ReceivePage \/ ReceiveOnly
  BY <1>1, PagesGather DEF PagingInv, OrderInv, Contract!Next
<1>2. CASE WriteRecord
  BY <1>2, PrintedGrows DEF Contract!Next
<1>3. CASE Finish
  BY <1>3, FinishDelivers DEF Contract!Next
<1>4. ASSUME UNCHANGED <<params, hits, stdout, failures>>
      PROVE  /\ Selected' = Selected /\ FetchesAll' = FetchesAll /\ Printed' = Printed
             /\ UNCHANGED <<params, hits, failures>>
  BY <1>4 DEF Selected, Wanted, IsAggregation, FetchesAll, Printed
<1>5. CASE \/ Aborts \/ ReceiveError \/ UnreadableAggregations
           \/ Preflight /\ ~params.ok
  <2>1. /\ exit = NoExit /\ stdout = <<>> /\ exit' \in HardFailures
        /\ UNCHANGED <<params, hits, stdout, failures, status>>
    BY <1>5 DEF Aborts, ReceiveError, UnreadableAggregations, Preflight, Ends,
       ClassifyESError, HardFailures, OutputInv, corpus
  <2>2. Printed = <<>>
    BY <2>1 DEF Printed
  <2>3. Stable' = Stable
    BY <2>1 DEF Stable
  <2> QED  BY <1>4, <2>1, <2>2, <2>3
           DEF Contract!Next, Contract!Fail, Contract!NoExit, NoExit,
               Contract!HardFailures, HardFailures, Contract!exitUsage, exitUsage,
               Contract!exitConn, exitConn, Contract!exitNotFound, exitNotFound
<1>6. CASE IndexDoc \/ DeleteDoc
  <2>1. Stable' \subseteq Stable
    BY StableShrinks
  <2>2. exit = NoExit /\ UNCHANGED <<params, hits, stdout, failures, exit>>
    BY <1>6 DEF IndexDoc, DeleteDoc, Running, client
  <2> QED  BY <1>4, <2>1, <2>2 DEF Contract!Next, Contract!Vanish, Contract!NoExit, NoExit
<1>7. CASE \/ Preflight /\ params.ok
           \/ SendLookup \/ LookupAborted \/ LookupFails \/ Send
           \/ \E reporting \in Reporting : LookupAnswered(reporting)
           \/ FilterHit \/ FilterDone
           \/ \E unavailable \in Unavailable : SearchAnswered(unavailable)
           \/ SearchFails \/ ChangeWindow \/ Interrupt \/ Ended \/ UNCHANGED vars
  <2>1. UNCHANGED <<params, hits, stdout, failures, exit, status>>
    BY <1>7 DEF Preflight, SendLookup, LookupAborted, LookupFails, Send,
       LookupAnswered, UseWindow, FilterHit, FilterDone, SearchAnswered, SearchFails,
       ChangeWindow, Interrupt, Ended, vars, client, corpus
  <2>2. Stable' = Stable
    BY <2>1 DEF Stable
  <2> QED  BY <1>4, <2>1, <2>2 DEF Contract!vars
<1>8. CASE WriteFails
  BY <1>8 DEF WriteFails, StdoutAccepts
<1> QED  BY <1>1, <1>2, <1>3, <1>5, <1>6, <1>7, <1>8
         DEF Next, ClientStep, ServerStep, Disturbance

\* The run starts where the contract does.
LEMMA ContractInit == Init => Contract!Init
<1> SUFFICES ASSUME Init PROVE Contract!Init
  OBVIOUS
<1>1. TypeOK
  BY TypeInit
<1>2. params \in Params
  BY <1>1, RunAssumption DEF RunAssumption, TypeOK
<1>3. [dir |-> params.dir, all |-> FetchesAll, selected |-> Selected] \in Contract!Requests
  <2>1. params.dir \in Directions
    BY <1>2 DEF Params
  <2>2. FetchesAll \in BOOLEAN
    BY DEF FetchesAll
  <2>3. Selected \subseteq Docs
    BY <1>2 DEF Selected, Wanted, Params
  <2> QED  BY <2>1, <2>2, <2>3 DEF Contract!Requests, Contract!Directions, Directions
<1>4. Stable \subseteq Docs
  BY RunAssumption DEF RunAssumption, Stable
<1>5. Printed = <<>>
  BY DEF Init, Printed
<1>6. failures = <<>> /\ (\E i \in DOMAIN failures : failures[i] # {}) = FALSE
  BY DEF Init
<1> QED  BY <1>3, <1>4, <1>5, <1>6 DEF Init, Contract!Init, Contract!NoExit, NoExit

\* Whatever the corpus, the flags and the failures, short of those of stdout:
\* a search exits 0 only with its complete selection printed, 5 only when shards
\* were missing, and with any other code it has printed nothing.
THEOREM RunKeepsContract == StdoutAccepts => (Spec => ImplementsContract)
<1> SUFFICES ASSUME StdoutAccepts PROVE Spec => ImplementsContract
  OBVIOUS
<1> QED  BY ContractInit, ContractStep, TypeCorrect, PagingCorrect, CoverageCorrect,
            PartialCorrect, OutputCorrect, PTL DEF Spec, ImplementsContract, Contract!Spec
=============================================================================
