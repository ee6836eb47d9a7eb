----------------------------- MODULE SearchRun -----------------------------
(***************************************************************************)
(* One run of `es-log search' (internal/cmd/search.go, aggregation.go):    *)
(* resolve max_result_window where the size calls for it, send one bounded *)
(* _search or page through everything with search_after, filter the hits,  *)
(* write them, and end with a layered exit code.  The run interleaves with *)
(* the cluster (documents come and go, index settings change, shards and   *)
(* requests fail) and with the interruption of its context.                *)
(***************************************************************************)
EXTENDS Elasticsearch, ExitCodes, Filtering

CONSTANTS
    Target,         \* the alias or data stream searched
    ParamSpace,     \* the command lines considered: a set of Params
    InitialDocs,    \* the documents present when the run starts
    Windows,        \* the values index.max_result_window takes
    DefaultWindow,  \* defaultWindow in the code, 10000
    TotalCap,       \* the most an untracked hits.total reports, 10000
    Events          \* the disturbances admitted: a subset of EventNames

EventNames ==
    ServerErrors \cup
    {"index", "delete", "reconfigure", "lookup", "shard", "aggs", "interrupt",
     "stdout"}

(***************************************************************************)
(* searchParams and the global flags, reduced to what steers the run.      *)
(*   ok        every check before the client is built succeeds             *)
(*   mode      hits, aggs (structured flags) or rawaggs (--aggs)           *)
(*   explicit  --size was given                                            *)
(*   includes, excludes  one set per pattern: the documents it matches     *)
(***************************************************************************)
Params ==
    [ok : BOOLEAN, mode : {"hits", "aggs", "rawaggs"}, size : Nat,
     explicit : BOOLEAN, format : {"json", "jsonl", "table"},
     quiet : BOOLEAN, dir : Directions,
     includes : SUBSET SUBSET Docs, excludes : SUBSET SUBSET Docs]

ASSUME RunAssumption ==
    /\ Target # ""                 \* validate refuses a run without target
    /\ ParamSpace \subseteq Params
    /\ InitialDocs \subseteq Docs
    /\ Windows \subseteq Nat \ {0}
    /\ DefaultWindow \in Nat \ {0}
    /\ TotalCap \in Nat
    /\ Events \subseteq EventNames

VARIABLES
    \* the run
    params,       \* the command line
    pc,           \* where runSearch is
    reqSize,      \* the size of the request being built or in flight
    searchAfter,  \* the cursor of the next page
    hits,         \* `all': the hits collected
    firstPage,    \* no page has been received
    total,        \* hits.total of the first answer
    partial,      \* the retained ShardFailure: its failed shards, {} for nil
    next,         \* the hit filterHits looks at next
    shown,        \* the hits filterHits has kept
    stdout,       \* the records written to stdout
    warned,       \* the capping warning went to stderr
    exit,         \* the exit code Execute returns, NoExit before
    ctxDone,      \* the context handed to Execute is cancelled
    \* the cluster
    status,       \* status[d]: absent, live or deleted
    limit,        \* limit[s]: max_result_window of the index of shard s
    answer,       \* the answer to the outstanding _search
    \* history
    failures      \* the failed shards of each answer received, in order

client  == <<pc, reqSize, searchAfter, hits, firstPage, total, partial, next,
             shown, stdout, warned, exit>>
corpus  == <<status, limit>>
vars    == <<params, client, ctxDone, corpus, answer, failures>>

-----------------------------------------------------------------------------
(***************************************************************************)
(* What is printed.                                                        *)
(***************************************************************************)
NoTotal == -1

Record(hs, t, buckets) == [hits |-> hs, total |-> t, buckets |-> buckets]

\* What a write that failed half-way may have left on stdout.
Torn == Record(<<>>, NoTotal, FALSE)

IsAggregation == params.mode # "hits"

FetchesAll == params.mode = "hits" /\ params.size = 0

\* renderSearch and renderAggregation: jsonl hits are one record a line, all
\* else is one document.  Only json carries the total, and the hits beside
\* aggregations.
Lines(kept) ==
    IF params.mode = "hits" /\ params.format = "jsonl"
    THEN [i \in 1..Len(kept) |-> Record(<<kept[i]>>, NoTotal, FALSE)]
    ELSE <<Record(IF IsAggregation /\ params.format # "json" THEN <<>> ELSE kept,
                  IF params.format = "json" THEN total ELSE NoTotal,
                  IsAggregation)>>

\* Mutant: a hit that an include pattern matches is never excluded.
KeepsIncluded(p, d) ==
    p.mode = "hits" =>
        \/ \E pattern \in p.includes : d \in pattern
        \/ p.includes = {} /\ ~ \E pattern \in p.excludes : d \in pattern

\* Only filterHits' callers in hits mode apply the patterns.
Keeps(p, d) ==
    p.mode = "hits" =>
        /\ p.includes # {} => \E pattern \in p.includes : d \in pattern
        /\ ~ \E pattern \in p.excludes : d \in pattern

\* Mutant: the exact count is asked for the wrong format.
TracksTotalForTable(p) == p.format = "table"

TracksTotal(p) == p.format = "json"

-----------------------------------------------------------------------------
(***************************************************************************)
(* Small steps of the algorithm.                                           *)
(***************************************************************************)
\* The hits the flags ask for: aggregations want none unless told otherwise.
Requested(p) == IF p.mode = "hits" \/ p.explicit THEN p.size ELSE 0

NeedsWindow(p) ==
    \/ p.mode = "hits" /\ p.size = 0
    \/ Requested(p) > DefaultWindow

\* Mutant: the sentinel of GetMaxResultWindow escapes.
FallbackWindowSentinel == -1

\* lookupWindow on any failure, and when no index reports a value.
FallbackWindow == DefaultWindow

\* Mutant: the greatest value instead of the least.
IsReportedWindowMax(reporting, w) ==
    IF reporting = {}
    THEN w = FallbackWindow
    ELSE /\ \E s \in reporting : w = limit[s]
         /\ \A s \in reporting : w >= limit[s]

\* GetMaxResultWindow: w is the least value among the indices that report one.
IsReportedWindow(reporting, w) ==
    IF reporting = {}
    THEN w = FallbackWindow
    ELSE /\ \E s \in reporting : w = limit[s]
         /\ \A s \in reporting : w <= limit[s]

CappedSize(size, w) == IF size > w THEN w ELSE size

\* Mutant: off by one, a cap of a single hit is silent.
WarnsOfCapOffByOne(size, w) == size > w + 1 /\ ~params.quiet

WarnsOfCap(size, w) == size > w /\ ~params.quiet

\* The page loop asks ctx.Err; the HTTP transport refuses a cancelled context.
MayStartRequest == ~ctxDone

\* Mutant: the summary of the last page overwrites the others.
KeepPartialLast(first, failed) == failed

KeepPartial(first, failed) == IF first = {} THEN failed ELSE first

\* Mutant: the cursor of the first hit of the page.
NextCursorOfFirst(page) == SortKey(page[1])

NextCursor(page) == SortKey(page[Len(page)])

\* Mutant: the newest page goes in front.
CollectInFront(all, page) == page \o all

Collect(all, page) == all \o page

\* Mutant: a full page ends the loop.
IsLastPageOffByOne(n) == n = 0 \/ n <= reqSize

IsLastPage(n) == n = 0 \/ n < reqSize

\* Mutant: a partial result is a connection failure.
FinishCodeConn(first) == IF first # {} THEN exitConn ELSE exitOK

FinishCode(first) == IF first # {} THEN exitPartial ELSE exitOK

Ends(code) == pc' = "done" /\ exit' = code

-----------------------------------------------------------------------------
Refusal(e) == [kind |-> e, page |-> <<>>, total |-> 0, failed |-> {}]
NoAnswer == Refusal("none")
Answer(page, t, failed) ==
    [kind |-> "ok", page |-> page, total |-> t, failed |-> failed]

Live == {d \in Docs : status[d] = "live"}

Init ==
    /\ params \in ParamSpace
    /\ pc = "start"
    /\ reqSize = 0
    /\ searchAfter = NoCursor
    /\ hits = <<>>
    /\ firstPage = TRUE
    /\ total = 0
    /\ partial = {}
    /\ next = 1
    /\ shown = <<>>
    /\ stdout = <<>>
    /\ warned = FALSE
    /\ exit = NoExit
    /\ ctxDone = FALSE
    /\ status = [d \in Docs |-> IF d \in InitialDocs THEN "live" ELSE "absent"]
    /\ limit \in [Shards -> Windows]
    /\ answer = NoAnswer
    /\ failures = <<>>

-----------------------------------------------------------------------------
(***************************************************************************)
(* The run, from the flags to the first request.                           *)
(***************************************************************************)
\* validate, compileRegexes, loadConfig, formatFor and buildClient.
Preflight ==
    /\ pc = "start"
    /\ IF ~params.ok
       THEN Ends(exitUsage) /\ UNCHANGED reqSize
       ELSE /\ pc' = IF NeedsWindow(params) THEN "lookup" ELSE "send"
            /\ reqSize' = Requested(params)
            /\ UNCHANGED exit
    /\ UNCHANGED <<params, searchAfter, hits, firstPage, total, partial, next,
                   shown, stdout, warned, ctxDone, corpus, answer, failures>>

SendLookup ==
    /\ pc = "lookup"
    /\ MayStartRequest
    /\ pc' = "lookupWait"
    /\ UNCHANGED <<params, reqSize, searchAfter, hits, firstPage, total,
                   partial, next, shown, stdout, warned, exit, ctxDone, corpus,
                   answer, failures>>

\* What executeSearch and runAggregation do with the window they looked up.
UseWindow(w) ==
    /\ pc' = "send"
    /\ reqSize' = IF FetchesAll THEN w ELSE CappedSize(reqSize, w)
    /\ warned' = (~FetchesAll /\ WarnsOfCap(reqSize, w))
    /\ UNCHANGED <<params, searchAfter, hits, firstPage, total, partial, next,
                   shown, stdout, exit, ctxDone, corpus, answer, failures>>

LookupAnswered(reporting) ==
    /\ pc = "lookupWait"
    /\ \E w \in Windows \cup {FallbackWindow} :
          IsReportedWindow(reporting, w) /\ UseWindow(w)

\* lookupWindow drops every error, a cancellation included.
LookupAborted ==
    /\ pc \in {"lookup", "lookupWait"}
    /\ ctxDone
    /\ UseWindow(FallbackWindow)

LookupFails ==
    /\ "lookup" \in Events
    /\ pc = "lookupWait"
    /\ UseWindow(FallbackWindow)

-----------------------------------------------------------------------------
(***************************************************************************)
(* One _search: Send, the cluster's answer, and what is made of it.        *)
(***************************************************************************)
Send ==
    /\ pc = "send"
    /\ MayStartRequest
    /\ pc' = "wait"
    /\ answer' = NoAnswer
    /\ UNCHANGED <<params, reqSize, searchAfter, hits, firstPage, total,
                   partial, next, shown, stdout, warned, exit, ctxDone, corpus,
                   failures>>

\* Mutant: the request is not built with the context of the command.
AbortsBetweenRequests ==
    /\ pc = "send"
    /\ ctxDone
    /\ Ends(ClassifyESError(Target, "canceled"))
    /\ UNCHANGED <<params, reqSize, searchAfter, hits, firstPage, total,
                   partial, next, shown, stdout, warned, ctxDone, corpus,
                   answer, failures>>

\* Mutant: the context ends the output as well.
AbortsAnywhere ==
    /\ pc \in {"send", "wait", "render"}
    /\ ctxDone
    /\ Ends(ClassifyESError(Target, "canceled"))
    /\ UNCHANGED <<params, reqSize, searchAfter, hits, firstPage, total,
                   partial, next, shown, stdout, warned, ctxDone, corpus,
                   answer, failures>>

\* Mutant: a cancellation is no error.
AbortsQuietly ==
    /\ pc \in {"send", "wait"}
    /\ ctxDone
    /\ Ends(exitOK)
    /\ UNCHANGED <<params, reqSize, searchAfter, hits, firstPage, total,
                   partial, next, shown, stdout, warned, ctxDone, corpus,
                   answer, failures>>

\* ctx.Err before the request, or the transport's context error during it.
Aborts ==
    /\ pc \in {"send", "wait"}
    /\ ctxDone
    /\ Ends(ClassifyESError(Target, "canceled"))
    /\ UNCHANGED <<params, reqSize, searchAfter, hits, firstPage, total,
                   partial, next, shown, stdout, warned, ctxDone, corpus,
                   answer, failures>>

\* Mutant: an error is retried.
ReceiveErrorRetries ==
    /\ pc = "wait"
    /\ answer.kind \in ServerErrors
    /\ pc' = "send"
    /\ UNCHANGED <<params, reqSize, searchAfter, hits, firstPage, total,
                   partial, next, shown, stdout, warned, exit, ctxDone, corpus,
                   answer, failures>>

\* An answer the client turns into an error: no hit of any page is kept.
ReceiveError ==
    /\ pc = "wait"
    /\ answer.kind \in ServerErrors
    /\ Ends(ClassifyESError(Target, answer.kind))
    /\ UNCHANGED <<params, reqSize, searchAfter, hits, firstPage, total,
                   partial, next, shown, stdout, warned, ctxDone, corpus,
                   answer, failures>>

\* The body of the loop of paginateAll after Search has returned.
ReceivePage ==
    /\ pc = "wait"
    /\ answer.kind = "ok"
    /\ FetchesAll
    /\ total' = IF firstPage THEN answer.total ELSE total
    /\ firstPage' = FALSE
    /\ partial' = KeepPartial(partial, answer.failed)
    /\ hits' = Collect(hits, answer.page)
    /\ searchAfter' = IF answer.page = <<>> THEN searchAfter
                                            ELSE NextCursor(answer.page)
    /\ pc' = IF IsLastPage(Len(answer.page)) THEN "filter" ELSE "send"
    /\ failures' = Append(failures, answer.failed)
    /\ UNCHANGED <<params, reqSize, next, shown, stdout, warned, exit, ctxDone,
                   corpus, answer>>

\* singleSearch and runAggregation: one answer is all there is.
ReceiveOnly ==
    /\ pc = "wait"
    /\ answer.kind = "ok"
    /\ ~FetchesAll
    /\ total' = answer.total
    /\ partial' = answer.failed
    /\ hits' = answer.page
    /\ pc' = "filter"
    /\ failures' = Append(failures, answer.failed)
    /\ UNCHANGED <<params, reqSize, searchAfter, firstPage, next, shown,
                   stdout, warned, exit, ctxDone, corpus, answer>>

-----------------------------------------------------------------------------
(***************************************************************************)
(* filterHits, the renderers, and the exit code.                           *)
(***************************************************************************)
FilterHit ==
    /\ pc = "filter"
    /\ next <= Len(hits)
    /\ shown' = IF Keeps(params, hits[next]) THEN Append(shown, hits[next]) ELSE shown
    /\ next' = next + 1
    /\ UNCHANGED <<params, pc, reqSize, searchAfter, hits, firstPage, total,
                   partial, stdout, warned, exit, ctxDone, corpus, answer,
                   failures>>

FilterDone ==
    /\ pc = "filter"
    /\ next > Len(hits)
    /\ pc' = "render"
    /\ UNCHANGED <<params, reqSize, searchAfter, hits, firstPage, total,
                   partial, next, shown, stdout, warned, exit, ctxDone, corpus,
                   answer, failures>>

WriteRecord ==
    /\ pc = "render"
    /\ Len(stdout) < Len(Lines(shown))
    /\ stdout' = Append(stdout, Lines(shown)[Len(stdout) + 1])
    /\ UNCHANGED <<params, pc, reqSize, searchAfter, hits, firstPage, total,
                   partial, next, shown, warned, exit, ctxDone, corpus, answer,
                   failures>>

Finish ==
    /\ pc = "render"
    /\ Len(stdout) = Len(Lines(shown))
    /\ Ends(FinishCode(partial))
    /\ UNCHANGED <<params, reqSize, searchAfter, hits, firstPage, total,
                   partial, next, shown, stdout, warned, ctxDone, corpus,
                   answer, failures>>

\* Mutant: the error of a write is dropped, the next record is written.
WriteFailsUnnoticed ==
    /\ "stdout" \in Events
    /\ pc = "render"
    /\ Len(stdout) < Len(Lines(shown))
    /\ stdout' = Append(stdout, Torn)
    /\ UNCHANGED <<params, pc, reqSize, searchAfter, hits, firstPage, total,
                   partial, next, shown, warned, exit, ctxDone, corpus, answer,
                   failures>>

\* A failed write is an unclassified error of the renderer; what was written
\* before it, part of the failing record included, stays on stdout.
WriteFails ==
    /\ "stdout" \in Events
    /\ pc = "render"
    /\ Len(stdout) < Len(Lines(shown))
    /\ stdout' \in {stdout, Append(stdout, Torn)}
    /\ Ends(exitUsage)
    /\ UNCHANGED <<params, reqSize, searchAfter, hits, firstPage, total,
                   partial, next, shown, warned, ctxDone, corpus, answer,
                   failures>>

\* structuredAggRows cannot parse the aggregations of a 200 answer.
UnreadableAggregations ==
    /\ "aggs" \in Events
    /\ pc = "render"
    /\ params.mode = "aggs" /\ params.format # "json"
    /\ stdout = <<>>
    /\ Ends(exitUsage)
    /\ UNCHANGED <<params, reqSize, searchAfter, hits, firstPage, total,
                   partial, next, shown, stdout, warned, ctxDone, corpus,
                   answer, failures>>

-----------------------------------------------------------------------------
(***************************************************************************)
(* The cluster and the interruption.  What happens to the cluster after    *)
(* the command has ended is of no interest.                                *)
(***************************************************************************)
Running == exit = NoExit

\* Shards that do not hold a candidate because they failed: a shard rejects a
\* request larger than the window of its index; any shard may be unavailable.
RejectedBy == {s \in Shards : reqSize > limit[s]}

SearchAnswered(unavailable) ==
    /\ pc = "wait"
    /\ answer = NoAnswer
    /\ LET failed  == RejectedBy \cup unavailable
           matches == {d \in Live : Home[d] \notin failed}
           count   == Cardinality(matches)
           found   == IF ~TracksTotal(params) /\ count > TotalCap
                      THEN TotalCap ELSE count
       IN \/ \E page \in Pages(params.dir,
                               SearchAfter(params.dir, matches, searchAfter),
                               reqSize) :
                answer' = Answer(page, found, failed)
          \/ failed = Shards /\ answer' = Refusal("api")
    /\ UNCHANGED <<params, client, ctxDone, corpus, failures>>

SearchFails ==
    /\ pc = "wait"
    /\ answer = NoAnswer
    /\ \E e \in ServerErrors \cap Events : answer' = Refusal(e)
    /\ UNCHANGED <<params, client, ctxDone, corpus, failures>>

IndexDoc ==
    /\ "index" \in Events
    /\ Running
    /\ \E d \in Docs :
          /\ status[d] = "absent"
          /\ status' = [status EXCEPT ![d] = "live"]
    /\ UNCHANGED <<params, client, ctxDone, limit, answer, failures>>

\* Deleted, or older than the query's --since by now.
DeleteDoc ==
    /\ "delete" \in Events
    /\ Running
    /\ \E d \in Docs :
          /\ status[d] = "live"
          /\ status' = [status EXCEPT ![d] = "deleted"]
    /\ UNCHANGED <<params, client, ctxDone, limit, answer, failures>>

ChangeWindow ==
    /\ "reconfigure" \in Events
    /\ Running
    /\ \E s \in Shards, w \in Windows :
          /\ w # limit[s]
          /\ limit' = [limit EXCEPT ![s] = w]
    /\ UNCHANGED <<params, client, ctxDone, status, answer, failures>>

\* The handler goroutine of main cancels the context.
Interrupt ==
    /\ "interrupt" \in Events
    /\ ~ctxDone
    /\ ctxDone' = TRUE
    /\ UNCHANGED <<params, client, corpus, answer, failures>>

-----------------------------------------------------------------------------
\* Indices that report no window, and shards that are unavailable, are
\* disturbances as well.
Reporting   == IF "lookup" \in Events THEN SUBSET Shards ELSE {Shards}
Unavailable == IF "shard" \in Events THEN SUBSET Shards ELSE {{}}

ClientStep ==
    \/ Preflight
    \/ SendLookup
    \/ LookupAborted
    \/ Send
    \/ Aborts
    \/ ReceiveError
    \/ ReceivePage
    \/ ReceiveOnly
    \/ FilterHit
    \/ FilterDone
    \/ WriteRecord
    \/ Finish

ServerStep ==
    \/ \E reporting \in Reporting : LookupAnswered(reporting)
    \/ \E unavailable \in Unavailable : SearchAnswered(unavailable)

Disturbance ==
    \/ LookupFails
    \/ WriteFails
    \/ UnreadableAggregations
    \/ SearchFails
    \/ IndexDoc
    \/ DeleteDoc
    \/ ChangeWindow
    \/ Interrupt

Ended == pc = "done" /\ UNCHANGED vars

Next == ClientStep \/ ServerStep \/ Disturbance \/ Ended

Spec == Init /\ [][Next]_vars

-----------------------------------------------------------------------------
(***************************************************************************)
(* Properties.                                                             *)
(***************************************************************************)
Records == [hits : Seq(Docs), total : Nat \cup {NoTotal}, buckets : BOOLEAN]

\* Answers in the form the cluster gives them.
Answers == [kind : {"none", "ok"} \cup ServerErrors, page : Seq(Docs),
            total : Nat, failed : SUBSET Shards]

\* The type invariant: no request of a negative size is built and no cursor
\* but a sort key is sent.
TypeOK ==
    /\ params \in ParamSpace
    /\ pc \in {"start", "lookup", "lookupWait", "send", "wait", "filter",
               "render", "done"}
    /\ reqSize \in Nat
    /\ searchAfter \in SortKeys \cup {NoCursor}
    /\ hits \in Seq(Docs)
    /\ firstPage \in BOOLEAN
    /\ total \in Nat
    /\ partial \in SUBSET Shards
    /\ next \in Nat \ {0}
    /\ shown \in Seq(Docs)
    /\ stdout \in Seq(Records)
    /\ warned \in BOOLEAN
    /\ exit \in CommandExits \cup {NoExit}
    /\ ctxDone \in BOOLEAN
    /\ status \in [Docs -> {"absent", "live", "deleted"}]
    /\ limit \in [Shards -> Windows]
    /\ answer \in Answers
    /\ failures \in Seq(SUBSET Shards)

\* Documents that matched from the start of the run to now.
Stable == {d \in InitialDocs : status[d] = "live"}

\* No document is collected twice, whatever is indexed, deleted or
\* reconfigured between two pages (paginateAll keeps no set of seen ids).
NoDuplicateHits == IsInjective(hits)

\* The pages put one after the other are in the order asked for.
HitsInSortOrder == InSortOrder(params.dir, hits)

\* A --size 0 run that exits 0 has collected every document that matched all
\* along: README "--size 0 pages through all matches".
FetchAllComplete ==
    FetchesAll /\ exit = exitOK => Stable \subseteq Range(hits)

\* d itself, or a document that ties with it, has been collected.
Represented(d) == \E e \in Range(hits) : SortKey(e) = SortKey(d)

\* Whatever the corpus, the only documents that a --size 0 run can miss when it
\* exits 0 are those that tie, shard number and all, with one it has collected.
OnlyTiesMissing ==
    FetchesAll /\ exit = exitOK => \A d \in Stable : Represented(d)

\* A bounded run that exits 0 and lacks a document that matched all along
\* has as many hits as it asked for, none of them sorted after the missing
\* one; and if that is fewer than --size, the capping was announced.
TruncationAnnounced ==
    ~FetchesAll /\ exit = exitOK =>
        \A d \in Stable \ Range(hits) :
            /\ \A i \in DOMAIN hits : ~SortedBefore(params.dir, d, hits[i])
            /\ Len(hits) = reqSize
            /\ Len(hits) < Requested(params) => warned \/ params.quiet

\* With an answer from every index about its window, a request whose size was
\* looked up fits every one of them.
RequestFitsEveryIndex ==
    pc = "wait" /\ NeedsWindow(params) => RejectedBy = {}

\* skill/SKILL.md:84 says of --size that "An N exceeding the window is truncated
\* with a warning on stderr"; aggregation.go:290 says the same of aggregations.
\* So no bounded request exceeds the window of an index that reports it.
BoundedRequestFits == pc = "wait" /\ ~FetchesAll => RejectedBy = {}

\* The documents the patterns select.
Wanted ==
    IF IsAggregation THEN Docs
    ELSE (IF params.includes = {} THEN Docs ELSE UNION params.includes)
            \ UNION params.excludes

\* A run that exits 0 or 5 has written exactly the hits the patterns select, in
\* the order they were fetched, whichever format they are written in.
OutputIsFilteredFetch ==
    exit \in {exitOK, exitPartial} =>
        stdout = Lines(Filtered(hits, Wanted))

\* Also when stdout fails: at any time what is there is the beginning of the
\* selection, with a torn record at its end only where the run ended with 2.
WrittenInOrder ==
    LET selection == Lines(Filtered(hits, Wanted))
    IN \A i \in DOMAIN stdout :
          \/ i <= Len(selection) /\ stdout[i] = selection[i]
          \/ i = Len(stdout) /\ stdout[i] = Torn /\ exit = exitUsage

\* Exit 0 means that no answer reported a failed shard, and the summary that
\* exit 5 prints is that of the first answer that did.
PartialNeverSilent ==
    LET failing == {i \in DOMAIN failures : failures[i] # {}}
    IN /\ exit = exitOK => failing = {}
       /\ exit = exitPartial =>
              \E i \in failing : /\ \A j \in failing : i <= j
                                 /\ partial = failures[i]

\* The total of the json output is the number of matches, and for --size 0
\* the number of hits, when the corpus does not change during the run.
TotalIsExact ==
    exit = exitOK /\ params.format = "json" =>
        /\ stdout[1].total = Cardinality(InitialDocs)
        /\ FetchesAll => stdout[1].total = Len(hits)

-----------------------------------------------------------------------------
(***************************************************************************)
(* The inductive strengthening of the paging properties.                   *)
(***************************************************************************)
BeforeFirstRequest == pc \in {"start", "lookup", "lookupWait"}
Requesting == pc \in {"send", "wait"}

\* The cursor of paginateAll is the sort key of the last hit it has, so what
\* the next page may hold comes strictly after everything collected.
CursorInv ==
    /\ BeforeFirstRequest => hits = <<>> /\ searchAfter = NoCursor
    /\ Requesting =>
        /\ ~FetchesAll => hits = <<>>
        /\ searchAfter = IF hits = <<>> THEN NoCursor ELSE SortKey(hits[Len(hits)])
        /\ FetchesAll => reqSize > 0

\* An answer on its way is ordered, free of duplicates, after the cursor and no
\* longer than asked for.
AnswerInv ==
    pc = "wait" /\ answer.kind = "ok" =>
        /\ IsInjective(answer.page)
        /\ InSortOrder(params.dir, answer.page)
        /\ \A i \in DOMAIN answer.page :
              IsAfter(params.dir, searchAfter, answer.page[i])
        /\ Len(answer.page) <= reqSize

\* What the pages hold is ordered, free of duplicates and joined by the cursor.
OrderInv ==
    /\ NoDuplicateHits
    /\ HitsInSortOrder
    /\ CursorInv
    /\ AnswerInv

\* When no shard failed, all that an answer leaves out comes after a full page.
AnswerComplete ==
    pc = "wait" /\ answer.kind = "ok" /\ answer.failed = {} =>
        \A d \in Stable \ Range(answer.page) :
            IsAfter(params.dir, searchAfter, d) =>
                /\ Len(answer.page) = reqSize
                /\ \A i \in DOMAIN answer.page :
                      ~SortedBefore(params.dir, d, answer.page[i])

PagingInv ==
    /\ OrderInv
    /\ AnswerComplete
    /\ \A d \in InitialDocs : status[d] # "absent"

\* As long as no shard has failed, every stable document up to the cursor is
\* represented, and after the last page every stable document is.
CoverageInv ==
    /\ exit = exitOK => partial = {} /\ pc = "done"
    /\ pc = "done" => exit # NoExit
    /\ FetchesAll /\ partial = {} =>
        /\ Requesting =>
              \A d \in Stable : Represented(d) \/ IsAfter(params.dir, searchAfter, d)
        /\ (pc \in {"filter", "render"} \/ exit = exitOK) =>
              \A d \in Stable : Represented(d)

-----------------------------------------------------------------------------
(***************************************************************************)
(* The inductive strengthenings of the properties of what is printed, of   *)
(* the exit code, and of the bounded searches.                             *)
(***************************************************************************)
AfterLastAnswer == pc \in {"filter", "render"} \/ exit = exitOK

\* filterHits has looked at the hits before `next'; nothing is written before
\* it has seen them all, and an exit code is there only at the end.
OutputInv ==
    /\ pc # "done" => exit = NoExit
    /\ BeforeFirstRequest \/ Requesting => next = 1 /\ shown = <<>>
    /\ pc = "filter" =>
        /\ next <= Len(hits) + 1
        /\ shown = FilteredPrefixes(hits, Wanted)[next - 1]
    /\ pc = "render" =>
        /\ shown = Filtered(hits, Wanted)
        /\ Len(stdout) <= Len(Lines(shown))
    /\ pc \notin {"render", "done"} => stdout = <<>>
    /\ OutputIsFilteredFetch
    /\ WrittenInOrder

\* `partial' is the summary of the first answer that lacked shards, at any time.
PartialInv ==
    LET failing == {i \in DOMAIN failures : failures[i] # {}}
    IN /\ failing = {} => partial = {}
       /\ failing # {} => \E i \in failing : /\ \A j \in failing : i <= j
                                             /\ partial = failures[i]
       /\ ~FetchesAll /\ (BeforeFirstRequest \/ Requesting) => failures = <<>>
       /\ exit = exitOK => partial = {}
       /\ exit = exitPartial => partial # {}
       /\ exit \in {exitOK, exitPartial} => pc = "done"

\* The size of a bounded request is the one asked for or its cap was announced;
\* and what a complete answer to it left out comes after a full page.
BoundedInv ==
    /\ pc \in {"lookup", "lookupWait"} => reqSize = Requested(params)
    /\ ~FetchesAll =>
        /\ Requesting \/ AfterLastAnswer =>
              reqSize >= Requested(params) \/ warned \/ params.quiet
        /\ partial = {} /\ AfterLastAnswer =>
              \A d \in Stable \ Range(hits) :
                  /\ \A i \in DOMAIN hits : ~SortedBefore(params.dir, d, hits[i])
                  /\ Len(hits) = reqSize

\* While nobody changes a window and every index reports its own, the window
\* looked up is that of every index.  A lookup that was interrupted yields
\* another one, but no request follows it.
WindowInv ==
    NeedsWindow(params) =>
        /\ pc = "send" /\ ~ctxDone => RejectedBy = {}
        /\ pc = "wait" => RejectedBy = {}

\* While nobody changes the corpus, an answer without failed shards counts all
\* of it, and the first one's count is kept.
TotalInv ==
    /\ status = [d \in Docs |-> IF d \in InitialDocs THEN "live" ELSE "absent"]
    /\ Range(hits) \subseteq InitialDocs
    /\ answer.kind = "ok" =>
        /\ Range(answer.page) \subseteq InitialDocs
        /\ answer.failed = {} /\ TracksTotal(params) =>
              answer.total = Cardinality(InitialDocs)
    /\ partial = {} /\ TracksTotal(params) /\ (IF FetchesAll THEN ~firstPage
                                                             ELSE AfterLastAnswer) =>
              total = Cardinality(InitialDocs)
    /\ FetchesAll /\ AfterLastAnswer => ~firstPage
=============================================================================
