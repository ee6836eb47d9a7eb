------------------------------- MODULE EsLog -------------------------------
(***************************************************************************)
(* The process `es-log search': the goroutines of cmd/es-log/main.go       *)
(* (Signals) with internal/cmd/search.go (SearchRun) as their command.     *)
(* They share the context: the handler cancels it, the search sees it.     *)
(***************************************************************************)
EXTENDS Signals

CONSTANTS
    Docs, Shards, Home, TimeOf, DocNo, Target, ParamSpace, InitialDocs,
    Windows, DefaultWindow, TotalCap, Events     \* as in SearchRun

VARIABLES
    params, pc, reqSize, searchAfter, hits, firstPage, total, partial, next,
    shown, stdout, warned, exit, status, limit, answer, failures,  \* of SearchRun
    aborted      \* history: the search ended because of its context

Search == INSTANCE SearchRun

\* What Elasticsearch and SearchRun assume of their constants; and the handler
\* is what interrupts this search.
ASSUME ProcessAssumption ==
    Search!CorpusAssumption /\ Search!RunAssumption /\ "interrupt" \in Events

search    == <<params, pc, reqSize, searchAfter, hits, firstPage, total, partial,
               next, shown, stdout, warned, exit, status, limit, answer, failures>>
goroutine == <<mainPC, handlerPC, relayed, sigCh, received, sigNum, code, ended,
               sent, ownCode, gaveUp>>
allVars   == <<search, goroutine, ctxDone, aborted>>

ProcessInit == Init /\ Search!Init /\ aborted = FALSE

-----------------------------------------------------------------------------
\* The command runs in the main goroutine, between Notify and Stop.
InCommand == Running /\ mainPC = "exec"

SearchStep ==
    /\ InCommand
    /\ Search!ClientStep
    /\ aborted' = (aborted \/ Search!Aborts)
    /\ UNCHANGED goroutine

ClusterAnswers ==
    /\ InCommand
    /\ Search!ServerStep
    /\ UNCHANGED <<goroutine, aborted>>

\* Every disturbance of the search but the interruption: that is the handler's.
Disturbed ==
    /\ InCommand
    /\ Search!Disturbance
    /\ UNCHANGED <<goroutine, ctxDone, aborted>>

\* Mutant: Execute drops the code of the error.
ExecuteAlwaysOK ==
    /\ exit # NoExit
    /\ ExecuteReturns(0, aborted)
    /\ UNCHANGED <<search, aborted>>

\* Execute hands the code of the search to main.
Execute ==
    /\ exit # NoExit
    /\ ExecuteReturns(exit, aborted)
    /\ UNCHANGED <<search, aborted>>

MainStep == (Notify \/ Stop \/ LoadSigNum \/ Exit) /\ UNCHANGED <<search, aborted>>

HandlerStep == Handler /\ UNCHANGED <<search, aborted>>

SignalStep ==
    (\E sig \in SignalNumbers : Signal(sig)) /\ UNCHANGED <<search, aborted>>

ProcessNext ==
    \/ SearchStep
    \/ ClusterAnswers
    \/ Disturbed
    \/ Execute
    \/ MainStep
    \/ HandlerStep
    \/ SignalStep
    \/ ~Running /\ UNCHANGED allVars

ProcessSpec == ProcessInit /\ [][ProcessNext]_allVars

\* Both goroutines are scheduled.  Nothing is assumed of the cluster, and it is
\* not assumed that the search gives up: the code of SearchRun shows that.
ProcessFairSpec ==
    /\ ProcessSpec
    /\ WF_allVars(SearchStep)
    /\ WF_allVars(Execute \/ MainStep)
    /\ WF_allVars(HandlerStep)

-----------------------------------------------------------------------------
\* The process is an instance of Signals, whose abstract command may return
\* anything at any time.
IsSignals == Spec

\* The status 0 of the process is the promise of the search, whatever signals
\* arrived while the last lines were written (README "Exit codes"): no answer
\* lacked a shard, all of the selection is on stdout, and after --size 0 nothing
\* was missed but what ties with a document that is there.
StatusZeroIsComplete ==
    ended = "exited" /\ code = 0 =>
        /\ \A i \in DOMAIN failures : failures[i] = {}
        /\ stdout = Search!Lines(Search!Filtered(hits, Search!Wanted))
        /\ Search!FetchesAll => \A d \in Search!Stable : Search!Represented(d)

\* A search that gave up because of a signal has printed nothing: ctx is looked
\* at while pages are fetched and not between the lines that are written.
GivesUpBeforePrinting == gaveUp => stdout = <<>>

\* A process whose cluster answers every request in the end ends by itself.
ProcessEnds == WF_allVars(ClusterAnswers) => <>(~Running)

-----------------------------------------------------------------------------
(***************************************************************************)
(* What the composition keeps: the link between its two halves.            *)
(***************************************************************************)
\* The search gives up before it prints, only on a cancelled context and with
\* the code of a connection failure.
GiveUpInv ==
    /\ exit \in CommandExits \cup {NoExit}
    /\ pc # "done" => exit = NoExit
    /\ pc \notin {"render", "done"} => stdout = <<>>
    /\ aborted => ctxDone /\ pc = "done" /\ exit = exitConn /\ stdout = <<>>
    /\ gaveUp => aborted

\* What main has from Execute is what the search ended with.
ResultInv ==
    /\ mainPC \notin {"start", "exec"} => ownCode = exit /\ exit # NoExit
    /\ ended = "exited" => mainPC = "exit"
=============================================================================
