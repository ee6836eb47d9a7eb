---------------------------- MODULE EsLogProofs ----------------------------
(***************************************************************************)
(* Theorems about the signals and the whole process: it implements Signals *)
(* and SearchRun, so what is proved of each half holds of their            *)
(* composition, and its exit status vouches for what is on stdout.         *)
(***************************************************************************)
EXTENDS EsLog, TLAPS

-----------------------------------------------------------------------------
(***************************************************************************)
(* Signals, for any number of signals.                                     *)
(***************************************************************************)
USE DEF Running, Notified, SIGINT, SIGTERM, Deliver

\* The initial state is typed.
LEMMA TypeInit == Init => TypeOK
<1> SUFFICES ASSUME Init PROVE TypeOK
  OBVIOUS
<1>1. sigCh \in Seq(Notified) /\ Len(sigCh) <= 1 /\ sent \in Seq(SignalNumbers)
  BY DEF Init
<1> QED  BY <1>1 DEF Init, TypeOK

\* The steps of the main goroutine preserve the types.
LEMMA TypeMain == TypeOK /\ Main => TypeOK'
<1> SUFFICES ASSUME TypeOK, Main PROVE TypeOK'
  OBVIOUS
<1>1. CASE Notify
  BY <1>1 DEF TypeOK, Notify
<1>2. CASE ExecuteCompletes \/ ExecuteGivesUp
  <2>1. PICK c \in CommandExits, canceled \in BOOLEAN : ExecuteReturns(c, canceled)
    BY <1>2 DEF ExecuteCompletes, ExecuteGivesUp, ClassifyESError, CommandExits
  <2> QED  BY <2>1 DEF TypeOK, ExecuteReturns
<1>3. CASE Stop
  BY <1>3 DEF TypeOK, Stop
<1>4. CASE LoadSigNum
  <2>1. sigNum # 0 => sigNum \in Notified
    BY DEF TypeOK
  <2> QED  BY <1>4, <2>1 DEF TypeOK, LoadSigNum
<1>5. CASE Exit
  BY <1>5 DEF TypeOK, Exit
<1> QED  BY <1>1, <1>2, <1>3, <1>4, <1>5 DEF Main

\* The handler's steps and the signals preserve the types.
LEMMA TypeSignals ==
  TypeOK /\ (Handler \/ \E sig \in SignalNumbers : Signal(sig)) => TypeOK'
<1> SUFFICES ASSUME TypeOK, Handler \/ \E sig \in SignalNumbers : Signal(sig)
             PROVE  TypeOK'
  OBVIOUS
<1>1. CASE HandlerReceive
  <2>1. sigCh \in Seq(Notified) /\ sigCh # <<>> /\ Len(sigCh) <= 1
    BY <1>1 DEF TypeOK, HandlerReceive
  <2>2. Head(sigCh) \in Notified /\ Tail(sigCh) \in Seq(Notified) /\ Len(Tail(sigCh)) <= 1
    BY <2>1
  <2> QED  BY <1>1, <2>2 DEF TypeOK, HandlerReceive, HandlerAfter
<1>2. CASE HandlerStore \/ HandlerReset \/ HandlerCancel
  BY <1>2 DEF TypeOK, HandlerStore, HandlerReset, HandlerCancel, HandlerAfter
<1>3. ASSUME NEW sig \in SignalNumbers, Signal(sig) PROVE TypeOK'
  <2>1. sent' \in Seq(SignalNumbers)
    BY <1>3 DEF TypeOK, Signal
  <2>2. sigCh' \in Seq(Notified) /\ Len(sigCh') <= 1
    <3>1. sig \in relayed => <<sig>> \in Seq(Notified) /\ Len(<<sig>>) <= 1
      BY DEF TypeOK
    <3> QED  BY <1>3, <3>1 DEF TypeOK, Signal
  <2> QED  BY <1>3, <2>1, <2>2 DEF TypeOK, Signal
<1> QED  BY <1>1, <1>2, <1>3 DEF Handler

\* Every step preserves the types.
LEMMA TypeStep == TypeOK /\ [Next]_vars => TypeOK'
<1>1. TypeOK /\ UNCHANGED vars => TypeOK'
  BY DEF TypeOK, vars
<1> QED  BY <1>1, TypeMain, TypeSignals DEF Next, Dead

\* The channel never holds more than one signal, and exit statuses are those of
\* the command or of a signal.
THEOREM TypeCorrect == Spec => []TypeOK
  BY TypeInit, TypeStep, PTL DEF Spec

-----------------------------------------------------------------------------
\* The initial state satisfies the invariant.
LEMMA SignalInit == Init => SignalInv
  BY DEF Init, SignalInv, HandlerInv, MainInv

\* The main goroutine preserves the invariant.
LEMMA SignalMain == TypeOK /\ SignalInv /\ Main => SignalInv'
<1> SUFFICES ASSUME TypeOK, SignalInv, Main PROVE SignalInv'
  OBVIOUS
<1>1. HandlerInv /\ MainInv
  BY DEF SignalInv
<1>2. UNCHANGED <<handlerPC, sigCh, received, sigNum, ctxDone, sent>>
  BY DEF Main, Notify, ExecuteCompletes, ExecuteGivesUp, ExecuteReturns, Stop,
     LoadSigNum, Exit
<1>3. Running
  BY DEF Main, Notify, ExecuteCompletes, ExecuteGivesUp, ExecuteReturns, Stop,
     LoadSigNum, Exit
<1>4. HandlerInv'
  BY <1>1, <1>2, <1>3 DEF HandlerInv
<1>5. CASE Notify
  BY <1>1, <1>2, <1>4, <1>5 DEF SignalInv, MainInv, Notify
<1>6. CASE ExecuteCompletes \/ ExecuteGivesUp
  <2>1. PICK c \in CommandExits, canceled \in BOOLEAN :
           ExecuteReturns(c, canceled) /\ (canceled => ctxDone)
    BY <1>6 DEF ExecuteCompletes, ExecuteGivesUp, ClassifyESError, CommandExits
  <2> QED  BY <1>1, <1>2, <1>4, <2>1 DEF SignalInv, MainInv, ExecuteReturns
<1>7. CASE Stop
  BY <1>1, <1>2, <1>4, <1>7 DEF SignalInv, MainInv, Stop
<1>8. CASE LoadSigNum
  <2>1. sigNum # 0 => sent # <<>> /\ sigNum = sent[1]
    BY <1>1 DEF HandlerInv, TypeOK
  <2>2. gaveUp => sigNum # 0
    BY <1>1 DEF HandlerInv, MainInv
  <2> QED  BY <1>1, <1>2, <1>4, <1>8, <2>1, <2>2 DEF SignalInv, MainInv, LoadSigNum
<1>9. CASE Exit
  BY <1>1, <1>2, <1>4, <1>9 DEF SignalInv, MainInv, Exit
<1> QED  BY <1>5, <1>6, <1>7, <1>8, <1>9 DEF Main

\* The handler and the signals preserve the invariant.
LEMMA SignalSignals ==
  TypeOK /\ SignalInv /\ (Handler \/ \E sig \in SignalNumbers : Signal(sig))
    => SignalInv'
<1> SUFFICES ASSUME TypeOK, SignalInv,
                    Handler \/ \E sig \in SignalNumbers : Signal(sig)
             PROVE  SignalInv'
  OBVIOUS
<1>1. HandlerInv /\ MainInv
  BY DEF SignalInv
<1>2. CASE HandlerReceive
  <2>1. sigCh = <<sent[1]>> /\ sent # <<>>
    BY <1>1, <1>2 DEF HandlerInv, HandlerReceive
  <2>2. received' = sent[1] /\ handlerPC' = "store"
    BY <1>2, <2>1 DEF HandlerReceive, HandlerAfter
  <2> QED  BY <1>1, <1>2, <2>1, <2>2 DEF SignalInv, HandlerInv, MainInv, HandlerReceive
<1>3. CASE HandlerStore
  <2>1. received # 0 /\ sent # <<>> /\ received = sent[1]
    <3>1. sent # <<>> /\ received = sent[1]
      BY <1>1, <1>3 DEF HandlerInv, HandlerStore
    <3>2. sent[1] \in SignalNumbers
      BY <3>1 DEF TypeOK
    <3> QED  BY <3>1, <3>2, SignalAssumption DEF SignalAssumption
  <2> QED  BY <1>1, <1>3, <2>1 DEF SignalInv, HandlerInv, MainInv, HandlerStore, HandlerAfter
<1>4. CASE HandlerReset \/ HandlerCancel
  BY <1>1, <1>4 DEF SignalInv, HandlerInv, MainInv, HandlerReset, HandlerCancel, HandlerAfter
<1>5. ASSUME NEW sig \in SignalNumbers, Signal(sig) PROVE SignalInv'
  <2>1. /\ sent' = Append(sent, sig) /\ sent \in Seq(SignalNumbers) /\ Running
        /\ UNCHANGED <<mainPC, handlerPC, received, sigNum, ctxDone, ownCode, gaveUp>>
    BY <1>5 DEF TypeOK, Signal
  <2>2. sent' # <<>> /\ sent'[1] = IF sent = <<>> THEN sig ELSE sent[1]
    BY <2>1
  <2>3. CASE sig \in relayed
    <3>1. /\ sigCh' = IF sigCh = <<>> THEN <<sig>> ELSE sigCh
          /\ UNCHANGED <<code, ended>>
      BY <1>5, <2>3 DEF Signal
    <3>2. HandlerInv'
      BY <1>1, <2>1, <2>2, <3>1 DEF HandlerInv
    <3>3. MainInv'
      BY <1>1, <2>1, <2>2, <3>1 DEF MainInv
    <3> QED  BY <3>2, <3>3 DEF SignalInv
  <2>4. CASE sig \notin relayed
    <3>1. ended' = "killed"
      BY <1>5, <2>4 DEF Signal
    <3>2. HandlerInv'
      BY <1>1, <2>1, <2>2, <3>1 DEF HandlerInv
    <3>3. MainInv'
      BY <1>1, <2>1, <3>1 DEF MainInv
    <3> QED  BY <3>2, <3>3 DEF SignalInv
  <2> QED  BY <2>3, <2>4
<1> QED  BY <1>2, <1>3, <1>4, <1>5 DEF Handler

\* Every step preserves the invariant.
LEMMA SignalInvStep == TypeOK /\ SignalInv /\ [Next]_vars => SignalInv'
<1>1. SignalInv /\ UNCHANGED vars => SignalInv'
  BY DEF SignalInv, HandlerInv, MainInv, vars
<1> QED  BY <1>1, SignalMain, SignalSignals DEF Next, Dead

\* The handler's and main's bookkeeping agree on the first signal.
THEOREM SignalCorrect == Spec => []SignalInv
  BY TypeInit, TypeStep, SignalInit, SignalInvStep, PTL DEF Spec

\* However the goroutines and the signals interleave, a process whose command
\* gave up on its cancelled context exits with 128 + the first signal.
THEOREM InterruptedExitCorrect == Spec => []InterruptedExit
<1>1. SignalInv => InterruptedExit
  BY DEF SignalInv, MainInv, InterruptedExit
<1> QED  BY <1>1, SignalCorrect, PTL

\* A process replaces its command's exit code only by that of the first signal.
THEOREM OwnCodeCorrect == Spec => []OwnCodeKept
<1>1. SignalInv => OwnCodeKept
  BY DEF SignalInv, MainInv, OwnCodeKept
<1> QED  BY <1>1, SignalCorrect, PTL

-----------------------------------------------------------------------------
\* Every step preserves the relaying.
LEMMA RelayStep == TypeOK /\ RelayInv /\ [Next]_vars => RelayInv'
<1> SUFFICES ASSUME TypeOK, RelayInv, [Next]_vars PROVE RelayInv'
  OBVIOUS
<1>1. CASE Main
  BY <1>1 DEF Main, Notify, ExecuteCompletes, ExecuteGivesUp, ExecuteReturns, Stop,
     LoadSigNum, Exit, RelayInv
<1>2. CASE HandlerReceive \/ HandlerStore
  BY <1>2 DEF HandlerReceive, HandlerStore, RelayInv
<1>3. CASE HandlerReset \/ HandlerCancel
  BY <1>3 DEF HandlerReset, HandlerCancel, HandlerAfter, RelayInv
<1>4. CASE (\E sig \in SignalNumbers : Signal(sig)) \/ Dead \/ UNCHANGED vars
  BY <1>4 DEF Signal, Dead, vars, RelayInv
<1> QED  BY <1>1, <1>2, <1>3, <1>4 DEF Next, Handler

\* Nothing but the handler, once it holds a signal, lets a signal kill the
\* running command.
THEOREM RelayCorrect == Spec => []RelayInv
<1>1. Init => RelayInv
  BY DEF Init, RelayInv
<1> QED  BY <1>1, RelayStep, TypeCorrect, PTL DEF Spec

\* The first SIGINT or SIGTERM that finds the command running never kills the
\* process.
THEOREM FirstSignalCorrect == Spec => FirstSignalIsGentle
<1>1. ASSUME SignalInv, RelayInv, TypeOK, [Next]_vars
      PROVE  [mainPC = "exec" /\ sent = <<>> /\ sent' # <<>>
              /\ sent'[1] \in {SIGINT, SIGTERM} => ended' = "running"]_vars
  <2> SUFFICES ASSUME mainPC = "exec", sent = <<>>, sent' # <<>>,
                      sent'[1] \in {SIGINT, SIGTERM}
               PROVE  ended' = "running"
    OBVIOUS
  <2>1. relayed = Notified
    BY <1>1 DEF SignalInv, HandlerInv, RelayInv
  <2>2. PICK sig \in SignalNumbers : Signal(sig)
    BY <1>1 DEF Next, Main, Notify, ExecuteCompletes, ExecuteGivesUp, ExecuteReturns,
       Stop, LoadSigNum, Exit, Handler, HandlerReceive, HandlerStore, HandlerReset,
       HandlerCancel, Dead, vars
  <2>3. sent'[1] = sig
    BY <2>2 DEF Signal
  <2> QED  BY <2>1, <2>2, <2>3 DEF Signal
<1> QED  BY <1>1, SignalCorrect, RelayCorrect, TypeCorrect, PTL
         DEF Spec, FirstSignalIsGentle

HIDE DEF Running, Notified, SIGINT, SIGTERM, Deliver

-----------------------------------------------------------------------------
(***************************************************************************)
(* Giving up.                                                              *)
(***************************************************************************)
\* The steps of the search preserve the invariant.
LEMMA GiveUpSearch ==
  ASSUME GiveUpInv, SearchStep PROVE GiveUpInv'
<1>1. /\ Search!ClientStep /\ aborted' = (aborted \/ Search!Aborts)
      /\ UNCHANGED gaveUp
  BY DEF SearchStep, goroutine
<1>2. CASE Search!Aborts
  BY <1>1, <1>2 DEF GiveUpInv, Search!Aborts, Search!Ends, Search!ClassifyESError,
     Search!exitConn, exitConn, CommandExits
<1>3. CASE ~Search!Aborts
  <2>1. aborted' <=> aborted
    BY <1>1, <1>3, Zenon
  <2>2. pc # "done"
    BY <1>1 DEF Search!ClientStep, Search!Preflight, Search!SendLookup,
       Search!LookupAborted, Search!Send, Search!Aborts, Search!ReceiveError,
       Search!ReceivePage, Search!ReceiveOnly, Search!FilterHit, Search!FilterDone,
       Search!WriteRecord, Search!Finish
  <2>3. ~aborted
    BY <2>2 DEF GiveUpInv
  <2>4. \/ exit' = exit /\ pc' # "done"
        \/ exit' \in CommandExits /\ pc' = "done"
    BY <1>1, <2>2 DEF Search!ClientStep, Search!Preflight, Search!SendLookup,
       Search!LookupAborted, Search!Send, Search!Aborts, Search!ReceiveError,
       Search!ReceivePage, Search!ReceiveOnly, Search!FilterHit, Search!FilterDone,
       Search!WriteRecord, Search!Finish, Search!UseWindow, Search!Ends,
       Search!ClassifyESError, Search!FinishCode, Search!exitConn, exitConn,
       Search!exitUsage, exitUsage, Search!exitOK, exitOK, Search!exitPartial,
       exitPartial, Search!exitNotFound, exitNotFound, CommandExits
  <2>5. pc' \notin {"render", "done"} => stdout' = <<>>
    BY <1>1, <2>2 DEF GiveUpInv, Search!ClientStep, Search!Preflight, Search!SendLookup,
       Search!LookupAborted, Search!Send, Search!Aborts, Search!ReceiveError,
       Search!ReceivePage, Search!ReceiveOnly, Search!FilterHit, Search!FilterDone,
       Search!WriteRecord, Search!Finish, Search!UseWindow, Search!Ends
  <2>6. ~gaveUp'
    BY <1>1, <2>3 DEF GiveUpInv
  <2> QED  BY <2>1, <2>2, <2>3, <2>4, <2>5, <2>6 DEF GiveUpInv
<1> QED  BY <1>2, <1>3

\* The cluster and the disturbances preserve the invariant.
LEMMA GiveUpCluster ==
  ASSUME GiveUpInv, ClusterAnswers \/ Disturbed PROVE GiveUpInv'
<1>1. /\ Search!ServerStep \/ Search!Disturbance
      /\ UNCHANGED <<gaveUp, aborted>>
  BY DEF ClusterAnswers, Disturbed, goroutine
<1>2. CASE Search!WriteFails \/ Search!UnreadableAggregations
  <2>1. pc = "render" /\ pc' = "done" /\ exit' = exitUsage
    BY <1>2 DEF Search!WriteFails, Search!UnreadableAggregations, Search!Ends,
       Search!exitUsage, exitUsage
  <2> QED  BY <1>1, <2>1 DEF GiveUpInv, CommandExits
<1>3. CASE \/ Search!LookupFails
           \/ \E reporting \in Search!Reporting : Search!LookupAnswered(reporting)
  <2>1. pc = "lookupWait" /\ pc' = "send" /\ UNCHANGED <<stdout, exit>>
    BY <1>3 DEF Search!LookupFails, Search!LookupAnswered, Search!UseWindow
  <2> QED  BY <1>1, <2>1 DEF GiveUpInv
<1>4. CASE \/ \E unavailable \in Search!Unavailable : Search!SearchAnswered(unavailable)
           \/ Search!SearchFails \/ Search!IndexDoc \/ Search!DeleteDoc
           \/ Search!ChangeWindow \/ Search!Interrupt
  <2>1. UNCHANGED <<pc, stdout, exit>>
    BY <1>4 DEF Search!SearchAnswered, Search!SearchFails, Search!IndexDoc,
       Search!DeleteDoc, Search!ChangeWindow, Search!Interrupt, Search!client
  <2>2. ctxDone => ctxDone'
    BY <1>4 DEF Search!SearchAnswered, Search!SearchFails, Search!IndexDoc,
       Search!DeleteDoc, Search!ChangeWindow, Search!Interrupt
  <2> QED  BY <1>1, <2>1, <2>2 DEF GiveUpInv
<1> QED  BY <1>1, <1>2, <1>3, <1>4 DEF Search!ServerStep, Search!Disturbance

\* Every step preserves the invariant.
LEMMA GiveUpStep == GiveUpInv /\ [ProcessNext]_allVars => GiveUpInv'
<1> SUFFICES ASSUME GiveUpInv, [ProcessNext]_allVars PROVE GiveUpInv'
  OBVIOUS
<1>1. CASE SearchStep
  BY <1>1, GiveUpSearch
<1>2. CASE ClusterAnswers \/ Disturbed
  BY <1>2, GiveUpCluster
<1>3. CASE Execute
  BY <1>3 DEF Execute, ExecuteReturns, search, GiveUpInv
<1>4. CASE MainStep \/ HandlerStep \/ SignalStep
  <2>1. UNCHANGED <<pc, exit, stdout, aborted, gaveUp>> /\ (ctxDone => ctxDone')
    BY <1>4 DEF MainStep, HandlerStep, SignalStep, search, Notify, Stop, LoadSigNum,
       Exit, Handler, HandlerReceive, HandlerStore, HandlerReset, HandlerCancel, Signal
  <2> QED  BY <2>1 DEF GiveUpInv
<1>5. CASE UNCHANGED allVars
  BY <1>5 DEF allVars, search, goroutine, GiveUpInv
<1> QED  BY <1>1, <1>2, <1>3, <1>4, <1>5 DEF ProcessNext

\* The search tells a cancellation from its other failures, at any time.
THEOREM GiveUpCorrect == ProcessSpec => []GiveUpInv
<1>1. ProcessInit => GiveUpInv
  BY DEF ProcessInit, Init, Search!Init, GiveUpInv, Search!NoExit, NoExit
<1> QED  BY <1>1, GiveUpStep, PTL DEF ProcessSpec

\* However signals, answers and the lines of the output interleave, a search
\* that gives up because of a signal has printed nothing.
THEOREM GivesUpFirst == ProcessSpec => []GivesUpBeforePrinting
<1>1. GiveUpInv => GivesUpBeforePrinting
  BY DEF GiveUpInv, GivesUpBeforePrinting
<1> QED  BY <1>1, GiveUpCorrect, PTL

-----------------------------------------------------------------------------
(***************************************************************************)
(* The process implements Signals.                                         *)
(***************************************************************************)
\* Every step of the process is one of Signals or changes nothing it speaks of:
\* the search is a command that returns some code and reports a cancellation
\* only when its context is cancelled.
LEMMA SignalsStep == GiveUpInv /\ [ProcessNext]_allVars => [Next]_vars
<1> SUFFICES ASSUME GiveUpInv, [ProcessNext]_allVars PROVE [Next]_vars
  OBVIOUS
<1>1. CASE SearchStep
  <2>1. Search!ClientStep /\ UNCHANGED goroutine
    BY <1>1 DEF SearchStep
  <2>2. UNCHANGED ctxDone
    BY <2>1 DEF Search!ClientStep, Search!Preflight, Search!SendLookup,
       Search!LookupAborted, Search!Send, Search!Aborts, Search!ReceiveError,
       Search!ReceivePage, Search!ReceiveOnly, Search!FilterHit, Search!FilterDone,
       Search!WriteRecord, Search!Finish, Search!UseWindow
  <2> QED  BY <2>1, <2>2 DEF goroutine, vars
<1>2. CASE ClusterAnswers
  <2>1. Search!ServerStep /\ UNCHANGED goroutine
    BY <1>2 DEF ClusterAnswers
  <2>2. UNCHANGED ctxDone
    BY <2>1 DEF Search!ServerStep, Search!LookupAnswered, Search!SearchAnswered,
       Search!UseWindow
  <2> QED  BY <2>1, <2>2 DEF goroutine, vars
<1>3. CASE Execute
  <2>1. exit \in CommandExits /\ ExecuteReturns(exit, aborted)
    BY <1>3 DEF Execute, GiveUpInv
  <2>2. CASE aborted
    <3>1. ctxDone /\ exit = ClassifyESError("", "canceled")
      BY <2>2 DEF GiveUpInv, ClassifyESError
    <3>2. ExecuteReturns(ClassifyESError("", "canceled"), TRUE)
      BY <2>1, <2>2, <3>1 DEF ExecuteReturns
    <3> QED  BY <3>1, <3>2 DEF ExecuteGivesUp, Next, Main
  <2>3. CASE ~aborted
    <3>1. ExecuteReturns(exit, FALSE)
      BY <2>1, <2>3 DEF ExecuteReturns
    <3> QED  BY <2>1, <3>1 DEF ExecuteCompletes, Next, Main
  <2> QED  BY <2>2, <2>3
<1>4. CASE MainStep \/ HandlerStep \/ SignalStep
  BY <1>4 DEF MainStep, HandlerStep, SignalStep, Next, Main
<1>5. CASE Disturbed \/ UNCHANGED allVars
  BY <1>5 DEF Disturbed, allVars, goroutine, vars
<1> QED  BY <1>1, <1>2, <1>3, <1>4, <1>5 DEF ProcessNext

\* The process is a behaviour of Signals, with the search as its command.
THEOREM ProcessIsSignals == ProcessSpec => IsSignals
<1>1. ProcessInit => Init
  BY DEF ProcessInit
<1> QED  BY <1>1, SignalsStep, GiveUpCorrect, PTL DEF ProcessSpec, Spec, IsSignals

\* An interrupted search exits with 128 + the first signal, not with the 3 that
\* its cancelled request amounts to.
THEOREM ProcessInterruptedExit == ProcessSpec => []InterruptedExit
  BY ProcessIsSignals, InterruptedExitCorrect, PTL DEF IsSignals

\* The process exits with the code of the search or that of the first signal.
THEOREM ProcessOwnCode == ProcessSpec => []OwnCodeKept
  BY ProcessIsSignals, OwnCodeCorrect, PTL DEF IsSignals

\* The first SIGINT or SIGTERM during a search never kills the process.
THEOREM ProcessFirstSignal == ProcessSpec => FirstSignalIsGentle
  BY ProcessIsSignals, FirstSignalCorrect, PTL DEF IsSignals

-----------------------------------------------------------------------------
(***************************************************************************)
(* The process implements SearchRun.                                       *)
(***************************************************************************)
\* The handler cancels a context that is not cancelled yet, which is the one
\* thing outside the search that the search can see.
LEMMA SearchRunStep == HandlerInv /\ [ProcessNext]_allVars => [Search!Next]_(Search!vars)
<1> SUFFICES ASSUME HandlerInv, [ProcessNext]_allVars PROVE [Search!Next]_(Search!vars)
  OBVIOUS
<1>1. CASE SearchStep \/ ClusterAnswers \/ Disturbed
  BY <1>1 DEF SearchStep, ClusterAnswers, Disturbed, Search!Next
<1>2. ASSUME UNCHANGED search, UNCHANGED ctxDone
      PROVE  UNCHANGED Search!vars
  BY <1>2 DEF search, Search!vars, Search!client, Search!corpus
<1>3. CASE HandlerStep
  <2>1. CASE HandlerCancel
    <3>1. ~ctxDone /\ ctxDone' = TRUE
      BY <2>1 DEF HandlerCancel, HandlerInv
    <3>2. Search!Interrupt
      BY <1>3, <3>1, ProcessAssumption
         DEF HandlerStep, search, Search!Interrupt, Search!client, Search!corpus
    <3> QED  BY <3>2 DEF Search!Next, Search!Disturbance
  <2>2. CASE HandlerReceive \/ HandlerStore \/ HandlerReset
    <3>1. UNCHANGED search /\ UNCHANGED ctxDone
      BY <1>3, <2>2 DEF HandlerStep, HandlerReceive, HandlerStore, HandlerReset
    <3> QED  BY <1>2, <3>1
  <2> QED  BY <1>3, <2>1, <2>2 DEF HandlerStep, Handler
<1>4. CASE Execute \/ MainStep \/ SignalStep \/ UNCHANGED allVars
  <2>1. UNCHANGED search /\ UNCHANGED ctxDone
    BY <1>4 DEF Execute, ExecuteReturns, MainStep, Notify, Stop, LoadSigNum, Exit,
       SignalStep, Signal, allVars
  <2> QED  BY <1>2, <2>1
<1> QED  BY <1>1, <1>3, <1>4 DEF ProcessNext

\* So what is proved of SearchRun holds in the process.
LEMMA ProcessIsSearchRun == ProcessSpec => Search!Spec
<1>1. ProcessInit => Search!Init
  BY DEF ProcessInit
<1>2. ProcessSpec => []HandlerInv
  <2>1. SignalInv => HandlerInv
    BY DEF SignalInv
  <2> QED  BY <2>1, ProcessIsSignals, SignalCorrect, PTL DEF IsSignals
<1> QED  BY <1>1, <1>2, SearchRunStep, PTL DEF ProcessSpec, Search!Spec

-----------------------------------------------------------------------------
(***************************************************************************)
(* The status 0.                                                           *)
(***************************************************************************)
\* What main returns to the shell comes from the search.
LEMMA ResultStep == ResultInv /\ [ProcessNext]_allVars => ResultInv'
<1> SUFFICES ASSUME ResultInv, [ProcessNext]_allVars PROVE ResultInv'
  OBVIOUS
<1>1. CASE SearchStep \/ ClusterAnswers \/ Disturbed
  <2>1. mainPC = "exec" /\ Running /\ UNCHANGED <<mainPC, ended>>
    BY <1>1 DEF SearchStep, ClusterAnswers, Disturbed, InCommand, goroutine
  <2> QED  BY <2>1 DEF ResultInv
<1>2. CASE Execute
  BY <1>2 DEF Execute, ExecuteReturns, search, ResultInv
<1>3. CASE MainStep
  BY <1>3 DEF MainStep, Notify, Stop, LoadSigNum, Exit, search, ResultInv
<1>4. CASE HandlerStep
  BY <1>4 DEF HandlerStep, Handler, HandlerReceive, HandlerStore, HandlerReset,
     HandlerCancel, search, ResultInv
<1>5. CASE SignalStep
  BY <1>5 DEF SignalStep, Signal, search, ResultInv
<1>6. CASE UNCHANGED allVars
  BY <1>6 DEF allVars, goroutine, search, ResultInv
<1> QED  BY <1>1, <1>2, <1>3, <1>4, <1>5, <1>6 DEF ProcessNext

\* Nobody but the search decides what main gets from Execute.
THEOREM ResultCorrect == ProcessSpec => []ResultInv
<1>1. ProcessInit => ResultInv
  BY DEF ProcessInit, Init, ResultInv
<1> QED  BY <1>1, ResultStep, PTL DEF ProcessSpec

\* The theorems about the search, in the variables of the process.
Run == INSTANCE SearchContractProofs

\* The search of EsLog and that of the theorems are the same one.
LEMMA SameSearch ==
  /\ Search!Init <=> Run!Init
  /\ Search!Next <=> Run!Next
  /\ UNCHANGED Search!vars <=> UNCHANGED Run!vars
<1>1. Search!Init <=> Run!Init
  BY DEF Search!Init, Run!Init, Search!NoCursor, Run!NoCursor, Search!NoExit,
     Run!NoExit, Search!NoAnswer, Run!NoAnswer, Search!Refusal, Run!Refusal
<1>2. UNCHANGED Search!vars <=> UNCHANGED Run!vars
  BY DEF Search!vars, Run!vars, Search!client, Run!client, Search!corpus,
     Run!corpus
<1>3. /\ Search!Preflight <=> Run!Preflight
      /\ Search!SendLookup <=> Run!SendLookup
      /\ Search!Send <=> Run!Send
  BY DEF Search!Preflight, Run!Preflight, Search!SendLookup, Run!SendLookup,
     Search!Send, Run!Send, Search!MayStartRequest, Run!MayStartRequest,
     Search!NeedsWindow, Run!NeedsWindow, Search!Requested, Run!Requested,
     Search!Ends, Run!Ends, Search!exitUsage, Run!exitUsage,
     Search!NoAnswer, Run!NoAnswer, Search!Refusal, Run!Refusal,
     Search!corpus, Run!corpus
<1>4. /\ Search!Aborts <=> Run!Aborts
      /\ Search!ReceiveError <=> Run!ReceiveError
  BY DEF Search!Aborts, Run!Aborts, Search!ReceiveError, Run!ReceiveError,
     Search!Ends, Run!Ends, Search!ClassifyESError, Run!ClassifyESError,
     Search!exitConn, Run!exitConn, Search!exitNotFound, Run!exitNotFound,
     Search!ServerErrors, Run!ServerErrors, Search!corpus, Run!corpus
<1>5. /\ Search!ReceivePage <=> Run!ReceivePage
      /\ Search!ReceiveOnly <=> Run!ReceiveOnly
  BY DEF Search!ReceivePage, Run!ReceivePage, Search!ReceiveOnly,
     Run!ReceiveOnly, Search!FetchesAll, Run!FetchesAll,
     Search!KeepPartial, Run!KeepPartial, Search!Collect, Run!Collect,
     Search!NextCursor, Run!NextCursor, Search!SortKey, Run!SortKey,
     Search!IsLastPage, Run!IsLastPage, Search!corpus, Run!corpus
<1>6. /\ Search!FilterHit <=> Run!FilterHit
      /\ Search!FilterDone <=> Run!FilterDone
  BY DEF Search!FilterHit, Run!FilterHit, Search!FilterDone, Run!FilterDone,
     Search!Keeps, Run!Keeps, Search!corpus, Run!corpus
<1>7. /\ Search!WriteRecord <=> Run!WriteRecord
      /\ Search!Finish <=> Run!Finish
      /\ Search!WriteFails <=> Run!WriteFails
      /\ Search!UnreadableAggregations <=> Run!UnreadableAggregations
  BY DEF Search!WriteRecord, Run!WriteRecord, Search!Finish, Run!Finish,
     Search!WriteFails, Run!WriteFails, Search!UnreadableAggregations,
     Run!UnreadableAggregations, Search!Lines, Run!Lines, Search!Record,
     Run!Record, Search!NoTotal, Run!NoTotal, Search!IsAggregation,
     Run!IsAggregation, Search!Torn, Run!Torn, Search!Ends, Run!Ends,
     Search!FinishCode, Run!FinishCode, Search!exitOK, Run!exitOK,
     Search!exitUsage, Run!exitUsage, Search!exitPartial, Run!exitPartial,
     Search!corpus, Run!corpus
<1>8. /\ Search!LookupAborted <=> Run!LookupAborted
      /\ Search!LookupFails <=> Run!LookupFails
  BY DEF Search!LookupAborted, Run!LookupAborted, Search!LookupFails,
     Run!LookupFails, Search!UseWindow, Run!UseWindow, Search!CappedSize,
     Run!CappedSize, Search!WarnsOfCap, Run!WarnsOfCap,
     Search!FallbackWindow, Run!FallbackWindow, Search!FetchesAll,
     Run!FetchesAll, Search!corpus, Run!corpus
<1>9. /\ Search!SearchFails <=> Run!SearchFails
      /\ Search!IndexDoc <=> Run!IndexDoc
      /\ Search!DeleteDoc <=> Run!DeleteDoc
  BY DEF Search!SearchFails, Run!SearchFails, Search!IndexDoc, Run!IndexDoc,
     Search!DeleteDoc, Run!DeleteDoc, Search!Refusal, Run!Refusal,
     Search!NoAnswer, Run!NoAnswer, Search!ServerErrors, Run!ServerErrors,
     Search!Running, Run!Running, Search!NoExit, Run!NoExit, Search!client,
     Run!client, Search!corpus, Run!corpus
<1>10. /\ Search!ChangeWindow <=> Run!ChangeWindow
       /\ Search!Interrupt <=> Run!Interrupt
       /\ Search!Ended <=> Run!Ended
  BY DEF Search!ChangeWindow, Run!ChangeWindow, Search!Interrupt,
     Run!Interrupt, Search!Ended, Run!Ended, Search!Running, Run!Running,
     Search!NoExit, Run!NoExit, Search!vars, Run!vars, Search!client,
     Run!client, Search!corpus, Run!corpus
<1>11. \A reporting : Search!LookupAnswered(reporting) <=> Run!LookupAnswered(reporting)
  BY DEF Search!LookupAnswered, Run!LookupAnswered, Search!IsReportedWindow,
     Run!IsReportedWindow, Search!UseWindow, Run!UseWindow,
     Search!CappedSize, Run!CappedSize, Search!WarnsOfCap, Run!WarnsOfCap,
     Search!FallbackWindow, Run!FallbackWindow, Search!FetchesAll,
     Run!FetchesAll, Search!corpus, Run!corpus
<1>12. \A dir, S, n : Search!Pages(dir, S, n) = Run!Pages(dir, S, n)
  BY DEF Search!Pages, Run!Pages, Search!IsPage, Run!IsPage,
     Search!IsInjective, Run!IsInjective, Search!Range, Run!Range,
     Search!InSortOrder, Run!InSortOrder, Search!SortedBefore,
     Run!SortedBefore, Search!KeyBefore, Run!KeyBefore, Search!TimeBefore,
     Run!TimeBefore, Search!SortKey, Run!SortKey
<1>13. \A dir, S, c : Search!SearchAfter(dir, S, c) = Run!SearchAfter(dir, S, c)
  BY DEF Search!SearchAfter, Run!SearchAfter, Search!IsAfter, Run!IsAfter,
     Search!KeyBefore, Run!KeyBefore, Search!TimeBefore, Run!TimeBefore,
     Search!SortKey, Run!SortKey, Search!NoCursor, Run!NoCursor
<1>14. \A S : Search!Cardinality(S) = Run!Cardinality(S)
  BY DEF Search!Cardinality, Run!Cardinality
<1>15. \A unavailable : Search!SearchAnswered(unavailable) <=> Run!SearchAnswered(unavailable)
  BY <1>12, <1>13, <1>14 DEF Search!SearchAnswered, Run!SearchAnswered, Search!RejectedBy,
     Run!RejectedBy, Search!Live, Run!Live, Search!TracksTotal,
     Run!TracksTotal, Search!Answer, Run!Answer, Search!NoAnswer,
     Run!NoAnswer, Search!Refusal, Run!Refusal, Search!client, Run!client,
     Search!corpus, Run!corpus
<1>16. Search!Next <=> Run!Next
  BY <1>3, <1>4, <1>5, <1>6, <1>7, <1>8, <1>9, <1>10, <1>11, <1>15
     DEF Search!Next, Run!Next, Search!ClientStep, Run!ClientStep,
     Search!ServerStep, Run!ServerStep, Search!Disturbance,
     Run!Disturbance, Search!Reporting, Run!Reporting, Search!Unavailable,
     Run!Unavailable
<1> QED  BY <1>1, <1>2, <1>16

\* What is proved of every run of the search holds of the search in the process.
LEMMA SearchPromises ==
  ProcessSpec => [](/\ Run!PartialNeverSilent
                    /\ Run!OutputIsFilteredFetch
                    /\ Run!OnlyTiesMissing)
<1>1. Run!CorpusAssumption
  BY ProcessAssumption
     DEF Search!CorpusAssumption, Run!CorpusAssumption, Search!IsFiniteSet,
         Run!IsFiniteSet
<1>2. Run!RunAssumption
  BY ProcessAssumption
     DEF Search!RunAssumption, Run!RunAssumption, Search!Params, Run!Params,
         Search!Directions, Run!Directions, Search!EventNames, Run!EventNames,
         Search!ServerErrors, Run!ServerErrors
<1>3. Run!Spec => []Run!OutputIsFilteredFetch
  BY <1>1, <1>2, Run!OutputIsSelection
<1>4. Run!Spec => []Run!OnlyTiesMissing
  BY <1>1, <1>2, Run!FetchAllUpToTies
<1>5. Run!Spec => []Run!PartialNeverSilent
  BY <1>1, <1>2, Run!PartialIsTold
<1>6. Search!Init => Run!Init
  BY SameSearch
<1>7. [Search!Next]_(Search!vars) => [Run!Next]_(Run!vars)
  BY SameSearch
<1> QED  BY <1>3, <1>4, <1>5, <1>6, <1>7, ProcessIsSearchRun, PTL
         DEF Search!Spec, Run!Spec

\* Whatever signals arrive while the last lines are written: a process that
\* exits with the status 0 had every shard in every answer and has all of the
\* selection on stdout, and after --size 0 nothing is missing but what ties with a
\* document that is there.
THEOREM StatusZeroCorrect == ProcessSpec => []StatusZeroIsComplete
<1>1. ASSUME TypeOK, SignalInv, ResultInv, Run!PartialNeverSilent,
             Run!OutputIsFilteredFetch, Run!OnlyTiesMissing
      PROVE  StatusZeroIsComplete
  <2> SUFFICES ASSUME ended = "exited", code = 0
               PROVE  /\ \A i \in DOMAIN failures : failures[i] = {}
                      /\ stdout = Search!Lines(Search!Filtered(hits, Search!Wanted))
                      /\ Search!FetchesAll =>
                            \A d \in Search!Stable : Search!Represented(d)
    BY DEF StatusZeroIsComplete
  <2>1. code = ownCode
    <3>1. mainPC = "exit" /\ (code # ownCode =>
                                sent # <<>> /\ code = SignalExitCode(sent[1]))
      BY <1>1 DEF SignalInv, MainInv
    <3>2. sent # <<>> => sent[1] \in Nat
      <4>1. sent \in Seq(SignalNumbers) /\ SignalNumbers \subseteq Nat
        BY <1>1, SignalAssumption DEF TypeOK
      <4>2. sent # <<>> => sent[1] \in SignalNumbers
        BY <4>1
      <4> QED  BY <4>1, <4>2
    <3> QED  BY <3>1, <3>2 DEF SignalExitCode
  <2>2. exit = 0
    BY <1>1, <2>1 DEF ResultInv
  <2>3. stdout = Run!Lines(Run!Filtered(hits, Run!Wanted))
    BY <1>1, <2>2 DEF Run!OutputIsFilteredFetch, Run!exitOK
  <2>4. Run!FetchesAll => \A d \in Run!Stable : Run!Represented(d)
    BY <1>1, <2>2 DEF Run!OnlyTiesMissing, Run!exitOK
  <2>5. Search!Filtered(hits, Search!Wanted) = Run!Filtered(hits, Run!Wanted)
    BY DEF Search!Filtered, Run!Filtered, Search!FilteredPrefixes,
       Run!FilteredPrefixes, Search!Wanted, Run!Wanted, Search!IsAggregation,
       Run!IsAggregation
  <2>6. \A s : Search!Lines(s) = Run!Lines(s)
    BY DEF Search!Lines, Run!Lines, Search!Record, Run!Record, Search!NoTotal,
       Run!NoTotal, Search!IsAggregation, Run!IsAggregation
  <2>7. /\ Search!FetchesAll <=> Run!FetchesAll
        /\ Search!Stable = Run!Stable
        /\ \A d : Search!Represented(d) <=> Run!Represented(d)
    BY DEF Search!FetchesAll, Run!FetchesAll, Search!Stable, Run!Stable,
       Search!Represented, Run!Represented, Search!SortKey, Run!SortKey,
       Search!Range, Run!Range
  <2>8. \A i \in DOMAIN failures : failures[i] = {}
    BY <1>1, <2>2 DEF Run!PartialNeverSilent, Run!exitOK
  <2> QED  BY <2>3, <2>4, <2>5, <2>6, <2>7, <2>8
<1>2. ProcessSpec => [](TypeOK /\ SignalInv)
  BY ProcessIsSignals, TypeCorrect, SignalCorrect, PTL DEF IsSignals
<1> QED  BY <1>1, <1>2, ResultCorrect, SearchPromises, PTL
=============================================================================
