------------------------------ MODULE Signals ------------------------------
(***************************************************************************)
(* cmd/es-log/main.go: the main goroutine runs the command and computes    *)
(* the exit code of the process; the handler goroutine turns the first     *)
(* SIGINT or SIGTERM into the cancellation of the command's context.       *)
(*                                                                         *)
(* The command (cmd.Execute) is abstract here: it may return any of its    *)
(* exit codes at any time, and it reports a cancellation only when its     *)
(* context is cancelled.  SearchRun is one such command.                   *)
(***************************************************************************)
EXTENDS ExitCodes, Sequences

CONSTANTS
    SignalNumbers,  \* the signals somebody sends to the process
    MaxSignals      \* how many of them: a bound for TLC

SIGINT  == 2
SIGTERM == 15

ASSUME SignalAssumption ==
    /\ SignalNumbers \subseteq Nat \ {0}
    /\ MaxSignals \in Nat

VARIABLES
    mainPC,     \* where the main goroutine is
    handlerPC,  \* where the handler goroutine is
    relayed,    \* the signals that go to sigCh instead of their default action
    sigCh,      \* the channel, of capacity 1
    received,   \* the handler's s: what it took from sigCh, 0 before
    sigNum,     \* the atomic the handler stores it in, 0 when unset
    ctxDone,    \* the context of the command is cancelled
    code,       \* main's code: what Execute returned, then the exit status
    ended,      \* running, exited (os.Exit) or killed (default action)
    \* history
    sent,       \* the signals sent to the process, in order
    ownCode,    \* what Execute returned
    gaveUp      \* Execute returned because its context was cancelled

vars == <<mainPC, handlerPC, relayed, sigCh, received, sigNum, ctxDone, code,
          ended, sent, ownCode, gaveUp>>

Running == ended = "running"

\* Mutant: SIGTERM is left out.
NotifiedOnlyInterrupt == {SIGINT}

\* The arguments of signal.Notify and signal.Reset.
Notified == {SIGINT, SIGTERM}

\* Mutant: the context is cancelled before the signal is stored.
HandlerAfterCancelFirst ==
    [recv |-> "cancel", cancel |-> "store", store |-> "reset", reset |-> "end"]

\* The order of the handler's statements.
HandlerAfter ==
    [recv |-> "store", store |-> "reset", reset |-> "cancel", cancel |-> "end"]

Init ==
    /\ mainPC = "start"
    /\ handlerPC = "recv"
    /\ relayed = {}
    /\ sigCh = <<>>
    /\ received = 0
    /\ sigNum = 0
    /\ ctxDone = FALSE
    /\ code = NoExit
    /\ ended = "running"
    /\ sent = <<>>
    /\ ownCode = NoExit
    /\ gaveUp = FALSE

-----------------------------------------------------------------------------
(***************************************************************************)
(* The main goroutine.                                                     *)
(***************************************************************************)
\* signal.Notify, and from there on to the command with the handler started.
Notify ==
    /\ Running /\ mainPC = "start"
    /\ relayed' = Notified
    /\ mainPC' = "exec"
    /\ UNCHANGED <<handlerPC, sigCh, received, sigNum, ctxDone, code, ended,
                   sent, ownCode, gaveUp>>

ExecuteReturns(c, canceled) ==
    /\ Running /\ mainPC = "exec"
    /\ code' = c
    /\ ownCode' = c
    /\ gaveUp' = canceled
    /\ mainPC' = "stop"
    /\ UNCHANGED <<handlerPC, relayed, sigCh, received, sigNum, ctxDone, ended,
                   sent>>

\* The command comes to an end, whether or not it was asked to.
ExecuteCompletes == \E c \in CommandExits : ExecuteReturns(c, FALSE)

\* The command notices the cancellation: classifyESError's "canceled".
ExecuteGivesUp == ctxDone /\ ExecuteReturns(ClassifyESError("", "canceled"), TRUE)

\* signal.Stop: the channel was the only receiver, so both signals have their
\* default action again.
Stop ==
    /\ Running /\ mainPC = "stop"
    /\ relayed' = {}
    /\ mainPC' = "load"
    /\ UNCHANGED <<handlerPC, sigCh, received, sigNum, ctxDone, code, ended,
                   sent, ownCode, gaveUp>>

\* Mutant: the signal number is used unset as well.
LoadSigNumAlways ==
    /\ Running /\ mainPC = "load"
    /\ code' = SignalExitCode(sigNum)
    /\ mainPC' = "exit"
    /\ UNCHANGED <<handlerPC, relayed, sigCh, received, sigNum, ctxDone, ended,
                   sent, ownCode, gaveUp>>

LoadSigNum ==
    /\ Running /\ mainPC = "load"
    /\ code' = IF sigNum # 0 THEN SignalExitCode(sigNum) ELSE code
    /\ mainPC' = "exit"
    /\ UNCHANGED <<handlerPC, relayed, sigCh, received, sigNum, ctxDone, ended,
                   sent, ownCode, gaveUp>>

Exit ==
    /\ Running /\ mainPC = "exit"
    /\ ended' = "exited"
    /\ UNCHANGED <<mainPC, handlerPC, relayed, sigCh, received, sigNum, ctxDone,
                   code, sent, ownCode, gaveUp>>

-----------------------------------------------------------------------------
(***************************************************************************)
(* The handler goroutine.                                                  *)
(***************************************************************************)
HandlerReceive ==
    /\ Running /\ handlerPC = "recv" /\ mainPC # "start"
    /\ sigCh # <<>>
    /\ received' = Head(sigCh)
    /\ sigCh' = Tail(sigCh)
    /\ handlerPC' = HandlerAfter["recv"]
    /\ UNCHANGED <<mainPC, relayed, sigNum, ctxDone, code, ended, sent, ownCode,
                   gaveUp>>

HandlerStore ==
    /\ Running /\ handlerPC = "store"
    /\ sigNum' = received
    /\ handlerPC' = HandlerAfter["store"]
    /\ UNCHANGED <<mainPC, relayed, sigCh, received, ctxDone, code, ended, sent,
                   ownCode, gaveUp>>

HandlerReset ==
    /\ Running /\ handlerPC = "reset"
    /\ relayed' = {}
    /\ handlerPC' = HandlerAfter["reset"]
    /\ UNCHANGED <<mainPC, sigCh, received, sigNum, ctxDone, code, ended, sent,
                   ownCode, gaveUp>>

HandlerCancel ==
    /\ Running /\ handlerPC = "cancel"
    /\ ctxDone' = TRUE
    /\ handlerPC' = HandlerAfter["cancel"]
    /\ UNCHANGED <<mainPC, relayed, sigCh, received, sigNum, code, ended, sent,
                   ownCode, gaveUp>>

-----------------------------------------------------------------------------
(***************************************************************************)
(* Signals from outside.                                                   *)
(***************************************************************************)
\* The runtime relays a signal without waiting: one that finds the channel full
\* is dropped.
Deliver(ch, sig) == IF ch = <<>> THEN <<sig>> ELSE ch

Signal(sig) ==
    /\ Running
    /\ Len(sent) < MaxSignals
    /\ sent' = Append(sent, sig)
    /\ IF sig \in relayed
       THEN /\ sigCh' = Deliver(sigCh, sig)
            /\ UNCHANGED <<code, ended>>
       ELSE /\ ended' = "killed"
            /\ code' = SignalExitCode(sig)
            /\ UNCHANGED sigCh
    /\ UNCHANGED <<mainPC, handlerPC, relayed, received, sigNum, ctxDone,
                   ownCode, gaveUp>>

Main == Notify \/ ExecuteCompletes \/ ExecuteGivesUp \/ Stop \/ LoadSigNum \/ Exit

Handler == HandlerReceive \/ HandlerStore \/ HandlerReset \/ HandlerCancel

Dead == ~Running /\ UNCHANGED vars

Next ==
    \/ Main
    \/ Handler
    \/ \E sig \in SignalNumbers : Signal(sig)
    \/ Dead

Spec == Init /\ [][Next]_vars

\* Both goroutines are scheduled; the command need not return.
HungFairSpec ==
    Spec /\ WF_vars(Handler) /\ WF_vars(Notify \/ Stop \/ LoadSigNum \/ Exit)

-----------------------------------------------------------------------------
\* The type invariant.
TypeOK ==
    /\ mainPC \in {"start", "exec", "stop", "load", "exit"}
    /\ handlerPC \in {"recv", "store", "reset", "cancel", "end"}
    /\ relayed \in SUBSET Notified
    /\ sigCh \in Seq(Notified) /\ Len(sigCh) <= 1
    /\ received \in Notified \cup {0}
    /\ sigNum \in Notified \cup {0}
    /\ ctxDone \in BOOLEAN
    /\ code \in CommandExits \cup {NoExit}
                 \cup {SignalExitCode(sig) : sig \in SignalNumbers \cup Notified}
    /\ ended \in {"running", "exited", "killed"}
    /\ sent \in Seq(SignalNumbers)
    /\ ownCode \in CommandExits \cup {NoExit}
    /\ gaveUp \in BOOLEAN

\* A process whose command gave up because of the cancellation exits with
\* 128 + the first signal sent to it, never with the command's own code 3.
InterruptedExit ==
    ended = "exited" /\ gaveUp => code = SignalExitCode(sent[1])

\* A process that exits with another code than its command's was sent a signal
\* and reports the first one; a later signal never replaces it.
OwnCodeKept ==
    ended = "exited" /\ code # ownCode =>
        sent # <<>> /\ code = SignalExitCode(sent[1])

\* The first SIGINT or SIGTERM that finds the command running does not kill the
\* process: the command gets the chance to wind down.
FirstSignalIsGentle ==
    [][mainPC = "exec" /\ sent = <<>> /\ sent' # <<>>
       /\ sent'[1] \in {SIGINT, SIGTERM} => ended' = "running"]_vars

\* Once the command has been interrupted, the process ends.
InterruptEnds == sigCh # <<>> ~> ~Running

\* main.go:33-34: "Restore default handling so a second Ctrl+C force-terminates
\* a run that is not responding to context cancellation."
SecondSignalTerminates == Len(sent) >= 2 ~> ~Running
-----------------------------------------------------------------------------
(***************************************************************************)
(* The inductive strengthenings of InterruptedExit and OwnCodeKept, and of *)
(* FirstSignalIsGentle.                                                    *)
(***************************************************************************)
\* What the handler holds is the first signal sent, and it is stored before the
\* context is cancelled.
HandlerInv ==
    /\ Running /\ handlerPC = "recv" =>
          sigCh = IF sent = <<>> THEN <<>> ELSE <<sent[1]>>
    /\ handlerPC # "recv" => sent # <<>> /\ received = sent[1]
    /\ handlerPC \in {"recv", "store"} => sigNum = 0
    /\ handlerPC \in {"reset", "cancel", "end"} => sigNum = received /\ sigNum # 0
    /\ ctxDone => handlerPC = "end"

\* What main has computed so far; a killed process reports the signal instead.
MainInv ==
    /\ gaveUp => ctxDone
    /\ ended = "exited" => mainPC = "exit"
    /\ ended # "killed" =>
          /\ mainPC # "exit" => code = ownCode
          /\ mainPC = "exit" /\ gaveUp =>
                sent # <<>> /\ code = SignalExitCode(sent[1])
          /\ mainPC = "exit" /\ code # ownCode =>
                sent # <<>> /\ code = SignalExitCode(sent[1])

SignalInv == HandlerInv /\ MainInv

\* While the command runs, the signals are relayed until the handler, which holds
\* one by then, resets them.
RelayInv ==
    mainPC = "exec" /\ handlerPC \in {"recv", "store", "reset"} => relayed = Notified
=============================================================================
