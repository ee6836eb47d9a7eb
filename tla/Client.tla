------------------------------- MODULE Client -------------------------------
(***************************************************************************)
(* internal/esclient/client.go: the state that the calls of one Client     *)
(* share under its mutex -- the warnings already reported and the cached   *)
(* version -- with several goroutines calling it.  es-log's commands make  *)
(* their calls one after the other, which is the instance with one caller; *)
(* the mutex is there for more.                                            *)
(*                                                                         *)
(* Every whitelisted method is `do' followed by the parsing of its answer; *)
(* Info adds the cache.  "other" stands for all but Info.                  *)
(***************************************************************************)
EXTENDS Naturals, Sequences, Functions

CONSTANTS
    Callers,       \* goroutines that share the client
    Texts,         \* the warn-texts the cluster uses
    Stamps,        \* what else a Warning value carries: agent, node, date
    Numbers,       \* the versions the nodes of the cluster report
    Emitted,       \* the Warning values the cluster may send
    Nil,           \* no version cached
    NoText,        \* a Warning value with no quoted string
    Zero,          \* the zero Version
    MaxWarnings,   \* bound: Warning values of one answer
    MaxCalls       \* bound: calls of one caller

\* A Warning header value, its warn-text apart from the rest.
WarningValues == [stamp : Stamps, text : Texts \cup {NoText}]

ASSUME ClientAssumption ==
    /\ Emitted \subseteq WarningValues
    /\ NoText \notin Texts
    /\ Nil \notin Numbers \cup {Zero}
    /\ MaxWarnings \in Nat /\ MaxCalls \in Nat

\* What onWarning is given: a warn-text, or the raw value.
Reports == Texts \cup WarningValues

VARIABLES
    pc,         \* pc[c]: where caller c is
    method,     \* method[c]: the call it makes, info or other
    values,     \* values[c]: the Warning values of its answer still to do
    outcome,    \* outcome[c]: what becomes of its answer: ok, or failed for
                \* an error status or a body that cannot be read or parsed
    read,       \* read[c]: the version in the body of its answer
    pending,    \* pending[c]: the message it is about to pass to onWarning
    warnings,   \* the client's set of messages
    version,    \* the client's cached version
    reported,   \* the calls of onWarning, in order
    \* history
    calls,      \* calls[c]: how many calls it has begun
    received,   \* the Warning values of all answers
    served,     \* the versions in the 2xx answers to Info
    informed    \* informed[c]: a call of Info by c has succeeded

vars == <<pc, method, values, outcome, read, pending, warnings, version,
          reported, calls, received, served, informed>>

Methods  == {"info", "other"}
Outcomes == {"ok", "failed"}
Versions == Numbers \cup {Zero}

\* Mutant: a value without a quoted string is reported as nothing.
warningMessageEmpty(raw) == raw.text

\* The first quoted string, else the raw value.
warningMessage(raw) == IF raw.text # NoText THEN raw.text ELSE raw

\* Mutant: the error status is looked at before the warnings.
ReportedValuesOfSuccess(out, vs) == IF out = "ok" THEN vs ELSE <<>>

\* do: warnings are reported whatever the status, and before the body is read.
ReportedValues(out, vs) == vs

\* Mutant: a failed call of Info caches the zero Version.
CachesAlways(m, out) == m = "info"

\* Info returns do's error before it parses or caches.
Caches(m, out) == m = "info" /\ out = "ok"

BoundedSeqs(S, n) == UNION {[1..k -> S] : k \in 0..n}

Init ==
    /\ pc = [c \in Callers |-> "idle"]
    /\ method = [c \in Callers |-> "other"]
    /\ values = [c \in Callers |-> <<>>]
    /\ outcome = [c \in Callers |-> "ok"]
    /\ read = [c \in Callers |-> Zero]
    /\ pending = [c \in Callers |-> NoText]
    /\ warnings = {}
    /\ version = Nil
    /\ reported = <<>>
    /\ calls = [c \in Callers |-> 0]
    /\ received = {}
    /\ served = {}
    /\ informed = [c \in Callers |-> FALSE]

-----------------------------------------------------------------------------
\* A method begins; Info looks at the cache under the mutex, and with a version
\* there it is done.
Call(c, m) ==
    /\ pc[c] = "idle"
    /\ calls[c] < MaxCalls
    /\ calls' = [calls EXCEPT ![c] = @ + 1]
    /\ method' = [method EXCEPT ![c] = m]
    /\ IF m = "info" /\ version # Nil
       THEN informed' = [informed EXCEPT ![c] = TRUE] /\ UNCHANGED pc
       ELSE pc' = [pc EXCEPT ![c] = "request"] /\ UNCHANGED informed
    /\ UNCHANGED <<values, outcome, read, pending, warnings, version, reported,
                   received, served>>

\* do ends without an answer: no header to look at.
RequestFails(c) ==
    /\ pc[c] = "request"
    /\ pc' = [pc EXCEPT ![c] = "idle"]
    /\ UNCHANGED <<method, values, outcome, read, pending, warnings, version,
                   reported, calls, received, served, informed>>

\* The headers of an answer are there.
Respond(c) ==
    /\ pc[c] = "request"
    /\ \E vs \in BoundedSeqs(Emitted, MaxWarnings), out \in Outcomes,
          v \in Versions :
          /\ values' = [values EXCEPT ![c] = ReportedValues(out, vs)]
          /\ outcome' = [outcome EXCEPT ![c] = out]
          /\ read' = [read EXCEPT ![c] = v]
          /\ received' = received \cup Range(vs)
          /\ served' = IF method[c] = "info" /\ out = "ok"
                       THEN served \cup {v} ELSE served
    /\ pc' = [pc EXCEPT ![c] = "report"]
    /\ UNCHANGED <<method, pending, warnings, version, reported, calls, informed>>

\* Mutant: the lookup and the insertion are two critical sections.
MarkSeenLate(c) ==
    /\ pc[c] = "report"
    /\ values[c] # <<>>
    /\ LET msg == warningMessage(Head(values[c]))
       IN IF msg \in warnings
          THEN UNCHANGED <<pc, pending>>
          ELSE /\ pending' = [pending EXCEPT ![c] = msg]
               /\ pc' = [pc EXCEPT ![c] = "callback"]
    /\ values' = [values EXCEPT ![c] = Tail(@)]
    /\ warnings' = warnings \cup Range(reported)
    /\ UNCHANGED <<method, outcome, read, version, reported, calls, received,
                   served, informed>>

\* The critical section of reportWarnings, for the next value.
MarkSeen(c) ==
    /\ pc[c] = "report"
    /\ values[c] # <<>>
    /\ LET msg == warningMessage(Head(values[c]))
       IN /\ warnings' = warnings \cup {msg}
          /\ IF msg \in warnings
             THEN UNCHANGED <<pc, pending>>
             ELSE /\ pending' = [pending EXCEPT ![c] = msg]
                  /\ pc' = [pc EXCEPT ![c] = "callback"]
    /\ values' = [values EXCEPT ![c] = Tail(@)]
    /\ UNCHANGED <<method, outcome, read, version, reported, calls, received,
                   served, informed>>

\* c.onWarning(msg), outside the mutex.
OnWarning(c) ==
    /\ pc[c] = "callback"
    /\ reported' = Append(reported, pending[c])
    /\ pending' = [pending EXCEPT ![c] = NoText]
    /\ pc' = [pc EXCEPT ![c] = "report"]
    /\ UNCHANGED <<method, values, outcome, read, warnings, version, calls,
                   received, served, informed>>

\* The body is read, the status looked at, the answer parsed; a call that
\* returns forgets its answer.
Finish(c) ==
    /\ pc[c] = "report"
    /\ values[c] = <<>>
    /\ IF Caches(method[c], outcome[c])
       THEN pc' = [pc EXCEPT ![c] = "store"] /\ UNCHANGED read
       ELSE pc' = [pc EXCEPT ![c] = "idle"] /\ read' = [read EXCEPT ![c] = Zero]
    /\ outcome' = [outcome EXCEPT ![c] = "ok"]
    /\ UNCHANGED <<method, values, pending, warnings, version, reported, calls,
                   received, served, informed>>

\* The second critical section of Info.
Store(c) ==
    /\ pc[c] = "store"
    /\ version' = read[c]
    /\ read' = [read EXCEPT ![c] = Zero]
    /\ informed' = [informed EXCEPT ![c] = TRUE]
    /\ pc' = [pc EXCEPT ![c] = "idle"]
    /\ UNCHANGED <<method, values, outcome, pending, warnings, reported, calls,
                   received, served>>

Done == \A c \in Callers : pc[c] = "idle" /\ calls[c] = MaxCalls

Step(c) ==
    \/ \E m \in Methods : Call(c, m)
    \/ RequestFails(c)
    \/ Respond(c)
    \/ MarkSeen(c)
    \/ OnWarning(c)
    \/ Finish(c)
    \/ Store(c)

Next == (\E c \in Callers : Step(c)) \/ (Done /\ UNCHANGED vars)

Spec == Init /\ [][Next]_vars

-----------------------------------------------------------------------------
\* The type invariant.
TypeOK ==
    /\ pc \in [Callers -> {"idle", "request", "report", "callback", "store"}]
    /\ method \in [Callers -> Methods]
    /\ values \in [Callers -> Seq(WarningValues)]
    /\ outcome \in [Callers -> Outcomes]
    /\ read \in [Callers -> Versions]
    /\ pending \in [Callers -> Reports \cup {NoText}]
    /\ \A c \in Callers : pc[c] = "callback" => pending[c] \in Reports
    /\ warnings \in SUBSET Reports
    /\ version \in Versions \cup {Nil}
    /\ reported \in Seq(Reports)
    /\ calls \in [Callers -> Nat]
    /\ received \in SUBSET WarningValues
    /\ served \in SUBSET Versions
    /\ informed \in [Callers -> BOOLEAN]

\* "each distinct deprecation message ..., once per client" (Config.OnWarning),
\* however the calls that meet it overlap.
WarnedOnce == IsInjective(reported)

\* What a reader of stderr is to be told of a Warning value.
Tells(raw, msg) == IF raw.text \in Texts THEN msg = raw.text ELSE msg = raw

\* With no call under way, the messages reported are those of all the answers
\* there were, error answers and unreadable ones included.
NoWarningLost ==
    (\A c \in Callers : pc[c] = "idle") =>
        /\ \A raw \in received : \E msg \in Range(reported) : Tells(raw, msg)
        /\ \A msg \in Range(reported) : \E raw \in received : Tells(raw, msg)

\* What Info caches is what a 2xx answer to GET / said.
CacheFromSuccess == version # Nil => version \in served

\* A caller whose Info has succeeded, whatever version it learned, never sends
\* GET / again: "cached on the client after the first successful call".
InformedNeverAsks ==
    [][\A c \in Callers :
           informed[c] /\ pc[c] = "idle" /\ pc'[c] = "request"
               => method'[c] # "info"]_vars

-----------------------------------------------------------------------------
(***************************************************************************)
(* The inductive strengthening.                                            *)
(***************************************************************************)
Pending(c) == IF pc[c] = "callback" THEN {pending[c]} ELSE {}

\* A message in the set is reported or about to be, by one caller alone.
WarningsInv ==
    /\ IsInjective(reported)
    /\ \A c \in Callers : Pending(c) \cap Range(reported) = {}
    /\ \A c, d \in Callers : c # d => Pending(c) \cap Pending(d) = {}
    /\ warnings = Range(reported) \cup UNION {Pending(c) : c \in Callers}

\* Each Warning value received is in the set or still to be looked at.
NothingForgotten ==
    /\ \A c \in Callers : pc[c] \notin {"report", "callback"} => values[c] = <<>>
    /\ \A c \in Callers : Range(values[c]) \subseteq received
    /\ \A raw \in received :
           \/ warningMessage(raw) \in warnings
           \/ \E c \in Callers : raw \in Range(values[c])
    /\ \A msg \in warnings : \E raw \in received : msg = warningMessage(raw)

\* What is read on the way to the cache was served, and a caller that is
\* informed has seen the cache filled.
CacheInv ==
    /\ CacheFromSuccess
    /\ \A c \in Callers :
          /\ pc[c] = "store" => read[c] \in served
          /\ pc[c] \in {"report", "callback"} /\ Caches(method[c], outcome[c])
                => read[c] \in served
          /\ informed[c] => version # Nil

ClientInv == WarningsInv /\ NothingForgotten /\ CacheInv
=============================================================================
