----------------------------- MODULE ExitCodes -----------------------------
(***************************************************************************)
(* The layered exit codes of internal/cmd/exit.go and the errors they are  *)
(* computed from.  An error of the Elasticsearch client is represented by  *)
(* its class: what errors.Is / errors.As finds in it.                      *)
(***************************************************************************)
EXTENDS Integers

exitOK       == 0
exitUsage    == 2
exitConn     == 3
exitNotFound == 4
exitPartial  == 5

\* exitOK .. exitPartial, and NoExit while the command still runs.
NoExit == -1
CommandExits == {exitOK, exitUsage, exitConn, exitNotFound, exitPartial}
HardFailures == {exitUsage, exitConn, exitNotFound}

\* canceled: the context ended; notfound: HTTP 404; auth: 401 or 403;
\* api: any other status >= 400; transport: no answer was read;
\* badbody: a 2xx answer that is not the JSON the client expects.
ServerErrors == {"notfound", "auth", "api", "transport", "badbody"}
ESErrors == ServerErrors \cup {"canceled"}

\* Every class but a 404 on a named target is a connection failure.
ClassifyESError(target, e) ==
    IF e = "notfound" /\ target # "" THEN exitNotFound ELSE exitConn

SignalExitCode(sig) == 128 + sig
=============================================================================
