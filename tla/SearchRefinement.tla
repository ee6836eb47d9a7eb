-------------------------- MODULE SearchRefinement --------------------------
(***************************************************************************)
(* SearchRun implements SearchContract.  The requests, the cursor, the     *)
(* window and the loop over the hits are hidden; a page is one step of     *)
(* Gather, a record one of Write.                                          *)
(***************************************************************************)
EXTENDS SearchRun

\* The documents in what has been written: one to a line of jsonl, else all of
\* them in the one record.
Printed ==
    CASE params.mode = "hits" /\ params.format = "jsonl" ->
            [i \in DOMAIN stdout |-> stdout[i].hits[1]]
      [] stdout = <<>> -> <<>>
      [] OTHER -> stdout[1].hits

\* Aggregations printed as a table or as lines come without their hits.
Selected == IF IsAggregation /\ params.format # "json" THEN {} ELSE Wanted

Contract == INSTANCE SearchContract WITH
    asked    <- [dir |-> params.dir, all |-> FetchesAll, selected |-> Selected],
    present  <- Stable,
    gathered <- hits,
    degraded <- \E i \in DOMAIN failures : failures[i] # {},
    output   <- Printed,
    outcome  <- exit

\* The run keeps the contract: it never gathers out of order or twice, and it
\* exits 0 only with a complete selection on stdout, 5 only when shards were
\* missing, and any other code only with nothing on stdout.
ImplementsContract == Contract!Spec

\* The contract's assumption: no write to stdout fails.
StdoutAccepts == "stdout" \notin Events
=============================================================================
