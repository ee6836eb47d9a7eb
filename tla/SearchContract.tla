--------------------------- MODULE SearchContract ---------------------------
(***************************************************************************)
(* What the caller of one `es-log search' may rely on, whatever requests   *)
(* it takes: documents are gathered in order and never twice, what is      *)
(* printed is the selection of what was gathered, and the exit code says   *)
(* how much that is worth (CONTEXT.md "Hard failure", "Partial shard       *)
(* failure"; skill/SKILL.md "Exit codes").  stdout is taken to accept what *)
(* is written to it.                                                       *)
(***************************************************************************)
EXTENDS Elasticsearch, ExitCodes, Filtering, SequencesExt

VARIABLES
    asked,     \* the direction, whether all was asked for, and the selection
    present,   \* the matching documents that have been there all along
    gathered,  \* the documents fetched
    degraded,  \* an answer came without some of its shards
    output,    \* the documents on stdout
    outcome    \* the exit code, NoExit before

vars == <<asked, present, gathered, degraded, output, outcome>>

Requests == [dir : Directions, all : BOOLEAN, selected : SUBSET Docs]

Selection == Filtered(gathered, asked.selected)

\* Every document that has been there all along was gathered, or one that no
\* sort can tell from it.
NothingMissing ==
    \A d \in present : \E e \in Range(gathered) : SortKey(e) = SortKey(d)

Init ==
    /\ asked \in Requests
    /\ present \subseteq Docs
    /\ gathered = <<>>
    /\ degraded = FALSE
    /\ output = <<>>
    /\ outcome = NoExit

\* Documents disappear while the command runs.
Vanish ==
    /\ outcome = NoExit
    /\ present' \subseteq present
    /\ UNCHANGED <<asked, gathered, degraded, output, outcome>>

\* Nothing is printed before everything has been gathered.
Gather ==
    /\ outcome = NoExit /\ output = <<>>
    /\ IsPrefix(gathered, gathered')
    /\ IsInjective(gathered') /\ InSortOrder(asked.dir, gathered')
    /\ degraded => degraded'
    /\ UNCHANGED <<asked, present, output, outcome>>

Write ==
    /\ outcome = NoExit
    /\ IsPrefix(output, output') /\ IsPrefix(output', Selection)
    /\ UNCHANGED <<asked, present, gathered, degraded, outcome>>

\* Exit 0 is a promise about the output, exit 5 its withdrawal.
Deliver ==
    /\ outcome = NoExit
    /\ output = Selection
    /\ asked.all /\ ~degraded => NothingMissing
    /\ outcome' = IF degraded THEN exitPartial ELSE exitOK
    /\ UNCHANGED <<asked, present, gathered, degraded, output>>

\* A hard failure: whatever was gathered, stdout stays empty.
Fail ==
    /\ outcome = NoExit /\ output = <<>>
    /\ outcome' \in HardFailures
    /\ UNCHANGED <<asked, present, gathered, degraded, output>>

Next == Vanish \/ Gather \/ Write \/ Deliver \/ Fail

Spec == Init /\ [][Next]_vars
=============================================================================
