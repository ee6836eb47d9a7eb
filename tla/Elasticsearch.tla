--------------------------- MODULE Elasticsearch ---------------------------
(***************************************************************************)
(* What es-log relies on of the cluster it queries.  Elasticsearch is not  *)
(* part of the repository: these operators are the contract that           *)
(* internal/cmd/search.go and internal/esclient/client.go assume when they *)
(* build a _search body and interpret its answer.                          *)
(*                                                                         *)
(* A document stands for one that the run's query matches.  Every shard is *)
(* an index of its own behind the target (an alias or data stream), so it  *)
(* has its own index.max_result_window.  es-log always sorts on            *)
(* [<field>:<dir>, _doc:asc]; `_doc' is the number of the document in its  *)
(* shard, so it separates two documents of one shard but not two documents *)
(* of different shards.                                                    *)
(*                                                                         *)
(* Abstraction: a document keeps its `_doc' number for the whole run       *)
(* (module Renumbering does without that) and every document has a sort    *)
(* value.                                                                  *)
(***************************************************************************)
EXTENDS Integers, Sequences, FiniteSets, Functions

CONSTANTS
    Docs,      \* the documents that match the query, now or later
    Shards,    \* the shards behind the target, one per index
    Home,      \* Home[d]: the shard of document d
    TimeOf,    \* TimeOf[d]: its value of the sort field
    DocNo      \* DocNo[d]: its `_doc' number, unique within a shard

ASSUME CorpusAssumption ==
    /\ IsFiniteSet(Docs)
    /\ IsFiniteSet(Shards)
    /\ Home \in [Docs -> Shards]
    /\ TimeOf \in [Docs -> Int]
    /\ DocNo \in [Docs -> Nat]
    /\ \A d, e \in Docs : Home[d] = Home[e] /\ DocNo[d] = DocNo[e] => d = e

-----------------------------------------------------------------------------
Directions == {"asc", "desc"}

SortKey(d) == <<TimeOf[d], DocNo[d]>>

SortKeys == Int \X Nat

\* The `sort' array of a search_after request; NoCursor is its absence.
NoCursor == <<>>

TimeBefore(dir, s, t) == IF dir = "asc" THEN s < t ELSE s > t

KeyBefore(dir, k, l) ==
    \/ TimeBefore(dir, k[1], l[1])
    \/ k[1] = l[1] /\ k[2] < l[2]

\* d is sorted strictly before e: two documents may be unordered (a tie).
SortedBefore(dir, d, e) == KeyBefore(dir, SortKey(d), SortKey(e))

IsAfter(dir, cursor, d) ==
    cursor # NoCursor => KeyBefore(dir, cursor, SortKey(d))

\* The documents of S that a request with this search_after may return.
SearchAfter(dir, S, cursor) == {d \in S : IsAfter(dir, cursor, d)}

InSortOrder(dir, s) ==
    \A i, j \in DOMAIN s : i < j => ~SortedBefore(dir, s[j], s[i])

(***************************************************************************)
(* The answers to a request of n hits over the candidates S: the first n   *)
(* of them in sort order, or all when there are fewer.  Ties come in any   *)
(* order, and at the edge of the page either of two tied documents may be  *)
(* the one that is left out.                                               *)
(***************************************************************************)
IsPage(dir, S, n, pg) ==
    /\ Len(pg) <= n
    /\ IsInjective(pg)
    /\ InSortOrder(dir, pg)
    /\ Len(pg) < n => Range(pg) = S
    /\ \A d \in S \ Range(pg) : \A i \in DOMAIN pg : ~SortedBefore(dir, d, pg[i])

Pages(dir, S, n) ==
    {pg \in UNION {[1..k -> S] : k \in 0..n} : IsPage(dir, S, n, pg)}

\* No two documents share a sort key, not even across shards.
SortKeysUnique ==
    \A d, e \in Docs : SortKey(d) = SortKey(e) => d = e
=============================================================================
