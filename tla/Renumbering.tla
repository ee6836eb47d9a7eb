---------------------------- MODULE Renumbering ----------------------------
(***************************************************************************)
(* SearchRun on a cluster whose `_doc' numbers do not last.  The number is *)
(* the position of a document in one copy of its shard: a merge of         *)
(* segments renumbers a copy, and another copy, which may answer the next  *)
(* page because the requests of internal/cmd/search.go ask for no          *)
(* preference, has numbers of its own.  The cursor of paginateAll was made *)
(* from the old numbering and is compared with the new one.                *)
(*                                                                         *)
(* A member of Docs is a document under one of two numberings of its       *)
(* shard; d and Twin[d] are the same document.                             *)
(***************************************************************************)
EXTENDS SearchRun

CONSTANT Twin      \* Twin[d]: the document d under the other numbering

ASSUME TwinAssumption ==
    /\ Twin \in [Docs -> Docs]
    /\ \A d \in Docs :
          /\ Twin[d] # d /\ Twin[Twin[d]] = d
          /\ Home[Twin[d]] = Home[d] /\ TimeOf[Twin[d]] = TimeOf[d]
          /\ d \in InitialDocs => Twin[d] \notin InitialDocs
    \* Documents under the unused numbering must not be indexed one by one.
    /\ "index" \notin Events

\* A merge, or the other copy of the shard takes over.
Renumber(s) ==
    /\ Running
    /\ status' = [d \in Docs |-> status[IF Home[d] = s THEN Twin[d] ELSE d]]
    /\ UNCHANGED <<params, client, ctxDone, limit, answer, failures>>

RenumberedNext == Next \/ \E s \in Shards : Renumber(s)

RenumberedSpec == Init /\ [][RenumberedNext]_vars

-----------------------------------------------------------------------------
SameDocument(d, e) == e \in {d, Twin[d]}

\* The order by time survives: what the renumbering disturbs is the order of
\* documents with the same time.
HitsInTimeOrder ==
    \A i, j \in DOMAIN hits : i < j =>
        ~TimeBefore(params.dir, TimeOf[hits[j]], TimeOf[hits[i]])

Collected(d) == \E i \in DOMAIN hits : SameDocument(d, hits[i])

\* A page ended at a document with the time of d.
TiesAtPageEnd(d) ==
    \E i \in DOMAIN hits : i % reqSize = 0 /\ TimeOf[hits[i]] = TimeOf[d]

\* A --size 0 run that exits 0 has collected each document that is still there,
\* or a page ended at another document with the same time.
OnlyTimeTiesMissing ==
    FetchesAll /\ exit = exitOK =>
        \A d \in Live : Collected(d) \/ TiesAtPageEnd(d)

\* A document is collected twice only when a page ended between the two, and
\* among documents of its own time.
RepeatsStraddlePages ==
    \A i, j \in DOMAIN hits : i < j /\ SameDocument(hits[i], hits[j]) =>
        /\ \E k \in i..(j - 1) : k % reqSize = 0
        /\ \A k \in i..j : TimeOf[hits[k]] = TimeOf[hits[i]]

-----------------------------------------------------------------------------
(***************************************************************************)
(* The inductive strengthenings of the last two.                           *)
(***************************************************************************)
\* A document has one number at a time, so an answer holds it at most once; and
\* a page follows only full ones.
RepeatInv ==
    /\ \A d \in Live : Twin[d] \notin Live
    /\ pc = "wait" /\ answer.kind = "ok" =>
          \A i, j \in DOMAIN answer.page : answer.page[j] # Twin[answer.page[i]]
    /\ FetchesAll /\ Requesting => Len(hits) % reqSize = 0
    /\ RepeatsStraddlePages

\* In the page on its way, or not before its full end.
AnswerAccountsFor(d) ==
    \/ \E i \in DOMAIN answer.page : SameDocument(d, answer.page[i])
    \/ /\ Len(answer.page) = reqSize
       /\ ~TimeBefore(params.dir, TimeOf[d], TimeOf[answer.page[reqSize]])

\* As long as no shard has failed, a document that is there and not after the
\* cursor has been collected or has the time of a page's end.  A renumbering
\* moves a document to the other side of the cursor only in the latter case.
LossInv ==
    /\ exit = exitOK => pc = "done" /\ partial = {}
    /\ FetchesAll /\ partial = {} =>
        /\ Requesting =>
              \A d \in Live : \/ Collected(d) \/ TiesAtPageEnd(d)
                              \/ IsAfter(params.dir, searchAfter, d)
        /\ pc = "wait" /\ answer.kind = "ok" /\ answer.failed = {} =>
              \A d \in Live : \/ Collected(d) \/ TiesAtPageEnd(d)
                              \/ AnswerAccountsFor(d)
        /\ AfterLastAnswer => \A d \in Live : Collected(d) \/ TiesAtPageEnd(d)
=============================================================================
