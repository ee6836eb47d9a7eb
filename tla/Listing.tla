------------------------------ MODULE Listing ------------------------------
(***************************************************************************)
(* One run of `es-log ls' (internal/cmd/ls.go): the aliases and the data   *)
(* streams are fetched with one request each, sorted, filtered and         *)
(* printed, while somebody changes them.                                   *)
(*                                                                         *)
(* A name is a number, its rank in string order.                           *)
(***************************************************************************)
EXTENDS ExitCodes, Filtering, FiniteSets, FiniteSetsExt, SequencesExt

CONSTANTS
    Names,        \* the names of aliases and data streams
    DotNames,     \* those that begin with a dot
    Indices,      \* the indices an alias may point to
    MaxChanges    \* bound: changes of the cluster during the run

ASSUME ListingAssumption ==
    /\ Names \subseteq Nat /\ IsFiniteSet(Names)
    /\ DotNames \subseteq Names
    /\ IsFiniteSet(Indices)
    /\ MaxChanges \in Nat

Modes == {"all", "alias", "datastream"}

\* lsRow: the count is index_count or backing_indices_count.
Row(n, type, count) == [name |-> n, type |-> type, count |-> count]

VARIABLES
    mode, showHidden, ok,   \* the command line; ok as in SearchRun
    pc,          \* where runLs is
    rows,        \* the rows collected
    stdout,      \* the rows rendered
    exit,        \* the exit code, NoExit before
    \* the cluster
    aliasesOf,   \* aliasesOf[i]: the aliases of index i
    backing,     \* backing[n]: backing indices of the data stream n, 0 for none
    \* history
    moments      \* the rows that were true of the cluster, one set per change

flags   == <<mode, showHidden, ok>>
command == <<pc, rows, stdout, exit>>
cluster == <<aliasesOf, backing, moments>>
vars    == <<flags, command, cluster>>

-----------------------------------------------------------------------------
(***************************************************************************)
(* The rows the command builds from an answer.                             *)
(***************************************************************************)
\* Mutant: an alias of several indices counts as one.
aliasCountsOnce ==
    FoldSet(LAMBDA i, counts : [n \in Names |-> IF n \in aliasesOf[i] THEN 1
                                                ELSE counts[n]],
            [n \in Names |-> 0], Indices)

\* ListAliases: counts[alias]++ for every alias of every index.
aliasCounts ==
    FoldSet(LAMBDA i, counts : [n \in Names |-> IF n \in aliasesOf[i]
                                                THEN counts[n] + 1 ELSE counts[n]],
            [n \in Names |-> 0], Indices)

aliasRows == LET counts == aliasCounts
             IN {Row(n, "alias", counts[n]) : n \in {m \in Names : counts[m] > 0}}
streamRows == {Row(n, "datastream", backing[n]) : n \in {m \in Names : backing[m] > 0}}

\* Mutant: the entries stay in the order of the map.
sortByNameNot(entries) == entries

\* sort.Slice by name: no two entries of one answer share a name, so each has as
\* many before it as have lesser names.
sortByName(entries) ==
    LET lesser(r) == {s \in Range(entries) : s.name < r.name}
    IN [i \in 1..Len(entries) |->
           CHOOSE r \in Range(entries) : Cardinality(lesser(r)) = i - 1]

\* Unless they are asked for, names that begin with a dot are left out.
filterHidden(rs) == Filtered(rs, {r \in Range(rs) : r.name \notin DotNames})

-----------------------------------------------------------------------------
\* What is true of the cluster, counted index by index.
AliasTruth  == {Row(n, "alias", Cardinality({i \in Indices : n \in aliasesOf[i]})) :
                  n \in UNION {aliasesOf[i] : i \in Indices}}
Truth == AliasTruth \cup streamRows

Init ==
    /\ mode \in Modes
    /\ showHidden \in BOOLEAN
    /\ ok \in BOOLEAN
    /\ pc = "start"
    /\ rows = <<>>
    /\ stdout = <<>>
    /\ exit = NoExit
    /\ aliasesOf \in [Indices -> SUBSET Names]
    /\ backing \in [Names -> 0..1]
    /\ \A n \in Names : backing[n] > 0 => \A i \in Indices : n \notin aliasesOf[i]
    /\ moments = <<Truth>>

-----------------------------------------------------------------------------
\* loadConfig, formatFor and buildClient, then the mode.
Preflight ==
    /\ pc = "start"
    /\ IF ok
       THEN /\ pc' = IF mode = "datastream" THEN "streams" ELSE "aliases"
            /\ UNCHANGED exit
       ELSE pc' = "done" /\ exit' = exitUsage
    /\ UNCHANGED <<flags, rows, stdout, cluster>>

\* Mutant: the aliases are printed before the data streams are asked for.
AliasesPrinted ==
    /\ pc = "aliases"
    /\ \E entries \in SetToSeqs(aliasRows) : rows' = sortByName(entries)
    /\ stdout' = rows'
    /\ pc' = IF mode = "all" THEN "streams" ELSE "filter"
    /\ UNCHANGED <<flags, exit, cluster>>

\* ListAliases returns its entries in the order of a Go map.
AliasesAnswered ==
    /\ pc = "aliases"
    /\ \E entries \in SetToSeqs(aliasRows) : rows' = sortByName(entries)
    /\ pc' = IF mode = "all" THEN "streams" ELSE "filter"
    /\ UNCHANGED <<flags, stdout, exit, cluster>>

\* The order of the data streams is the cluster's.
StreamsAnswered ==
    /\ pc = "streams"
    /\ \E entries \in SetToSeqs(streamRows) : rows' = rows \o sortByName(entries)
    /\ pc' = "filter"
    /\ UNCHANGED <<flags, stdout, exit, cluster>>

\* Either request fails, or its answer cannot be parsed.
RequestFails ==
    /\ pc \in {"aliases", "streams"}
    /\ \E e \in ESErrors : exit' = ClassifyESError("", e)
    /\ pc' = "done"
    /\ UNCHANGED <<flags, rows, stdout, cluster>>

Filter ==
    /\ pc = "filter"
    /\ rows' = IF showHidden THEN rows ELSE filterHidden(rows)
    /\ pc' = "render"
    /\ UNCHANGED <<flags, stdout, exit, cluster>>

Render ==
    /\ pc = "render"
    /\ stdout' = rows
    /\ exit' = exitOK
    /\ pc' = "done"
    /\ UNCHANGED <<flags, rows, cluster>>

\* renderLs returns the error of stdout, which may take any beginning of the rows.
WriteFails ==
    /\ pc = "render"
    /\ \E n \in 0..Len(rows) : stdout' = SubSeq(rows, 1, n)
    /\ exit' = exitUsage
    /\ pc' = "done"
    /\ UNCHANGED <<flags, rows, cluster>>

-----------------------------------------------------------------------------
(***************************************************************************)
(* The cluster.  An alias and a data stream never share a name.            *)
(***************************************************************************)
Change ==
    /\ pc # "done"
    /\ Len(moments) <= MaxChanges
    /\ \/ \E i \in Indices, n \in Names :
             /\ backing[n] = 0
             /\ aliasesOf' = [aliasesOf EXCEPT ![i] = SymDiff(@, {n})]
             /\ UNCHANGED backing
       \/ \E n \in Names :
             /\ \A i \in Indices : n \notin aliasesOf[i]
             /\ \E k \in (0..2) \ {backing[n]} : backing' = [backing EXCEPT ![n] = k]
             /\ UNCHANGED aliasesOf
    /\ moments' = Append(moments, Truth')
    /\ UNCHANGED <<flags, command>>

Ended == pc = "done" /\ UNCHANGED vars

Next ==
    \/ Preflight
    \/ AliasesAnswered
    \/ StreamsAnswered
    \/ RequestFails
    \/ Filter
    \/ Render
    \/ WriteFails
    \/ Change
    \/ Ended

Spec == Init /\ [][Next]_vars

-----------------------------------------------------------------------------
(***************************************************************************)
(* Properties.                                                             *)
(***************************************************************************)
Visible(S, type) ==
    {r \in S : r.type = type /\ (showHidden \/ r.name \notin DotNames)}

\* The aliases printed are those of one moment of the run and the data streams
\* those of the same or a later one, each with its count: the two requests see
\* the cluster at two moments, but each sees it whole.
ListsTwoMoments ==
    exit = exitOK =>
        \E i, j \in DOMAIN moments :
            /\ i <= j
            /\ {r \in Range(stdout) : r.type = "alias"} =
                  IF mode = "datastream" THEN {} ELSE Visible(moments[i], "alias")
            /\ {r \in Range(stdout) : r.type = "datastream"} =
                  IF mode = "alias" THEN {} ELSE Visible(moments[j], "datastream")

Precedes(r, s) ==
    \/ r.type = s.type /\ r.name < s.name
    \/ r.type = "alias" /\ s.type = "datastream"

\* Aliases first, then data streams, each by name, none printed twice, whatever
\* order the maps and the answers have (runLs: "all output formats list an
\* identical target set").
ListedInOrder ==
    \A i, j \in DOMAIN stdout : i < j => Precedes(stdout[i], stdout[j])

\* The rows of a listing whose requests were answered at these moments.
Listed(i, j) ==
    (IF mode = "datastream" THEN {} ELSE Visible(moments[i], "alias"))
    \cup (IF mode = "alias" THEN {} ELSE Visible(moments[j], "datastream"))

\* However a run ends, what is printed is a beginning of one such listing, with no
\* row left out before another: when one of the two requests fails nothing is
\* printed, not even what the other one returned, and when stdout fails the rows
\* before are those that a listing has there.
BeginningOfListing ==
    /\ exit \in HardFailures \ {exitUsage} => stdout = <<>>
    /\ stdout # <<>> =>
          \E i, j \in DOMAIN moments :
             /\ i <= j
             /\ Range(stdout) \subseteq Listed(i, j)
             /\ \A r \in Range(stdout), q \in Listed(i, j) :
                   Precedes(q, r) => q \in Range(stdout)

-----------------------------------------------------------------------------
(***************************************************************************)
(* The inductive strengthening of the properties.                          *)
(***************************************************************************)
Rows == [name : Names, type : {"alias", "datastream"}, count : Nat]

TypeOK ==
    /\ mode \in Modes
    /\ showHidden \in BOOLEAN
    /\ ok \in BOOLEAN
    /\ pc \in {"start", "aliases", "streams", "filter", "render", "done"}
    /\ rows \in Seq(Rows)
    /\ stdout \in Seq(Rows)
    /\ exit \in CommandExits \cup {NoExit}
    /\ aliasesOf \in [Indices -> SUBSET Names]
    /\ backing \in [Names -> Nat]
    /\ moments \in Seq(SUBSET Rows)

IsListed(s) == \A i, j \in DOMAIN s : i < j => Precedes(s[i], s[j])

OfType(S, type) == {r \in S : r.type = type}

AliasesAt(i) == IF mode = "datastream" THEN {} ELSE OfType(moments[i], "alias")
StreamsAt(j) == IF mode = "alias" THEN {} ELSE OfType(moments[j], "datastream")

\* The rows so far are those of the moments the requests were answered at, and
\* in order; nothing is printed before all of them are there.
RowsInv ==
    /\ moments # <<>> /\ moments[Len(moments)] = Truth
    /\ pc # "done" => stdout = <<>> /\ exit = NoExit
    /\ IsListed(rows) /\ IsListed(stdout)
    /\ pc = "start" => rows = <<>>
    /\ pc = "aliases" => rows = <<>> /\ mode # "datastream"
    /\ pc = "streams" =>
        /\ mode # "alias"
        /\ \E i \in DOMAIN moments : Range(rows) = AliasesAt(i)
    /\ pc = "filter" =>
        \E i, j \in DOMAIN moments :
            i <= j /\ Range(rows) = AliasesAt(i) \cup StreamsAt(j)
    /\ pc = "render" =>
        \E i, j \in DOMAIN moments :
            /\ i <= j
            /\ Range(rows) = {r \in AliasesAt(i) \cup StreamsAt(j) :
                                 showHidden \/ r.name \notin DotNames}
    /\ ListsTwoMoments
    /\ BeginningOfListing
=============================================================================
