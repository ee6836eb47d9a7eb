---------------------------- MODULE MCSearchRun ----------------------------
(***************************************************************************)
(* Instances of SearchRun for TLC.                                         *)
(***************************************************************************)
EXTENDS SearchRefinement

MCDocs   == 1..4
MCShards == {"a", "b"}
\* Documents 1 and 2 share a time and live in one shard; 3 shares its time
\* with 4 across the shards, and its number is not that of 4.
MCHome   == <<"a", "a", "a", "b">>
MCTime   == <<10, 10, 20, 20>>
MCDocNo  == <<0, 1, 2, 0>>
\* As above, but 3 and 4 tie: same time, same number, different shards.
MCTiedDocNo == <<0, 1, 2, 2>>
MCInitialDocs == {1, 2, 4}

Flags(modes, sizes, formats) ==
    [ok : {TRUE}, mode : modes, size : sizes, explicit : {TRUE},
     format : formats, quiet : {FALSE}, dir : {"desc"}, includes : {{}},
     excludes : {{}}]

\* Fetch everything, both sort directions.
MCFetchAll ==
    [ok : {TRUE}, mode : {"hits"}, size : {0}, explicit : {TRUE},
     format : {"jsonl"}, quiet : {FALSE}, dir : Directions, includes : {{}},
     excludes : {{}}]

\* Every mode and format, sizes on both sides of DefaultWindow.
MCBounded ==
    [ok : {TRUE}, mode : {"hits", "aggs", "rawaggs"}, size : 0..4,
     explicit : BOOLEAN, format : {"json", "jsonl", "table"},
     quiet : BOOLEAN, dir : {"desc"}, includes : {{}}, excludes : {{}}]

\* Bounded searches only, sizes below, at and above the windows.
MCCapped ==
    [ok : {TRUE}, mode : {"hits", "aggs"}, size : 1..4, explicit : {TRUE},
     format : {"table"}, quiet : BOOLEAN, dir : Directions, includes : {{}},
     excludes : {{}}]

\* Both kinds of search.
MCLive == MCFetchAll \cup MCCapped

\* Patterns: kept, dropped, both, one of several.
MCFiltered ==
    [ok : BOOLEAN, mode : {"hits", "aggs"}, size : {0, 2}, explicit : {TRUE},
     format : {"json", "jsonl"}, quiet : {FALSE}, dir : {"asc"},
     includes : {{}, {{1, 2}}, {{1}, {4}}}, excludes : {{}, {{2, 4}}}]

\* All that decides what is printed.
MCPrinted == MCBounded \cup MCFiltered

MCFaultTargets == Flags({"hits"}, {0, 2}, {"jsonl"})

MCEnding == MCFaultTargets \cup MCFetchAll
=============================================================================
