------------------------------ MODULE MCEsLog ------------------------------
(***************************************************************************)
(* An instance of EsLog for TLC.                                           *)
(***************************************************************************)
EXTENDS EsLog

MCSignalNumbers == {SIGINT, SIGTERM}

\* A document in either shard.
MCDocs   == 1..2
MCShards == {"a", "b"}
MCHome   == <<"a", "b">>
MCTime   == <<10, 20>>
MCDocNo  == <<0, 0>>

MCParamSpace ==
    [ok : {TRUE}, mode : {"hits"}, size : {0, 2}, explicit : {TRUE},
     format : {"jsonl"}, quiet : {FALSE}, dir : {"desc"}, includes : {{}},
     excludes : {{{2}}}]
=============================================================================
