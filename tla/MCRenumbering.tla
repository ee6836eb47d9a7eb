--------------------------- MODULE MCRenumbering ---------------------------
(***************************************************************************)
(* An instance of Renumbering for TLC: 1 to 4 under one numbering, 5 to 8  *)
(* are the same documents under the other.                                 *)
(***************************************************************************)
EXTENDS Renumbering

MCDocs   == 1..8
MCShards == {"a", "b"}
\* 1, 2 and 3 share a shard and 1 and 2 a time; 4 is alone in its shard and
\* shares the time of 3.  The second numbering turns 1 and 2 round.
MCTwin   == <<5, 6, 7, 8, 1, 2, 3, 4>>
MCHome   == <<"a", "a", "a", "b", "a", "a", "a", "b">>
MCTime   == <<10, 10, 20, 20, 10, 10, 20, 20>>
MCDocNo  == <<1, 3, 5, 0, 2, 0, 4, 1>>
MCInitialDocs == 1..4

MCParamSpace ==
    [ok : {TRUE}, mode : {"hits"}, size : {0}, explicit : {TRUE},
     format : {"jsonl"}, quiet : {FALSE}, dir : Directions, includes : {{}},
     excludes : {{}}]
=============================================================================
