----------------------------- MODULE MCPipeline ------------------------------
(* Selections, rotations and permissions for Pipeline. *)
EXTENDS Pipeline

Selections ==
    [pages : {"all", "first", "last"}, ranges : {{}}]
        \cup [pages : {"ranges"}, ranges : {{<<1, 1>>, <<3, 3>>}, {<<2, 4>>}, {<<0, 1>>}, {<<3, 2>>}}]

MCWatermarks ==
    {NoBlock} \cup
    {[type |-> t, ink |-> i[1], pages |-> s.pages, ranges |-> s.ranges, turns |-> i[2]] :
        t \in {"text", "image"}, s \in Selections,
        i \in {<<"absent", 0>>, <<"undrawable", 0>>, <<"good", 0>>, <<"good", 3>>}}

MCProtections ==
    {NoBlock} \cup
    [print : Answers3, highResolutionPrint : Answers3, others : [Restrictable -> Answers3]]
=============================================================================
