------------------------------ MODULE MCNetwork ------------------------------
(***************************************************************************)
(* Four routers on every connected topology, and packet flows from two of  *)
(* them to a third, whose routes may join.                                 *)
(***************************************************************************)
EXTENDS Network

AllLinks == {l \in SUBSET Nodes : Cardinality(l) = 2}

Connected ==
    {ls \in SUBSET AllLinks : Reach(1, N, ls) = Nodes}

SomeFlows == {<<N, 1>>, <<N - 1, 1>>}
=============================================================================
