-------------------------- MODULE MCCampaignQueries --------------------------
(* Views of five nodes with any links between them, asked about two served  *)
(* nodes, one node twice and one node that is not served; indexes of up to  *)
(* five embeddings, on a circle of radius 25, and the zero vector.  No two  *)
(* pairs of nodes are equally far apart or equally similar, and one measure *)
(* often ranks first what the other does not.                               *)
EXTENDS CampaignQueries

MCView == {{1, 2, 3, 4, 5}}

Embedding(a, b, norm) == [unit |-> <<a, b>>, norm |-> norm]

MCPoint ==
    {Embedding(15, 20, 4), Embedding(24, 7, 4), Embedding(24, -7, 1),
     Embedding(20, 15, 1), Embedding(-24, 7, 1), Embedding(25, 0, 0)}

=============================================================================
