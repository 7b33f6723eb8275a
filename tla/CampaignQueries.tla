--------------------------- MODULE CampaignQueries ---------------------------
(***************************************************************************)
(* What researchers and the matching of new reports ask of the campaign    *)
(* graph: paths between known nodes (PathQuery), and the embedding most    *)
(* like another in either of the two approximate indexes, which are filled *)
(* with the same nodes and each have a measure of their own (HnswIndex,    *)
(* AnnHnsw).                                                               *)
(***************************************************************************)
EXTENDS PathQuery, AnnHnsw

CONSTANTS
    View,       \* the node sets that a view may have
    Point,      \* embeddings
    MaxNodes    \* bound: nodes indexed

ASSUME ViewAssumption  == \A view \in View : NoNode \notin view
ASSUME PointAssumption ==
    /\ \A x \in Point : x.unit \in Vector /\ x.norm \in Nat
    /\ \A x, y \in Point : Similarity(x.unit, x.unit) = Similarity(y.unit, y.unit)

vars == <<queryVars, indexVars, annVars>>

Init == QueryInit /\ IndexInit /\ AnnInit

\* A query runs on the view that it was given.
AskPath ==
    /\ ends[1] = NoNode
    /\ \E view \in View, a \in Node, b \in Node, d \in 0..MaxDepth :
        \E links \in SUBSET {l \in SUBSET view : Cardinality(l) = 2} : Ask(view, links, a, b, d)

\* build_hnsw, with the same nodes given to the other index, unless it refuses them.
IndexNode ==
    /\ Len(annVector) < MaxNodes
    /\ \E x \in Point, l \in Layer :
        Raw(x) \notin ToSet(annVector) /\ Add(x, l) /\ AnnAdd(Raw(x), l)

\* The two share no state and are explored one at a time.
Next ==
    \/ annVector = <<>> /\ (AskPath \/ SearchStep) /\ UNCHANGED <<indexVars, annVars>>
    \/ ends[1] = NoNode /\ IndexNode /\ UNCHANGED queryVars

Spec == Init /\ [][Next]_vars

-----------------------------------------------------------------------------
\* campaign_predictor.ANNIndex.query: the exhaustive scan, of vectors as they come.
ScanDistance(v) == Min({Distance(annVector[i], v) : i \in DOMAIN annVector})

\* What a scan by the cosine would find, which the code does not have.
BestSimilarity(v) == Max({Similarity(vector[i], v) : i \in DOMAIN vector})

\* While no neighbour list of layer 0 had to be cut, no search of an index misses
\* what its own measure ranks first, whatever the order of insertion and the levels
\* drawn: for ann_hnsw that is the answer of the exhaustive scan, for hnsw_index
\* the most similar direction, which is another embedding where lengths differ.
ExactUntilCut ==
    /\ vector # <<>> /\ Len(vector) <= 2 * M + 1 =>
        \A x \in Point : x.norm # 0 =>
            Similarity(vector[Query(x)], Normalized(x)) = BestSimilarity(Normalized(x))
    /\ annVector # <<>> /\ Len(annVector) <= 2 * M + 1 =>
        \A x \in Point : Distance(annVector[AnnQuery(Raw(x))], Raw(x)) = ScanDistance(Raw(x))

\* No neighbour list leads to a node that has no list on that layer, where the
\* next step of the search would raise IndexError, and the search begins at a
\* node of the top layer (hnsw_index.py:75-120).
LayersSound ==
    /\ \A l \in Layer : \A i \in DOMAIN vector : neighbors[l][i] # {} =>
            level[i] >= l /\ \A j \in neighbors[l][i] : level[j] >= l
    /\ vector # <<>> => level[entry] = maxLevel

=============================================================================
