------------------------------- MODULE AnnHnsw -------------------------------
(***************************************************************************)
(* threat-intel/ann_hnsw.py: the second index with the same query, the one *)
(* that ann_faiss.py falls back to.  It ranks by the Euclidean distance    *)
(* between vectors as they come, the zero vector among them, and differs   *)
(* from HnswIndex in the order of its steps too: the top layer is raised before the new node looks   *)
(* for neighbours, so that on a new layer it finds, and links, the old     *)
(* entry point, which no layer above its own had; and the last node of the *)
(* highest layer is the entry point.                                       *)
(***************************************************************************)
EXTENDS HnswIndex

VARIABLES
    annVector,      \* _vectors
    annNeighbors,   \* _neighbors: layer -> node -> neighbours
    annEntry,       \* _entry_point, 0 for None
    annMaxLayer     \* _max_layer

annVars == <<annVector, annNeighbors, annEntry, annMaxLayer>>

AnnInit ==
    /\ annVector = <<>>
    /\ annNeighbors = [l \in Layer |-> <<>>]
    /\ annEntry = 0 /\ annMaxLayer = -1

\* _search_layer stops at the first candidate farther than every result, also with
\* fewer than ef results; but then every candidate is itself a result.
AnnSearchLayer(vec, links, v, start, ef) == SearchLayer(vec, links, v, start, ef)

\* Greedy steps on the layers above the given one.
AnnDescend(v, layer, top) ==
    LET down[l \in layer..top] ==
            IF l = top THEN annEntry
            ELSE GreedyClosest(annVector, annNeighbors[l + 1], v, down[l + 1])
    IN  down[layer]

\* add
AnnAdd(v, lvl) ==
    LET vec   == Append(annVector, v)
        new   == Len(vec)
        top   == Max({lvl, annMaxLayer})
        grown == [l \in Layer |-> Append(annNeighbors[l], {})]
        found[l \in 0..lvl] ==
            AnnSearchLayer(vec, grown[l], v,
                IF l = lvl THEN AnnDescend(v, lvl, top) ELSE Nearest(vec, v, found[l + 1]),
                EfConstruction)
    IN  /\ annVector' = vec
        /\ annNeighbors' =
                IF annEntry = 0 THEN grown
                ELSE [l \in Layer |-> IF l <= lvl THEN Link(vec, grown[l], new, found[l], l) ELSE grown[l]]
        /\ annEntry' = IF annEntry = 0 \/ lvl >= top THEN new ELSE annEntry
        /\ annMaxLayer' = top

\* query, with top_k = 1.
AnnQuery(v) ==
    IF annEntry = 0 THEN NoMatch
    ELSE Nearest(annVector, v,
             AnnSearchLayer(annVector, annNeighbors[0], v, AnnDescend(v, 0, annMaxLayer), EfSearch))

=============================================================================
