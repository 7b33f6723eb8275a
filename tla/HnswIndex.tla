------------------------------ MODULE HnswIndex ------------------------------
(***************************************************************************)
(* threat-intel/hnsw_index.py: the layered small-world index in which a    *)
(* new report looks for the campaign cluster next to it.                   *)
(*                                                                         *)
(* An embedding is a direction, a point of one circle, and a length, so    *)
(* many radii of it; a vector is a pair of integers.  This index divides   *)
(* what it is given by its length and keeps the direction, AnnHnsw keeps   *)
(* the vector as it is.  Of two points of a circle the more similar to a   *)
(* third is the nearer to it, so that both can be searched by distance.    *)
(* Nodes are numbered as they are inserted.  A neighbour list is a set;    *)
(* of equally near nodes the later one counts as closer, as in the heap of *)
(* results.  (The candidates' heap and the order of a list break such ties *)
(* otherwise; the distance of an answer does not tell.)                    *)
(***************************************************************************)
EXTENDS Integers, Sequences, FiniteSetsExt

CONSTANTS
    M,                  \* m: neighbours per layer, twice as many on layer 0
    EfConstruction,     \* ef_construction
    EfSearch,           \* ef_search
    TopLayer            \* bound: the highest level that the generator draws

ASSUME IndexAssumption ==
    /\ M \in Nat \ {0, 1} /\ EfConstruction \in Nat /\ EfSearch \in Nat \ {0}
    /\ EfConstruction >= 2 * M /\ TopLayer \in Nat

Layer == 0..TopLayer

Vector == Int \X Int

Raw(x) == <<x.norm * x.unit[1], x.norm * x.unit[2]>>

\* v / norm, in add and in query.
Normalized(x) == x.unit

\* _sim: the dot product, the cosine of normalised vectors.
Similarity(a, b) == a[1] * b[1] + a[2] * b[2]

\* AnnHnsw's _dist, squared.
Distance(a, b) == (a[1] - b[1]) * (a[1] - b[1]) + (a[2] - b[2]) * (a[2] - b[2])

\* A layer of an index is its vectors and the neighbour sets of that layer.
Closer(vec, v, i, j) ==
    \/ Distance(vec[i], v) < Distance(vec[j], v)
    \/ Distance(vec[i], v) = Distance(vec[j], v) /\ i > j

Best(vec, v, n, S)  == {i \in S : Cardinality({j \in S : Closer(vec, v, j, i)}) < n}
Nearest(vec, v, S)  == CHOOSE i \in S : \A j \in S \ {i} : Closer(vec, v, i, j)
Farthest(vec, v, S) == CHOOSE i \in S : \A j \in S \ {i} : Closer(vec, v, j, i)

\* _greedy_closest: to the most similar neighbour while that is strictly better.
GreedyClosest(vec, links, v, start) ==
    LET walk[i \in DOMAIN vec] ==
            LET better == {j \in links[i] : Distance(vec[j], v) < Distance(vec[i], v)}
            IN  IF better = {} THEN i ELSE walk[Nearest(vec, v, better)]
    IN  walk[start]

\* A search of a layer has seen some nodes, has some of them still open, and
\* keeps the best that it found.  It ends when no node is open, or when the best
\* of those is worse than every one of ef results.
Exhausted(vec, v, b, ef) ==
    \/ b.open = {}
    \/ /\ Cardinality(b.found) >= ef
       /\ Distance(vec[Nearest(vec, v, b.open)], v) > Distance(vec[Farthest(vec, v, b.found)], v)

\* The best open node is expanded.
Widened(vec, links, v, b, ef) ==
    LET current == Nearest(vec, v, b.open)
        new     == links[current] \ b.seen
        kept    == Best(vec, v, ef, b.found \cup new)
    IN  [seen |-> b.seen \cup new, open |-> (b.open \ {current}) \cup (new \cap kept), found |-> kept]

\* _search_layer
SearchLayer(vec, links, v, entry, ef) ==
    LET Ids == SUBSET DOMAIN vec
        beam[b \in [seen : Ids, open : Ids, found : Ids]] ==
            IF Exhausted(vec, v, b, ef) THEN b.found ELSE beam[Widened(vec, links, v, b, ef)]
    IN  beam[[seen |-> {entry}, open |-> {entry}, found |-> {entry}]]

SameOnEveryLayer(layer) == M

\* _select_neighbors
MaxConn(layer) == IF layer = 0 THEN 2 * M ELSE M
SelectNeighbors(vec, v, candidates, layer) == Best(vec, v, MaxConn(layer), candidates)

-----------------------------------------------------------------------------
VARIABLES
    vector,     \* _nodes: the vectors, in the order of insertion
    level,      \* their levels
    neighbors,  \* layer -> node -> its neighbours there
    entry,      \* _entry_point, 0 for None
    maxLevel    \* _max_level

indexVars == <<vector, level, neighbors, entry, maxLevel>>

IndexInit ==
    /\ vector = <<>> /\ level = <<>>
    /\ neighbors = [l \in Layer |-> <<>>]
    /\ entry = 0 /\ maxLevel = -1

\* The node where a descent from the entry point enters the given layer.
Descend(v, layer) ==
    LET down[l \in layer..maxLevel] ==
            IF l = maxLevel THEN entry
            ELSE GreedyClosest(vector, neighbors[l + 1], v, down[l + 1])
    IN  down[layer]

\* One layer of add: the new node is linked with the best candidates, each of
\* which then keeps only the best of its own neighbours.
Link(vec, links, new, candidates, layer) ==
    LET chosen == SelectNeighbors(vec, vec[new], candidates, layer)
    IN  [i \in 1..new |->
            IF i = new THEN chosen
            ELSE IF i \in chosen THEN Best(vec, vec[i], MaxConn(layer), links[i] \cup {new})
            ELSE links[i]]

EntryNeverMoves(new, lvl) == IF entry = 0 THEN new ELSE entry
EntryPoint(new, lvl)      == IF lvl > maxLevel THEN new ELSE entry

\* The rest of add, with a normalised vector.
Insert(v, lvl) ==
    LET vec   == Append(vector, v)
        new   == Len(vec)
        start == Min({lvl, maxLevel})
        grown == [l \in Layer |-> Append(neighbors[l], {})]
        found[l \in 0..start] ==
            SearchLayer(vec, grown[l], v,
                IF l = start THEN Descend(v, start) ELSE Nearest(vec, v, found[l + 1]),
                EfConstruction)
    IN  /\ vector' = vec /\ level' = Append(level, lvl)
        /\ neighbors' =
                [l \in Layer |-> IF l <= start THEN Link(vec, grown[l], new, found[l], l) ELSE grown[l]]
        /\ entry' = EntryPoint(new, lvl)
        /\ maxLevel' = Max({lvl, maxLevel})

\* add: the zero vector has no direction (ValueError).
Add(x, lvl) ==
    \/ x.norm = 0 /\ UNCHANGED indexVars
    \/ x.norm # 0 /\ Insert(Normalized(x), lvl)

NoMatch == 0

\* The search of query.
Match(v) ==
    Nearest(vector, v,
        SearchLayer(vector, neighbors[0], v, Descend(v, 0), EfSearch))

\* query, with top_k = 1.
Query(x) == IF entry = 0 \/ x.norm = 0 THEN NoMatch ELSE Match(Normalized(x))

=============================================================================
