------------------------------ MODULE PathQuery ------------------------------
(***************************************************************************)
(* threat-intel/dashboard_path_query.py: how two known nodes of the served *)
(* campaign graph are connected.  A bidirectional search expands one       *)
(* frontier from each end, in turn, until a node is reached from both      *)
(* sides or the depth is used up.  Which of several neighbours is met      *)
(* first depends on the order of the graph's dictionaries: any may be.     *)
(***************************************************************************)
EXTENDS Integers, Sequences, SequencesExt, FiniteSetsExt

CONSTANTS
    Node,           \* the nodes that a researcher may name
    MaxDepth        \* bound: the largest max_depth asked for

ASSUME DepthAssumption == MaxDepth \in Nat

NoNode == 0             \* where a search began

ASSUME NodeAssumption == NoNode \notin Node

VARIABLES
    viewNodes, viewLinks,   \* the k-anonymized view
    ends,                   \* <<node_a, node_b>>
    depth,                  \* max_depth
    turnOf,                 \* 1 or 2, the side to expand; 0 when the query is over
    from,                   \* side -> node visited from it -> the node it came from
    frontier,               \* side -> nodes found in its last expansion
    expanded,               \* side -> expansions made
    answer                  \* the path, <<>> for none

queryVars == <<viewNodes, viewLinks, ends, depth, turnOf, from, frontier, expanded, answer>>

Side     == {1, 2}
Other(s) == 3 - s

Neighbors(n) == {m \in viewNodes : {n, m} \in viewLinks}

HalfDepth == Max({1, depth \div 2})

\* The parents of what a side knew and of what it has just found.
With(parents, new) ==
    [m \in DOMAIN parents \cup DOMAIN new |-> IF m \in DOMAIN new THEN new[m] ELSE parents[m]]

\* From a node back to the end that its side began at.
Trail(parents, n) ==
    LET back[m \in DOMAIN parents] == IF parents[m] = NoNode THEN <<m>> ELSE <<m>> \o back[parents[m]]
    IN  back[n]

\* _reconstruct
Reconstruct(parents, meeting) ==
    Reverse(Trail(parents[1], meeting)) \o Tail(Trail(parents[2], meeting))

-----------------------------------------------------------------------------
QueryInit ==
    /\ viewNodes = {} /\ viewLinks = {} /\ ends = <<NoNode, NoNode>> /\ depth = 0
    /\ turnOf = 0 /\ from = [s \in Side |-> <<>>] /\ frontier = [s \in Side |-> {}]
    /\ expanded = [s \in Side |-> 0] /\ answer = <<>>

\* find_known_bad_actor_path: a node that is not served, or a node asked for
\* with itself, needs no search.
Ask(view, links, a, b, bound) ==
    /\ viewNodes' = view /\ viewLinks' = links /\ ends' = <<a, b>> /\ depth' = bound
    /\ from' = [s \in Side |-> [n \in {ends'[s]} |-> NoNode]]
    /\ frontier' = [s \in Side |-> {ends'[s]}]
    /\ expanded' = [s \in Side |-> 0]
    /\ answer' = IF a = b /\ a \in view THEN <<a>> ELSE <<>>
    /\ turnOf' = IF a # b /\ {a, b} \subseteq view THEN 1 ELSE 0

\* The loop's condition is tested before side 1 and, for its own depth, side 2.
MayExpand(s) ==
    /\ frontier[s] # {} /\ expanded[s] < HalfDepth
    /\ s = 1 => frontier[2] # {} /\ expanded[2] < HalfDepth

\* One side meets the other: the node it is met from is any of the frontier.
Meet(s) ==
    /\ turnOf = s /\ MayExpand(s)
    /\ \E n \in frontier[s] :
        \E m \in Neighbors(n) \cap DOMAIN from[Other(s)] :
            answer' = Reconstruct([from EXCEPT ![s] = With(@, [k \in {m} |-> n])], m)
    /\ turnOf' = 0
    /\ UNCHANGED <<viewNodes, viewLinks, ends, depth, from, frontier, expanded>>

ExpandSmaller(s) ==
    LET new == (UNION {Neighbors(n) : n \in frontier[s]}) \ DOMAIN from[s]
    IN  /\ turnOf = s /\ MayExpand(s)
        /\ \A n \in frontier[s] : Neighbors(n) \cap DOMAIN from[Other(s)] = {}
        /\ \E p \in [new -> frontier[s]] :
                /\ \A m \in new : p[m] \in Neighbors(m)
                /\ from' = [from EXCEPT ![s] = With(@, p)]
        /\ frontier' = [frontier EXCEPT ![s] = new]
        /\ expanded' = [expanded EXCEPT ![s] = @ + 1]
        /\ turnOf' = IF Cardinality(new) <= Cardinality(frontier[Other(s)]) THEN s ELSE Other(s)
        /\ UNCHANGED <<viewNodes, viewLinks, ends, depth, answer>>

\* One side finds new nodes, each of them from any frontier node next to it.
Expand(s) ==
    LET new == (UNION {Neighbors(n) : n \in frontier[s]}) \ DOMAIN from[s]
    IN  /\ turnOf = s /\ MayExpand(s)
        /\ \A n \in frontier[s] : Neighbors(n) \cap DOMAIN from[Other(s)] = {}
        /\ \E p \in [new -> frontier[s]] :
                /\ \A m \in new : p[m] \in Neighbors(m)
                /\ from' = [from EXCEPT ![s] = With(@, p)]
        /\ frontier' = [frontier EXCEPT ![s] = new]
        /\ expanded' = [expanded EXCEPT ![s] = @ + 1]
        /\ turnOf' = Other(s)
        /\ UNCHANGED <<viewNodes, viewLinks, ends, depth, answer>>

\* Side 2 is skipped, or the loop ends.
GiveUp ==
    /\ turnOf # 0 /\ ~MayExpand(turnOf)
    /\ turnOf' = IF turnOf = 2 /\ MayExpand(1) THEN 1 ELSE 0
    /\ UNCHANGED <<viewNodes, viewLinks, ends, depth, from, frontier, expanded, answer>>

SearchStep == (\E s \in Side : Meet(s) \/ Expand(s)) \/ GiveUp

-----------------------------------------------------------------------------
IsPath(p) ==
    /\ \A i \in 1..Len(p) : p[i] \in viewNodes
    /\ \A i \in 1..(Len(p) - 1) : {p[i], p[i + 1]} \in viewLinks

\* The nodes within n hops of the first end.
Within[n \in Nat] ==
    IF n = 0 THEN {ends[1]} \cap viewNodes
    ELSE Within[n - 1] \cup UNION {Neighbors(m) : m \in Within[n - 1]}

\* The answer of a finished query is a shortest path of served links between the
\* two nodes; there is none exactly when they are further apart than twice the
\* hops that each side has, or not both served.  The meeting of two frontiers
\* expanded in turn is what could miss a path, or return a detour.
ShortestWithinBound ==
    (turnOf = 0 /\ ends[1] # NoNode) =>
        LET reach == IF ends[1] = ends[2] THEN 0 ELSE 2 * HalfDepth
        IN  IF ends[2] \in Within[reach]
            THEN /\ answer # <<>> /\ IsPath(answer)
                 /\ answer[1] = ends[1] /\ Last(answer) = ends[2]
                 /\ \A n \in 0..(Len(answer) - 2) : ends[2] \notin Within[n]
            ELSE answer = <<>>

=============================================================================
