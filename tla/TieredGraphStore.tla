-------------------------- MODULE TieredGraphStore --------------------------
(***************************************************************************)
(* threat-intel/tiered_graph_store.py: the campaign graph split into a hot *)
(* tier, which the live scoring path queries, and a cold archive.  A node  *)
(* with no recent activity is demoted with its links; a demoted node that  *)
(* reappears in a report takes its whole archived history back to the hot  *)
(* tier.                                                                   *)
(*                                                                         *)
(* A link is the set of its two end nodes (a singleton when a report names *)
(* the same node twice: networkx stores a self-loop).  The attribute the   *)
(* store keeps on an edge is the flag "confirmed", so each tier is a set   *)
(* of nodes, a set of links, and the subset of its links so flagged.       *)
(***************************************************************************)
EXTENDS Integers

CONSTANTS
    Node,       \* payees, numbers, wallets, script hashes
    Dormancy,   \* dormancy_seconds, in ticks of the clock
    MaxTime     \* bound: the last instant of the clock

ASSUME StoreAssumption ==
    /\ Dormancy \in Nat
    /\ MaxTime \in Nat

VARIABLES
    hotNodes, hotLinks, hotConfirmed,       \* hot_graph
    coldNodes, coldLinks, coldConfirmed,    \* _cold_graph
    lastSeen,                               \* _last_seen
    clock                                   \* the wall clock

hotVars  == <<hotNodes, hotLinks, hotConfirmed>>
coldVars == <<coldNodes, coldLinks, coldConfirmed>>
vars     == <<hotVars, coldVars, lastSeen, clock>>

Link  == {{a, b} : a, b \in Node}
Never == -1     \* the node is no key of _last_seen

TypeOK ==
    /\ hotNodes \subseteq Node  /\ hotLinks \subseteq Link
    /\ coldNodes \subseteq Node /\ coldLinks \subseteq Link
    /\ hotConfirmed \subseteq hotLinks
    /\ coldConfirmed \subseteq coldLinks
    /\ clock \in 0..MaxTime
    /\ lastSeen \in [Node -> {Never} \cup 0..MaxTime]
    /\ \A n \in Node : lastSeen[n] <= clock

-----------------------------------------------------------------------------
Init ==
    /\ hotNodes = {}  /\ hotLinks = {}  /\ hotConfirmed = {}
    /\ coldNodes = {} /\ coldLinks = {} /\ coldConfirmed = {}
    /\ lastSeen = [n \in Node |-> Never]
    /\ clock = 0

(***************************************************************************)
(* observe.  The loop over the two end nodes rehydrates each one that is   *)
(* in the archive: its archived links go to the hot tier with their flags, *)
(* and the node leaves the archive (its neighbours stay there, perhaps     *)
(* with no link left).  The caller passes the time of the report, which    *)
(* may be older than the clock.  The flag is set, never cleared.           *)
(***************************************************************************)
OnlyFirstReappears(a, b) == {a} \cap coldNodes

Reappearing(a, b) == {a, b} \cap coldNodes

LinksOf(S, L) == {l \in L : l \cap S # {}}

StampExpiry(a, b, ts) == [n \in Node |-> IF n \in {a, b} THEN ts + Dormancy ELSE lastSeen[n]]

Seen(a, b, ts) == [n \in Node |-> IF n \in {a, b} THEN ts ELSE lastSeen[n]]

Observe(a, b, isConfirmed, ts) ==
    LET revived == Reappearing(a, b)
        back    == LinksOf(revived, coldLinks)
    IN  /\ lastSeen' = Seen(a, b, ts)
        /\ coldNodes' = coldNodes \ revived
        /\ coldLinks' = coldLinks \ back
        /\ coldConfirmed' = coldConfirmed \ back
        /\ hotNodes' = hotNodes \cup (UNION back) \cup {a, b}
        /\ hotLinks' = hotLinks \cup back \cup {{a, b}}
        /\ hotConfirmed' = hotConfirmed \cup (coldConfirmed \cap back)
                             \cup (IF isConfirmed THEN {{a, b}} ELSE {})
        /\ UNCHANGED clock

(***************************************************************************)
(* demote_dormant.  The code walks a copy of the node list and removes a   *)
(* node as it goes; a node removed earlier was dormant, so its removal     *)
(* never changes the verdict on a neighbour and the walk demotes the set   *)
(* below whatever its order.  The links of a demoted node are archived     *)
(* with their flags, and so is the other end of each, as a node.           *)
(***************************************************************************)
Active(n) ==
    LET seen == IF lastSeen[n] = Never THEN clock ELSE lastSeen[n]
    IN  clock - seen < Dormancy

HotNeighbours(n) == {m \in Node : {n, m} \in hotLinks}

DormantIgnoringNeighbours == {n \in hotNodes : ~Active(n)}

Demotable == {n \in hotNodes : ~Active(n) /\ \A m \in HotNeighbours(n) : ~Active(m)}

ArchiveWithoutFlags(moved) == {}

ArchivedFlags(moved) == hotConfirmed \cap moved

OnlyFullyDemoted(S) == {l \in hotLinks : l \subseteq S}

LeavingHot(S) == LinksOf(S, hotLinks)

DemoteDormant ==
    LET moved == LinksOf(Demotable, hotLinks)
    IN  /\ coldNodes' = coldNodes \cup (UNION moved)
        /\ coldLinks' = coldLinks \cup moved
        /\ coldConfirmed' = coldConfirmed \cup ArchivedFlags(moved)
        /\ hotNodes' = hotNodes \ Demotable
        /\ hotLinks' = hotLinks \ LeavingHot(Demotable)
        /\ hotConfirmed' = hotConfirmed \ LeavingHot(Demotable)
        /\ UNCHANGED <<lastSeen, clock>>

\* Time passes up to the bound MaxTime.
Tick ==
    /\ clock < MaxTime
    /\ clock' = clock + 1
    /\ UNCHANGED <<hotVars, coldVars, lastSeen>>

Next ==
    \/ \E a, b \in Node, isConfirmed \in BOOLEAN, ts \in 0..clock :
          Observe(a, b, isConfirmed, ts)
    \/ DemoteDormant
    \/ Tick

Spec == Init /\ [][Next]_vars

-----------------------------------------------------------------------------
(***************************************************************************)
(* Queries.                                                                *)
(***************************************************************************)
\* deep_lookup, the links of the union of both tiers.
DeepLookup == hotLinks \cup coldLinks

\* confirmed_edge_exists(a, b) for l = {a, b}.
ConfirmedEdgeExists(l) ==
    \/ l \in hotLinks /\ l \in hotConfirmed
    \/ l \in coldLinks /\ l \in coldConfirmed

-----------------------------------------------------------------------------
(***************************************************************************)
(* Properties.                                                             *)
(***************************************************************************)
\* A link is in one tier only, and a tier that holds a link holds its two
\* ends: moving data between the tiers (lines 75-79 and 99-102) neither
\* duplicates a link nor leaves one dangling.
TiersConsistent ==
    /\ hotLinks \cap coldLinks = {}
    /\ (UNION hotLinks) \subseteq hotNodes
    /\ (UNION coldLinks) \subseteq coldNodes

\* The fast path never misses a link of an active node: whatever sequence of
\* reports, late reports and sweeps happened, every known link of a node seen
\* within the dormancy period is in the hot tier, with its other end
\* (lines 92-98, "an active cluster keeps its whole neighborhood queryable").
ActiveNeighbourhoodHot ==
    \A n \in Node : Active(n) =>
        \A l \in DeepLookup : n \in l => l \in hotLinks /\ l \subseteq hotNodes

\* A node that reappears, however long it was dormant and even in a report
\* that is itself late, has all its known history in the hot tier when the
\* observation ends: no step that leaves a link of a or b archived can be an
\* observation of a and b (lines 63-67, "the known entity it is").
ReappearanceRehydrates ==
    [][\A a, b \in Node :
          LinksOf({a, b}, coldLinks') # {} =>
              ~ \E c \in BOOLEAN, ts \in 0..clock : Observe(a, b, c, ts)]_vars

\* Seen through its two queries, the store is the ledger: no report, sweep or
\* rehydration ever loses a link or the confirmation of one (lines 6-11).
Ledger == INSTANCE LinkLedger WITH
    links <- DeepLookup,
    confirmed <- {l \in Link : ConfirmedEdgeExists(l)}

ImplementsLedger == Ledger!Spec

=============================================================================
