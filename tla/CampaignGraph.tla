---------------------------- MODULE CampaignGraph ----------------------------
(***************************************************************************)
(* threat-intel/campaign_graph.py as the backend runs it: one graph per    *)
(* process, written by the threads that serve POST /v1/analyze-transcript  *)
(* and read by the threads that serve GET /v1/campaign-graph, with no lock *)
(* (backend/api/routes.py, backend/dev_server_stdlib.py).  A step is one   *)
(* statement that reads or writes the shared graph; networkx calls and     *)
(* dict operations are taken as atomic.                                    *)
(*                                                                         *)
(* A submission is one person's flagged transcript.  ReportsOf[s] is the   *)
(* sequence of node keys extract_patterns finds in it (distinct: phones    *)
(* and wallets are deduplicated, then one script hash).  A client whose    *)
(* POST timed out sends the same submission again.                         *)
(*                                                                         *)
(* The node attributes first_seen and incident_ids are left out: no caller *)
(* reads them (two writers adding one node can reset both, see AddNode).   *)
(***************************************************************************)
EXTENDS Integers, Sequences, FiniteSets

CONSTANTS
    Node,           \* "kind:value" keys
    Submission,     \* flagged transcripts
    ReportsOf,      \* [Submission -> Seq(Node)]
    SeedReports,    \* the two reports of seed_demo_campaign
    SeedCount,      \* how many incidents it records: 5 in the code
    Floor,          \* K_ANONYMITY_FLOOR: 5 in the code
    PruneDays,      \* ISOLATED_NODE_PRUNE_DAYS: 90 in the code
    Worker,         \* threads serving POSTs
    Viewer,         \* threads serving GETs
    MaxIncident,    \* bound: incidents recorded, seeds included
    MaxDay          \* bound: the last day of the clock

Distinct(r) == \A i, j \in 1..Len(r) : r[i] = r[j] => i = j

ASSUME GraphAssumption ==
    /\ ReportsOf \in [Submission -> Seq(Node)]
    /\ \A s \in Submission : ReportsOf[s] # <<>> /\ Distinct(ReportsOf[s])
    /\ SeedReports \in Seq(Node) /\ Len(SeedReports) = 2 /\ Distinct(SeedReports)
    /\ Floor \in Nat /\ PruneDays \in Nat /\ MaxDay \in Nat
    /\ SeedCount \in Nat /\ MaxIncident \in Nat /\ SeedCount <= MaxIncident

VARIABLES
    nodes,          \* graph.nodes
    edges,          \* graph.edges
    lastSeen,       \* the attribute last_seen of each node, in days
    counts,         \* _incident_counts
    nextId,         \* the next incident id: uuid4 never repeats one
    origin,         \* history: the submission an incident came from
    worker,         \* per POST thread: where it is in record_incident
    viewer,         \* per GET thread: where it is in k_anonymized_view
    response,       \* per GET thread: what it answered, until its next GET
    day             \* the clock

graphVars == <<nodes, edges, lastSeen, counts>>
vars == <<graphVars, nextId, origin, worker, viewer, response, day>>

Link     == {{a, b} : a, b \in Node}
Incident == 1..MaxIncident
Seeded   == "seed"

IdleWorker == [pc |-> "idle", id |-> 0, reports |-> <<>>, i |-> 0, j |-> 0]
IdleViewer == [pc |-> "idle", startNodes |-> {}, startEdges |-> {}, visited |-> {},
               picked |-> {}, cleared |-> {}]
NoResponse == [status |-> "none", links |-> {}, count |-> [l \in {} |-> 0], cleared |-> {}]

-----------------------------------------------------------------------------
(***************************************************************************)
(* record_incident(reports, incident_id), statement by statement.          *)
(***************************************************************************)
Key(w)     == worker[w].reports[worker[w].i]
PairOf(w)  == {worker[w].reports[worker[w].i], worker[w].reports[worker[w].j]}
Goto(w, l) == worker' = [worker EXCEPT ![w].pc = l]

\* A POST whose analysis surfaced a flag: record_detection passes no incident
\* id, so every delivery of a submission gets a fresh one.
Deliver(w, s) ==
    /\ worker[w].pc = "idle"
    /\ nextId \in Incident
    /\ worker' = [worker EXCEPT ![w] = [pc |-> "check", id |-> nextId,
                                        reports |-> ReportsOf[s], i |-> 1, j |-> 0]]
    /\ origin' = [origin EXCEPT ![nextId] = s]
    /\ nextId' = nextId + 1
    /\ UNCHANGED <<graphVars, viewer, response, day>>

\* "if key not in self.graph"
CheckNode(w) ==
    /\ worker[w].pc = "check"
    /\ Goto(w, IF Key(w) \in nodes THEN "touch" ELSE "add")
    /\ UNCHANGED <<graphVars, nextId, origin, viewer, response, day>>

\* add_node also updates a node another thread has just added: the attributes
\* start over, of which last_seen matters here.
AddNode(w) ==
    /\ worker[w].pc = "add"
    /\ nodes' = nodes \cup {Key(w)}
    /\ lastSeen' = [lastSeen EXCEPT ![Key(w)] = day]
    /\ Goto(w, "touch")
    /\ UNCHANGED <<edges, counts, nextId, origin, viewer, response, day>>

\* Refresh the node, then go to the next report, or to the pairs of them.
TouchNode(w) ==
    /\ worker[w].pc = "touch"
    /\ Key(w) \in nodes
    /\ lastSeen' = [lastSeen EXCEPT ![Key(w)] = day]
    /\ LET r == worker[w].reports
           i == worker[w].i
       IN  worker' = [worker EXCEPT ![w] =
             CASE i < Len(r)               -> [@ EXCEPT !.pc = "check", !.i = i + 1]
               [] i = Len(r) /\ Len(r) > 1 -> [@ EXCEPT !.pc = "count", !.i = 1, !.j = 2]
               [] OTHER                    -> IdleWorker]
    /\ UNCHANGED <<nodes, edges, counts, nextId, origin, viewer, response, day>>

FreshSetWhenUnlinked(l, id) == IF l \in edges THEN counts[l] \cup {id} ELSE {id}

OnlyKnownLinks(l, id) == IF l \in edges THEN counts[l] \cup {id} ELSE counts[l]

Corroborated(l, id) == counts[l] \cup {id}

\* "_incident_counts.setdefault(edge_key, set()).add(incident_id)"
CountPair(w) ==
    /\ worker[w].pc = "count"
    /\ counts' = [counts EXCEPT ![PairOf(w)] = Corroborated(PairOf(w), worker[w].id)]
    /\ Goto(w, "link")
    /\ UNCHANGED <<nodes, edges, lastSeen, nextId, origin, viewer, response, day>>

\* The loops over i < j: the next pair of reports, or the end of the recording.
NextPair(job) ==
    LET n == Len(job.reports)
    IN  CASE job.j < n                  -> [job EXCEPT !.pc = "count", !.j = @ + 1]
          [] job.j = n /\ job.i < n - 1 -> [job EXCEPT !.pc = "count", !.i = @ + 1, !.j = job.i + 2]
          [] OTHER                      -> IdleWorker

\* add_edge, or the refresh of an edge that is there; then the next pair.
LinkPair(w) ==
    /\ worker[w].pc = "link"
    /\ edges' = edges \cup {PairOf(w)}
    /\ worker' = [worker EXCEPT ![w] = NextPair(@)]
    /\ UNCHANGED <<nodes, lastSeen, counts, nextId, origin, viewer, response, day>>

-----------------------------------------------------------------------------
(***************************************************************************)
(* k_anonymized_view and the response built from it.                       *)
(***************************************************************************)
ExposableOneEarly(l) == Cardinality(counts[l]) + 1 >= Floor

ExposableOneLate(l) == Cardinality(counts[l]) > Floor

IsLinkExposable(l) == Cardinality(counts[l]) >= Floor

\* The iteration over graph.edges() starts.  "cleared" is history: the links
\* that had reached the floor at this moment.
ViewStart(v) ==
    /\ viewer[v].pc = "idle"
    /\ viewer' = [viewer EXCEPT ![v] =
         [pc |-> "iterate", startNodes |-> nodes, startEdges |-> edges, visited |-> {},
          picked |-> {}, cleared |-> {l \in edges : Cardinality(counts[l]) >= Floor}]]
    /\ response' = [response EXCEPT ![v] = NoResponse]
    /\ UNCHANGED <<graphVars, nextId, origin, worker, day>>

VisitEdge(view, l) ==
    [view EXCEPT !.visited = @ \cup {l},
                 !.picked  = @ \cup {x \in {l} : IsLinkExposable(x)}]

\* One edge goes through the gate.  An edge added meanwhile may be met or not.
ViewEdge(v) ==
    /\ viewer[v].pc = "iterate"
    /\ \E l \in edges \ viewer[v].visited :
          viewer' = [viewer EXCEPT ![v] = VisitEdge(@, l)]
    /\ UNCHANGED <<graphVars, nextId, origin, worker, response, day>>

\* A dictionary that grew under the iteration: RuntimeError, and the GET ends
\* in an error.  A new node always has this effect before the iteration ends
\* (ViewBuilt), a new edge only if it joins the row being read.
ViewFails(v) ==
    /\ viewer[v].pc = "iterate"
    /\ nodes # viewer[v].startNodes \/ edges # viewer[v].startEdges
    /\ viewer' = [viewer EXCEPT ![v] = IdleViewer]
    /\ response' = [response EXCEPT ![v] = [NoResponse EXCEPT !.status = "error"]]
    /\ UNCHANGED <<graphVars, nextId, origin, worker, day>>

\* The iteration is over: the view holds the picked edges, and the attributes
\* of their ends are copied from the graph.
ViewBuilt(v) ==
    /\ viewer[v].pc = "iterate"
    /\ viewer[v].startEdges \subseteq viewer[v].visited
    /\ nodes = viewer[v].startNodes
    /\ UNION viewer[v].picked \subseteq nodes
    /\ viewer' = [viewer EXCEPT ![v].pc = "respond"]
    /\ UNCHANGED <<graphVars, nextId, origin, worker, response, day>>

\* The response carries each edge of the view with its count read now.
ViewRespond(v) ==
    /\ viewer[v].pc = "respond"
    /\ response' = [response EXCEPT ![v] =
         [status |-> "ok", links |-> viewer[v].picked,
          count |-> [l \in viewer[v].picked |-> Cardinality(counts[l])],
          cleared |-> viewer[v].cleared]]
    /\ viewer' = [viewer EXCEPT ![v] = IdleViewer]
    /\ UNCHANGED <<graphVars, nextId, origin, worker, day>>

-----------------------------------------------------------------------------
(***************************************************************************)
(* prune_isolated_nodes has no caller in the backend: it is modelled       *)
(* between requests, as its tests call it.  Days pass between requests.    *)
(***************************************************************************)
Quiet ==
    /\ \A w \in Worker : worker[w].pc = "idle"
    /\ \A v \in Viewer : viewer[v].pc = "idle"

AnyOld == {n \in nodes : day - lastSeen[n] >= PruneDays}

Prunable == {n \in nodes : /\ \A l \in edges : n \notin l
                           /\ day - lastSeen[n] >= PruneDays}

\* Removing a node removes its attributes and any edge it has.
PruneIsolatedNodes ==
    /\ Quiet
    /\ nodes' = nodes \ Prunable
    /\ edges' = {l \in edges : l \cap Prunable = {}}
    /\ UNCHANGED <<lastSeen, counts, nextId, origin, worker, viewer, response, day>>

NextDay ==
    /\ Quiet /\ day < MaxDay
    /\ day' = day + 1
    /\ UNCHANGED <<graphVars, nextId, origin, worker, viewer, response>>

-----------------------------------------------------------------------------
SeedNodes == {SeedReports[1], SeedReports[2]}

\* The graph as the process starts, with or without seed_demo_campaign.
Init ==
    /\ \E seeded \in BOOLEAN :
          LET ids == IF seeded THEN 1..SeedCount ELSE {}
          IN  /\ nodes = IF ids # {} THEN SeedNodes ELSE {}
              /\ edges = IF ids # {} THEN {SeedNodes} ELSE {}
              /\ counts = [l \in Link |-> IF l = SeedNodes THEN ids ELSE {}]
              /\ nextId = IF seeded THEN SeedCount + 1 ELSE 1
    /\ lastSeen = [n \in Node |-> 0]
    /\ origin = [k \in Incident |-> Seeded]
    /\ worker = [w \in Worker |-> IdleWorker]
    /\ viewer = [v \in Viewer |-> IdleViewer]
    /\ response = [v \in Viewer |-> NoResponse]
    /\ day = 0

Next ==
    \/ \E w \in Worker :
          \/ \E s \in Submission : Deliver(w, s)
          \/ CheckNode(w) \/ AddNode(w) \/ TouchNode(w)
          \/ CountPair(w) \/ LinkPair(w)
    \/ \E v \in Viewer :
          \/ ViewStart(v) \/ ViewEdge(v) \/ ViewFails(v)
          \/ ViewBuilt(v) \/ ViewRespond(v)
    \/ PruneIsolatedNodes
    \/ NextDay

Spec == Init /\ [][Next]_vars

-----------------------------------------------------------------------------
(***************************************************************************)
(* Properties.                                                             *)
(***************************************************************************)
\* The k-anonymity gate (lines 84-88 and 116-130) under concurrent writes: a
\* served link had reached the floor when it passed the gate, and still has
\* when its count is read for the response.
ServedAboveFloor ==
    \A v \in Viewer : \A l \in response[v].links :
        /\ response[v].count[l] >= Floor
        /\ response[v].count[l] <= Cardinality(counts[l])

\* The gate hides nothing it should show: a GET that succeeds, whatever was
\* written during its iteration, serves every link that had reached the floor
\* when it began.
ServedComplete ==
    \A v \in Viewer : response[v].status = "ok" => response[v].cleared \subseteq response[v].links

\* No statement meets a missing entry (a KeyError) or an edge without a count:
\* a node is there when graph.nodes[key] is read or updated, and an edge is
\* counted before it becomes visible (lines 61-76, 127-129).
EntriesExistWhenUsed ==
    /\ \A w \in Worker : worker[w].pc = "touch" => Key(w) \in nodes
    /\ \A v \in Viewer : UNION viewer[v].picked \subseteq nodes
    /\ \A l \in edges : counts[l] # {} /\ l \subseteq nodes

\* An incident whose recording is over is counted on every pair of its
\* patterns, and each of these links is in the graph: concurrent recordings of
\* the same link lose no corroboration, and pruning never takes a link away
\* (lines 68-76, 108-114, 132-137).
PairsOf(r) == {l \in Link : \E i, j \in 1..Len(r) : i < j /\ l = {r[i], r[j]}}

InFlight(id) == \E w \in Worker : worker[w].pc # "idle" /\ worker[w].id = id

EveryIncidentCounted ==
    \A id \in 1..(nextId - 1) : origin[id] # Seeded /\ ~InFlight(id) =>
        \A l \in PairsOf(ReportsOf[origin[id]]) : id \in counts[l] /\ l \in edges

==============================================================================
