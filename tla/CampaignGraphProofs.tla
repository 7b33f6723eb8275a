------------------------- MODULE CampaignGraphProofs -------------------------
(***************************************************************************)
(* The k-anonymity gate and the corroboration counts of CampaignGraph for  *)
(* any submissions, floor, and number of request threads.                  *)
(*                                                                         *)
(* The graph only grows while a request is under way (pruning waits for    *)
(* all of them), so what a thread has established about it stays true.     *)
(* The invariant says what that is: which nodes and which pairs a worker   *)
(* has put in, and which links a viewer has let through or still owes.     *)
(***************************************************************************)
EXTENDS CampaignGraph, FiniteSetTheorems, TLAPS

Job == [pc : {"idle", "check", "add", "touch", "count", "link"}, id : Nat,
        reports : Seq(Node), i : Nat, j : Nat]

View == [pc : {"idle", "iterate", "respond"}, startNodes : SUBSET Node,
         startEdges : SUBSET Link, visited : SUBSET Link, picked : SUBSET Link,
         cleared : SUBSET Link]

Response == UNION {[status : {"none", "ok", "error"}, links : {L}, count : [L -> Nat],
                    cleared : SUBSET Link] : L \in SUBSET Link}

TypeOK ==
    /\ nodes \subseteq Node
    /\ edges \subseteq Link
    /\ counts \in [Link -> SUBSET Incident]
    /\ nextId \in 1..(MaxIncident + 1)
    /\ origin \in [Incident -> Submission \cup {Seeded}]
    /\ worker \in [Worker -> Job]
    /\ viewer \in [Viewer -> View]
    /\ response \in [Viewer -> Response]

\* An edge has been counted, and joins nodes of the graph.
EdgesReal == \A l \in edges : counts[l] # {} /\ l \subseteq nodes

\* A recording under way is of the submission its incident came from.
JobTraced(w) ==
    worker[w].pc # "idle" =>
        /\ worker[w].id \in 1..(nextId - 1)
        /\ origin[worker[w].id] \in Submission
        /\ worker[w].reports = ReportsOf[origin[worker[w].id]]

\* The nodes a worker has been through are in the graph.
JobKnown(w) ==
    LET r == worker[w].reports
        i == worker[w].i
    IN  /\ worker[w].pc \in {"check", "add", "touch"} =>
            /\ i \in 1..Len(r)
            /\ \A k \in 1..Len(r) : k < i => r[k] \in nodes
        /\ worker[w].pc = "touch" => r[i] \in nodes
        /\ worker[w].pc \in {"count", "link"} =>
            \A k \in 1..Len(r) : r[k] \in nodes

Recorded(id, l) == id \in counts[l] /\ l \in edges

\* Every pair before the one a worker is at has been counted and linked.
JobCounted(w) ==
    LET r == worker[w].reports
        i == worker[w].i
        j == worker[w].j
    IN  /\ worker[w].pc \in {"count", "link"} =>
            /\ i \in 1..Len(r) /\ j \in 1..Len(r) /\ i < j
            /\ \A a, b \in 1..Len(r) :
                  a < b /\ (a < i \/ (a = i /\ b < j)) => Recorded(worker[w].id, {r[a], r[b]})
        /\ worker[w].pc = "link" => worker[w].id \in counts[{r[i], r[j]}]

\* What passed the gate is an edge at or above the floor; what was above it at
\* the start of the iteration has passed, or has not been visited yet.
ViewSound(v) ==
    /\ viewer[v].pc = "idle" => viewer[v].picked = {}
    /\ \A l \in viewer[v].picked : l \in edges /\ Cardinality(counts[l]) >= Floor
    /\ \A l \in viewer[v].cleared : Cardinality(counts[l]) >= Floor
    /\ viewer[v].cleared \subseteq viewer[v].startEdges
    /\ viewer[v].cleared \cap viewer[v].visited \subseteq viewer[v].picked
    /\ viewer[v].pc = "respond" => viewer[v].cleared \subseteq viewer[v].picked

JobSound(w) == JobTraced(w) /\ JobKnown(w) /\ JobCounted(w)

IInv ==
    /\ TypeOK /\ EdgesReal
    /\ \A w \in Worker : JobSound(w)
    /\ \A v \in Viewer : ViewSound(v)
    /\ ServedAboveFloor /\ ServedComplete /\ EveryIncidentCounted

-----------------------------------------------------------------------------
\* While requests are under way the graph only grows.
Grows ==
    /\ nodes \subseteq nodes' /\ edges \subseteq edges'
    /\ \A l \in Link : counts[l] \subseteq counts'[l]

\* The count of a link is a number, and never falls when its set grows.
LEMMA CountFacts ==
    ASSUME TypeOK
    PROVE  \A l \in Link : IsFiniteSet(counts[l]) /\ Cardinality(counts[l]) \in Nat
<1>1. IsFiniteSet(Incident)
  BY GraphAssumption, FS_Interval DEF GraphAssumption, Incident
<1>2. \A l \in Link : counts[l] \in SUBSET Incident
  BY DEF TypeOK
<1> QED
  BY <1>1, <1>2, FS_Subset, FS_CardinalityType

LEMMA CountsGrow ==
    ASSUME TypeOK, TypeOK', Grows
    PROVE  \A l \in Link : /\ Cardinality(counts[l]) \in Nat
                           /\ Cardinality(counts'[l]) \in Nat
                           /\ Cardinality(counts[l]) <= Cardinality(counts'[l])
<1>1. \A l \in Link : IsFiniteSet(counts[l]) /\ Cardinality(counts[l]) \in Nat
  BY CountFacts
<1>2. IsFiniteSet(Incident)
  BY GraphAssumption, FS_Interval DEF GraphAssumption, Incident
<1>3. \A l \in Link : counts'[l] \in SUBSET Incident
  BY DEF TypeOK
<1>4. \A l \in Link : IsFiniteSet(counts'[l]) /\ Cardinality(counts'[l]) \in Nat
  BY <1>2, <1>3, FS_Subset, FS_CardinalityType
<1> QED
  BY <1>1, <1>4, FS_Subset DEF Grows

\* Two keys of a sequence of reports make a link.
LEMMA PairFacts ==
    ASSUME NEW r \in Seq(Node)
    PROVE  /\ \A a \in 1..Len(r) : r[a] \in Node
           /\ \A a, b \in 1..Len(r) : {r[a], r[b]} \in Link
<1>1. \A a \in 1..Len(r) : r[a] \in Node
  OBVIOUS
<1>2. \A m, n \in Node : {m, n} \in Link
  BY DEF Link
<1> QED
  BY <1>1, <1>2

\* A worker that does not move keeps what it has established.
LEMMA JobKept ==
    ASSUME TypeOK, TypeOK', Grows, NEW w \in Worker, JobSound(w),
           worker'[w] = worker[w], nextId <= nextId',
           \A k \in 1..(nextId - 1) : origin'[k] = origin[k]
    PROVE  JobSound(w)'
<1>1. JobTraced(w)'
  BY DEF JobSound, JobTraced, TypeOK
<1>2. JobKnown(w)'
  BY DEF JobSound, JobKnown, Grows
<1>3. \A a, b \in 1..Len(worker[w].reports) :
         {worker[w].reports[a], worker[w].reports[b]} \in Link
  BY PairFacts DEF TypeOK, Job
<1>4. JobCounted(w)'
  BY <1>3 DEF JobSound, JobCounted, Recorded, Grows
<1> QED
  BY <1>1, <1>2, <1>4 DEF JobSound

\* A viewer that does not move keeps what it has established.
LEMMA ViewKept ==
    ASSUME TypeOK, TypeOK', Grows, NEW v \in Viewer, ViewSound(v), viewer'[v] = viewer[v]
    PROVE  ViewSound(v)'
<1>1. viewer[v].picked \subseteq Link /\ viewer[v].cleared \subseteq Link
  BY DEF TypeOK, View
<1>2. Floor \in Nat
  BY GraphAssumption DEF GraphAssumption
<1> QED
  BY <1>1, <1>2, CountsGrow DEF ViewSound, Grows

\* An answer that was given stays an answer above the floor.
LEMMA ServedKept ==
    ASSUME TypeOK, TypeOK', Grows, NEW v \in Viewer, response'[v] = response[v],
           NEW l \in response[v].links,
           response[v].count[l] >= Floor, response[v].count[l] <= Cardinality(counts[l]),
           response[v].count[l] \in Nat
    PROVE  response'[v].count[l] >= Floor /\ response'[v].count[l] <= Cardinality(counts'[l])
<1>1. l \in Link
  BY DEF TypeOK, Response
<1> QED
  BY <1>1, CountsGrow

-----------------------------------------------------------------------------
\* What a step of a worker has to show: the graph grows, its edges are real,
\* the worker is sound, and has recorded every pair when it ends.
LEMMA WorkerStep ==
    ASSUME IInv, TypeOK', Grows, EdgesReal', NEW w \in Worker, JobSound(w)',
           \A x \in Worker \ {w} : worker'[x] = worker[x],
           nextId' = nextId, origin' = origin, viewer' = viewer, response' = response,
           worker[w].pc # "idle",
           worker'[w].pc # "idle" => worker'[w].id = worker[w].id,
           worker'[w].pc = "idle" =>
               \A l \in PairsOf(worker[w].reports) :
                  worker[w].id \in counts'[l] /\ l \in edges'
    PROVE  IInv'
<1>1. \A x \in Worker : JobSound(x)'
  BY JobKept DEF IInv, TypeOK
<1>2. \A v \in Viewer : ViewSound(v)'
  BY ViewKept DEF IInv
<1>3. ServedAboveFloor'
  <2> SUFFICES ASSUME NEW v \in Viewer, NEW l \in response[v].links
               PROVE  /\ response[v].count[l] >= Floor
                      /\ response[v].count[l] <= Cardinality(counts'[l])
    BY DEF ServedAboveFloor
  <2>1. response[v].count[l] \in Nat
    BY DEF IInv, TypeOK, Response
  <2> QED
    BY <2>1, ServedKept DEF IInv, ServedAboveFloor
<1>4. ServedComplete'
  BY DEF IInv, ServedComplete
<1>5. EveryIncidentCounted'
  <2> SUFFICES ASSUME NEW k \in 1..(nextId - 1), origin[k] # Seeded, ~InFlight(k)',
                      NEW l \in PairsOf(ReportsOf[origin[k]])
               PROVE  Recorded(k, l)'
    BY DEF EveryIncidentCounted, Recorded
  <2>1. CASE InFlight(k)
    <3>1. PICK x \in Worker : worker[x].pc # "idle" /\ worker[x].id = k
      BY <2>1 DEF InFlight
    <3>2. x = w /\ worker'[w].pc = "idle"
      BY <3>1 DEF InFlight
    <3>3. worker[w].reports = ReportsOf[origin[k]]
      BY <3>1, <3>2 DEF IInv, JobSound, JobTraced
    <3> QED
      BY <3>1, <3>2, <3>3 DEF Recorded
  <2>2. CASE ~InFlight(k)
    <3>1. Recorded(k, l)
      BY <2>2 DEF IInv, EveryIncidentCounted, Recorded
    <3>2. l \in Link
      BY DEF PairsOf
    <3> QED
      BY <3>1, <3>2 DEF Recorded, Grows
  <2> QED
    BY <2>1, <2>2
<1> QED
  BY <1>1, <1>2, <1>3, <1>4, <1>5 DEF IInv

\* What a step of a viewer has to show: it is sound, and so is its answer.
LEMMA ViewerStep ==
    ASSUME IInv, TypeOK', NEW v \in Viewer, ViewSound(v)',
           \A x \in Viewer \ {v} : viewer'[x] = viewer[x] /\ response'[x] = response[x],
           UNCHANGED <<nodes, edges, counts, nextId, origin, worker>>,
           \A l \in response'[v].links : /\ response'[v].count[l] >= Floor
                                         /\ response'[v].count[l] <= Cardinality(counts[l]),
           response'[v].status = "ok" => response'[v].cleared \subseteq response'[v].links
    PROVE  IInv'
<1> USE DEF IInv
<1>1. EdgesReal'
  BY DEF EdgesReal
<1>2. \A w \in Worker : JobSound(w)'
  BY DEF JobSound, JobTraced, JobKnown, JobCounted, Recorded
<1>3. \A x \in Viewer : ViewSound(x)'
  BY DEF ViewSound
<1>4. ServedAboveFloor'
  BY DEF ServedAboveFloor
<1>5. ServedComplete'
  BY DEF ServedComplete
<1>6. EveryIncidentCounted'
  BY DEF EveryIncidentCounted, InFlight
<1> QED
  BY <1>1, <1>2, <1>3, <1>4, <1>5, <1>6

-----------------------------------------------------------------------------
\* The statements of record_incident.
LEMMA DeliverStep ==
    ASSUME IInv, NEW w \in Worker, NEW s \in Submission, Deliver(w, s)
    PROVE  IInv'
<1> USE DEF IInv, Deliver, graphVars
<1>0. MaxIncident \in Nat /\ nextId \in 1..MaxIncident
  BY GraphAssumption DEF GraphAssumption, Incident
<1>1. ReportsOf[s] \in Seq(Node) /\ 1 \in 1..Len(ReportsOf[s])
  BY GraphAssumption DEF GraphAssumption
<1>2. TypeOK'
  <2>1. worker' \in [Worker -> Job]
    BY <1>0, <1>1 DEF TypeOK, Job
  <2>2. origin' \in [Incident -> Submission \cup {Seeded}]
    BY DEF TypeOK
  <2>3. nextId' \in 1..(MaxIncident + 1)
    BY <1>0
  <2> QED
    BY <2>1, <2>2, <2>3 DEF TypeOK
<1>3. Grows
  BY DEF Grows
<1>4. nextId \in Incident /\ nextId' = nextId + 1
      /\ \A k \in 1..(nextId - 1) : k \in Incident /\ origin'[k] = origin[k]
  BY <1>0 DEF TypeOK, Incident
<1>5. JobSound(w)'
  BY <1>1, <1>4 DEF TypeOK, JobSound, JobTraced, JobKnown, JobCounted
<1>6. \A x \in Worker : JobSound(x)'
  <2> SUFFICES ASSUME NEW x \in Worker, x # w
               PROVE  JobSound(x)'
    BY <1>5
  <2>1. worker'[x] = worker[x]
    BY DEF TypeOK
  <2> QED
    BY <1>2, <1>3, <1>4, <2>1, JobKept DEF TypeOK
<1>7. \A v \in Viewer : ViewSound(v)'
  BY <1>2, <1>3, ViewKept
<1>8. EveryIncidentCounted'
  <2> SUFFICES ASSUME NEW k \in 1..nextId, origin'[k] # Seeded, ~InFlight(k)'
               PROVE  \A l \in PairsOf(ReportsOf[origin'[k]]) : Recorded(k, l)
    BY <1>0, <1>4 DEF EveryIncidentCounted, Recorded
  <2>1. worker'[w].pc # "idle" /\ worker'[w].id = nextId
    BY DEF TypeOK
  <2>2. k # nextId
    BY <2>1 DEF InFlight
  <2>3. k \in 1..(nextId - 1)
    BY <1>0, <2>2
  <2>4. ~InFlight(k)
    <3>1. \A x \in Worker : worker[x].pc # "idle" => worker'[x] = worker[x]
      BY DEF TypeOK
    <3> QED
      BY <3>1 DEF InFlight
  <2> QED
    BY <1>4, <2>3, <2>4 DEF EveryIncidentCounted, Recorded
<1> QED
  BY <1>2, <1>6, <1>7, <1>8 DEF EdgesReal, ServedAboveFloor, ServedComplete

LEMMA CheckNodeStep ==
    ASSUME IInv, NEW w \in Worker, CheckNode(w)
    PROVE  IInv'
<1> USE DEF CheckNode, Goto, graphVars
<1>1. TypeOK'
  <2>1. worker \in [Worker -> Job]
    BY DEF IInv, TypeOK
  <2>2. PICK l \in {"touch", "add"} : worker' = [worker EXCEPT ![w].pc = l]
    OBVIOUS
  <2>3. [worker[w] EXCEPT !.pc = l] \in Job
    BY <2>1 DEF Job
  <2>4. worker' \in [Worker -> Job]
    BY <2>1, <2>2, <2>3
  <2> QED
    BY <2>4 DEF IInv, TypeOK
<1>2. Grows /\ EdgesReal'
  BY DEF IInv, Grows, EdgesReal
<1>3. \E l \in {"touch", "add"} : /\ worker' = [worker EXCEPT ![w].pc = l]
                                 /\ l = "touch" => Key(w) \in nodes
  OBVIOUS
<1>4. /\ \A x \in Worker \ {w} : worker'[x] = worker[x]
      /\ \E l \in {"touch", "add"} : /\ worker'[w] = [worker[w] EXCEPT !.pc = l]
                                    /\ l = "touch" => Key(w) \in nodes
  BY <1>3 DEF IInv, TypeOK
<1>5. /\ worker[w] \in Job /\ worker'[w].pc \in {"touch", "add"}
      /\ worker'[w].id = worker[w].id /\ worker'[w].reports = worker[w].reports
      /\ worker'[w].i = worker[w].i
      /\ worker'[w].pc = "touch" => Key(w) \in nodes
  BY <1>4 DEF IInv, TypeOK, Job
<1>6. JobTraced(w)'
  BY <1>5 DEF IInv, JobSound, JobTraced
<1>7. JobKnown(w)'
  BY <1>5 DEF IInv, JobSound, JobKnown, Key
<1>8. JobCounted(w)'
  BY <1>5 DEF JobCounted
<1> QED
  BY <1>1, <1>2, <1>4, <1>5, <1>6, <1>7, <1>8, WorkerStep DEF JobSound

LEMMA AddNodeStep ==
    ASSUME IInv, NEW w \in Worker, AddNode(w)
    PROVE  IInv'
<1> USE DEF AddNode, Goto
<1>1. Key(w) \in Node
  BY DEF IInv, TypeOK, Job, JobSound, JobKnown, Key
<1>2. TypeOK'
  BY <1>1 DEF IInv, TypeOK, Job
<1>3. Grows /\ EdgesReal'
  BY DEF IInv, Grows, EdgesReal
<1>4. worker'[w] = [worker[w] EXCEPT !.pc = "touch"]
  BY DEF IInv, TypeOK, Job
<1>5. nodes \subseteq nodes' /\ Key(w) \in nodes'
  OBVIOUS
<1>6. JobTraced(w)'
  BY <1>4 DEF IInv, TypeOK, Job, JobSound, JobTraced
<1>7. JobKnown(w)'
  BY <1>4, <1>5 DEF IInv, TypeOK, Job, JobSound, JobKnown, Key
<1>8. JobCounted(w)'
  BY <1>4 DEF IInv, TypeOK, Job, JobCounted
<1>9. JobSound(w)'
  BY <1>6, <1>7, <1>8 DEF JobSound
<1> QED
  BY <1>2, <1>3, <1>4, <1>9, <1>5, WorkerStep DEF IInv, TypeOK, Job

LEMMA TouchNodeStep ==
    ASSUME IInv, NEW w \in Worker, TouchNode(w)
    PROVE  IInv'
<1> DEFINE job == worker[w]
           r   == job.reports
<1>1. /\ job \in Job /\ job.pc = "touch" /\ r \in Seq(Node) /\ job.i \in 1..Len(r)
      /\ \A k \in 1..Len(r) : k <= job.i => r[k] \in nodes
  BY DEF IInv, TypeOK, Job, JobSound, JobKnown, TouchNode
<1>2. /\ \A x \in Worker \ {w} : worker'[x] = worker[x]
      /\ worker' = [worker EXCEPT ![w] = worker'[w]]
      /\ nodes' = nodes /\ edges' = edges /\ counts' = counts
      /\ nextId' = nextId /\ origin' = origin /\ viewer' = viewer /\ response' = response
  BY DEF IInv, TypeOK, TouchNode
<1>3. \/ job.i < Len(r) /\ worker'[w] = [job EXCEPT !.pc = "check", !.i = job.i + 1]
      \/ /\ job.i = Len(r) /\ Len(r) > 1
         /\ worker'[w] = [job EXCEPT !.pc = "count", !.i = 1, !.j = 2]
      \/ Len(r) = 1 /\ worker'[w] = IdleWorker
  <2>1. worker'[w] = CASE job.i < Len(r) -> [job EXCEPT !.pc = "check", !.i = job.i + 1]
                       [] job.i = Len(r) /\ Len(r) > 1 ->
                            [job EXCEPT !.pc = "count", !.i = 1, !.j = 2]
                       [] OTHER -> IdleWorker
    BY DEF IInv, TypeOK, TouchNode
  <2>2. Len(r) \in Nat /\ job.i \in Nat
    BY <1>1
  <2>3. CASE job.i < Len(r)
    BY <2>1, <2>2, <2>3
  <2>4. CASE job.i = Len(r) /\ Len(r) > 1
    BY <2>1, <2>2, <2>4
  <2>5. CASE ~(job.i < Len(r)) /\ ~(job.i = Len(r) /\ Len(r) > 1)
    <3>1. Len(r) = 1
      <4>1. 1 <= job.i /\ job.i <= Len(r)
        BY <1>1, <2>2
      <4>2. \A x, y \in Nat :
               1 <= x /\ x <= y /\ ~(x < y) /\ ~(x = y /\ y > 1) => y = 1
        OBVIOUS
      <4> QED
        BY <2>2, <2>5, <4>1, <4>2
    <3>2. worker'[w] = IdleWorker
      BY <2>1, <2>5
    <3> QED
      BY <3>1, <3>2
  <2> QED
    BY <2>3, <2>4, <2>5
<1>4. Grows /\ EdgesReal'
  BY <1>2 DEF IInv, Grows, EdgesReal
<1>5. JobTraced(w)
  BY DEF IInv, JobSound
<1>6. CASE job.i < Len(r) /\ worker'[w] = [job EXCEPT !.pc = "check", !.i = job.i + 1]
  <2>1. /\ worker'[w] \in Job /\ worker'[w].pc = "check" /\ worker'[w].id = job.id
        /\ worker'[w].reports = r /\ worker'[w].i = job.i + 1
    <3>1. job \in Job /\ job.i + 1 \in Nat
      BY <1>1 DEF Job
    <3> QED
      BY <3>1, <1>6 DEF Job
  <2>2. TypeOK'
    BY <1>2, <2>1 DEF IInv, TypeOK
  <2>3. JobSound(w)'
    BY <1>1, <1>2, <1>5, <2>1, <1>6 DEF JobSound, JobTraced, JobKnown, JobCounted
  <2> QED
    BY <1>1, <1>2, <1>4, <2>1, <2>2, <2>3, WorkerStep
<1>7. CASE /\ job.i = Len(r) /\ Len(r) > 1
           /\ worker'[w] = [job EXCEPT !.pc = "count", !.i = 1, !.j = 2]
  <2>1. /\ worker'[w] \in Job /\ worker'[w].pc = "count" /\ worker'[w].id = job.id
        /\ worker'[w].reports = r /\ worker'[w].i = 1 /\ worker'[w].j = 2
    <3>1. job \in Job /\ 1 \in Nat /\ 2 \in Nat
      BY <1>1
    <3>2. worker'[w] = [job EXCEPT !.pc = "count", !.i = 1, !.j = 2]
      BY <1>7
    <3>3. worker'[w] \in Job
      BY <3>1, <3>2 DEF Job
    <3> QED
      BY <3>1, <3>2, <3>3 DEF Job
  <2>2. TypeOK'
    BY <1>2, <2>1 DEF IInv, TypeOK
  <2>3. JobSound(w)'
    BY <1>1, <1>2, <1>5, <2>1, <1>7 DEF JobSound, JobTraced, JobKnown, JobCounted
  <2> QED
    BY <1>1, <1>2, <1>4, <2>1, <2>2, <2>3, WorkerStep
<1>8. CASE Len(r) = 1 /\ worker'[w] = IdleWorker
  <2>1. worker'[w] \in Job /\ worker'[w].pc = "idle"
    BY <1>8 DEF Job, IdleWorker
  <2>2. TypeOK'
    BY <1>2, <2>1 DEF IInv, TypeOK
  <2>3. JobSound(w)'
    BY <2>1 DEF JobSound, JobTraced, JobKnown, JobCounted
  <2>4. PairsOf(r) = {}
    BY <1>8 DEF PairsOf
  <2> QED
    BY <1>1, <1>2, <1>4, <2>1, <2>2, <2>3, <2>4, WorkerStep
<1> QED
  BY <1>3, <1>6, <1>7, <1>8

LEMMA CountPairStep ==
    ASSUME IInv, NEW w \in Worker, CountPair(w)
    PROVE  IInv'
<1> DEFINE job == worker[w]
<1>1. /\ job \in Job /\ job.pc = "count" /\ job.reports \in Seq(Node)
      /\ job.i \in 1..Len(job.reports) /\ job.j \in 1..Len(job.reports)
  BY DEF IInv, TypeOK, Job, JobSound, JobCounted, CountPair
<1>2. PairOf(w) \in Link /\ PairOf(w) = {job.reports[job.i], job.reports[job.j]}
  BY <1>1, PairFacts DEF PairOf
<1>3. job.id \in Incident
  BY <1>1, GraphAssumption
     DEF IInv, TypeOK, JobSound, JobTraced, Incident, GraphAssumption
<1>4. /\ \A x \in Worker \ {w} : worker'[x] = worker[x]
      /\ worker'[w] = [job EXCEPT !.pc = "link"]
      /\ counts' = [counts EXCEPT ![PairOf(w)] = counts[PairOf(w)] \cup {job.id}]
  BY DEF IInv, TypeOK, CountPair, Goto, Corroborated
<1>5. TypeOK'
  <2>1. worker' \in [Worker -> Job]
    BY DEF IInv, TypeOK, Job, CountPair, Goto
  <2>2. counts' \in [Link -> SUBSET Incident]
    BY <1>2, <1>3, <1>4 DEF IInv, TypeOK
  <2> QED
    BY <2>1, <2>2 DEF IInv, TypeOK, CountPair
<1>6. Grows /\ job.id \in counts'[PairOf(w)]
  BY <1>2, <1>4 DEF IInv, TypeOK, CountPair, Grows
<1>7. EdgesReal'
  BY <1>6 DEF IInv, TypeOK, EdgesReal, Grows, CountPair
<1>8. /\ worker'[w].pc = "link" /\ worker'[w].id = job.id /\ worker'[w].reports = job.reports
      /\ worker'[w].i = job.i /\ worker'[w].j = job.j
  BY <1>1, <1>4 DEF Job
<1>9. JobTraced(w)' /\ JobKnown(w)'
  BY <1>1, <1>8 DEF IInv, JobSound, JobTraced, JobKnown, CountPair
<1>10. JobCounted(w)'
  <2>1. \A a, b \in 1..Len(job.reports) : {job.reports[a], job.reports[b]} \in Link
    BY <1>1, PairFacts
  <2> QED
    BY <1>1, <1>2, <1>6, <1>8, <2>1 DEF IInv, JobSound, JobCounted, Recorded, Grows
<1> QED
  BY <1>1, <1>4, <1>5, <1>6, <1>7, <1>8, <1>9, <1>10, WorkerStep DEF JobSound, CountPair

LEMMA LinkPairStep ==
    ASSUME IInv, NEW w \in Worker, LinkPair(w)
    PROVE  IInv'
<1> DEFINE job == worker[w]
           r   == job.reports
           n   == Len(r)
<1>1. /\ job \in Job /\ job.pc = "link" /\ r \in Seq(Node) /\ n \in Nat
      /\ job.i \in 1..n /\ job.j \in 1..n /\ job.i < job.j
      /\ \A a, b \in 1..n : a < b /\ (a < job.i \/ (a = job.i /\ b < job.j))
                               => Recorded(job.id, {r[a], r[b]})
      /\ job.id \in counts[PairOf(w)]
  <2>1. job \in Job /\ job.pc = "link"
    BY DEF IInv, TypeOK, LinkPair
  <2>2. r \in Seq(Node)
    BY <2>1 DEF Job
  <2>3. JobCounted(w)
    BY DEF IInv, JobSound
  <2> QED
    BY <2>1, <2>2, <2>3 DEF JobCounted, PairOf
<1>2. PairOf(w) \in Link /\ PairOf(w) = {r[job.i], r[job.j]}
  BY <1>1, PairFacts DEF PairOf
<1>3. PairOf(w) \subseteq nodes
  BY <1>1, <1>2 DEF IInv, JobSound, JobKnown
<1>4. /\ \A x \in Worker \ {w} : worker'[x] = worker[x]
      /\ worker' = [worker EXCEPT ![w] = worker'[w]]
      /\ worker'[w] = NextPair(job)
      /\ edges' = edges \cup {PairOf(w)}
      /\ nodes' = nodes /\ counts' = counts
      /\ nextId' = nextId /\ origin' = origin /\ viewer' = viewer /\ response' = response
  BY DEF IInv, TypeOK, LinkPair
<1>5. Grows /\ EdgesReal'
  BY <1>1, <1>3, <1>4 DEF IInv, Grows, EdgesReal
<1>6. \A a, b \in 1..n : a < b /\ (a < job.i \/ (a = job.i /\ b <= job.j))
                            => job.id \in counts[{r[a], r[b]}] /\ {r[a], r[b]} \in edges'
  <2> SUFFICES ASSUME NEW a \in 1..n, NEW b \in 1..n, a < b,
                      a < job.i \/ (a = job.i /\ b <= job.j)
               PROVE  job.id \in counts[{r[a], r[b]}] /\ {r[a], r[b]} \in edges'
    OBVIOUS
  <2>1. CASE a = job.i /\ b = job.j
    BY <1>1, <1>2, <1>4, <2>1
  <2>2. CASE a < job.i \/ (a = job.i /\ b < job.j)
    BY <1>1, <1>4, <2>2 DEF Recorded
  <2> QED
    BY <1>1, <2>1, <2>2
<1>7. \/ job.j < n /\ worker'[w] = [job EXCEPT !.pc = "count", !.j = job.j + 1]
      \/ /\ job.j = n /\ job.i < n - 1
         /\ worker'[w] = [job EXCEPT !.pc = "count", !.i = job.i + 1, !.j = job.i + 2]
      \/ job.j = n /\ job.i = n - 1 /\ worker'[w] = IdleWorker
  BY <1>1, <1>4 DEF NextPair
<1>8. CASE worker'[w].pc = "count" /\ worker'[w] \in Job /\ worker'[w].id = job.id
           /\ worker'[w].reports = r /\ worker'[w].i \in 1..n /\ worker'[w].j \in 1..n
           /\ worker'[w].i < worker'[w].j
           /\ \A a, b \in 1..n :
                 a < b /\ (a < worker'[w].i \/ (a = worker'[w].i /\ b < worker'[w].j))
                    => a < job.i \/ (a = job.i /\ b <= job.j)
  <2>1. TypeOK'
    BY <1>2, <1>4, <1>8 DEF IInv, TypeOK
  <2>2. JobTraced(w)' /\ JobKnown(w)'
    BY <1>1, <1>4, <1>8 DEF IInv, JobSound, JobTraced, JobKnown
  <2>3. JobCounted(w)'
    BY <1>4, <1>6, <1>8 DEF JobCounted, Recorded
  <2> QED
    BY <1>1, <1>4, <1>5, <1>8, <2>1, <2>2, <2>3, WorkerStep DEF JobSound
<1>9. CASE job.j = n /\ job.i = n - 1 /\ worker'[w] = IdleWorker
  <2>1. worker'[w] \in Job /\ worker'[w].pc = "idle"
    BY <1>9 DEF Job, IdleWorker
  <2>2. TypeOK'
    BY <1>2, <1>4, <2>1 DEF IInv, TypeOK
  <2>3. JobSound(w)'
    BY <2>1 DEF JobSound, JobTraced, JobKnown, JobCounted
  <2>4. \A l \in PairsOf(r) : job.id \in counts[l] /\ l \in edges'
    <3>1. \A a, b \in 1..n : a < b => a < job.i \/ (a = job.i /\ b <= job.j)
      BY <1>1, <1>9
    <3> SUFFICES ASSUME NEW l \in PairsOf(r)
                 PROVE  job.id \in counts[l] /\ l \in edges'
      OBVIOUS
    <3>2. PICK a, b \in 1..n : a < b /\ l = {r[a], r[b]}
      BY DEF PairsOf
    <3> QED
      BY <1>6, <3>1, <3>2
  <2> QED
    BY <1>1, <1>4, <1>5, <2>1, <2>2, <2>3, <2>4, WorkerStep
<1>10. CASE job.j < n /\ worker'[w] = [job EXCEPT !.pc = "count", !.j = job.j + 1]
  <2>1. /\ worker'[w].pc = "count" /\ worker'[w] \in Job /\ worker'[w].id = job.id
        /\ worker'[w].reports = r /\ worker'[w].i = job.i /\ worker'[w].j = job.j + 1
    <3>1. job \in Job /\ job.j + 1 \in Nat
      BY <1>1 DEF Job
    <3> QED
      BY <3>1, <1>10 DEF Job
  <2> QED
    BY <1>1, <1>10, <2>1, <1>8
<1>11. CASE /\ job.j = n /\ job.i < n - 1
            /\ worker'[w] = [job EXCEPT !.pc = "count", !.i = job.i + 1, !.j = job.i + 2]
  <2>1. /\ worker'[w].pc = "count" /\ worker'[w] \in Job /\ worker'[w].id = job.id
        /\ worker'[w].reports = r /\ worker'[w].i = job.i + 1 /\ worker'[w].j = job.i + 2
    <3>1. job \in Job /\ job.i + 1 \in Nat /\ job.i + 2 \in Nat
      BY <1>1 DEF Job
    <3> QED
      BY <3>1, <1>11 DEF Job
  <2>2. /\ worker'[w].i \in 1..n /\ worker'[w].j \in 1..n /\ worker'[w].i < worker'[w].j
        /\ \A a, b \in 1..n :
             a < b /\ (a < worker'[w].i \/ (a = worker'[w].i /\ b < worker'[w].j))
                => a < job.i \/ (a = job.i /\ b <= job.j)
    <3>1. job.i \in Nat /\ n \in Nat /\ job.j = n /\ 1 <= job.i /\ job.i < n - 1
      BY <1>1, <1>11
    <3>2. job.i + 1 \in 1..n /\ job.i + 2 \in 1..n /\ job.i + 1 < job.i + 2
      <4> HIDE DEF n
      <4> QED
        BY <3>1
    <3>3. ASSUME NEW a \in 1..n, NEW b \in 1..n, a < b,
                 a < job.i + 1 \/ (a = job.i + 1 /\ b < job.i + 2)
          PROVE  a < job.i \/ (a = job.i /\ b <= job.j)
      <4> HIDE DEF n
      <4> QED
        BY <3>1, <3>3
    <3> QED
      BY <2>1, <3>2, <3>3
  <2> QED
    BY <2>1, <2>2, <1>8
<1> QED
  BY <1>7, <1>9, <1>10, <1>11

-----------------------------------------------------------------------------
\* An answer without links, whatever its status.
LEMMA BlankResponses ==
    \A st \in {"none", "ok", "error"} : [NoResponse EXCEPT !.status = st] \in Response
<1> SUFFICES ASSUME NEW st \in {"none", "ok", "error"}
             PROVE  [NoResponse EXCEPT !.status = st] \in Response
  OBVIOUS
<1> DEFINE Blank == [status : {"none", "ok", "error"}, links : {{}}, count : [{} -> Nat],
                     cleared : SUBSET Link]
<1>1. NoResponse \in Blank
  <2>1. [l \in {} |-> 0] \in [{} -> Nat]
    OBVIOUS
  <2> QED
    BY <2>1 DEF NoResponse
<1>2. [NoResponse EXCEPT !.status = st] \in Blank
  BY <1>1
<1>3. {} \in SUBSET Link
  OBVIOUS
<1> QED
  BY <1>2, <1>3 DEF Response

LEMMA NoResponseFacts == NoResponse \in Response
<1>1. [l \in {} |-> 0] \in [{} -> Nat]
  OBVIOUS
<1>2. NoResponse \in [status : {"none", "ok", "error"}, links : {{}}, count : [{} -> Nat],
                      cleared : SUBSET Link]
  BY <1>1 DEF NoResponse
<1>3. {} \in SUBSET Link
  OBVIOUS
<1> QED
  BY <1>2, <1>3 DEF Response

\* The statements of k_anonymized_view and of the response.
LEMMA ViewStartStep ==
    ASSUME IInv, NEW v \in Viewer, ViewStart(v)
    PROVE  IInv'
<1> USE DEF ViewStart, graphVars
<1>1. TypeOK'
  <2>1. viewer' \in [Viewer -> View]
    BY DEF IInv, TypeOK, View
  <2>2. NoResponse \in Response
    BY NoResponseFacts
  <2>3. response' \in [Viewer -> Response]
    BY <2>2 DEF IInv, TypeOK
  <2> QED
    BY <2>1, <2>3 DEF IInv, TypeOK
<1>2. ViewSound(v)'
  BY DEF IInv, TypeOK, ViewSound
<1>3. response'[v] = NoResponse
  BY DEF IInv, TypeOK
<1>4. \A x \in Viewer \ {v} : viewer'[x] = viewer[x] /\ response'[x] = response[x]
  BY DEF IInv, TypeOK
<1> QED
  BY <1>1, <1>2, <1>3, <1>4, ViewerStep DEF NoResponse

LEMMA ViewEdgeStep ==
    ASSUME IInv, NEW v \in Viewer, ViewEdge(v)
    PROVE  IInv'
<1>0. /\ viewer \in [Viewer -> View] /\ viewer[v] \in View /\ edges \subseteq Link
      /\ viewer[v].pc = "iterate"
      /\ UNCHANGED <<nodes, edges, counts, nextId, origin, worker, response>>
  BY DEF IInv, TypeOK, ViewEdge, graphVars
<1>1. PICK l \in edges \ viewer[v].visited : viewer' = [viewer EXCEPT ![v] = VisitEdge(@, l)]
  BY DEF ViewEdge
<1>2. l \in Link
  BY <1>0
<1>3. viewer'[v] = VisitEdge(viewer[v], l)
  BY <1>0, <1>1
<1>4. /\ viewer'[v] \in View /\ viewer'[v].pc = "iterate"
      /\ viewer'[v].startEdges = viewer[v].startEdges
      /\ viewer'[v].cleared = viewer[v].cleared
      /\ viewer'[v].visited = viewer[v].visited \cup {l}
      /\ viewer'[v].picked = viewer[v].picked \cup {x \in {l} : IsLinkExposable(x)}
  <2>1. viewer[v].visited \cup {l} \in SUBSET Link
    BY <1>0, <1>2 DEF View
  <2>2. viewer[v].picked \cup {x \in {l} : IsLinkExposable(x)} \in SUBSET Link
    BY <1>0, <1>2 DEF View
  <2> QED
    BY <1>0, <1>3, <2>1, <2>2 DEF View, VisitEdge
<1>5. TypeOK'
  <2>1. viewer' = [viewer EXCEPT ![v] = viewer'[v]]
    BY <1>0, <1>1
  <2>2. viewer' \in [Viewer -> View]
    BY <1>0, <1>4, <2>1
  <2> QED
    BY <1>0, <2>2 DEF IInv, TypeOK
<1>6. ViewSound(v)'
  BY <1>0, <1>1, <1>4 DEF IInv, ViewSound, IsLinkExposable
<1>7. \A x \in Viewer \ {v} : viewer'[x] = viewer[x]
  BY <1>0, <1>1
<1> QED
  BY <1>0, <1>5, <1>6, <1>7, ViewerStep DEF IInv, ServedAboveFloor, ServedComplete

LEMMA ViewFailsStep ==
    ASSUME IInv, NEW v \in Viewer, ViewFails(v)
    PROVE  IInv'
<1> USE DEF ViewFails, graphVars
<1>1. TypeOK'
  <2>1. IdleViewer \in View
    BY DEF IdleViewer, View
  <2>2. viewer' \in [Viewer -> View]
    BY <2>1 DEF IInv, TypeOK
  <2>3. [NoResponse EXCEPT !.status = "error"] \in Response
    BY BlankResponses
  <2>4. response' \in [Viewer -> Response]
    BY <2>3 DEF IInv, TypeOK
  <2> QED
    BY <2>2, <2>4 DEF IInv, TypeOK
<1>2. viewer'[v] = IdleViewer
  BY DEF IInv, TypeOK
<1>3. ViewSound(v)'
  BY <1>2 DEF ViewSound, IdleViewer
<1>4. response'[v] = [NoResponse EXCEPT !.status = "error"]
  BY DEF IInv, TypeOK
<1>5. \A x \in Viewer \ {v} : viewer'[x] = viewer[x] /\ response'[x] = response[x]
  BY DEF IInv, TypeOK
<1> QED
  BY <1>1, <1>3, <1>4, <1>5, ViewerStep DEF NoResponse

LEMMA ViewBuiltStep ==
    ASSUME IInv, NEW v \in Viewer, ViewBuilt(v)
    PROVE  IInv'
<1> USE DEF ViewBuilt, graphVars
<1>1. TypeOK'
  <2>1. viewer \in [Viewer -> View]
    BY DEF IInv, TypeOK
  <2>2. [viewer[v] EXCEPT !.pc = "respond"] \in View
    BY <2>1 DEF View
  <2>3. viewer' \in [Viewer -> View]
    BY <2>1, <2>2
  <2> QED
    BY <2>3 DEF IInv, TypeOK
<1>2. /\ viewer'[v].pc = "respond" /\ viewer'[v].startEdges = viewer[v].startEdges
      /\ viewer'[v].cleared = viewer[v].cleared /\ viewer'[v].visited = viewer[v].visited
      /\ viewer'[v].picked = viewer[v].picked
  BY DEF IInv, TypeOK, View
<1>3. ViewSound(v)'
  BY <1>2 DEF IInv, ViewSound
<1>4. \A x \in Viewer \ {v} : viewer'[x] = viewer[x]
  BY DEF IInv, TypeOK
<1> QED
  BY <1>1, <1>3, <1>4, ViewerStep DEF IInv, ServedAboveFloor, ServedComplete

LEMMA ViewRespondStep ==
    ASSUME IInv, NEW v \in Viewer, ViewRespond(v)
    PROVE  IInv'
<1> USE DEF ViewRespond, graphVars
<1>1. /\ viewer[v] \in View
      /\ \A l \in viewer[v].picked : l \in Link /\ Cardinality(counts[l]) \in Nat
  BY CountFacts DEF IInv, TypeOK, View
<1>2. response'[v] = [status |-> "ok", links |-> viewer[v].picked,
                      count |-> [l \in viewer[v].picked |-> Cardinality(counts[l])],
                      cleared |-> viewer[v].cleared]
  BY DEF IInv, TypeOK
<1>3. TypeOK'
  <2>1. IdleViewer \in View
    BY DEF IdleViewer, View
  <2>2. viewer' \in [Viewer -> View]
    BY <2>1 DEF IInv, TypeOK
  <2>3. response'[v] \in [status : {"none", "ok", "error"}, links : {viewer[v].picked},
                          count : [viewer[v].picked -> Nat], cleared : SUBSET Link]
    BY <1>1, <1>2 DEF View
  <2>4. response'[v] \in Response
    BY <1>1, <2>3 DEF View, Response
  <2>5. response' \in [Viewer -> Response]
    BY <2>4 DEF IInv, TypeOK
  <2> QED
    BY <2>2, <2>5 DEF IInv, TypeOK
<1>4. viewer'[v] = IdleViewer
  BY DEF IInv, TypeOK
<1>5. ViewSound(v)'
  BY <1>4 DEF ViewSound, IdleViewer
<1>6. /\ \A l \in response'[v].links : /\ response'[v].count[l] >= Floor
                                       /\ response'[v].count[l] <= Cardinality(counts[l])
      /\ response'[v].cleared \subseteq response'[v].links
  BY <1>1, <1>2 DEF IInv, ViewSound
<1>7. \A x \in Viewer \ {v} : viewer'[x] = viewer[x] /\ response'[x] = response[x]
  BY DEF IInv, TypeOK
<1> QED
  BY <1>3, <1>5, <1>6, <1>7, ViewerStep

-----------------------------------------------------------------------------
\* Pruning removes no edge, and meets no request under way.
LEMMA PruneStep ==
    ASSUME IInv, PruneIsolatedNodes
    PROVE  IInv'
<1> USE DEF PruneIsolatedNodes, IInv
<1>1. edges' = edges /\ \A l \in edges : l \cap Prunable = {}
  BY DEF Prunable
<1>2. TypeOK'
  BY <1>1 DEF TypeOK
<1>3. EdgesReal'
  BY <1>1 DEF EdgesReal
<1>4. \A w \in Worker : JobSound(w)'
  BY DEF Quiet, JobSound, JobTraced, JobKnown, JobCounted
<1>5. \A v \in Viewer : ViewSound(v)'
  BY <1>1 DEF ViewSound
<1>6. ServedAboveFloor' /\ ServedComplete'
  BY DEF ServedAboveFloor, ServedComplete
<1>7. EveryIncidentCounted'
  BY <1>1 DEF EveryIncidentCounted, InFlight
<1> QED
  BY <1>2, <1>3, <1>4, <1>5, <1>6, <1>7

LEMMA StutterStep ==
    ASSUME IInv, UNCHANGED <<nodes, edges, counts, nextId, origin, worker, viewer, response>>
    PROVE  IInv'
<1> USE DEF IInv
<1>1. TypeOK' /\ EdgesReal'
  BY DEF TypeOK, EdgesReal
<1>2. \A w \in Worker : JobSound(w)'
  <2> SUFFICES ASSUME NEW w \in Worker
               PROVE  JobTraced(w)' /\ JobKnown(w)' /\ JobCounted(w)'
    BY DEF JobSound
  <2>1. JobTraced(w)' /\ JobKnown(w)'
    BY DEF JobSound, JobTraced, JobKnown
  <2>2. JobCounted(w)'
    BY DEF JobSound, JobCounted, Recorded
  <2> QED
    BY <2>1, <2>2
<1>3. \A v \in Viewer : ViewSound(v)'
  BY DEF ViewSound
<1>4. ServedAboveFloor' /\ ServedComplete' /\ EveryIncidentCounted'
  BY DEF ServedAboveFloor, ServedComplete, EveryIncidentCounted, InFlight
<1> QED
  BY <1>1, <1>2, <1>3, <1>4

-----------------------------------------------------------------------------
LEMMA InitIInv == Init => IInv
<1> SUFFICES ASSUME Init
             PROVE  IInv
  OBVIOUS
<1>1. PICK seeded \in BOOLEAN :
         LET ids == IF seeded THEN 1..SeedCount ELSE {}
         IN  /\ nodes = IF ids # {} THEN SeedNodes ELSE {}
             /\ edges = IF ids # {} THEN {SeedNodes} ELSE {}
             /\ counts = [l \in Link |-> IF l = SeedNodes THEN ids ELSE {}]
             /\ nextId = IF seeded THEN SeedCount + 1 ELSE 1
  BY DEF Init
<1>2. SeedNodes \subseteq Node /\ SeedNodes \in Link
  BY GraphAssumption, PairFacts DEF GraphAssumption, SeedNodes
<1>3. nextId \in 1..(MaxIncident + 1) /\ 1..SeedCount \subseteq Incident
  BY <1>1, GraphAssumption DEF GraphAssumption, Incident
<1>4. TypeOK
  <2>1. IdleWorker \in Job /\ IdleViewer \in View
    BY DEF IdleWorker, Job, IdleViewer, View
  <2>2. NoResponse \in Response
    BY NoResponseFacts
  <2>3. nodes \subseteq Node /\ edges \subseteq Link
    BY <1>1, <1>2
  <2>4. counts \in [Link -> SUBSET Incident]
    BY <1>1, <1>3
  <2> QED
    BY <1>3, <2>1, <2>2, <2>3, <2>4 DEF Init, TypeOK
<1>5. EdgesReal
  BY <1>1, <1>2 DEF EdgesReal
<1>6. \A w \in Worker : JobSound(w)
  BY DEF Init, IdleWorker, JobSound, JobTraced, JobKnown, JobCounted
<1>7. \A v \in Viewer : ViewSound(v)
  BY DEF Init, IdleViewer, ViewSound
<1>8. ServedAboveFloor /\ ServedComplete
  BY DEF Init, NoResponse, ServedAboveFloor, ServedComplete
<1>9. EveryIncidentCounted
  BY <1>3, GraphAssumption DEF Init, EveryIncidentCounted, Incident, GraphAssumption
<1> QED
  BY <1>4, <1>5, <1>6, <1>7, <1>8, <1>9 DEF IInv

LEMMA NextStep == IInv /\ [Next]_vars => IInv'
<1> SUFFICES ASSUME IInv, [Next]_vars
             PROVE  IInv'
  OBVIOUS
<1>1. CASE \E w \in Worker : \E s \in Submission : Deliver(w, s)
  BY <1>1, DeliverStep
<1>2. CASE \E w \in Worker : CheckNode(w) \/ AddNode(w) \/ TouchNode(w)
                                \/ CountPair(w) \/ LinkPair(w)
  BY <1>2, CheckNodeStep, AddNodeStep, TouchNodeStep, CountPairStep, LinkPairStep
<1>3. CASE \E v \in Viewer : ViewStart(v) \/ ViewEdge(v) \/ ViewFails(v)
                                \/ ViewBuilt(v) \/ ViewRespond(v)
  BY <1>3, ViewStartStep, ViewEdgeStep, ViewFailsStep, ViewBuiltStep, ViewRespondStep
<1>4. CASE PruneIsolatedNodes
  BY <1>4, PruneStep
<1>5. CASE NextDay \/ UNCHANGED vars
  BY <1>5, StutterStep DEF NextDay, vars, graphVars
<1> QED
  BY <1>1, <1>2, <1>3, <1>4, <1>5 DEF Next

-----------------------------------------------------------------------------
\* The inductive invariant holds in every reachable state.
THEOREM Invariance == Spec => []IInv
<1> QED
  BY InitIInv, NextStep, PTL DEF Spec

\* Type correctness of the graph and of the request threads.
THEOREM TypeCorrect == Spec => []TypeOK
<1>1. IInv => TypeOK
  BY DEF IInv
<1> QED
  BY Invariance, <1>1, PTL

\* The k-anonymity gate under concurrent recordings: what is served was at or
\* above the floor, for any number of threads (campaign_graph.py:84-130).
THEOREM GateHolds == Spec => []ServedAboveFloor
<1>1. IInv => ServedAboveFloor
  BY DEF IInv
<1> QED
  BY Invariance, <1>1, PTL

\* A GET that succeeds leaves out no link that was at the floor when it began.
THEOREM GateIsComplete == Spec => []ServedComplete
<1>1. IInv => ServedComplete
  BY DEF IInv
<1> QED
  BY Invariance, <1>1, PTL

\* No statement of record_incident or of the view meets a missing entry.
THEOREM NoMissingEntry == Spec => []EntriesExistWhenUsed
<1>1. IInv => EntriesExistWhenUsed
  <2> SUFFICES ASSUME IInv
               PROVE  EntriesExistWhenUsed
    OBVIOUS
  <2>1. \A w \in Worker : worker[w].pc = "touch" => Key(w) \in nodes
    BY DEF IInv, JobSound, JobKnown, Key
  <2>2. \A l \in edges : counts[l] # {} /\ l \subseteq nodes
    BY DEF IInv, EdgesReal
  <2>3. \A v \in Viewer : viewer[v].picked \subseteq edges
    BY DEF IInv, ViewSound
  <2>4. \A v \in Viewer : UNION viewer[v].picked \subseteq nodes
    BY <2>2, <2>3
  <2> QED
    BY <2>1, <2>2, <2>4 DEF EntriesExistWhenUsed
<1> QED
  BY Invariance, <1>1, PTL

\* Concurrent recordings lose no corroboration: an incident whose recording is
\* over is counted on every pair of its patterns (campaign_graph.py:68-78).
THEOREM NoCorroborationLost == Spec => []EveryIncidentCounted
<1>1. IInv => EveryIncidentCounted
  BY DEF IInv
<1> QED
  BY Invariance, <1>1, PTL

==============================================================================
