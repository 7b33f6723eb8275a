---------------------------- MODULE StoreProofs -----------------------------
(***************************************************************************)
(* Theorems about the two stores on disk: the tiered campaign graph, for   *)
(* every set of nodes, every dormancy period and every bound on the clock; *)
(* and the encrypted store with its re-keying, for every set of commits    *)
(* and of connections, and any number of keys, cycles and kills.           *)
(***************************************************************************)
EXTENDS TieredGraphStore, RekeyStore, TLAPS

\* Every node of either tier was seen: _last_seen.get never takes its default.
KnownNodesSeen == \A n \in hotNodes \cup coldNodes : lastSeen[n] # Never

\* Why a link may be in the archive: both of its ends are dormant.
ArchivedLinksDormant == \A l \in coldLinks : \A n \in l : ~Active(n)

\* The inductive invariant.  ActiveNeighbourhoodHot alone is not inductive: an
\* observation keeps it only because an archived link has its ends among the
\* archived nodes, so that rehydrating a node finds all of its links.
IInv ==
    /\ TypeOK
    /\ TiersConsistent
    /\ KnownNodesSeen
    /\ ArchivedLinksDormant

-----------------------------------------------------------------------------
\* The ends of a link are nodes.
LEMMA LinkEnds == \A l \in Link : l \subseteq Node
  BY DEF Link

\* The link of two nodes is a link that has exactly them as ends.
LEMMA NewLink ==
  ASSUME NEW a \in Node, NEW b \in Node
  PROVE  {a, b} \in Link
  BY DEF Link

\* Initially both tiers are empty.
LEMMA InitInvariant == Init => IInv
  <1>1. SUFFICES ASSUME Init PROVE IInv
    OBVIOUS
  <1>2. TypeOK
    BY <1>1, StoreAssumption DEF Init, TypeOK, Never
  <1>3. QED
    BY <1>1, <1>2 DEF Init, IInv, TiersConsistent, KnownNodesSeen, ArchivedLinksDormant

\* An observation preserves the invariant: what it takes out of the archive is
\* every archived link of its two ends.
LEMMA ObserveInvariant ==
  ASSUME IInv, NEW a \in Node, NEW b \in Node, NEW c \in BOOLEAN,
         NEW ts \in 0..clock, Observe(a, b, c, ts)
  PROVE  IInv'
  <1> DEFINE revived == Reappearing(a, b)
             back    == LinksOf(revived, coldLinks)
  <1>1. /\ lastSeen' = Seen(a, b, ts)
        /\ coldNodes' = coldNodes \ revived
        /\ coldLinks' = coldLinks \ back
        /\ coldConfirmed' = coldConfirmed \ back
        /\ hotNodes' = hotNodes \cup (UNION back) \cup {a, b}
        /\ hotLinks' = hotLinks \cup back \cup {{a, b}}
        /\ hotConfirmed' = hotConfirmed \cup (coldConfirmed \cap back)
                             \cup (IF c THEN {{a, b}} ELSE {})
        /\ clock' = clock
    BY DEF Observe
  <1>2. back \subseteq coldLinks
    BY DEF LinksOf
  <1>3. UNION back \subseteq coldNodes
    BY <1>2 DEF IInv, TiersConsistent
  <1>4. \A l \in coldLinks' : l \in coldLinks /\ a \notin l /\ b \notin l
    <2>1. SUFFICES ASSUME NEW l \in coldLinks, l \notin back
                   PROVE  a \notin l /\ b \notin l
      BY <1>1
    <2>2. l \subseteq coldNodes
      BY DEF IInv, TiersConsistent
    <2>3. l \cap revived = {}
      BY <2>1 DEF LinksOf
    <2>4. QED
      BY <2>2, <2>3 DEF Reappearing
  <1>5. lastSeen' \in [Node -> {Never} \cup 0..MaxTime]
        /\ \A n \in Node : lastSeen'[n] <= clock'
    BY <1>1, StoreAssumption DEF IInv, TypeOK, Seen, Never
  <1>6. TypeOK'
    <2>1. hotNodes' \subseteq Node /\ coldNodes' \subseteq Node
      BY <1>1, <1>3 DEF IInv, TypeOK
    <2>2. hotLinks' \subseteq Link /\ coldLinks' \subseteq Link
      BY <1>1, <1>2, NewLink DEF IInv, TypeOK
    <2>3. hotConfirmed' \subseteq hotLinks' /\ coldConfirmed' \subseteq coldLinks'
      BY <1>1 DEF IInv, TypeOK
    <2>4. clock' \in 0..MaxTime
      BY <1>1 DEF IInv, TypeOK
    <2>5. QED
      BY <1>5, <2>1, <2>2, <2>3, <2>4 DEF TypeOK
  <1>7. TiersConsistent'
    <2>1. hotLinks' \cap coldLinks' = {}
      BY <1>1, <1>2, <1>4 DEF IInv, TiersConsistent
    <2>2. UNION hotLinks' \subseteq hotNodes'
      BY <1>1 DEF IInv, TiersConsistent
    <2>3. UNION coldLinks' \subseteq coldNodes'
      BY <1>1, <1>4 DEF IInv, TiersConsistent, Reappearing
    <2>4. QED
      BY <2>1, <2>2, <2>3 DEF TiersConsistent
  <1>8. KnownNodesSeen'
    <2>1. ts # Never
      BY DEF Never, IInv, TypeOK
    <2>2. hotNodes' \cup coldNodes' \subseteq hotNodes \cup coldNodes \cup {a, b}
      BY <1>1, <1>3
    <2>3. \A n \in Node : lastSeen'[n] = IF n \in {a, b} THEN ts ELSE lastSeen[n]
      BY <1>1 DEF Seen
    <2>4. QED
      BY <1>6, <2>1, <2>2, <2>3 DEF IInv, KnownNodesSeen, TypeOK
  <1>9. ArchivedLinksDormant'
    <2>1. SUFFICES ASSUME NEW l \in coldLinks', NEW n \in l
                   PROVE  ~Active(n)'
      BY DEF ArchivedLinksDormant
    <2>2. l \in coldLinks /\ n # a /\ n # b
      BY <1>4
    <2>3. n \in Node
      BY <2>2, LinkEnds DEF IInv, TypeOK
    <2>4. lastSeen'[n] = lastSeen[n]
      BY <1>1, <2>2, <2>3 DEF Seen
    <2>5. ~Active(n)
      BY <2>2 DEF IInv, ArchivedLinksDormant
    <2>6. QED
      BY <1>1, <2>4, <2>5 DEF Active
  <1>10. QED
    BY <1>6, <1>7, <1>8, <1>9 DEF IInv

\* A sweep preserves the invariant: the other end of a demoted node's link is
\* one of its hot neighbours, which the sweep found dormant.
LEMMA DemoteInvariant ==
  ASSUME IInv, DemoteDormant
  PROVE  IInv'
  <1> DEFINE moved == LinksOf(Demotable, hotLinks)
  <1>1. /\ coldNodes' = coldNodes \cup (UNION moved)
        /\ coldLinks' = coldLinks \cup moved
        /\ coldConfirmed' = coldConfirmed \cup (hotConfirmed \cap moved)
        /\ hotNodes' = hotNodes \ Demotable
        /\ hotLinks' = hotLinks \ moved
        /\ hotConfirmed' = hotConfirmed \ moved
        /\ lastSeen' = lastSeen
        /\ clock' = clock
    BY DEF DemoteDormant, ArchivedFlags, LeavingHot
  <1>2. moved \subseteq hotLinks
    BY DEF LinksOf
  <1>3. UNION moved \subseteq hotNodes
    BY <1>2 DEF IInv, TiersConsistent
  <1>4. \A l \in moved : \A n \in l : ~Active(n)
    <2>1. SUFFICES ASSUME NEW l \in moved, NEW n \in l
                   PROVE  ~Active(n)
      OBVIOUS
    <2>2. l \in hotLinks /\ l \in Link
      BY <1>2 DEF IInv, TypeOK
    <2>3. PICK d \in Demotable : d \in l
      BY DEF LinksOf
    <2>4. PICK x \in Node, y \in Node : l = {x, y}
      BY <2>2 DEF Link
    <2>5. l = {d, n} \/ n = d
      BY <2>3, <2>4
    <2>6. n \in Node
      BY <2>4
    <2>7. CASE n = d
      BY <2>7 DEF Demotable
    <2>8. CASE l = {d, n}
      BY <2>2, <2>6, <2>8 DEF Demotable, HotNeighbours
    <2>9. QED
      BY <2>5, <2>7, <2>8
  <1>5. TypeOK'
    BY <1>1, <1>2, <1>3 DEF IInv, TypeOK
  <1>6. TiersConsistent'
    <2>1. hotLinks' \cap coldLinks' = {} /\ UNION coldLinks' \subseteq coldNodes'
      BY <1>1, <1>2 DEF IInv, TiersConsistent
    <2>2. UNION hotLinks' \subseteq hotNodes'
      <3>1. SUFFICES ASSUME NEW l \in hotLinks', NEW n \in l PROVE n \in hotNodes'
        OBVIOUS
      <3>2. l \in hotLinks /\ l \notin moved
        BY <1>1
      <3>3. n \notin Demotable
        BY <3>2 DEF LinksOf
      <3>4. QED
        BY <1>1, <3>2, <3>3 DEF IInv, TiersConsistent
    <2>3. QED
      BY <2>1, <2>2 DEF TiersConsistent
  <1>7. KnownNodesSeen'
    BY <1>1, <1>3 DEF IInv, KnownNodesSeen
  <1>8. ArchivedLinksDormant'
    BY <1>1, <1>4 DEF IInv, ArchivedLinksDormant, Active
  <1>9. QED
    BY <1>5, <1>6, <1>7, <1>8 DEF IInv

\* Time only makes nodes dormant; an archived link's ends have a last_seen, so
\* the default of the look-up cannot make one of them active again.
LEMMA TickInvariant ==
  ASSUME IInv, Tick
  PROVE  IInv'
  <1>1. /\ clock' = clock + 1 /\ clock < MaxTime
        /\ UNCHANGED <<hotVars, coldVars, lastSeen>>
    BY DEF Tick
  <1>2. TypeOK'
    BY <1>1, StoreAssumption DEF IInv, TypeOK, hotVars, coldVars, Never
  <1>3. TiersConsistent' /\ KnownNodesSeen'
    BY <1>1 DEF IInv, TiersConsistent, KnownNodesSeen, hotVars, coldVars
  <1>4. ArchivedLinksDormant'
    <2>1. SUFFICES ASSUME NEW l \in coldLinks, NEW n \in l
                   PROVE  ~Active(n)'
      BY <1>1 DEF ArchivedLinksDormant, coldVars
    <2>2. n \in Node /\ lastSeen[n] # Never
      BY LinkEnds DEF IInv, TypeOK, TiersConsistent, KnownNodesSeen
    <2>3. ~(clock - lastSeen[n] < Dormancy)
      BY <2>2 DEF IInv, ArchivedLinksDormant, Active
    <2>4. lastSeen[n] \in Int /\ clock \in Int /\ Dormancy \in Int
      BY <2>2, StoreAssumption DEF IInv, TypeOK, Never
    <2>5. QED
      BY <1>1, <2>2, <2>3, <2>4 DEF Active
  <1>5. QED
    BY <1>2, <1>3, <1>4 DEF IInv

-----------------------------------------------------------------------------
\* Every reachable state satisfies the inductive invariant.
THEOREM Invariance == Spec => []IInv
  <1>1. IInv /\ [Next]_vars => IInv'
    <2>1. SUFFICES ASSUME IInv, [Next]_vars PROVE IInv'
      OBVIOUS
    <2>2. CASE \E a, b \in Node, c \in BOOLEAN, ts \in 0..clock : Observe(a, b, c, ts)
      BY <2>1, <2>2, ObserveInvariant
    <2>3. CASE DemoteDormant
      BY <2>1, <2>3, DemoteInvariant
    <2>4. CASE Tick
      BY <2>1, <2>4, TickInvariant
    <2>5. CASE UNCHANGED vars
      BY <2>1, <2>5 DEF vars, hotVars, coldVars, IInv, TypeOK, TiersConsistent,
                        KnownNodesSeen, ArchivedLinksDormant, Active
    <2>6. QED
      BY <2>1, <2>2, <2>3, <2>4, <2>5 DEF Next
  <1>2. QED
    BY InitInvariant, <1>1, PTL DEF Spec

\* The variables keep their types, and no node is seen in the future.
THEOREM TypeCorrect == Spec => []TypeOK
  <1>1. IInv => TypeOK
    BY DEF IInv
  <1>2. QED
    BY Invariance, <1>1, PTL

\* A link is in one tier, with both its ends.
THEOREM TiersAreConsistent == Spec => []TiersConsistent
  <1>1. IInv => TiersConsistent
    BY DEF IInv
  <1>2. QED
    BY Invariance, <1>1, PTL

\* The fast query path holds every known link of every active node.
THEOREM ActiveNodesAreHot == Spec => []ActiveNeighbourhoodHot
  <1>1. IInv => ActiveNeighbourhoodHot
    BY DEF IInv, ActiveNeighbourhoodHot, ArchivedLinksDormant, TiersConsistent, DeepLookup
  <1>2. QED
    BY Invariance, <1>1, PTL

\* A reappearing node has its whole history in the hot tier.
THEOREM ReappearingNodesAreHot == Spec => ReappearanceRehydrates
  <1> DEFINE Rehydrates(a, b) ==
        LinksOf({a, b}, coldLinks') # {} =>
            ~ \E c \in BOOLEAN, ts \in 0..clock : Observe(a, b, c, ts)
  <1>1. ASSUME IInv, NEW a \in Node, NEW b \in Node
        PROVE  Rehydrates(a, b)
    <2>1. SUFFICES ASSUME NEW c \in BOOLEAN, NEW ts \in 0..clock, Observe(a, b, c, ts),
                          NEW l \in coldLinks', l \cap {a, b} # {}
                   PROVE  FALSE
      BY DEF LinksOf
    <2>2. l \in coldLinks /\ l \notin LinksOf(Reappearing(a, b), coldLinks)
      BY <2>1 DEF Observe
    <2>3. l \subseteq coldNodes
      BY <1>1, <2>2 DEF IInv, TiersConsistent
    <2>4. QED
      BY <2>1, <2>2, <2>3 DEF LinksOf, Reappearing
  <1>2. IInv /\ [Next]_vars => [\A a, b \in Node : Rehydrates(a, b)]_vars
    BY <1>1
  <1>3. QED
    BY Invariance, <1>2, PTL DEF Spec, ReappearanceRehydrates

-----------------------------------------------------------------------------
\* Seen through its queries, the store refines the ledger: nothing that was
\* observed or confirmed is ever forgotten.
THEOREM StoreImplementsLedger == Spec => ImplementsLedger
  <1>1. IInv => {l \in Link : ConfirmedEdgeExists(l)} = hotConfirmed \cup coldConfirmed
    BY DEF IInv, TypeOK, ConfirmedEdgeExists
  <1>2. Init => Ledger!Init
    BY DEF Init, Ledger!Init, DeepLookup, ConfirmedEdgeExists
  <1>3. IInv /\ IInv' /\ [Next]_vars => [Ledger!Next]_(Ledger!ledgerVars)
    <2>1. SUFFICES ASSUME IInv, IInv', [Next]_vars
                   PROVE  [Ledger!Next]_(Ledger!ledgerVars)
      OBVIOUS
    <2> DEFINE flagged == {l \in Link : ConfirmedEdgeExists(l)}
    <2>2. /\ flagged = hotConfirmed \cup coldConfirmed
          /\ flagged' = hotConfirmed' \cup coldConfirmed'
      BY <2>1, <1>1 DEF IInv, TypeOK, ConfirmedEdgeExists
    <2>3. ASSUME NEW a \in Node, NEW b \in Node, NEW c \in BOOLEAN, NEW ts \in 0..clock,
                 Observe(a, b, c, ts)
          PROVE  Ledger!Next
      <3>1. DeepLookup' = DeepLookup \cup {{a, b}}
        BY <2>3 DEF Observe, DeepLookup, LinksOf
      <3>2. flagged' = IF c THEN flagged \cup {{a, b}} ELSE flagged
        BY <2>2, <2>3 DEF Observe, LinksOf
      <3>3. QED
        BY <3>1, <3>2, NewLink DEF Ledger!Next, Ledger!Record
    <2>4. ASSUME DemoteDormant \/ Tick \/ UNCHANGED vars
          PROVE  UNCHANGED Ledger!ledgerVars
      <3>1. DeepLookup' = DeepLookup
        BY <2>4 DEF DemoteDormant, LeavingHot, Tick, vars, hotVars, coldVars, DeepLookup, LinksOf
      <3>2. hotConfirmed' \cup coldConfirmed' = hotConfirmed \cup coldConfirmed
        BY <2>1, <2>4 DEF DemoteDormant, LeavingHot, ArchivedFlags, Tick, vars, hotVars,
                          coldVars, LinksOf, IInv, TypeOK
      <3>3. QED
        BY <3>1, <3>2, <2>2 DEF Ledger!ledgerVars
    <2>5. QED
      BY <2>1, <2>3, <2>4 DEF Next
  <1>4. QED
    BY Invariance, <1>2, <1>3, PTL DEF Spec, ImplementsLedger, Ledger!Spec

-----------------------------------------------------------------------------
\* The encrypted store and its re-keying.

FileType == [writes : SUBSET Write, key : Int, intact : BOOLEAN]

\* A file of either path; what a connection and the re-keying can be at.
RekeyTypeOK ==
    /\ db \in FileType /\ tmp \in FileType /\ keyfile \in Int
    /\ conn \in [Conn -> {"no", "db", "gone"}]
    /\ opener \in [Conn -> {"idle", "create", "write", "connect"}]
    /\ held \in [Conn -> Int]
    /\ rekey \in {"idle", "copying", "torn", "copied", "verified"}
    /\ committed \subseteq Write /\ raced \subseteq Write
    /\ keys \in Nat

\* A key that somebody holds is no mark of a missing file, so that a file which
\* exists is told from one that does not by its key.
KeysMarkFiles ==
    /\ \A c \in Conn : held[c] # Missing
    /\ db.key = Missing => db = NoFile
    /\ tmp.key = Missing => tmp = NoFile

\* Nobody is connected to, commits to or re-keys a store that was never made.
NothingBeforeTheFile ==
    db = NoFile => /\ rekey = "idle"
                   /\ \A c \in Conn : conn[c] = "no"
                   /\ committed = {}

\* While the store is re-keyed the copy holds what the store held when the copy
\* began, which is all but the racing commits, and it is as whole as those let
\* it be.
CopyKeepsUp ==
    rekey # "idle" =>
        /\ tmp # NoFile
        /\ committed \ raced \subseteq tmp.writes
        /\ rekey = "torn" => raced # {}
        /\ rekey \in {"copied", "verified"} => tmp.intact \/ raced # {}

RekeyInv == RekeyTypeOK /\ KeysMarkFiles /\ NothingBeforeTheFile /\ CopyKeepsUp /\ OnlyRacesLoseCommits

-----------------------------------------------------------------------------
LEMMA NoFileFacts ==
    /\ NoFile \in FileType /\ NoFile.writes = {} /\ NoFile.key = Missing /\ NoFile.intact
    /\ Missing \in Int /\ Plain \in Int /\ Plain # Missing /\ Empty \in Int /\ Empty # Missing
BY DEF NoFile, File, FileType, Missing, Plain, Empty

LEMMA RekeyStarts == RekeyInit => RekeyInv
<1> SUFFICES ASSUME RekeyInit PROVE RekeyInv
  OBVIOUS
<1> USE NoFileFacts
<1>1. RekeyTypeOK
  BY DEF RekeyInit, RekeyTypeOK
<1>2. KeysMarkFiles /\ NothingBeforeTheFile /\ CopyKeepsUp /\ OnlyRacesLoseCommits
  BY DEF RekeyInit, KeysMarkFiles, NothingBeforeTheFile, CopyKeepsUp, OnlyRacesLoseCommits
<1> QED
  BY <1>1, <1>2 DEF RekeyInv

\* A connection that is opened finds the store as it was, or makes an empty one
\* before anything was committed.
LEMMA ConnectStep ==
    ASSUME RekeyInv, NEW c \in Conn, NEW key \in Int, key # Missing, Connect(c, key)
    PROVE  RekeyInv'
<1> USE NoFileFacts
<1>1. File({}, key, TRUE) \in FileType /\ File({}, key, TRUE).key = key
      /\ File({}, key, TRUE).writes = {} /\ File({}, key, TRUE).intact
  BY DEF File, FileType
<1>2. db' \in FileType /\ db'.key # Missing
  <2>1. CASE db = NoFile
    BY <1>1, <2>1 DEF Connect
  <2>2. CASE db # NoFile
    BY <2>2 DEF Connect, RekeyInv, RekeyTypeOK, KeysMarkFiles
  <2> QED
    BY <2>1, <2>2
<1>3. db' # NoFile /\ (db # NoFile => db' = db) /\ (db = NoFile => db'.intact)
  BY <1>1, <1>2 DEF Connect
<1>4. RekeyTypeOK'
  BY <1>2 DEF RekeyInv, RekeyTypeOK, Connect, history
<1>5. KeysMarkFiles' /\ NothingBeforeTheFile'
  BY <1>2, <1>3 DEF RekeyInv, KeysMarkFiles, NothingBeforeTheFile, Connect
<1>6. CopyKeepsUp' /\ OnlyRacesLoseCommits'
  BY <1>3 DEF RekeyInv, CopyKeepsUp, NothingBeforeTheFile, OnlyRacesLoseCommits, Connect, history
<1> QED
  BY <1>4, <1>5, <1>6 DEF RekeyInv

\* The key file is read or made, and what is held is a key.
LEMMA KeyStep ==
    ASSUME RekeyInv, NEW c \in Conn,
           ReadKey(c) \/ CreateKeyFile(c) \/ WriteKeyFile(c) \/ Close(c)
    PROVE  RekeyInv'
<1> USE NoFileFacts
<1>1. UNCHANGED <<db, tmp, rekey, committed, raced>>
  BY DEF ReadKey, CreateKeyFile, WriteKeyFile, Close, fileVars, history
<1>2. conn' \in [Conn -> {"no", "db", "gone"}]
      /\ (\A d \in Conn : conn'[d] = conn[d] \/ conn'[d] = "no")
  BY DEF ReadKey, CreateKeyFile, WriteKeyFile, Close, RekeyInv, RekeyTypeOK
<1>3. held' \in [Conn -> Int] /\ (\A d \in Conn : held'[d] # Missing)
      /\ keyfile' \in Int /\ keys' \in Nat
      /\ opener' \in [Conn -> {"idle", "create", "write", "connect"}]
  <2>1. CASE ReadKey(c)
    <3>1. CASE keyfile # Missing /\ held' = [held EXCEPT ![c] = keyfile] /\ keys' = keys
               /\ opener' = [opener EXCEPT ![c] = "connect"]
      BY <2>1, <3>1 DEF ReadKey, RekeyInv, RekeyTypeOK, KeysMarkFiles, fileVars
    <3>2. CASE keys' = keys + 1 /\ held' = [held EXCEPT ![c] = keys + 1]
               /\ opener' = [opener EXCEPT ![c] = "create"]
      BY <2>1, <3>2 DEF ReadKey, RekeyInv, RekeyTypeOK, KeysMarkFiles, fileVars, Missing
    <3> QED
      BY <2>1, <3>1, <3>2 DEF ReadKey
  <2>2. CASE CreateKeyFile(c) \/ WriteKeyFile(c)
    BY <2>2 DEF CreateKeyFile, WriteKeyFile, RekeyInv, RekeyTypeOK, KeysMarkFiles
  <2>3. CASE Close(c)
    BY <2>3 DEF Close, RekeyInv, RekeyTypeOK, KeysMarkFiles, fileVars
  <2> QED
    BY <2>1, <2>2, <2>3
<1>4. RekeyTypeOK'
  BY <1>1, <1>2, <1>3 DEF RekeyInv, RekeyTypeOK
<1>5. KeysMarkFiles' /\ NothingBeforeTheFile'
  BY <1>1, <1>2, <1>3 DEF RekeyInv, KeysMarkFiles, NothingBeforeTheFile
<1>6. CopyKeepsUp' /\ OnlyRacesLoseCommits'
  BY <1>1 DEF RekeyInv, CopyKeepsUp, OnlyRacesLoseCommits
<1> QED
  BY <1>4, <1>5, <1>6 DEF RekeyInv

\* A commit reaches the store, or it counts among the racing ones.
LEMMA CommitStep ==
    ASSUME RekeyInv, NEW c \in Conn, NEW w \in Write, Commit(c, w)
    PROVE  RekeyInv'
<1> USE NoFileFacts
<1>1. UNCHANGED <<tmp, keyfile, conn, opener, held, keys>>
  BY DEF Commit, connVars
<1>2. db # NoFile
  BY DEF Commit, RekeyInv, NothingBeforeTheFile
<1>3. committed' = committed \cup {w}
      /\ (w \in raced' \/ (rekey = "idle" /\ conn[c] = "db"))
      /\ raced \subseteq raced' /\ raced' \subseteq raced \cup {w}
  BY DEF Commit
<1>4. /\ db' \in FileType /\ db'.key = db.key /\ db'.intact = db.intact
      /\ db.writes \subseteq db'.writes
      /\ conn[c] = "db" => w \in db'.writes
  <2>1. CASE conn[c] = "db"
    <3>1. db' = [db EXCEPT !.writes = @ \cup {w}] /\ db \in FileType
      BY <2>1 DEF Commit, RekeyInv, RekeyTypeOK
    <3> QED
      BY <3>1 DEF FileType
  <2>2. CASE conn[c] # "db"
    BY <2>2 DEF Commit, RekeyInv, RekeyTypeOK
  <2> QED
    BY <2>1, <2>2
<1>5. db' # NoFile
  BY <1>2, <1>4 DEF RekeyInv, KeysMarkFiles
<1>6. /\ rekey' \in {"idle", "copying", "torn", "copied", "verified"}
      /\ rekey' = rekey \/ (rekey = "copying" /\ rekey' = "torn")
  BY DEF Commit, RekeyInv, RekeyTypeOK
<1>7. RekeyTypeOK'
  BY <1>1, <1>3, <1>4, <1>6 DEF RekeyInv, RekeyTypeOK
<1>8. KeysMarkFiles' /\ NothingBeforeTheFile'
  BY <1>1, <1>2, <1>4, <1>5 DEF RekeyInv, KeysMarkFiles, NothingBeforeTheFile
<1>9. CopyKeepsUp'
  BY <1>1, <1>3, <1>6 DEF RekeyInv, CopyKeepsUp
<1>10. OnlyRacesLoseCommits'
  <2>1. committed' \ raced' \subseteq db'.writes
    BY <1>2, <1>3, <1>4 DEF RekeyInv, OnlyRacesLoseCommits, Commit
  <2>2. db'.intact \/ raced' # {}
    BY <1>2, <1>3, <1>4 DEF RekeyInv, OnlyRacesLoseCommits
  <2> QED
    BY <2>1, <2>2 DEF OnlyRacesLoseCommits
<1> QED
  BY <1>7, <1>8, <1>9, <1>10 DEF RekeyInv

\* The copy is begun, ended, verified and put in place; the process is killed.
LEMMA RekeyStep ==
    ASSUME RekeyInv, FallDue \/ Rekey \/ Kill
    PROVE  RekeyInv'
<1> USE NoFileFacts
<1>1. UNCHANGED <<keyfile, committed, raced, keys>>
  BY DEF FallDue, Rekey, StartRekey, FinishCopy, Verify, Replace, Kill, fileVars, history
<1>2. CASE FallDue
  BY <1>1, <1>2 DEF FallDue, fileVars, connVars, RekeyInv, RekeyTypeOK, KeysMarkFiles,
                    NothingBeforeTheFile, CopyKeepsUp, OnlyRacesLoseCommits
<1>3. CASE StartRekey
  <2>1. db \in FileType /\ db # NoFile /\ db.key # Missing
    BY <1>3 DEF StartRekey, RekeyInv, RekeyTypeOK, KeysMarkFiles
  <2>2. tmp' \in FileType /\ tmp'.writes = db.writes /\ tmp'.key = db.key
    BY <1>3, <2>1 DEF StartRekey, FileType
  <2>3. RekeyTypeOK'
    BY <1>1, <1>3, <2>2 DEF StartRekey, connVars, RekeyInv, RekeyTypeOK
  <2>4. KeysMarkFiles' /\ NothingBeforeTheFile' /\ CopyKeepsUp' /\ OnlyRacesLoseCommits'
    BY <1>1, <1>3, <2>1, <2>2 DEF StartRekey, connVars, RekeyInv, KeysMarkFiles,
                    NothingBeforeTheFile, CopyKeepsUp, OnlyRacesLoseCommits
  <2> QED
    BY <2>3, <2>4 DEF RekeyInv
<1>4. CASE FinishCopy
  <2>1. tmp \in FileType /\ tmp # NoFile /\ tmp.key # Missing /\ db # NoFile
    BY <1>4 DEF FinishCopy, RekeyInv, RekeyTypeOK, CopyKeepsUp, KeysMarkFiles, NothingBeforeTheFile
  <2>2. db.intact \in BOOLEAN
    BY DEF RekeyInv, RekeyTypeOK, FileType
  <2>3. /\ tmp' \in FileType /\ tmp'.writes = tmp.writes /\ tmp'.key = tmp.key
        /\ tmp'.intact = ((rekey = "copying") /\ db.intact)
    BY <1>4, <2>1, <2>2 DEF FinishCopy, FileType
  <2>4. tmp'.intact \/ raced # {}
    BY <1>4, <2>1, <2>3 DEF FinishCopy, RekeyInv, CopyKeepsUp, OnlyRacesLoseCommits
  <2>5. RekeyTypeOK'
    BY <1>1, <1>4, <2>3 DEF FinishCopy, connVars, RekeyInv, RekeyTypeOK
  <2>6. KeysMarkFiles' /\ NothingBeforeTheFile' /\ CopyKeepsUp' /\ OnlyRacesLoseCommits'
    BY <1>1, <1>4, <2>1, <2>3, <2>4 DEF FinishCopy, connVars, RekeyInv, KeysMarkFiles,
                    NothingBeforeTheFile, CopyKeepsUp, OnlyRacesLoseCommits
  <2> QED
    BY <2>5, <2>6 DEF RekeyInv
<1>5. CASE Verify
  <2>1. /\ UNCHANGED <<db, conn, opener, held>>
        /\ (rekey' = "verified" /\ tmp' = tmp) \/ (rekey' = "idle" /\ tmp' = NoFile)
        /\ rekey = "copied"
    BY <1>5 DEF Verify, connVars
  <2> QED
    BY <1>1, <2>1 DEF RekeyInv, RekeyTypeOK, KeysMarkFiles, NothingBeforeTheFile, CopyKeepsUp,
                      OnlyRacesLoseCommits
<1>6. CASE Replace
  <2>1. db' = tmp /\ tmp' = NoFile /\ rekey' = "idle" /\ UNCHANGED <<opener, held>>
        /\ db' # NoFile
    BY <1>6 DEF Replace, RekeyInv, CopyKeepsUp
  <2>2. conn' \in [Conn -> {"no", "db", "gone"}]
    BY <1>6 DEF Replace, RekeyInv, RekeyTypeOK
  <2>3. RekeyTypeOK' /\ KeysMarkFiles' /\ NothingBeforeTheFile' /\ CopyKeepsUp'
    BY <1>1, <2>1, <2>2 DEF RekeyInv, RekeyTypeOK, KeysMarkFiles, NothingBeforeTheFile, CopyKeepsUp
  <2>4. OnlyRacesLoseCommits'
    BY <1>1, <1>6, <2>1 DEF Replace, RekeyInv, CopyKeepsUp, OnlyRacesLoseCommits
  <2> QED
    BY <2>3, <2>4 DEF RekeyInv
<1>7. CASE Kill
  BY <1>1, <1>7 DEF Kill, fileVars, RekeyInv, RekeyTypeOK, KeysMarkFiles,
                    NothingBeforeTheFile, CopyKeepsUp, OnlyRacesLoseCommits
<1> QED
  BY <1>2, <1>3, <1>4, <1>5, <1>6, <1>7 DEF Rekey

-----------------------------------------------------------------------------
\* The inductive invariant holds in every reachable state.
THEOREM RekeyInvariance == RekeySpec => []RekeyInv
<1>1. RekeyInv /\ [RekeyNext]_rekeyVars => RekeyInv'
  <2> SUFFICES ASSUME RekeyInv, [RekeyNext]_rekeyVars PROVE RekeyInv'
    OBVIOUS
  <2>1. ASSUME NEW c \in Conn, OpenPlain(c) PROVE RekeyInv'
    BY <2>1, ConnectStep, NoFileFacts DEF OpenPlain
  <2>2. ASSUME NEW c \in Conn, OpenCipher(c) PROVE RekeyInv'
    <3>1. held[c] \in Int /\ held[c] # Missing
      BY DEF RekeyInv, RekeyTypeOK, KeysMarkFiles
    <3> QED
      BY <2>2, <3>1, ConnectStep DEF OpenCipher
  <2>3. ASSUME NEW c \in Conn, ReadKey(c) \/ CreateKeyFile(c) \/ WriteKeyFile(c) \/ Close(c)
        PROVE  RekeyInv'
    BY <2>3, KeyStep
  <2>4. ASSUME NEW c \in Conn, NEW w \in Write, Commit(c, w) PROVE RekeyInv'
    BY <2>4, CommitStep
  <2>5. CASE FallDue \/ Rekey \/ Kill
    BY <2>5, RekeyStep
  <2>6. CASE UNCHANGED rekeyVars
    BY <2>6 DEF rekeyVars, RekeyInv, RekeyTypeOK, KeysMarkFiles, NothingBeforeTheFile, CopyKeepsUp,
                OnlyRacesLoseCommits
  <2> QED
    BY <2>1, <2>2, <2>3, <2>4, <2>5, <2>6 DEF RekeyNext
<1> QED
  BY RekeyStarts, <1>1, PTL DEF RekeySpec

\* The files, the connections and the steps of both protocols keep their types.
THEOREM RekeyTypeCorrect == RekeySpec => []RekeyTypeOK
<1>1. RekeyInv => RekeyTypeOK
  BY DEF RekeyInv
<1> QED
  BY RekeyInvariance, <1>1, PTL

\* Every commit that met no re-keying is in the store, and the store is damaged
\* only by one that did, whatever kills, stale copies and plain or encrypted
\* launches came in between (key_storage.py:86-128).
THEOREM CommitsSurviveRekeying == RekeySpec => []OnlyRacesLoseCommits
<1>1. RekeyInv => OnlyRacesLoseCommits
  BY DEF RekeyInv
<1> QED
  BY RekeyInvariance, <1>1, PTL

=============================================================================
