---------------------------- MODULE FleetProofs ------------------------------
(***************************************************************************)
(* Proofs about the phones of the fleet: the thermal governor and the      *)
(* upload gate of DeviceGuards, for every set of readings, every length of *)
(* an upload and every polling interval; and the rounds and canary         *)
(* rollouts of Federation, for every cohort, every trim and all updates,   *)
(* every fleet and every division of it into strata.  The two              *)
(* specifications share no state.                                          *)
(*                                                                         *)
(* What is summed over a set is proved by a smallest counterexample: see   *)
(* SmallestSet and, for the sums of the library, SumSplits.                *)
(***************************************************************************)
EXTENDS DeviceGuards, Federation, FiniteSetTheorems, Recursion, TLAPS

\* What the last move says about the rung that it led to: up, its reading was
\* at the rung's threshold, or compound heat led to the top; down, it was at
\* least the margin below the threshold of the rung that was left.
TurnExplainsRung ==
    turn.at # 0 =>
        /\ turn.up =>
            /\ rung > Nominal
            /\ turn.at >= EscalateAt[rung] \/ (rung = Critical /\ turn.compound)
        /\ ~turn.up =>
            /\ rung < Critical
            /\ turn.at < EscalateAt[rung + 1] - HysteresisMargin
            /\ ~(rung + 1 = Critical /\ turn.compound)

\* A chunk is left to send while an upload is under way.
ChunkLeft == upload # "idle" => chunk < TotalChunks

\* The next chunk goes out without another question for this need.
AskedFor(n) ==
    \/ upload = "send"
    \/ upload = "poll" /\ chunk % PollInterval # 0
    \/ upload = "wifi" /\ n = "charger"

\* The chunks sent on a phone without its charger, or without its Wi-Fi, lie behind
\* the last time that it was asked for it: past a poll there are at most as many as
\* the place within the stride, and before the question at most a whole stride.
ExposedWithinStride ==
    \A n \in Need :
        /\ n \in device => exposed[n] = 0
        /\ AskedFor(n) => exposed[n] <= chunk % PollInterval
        /\ exposed[n] <= PollInterval

\* The device is asked for its Wi-Fi at the chunks of a poll only.
AskedAtPoll == upload = "wifi" => chunk % PollInterval = 0

GuardInv == TypeOK /\ OverheatedMeansHeuristicOnly /\ TurnExplainsRung /\ ChunkLeft
            /\ ExposedWithinStride /\ AskedAtPoll

\* The rungs and the thresholds, spelled out for the provers.
LEMMA Thresholds ==
    /\ EscalateAt[1] = 70 /\ EscalateAt[2] = 85 /\ EscalateAt[3] = 95
    /\ Nominal..Critical = {0, 1, 2, 3}
BY DEF EscalateAt, Nominal, Elevated, Severe, Critical

\* TargetState is a rung, and it says which thresholds the reading has passed.
LEMMA TargetFacts ==
    ASSUME NEW frac \in Nat, NEW flag \in BOOLEAN
    PROVE  LET target == TargetState(frac, flag) IN
           /\ target \in {0, 1, 2, 3}
           /\ target = 3 <=> (frac >= 95 \/ (flag /\ frac >= 85))
           /\ target >= 2 <=> frac >= 85
           /\ target >= 1 <=> frac >= 70
BY DEF TargetState, Nominal, Elevated, Severe, Critical

\* What a move up and a move down presuppose.
LEMMA MoveFacts ==
    ASSUME rung \in {0, 1, 2, 3}, NEW frac \in Nat, NEW flag \in BOOLEAN
    PROVE  LET next == NextRung(frac, flag) IN
           /\ next \in {0, 1, 2, 3}
           /\ next > rung => /\ next = TargetState(frac, flag)
                             /\ frac >= EscalateAt[next] \/ (next = 3 /\ flag)
                             /\ frac >= EscalateAt[rung + 1] \/ (flag /\ frac >= 85)
           /\ next < rung => /\ next = rung - 1
                             /\ frac < EscalateAt[rung] - 5
                             /\ ~(flag /\ rung = 3)
           /\ TargetState(frac, flag) = 3 => next = 3
<1> DEFINE target == TargetState(frac, flag)
<1>1. /\ target \in {0, 1, 2, 3}
      /\ target = 3 <=> (frac >= 95 \/ (flag /\ frac >= 85))
      /\ target >= 2 <=> frac >= 85
      /\ target >= 1 <=> frac >= 70
  BY TargetFacts
<1>2. CanDeescalate(frac, flag) <=> ~(flag /\ rung = 3) /\ frac < EscalateAt[rung] - 5
  BY DEF CanDeescalate, Critical, HysteresisMargin
<1>3. NextRung(frac, flag) = CASE target > rung -> target
                               [] target < rung /\ CanDeescalate(frac, flag) -> rung - 1
                               [] OTHER -> rung
  BY DEF NextRung
<1> HIDE DEF target
<1>4. CASE target > rung
  <2>1. NextRung(frac, flag) = target
    BY <1>1, <1>3, <1>4
  <2>2. frac >= EscalateAt[target] \/ (target = 3 /\ flag)
    BY <1>1, <1>4, Thresholds
  <2>3. frac >= EscalateAt[rung + 1] \/ (flag /\ frac >= 85)
    BY <1>1, <1>4, Thresholds
  <2> QED
    BY <1>1, <1>4, <2>1, <2>2, <2>3 DEF target
<1>5. CASE target < rung /\ CanDeescalate(frac, flag)
  <2>1. NextRung(frac, flag) = rung - 1
    BY <1>1, <1>3, <1>5
  <2> QED
    BY <1>1, <1>2, <1>5, <2>1 DEF target
<1>6. CASE ~(target > rung) /\ ~(target < rung /\ CanDeescalate(frac, flag))
  <2>1. NextRung(frac, flag) = rung
    BY <1>1, <1>3, <1>6
  <2> QED
    BY <1>1, <1>6, <2>1 DEF target
<1> QED
  BY <1>4, <1>5, <1>6

\* The place of the next chunk within its stride.
LEMMA NextInStride ==
    ASSUME NEW c \in Nat, NEW P \in Nat \ {0}
    PROVE  (c + 1) % P = IF (c % P) + 1 = P THEN 0 ELSE (c % P) + 1
<1> DEFINE q  == c \div P
           r  == c % P
           q1 == (c + 1) \div P
           r1 == (c + 1) % P
<1>1. q \in Nat /\ r \in 0..(P - 1) /\ c = P * q + r
  OBVIOUS
<1>2. q1 \in Nat /\ r1 \in 0..(P - 1) /\ c + 1 = P * q1 + r1
  OBVIOUS
<1> HIDE DEF q, r, q1, r1
<1>3. \A d \in Int : (d >= 1 => P * d >= P) /\ (d <= -1 => P * d <= -P)
  OBVIOUS
<1>4. P * (q1 - q) = r + 1 - r1
  BY <1>1, <1>2
<1>5. (q1 - q = 0 /\ P * (q1 - q) = 0) \/ (q1 - q = 1 /\ P * (q1 - q) = P)
        \/ q1 - q >= 2 \/ q1 - q <= -1
  BY <1>1, <1>2
<1>6. q1 - q >= 2 => P * (q1 - q) >= P + P
  <2>1. q1 - q >= 2 => P * (q1 - q - 1) >= P
    BY <1>1, <1>2, <1>3
  <2>2. P * (q1 - q - 1) = P * (q1 - q) - P
    BY <1>1, <1>2
  <2> QED
    BY <1>1, <1>2, <1>4, <2>1, <2>2
<1>7. q1 - q <= -1 => P * (q1 - q) <= -P
  BY <1>1, <1>2, <1>3
<1>8. r1 = IF r + 1 = P THEN 0 ELSE r + 1
  <2> DEFINE e == P * (q1 - q)
  <2>1. e \in Int /\ e = r + 1 - r1
    BY <1>1, <1>2, <1>4
  <2>2. e = 0 \/ e = P \/ e >= P + P \/ e <= -P
    BY <1>5, <1>6, <1>7
  <2> HIDE DEF e
  <2> QED
    BY <1>1, <1>2, <2>1, <2>2
<1> QED
  BY <1>8 DEF r, r1

-----------------------------------------------------------------------------
LEMMA InitGuardInv == GuardInit => GuardInv
<1> SUFFICES ASSUME GuardInit PROVE GuardInv
  OBVIOUS
<1>1. TypeOK
  <2>1. turn \in [up : BOOLEAN, at : {0} \cup Reading, compound : BOOLEAN]
    BY DEF GuardInit
  <2>2. rung \in Nominal..Critical /\ reading \in {0} \cup Reading /\ compound \in BOOLEAN
    BY Thresholds DEF GuardInit, Nominal
  <2> QED
    BY <2>1, <2>2, GuardAssumption DEF GuardInit, TypeOK
<1>2. OverheatedMeansHeuristicOnly
  BY DEF GuardInit, OverheatedMeansHeuristicOnly
<1>3. TurnExplainsRung
  BY DEF GuardInit, TurnExplainsRung
<1>4. ExposedWithinStride
  BY GuardAssumption DEF GuardInit, ExposedWithinStride, AskedFor
<1> QED
  BY <1>1, <1>2, <1>3, <1>4 DEF GuardInv, GuardInit, ChunkLeft, AskedAtPoll

\* An update keeps the invariant, and a move that turns round has swung.
LEMMA UpdateStep ==
    ASSUME GuardInv, NEW frac \in Reading, NEW flag \in BOOLEAN, Update(frac, flag)
    PROVE  /\ GuardInv'
           /\ rung' # rung /\ (rung' > rung) # turn.up /\ compound' = turn.compound /\ turn.at # 0
                => Distance(reading', turn.at) >= HysteresisMargin
<1>1. /\ rung \in {0, 1, 2, 3} /\ frac \in Nat /\ rung' = NextRung(frac, flag)
      /\ reading' = frac /\ compound' = flag
      /\ turn.up \in BOOLEAN /\ turn.at \in Nat /\ turn.compound \in BOOLEAN
  <2>1. turn \in [up : BOOLEAN, at : {0} \cup Reading, compound : BOOLEAN]
    BY DEF GuardInv, TypeOK
  <2>2. {0} \cup Reading \subseteq Nat
    BY GuardAssumption
  <2>3. rung \in {0, 1, 2, 3}
    BY Thresholds DEF GuardInv, TypeOK
  <2> QED
    BY <2>1, <2>2, <2>3 DEF Update
<1>2. rung' # rung =>
        /\ turn'.up = (rung' > rung) /\ turn'.at = frac /\ turn'.compound = flag
  <2> SUFFICES ASSUME rung' # rung
               PROVE  turn'.up = (rung' > rung) /\ turn'.at = frac /\ turn'.compound = flag
    OBVIOUS
  <2>1. turn' = [up |-> rung' > rung, at |-> frac, compound |-> flag]
    BY DEF Update
  <2> QED
    BY ONLY <2>1, Zenon
<1>3. /\ rung' \in {0, 1, 2, 3}
      /\ rung' > rung => /\ frac >= EscalateAt[rung'] \/ (rung' = 3 /\ flag)
                         /\ frac >= EscalateAt[rung + 1] \/ (flag /\ frac >= 85)
      /\ rung' < rung => /\ rung' = rung - 1
                         /\ frac < EscalateAt[rung] - 5
                         /\ ~(flag /\ rung = 3)
      /\ TargetState(frac, flag) = 3 => rung' = 3
  BY <1>1, MoveFacts
<1>4. TypeOK'
  <2>1. turn' \in [up : BOOLEAN, at : {0} \cup Reading, compound : BOOLEAN]
    BY <1>1, <1>3 DEF GuardInv, TypeOK, Update
  <2> QED
    BY <1>1, <1>3, <2>1, Thresholds DEF GuardInv, TypeOK, Update, syncVars
<1>5. OverheatedMeansHeuristicOnly'
  BY <1>1, <1>3, TargetFacts DEF OverheatedMeansHeuristicOnly, Policy, Critical
<1>6. TurnExplainsRung'
  <2>1. CASE rung' = rung
    BY <2>1 DEF Update, GuardInv, TurnExplainsRung
  <2>2. CASE rung' > rung
    <3>1. turn'.up /\ turn'.at = frac /\ turn'.compound = flag
      <4>1. rung' # rung
        BY <1>1, <1>3, <2>2
      <4> QED
        BY ONLY <1>2, <2>2, <4>1, Zenon
    <3> QED
      BY <1>1, <1>3, <2>2, <3>1 DEF TurnExplainsRung, Nominal, Critical
  <2>3. CASE rung' < rung
    <3>1. ~turn'.up /\ turn'.at = frac /\ turn'.compound = flag
      <4>1. rung' # rung /\ ~(rung' > rung)
        BY <1>1, <1>3, <2>3
      <4> QED
        BY ONLY <1>2, <4>1, Zenon
    <3>2. rung' + 1 = rung /\ rung' < 3
      BY <1>1, <1>3, <2>3
    <3> QED
      BY <1>1, <1>3, <2>3, <3>1, <3>2 DEF TurnExplainsRung, Nominal, Critical, HysteresisMargin
  <2> QED
    BY <1>1, <1>3, <2>1, <2>2, <2>3
<1>7. ASSUME rung' # rung, (rung' > rung) # turn.up, compound' = turn.compound, turn.at # 0
      PROVE  Distance(reading', turn.at) >= HysteresisMargin
  <2>1. CASE rung' > rung
    <3>1. ~turn.up
      BY <1>1, <1>7, <2>1
    <3>2. /\ rung < 3 /\ turn.at < EscalateAt[rung + 1] - 5
          /\ ~(rung + 1 = 3 /\ flag)
      BY <1>1, <1>7, <3>1 DEF GuardInv, TurnExplainsRung, Critical, HysteresisMargin
    <3>3. EscalateAt[rung + 1] \in {70, 85, 95} /\ (flag => EscalateAt[rung + 1] <= 85)
      BY <1>1, <3>2, Thresholds
    <3>4. turn.at + 5 < frac
      BY <1>1, <1>3, <2>1, <3>2, <3>3
    <3> QED
      BY <1>1, <3>4 DEF Distance, HysteresisMargin
  <2>2. CASE rung' < rung
    <3>1. turn.up
      BY <1>1, <1>3, <1>7, <2>2
    <3>2. rung > 0 /\ (turn.at >= EscalateAt[rung] \/ (rung = 3 /\ flag))
      BY <1>1, <1>7, <3>1 DEF GuardInv, TurnExplainsRung, Nominal, Critical
    <3>3. EscalateAt[rung] \in {70, 85, 95}
      BY <1>1, <3>2, Thresholds
    <3>4. frac + 5 < turn.at
      BY <1>1, <1>3, <2>2, <3>2, <3>3
    <3> QED
      BY <1>1, <3>4 DEF Distance, HysteresisMargin
  <2> QED
    BY <1>1, <1>3, <1>7, <2>1, <2>2
<1>8. ChunkLeft' /\ ExposedWithinStride' /\ AskedAtPoll'
  BY DEF GuardInv, ChunkLeft, ExposedWithinStride, AskedFor, AskedAtPoll, Update, syncVars
<1> QED
  BY <1>4, <1>5, <1>6, <1>7, <1>8 DEF GuardInv

\* The upload leaves the governor alone.
LEMMA UploadStep ==
    ASSUME GuardInv, ChangeDevice \/ Begin \/ Poll \/ PollWifi \/ SendChunk
    PROVE  GuardInv' /\ UNCHANGED govVars
<1>1. UNCHANGED govVars
  BY DEF ChangeDevice, Begin, Poll, PollWifi, SendChunk
<1>2. OverheatedMeansHeuristicOnly' /\ TurnExplainsRung'
  BY <1>1 DEF GuardInv, govVars, OverheatedMeansHeuristicOnly, TurnExplainsRung
<1>3. /\ device' \subseteq Need /\ upload' \in {"idle", "poll", "wifi", "send"}
      /\ chunk' \in 0..TotalChunks /\ ChunkLeft' /\ AskedAtPoll'
  BY GuardAssumption DEF GuardInv, TypeOK, ChunkLeft, AskedAtPoll, ChangeDevice, Begin, Poll, PollWifi, SendChunk
<1>4. exposed' \in [Need -> Nat]
  BY DEF GuardInv, TypeOK, ChangeDevice, Begin, Poll, PollWifi, SendChunk
<1>5. /\ chunk \in Nat /\ exposed \in [Need -> Nat] /\ PollInterval \in Nat \ {0}
      /\ ExposedWithinStride /\ AskedAtPoll
  BY GuardAssumption DEF GuardInv, TypeOK
<1>6. chunk % PollInterval \in 0..(PollInterval - 1)
  BY <1>5
<1>7. ExposedWithinStride'
  <2> SUFFICES ASSUME NEW n \in Need
               PROVE  /\ n \in device' => exposed'[n] = 0
                      /\ AskedFor(n)' => exposed'[n] <= chunk' % PollInterval
                      /\ exposed'[n] <= PollInterval
    BY DEF ExposedWithinStride
  <2>1. exposed[n] \in Nat
    BY <1>5
  <2>2. /\ n \in device => exposed[n] = 0
        /\ AskedFor(n) => exposed[n] <= chunk % PollInterval
        /\ exposed[n] <= PollInterval
    BY <1>5 DEF ExposedWithinStride
  <2>3. CASE ChangeDevice
    <3>1. /\ upload' = upload /\ chunk' = chunk
          /\ exposed'[n] = 0 \/ (exposed'[n] = exposed[n] /\ (n \in device' => n \in device))
      BY <1>5, <2>3 DEF ChangeDevice
    <3> QED
      BY <1>5, <1>6, <2>1, <2>2, <3>1 DEF AskedFor
  <2>4. CASE Begin
    <3>1. chunk' % PollInterval = 0
      BY <1>5, <2>4 DEF Begin
    <3> QED
      BY <2>2, <2>4, <3>1 DEF Begin, AskedFor
  <2>5. CASE Poll
    <3>1. device' = device /\ chunk' = chunk /\ exposed' = exposed /\ upload = "poll"
      BY <2>5 DEF Poll
    <3>2. \/ upload' = "send" /\ chunk % PollInterval # 0
          \/ upload' = "wifi" /\ "charger" \in device
          \/ upload' = "idle"
      BY <2>5 DEF Poll
    <3> QED
      BY <1>6, <2>1, <2>2, <3>1, <3>2 DEF AskedFor
  <2>6. CASE PollWifi
    <3>1. device' = device /\ chunk' = chunk /\ exposed' = exposed /\ upload = "wifi"
      BY <2>6 DEF PollWifi
    <3>2. (upload' = "send" /\ "wifi" \in device) \/ upload' = "idle"
      BY <2>6 DEF PollWifi
    <3>3. n = "charger" \/ n = "wifi"
      BY DEF Need
    <3> QED
      BY <1>6, <2>1, <2>2, <3>1, <3>2, <3>3 DEF AskedFor
  <2>7. CASE SendChunk
    <3>1. /\ device' = device /\ chunk' = chunk + 1 /\ upload = "send"
          /\ exposed'[n] = IF n \in device THEN 0 ELSE exposed[n] + 1
          /\ upload' \in {"idle", "poll"}
      BY <2>7 DEF SendChunk
    <3>2. exposed[n] <= chunk % PollInterval
      BY <2>2, <3>1 DEF AskedFor
    <3>3. chunk' % PollInterval = IF (chunk % PollInterval) + 1 = PollInterval
                                  THEN 0 ELSE (chunk % PollInterval) + 1
      BY <1>5, <3>1, NextInStride
    <3> DEFINE k == chunk % PollInterval
               l == chunk' % PollInterval
    <3>4. /\ k \in 0..(PollInterval - 1) /\ exposed[n] <= k
          /\ l = IF k + 1 = PollInterval THEN 0 ELSE k + 1
      BY <1>6, <3>2, <3>3
    <3> HIDE DEF k, l
    <3>5. /\ exposed'[n] <= PollInterval /\ (l # 0 => exposed'[n] <= l)
          /\ n \in device' => exposed'[n] = 0
      BY <1>5, <2>1, <3>1, <3>4
    <3> QED
      BY <3>1, <3>5 DEF l, AskedFor
  <2> QED
    BY <2>3, <2>4, <2>5, <2>6, <2>7
<1> QED
  BY <1>1, <1>2, <1>3, <1>4, <1>7 DEF GuardInv, TypeOK, govVars

-----------------------------------------------------------------------------
\* The inductive invariant holds in every reachable state.
THEOREM GuardInvariance == GuardSpec => []GuardInv
<1>1. GuardInv /\ [GuardNext]_guardVars => GuardInv'
  <2> SUFFICES ASSUME GuardInv, [GuardNext]_guardVars PROVE GuardInv'
    OBVIOUS
  <2>1. CASE AnyReading
    BY <2>1, UpdateStep DEF AnyReading
  <2>2. CASE ChangeDevice \/ Begin \/ Poll \/ PollWifi \/ SendChunk
    BY <2>2, UploadStep
  <2>3. CASE UNCHANGED guardVars
    BY <2>3 DEF guardVars, govVars, syncVars, GuardInv, TypeOK, OverheatedMeansHeuristicOnly,
                TurnExplainsRung, ChunkLeft, ExposedWithinStride, AskedFor, AskedAtPoll
  <2> QED
    BY <2>1, <2>2, <2>3 DEF GuardNext
<1> QED
  BY InitGuardInv, <1>1, PTL DEF GuardSpec

\* The variables of the governor and of the upload stay within their types.
THEOREM GuardTypeCorrect == GuardSpec => []TypeOK
<1>1. GuardInv => TypeOK
  BY DEF GuardInv
<1> QED
  BY GuardInvariance, <1>1, PTL

\* No model runs on a phone that its last reading calls overheated, or severe
\* without its accelerator (thermal_governor.py:112-138).
THEOREM HeatStopsModels == GuardSpec => []OverheatedMeansHeuristicOnly
<1>1. GuardInv => OverheatedMeansHeuristicOnly
  BY DEF GuardInv
<1> QED
  BY GuardInvariance, <1>1, PTL

\* No more than one polling interval of chunks goes out after the phone lost its
\* charger, or its Wi-Fi, for every interval and wherever in the loop or between
\* the two questions of a poll it lost it (sync_scheduler.py:31-66).
THEOREM UploadStopsInTime == GuardSpec => []AbortWithinOnePoll
<1>1. GuardInv => AbortWithinOnePoll
  BY DEF GuardInv, ExposedWithinStride, AbortWithinOnePoll
<1> QED
  BY GuardInvariance, <1>1, PTL

\* The governor turns round only after a swing of at least the margin, for every
\* sequence of readings (thermal_governor.py:112-147).
THEOREM NoFlapping == GuardSpec => TurnsNeedASwing
<1> DEFINE Swing == (/\ rung' # rung
                     /\ (rung' > rung) # turn.up
                     /\ compound' = turn.compound
                     /\ turn.at # 0)
                        => Distance(reading', turn.at) >= HysteresisMargin
<1>1. GuardInv /\ [GuardNext]_guardVars => [Swing]_guardVars
  <2> SUFFICES ASSUME GuardInv, GuardNext PROVE Swing
    OBVIOUS
  <2>1. CASE AnyReading
    BY <2>1, UpdateStep DEF AnyReading
  <2>2. CASE ChangeDevice \/ Begin \/ Poll \/ PollWifi \/ SendChunk
    BY <2>2, UploadStep DEF govVars
  <2> QED
    BY <2>1, <2>2 DEF GuardNext
<1>2. GuardSpec => [][Swing]_guardVars
  BY GuardInvariance, <1>1, PTL DEF GuardSpec
<1> QED
  BY <1>2 DEF TurnsNeedASwing

-----------------------------------------------------------------------------
\* The first n of a finite set of devices are n of them, or all when they are
\* fewer: a device that is left out has n smaller ones that are not.
LEMMA FirstOfDevices ==
    ASSUME NEW S, S \subseteq Nat, IsFiniteSet(S), NEW n \in Nat
    PROVE  /\ First(n, S) \subseteq S
           /\ Cardinality(First(n, S)) >= n \/ First(n, S) = S
<1> DEFINE F == First(n, S)
<1>1. F \subseteq S /\ IsFiniteSet(F) /\ Cardinality(F) \in Nat
  <2>1. F \in SUBSET S
    BY DEF First
  <2> QED
    BY <2>1, FS_Subset, FS_CardinalityType
<1>2. ASSUME Cardinality(F) < n PROVE F = S
  <2> SUFFICES ASSUME NEW d \in S, d \notin F PROVE FALSE
    BY <1>1
  <2>1. S \ F \in SUBSET Nat /\ d \in S \ F
    OBVIOUS
  <2>2. PICK m \in S \ F : \A k \in S \ F : m <= k
    BY <2>1, SmallestOf
  <2>3. {e \in S : e < m} \in SUBSET F
    BY <2>1, <2>2
  <2>4. Cardinality({e \in S : e < m}) <= Cardinality(F) /\ Cardinality({e \in S : e < m}) \in Nat
    BY <1>1, <2>3, FS_Subset, FS_CardinalityType
  <2>5. Cardinality({e \in S : e < m}) < n
    BY <1>1, <1>2, <2>4
  <2>6. m \in F
    BY <2>2, <2>5 DEF First
  <2> QED
    BY <2>2, <2>6
<1> QED
  BY <1>1, <1>2

\* The smaller of two numbers.
LEMMA SmallerOfTwo ==
    ASSUME NEW a \in Nat, NEW b \in Nat
    PROVE  Min({a, b}) \in Nat /\ Min({a, b}) <= a /\ Min({a, b}) <= b
<1>1. \E m \in {a, b} : \A k \in {a, b} : m <= k
  OBVIOUS
<1>2. Min({a, b}) \in {a, b} /\ \A k \in {a, b} : Min({a, b}) <= k
  BY <1>1 DEF Min
<1> QED
  BY <1>2

Members(s) == {d \in Device : StratumOf[d] = s}

\* The cohort is of known devices, and holds the guaranteed ones of a stratum.
LEMMA CohortCovers ==
    /\ StratifiedCanaryCohort \subseteq Device
    /\ \A s \in Stratum : First(MinPerStratum, Members(s)) \subseteq StratifiedCanaryCohort
<1> DEFINE guaranteed == UNION {First(MinPerStratum, {d \in Device : StratumOf[d] = s}) : s \in Stratum}
           budget     == Cardinality(Device) \div FractionDiv - Cardinality(guaranteed)
<1>1. StratifiedCanaryCohort = guaranteed \cup First(budget, Device \ guaranteed)
  BY DEF StratifiedCanaryCohort
<1>2. First(budget, Device \ guaranteed) \subseteq Device
  BY DEF First
<1>3. guaranteed \subseteq Device
  BY DEF First
<1>4. \A s \in Stratum : First(MinPerStratum, Members(s)) \subseteq guaranteed
  BY DEF Members
<1> QED
  BY <1>1, <1>2, <1>3, <1>4

-----------------------------------------------------------------------------
DevicesKnown == updated \subseteq Device /\ silent \subseteq Device

RolloutInv == DevicesKnown /\ RegressedSliceCaught

\* The decision: a stratum on which the model regressed was not reported by any
\* device of the cohort, so its guaranteed devices are all among the silent.
LEMMA DecisionSeesSlices ==
    ASSUME DevicesKnown, Decide
    PROVE  DevicesKnown' /\ RegressedSliceCaught'
<1>1. PICK quiet \in SUBSET updated :
        /\ silent' = quiet \cup (StratifiedCanaryCohort \ updated)
        /\ stage' = EvaluateCanary(updated \ quiet)
  BY DEF Decide
<1>2. recall' = recall /\ updated' \subseteq Device
  BY DEF Decide
<1>3. silent' \subseteq Device
  BY <1>1, CohortCovers DEF DevicesKnown
<1>4. ASSUME stage' = "promoted", NEW s \in Stratum, RegressedBelow(Baseline, recall[s])
      PROVE  Cardinality(silent' \cap Members(s)) >= Min({MinPerStratum, Cardinality(Members(s))})
  <2>1. \A d \in updated \ quiet : StratumOf[d] # s
    BY <1>1, <1>4 DEF EvaluateCanary
  <2>2. PICK F : F = First(MinPerStratum, Members(s))
    OBVIOUS
  <2>3. Members(s) \in SUBSET Device /\ MinPerStratum \in Nat /\ Device \subseteq Nat
    BY RolloutAssumption DEF Members
  <2>4. IsFiniteSet(Members(s)) /\ Cardinality(Members(s)) \in Nat
    BY <2>3, RolloutAssumption, FS_Subset, FS_CardinalityType
  <2>5. F \subseteq Members(s) /\ (Cardinality(F) >= MinPerStratum \/ F = Members(s))
    BY <2>2, <2>3, <2>4, FirstOfDevices
  <2>6. F \subseteq StratifiedCanaryCohort
    BY <2>2, CohortCovers
  <2>7. \A d \in Members(s) : StratumOf[d] = s
    BY DEF Members
  <2>8. F \in SUBSET (silent' \cap Members(s))
    BY <1>1, <2>1, <2>5, <2>6, <2>7
  <2>9. silent' \cap Members(s) \in SUBSET Members(s)
    OBVIOUS
  <2>10. IsFiniteSet(silent' \cap Members(s)) /\ Cardinality(silent' \cap Members(s)) \in Nat
    BY <2>4, <2>9, FS_Subset, FS_CardinalityType
  <2>11. Cardinality(F) <= Cardinality(silent' \cap Members(s)) /\ Cardinality(F) \in Nat
    BY <2>8, <2>10, FS_Subset, FS_CardinalityType
  <2>12. /\ Min({MinPerStratum, Cardinality(Members(s))}) \in Nat
         /\ Min({MinPerStratum, Cardinality(Members(s))}) <= MinPerStratum
         /\ Min({MinPerStratum, Cardinality(Members(s))}) <= Cardinality(Members(s))
    BY <2>3, <2>4, SmallerOfTwo
  <2>13. CASE F = Members(s)
    BY <2>4, <2>10, <2>11, <2>12, <2>13
  <2>14. CASE Cardinality(F) >= MinPerStratum
    BY <2>3, <2>10, <2>11, <2>12, <2>14
  <2> QED
    BY <2>5, <2>13, <2>14
<1>5. RegressedSliceCaught'
  BY <1>2, <1>4 DEF RegressedSliceCaught, Members
<1> QED
  BY <1>2, <1>3, <1>5 DEF DevicesKnown

\* The invariant of the rollouts holds in every reachable state.
THEOREM RolloutInvariance == Spec => []RolloutInv
<1>1. Init => RolloutInv
  BY DEF Init, RolloutInit, RolloutInv, DevicesKnown, RegressedSliceCaught
<1>2. RolloutInv /\ [Next]_vars => RolloutInv'
  <2> SUFFICES ASSUME RolloutInv, [Next]_vars PROVE RolloutInv'
    OBVIOUS
  <2>1. ASSUME UNCHANGED rolloutVars PROVE RolloutInv'
    BY <2>1 DEF RolloutInv, DevicesKnown, RegressedSliceCaught, rolloutVars
  <2>2. CASE Release
    <3>1. stage' = "canary" /\ updated' = StratifiedCanaryCohort /\ silent' = {}
      BY <2>2 DEF Release
    <3> QED
      BY <3>1, CohortCovers DEF RolloutInv, DevicesKnown, RegressedSliceCaught
  <2>3. CASE Decide
    BY <2>3, DecisionSeesSlices DEF RolloutInv
  <2>4. ASSUME NEW d \in Device, RecordCrash(d) PROVE RolloutInv'
    <3>1. updated' \subseteq updated /\ UNCHANGED <<stage, recall, silent>>
      BY <2>4 DEF RecordCrash
    <3> QED
      BY <3>1 DEF RolloutInv, DevicesKnown, RegressedSliceCaught
  <2> QED
    BY <2>1, <2>2, <2>3, <2>4 DEF Next, ReleaseAggregate, RolloutStep, vars
<1> QED
  BY <1>1, <1>2, PTL DEF Spec

\* A model that regressed on a stratum is not promoted over what the devices
\* of its guaranteed sample reported.
THEOREM RegressionIsSeen == Spec => []RegressedSliceCaught
<1>1. RolloutInv => RegressedSliceCaught
  BY DEF RolloutInv
<1> QED
  BY <1>1, RolloutInvariance, PTL

-----------------------------------------------------------------------------
\* The library adds up a set in the order in which CHOOSE takes its elements.
Pick(s) == CHOOSE x \in s : TRUE

\* h[s] is the sum of f over s, for every s \subseteq S.
Sums(h, f, S) ==
    h = [s \in SUBSET S |-> IF s = {} THEN 0 ELSE f[Pick(s)] + h[s \ {Pick(s)}]]

\* Folding a function over a set applies one of these sums to the whole set.
LEMMA FoldIsSum ==
    ASSUME NEW f, NEW S
    PROVE  SumFunctionOnSet(f, S) = (CHOOSE h : Sums(h, f, S))[S]
  BY DEF SumFunctionOnSet, FoldFunctionOnSet, MapThenFoldSet, Sums, Pick

\* The subsets of S of at most n elements.
Upto(S, n) == {s \in SUBSET S : Cardinality(s) <= n}

\* There is such a function, built for larger and larger subsets.
LEMMA SumsExist ==
    ASSUME NEW f, NEW S, IsFiniteSet(S)
    PROVE  \E h : Sums(h, f, S)
<1> DEFINE Good(n) == \E g : g = [s \in Upto(S, n) |-> IF s = {} THEN 0 ELSE f[Pick(s)] + g[s \ {Pick(s)}]]
           Bad == {n \in Nat : ~Good(n)}
<1>1. \A s \in SUBSET S : IsFiniteSet(s) /\ Cardinality(s) \in Nat
  BY FS_Subset, FS_CardinalityType
<1>2. \A s \in SUBSET S : s # {} => Pick(s) \in s /\ Cardinality(s \ {Pick(s)}) = Cardinality(s) - 1
  <2> SUFFICES ASSUME NEW s \in SUBSET S, s # {} PROVE Pick(s) \in s /\ Cardinality(s \ {Pick(s)}) = Cardinality(s) - 1
    OBVIOUS
  <2>1. Pick(s) \in s
    BY DEF Pick
  <2> QED
    BY <1>1, <2>1, FS_RemoveElement
<1>3. Good(0)
  <2> DEFINE g == [s \in Upto(S, 0) |-> 0]
  <2>1. \A s \in Upto(S, 0) : s = {}
    BY <1>1, FS_EmptySet DEF Upto
  <2>2. g = [s \in Upto(S, 0) |-> IF s = {} THEN 0 ELSE f[Pick(s)] + g[s \ {Pick(s)}]]
    BY <2>1
  <2> QED
    BY <2>2
<1>4. ASSUME NEW m \in Nat, Good(m) PROVE Good(m + 1)
  <2>1. PICK g : g = [s \in Upto(S, m) |-> IF s = {} THEN 0 ELSE f[Pick(s)] + g[s \ {Pick(s)}]]
    BY <1>4
  <2>2. PICK h : h = [s \in Upto(S, m + 1) |-> IF s = {} THEN 0 ELSE f[Pick(s)] + g[s \ {Pick(s)}]]
    OBVIOUS
  <2>3. \A s \in Upto(S, m) : s \in Upto(S, m + 1) /\ h[s] = g[s]
    <3> SUFFICES ASSUME NEW s \in Upto(S, m) PROVE s \in Upto(S, m + 1) /\ h[s] = g[s]
      OBVIOUS
    <3>1. s \in Upto(S, m + 1)
      BY <1>1 DEF Upto
    <3> QED
      BY <2>1, <2>2, <3>1
  <2>4. \A s \in Upto(S, m + 1) : s # {} => s \ {Pick(s)} \in Upto(S, m)
    BY <1>1, <1>2 DEF Upto
  <2>5. h = [s \in Upto(S, m + 1) |-> IF s = {} THEN 0 ELSE f[Pick(s)] + h[s \ {Pick(s)}]]
    BY <2>2, <2>3, <2>4
  <2> QED
    BY <2>5
<1>5. Bad = {}
  <2> SUFFICES ASSUME Bad # {} PROVE FALSE
    OBVIOUS
  <2> HIDE DEF Good
  <2>1. PICK m \in Bad : \A k \in Bad : m <= k
    BY SmallestOf
  <2>2. m \in Nat /\ m # 0
    BY <1>3
  <2>3. m - 1 \in Nat /\ m - 1 \notin Bad
    BY <2>1, <2>2
  <2>4. Good((m - 1) + 1)
    BY <1>4, <2>3
  <2> QED
    BY <2>2, <2>4
<1>6. Good(Cardinality(S))
  <2> HIDE DEF Good
  <2> QED
    BY <1>1, <1>5
<1>7. Upto(S, Cardinality(S)) = SUBSET S
  BY <1>1, FS_Subset DEF Upto
<1> QED
  BY <1>6, <1>7 DEF Sums

\* Induction over a finite set: of some of its subsets there is one that is in
\* the collection without any of those that it is one element larger than.
LEMMA SmallestSet ==
    ASSUME NEW S, IsFiniteSet(S), NEW B, B \subseteq SUBSET S, B # {}
    PROVE  \E s \in B : \A y \in s : s \ {y} \notin B
<1> DEFINE Sizes == {Cardinality(s) : s \in B}
<1>1. \A s \in B : IsFiniteSet(s) /\ Cardinality(s) \in Nat
  BY FS_Subset, FS_CardinalityType
<1>2. PICK m \in Sizes : \A k \in Sizes : m <= k
  <2>1. Sizes \subseteq Nat /\ Sizes # {}
    BY <1>1
  <2> HIDE DEF Sizes
  <2> QED
    BY <2>1, SmallestOf
<1>3. PICK s \in B : m = Cardinality(s)
  OBVIOUS
<1>4. ASSUME NEW y \in s, s \ {y} \in B PROVE FALSE
  <2>1. Cardinality(s \ {y}) = Cardinality(s) - 1
    BY <1>1, FS_RemoveElement
  <2>2. Cardinality(s) <= Cardinality(s \ {y})
    BY <1>2, <1>3, <1>4
  <2> QED
    BY <1>1, <2>1, <2>2
<1> QED
  BY <1>4

\* The sum of nothing.
LEMMA SumOfNone ==
    ASSUME NEW f, NEW S, NEW h, Sums(h, f, S)
    PROVE  h[{}] = 0
  BY DEF Sums

\* The element taken first and the others make the sum.
LEMMA SumStep ==
    ASSUME NEW f, NEW S, NEW h, Sums(h, f, S), NEW s \in SUBSET S, s # {}
    PROVE  \E p \in s : p = Pick(s) /\ h[s] = f[p] + h[s \ {p}]
  BY DEF Sums, Pick

\* Sums of integers are integers.
LEMMA SumIsInt ==
    ASSUME NEW f, NEW S, IsFiniteSet(S), \A x \in S : f[x] \in Int, NEW h, Sums(h, f, S),
           NEW s \in SUBSET S
    PROVE  h[s] \in Int
<1> DEFINE B == {t \in SUBSET S : h[t] \notin Int}
<1> SUFFICES ASSUME B # {} PROVE FALSE
  OBVIOUS
<1>1. PICK t \in B : \A y \in t : t \ {y} \notin B
  <2> HIDE DEF B
  <2>1. B \subseteq SUBSET S
    BY DEF B
  <2> QED
    BY <2>1, SmallestSet
<1>2. t \in SUBSET S /\ h[t] \notin Int
  BY <1>1
<1>3. t # {}
  BY <1>2, SumOfNone
<1>4. PICK p \in t : h[t] = f[p] + h[t \ {p}]
  BY <1>2, <1>3, SumStep
<1>5. h[t \ {p}] \in Int
  BY <1>1, <1>2
<1>6. f[p] \in Int
  BY <1>2
<1> HIDE DEF B
<1> QED
  BY <1>2, <1>4, <1>5, <1>6

\* Any element may be taken first.
LEMMA AnyOrder ==
    ASSUME NEW f, NEW S, IsFiniteSet(S), \A x \in S : f[x] \in Int, NEW h, Sums(h, f, S),
           NEW s \in SUBSET S, NEW y \in s
    PROVE  h[s] = f[y] + h[s \ {y}]
<1> DEFINE B == {t \in SUBSET S : \E z \in t : h[t] # f[z] + h[t \ {z}]}
<1> SUFFICES ASSUME B # {} PROVE FALSE
  OBVIOUS
<1>1. PICK t \in B : \A z \in t : t \ {z} \notin B
  <2> HIDE DEF B
  <2>1. B \subseteq SUBSET S
    BY DEF B
  <2> QED
    BY <2>1, SmallestSet
<1>2. t \in SUBSET S
  BY <1>1
<1>3. PICK z \in t : h[t] # f[z] + h[t \ {z}]
  BY <1>1
<1>4. t # {}
  BY <1>3
<1>5. PICK p \in t : h[t] = f[p] + h[t \ {p}]
  BY <1>2, <1>4, SumStep
<1>6. p # z
  BY <1>3, <1>5
<1>7. h[t \ {p}] = f[z] + h[(t \ {p}) \ {z}]
  BY <1>1, <1>2, <1>6
<1>8. h[t \ {z}] = f[p] + h[(t \ {z}) \ {p}]
  BY <1>1, <1>2, <1>6
<1>9. PICK u \in SUBSET S : u = (t \ {p}) \ {z} /\ u = (t \ {z}) \ {p}
  BY <1>2
<1>10. PICK a \in Int : a = h[u]
  BY <1>9, SumIsInt
<1>11. PICK b \in Int, c \in Int : b = f[p] /\ c = f[z]
  BY <1>2
<1> HIDE DEF B
<1>12. h[t] = b + (c + a)
  BY <1>5, <1>7, <1>9, <1>10, <1>11
<1>13. f[z] + h[t \ {z}] = c + (b + a)
  BY <1>8, <1>9, <1>10, <1>11
<1> QED
  BY <1>3, <1>12, <1>13

\* The sum over a set does not depend on the larger one it was taken from.
LEMMA SameSums ==
    ASSUME NEW f, NEW S, IsFiniteSet(S), NEW h, Sums(h, f, S),
           NEW T \in SUBSET S, NEW g, Sums(g, f, T)
    PROVE  g[T] = h[T]
<1> DEFINE B == {s \in SUBSET T : g[s] # h[s]}
<1> SUFFICES ASSUME B # {} PROVE FALSE
  OBVIOUS
<1>1. IsFiniteSet(T)
  BY FS_Subset
<1>2. PICK s \in B : \A y \in s : s \ {y} \notin B
  <2> HIDE DEF B
  <2>1. B \subseteq SUBSET T
    BY DEF B
  <2> QED
    BY <1>1, <2>1, SmallestSet
<1>3. s # {}
  BY <1>2 DEF Sums
<1>4. Pick(s) \in s
  BY <1>3 DEF Pick
<1>5. g[s \ {Pick(s)}] = h[s \ {Pick(s)}]
  BY <1>2, <1>4
<1>6. g[s] = f[Pick(s)] + g[s \ {Pick(s)}]
  BY <1>2, <1>3 DEF Sums
<1>7. h[s] = f[Pick(s)] + h[s \ {Pick(s)}]
  BY <1>2, <1>3 DEF Sums
<1> QED
  BY <1>2, <1>5, <1>6, <1>7

\* A sum of integers is that of nothing, or any element and the sum of the others.
LEMMA SumSplits ==
    ASSUME NEW f, NEW S, IsFiniteSet(S), \A x \in S : f[x] \in Int
    PROVE  /\ S = {} => SumFunctionOnSet(f, S) = 0
           /\ SumFunctionOnSet(f, S) \in Int
           /\ \A y \in S : SumFunctionOnSet(f, S) = f[y] + SumFunctionOnSet(f, S \ {y})
<1>1. PICK h : Sums(h, f, S) /\ SumFunctionOnSet(f, S) = h[S]
  BY SumsExist, FoldIsSum
<1>2. S = {} => h[S] = 0
  BY <1>1, SumOfNone
<1>3. h[S] \in Int
  BY <1>1, SumIsInt
<1>4. ASSUME NEW y \in S PROVE h[S] = f[y] + SumFunctionOnSet(f, S \ {y})
  <2>1. IsFiniteSet(S \ {y}) /\ S \ {y} \in SUBSET S
    BY FS_Subset
  <2>2. PICK g : Sums(g, f, S \ {y}) /\ SumFunctionOnSet(f, S \ {y}) = g[S \ {y}]
    BY <2>1, SumsExist, FoldIsSum
  <2>3. g[S \ {y}] = h[S \ {y}]
    BY <1>1, <2>1, <2>2, SameSums
  <2>4. h[S] = f[y] + h[S \ {y}]
    BY <1>1, AnyOrder
  <2> QED
    BY <2>2, <2>3, <2>4
<1> QED
  BY <1>1, <1>2, <1>3, <1>4

-----------------------------------------------------------------------------
\* Each client has an update.
UpdatesAreInts == update \in [Client -> Int]

\* Updates are integers.
LEMMA PreparedAreInts == AnyUpdate \subseteq Int
<1> SUFFICES ASSUME NEW c \in Client, NEW v \in Prepared(c) PROVE v \in Int
  BY DEF AnyUpdate
<1>1. CASE c \in Poisoned
  BY <1>1, RoundAssumption DEF Prepared
<1>2. CASE c \notin Poisoned
  <2>1. PICK u \in Raw : v \in AddGaussianNoise(ClipByL2Norm(u))
    BY <1>2 DEF Prepared
  <2>2. u \in Int /\ ClipNorm \in Int
    BY RoundAssumption
  <2>3. ClipByL2Norm(u) \in Int
    BY <2>2 DEF ClipByL2Norm
  <2>4. PICK n \in Noise : v = ClipByL2Norm(u) + n
    BY <2>1 DEF AddGaussianNoise
  <2>5. n \in Int
    BY RoundAssumption
  <2> QED
    BY <2>3, <2>4, <2>5
<1> QED
  BY <1>1, <1>2

-----------------------------------------------------------------------------
\* A finite set of integers has a largest one.
LEMMA LargestOf ==
    ASSUME NEW S, S \subseteq Int, IsFiniteSet(S), S # {}
    PROVE  Max(S) \in S /\ \A k \in S : k <= Max(S)
<1> DEFINE HasMax(s) == \E m \in s : \A k \in s : k <= m
           B == {s \in SUBSET S : s # {} /\ ~HasMax(s)}
<1>1. B = {}
  <2> SUFFICES ASSUME B # {} PROVE FALSE
    OBVIOUS
  <2>1. PICK s \in B : \A y \in s : s \ {y} \notin B
    <3> HIDE DEF B
    <3>1. B \subseteq SUBSET S
      BY DEF B
    <3> QED
      BY <3>1, SmallestSet
  <2>2. s \in SUBSET S /\ s # {} /\ ~HasMax(s)
    BY <2>1
  <2>3. PICK y \in s : TRUE
    BY <2>2
  <2>4. CASE s \ {y} = {}
    <3>1. s = {y} /\ y \in Int
      BY <2>2, <2>4
    <3> QED
      BY <2>2, <3>1
  <2>5. CASE s \ {y} # {}
    <3>1. HasMax(s \ {y})
      BY <2>1, <2>2, <2>5
    <3>2. PICK m \in s \ {y} : \A k \in s \ {y} : k <= m
      BY <3>1
    <3>3. m \in Int /\ y \in Int /\ \A k \in s : k \in Int
      BY <2>2
    <3>4. CASE y <= m
      <4>1. \A k \in s : k <= m
        BY <3>2, <3>4
      <4> QED
        BY <2>2, <4>1
    <3>5. CASE m < y
      <4>1. \A k \in s : k <= y
        BY <3>2, <3>3, <3>5
      <4> QED
        BY <2>2, <4>1
    <3> QED
      BY <3>3, <3>4, <3>5
  <2> QED
    BY <2>4, <2>5
<1>2. \E m \in S : \A k \in S : k <= m
  BY <1>1
<1>3. \E m \in S : \A k \in S : m >= k
  BY <1>2
<1>4. Max(S) \in S /\ \A k \in S : Max(S) >= k
  BY <1>3 DEF Max
<1> QED
  BY <1>4

\* No outcome of the noise is larger than the largest.
LEMMA NoiseIsBounded ==
    LargestNoise \in Nat /\ \A n \in Noise : n <= LargestNoise /\ -LargestNoise <= n
<1> DEFINE size(n) == IF n < 0 THEN -n ELSE n
           Sizes   == {size(n) : n \in Noise}
<1>1. [n \in Noise |-> size(n)] \in Surjection(Noise, Sizes)
  BY DEF Surjection
<1>2. IsFiniteSet(Sizes) /\ Sizes # {} /\ Sizes \subseteq Nat
  <2>1. IsFiniteSet(Sizes)
    BY <1>1, FS_Surjection, RoundAssumption
  <2> QED
    BY <2>1, RoundAssumption
<1>3. LargestNoise = Max(Sizes)
  BY DEF LargestNoise
<1>4. LargestNoise \in Sizes /\ \A k \in Sizes : k <= LargestNoise
  <2> HIDE DEF Sizes
  <2>1. Sizes \subseteq Int
    BY <1>2
  <2> QED
    BY <1>2, <1>3, <2>1, LargestOf
<1>5. ASSUME NEW n \in Noise PROVE n <= LargestNoise /\ -LargestNoise <= n
  <2>1. n \in Int /\ size(n) <= LargestNoise /\ LargestNoise \in Nat
    BY <1>2, <1>4, RoundAssumption
  <2> QED
    BY <2>1
<1> QED
  BY <1>2, <1>4, <1>5

\* How far from 0 an honest update can be.
Reach == ClipNorm + LargestNoise

\* Clipping and noise leave an update within that.
LEMMA HonestUpdatesInReach ==
    ASSUME NEW c \in Client, c \notin Poisoned, NEW v \in Prepared(c)
    PROVE  v \in Int /\ -Reach <= v /\ v <= Reach
<1>1. PICK u \in Raw : v \in AddGaussianNoise(ClipByL2Norm(u))
  BY DEF Prepared
<1>2. u \in Int /\ ClipNorm \in Nat /\ LargestNoise \in Nat
  BY NoiseIsBounded, RoundAssumption
<1>3. PICK w \in Int : w = ClipByL2Norm(u) /\ -ClipNorm <= w /\ w <= ClipNorm
  BY <1>2 DEF ClipByL2Norm
<1>4. PICK n \in Noise : v = w + n
  BY <1>1, <1>3 DEF AddGaussianNoise
<1>5. n \in Int /\ n <= LargestNoise /\ -LargestNoise <= n
  BY NoiseIsBounded, RoundAssumption
<1> QED
  BY <1>2, <1>3, <1>4, <1>5 DEF Reach

\* The sum of numbers within r is within r times as many.
LEMMA SumInReach ==
    ASSUME NEW S, IsFiniteSet(S), NEW f, NEW r \in Nat,
           \A x \in S : f[x] \in Int /\ -r <= f[x] /\ f[x] <= r
    PROVE  -(Cardinality(S) * r) <= SumFunctionOnSet(f, S) /\ SumFunctionOnSet(f, S) <= Cardinality(S) * r
<1> DEFINE Within(s) == -(Cardinality(s) * r) <= SumFunctionOnSet(f, s) /\ SumFunctionOnSet(f, s) <= Cardinality(s) * r
           B == {s \in SUBSET S : ~Within(s)}
<1> SUFFICES ASSUME B # {} PROVE FALSE
  OBVIOUS
<1>1. PICK s \in B : \A y \in s : s \ {y} \notin B
  <2> HIDE DEF B
  <2>1. B \subseteq SUBSET S
    BY DEF B
  <2> QED
    BY <2>1, SmallestSet
<1>2. s \in SUBSET S /\ ~Within(s) /\ IsFiniteSet(s)
  BY <1>1, FS_Subset
<1>3. \A x \in s : f[x] \in Int
  BY <1>2
<1>4. s # {}
  <2>1. ASSUME s = {} PROVE FALSE
    <3>1. SumFunctionOnSet(f, s) = 0 /\ Cardinality(s) = 0
      BY <1>2, <1>3, <2>1, SumSplits, FS_EmptySet
    <3>2. 0 * r = 0 /\ -(0 * r) = 0
      OBVIOUS
    <3> QED
      BY <1>2, <3>1, <3>2
  <2> QED
    BY <2>1
<1>5. PICK y \in s : TRUE
  BY <1>4
<1>6. PICK t : t = s \ {y}
  OBVIOUS
<1>7. IsFiniteSet(t) /\ Cardinality(t) \in Nat /\ Cardinality(s) = Cardinality(t) + 1
  <2>1. IsFiniteSet(t) /\ Cardinality(t) \in Nat /\ Cardinality(s) \in Nat
    BY <1>2, <1>6, FS_Subset, FS_CardinalityType
  <2>2. Cardinality(t) = Cardinality(s) - 1
    BY <1>2, <1>5, <1>6, FS_RemoveElement
  <2> QED
    BY <2>1, <2>2
<1>8. Within(t)
  BY <1>1, <1>2, <1>6
<1>9. SumFunctionOnSet(f, s) = f[y] + SumFunctionOnSet(f, t)
  BY <1>2, <1>3, <1>6, SumSplits
<1>10. SumFunctionOnSet(f, t) \in Int
  BY <1>3, <1>6, <1>7, SumSplits
<1>11. f[y] \in Int /\ -r <= f[y] /\ f[y] <= r
  BY <1>2
<1>12. PICK p \in Int : p = Cardinality(t) * r
  BY <1>7
<1>13. Cardinality(s) * r = p + r
  <2>1. \A m \in Nat : (m + 1) * r = m * r + r
    OBVIOUS
  <2> QED
    BY <1>7, <1>12, <2>1
<1>14. Within(s)
  BY <1>8, <1>9, <1>10, <1>11, <1>12, <1>13
<1> QED
  BY <1>2, <1>14

-----------------------------------------------------------------------------
\* A finite list of contributions of clients.
Contributions(V) == V \subseteq Client \X Nat /\ IsFiniteSet(V)

\* Two contributions are in one order or the other.
LEMMA PlacesDiffer ==
    ASSUME \A c \in Client : Sent(c) \in Int,
           NEW x \in Client \X Nat, NEW y \in Client \X Nat, x # y
    PROVE  Before(x, y) \/ Before(y, x)
<1>1. x[1] \in Client /\ y[1] \in Client /\ x[2] \in Nat /\ y[2] \in Nat
  OBVIOUS
<1>2. Sent(x[1]) \in Int /\ Sent(y[1]) \in Int /\ x[1] \in Nat /\ y[1] \in Nat
  BY <1>1, RoundAssumption
<1>3. x[1] # y[1] \/ x[2] # y[2]
  OBVIOUS
<1> QED
  BY <1>1, <1>2, <1>3 DEF Before

\* Counting outwards from a contribution x: those before it and those after it
\* are all the others.
LEMMA PlaceAndRest ==
    ASSUME \A c \in Client : Sent(c) \in Int, NEW V, Contributions(V), NEW x \in V
    PROVE  Cardinality(V) <= Place(x, V) + Cardinality({y \in V : Before(x, y)}) + 1
<1> DEFINE below == {y \in V : Before(y, x)}
           above == {y \in V : Before(x, y)}
<1>1. below \in SUBSET V /\ above \in SUBSET V /\ {x} \in SUBSET V
  OBVIOUS
<1>2. \A s \in SUBSET V : IsFiniteSet(s) /\ Cardinality(s) \in Nat
  BY FS_Subset, FS_CardinalityType DEF Contributions
<1>3. V = (below \cup above) \cup {x}
  <2>1. ASSUME NEW y \in V, y # x PROVE y \in below \cup above
    <3>1. Before(x, y) \/ Before(y, x)
      BY <2>1, PlacesDiffer DEF Contributions
    <3> QED
      BY <3>1
  <2> QED
    BY <2>1
<1>4. \A A \in SUBSET V, B \in SUBSET V : Cardinality(A \cup B) <= Cardinality(A) + Cardinality(B)
  <2> SUFFICES ASSUME NEW A \in SUBSET V, NEW B \in SUBSET V
               PROVE  Cardinality(A \cup B) <= Cardinality(A) + Cardinality(B)
    OBVIOUS
  <2>1. Cardinality(A \cup B) = Cardinality(A) + Cardinality(B) - Cardinality(A \cap B)
    BY <1>2, FS_Union
  <2>2. Cardinality(A \cap B) \in Nat /\ Cardinality(A) \in Nat /\ Cardinality(B) \in Nat
    BY <1>2
  <2> QED
    BY <2>1, <2>2
<1>5. Cardinality({x}) = 1
  BY FS_Singleton
<1>6. Place(x, V) = Cardinality(below)
  BY DEF Place
<1>7. PICK W \in SUBSET V : W = below \cup above
  OBVIOUS
<1>8. Cardinality(W) \in Nat /\ Cardinality(below) \in Nat /\ Cardinality(above) \in Nat
  BY <1>1, <1>2
<1>9. Cardinality(V) <= Cardinality(W) + 1
  BY <1>1, <1>3, <1>4, <1>5, <1>7
<1>10. Cardinality(W) <= Cardinality(below) + Cardinality(above)
  BY <1>1, <1>4, <1>7
<1>11. Cardinality(V) \in Nat
  BY <1>2
<1> HIDE DEF below, above
<1> QED
  BY <1>6, <1>8, <1>9, <1>10, <1>11 DEF above

\* Whatever survives a trim of t from each end is in the reach of the honest, if
\* no more than t contributions are not.
LEMMA KeptInReach ==
    ASSUME \A c \in Client : Sent(c) \in Int, NEW V, Contributions(V), NEW t \in Nat,
           NEW bad, bad \subseteq V, Cardinality(bad) <= t,
           NEW r \in Int, \A x \in V \ bad : -r <= Sent(x[1]) /\ Sent(x[1]) <= r,
           NEW x \in V, Place(x, V) \in t..(Cardinality(V) - t - 1)
    PROVE  -r <= Sent(x[1]) /\ Sent(x[1]) <= r
<1>1. \A s \in SUBSET V : IsFiniteSet(s) /\ Cardinality(s) \in Nat
  BY FS_Subset, FS_CardinalityType DEF Contributions
<1>2. \A y \in V : Sent(y[1]) \in Int
  BY DEF Contributions
<1>3. ~Before(x, x)
  <2>1. x \in Client \X Nat
    BY DEF Contributions
  <2>2. x[1] \in Nat /\ x[2] \in Nat /\ Sent(x[1]) \in Int
    BY <1>2, <2>1, RoundAssumption
  <2> QED
    BY <2>2 DEF Before
<1>4. \A s \in SUBSET V : x \notin s => Cardinality(s \cup {x}) = Cardinality(s) + 1
  BY <1>1, FS_AddElement
<1>5. \A s \in SUBSET V : s \subseteq bad => Cardinality(s) <= t
  <2> SUFFICES ASSUME NEW s \in SUBSET V, s \subseteq bad PROVE Cardinality(s) <= t
    OBVIOUS
  <2>1. Cardinality(s) <= Cardinality(bad)
    BY <1>1, FS_Subset
  <2>2. Cardinality(s) \in Nat /\ Cardinality(bad) \in Nat
    BY <1>1
  <2> QED
    BY <2>1, <2>2
<1>6. ASSUME Sent(x[1]) > r PROVE FALSE
  <2> DEFINE above == {y \in V : Before(x, y)}
  <2>1. above \cup {x} \subseteq bad
    <3> SUFFICES ASSUME NEW y \in above \cup {x} PROVE y \in bad
      OBVIOUS
    <3>1. y \in V /\ (Sent(x[1]) <= Sent(y[1]))
      <4>1. CASE y = x
        BY <1>2, <4>1
      <4>2. CASE Before(x, y)
        <5>1. y \in V
          OBVIOUS
        <5>2. Sent(x[1]) \in Int /\ Sent(y[1]) \in Int
          BY <1>2, <5>1
        <5> QED
          BY <4>2, <5>1, <5>2 DEF Before
      <4> QED
        BY <4>1, <4>2
    <3>2. Sent(y[1]) > r
      BY <1>2, <1>6, <3>1
    <3> QED
      BY <1>2, <3>1, <3>2
  <2>2. above \in SUBSET V /\ x \notin above /\ above \cup {x} \in SUBSET V
    BY <1>3
  <2>3. Cardinality(above) \in Nat /\ Cardinality(above) + 1 <= t
    <3>1. Cardinality(above \cup {x}) = Cardinality(above) + 1
      BY <1>4, <2>2
    <3>2. Cardinality(above \cup {x}) <= t
      BY <1>5, <2>1, <2>2
    <3> QED
      BY <1>1, <2>2, <3>1, <3>2
  <2>4. Cardinality(V) <= Place(x, V) + Cardinality(above) + 1
    BY PlaceAndRest
  <2>5. Cardinality(V) \in Nat /\ Place(x, V) \in Int /\ Place(x, V) <= Cardinality(V) - t - 1
    BY <1>1
  <2> HIDE DEF above
  <2> QED
    BY <2>3, <2>4, <2>5
<1>7. ASSUME Sent(x[1]) < -r PROVE FALSE
  <2> DEFINE below == {y \in V : Before(y, x)}
  <2>1. below \cup {x} \subseteq bad
    <3> SUFFICES ASSUME NEW y \in below \cup {x} PROVE y \in bad
      OBVIOUS
    <3>1. y \in V /\ (Sent(y[1]) <= Sent(x[1]))
      <4>1. CASE y = x
        BY <1>2, <4>1
      <4>2. CASE Before(y, x)
        <5>1. y \in V
          OBVIOUS
        <5>2. Sent(x[1]) \in Int /\ Sent(y[1]) \in Int
          BY <1>2, <5>1
        <5> QED
          BY <4>2, <5>1, <5>2 DEF Before
      <4> QED
        BY <4>1, <4>2
    <3>2. Sent(y[1]) < -r
      BY <1>2, <1>7, <3>1
    <3> QED
      BY <1>2, <3>1, <3>2
  <2>2. below \in SUBSET V /\ x \notin below /\ below \cup {x} \in SUBSET V
    BY <1>3
  <2>3. Cardinality(below) \in Nat /\ Cardinality(below) + 1 <= t
    <3>1. Cardinality(below \cup {x}) = Cardinality(below) + 1
      BY <1>4, <2>2
    <3>2. Cardinality(below \cup {x}) <= t
      BY <1>5, <2>1, <2>2
    <3> QED
      BY <1>1, <2>2, <3>1, <3>2
  <2>4. Place(x, V) = Cardinality(below) /\ t <= Place(x, V)
    BY DEF Place
  <2> HIDE DEF below
  <2> QED
    BY <2>3, <2>4
<1>8. Sent(x[1]) \in Int
  BY <1>2
<1> QED
  BY <1>6, <1>7, <1>8

\* What a round holds: the updates of the honest are clipped and noised, and
\* each contribution in the inbox is of a client.
RoundInv ==
    /\ UpdatesAreInts
    /\ round = "open" => \A c \in Client \ Poisoned : update[c] \in Prepared(c)
    /\ Contributions(inbox)
    /\ PoisonCannotMoveAggregate

\* The aggregation of a round over unmasked updates.
LEMMA AggregateInReach ==
    ASSUME RoundInv, RunRound
    PROVE  PoisonCannotMoveAggregate'
<1>1. SUFFICES ASSUME result'.success, ~masking,
                      Cardinality(PoisonedContributions) <= Cardinality(ValidContributions) \div TrimDiv
               PROVE  /\ -(result'.count * Reach) <= result'.total
                      /\ result'.total <= result'.count * Reach
  <2>1. inbox' = inbox /\ attested' = attested /\ masking' = masking
    BY DEF RunRound
  <2> QED
    BY <1>1, <2>1 DEF PoisonCannotMoveAggregate, PoisonedContributions, ValidContributions, Reach, LargestNoise
<1> DEFINE V    == ValidContributions
           n    == Cardinality(V)
           trim == n \div TrimDiv
           kept == {x \in V : Place(x, V) \in trim..(n - trim - 1)}
           g    == [x \in kept |-> Sent(x[1])]
<1>2. \A c \in Client : Sent(c) = update[c] /\ Sent(c) \in Int
  BY <1>1 DEF RoundInv, UpdatesAreInts, Sent
<1>3. Contributions(V)
  BY FS_Subset DEF RoundInv, Contributions, ValidContributions
<1>4. n \in Nat /\ trim \in Nat
  <2>1. n \in Nat
    BY <1>3, FS_CardinalityType DEF Contributions
  <2>2. \A m \in Nat, k \in Nat \ {0} : m \div k \in Nat
    OBVIOUS
  <2>3. TrimDiv \in Nat \ {0}
    BY RoundAssumption
  <2> QED
    BY <2>1, <2>2, <2>3
<1>5. Reach \in Nat
  BY NoiseIsBounded, RoundAssumption DEF Reach
<1>6. ASSUME NEW x \in V \ PoisonedContributions PROVE -Reach <= Sent(x[1]) /\ Sent(x[1]) <= Reach
  <2>1. x[1] \in Client /\ x[1] \notin Poisoned
    BY <1>3 DEF Contributions, ValidContributions, PoisonedContributions
  <2>2. round = "open"
    BY DEF RunRound
  <2>3. update[x[1]] \in Prepared(x[1])
    BY <2>1, <2>2 DEF RoundInv
  <2> QED
    BY <1>2, <2>1, <2>3, HonestUpdatesInReach
<1>7. PoisonedContributions \subseteq V
  BY DEF ValidContributions, PoisonedContributions
<1>8. ASSUME NEW x \in kept PROVE g[x] \in Int /\ -Reach <= g[x] /\ g[x] <= Reach
  <2>1. x \in V /\ Place(x, V) \in trim..(Cardinality(V) - trim - 1)
    OBVIOUS
  <2>2. Reach \in Int /\ \A c \in Client : Sent(c) \in Int
    BY <1>2, <1>5
  <2>3. -Reach <= Sent(x[1]) /\ Sent(x[1]) <= Reach
    <3> HIDE DEF V, trim
    <3> QED
      BY <1>1, <1>3, <1>4, <1>6, <1>7, <2>1, <2>2, KeptInReach DEF trim, V
  <2>4. x[1] \in Client
    BY <1>3, <2>1 DEF Contributions
  <2> QED
    BY <1>2, <2>3, <2>4
<1>9. IsFiniteSet(kept)
  BY <1>3, FS_Subset DEF Contributions
<1>10. /\ -(Cardinality(kept) * Reach) <= SumFunctionOnSet(g, kept)
       /\ SumFunctionOnSet(g, kept) <= Cardinality(kept) * Reach
  <2> HIDE DEF kept, g
  <2> QED
    BY <1>5, <1>8, <1>9, SumInReach
<1>11. CoordinateWiseTrimmedMean(V) = [total |-> SumFunctionOnSet(g, kept), count |-> Cardinality(kept)]
  BY DEF CoordinateWiseTrimmedMean, MeanOf
<1>12. result'.total = CoordinateWiseTrimmedMean(V).total /\ result'.count = CoordinateWiseTrimmedMean(V).count
  <2> DEFINE a == RunSecureAggregationRound(inbox)
  <2>1. result'.success = a.success /\ result'.total = a.total /\ result'.count = a.count
    BY DEF RunRound
  <2>2. a.success
    BY <1>1, <2>1
  <2>3. ~(Cardinality(V) < Floor)
    BY <2>2 DEF RunSecureAggregationRound, Deferred, ValidContributions
  <2>4. a.total = CoordinateWiseTrimmedMean(V).total /\ a.count = CoordinateWiseTrimmedMean(V).count
    BY <2>3 DEF RunSecureAggregationRound, ValidContributions
  <2> QED
    BY <2>1, <2>4
<1> QED
  BY <1>10, <1>11, <1>12

\* The invariant of a round holds in every reachable state.
THEOREM RoundInvariance == Spec => []RoundInv
<1>1. Init => RoundInv
  BY FS_EmptySet DEF Init, RoundInit, RoundInv, UpdatesAreInts, Contributions, PoisonCannotMoveAggregate
<1>2. RoundInv /\ [Next]_vars => RoundInv'
  <2> SUFFICES ASSUME RoundInv, [Next]_vars PROVE RoundInv'
    OBVIOUS
  <2>1. CASE StartRound
    <3>1. /\ update' \in [Client -> AnyUpdate] /\ \A c \in Client : update'[c] \in Prepared(c)
          /\ round' = "open" /\ inbox' = inbox
      BY <2>1 DEF StartRound
    <3>2. update' \in [Client -> Int]
      BY <3>1, PreparedAreInts
    <3>3. PoisonCannotMoveAggregate'
      BY <3>1 DEF PoisonCannotMoveAggregate
    <3> QED
      BY <3>1, <3>2, <3>3 DEF RoundInv, UpdatesAreInts, Contributions, Prepared, AddGaussianNoise, ClipByL2Norm
  <2>2. ASSUME NEW c \in Client, Deliver(c) PROVE RoundInv'
    <3>1. PICK k \in 1..MaxCopies : inbox' = inbox \cup {<<c, k>>}
      BY <2>2 DEF Deliver
    <3>2. UNCHANGED <<round, masking, update, attested, result>> /\ round = "open"
      BY <2>2 DEF Deliver
    <3>3. Contributions(inbox')
      <4>1. k \in Nat
        BY RoundAssumption
      <4>2. IsFiniteSet(inbox \cup {<<c, k>>})
        BY FS_AddElement DEF RoundInv, Contributions
      <4> QED
        BY <2>2, <3>1, <4>1, <4>2 DEF RoundInv, Contributions
    <3>4. PoisonCannotMoveAggregate'
      BY <3>2 DEF PoisonCannotMoveAggregate
    <3> QED
      BY <3>2, <3>3, <3>4 DEF RoundInv, UpdatesAreInts, Contributions, Prepared, AddGaussianNoise, ClipByL2Norm
  <2>3. CASE RunRound
    <3>1. UNCHANGED <<update, inbox>> /\ round' = "done"
      BY <2>3 DEF RunRound
    <3> QED
      BY <2>3, <3>1, AggregateInReach DEF RoundInv, UpdatesAreInts, Contributions
  <2>4. CASE EndRound
    <3>1. update' = [c \in Client |-> 0] /\ inbox' = {} /\ round' = "idle"
      BY <2>4 DEF EndRound
    <3> QED
      BY <3>1, FS_EmptySet DEF RoundInv, UpdatesAreInts, Contributions, PoisonCannotMoveAggregate
  <2>5. CASE UNCHANGED <<round, masking, update, attested, inbox, result>>
    BY <2>5 DEF RoundInv, UpdatesAreInts, Contributions, PoisonCannotMoveAggregate, PoisonedContributions,
                ValidContributions, LargestNoise, Prepared, AddGaussianNoise, ClipByL2Norm
  <2> QED
    BY <2>1, <2>2, <2>3, <2>4, <2>5 DEF Next, RoundStep, ReleaseAggregate, Restart, roundVars, vars
<1> QED
  BY <1>1, <1>2, PTL DEF Spec

\* While the poisoned contributions are no more than the trim takes at each end,
\* the mean stays in the reach of the honest, for every cohort, floor and trim
\* (secure_aggregation.py:70-111, dp_noise.py:26-48).
THEOREM PoisonIsTrimmed == Spec => []PoisonCannotMoveAggregate
<1>1. RoundInv => PoisonCannotMoveAggregate
  BY DEF RoundInv
<1> QED
  BY <1>1, RoundInvariance, PTL

=============================================================================
