---------------------------- MODULE DeviceGuards ----------------------------
(***************************************************************************)
(* What a phone's condition does to TrustTrace's heavy work: the hysteresis*)
(* of detection/telemetry/thermal_governor.py, which sets what the cascade *)
(* may run, and the upload of federated/sync_scheduler.py, which goes on   *)
(* only while the phone charges on unmetered Wi-Fi.                        *)
(*                                                                         *)
(* Temperatures are in percent of the limit; the four states of the        *)
(* governor are the rungs 0..3 of its _ORDER.                              *)
(***************************************************************************)
EXTENDS Integers

CONSTANTS
    Reading,        \* thermal readings that the platform may give
    TotalChunks,    \* total_chunks of an upload
    PollInterval    \* poll_interval_chunks

ASSUME GuardAssumption ==
    /\ Reading \subseteq Nat
    /\ TotalChunks \in Nat \ {0} /\ PollInterval \in Nat \ {0}

VARIABLES
    rung,       \* _state of the governor
    reading,    \* the last thermal_fraction it was given
    compound,   \* the last cpu_fallback_active
    turn,       \* history: direction, reading and flag of its last move
    device,     \* what the phone has now of what an upload needs
    upload,     \* "idle" | "poll" | "wifi" | "send"
    chunk,      \* chunk_index
    exposed     \* history: need -> chunks sent since the phone lost it

govVars  == <<rung, reading, compound, turn>>
syncVars == <<device, upload, chunk, exposed>>
guardVars == <<govVars, syncVars>>

Nominal  == 0
Elevated == 1
Severe   == 2
Critical == 3

Need == {"charger", "wifi"}

TypeOK ==
    /\ rung \in Nominal..Critical /\ reading \in {0} \cup Reading /\ compound \in BOOLEAN
    /\ turn \in [up : BOOLEAN, at : {0} \cup Reading, compound : BOOLEAN]
    /\ device \subseteq Need /\ upload \in {"idle", "poll", "wifi", "send"}
    /\ chunk \in 0..TotalChunks /\ exposed \in [Need -> Nat]

-----------------------------------------------------------------------------
EscalateAt == [r \in Elevated..Critical |->
                    CASE r = Elevated -> 70 [] r = Severe -> 85 [] r = Critical -> 95]
HysteresisMargin == 5

TargetState(frac, flag) ==
    CASE frac >= 95 \/ (flag /\ frac >= 85) -> Critical
      [] frac >= 85 /\ frac < 95 /\ ~flag -> Severe
      [] frac >= 70 /\ frac < 85 -> Elevated
      [] OTHER -> Nominal

CanDeescalateAtThreshold(frac, flag) ==
    ~(flag /\ rung = Critical) /\ frac < EscalateAt[rung]

CanDeescalateTwiceBelow(frac, flag) ==
    ~(flag /\ rung = Critical) /\ frac < EscalateAt[rung] - 2 * HysteresisMargin

\* The threshold that counts is the one of the rung to leave.  Less the margin it
\* is, in binary floating point, just below the decimal: 0.65 is not <= 0.70 - 0.05.
CanDeescalate(frac, flag) ==
    /\ ~(flag /\ rung = Critical)
    /\ frac < EscalateAt[rung] - HysteresisMargin

OneRungAtATime(frac, flag) ==
    LET target == TargetState(frac, flag)
    IN  CASE target > rung -> rung + 1
          [] target < rung /\ CanDeescalate(frac, flag) -> rung - 1
          [] OTHER -> rung

\* Up to the target at once, down one rung at a time.
NextRung(frac, flag) ==
    LET target == TargetState(frac, flag)
    IN  CASE target > rung -> target
          [] target < rung /\ CanDeescalate(frac, flag) -> rung - 1
          [] OTHER -> rung

\* _POLICIES: what update returns.
Policy(r) ==
    [maxTier |-> IF r = Critical THEN 0 ELSE 2,
     variant |-> CASE r <= Elevated -> "4bit" [] r = Severe -> "2bit" [] OTHER -> "unavailable"]

Update(frac, flag) ==
    /\ reading' = frac /\ compound' = flag
    /\ rung' = NextRung(frac, flag)
    /\ turn' = IF rung' = rung THEN turn ELSE [up |-> rung' > rung, at |-> frac, compound |-> flag]
    /\ UNCHANGED syncVars

-----------------------------------------------------------------------------
\* The phone is unplugged, plugged in, leaves the Wi-Fi, finds it again.
ChangeDevice ==
    /\ \E n \in Need :
        \/ n \in device /\ device' = device \ {n} /\ UNCHANGED exposed
        \/ n \notin device /\ device' = device \cup {n} /\ exposed' = [exposed EXCEPT ![n] = 0]
    /\ UNCHANGED <<govVars, upload, chunk>>

\* run_sync_with_continuous_verification.
Begin ==
    /\ upload = "idle"
    /\ upload' = "poll" /\ chunk' = 0
    /\ UNCHANGED <<govVars, device, exposed>>

PollOnce ==
    /\ upload = "poll"
    /\ upload' = IF chunk # 0 THEN "send" ELSE IF "charger" \in device THEN "wifi" ELSE "idle"
    /\ UNCHANGED <<govVars, device, chunk, exposed>>

\* At every PollInterval-th chunk the device is asked, for its charger first; an
\* abort sends nothing more, and a later upload starts from the first chunk again.
Poll ==
    /\ upload = "poll"
    /\ upload' = IF chunk % PollInterval # 0 THEN "send"
                 ELSE IF "charger" \in device THEN "wifi" ELSE "idle"
    /\ UNCHANGED <<govVars, device, chunk, exposed>>

PollWifi ==
    /\ upload = "wifi"
    /\ upload' = IF "wifi" \in device THEN "send" ELSE "idle"
    /\ UNCHANGED <<govVars, device, chunk, exposed>>

SendChunk ==
    /\ upload = "send"
    /\ chunk' = chunk + 1
    /\ upload' = IF chunk' = TotalChunks THEN "idle" ELSE "poll"
    /\ exposed' = [n \in Need |-> IF n \in device THEN 0 ELSE exposed[n] + 1]
    /\ UNCHANGED <<govVars, device>>

-----------------------------------------------------------------------------
GuardInit ==
    /\ rung = Nominal /\ reading = 0 /\ compound = FALSE
    /\ turn = [up |-> FALSE, at |-> 0, compound |-> FALSE]
    /\ device = Need /\ upload = "idle" /\ chunk = 0 /\ exposed = [n \in Need |-> 0]

AnyReading == \E frac \in Reading, flag \in BOOLEAN : Update(frac, flag)

GuardNext == AnyReading \/ ChangeDevice \/ Begin \/ Poll \/ PollWifi \/ SendChunk

SameReading == Update(reading, compound)

\* The platform goes on giving readings: one that stays is given again.
GuardSpec == GuardInit /\ [][GuardNext]_guardVars /\ WF_guardVars(SameReading)

-----------------------------------------------------------------------------
Distance(a, b) == IF a > b THEN a - b ELSE b - a

\* The governor never turns round on a swing smaller than the margin, also over
\* several rungs and however the readings hover at a threshold: two successive
\* moves of opposite direction under the same fallback flag lie at least the
\* margin apart (thermal_governor.py:112-147).
TurnsNeedASwing ==
    [][(/\ rung' # rung
        /\ (rung' > rung) # turn.up
        /\ compound' = turn.compound
        /\ turn.at # 0)
            => Distance(reading', turn.at) >= HysteresisMargin]_guardVars

\* The damping never leaves the phone on a policy that is too hot for its last
\* reading: overheated, or severe on the CPU alone, means that no model runs.
OverheatedMeansHeuristicOnly ==
    (reading >= 95 \/ (compound /\ reading >= 85)) => Policy(rung).maxTier = 0

\* A phone that stays cool and has its accelerator back gets the whole cascade
\* back, and keeps it: no rung is a trap.
CoolPhoneRecovers == <>[](reading < 65 /\ ~compound) => <>[](rung = Nominal)

\* No more chunks than one polling interval go out after a phone has lost its
\* charger, or its Wi-Fi, and until it has it again, wherever in the loop or
\* between the two questions of a poll that happened (sync_scheduler.py:31-66).
AbortWithinOnePoll == \A n \in Need : exposed[n] <= PollInterval

=============================================================================
