---------------------------- MODULE CanaryRollout ----------------------------
(***************************************************************************)
(* federated/model_distribution.py: a new model goes to a stratified       *)
(* canary cohort, is promoted or rolled back on the cohort's metrics, and  *)
(* a device on which it crash-loops takes it off by itself.                *)
(*                                                                         *)
(* Recalls and false-positive rates are in percent.  A device of the       *)
(* cohort may stay silent; a stratum none of whose devices reported has no *)
(* slice in the canary's metrics.                                          *)
(***************************************************************************)
EXTENDS Integers, FiniteSetsExt

CONSTANTS
    Device,         \* numbered in the order of all_devices
    Stratum,        \* values of the equity dimension
    StratumOf,      \* device -> stratum
    MinPerStratum,
    FractionDiv,    \* 1 / CANARY_COHORT_FRACTION
    Baseline,       \* recall and false-positive rate of the model in use
    Measured,       \* those that a new model can have
    CrashLimit,     \* crash_loop_threshold
    MaxReleases     \* bound: models released

ASSUME RolloutAssumption ==
    /\ Device \subseteq Nat /\ IsFiniteSet(Device) /\ StratumOf \in [Device -> Stratum]
    /\ MinPerStratum \in Nat \ {0} /\ FractionDiv \in Nat \ {0}
    /\ Baseline \in Nat /\ Measured \subseteq Nat
    /\ CrashLimit \in Nat \ {0} /\ MaxReleases \in Nat

VARIABLES
    stage,          \* "none" | "canary" | "promoted" | "rolled_back"
    recall,         \* stratum -> recall of the new model
    falsePositives, \* its false-positive rate
    updated,        \* the devices that run the new model
    silent,         \* devices of the cohort that did not report
    crashes,        \* device -> crash_count
    looping,        \* the devices on which it crashed CrashLimit times since
    releases        \* models released so far

rolloutVars == <<stage, recall, falsePositives, updated, silent, crashes, looping, releases>>

-----------------------------------------------------------------------------
First(n, devices) == {d \in devices : Cardinality({e \in devices : e < d}) < n}

FlatCohort == First(Cardinality(Device) \div FractionDiv, Device)

\* The first few devices of every stratum, then others up to the fraction.
StratifiedCanaryCohort ==
    LET guaranteed == UNION {First(MinPerStratum, {d \in Device : StratumOf[d] = s}) : s \in Stratum}
        budget     == Cardinality(Device) \div FractionDiv - Cardinality(guaranteed)
    IN  guaranteed \cup First(budget, Device \ guaranteed)

\* new is worse than old by more than 5 % of old.
RegressedBelow(old, new) == old > 0 /\ 100 * (old - new) > 5 * old
RegressedAbove(old, new) == 100 * (new - old) > 5 * old

\* evaluate_canary, on the slices of the devices that reported.
EvaluateCanary(reporting) ==
    IF \/ RegressedAbove(Baseline, falsePositives)
       \/ \E s \in {StratumOf[d] : d \in reporting} : RegressedBelow(Baseline, recall[s])
    THEN "rolled_back" ELSE "promoted"

-----------------------------------------------------------------------------
RolloutInit ==
    /\ stage = "none" /\ updated = {} /\ silent = {} /\ looping = {} /\ releases = 0
    /\ recall = [s \in Stratum |-> Baseline] /\ falsePositives = Baseline
    /\ crashes = [d \in Device |-> 0]

\* A new model goes to the canary cohort; the breakers keep their counts.
Release ==
    /\ stage # "canary" /\ releases < MaxReleases
    /\ recall' \in [Stratum -> Measured] /\ falsePositives' \in Measured
    /\ stage' = "canary" /\ updated' = StratifiedCanaryCohort
    /\ silent' = {} /\ looping' = {} /\ releases' = releases + 1
    /\ UNCHANGED crashes

\* The server decides; a rollback takes the model off the cohort.
Decide ==
    /\ stage = "canary"
    /\ \E quiet \in SUBSET updated :
            /\ silent' = quiet \cup (StratifiedCanaryCohort \ updated)
            /\ stage' = EvaluateCanary(updated \ quiet)
    /\ updated' = IF stage' = "promoted" THEN Device \ looping ELSE {}
    /\ UNCHANGED <<recall, falsePositives, crashes, looping, releases>>

\* record_crash: at the threshold the device goes back to the old model now.
RecordCrash(d) ==
    /\ d \in updated
    /\ crashes' = [crashes EXCEPT ![d] = Min({CrashLimit, @ + 1})]
    /\ IF crashes'[d] >= CrashLimit
       THEN updated' = updated \ {d} /\ looping' = looping \cup {d}
       ELSE UNCHANGED <<updated, looping>>
    /\ UNCHANGED <<stage, recall, falsePositives, silent, releases>>

=============================================================================
