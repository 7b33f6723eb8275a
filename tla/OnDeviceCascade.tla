-------------------------- MODULE OnDeviceCascade ---------------------------
(***************************************************************************)
(* The TypeScript port of the cascade that runs on the phone:              *)
(* mobile/src/ml/onDeviceCascade.ts.  native is the answer of the Tier-1   *)
(* model, as nativeLlamaScorer.ts parsed it, or NoAnswer.                  *)
(*                                                                         *)
(* Confidences are not rounded before they are compared: they are in units *)
(* of 1/240000000.                                                         *)
(***************************************************************************)
EXTENDS Evidence

Fine == 24000
EscalationThreshold == 2800
EntailmentCeiling   == 3500 * Fine

TierZeroBase(x, t) == Cap(2200 * x.hits[t])

CountingReassurance(x) ==
    Cap(1800 * Cardinality(Matched(x)) + 500 * Cardinality(FoundCues(x, Matched(x))))

\* tier0Candidates: only scoreable tactics count.
TierZeroScore(x) ==
    Cap(1800 * Cardinality(Candidates(x)) + 500 * Cardinality(FoundCues(x, Candidates(x))))

Escalates(x) == TierZeroScore(x) >= EscalationThreshold /\ Candidates(x) # {}

\* The tactics the model is asked about: none on the benign path.
Asked(x) == IF Escalates(x) THEN Candidates(x) ELSE {}

\* applyCompoundBoost: two tactics are enough.
Boosted(x, t) ==
    Cap(TierZeroBase(x, t)
          + (IF Cardinality(Candidates(x)) < 2 THEN 0 ELSE IF t = Payment THEN 2000 ELSE 1000))

\* applyMutualExclusivity, before the model's blend.
Contradicted(x, t) ==
    \E o \in Exclusive(t) \cap Matched(x) : 10 * TierZeroBase(x, o) >= 7 * Boosted(x, t)

Kept(x) == {t \in Candidates(x) : ~Contradicted(x, t)}

Uncorroborated(x, native, t) ==
    Blended(Boosted(x, t), native, t) * x.weight[t] * Penalty(x, t)

\* gateConfidence, and the corroboration of those below the ceiling.
Confidence(x, native, t) ==
    LET alone == Blended(Boosted(x, t), native, t) * x.weight[t] * Penalty(x, t)
    IN  IF alone < EntailmentCeiling THEN alone + Corroboration(Kept(x)) * Fine ELSE alone

\* runOnDeviceCascade: the flags, and the tier they are labelled with.
Flags(x, native) ==
    IF Escalates(x)
      THEN {t \in Kept(x) : Confidence(x, native, t) >= EntailmentCeiling}
      ELSE {}

AlwaysTierZero(x, native) == 0

TierReached(x, native) == IF Escalates(x) /\ native # NoAnswer THEN 1 ELSE 0

=============================================================================
