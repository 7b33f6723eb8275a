-------------------------- MODULE ReferenceCascade --------------------------
(***************************************************************************)
(* The Python pipeline that the backend, the SMS gateway and the           *)
(* evaluation run on one text: detection/conversation/model_cascade.py,    *)
(* then grounding/nli_entailment_gate.py, then confidence_gate.py.         *)
(*                                                                         *)
(* prior is the set of tactics the session has flagged before; onnx and    *)
(* llm are the answers of the two optional models.                         *)
(***************************************************************************)
EXTENDS Evidence

EscalationThreshold == 2800
TierTwoThreshold    == 5500
EntailmentCeiling   == 3500
UserFacingFloor     == 4000

\* scan_cues: the cues of a tactic, one of them twice in the taxonomy.
Hits(x, t) == x.hits[t] + (IF t = Payment /\ x.doubled THEN 1 ELSE 0)

TierZeroBase(x, t) == Cap(2200 * Hits(x, t))

\* Every matched tactic counts here, calming reassurance too.
TierZeroScore(x) ==
    LET twice == IF x.doubled /\ Payment \in Matched(x) THEN 1 ELSE 0
    IN  Cap(1800 * Cardinality(Matched(x)) + 500 * (Cardinality(FoundCues(x, Matched(x))) + twice))

Escalates(x) == TierZeroScore(x) >= EscalationThreshold /\ Candidates(x) # {}

Compounding(x) == Cardinality(Candidates(x)) >= 3

\* What the session and the rest of the turn add to a candidate.
Boost(x, prior, t) ==
    LET recurring == IF t \in prior THEN 1500 ELSE 0
        session   == IF t = Payment /\ prior # {} THEN 2000 ELSE 0
        together  == IF Compounding(x) THEN (IF t = Payment THEN 2000 ELSE 1000) ELSE 0
    IN  recurring + session + together

\* The ONNX classifier answers for every tactic it is asked about: 0 for one
\* that it has no class for.
OnnxAnswers(asked, levels) ==
    {NoAnswer} \cup {a \in [asked -> levels \cup {0}] :
                        \A t \in asked : t \in Untrained => a[t] = 0}

\* _tier1_refine: the score of each candidate.
Refined(x, prior, onnx, llm) ==
    [t \in Candidates(x) |->
        Blended(Blended(Cap(TierZeroBase(x, t) + Boost(x, prior, t)), onnx, t), llm, t)]

\* _apply_mutual_exclusivity: a candidate goes when an exclusive tactic has at
\* least 0.7 of its score.
Contradicted(x, score, t) ==
    \E o \in Exclusive(t) \cap Matched(x) : 10 * TierZeroBase(x, o) >= 7 * score[t]

\* route: the candidates that reach the gates.
Routed(x, score) ==
    IF Escalates(x) THEN {t \in Candidates(x) : ~Contradicted(x, score, t)} ELSE {}

TierReached(x, score, routed) ==
    CASE ~Escalates(x) -> 0
      [] Escalates(x) /\ (\A t \in routed : score[t] < TierTwoThreshold) -> 1
      [] OTHER -> 2

\* evaluate_entailment: rounded to four decimals.
Entailed(x, score, t) == (score[t] * x.weight[t] * Penalty(x, t) + 12000) \div 24000

\* gate_candidates: corroboration is for those below the ceiling only.
Confidence(x, score, routed) ==
    [t \in routed |->
        LET alone == Entailed(x, score, t)
        IN  IF alone < EntailmentCeiling THEN Cap(alone + Corroboration(routed)) ELSE alone]

\* apply: the tactics whose verdict is "surfaced".
Surfaced(conf) ==
    LET survivors == {t \in DOMAIN conf : conf[t] >= EntailmentCeiling}
    IN  {t \in survivors :
            /\ conf[t] >= UserFacingFloor
            /\ \A o \in Exclusive(t) \cap survivors : 10 * conf[o] < 7 * conf[t]}

\* The whole pipeline: the tier, what is routed to the gates, what surfaces.
Analysis(x, prior, onnx, llm) ==
    LET score  == Refined(x, prior, onnx, llm)
        routed == Routed(x, score)
    IN  [tier |-> TierReached(x, score, routed), routed |-> routed,
         surfaced |-> Surfaced(Confidence(x, score, routed))]

=============================================================================
