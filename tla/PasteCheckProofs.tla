------------------------- MODULE PasteCheckProofs ---------------------------
(***************************************************************************)
(* Proofs about PasteCheck: that a lone cue and a weak lone tactic are     *)
(* never cited, that a card labelled Tier 0 is the heuristic's, and that   *)
(* the phone flags what the Python pipeline surfaces without models from   *)
(* the same reading, for every set of tactics, texts and model answers.    *)
(*                                                                         *)
(* Both cascades are instances of Evidence, each over its own reading of a *)
(* text: the first lemmas say that the operators of Evidence mean the same *)
(* in both, and state each rule once over them, for any one reading x.     *)
(***************************************************************************)
EXTENDS PasteCheck, FiniteSetTheorems, TLAPS

\* A score of a cascade.
Score(n) == n \in Nat /\ n <= 10000

\* The operators of Evidence mean the same in both cascades, on one reading.
LEMMA SharedEvidence ==
    /\ Phone!Tactic = Tactic /\ Reference!Tactic = Tactic
    /\ \A x : Phone!Matched(x) = Matched(x) /\ Reference!Matched(x) = Matched(x)
    /\ \A x : Phone!Candidates(x) = Candidates(x) /\ Reference!Candidates(x) = Candidates(x)
    /\ \A x, t : Phone!Penalty(x, t) = Penalty(x, t) /\ Reference!Penalty(x, t) = Penalty(x, t)
    /\ \A n : Phone!Cap(n) = Cap(n) /\ Reference!Cap(n) = Cap(n)
    /\ \A S : Phone!Corroboration(S) = Corroboration(S) /\ Reference!Corroboration(S) = Corroboration(S)
    /\ \A t : Phone!Exclusive(t) = Exclusive(t) /\ Reference!Exclusive(t) = Exclusive(t)
    /\ Phone!NoAnswer = NoAnswer /\ Reference!NoAnswer = NoAnswer
    /\ \A s, a, t : Phone!Blended(s, a, t) = Blended(s, a, t) /\ Reference!Blended(s, a, t) = Blended(s, a, t)
    /\ \A x, S : Phone!FoundCues(x, S) = FoundCues(x, S) /\ Reference!FoundCues(x, S) = FoundCues(x, S)
    /\ Phone!Payment = Payment /\ Reference!Payment = Payment
    /\ \A S : Phone!Cardinality(S) = Cardinality(S) /\ Reference!Cardinality(S) = Cardinality(S)
<1>0. \A S : Phone!Cardinality(S) = Cardinality(S) /\ Reference!Cardinality(S) = Cardinality(S)
  BY DEF Cardinality, Phone!Cardinality, Reference!Cardinality
<1>1. Phone!Tactic = Tactic /\ Reference!Tactic = Tactic /\ Phone!Payment = Payment /\ Reference!Payment = Payment /\ Phone!Calm = Calm /\ Reference!Calm = Calm
  BY DEF Tactic, Phone!Tactic, Reference!Tactic, Urgency, Phone!Urgency, Reference!Urgency, Payment, Phone!Payment, Reference!Payment, Calm, Phone!Calm, Reference!Calm
<1>2. \A x : Phone!Matched(x) = Matched(x) /\ Reference!Matched(x) = Matched(x)
  BY DEF Matched, Phone!Matched, Reference!Matched, Tactic, Phone!Tactic, Reference!Tactic, Urgency, Phone!Urgency, Reference!Urgency, Payment, Phone!Payment, Reference!Payment, Calm, Phone!Calm, Reference!Calm
<1>3. \A x : Phone!Candidates(x) = Candidates(x) /\ Reference!Candidates(x) = Candidates(x)
  BY DEF Candidates, Phone!Candidates, Reference!Candidates, Matched, Phone!Matched, Reference!Matched, Tactic, Phone!Tactic, Reference!Tactic, Urgency, Phone!Urgency, Reference!Urgency, Payment, Phone!Payment, Reference!Payment, Calm, Phone!Calm, Reference!Calm
<1>4. \A x, t : Phone!Penalty(x, t) = Penalty(x, t) /\ Reference!Penalty(x, t) = Penalty(x, t)
  BY SMT DEF Penalty, Phone!Penalty, Reference!Penalty
<1>5. \A n : Phone!Cap(n) = Cap(n) /\ Reference!Cap(n) = Cap(n)
  BY DEF Cap, Phone!Cap, Reference!Cap, One, Phone!One, Reference!One
<1>6. \A S : Phone!Corroboration(S) = Corroboration(S) /\ Reference!Corroboration(S) = Corroboration(S)
  <2> TAKE S
  <2>1. Phone!Corroboration(S) = Corroboration(S)
    BY <1>0, SMT DEF Corroboration, Phone!Corroboration
  <2>2. Reference!Corroboration(S) = Corroboration(S)
    BY <1>0, SMT DEF Corroboration, Reference!Corroboration
  <2> QED
    BY <2>1, <2>2
<1>7. \A t : Phone!Exclusive(t) = Exclusive(t) /\ Reference!Exclusive(t) = Exclusive(t)
  BY DEF Exclusive, Phone!Exclusive, Reference!Exclusive, Urgency, Phone!Urgency, Reference!Urgency, Calm, Phone!Calm, Reference!Calm
<1>8. Phone!NoAnswer = NoAnswer /\ Reference!NoAnswer = NoAnswer
  BY DEF NoAnswer, Phone!NoAnswer, Reference!NoAnswer
<1>9. \A s, a, t : Phone!Blended(s, a, t) = Blended(s, a, t) /\ Reference!Blended(s, a, t) = Blended(s, a, t)
  BY DEF Blended, Phone!Blended, Reference!Blended
<1>10. \A x, S : Phone!FoundCues(x, S) = FoundCues(x, S) /\ Reference!FoundCues(x, S) = FoundCues(x, S)
  BY DEF FoundCues, Phone!FoundCues, Reference!FoundCues
<1> QED
  BY <1>0, <1>1, <1>2, <1>3, <1>4, <1>5, <1>6, <1>7, <1>8, <1>9, <1>10

-----------------------------------------------------------------------------
\* The cascade of the phone, on a reading.
LEMMA PhoneEscalates ==
    ASSUME NEW x
    PROVE  Phone!Escalates(x) <=>
             /\ Cap(1800 * Cardinality(Candidates(x))
                      + 500 * Cardinality(FoundCues(x, Candidates(x)))) >= 2800
             /\ Candidates(x) # {}
  BY SharedEvidence DEF Phone!Escalates, Phone!TierZeroScore, Phone!EscalationThreshold

LEMMA PhoneBase ==
    ASSUME NEW x
    PROVE  \A t : Phone!TierZeroBase(x, t) = Cap(2200 * x.hits[t])
<1>1. \A n : Phone!Cap(n) = Cap(n)
  BY SharedEvidence
<1> QED
  BY <1>1, SMT DEF Phone!TierZeroBase

LEMMA PhoneBoost ==
    ASSUME NEW x, NEW t, NEW base, base = Cap(2200 * x.hits[t]),
           NEW extra, extra = IF Cardinality(Candidates(x)) < 2 THEN 0 ELSE IF t = Payment THEN 2000 ELSE 1000
    PROVE  Phone!Boosted(x, t) = Cap(base + extra)
<1>1. /\ Phone!Cardinality(Phone!Candidates(x)) = Cardinality(Candidates(x))
      /\ Phone!Payment = Payment
      /\ \A n : Phone!Cap(n) = Cap(n)
      /\ Phone!TierZeroBase(x, t) = base
  BY PhoneBase, SharedEvidence
<1> QED
  BY <1>1, SMT DEF Phone!Boosted

LEMMA PhoneKeeps ==
    ASSUME NEW x
    PROVE  /\ Phone!Kept(x) \subseteq Candidates(x)
           /\ \A t \in Candidates(x) :
                t \in Phone!Kept(x) <=>
                    ~\E o \in Exclusive(t) \cap Matched(x) :
                        10 * Phone!TierZeroBase(x, o) >= 7 * Phone!Boosted(x, t)
           /\ \A t : t \in Phone!Asked(x) => t \in Candidates(x) /\ Phone!Escalates(x)
  BY SharedEvidence DEF Phone!Kept, Phone!Contradicted, Phone!Asked

\* The gate of the phone: corroboration is for those below the ceiling, so it
\* decides nothing for the others.
LEMMA PhoneGate ==
    ASSUME NEW x, NEW native, NEW t, NEW alone \in Nat, NEW corroboration \in Nat,
           alone = Blended(Phone!Boosted(x, t), native, t) * x.weight[t] * Penalty(x, t),
           corroboration = Corroboration(Phone!Kept(x))
    PROVE  t \in Phone!Flags(x, native) <=>
             Phone!Escalates(x) /\ t \in Phone!Kept(x) /\ alone + corroboration * 24000 >= 84000000
<1>1. Phone!EntailmentCeiling = 84000000 /\ Phone!Fine = 24000
  BY DEF Phone!EntailmentCeiling, Phone!Fine
<1>2. Phone!Confidence(x, native, t) =
        IF alone < 84000000 THEN alone + corroboration * 24000 ELSE alone
  BY <1>1, SharedEvidence, SMT DEF Phone!Confidence
<1>3. Phone!Confidence(x, native, t) >= 84000000 <=> alone + corroboration * 24000 >= 84000000
  BY <1>2, SMT
<1> QED
  BY <1>1, <1>3, SMT DEF Phone!Flags

\* The reference pipeline without a session, on a reading.
LEMMA ReferenceRules ==
    ASSUME NEW x, NEW onnx, NEW llm,
           NEW score, score = Reference!Refined(x, {}, onnx, llm),
           NEW routed, routed = Reference!Routed(x, score),
           NEW conf, conf = Reference!Confidence(x, score, routed)
    PROVE  /\ \A t \in Candidates(x) :
                score[t] = Blended(Blended(Cap(Reference!TierZeroBase(x, t)
                                                + Reference!Boost(x, {}, t)), onnx, t), llm, t)
           /\ routed \subseteq Candidates(x)
           /\ \A t \in routed : ~\E o \in Exclusive(t) \cap Matched(x) :
                10 * Reference!TierZeroBase(x, o) >= 7 * score[t]
           /\ routed # {} => Reference!Escalates(x)
           /\ \A t \in routed : \E alone \in {(score[t] * x.weight[t] * Penalty(x, t) + 12000) \div 24000} :
                conf[t] = IF alone < 3500 THEN Cap(alone + Corroboration(routed)) ELSE alone
           /\ Reference!Analysis(x, {}, onnx, llm).routed = routed
           /\ Reference!Analysis(x, {}, onnx, llm).surfaced \subseteq {t \in routed : conf[t] >= 4000}
<1>1. score = [t \in Candidates(x) |->
                Blended(Blended(Cap(Reference!TierZeroBase(x, t) + Reference!Boost(x, {}, t)), onnx, t), llm, t)]
  BY SharedEvidence DEF Reference!Refined
<1>2. /\ routed \subseteq Candidates(x)
      /\ \A t \in routed : ~\E o \in Exclusive(t) \cap Matched(x) :
                10 * Reference!TierZeroBase(x, o) >= 7 * score[t]
      /\ routed # {} => Reference!Escalates(x)
  BY SharedEvidence DEF Reference!Routed, Reference!Contradicted
<1>3. conf = [t \in routed |->
               LET alone == (score[t] * x.weight[t] * Penalty(x, t) + 12000) \div 24000
               IN  IF alone < 3500 THEN Cap(alone + Corroboration(routed)) ELSE alone]
  BY SharedEvidence DEF Reference!Confidence, Reference!Entailed, Reference!EntailmentCeiling
<1>4. DOMAIN conf = routed
  BY <1>3
<1>5. \A t \in routed : \E alone \in {(score[t] * x.weight[t] * Penalty(x, t) + 12000) \div 24000} :
        conf[t] = IF alone < 3500 THEN Cap(alone + Corroboration(routed)) ELSE alone
  BY <1>3
<1>6. Reference!Surfaced(conf) \subseteq {t \in routed : conf[t] >= 4000}
  BY <1>4 DEF Reference!Surfaced, Reference!UserFacingFloor
<1>7. /\ Reference!Analysis(x, {}, onnx, llm).routed = routed
      /\ Reference!Analysis(x, {}, onnx, llm).surfaced = Reference!Surfaced(conf)
  BY DEF Reference!Analysis
<1> QED
  BY <1>1, <1>2, <1>5, <1>6, <1>7

-----------------------------------------------------------------------------
\* Counting.
LEMMA AtLeastTwo ==
    ASSUME NEW S, IsFiniteSet(S), NEW a \in S, NEW b \in S, a # b
    PROVE  Cardinality(S) \in Nat /\ Cardinality(S) >= 2
<1>1. IsFiniteSet({a}) /\ Cardinality({a}) = 1
  BY FS_Singleton
<1>2. Cardinality({a} \cup {b}) = 2
  BY <1>1, FS_AddElement
<1>3. Cardinality({a} \cup {b}) <= Cardinality(S)
  BY FS_Subset
<1> QED
  BY <1>2, <1>3, FS_CardinalityType

LEMMA TacticsFinite ==
    ASSUME NEW x, x.hits \in [Tactic -> Nat]
    PROVE  /\ IsFiniteSet(Matched(x)) /\ IsFiniteSet(Candidates(x))
           /\ Candidates(x) \subseteq Matched(x) /\ Matched(x) \subseteq Tactic
           /\ \A S \in SUBSET Tactic : IsFiniteSet(S) /\ Cardinality(S) \in Nat
<1>1. IsFiniteSet({Urgency}) /\ IsFiniteSet({Urgency, Payment}) /\ IsFiniteSet({Urgency, Payment, Calm})
  <2>1. IsFiniteSet({Urgency})
    BY FS_Singleton
  <2>2. IsFiniteSet({Urgency} \cup {Payment})
    BY <2>1, FS_AddElement
  <2>3. IsFiniteSet(({Urgency} \cup {Payment}) \cup {Calm})
    BY <2>2, FS_AddElement
  <2>4. {Urgency} \cup {Payment} = {Urgency, Payment} /\ ({Urgency} \cup {Payment}) \cup {Calm} = {Urgency, Payment, Calm}
    OBVIOUS
  <2> QED
    BY <2>1, <2>2, <2>3, <2>4
<1>2. IsFiniteSet(Tactic)
  BY <1>1, TacticAssumption, FS_Union DEF Tactic
<1>3. \A S \in SUBSET Tactic : IsFiniteSet(S) /\ Cardinality(S) \in Nat
  BY <1>2, FS_Subset, FS_CardinalityType
<1>4. Candidates(x) \subseteq Matched(x) /\ Matched(x) \subseteq Tactic
  BY DEF Candidates, Matched
<1> QED
  BY <1>3, <1>4

LEMMA CuesFinite ==
    ASSUME NEW x, x.hits \in [Tactic -> Nat], NEW S \in SUBSET Tactic
    PROVE  IsFiniteSet(FoundCues(x, S)) /\ Cardinality(FoundCues(x, S)) \in Nat
<1> DEFINE cues == [t \in S |-> {t} \X (1..x.hits[t])]
           T    == {{t} \X (1..x.hits[t]) : t \in S}
<1>1. IsFiniteSet(S)
  BY TacticsFinite
<1>2. cues \in Surjection(S, T)
  BY DEF Surjection
<1>3. IsFiniteSet(T)
  BY <1>1, <1>2, FS_Surjection
<1>4. \A t \in S : IsFiniteSet({t} \X (1..x.hits[t]))
  <2> TAKE t \in S
  <2>1. x.hits[t] \in Int /\ 1 \in Int
    OBVIOUS
  <2>2. IsFiniteSet(1..x.hits[t])
    BY <2>1, FS_Interval
  <2>3. IsFiniteSet({t})
    BY FS_Singleton
  <2> QED
    BY <2>2, <2>3, FS_Product
<1>5. IsFiniteSet(UNION T)
  BY <1>3, <1>4, FS_UNION
<1> QED
  BY <1>5, FS_CardinalityType DEF FoundCues

\* One tactic with one cue; and two cues of any tactics.
LEMMA SingleCue ==
    ASSUME NEW x, NEW t, x.hits[t] = 1
    PROVE  Cardinality(FoundCues(x, {t})) = 1
<1>1. FoundCues(x, {t}) = {<<t, 1>>}
  BY DEF FoundCues
<1> QED
  BY <1>1, FS_Singleton

LEMMA SeveralCues ==
    ASSUME NEW x, x.hits \in [Tactic -> Nat],
           NEW S \in SUBSET Tactic, NEW a \in S, NEW b \in S,
           x.hits[a] >= 1, x.hits[b] >= 1, a # b \/ x.hits[a] >= 2
    PROVE  Cardinality(FoundCues(x, S)) >= 2
<1> DEFINE other == IF a # b THEN <<b, 1>> ELSE <<a, 2>>
<1>1. <<a, 1>> \in FoundCues(x, S)
  <2>1. <<a, 1>> \in {a} \X (1..x.hits[a])
    OBVIOUS
  <2> QED
    BY <2>1 DEF FoundCues
<1>2. other \in FoundCues(x, S)
  <2>1. a # b => <<b, 1>> \in {b} \X (1..x.hits[b])
    OBVIOUS
  <2>2. a = b => <<a, 2>> \in {a} \X (1..x.hits[a])
    OBVIOUS
  <2> QED
    BY <2>1, <2>2 DEF FoundCues
<1>3. other # <<a, 1>>
  OBVIOUS
<1> QED
  BY <1>1, <1>2, <1>3, CuesFinite, AtLeastTwo

\* Corroboration grows with the set, and one tactic corroborates nothing.
LEMMA CorroborationGrows ==
    ASSUME NEW S, IsFiniteSet(S), NEW T \in SUBSET S
    PROVE  /\ Corroboration(S) \in Nat /\ Corroboration(T) \in Nat
           /\ Corroboration(T) <= Corroboration(S)
           /\ \A t : S \subseteq {t} => Corroboration(S) = 0
<1>1. Cardinality(S) \in Nat /\ Cardinality(T) \in Nat /\ Cardinality(T) <= Cardinality(S)
  BY FS_Subset, FS_CardinalityType
<1>2. \A t : S \subseteq {t} => Cardinality(S) <= 1
  <2> SUFFICES ASSUME NEW t, S \subseteq {t} PROVE Cardinality(S) <= 1
    OBVIOUS
  <2>1. IsFiniteSet({t}) /\ Cardinality({t}) = 1
    BY FS_Singleton
  <2> QED
    BY <2>1, FS_Subset
<1>3. \A n, m \in Nat : n = Cardinality(S) /\ m = Cardinality(T) =>
         /\ Corroboration(S) = IF n <= 1 THEN 0 ELSE IF n = 2 THEN 1500 ELSE 3000
         /\ Corroboration(T) = IF m <= 1 THEN 0 ELSE IF m = 2 THEN 1500 ELSE 3000
  BY SMT DEF Corroboration
<1> QED
  BY <1>1, <1>2, <1>3

-----------------------------------------------------------------------------
\* Scores stay between 0 and One, and a gated score is at most its weight's and
\* its penalty's share of the whole.
LEMMA Evidenced ==
    ASSUME NEW x \in Reading, NEW t \in Candidates(x)
    PROVE  /\ t \in Tactic /\ x.hits[t] \in Nat /\ x.hits[t] >= 1
           /\ x.weight[t] \in {15, 20, 40, 54, 60}
           /\ Penalty(x, t) \in {33, 60, 220, 400}
           /\ t \in x.negated => Penalty(x, t) <= 60
<1>1. t \in Matched(x) /\ t \in Tactic /\ x.hits[t] > 0 /\ x.hits[t] \in Nat
  BY TextAssumption DEF Candidates, Matched
<1>2. x.weight[t] \in {15, 20, 40, 54, 60}
  BY <1>1, TextAssumption DEF Weights, DualUse
<1>3. Penalty(x, t) \in {33, 60, 220, 400} /\ (t \in x.negated => Penalty(x, t) <= 60)
  BY SMT DEF Penalty
<1> QED
  BY <1>1, <1>2, <1>3

LEMMA CapInRange ==
    ASSUME NEW n \in Nat
    PROVE  Score(Cap(n)) /\ Cap(n) <= n /\ (n <= 10000 => Cap(n) = n)
  BY DEF Cap, One, Score

LEMMA BlendInRange ==
    ASSUME NEW s, NEW a, NEW t, Score(s), t \in DOMAIN a => Score(a[t])
    PROVE  Score(Blended(s, a, t))
<1>1. \A m, n : Score(m) /\ Score(n) => Score((m + n) \div 2)
  BY DEF Score
<1> QED
  BY <1>1 DEF Blended

LEMMA NothingBlended ==
    \A s, t : Blended(s, NoAnswer, t) = s
  BY DEF Blended, NoAnswer

LEMMA Products ==
    /\ \A b, l, m \in Nat : l <= m => b * l \in Nat /\ b * l <= m * b
    /\ \A b, m, l \in Nat : b >= m => b * l >= m * l
  OBVIOUS

LEMMA WeakShare ==
    ASSUME NEW s, Score(s), NEW w \in {15, 20, 40, 54, 60}, NEW p \in {33, 60, 220, 400},
           w = 15 \/ p <= 60
    PROVE  s * w * p <= 60000000
<1>1. w * p \in Nat /\ w * p <= 6000
  OBVIOUS
<1>2. PICK k \in Nat : k = w * p /\ k <= 6000
  BY <1>1
<1>3. s \in Nat /\ s <= 10000 /\ s * w * p = s * k
  BY <1>2 DEF Score
<1>4. s * k <= 6000 * s
  BY <1>2, <1>3, Products
<1> QED
  BY <1>3, <1>4

LEMMA GatedGrows ==
    ASSUME NEW s, Score(s), NEW b, Score(b), b >= s,
           NEW w \in {15, 20, 40, 54, 60}, NEW p \in {33, 60, 220, 400}
    PROVE  b * w * p >= s * w * p
<1>1. PICK k \in Nat : k = w * p
  OBVIOUS
<1>2. s \in Nat /\ b \in Nat /\ s * w * p = s * k /\ b * w * p = b * k
  BY <1>1 DEF Score
<1>3. b * k >= s * k
  BY <1>1, <1>2, Products
<1> QED
  BY <1>2, <1>3

LEMMA PhoneBoostInRange ==
    ASSUME NEW x \in Reading, NEW t \in Candidates(x)
    PROVE  Score(Phone!Boosted(x, t))
<1>1. PICK base : base = Cap(2200 * x.hits[t]) /\ Score(base)
  <2>1. 2200 * x.hits[t] \in Nat
    BY Evidenced
  <2> QED
    BY <2>1, CapInRange
<1>2. PICK extra \in Nat :
        extra = IF Cardinality(Candidates(x)) < 2 THEN 0 ELSE IF t = Payment THEN 2000 ELSE 1000
  OBVIOUS
<1>3. base + extra \in Nat
  BY <1>1 DEF Score
<1>4. Score(Cap(base + extra))
  BY <1>3, CapInRange
<1> QED
  BY <1>1, <1>2, <1>4, PhoneBoost

LEMMA ReferenceScoreInRange ==
    ASSUME NEW x \in Reading, NEW t \in Candidates(x), NEW onnx, NEW llm,
           t \in DOMAIN onnx => Score(onnx[t]),
           t \in DOMAIN llm => Score(llm[t])
    PROVE  Score(Blended(Blended(Cap(Reference!TierZeroBase(x, t) + Reference!Boost(x, {}, t)), onnx, t), llm, t))
<1>1. PICK base : base = Reference!TierZeroBase(x, t) /\ Score(base)
  <2>1. 2200 * Reference!Hits(x, t) \in Nat
    <3>1. Reference!Hits(x, t) \in Nat
      BY Evidenced DEF Reference!Hits
    <3> QED
      BY <3>1
  <2>2. Reference!TierZeroBase(x, t) = Cap(2200 * Reference!Hits(x, t))
    BY SharedEvidence DEF Reference!TierZeroBase
  <2> QED
    BY <2>1, <2>2, CapInRange
<1>2. PICK extra \in Nat : extra = Reference!Boost(x, {}, t)
  BY DEF Reference!Boost
<1>3. base + extra \in Nat
  BY <1>1 DEF Score
<1>4. Score(Cap(base + extra))
  BY <1>3, CapInRange
<1>5. Score(Blended(Cap(base + extra), onnx, t))
  BY <1>4, BlendInRange
<1>6. Score(Blended(Blended(Cap(base + extra), onnx, t), llm, t))
  BY <1>5, BlendInRange
<1> QED
  BY <1>1, <1>2, <1>6

-----------------------------------------------------------------------------
\* What a model may answer about a reading.
LEMMA LevelsInRange ==
    \A l \in Level \cup {0} : Score(l)
<1> SUFFICES ASSUME NEW l \in Level \cup {0} PROVE l \in Nat /\ l <= 10000
  BY DEF Score
<1>1. l \in 0..10000
  BY LevelAssumption DEF One
<1> QED
  BY <1>1

LEMMA AnswersInRange ==
    ASSUME NEW S, NEW a \in Answers(S, Level), NEW t \in DOMAIN a
    PROVE  Score(a[t])
<1>1. PICK s \in SUBSET S : a \in [s -> Level]
  BY DEF Answers
<1>2. a[t] \in Level
  BY <1>1
<1> QED
  BY <1>2, LevelsInRange

LEMMA OnnxInRange ==
    ASSUME NEW S, NEW a \in Reference!OnnxAnswers(S, Level), NEW t \in DOMAIN a
    PROVE  Score(a[t])
<1>1. a = <<>> \/ a \in [S -> Level \cup {0}]
  BY DEF Reference!OnnxAnswers, Reference!NoAnswer
<1>2. a # <<>>
  OBVIOUS
<1>3. a[t] \in Level \cup {0}
  BY <1>1, <1>2
<1> QED
  BY <1>3, LevelsInRange

\* One cue alone stays below the escalation threshold of the phone.
LEMMA LoneCueStaysBelow ==
    ASSUME NEW x \in Reading, NEW t, Candidates(x) = {t}, x.hits[t] = 1, NEW native
    PROVE  Phone!Flags(x, native) = {}
<1>1. Cardinality(Candidates(x)) = 1 /\ Cardinality(FoundCues(x, Candidates(x))) = 1
  BY FS_Singleton, SingleCue
<1>2. Cap(1800 * Cardinality(Candidates(x)) + 500 * Cardinality(FoundCues(x, Candidates(x)))) = 2300
  BY <1>1 DEF Cap, One
<1>3. ~Phone!Escalates(x)
  <2>1. ~(Cap(1800 * Cardinality(Candidates(x)) + 500 * Cardinality(FoundCues(x, Candidates(x)))) >= 2800)
    BY <1>2
  <2> QED
    BY <2>1, PhoneEscalates
<1> QED
  BY <1>3 DEF Phone!Flags

\* A tactic that stands alone on weak evidence is not flagged by the phone...
LEMMA WeakTacticOnPhone ==
    ASSUME NEW x \in Reading, NEW t, Candidates(x) = {t},
           x.weight[t] = DualUse \/ t \in x.negated,
           NEW native \in Answers(Phone!Asked(x), Level)
    PROVE  Phone!Flags(x, native) = {}
<1>1. t \in Candidates(x) /\ x.hits \in [Tactic -> Nat]
  BY TextAssumption
<1>2. PICK s : s = Blended(Phone!Boosted(x, t), native, t) /\ Score(s)
  BY <1>1, PhoneBoostInRange, AnswersInRange, BlendInRange
<1>3. PICK w \in {15, 20, 40, 54, 60}, p \in {33, 60, 220, 400} :
        w = x.weight[t] /\ p = Penalty(x, t) /\ (w = 15 \/ p <= 60)
  BY <1>1, Evidenced DEF DualUse
<1>4. PICK alone \in Nat : alone = s * w * p /\ alone < 84000000
  <2>1. s * w * p \in Nat /\ s * w * p <= 60000000
    <3>1. s * w * p \in Nat
      <4>1. s \in Nat /\ w \in Nat /\ p \in Nat
        BY <1>2 DEF Score
      <4> QED
        BY <4>1
    <3>2. s * w * p <= 60000000
      BY <1>2, <1>3, WeakShare
    <3> QED
      BY <3>1, <3>2
  <2> QED
    BY <2>1
<1>5. Corroboration(Phone!Kept(x)) = 0
  <2>1. Phone!Kept(x) \subseteq {t}
    BY PhoneKeeps
  <2>2. IsFiniteSet(Phone!Kept(x))
    <3>1. IsFiniteSet({t}) /\ Phone!Kept(x) \in SUBSET {t}
      BY <2>1, FS_Singleton
    <3> QED
      BY <3>1, FS_Subset
  <2> QED
    BY <2>1, <2>2, CorroborationGrows
<1>6. t \notin Phone!Flags(x, native)
  <2>1. alone = Blended(Phone!Boosted(x, t), native, t) * x.weight[t] * Penalty(x, t)
    BY <1>2, <1>3, <1>4
  <2>2. ~(alone + 0 * 24000 >= 84000000)
    BY <1>4
  <2>3. alone \in Nat /\ 0 \in Nat
    OBVIOUS
  <2> QED
    BY <1>5, <2>1, <2>2, <2>3, PhoneGate
<1>7. Phone!Flags(x, native) \subseteq {t}
  BY PhoneKeeps DEF Phone!Flags
<1> QED
  BY <1>6, <1>7

\* ... nor surfaced by the reference.
LEMMA WeakTacticOnBackend ==
    ASSUME NEW x \in Reading, NEW t, Candidates(x) = {t},
           x.weight[t] = DualUse \/ t \in x.negated,
           NEW onnx \in Reference!OnnxAnswers(Candidates(x), Level),
           NEW llm \in Answers(Candidates(x), Level)
    PROVE  Reference!Analysis(x, {}, onnx, llm).surfaced = {}
<1>1. t \in Candidates(x) /\ x.hits \in [Tactic -> Nat]
  BY TextAssumption
<1>2. PICK score : score = Reference!Refined(x, {}, onnx, llm)
  OBVIOUS
<1>3. PICK routed : routed = Reference!Routed(x, score)
  OBVIOUS
<1>4. PICK conf : conf = Reference!Confidence(x, score, routed)
  OBVIOUS
<1>5. routed \subseteq {t}
  BY <1>1, <1>2, <1>3, <1>4, ReferenceRules
<1>6. score[t] = Blended(Blended(Cap(Reference!TierZeroBase(x, t) + Reference!Boost(x, {}, t)), onnx, t), llm, t)
  BY <1>1, <1>2, <1>3, <1>4, ReferenceRules
<1>7. t \in routed => \E alone \in {(score[t] * x.weight[t] * Penalty(x, t) + 12000) \div 24000} :
        conf[t] = IF alone < 3500 THEN Cap(alone + Corroboration(routed)) ELSE alone
  BY <1>1, <1>2, <1>3, <1>4, ReferenceRules
<1>8. Reference!Analysis(x, {}, onnx, llm).surfaced \subseteq {u \in routed : conf[u] >= 4000}
  BY <1>1, <1>2, <1>3, <1>4, ReferenceRules
<1>9. PICK s : s = score[t] /\ Score(s)
  BY <1>1, <1>6, ReferenceScoreInRange, AnswersInRange, OnnxInRange
<1>10. PICK w \in {15, 20, 40, 54, 60}, p \in {33, 60, 220, 400} :
        w = x.weight[t] /\ p = Penalty(x, t) /\ (w = 15 \/ p <= 60)
  BY <1>1, Evidenced DEF DualUse
<1>11. PICK gated \in Nat : gated = s * w * p /\ gated <= 60000000
  <2>1. s * w * p \in Nat
    <3>1. s \in Nat /\ w \in Nat /\ p \in Nat
      BY <1>9 DEF Score
    <3> QED
      BY <3>1
  <2>2. s * w * p <= 60000000
    BY <1>9, <1>10, WeakShare
  <2> QED
    BY <2>1, <2>2
<1>12. PICK alone \in Nat : alone = (gated + 12000) \div 24000 /\ alone <= 2500
  BY <1>11
<1>13. Corroboration(routed) = 0
  <2>1. IsFiniteSet({t}) /\ routed \in SUBSET {t}
    BY <1>5, FS_Singleton
  <2>2. IsFiniteSet(routed)
    BY <2>1, FS_Subset
  <2> QED
    BY <1>5, <2>2, CorroborationGrows
<1>14. ASSUME t \in routed PROVE conf[t] = alone
  <2>1. (score[t] * x.weight[t] * Penalty(x, t) + 12000) \div 24000 = alone
    BY <1>9, <1>10, <1>11, <1>12
  <2>2. conf[t] = IF alone < 3500 THEN Cap(alone + Corroboration(routed)) ELSE alone
    BY <1>7, <1>14, <2>1
  <2>3. Cap(alone + 0) = alone
    BY <1>12 DEF Cap, One
  <2> QED
    BY <1>12, <1>13, <2>2, <2>3
<1> QED
  BY <1>5, <1>8, <1>12, <1>14

-----------------------------------------------------------------------------
\* Without models, and without the cue that is listed twice, the phone's scores
\* are not below the reference's: both start from the same counts, and the phone
\* boosts two tactics where the reference wants three.
LEMMA ReferenceBase ==
    ASSUME NEW x \in Reading, ~x.doubled, NEW t \in Tactic
    PROVE  Reference!TierZeroBase(x, t) = Cap(2200 * x.hits[t])
<1>1. x.hits[t] \in Nat
  BY TextAssumption
<1>2. Reference!Hits(x, t) = x.hits[t]
  BY <1>1, SharedEvidence DEF Reference!Hits
<1>3. \A n : Reference!Cap(n) = Cap(n)
  BY SharedEvidence
<1> QED
  BY <1>2, <1>3, SMT DEF Reference!TierZeroBase

LEMMA ReferenceBoost ==
    ASSUME NEW x, NEW t
    PROVE  Reference!Boost(x, {}, t) =
             IF Cardinality(Candidates(x)) >= 3 THEN (IF t = Payment THEN 2000 ELSE 1000) ELSE 0
<1>1. Reference!Cardinality(Reference!Candidates(x)) = Cardinality(Candidates(x)) /\ Reference!Payment = Payment
  BY SharedEvidence
<1> QED
  BY <1>1, SMT DEF Reference!Boost, Reference!Compounding

LEMMA ScoresNotBelow ==
    ASSUME NEW x \in Reading, ~x.doubled, NEW t \in Candidates(x),
           NEW s, s = Cap(Reference!TierZeroBase(x, t) + Reference!Boost(x, {}, t))
    PROVE  Score(s) /\ Score(Phone!Boosted(x, t)) /\ Phone!Boosted(x, t) >= s
<1>1. t \in Tactic /\ x.hits[t] \in Nat /\ x.hits \in [Tactic -> Nat]
  BY Evidenced, TextAssumption
<1>2. PICK base : base = Cap(2200 * x.hits[t]) /\ Score(base)
  <2>1. 2200 * x.hits[t] \in Nat
    BY <1>1
  <2> QED
    BY <2>1, CapInRange
<1>3. PICK n \in Nat : n = Cardinality(Candidates(x))
  <2>1. Candidates(x) \in SUBSET Tactic
    BY <1>1, TacticsFinite
  <2> QED
    BY <1>1, <2>1, TacticsFinite
<1>4. PICK phone \in Nat : phone = IF n < 2 THEN 0 ELSE IF t = Payment THEN 2000 ELSE 1000
  OBVIOUS
<1>5. PICK ref \in Nat : ref = IF n >= 3 THEN (IF t = Payment THEN 2000 ELSE 1000) ELSE 0
  OBVIOUS
<1>6. ref <= phone
  BY <1>3, <1>4, <1>5
<1>7. s = Cap(base + ref)
  BY <1>1, <1>2, <1>3, <1>5, ReferenceBase, ReferenceBoost
<1>8. Phone!Boosted(x, t) = Cap(base + phone)
  BY <1>2, <1>3, <1>4, PhoneBoost
<1>9. base + ref \in Nat /\ base + phone \in Nat /\ base + ref <= base + phone
  BY <1>2, <1>4, <1>5, <1>6 DEF Score
<1>10. \A m, k \in Nat : m <= k => Score(Cap(m)) /\ Score(Cap(k)) /\ Cap(m) <= Cap(k)
  BY DEF Cap, One, Score
<1>11. Score(Cap(base + ref)) /\ Score(Cap(base + phone)) /\ Cap(base + ref) <= Cap(base + phone)
  BY <1>9, <1>10
<1> QED
  BY <1>7, <1>8, <1>11 DEF Score

\* The phone escalates any text but one with a single cue of a single tactic.
LEMMA PhoneEscalatesTwo ==
    ASSUME NEW x \in Reading, NEW t \in Candidates(x),
           ~(Candidates(x) = {t} /\ x.hits[t] = 1)
    PROVE  Phone!Escalates(x)
<1>1. x.hits \in [Tactic -> Nat] /\ Candidates(x) \in SUBSET Tactic /\ IsFiniteSet(Candidates(x))
  <2>1. x.hits \in [Tactic -> Nat]
    BY TextAssumption
  <2> QED
    BY <2>1, TacticsFinite
<1>2. PICK n \in Nat : n = Cardinality(Candidates(x)) /\ n >= 1
  <2>1. Cardinality(Candidates(x)) \in Nat /\ Cardinality(Candidates(x)) # 0
    BY <1>1, FS_EmptySet, FS_CardinalityType
  <2> QED
    BY <2>1
<1>3. PICK m \in Nat : m = Cardinality(FoundCues(x, Candidates(x)))
  BY <1>1, CuesFinite
<1>4. m >= 2
  <2>1. PICK u \in Candidates(x) : u # t \/ x.hits[t] # 1
    OBVIOUS
  <2>2. x.hits[t] >= 1 /\ x.hits[u] >= 1 /\ x.hits[t] \in Nat
    BY Evidenced
  <2>3. CASE u # t
    BY <1>1, <1>3, <2>2, <2>3, SeveralCues
  <2>4. CASE u = t
    BY <1>1, <1>3, <2>1, <2>2, <2>4, SeveralCues
  <2> QED
    BY <2>3, <2>4
<1>5. Cap(1800 * n + 500 * m) >= 2800
  BY <1>2, <1>4 DEF Cap, One
<1> QED
  BY <1>2, <1>3, <1>5, PhoneEscalates

\* What the reference surfaces without models, the phone flags.
LEMMA PhoneCovers ==
    ASSUME NEW x \in Reading, ~x.doubled,
           NEW t \in Reference!Analysis(x, {}, NoAnswer, NoAnswer).surfaced
    PROVE  t \in Phone!Flags(x, NoAnswer)
<1>1. PICK score : score = Reference!Refined(x, {}, NoAnswer, NoAnswer)
  OBVIOUS
<1>2. PICK routed : routed = Reference!Routed(x, score)
  OBVIOUS
<1>3. PICK conf : conf = Reference!Confidence(x, score, routed)
  OBVIOUS
<1>4. routed \subseteq Candidates(x)
  BY <1>1, <1>2, <1>3, ReferenceRules
<1>5. t \in routed /\ conf[t] >= 4000
  <2>1. Reference!Analysis(x, {}, NoAnswer, NoAnswer).surfaced \subseteq {u \in routed : conf[u] >= 4000}
    BY <1>1, <1>2, <1>3, ReferenceRules
  <2> QED
    BY <2>1
<1>6. \E alone \in {(score[t] * x.weight[t] * Penalty(x, t) + 12000) \div 24000} :
        conf[t] = IF alone < 3500 THEN Cap(alone + Corroboration(routed)) ELSE alone
  BY <1>1, <1>2, <1>3, <1>5, ReferenceRules
<1>7. \A u \in routed : ~\E o \in Exclusive(u) \cap Matched(x) :
        10 * Reference!TierZeroBase(x, o) >= 7 * score[u]
  BY <1>1, <1>2, <1>3, ReferenceRules
<1>8. \A u \in Candidates(x) :
        score[u] = Cap(Reference!TierZeroBase(x, u) + Reference!Boost(x, {}, u))
  <2>1. \A u \in Candidates(x) :
          score[u] = Blended(Blended(Cap(Reference!TierZeroBase(x, u) + Reference!Boost(x, {}, u)),
                                     NoAnswer, u), NoAnswer, u)
    BY <1>1, <1>2, <1>3, ReferenceRules
  <2> QED
    BY <2>1, NothingBlended
<1>9. \A u \in Candidates(x) :
        Score(score[u]) /\ Score(Phone!Boosted(x, u)) /\ Phone!Boosted(x, u) >= score[u]
  BY <1>8, ScoresNotBelow
<1>10. t \in Candidates(x) /\ x.hits \in [Tactic -> Nat]
  BY <1>4, <1>5, TextAssumption

\* The gated score of the tactic, and what corroborates it.
<1>11. PICK w \in {15, 20, 40, 54, 60}, p \in {33, 60, 220, 400} : w = x.weight[t] /\ p = Penalty(x, t)
  BY <1>10, Evidenced
<1>12. PICK s : s = score[t] /\ Score(s)
  BY <1>9, <1>10
<1>13. PICK b : b = Phone!Boosted(x, t) /\ Score(b) /\ b >= s
  BY <1>9, <1>10, <1>12
<1>14. PICK gated \in Nat : gated = s * w * p /\ gated <= 24000 * s
  <2>1. s \in Nat
    BY <1>12 DEF Score
  <2>2. PICK k \in Nat : k = w * p /\ k <= 24000
    OBVIOUS
  <2>3. s * w * p = s * k
    BY <2>1, <2>2
  <2>4. s * k \in Nat /\ s * k <= 24000 * s
    BY <2>1, <2>2, Products
  <2> QED
    BY <2>3, <2>4
<1>15. PICK mine \in Nat : mine = b * w * p /\ mine >= gated
  <2>1. b \in Nat /\ b * w * p \in Nat
    BY <1>13 DEF Score
  <2>2. b * w * p >= s * w * p
    BY <1>12, <1>13, GatedGrows
  <2> QED
    BY <1>14, <2>1, <2>2
<1>16. IsFiniteSet(routed) /\ IsFiniteSet(Phone!Kept(x))
  <2>1. routed \in SUBSET Candidates(x) /\ Phone!Kept(x) \in SUBSET Candidates(x)
    BY <1>4, PhoneKeeps
  <2>2. IsFiniteSet(Candidates(x))
    BY <1>10, TacticsFinite
  <2> QED
    BY <2>1, <2>2, FS_Subset
<1>17. PICK corr \in Nat : corr = Corroboration(routed)
  BY <1>16, CorroborationGrows
<1>18. 24000 * corr + gated + 12000 >= 96000000
  <2>1. PICK alone \in Nat : alone = (gated + 12000) \div 24000 /\ 24000 * alone <= gated + 12000
    <3>1. (gated + 12000) \div 24000 \in Nat /\ 24000 * ((gated + 12000) \div 24000) <= gated + 12000
      OBVIOUS
    <3> QED
      BY <3>1
  <2>2. (score[t] * x.weight[t] * Penalty(x, t) + 12000) \div 24000 = alone
    BY <1>11, <1>12, <1>14, <2>1
  <2>3. conf[t] = IF alone < 3500 THEN Cap(alone + corr) ELSE alone
    BY <1>6, <1>17, <2>2
  <2>4. Cap(alone + corr) <= alone + corr
    BY CapInRange
  <2>5. alone + corr >= 4000
    BY <1>5, <2>3, <2>4, CapInRange
  <2> QED
    BY <2>1, <2>5

\* The phone escalates, since one cue of one tactic does not surface.
<1>19. Phone!Escalates(x)
  <2> SUFFICES ASSUME Candidates(x) = {t}, x.hits[t] = 1
               PROVE  FALSE
    BY <1>10, PhoneEscalatesTwo
  <2>1. Cardinality(Candidates(x)) = 1
    <3>1. Cardinality({t}) = 1
      BY FS_Singleton
    <3> QED
      BY <3>1
  <2>2. Reference!Boost(x, {}, t) = 0
    <3>1. ~(Cardinality(Candidates(x)) >= 3)
      BY <2>1
    <3>2. Reference!Boost(x, {}, t) =
            IF Cardinality(Candidates(x)) >= 3 THEN (IF t = Payment THEN 2000 ELSE 1000) ELSE 0
      BY ReferenceBoost
    <3> QED
      BY <3>1, <3>2, SMT
  <2>3. Reference!TierZeroBase(x, t) = 2200
    <3>1. Cap(2200 * 1) = 2200
      BY DEF Cap, One
    <3>2. t \in Tactic
      BY <1>10, Evidenced
    <3> QED
      BY <3>1, <3>2, ReferenceBase
  <2>4. Cap(2200 + 0) = 2200
    BY DEF Cap, One
  <2>5. s = 2200
    BY <1>8, <1>10, <1>12, <2>2, <2>3, <2>4
  <2>6. corr = 0
    BY <1>4, <1>16, <1>17, CorroborationGrows
  <2> QED
    BY <1>14, <1>18, <2>5, <2>6

\* The phone keeps what the reference routes.
<1>20. routed \subseteq Phone!Kept(x)
  <2> SUFFICES ASSUME NEW u \in routed, NEW o \in Exclusive(u) \cap Matched(x),
                      10 * Phone!TierZeroBase(x, o) >= 7 * Phone!Boosted(x, u)
               PROVE  FALSE
    BY <1>4, PhoneKeeps
  <2>1. o \in Tactic
    BY DEF Matched
  <2>2. Phone!TierZeroBase(x, o) = Reference!TierZeroBase(x, o)
    BY <2>1, PhoneBase, ReferenceBase
  <2>3. PICK base : base = Reference!TierZeroBase(x, o) /\ Score(base)
    <3>1. 2200 * x.hits[o] \in Nat
      BY <1>10, <2>1
    <3> QED
      BY <2>1, <3>1, ReferenceBase, CapInRange
  <2>4. u \in Candidates(x)
    BY <1>4
  <2>5. Score(score[u]) /\ Score(Phone!Boosted(x, u)) /\ Phone!Boosted(x, u) >= score[u]
    BY <1>9, <2>4
  <2>6. 10 * base >= 7 * score[u]
    BY <2>2, <2>3, <2>5 DEF Score
  <2> QED
    BY <1>7, <2>3, <2>6
<1>21. PICK more \in Nat : more = Corroboration(Phone!Kept(x)) /\ more >= corr
  <2>1. routed \in SUBSET Phone!Kept(x)
    BY <1>20
  <2>2. Corroboration(Phone!Kept(x)) \in Nat /\ Corroboration(routed) <= Corroboration(Phone!Kept(x))
    BY <1>16, <2>1, CorroborationGrows
  <2> QED
    BY <1>17, <2>2
<1>22. mine + more * 24000 >= 84000000
  BY <1>15, <1>18, <1>21
<1>23. mine = Blended(Phone!Boosted(x, t), NoAnswer, t) * x.weight[t] * Penalty(x, t)
  BY <1>11, <1>13, <1>15, NothingBlended
<1> QED
  BY <1>5, <1>19, <1>20, <1>21, <1>22, <1>23, PhoneGate

-----------------------------------------------------------------------------
(***************************************************************************)
(* The inductive invariant.  What a card cites was computed from the text  *)
(* that is still in the field, by the scorer that the card names, from an  *)
(* answer that its parser can give; and an explanation is there only next  *)
(* to a card, computed from the same text.                                 *)
(***************************************************************************)
TextInField == IF screen = "empty" THEN text = NoText ELSE text \in Text

CitedByItsScorer ==
    /\ scorer \in {"none", "heuristic", "model", "backend"}
    /\ screen \in {"flag", "no_strong_pattern"} => scorer # "none"
    /\ scorer = "none" => cited = {}
    /\ scorer \in {"heuristic", "model"} =>
         \E native \in Parsed(text) :
            /\ cited = Phone!Flags(LowerCased(text), native)
            /\ tier = Phone!TierReached(LowerCased(text), native)
    /\ scorer = "backend" =>
         \E onnx \in Reference!OnnxAnswers(Candidates(Normalized(text)), Level),
            llm \in Answers(Candidates(Normalized(text)), Level) :
            LET a == Reference!Analysis(Normalized(text), {}, onnx, llm)
            IN  cited = WireEvidence(a.routed, a.surfaced)

ExplainedFromTheText ==
    /\ explanation \in {NoExplanation, Phone!Flags(LowerCased(text), NoAnswer)}
    /\ screen \in {"empty", "pasted", "checking"} => explanation = NoExplanation

IInv == TextInField /\ CitedByItsScorer /\ ExplainedFromTheText

\* No model, and an unusable completion, are among a parser's results.
LEMMA NoAnswerIsParsed ==
    \A S : NoAnswer \in Answers(S, Level)
<1> SUFFICES ASSUME NEW S PROVE NoAnswer \in Answers(S, Level)
  OBVIOUS
<1>1. NoAnswer \in [{} -> Level]
  BY DEF NoAnswer
<1>2. {} \in SUBSET S
  OBVIOUS
<1> QED
  BY <1>1, <1>2 DEF Answers

\* The invariant holds of every reachable state.
THEOREM Invariance == Spec => []IInv
<1>1. Init => IInv
  BY DEF Init, IInv, TextInField, CitedByItsScorer, ExplainedFromTheText
<1>2. IInv /\ [Next]_vars => IInv'
  <2> SUFFICES ASSUME IInv, [Next]_vars PROVE IInv'
    OBVIOUS
  <2> USE DEF IInv
  <2>1. ASSUME NEW x \in Text, Paste(x) PROVE IInv'
    BY <2>1 DEF Paste, NothingShown, TextInField, CitedByItsScorer, ExplainedFromTheText
  <2>2. CASE RunCheck
    BY <2>2 DEF RunCheck, NothingShown, TextInField, CitedByItsScorer, ExplainedFromTheText
  <2>3. CASE HeuristicAnswers
    <3>1. NoAnswer \in Parsed(text)
      BY NoAnswerIsParsed DEF Parsed
    <3>2. text' = text /\ explanation' = explanation /\ screen = "checking"
          /\ screen' \in {"flag", "no_strong_pattern"} /\ scorer' = "heuristic"
          /\ tier' = Phone!TierReached(LowerCased(text), NoAnswer)
          /\ cited' = Phone!Flags(LowerCased(text), NoAnswer)
      BY <2>3 DEF HeuristicAnswers, Show
    <3> QED
      BY <3>1, <3>2 DEF TextInField, CitedByItsScorer, ExplainedFromTheText
  <2>4. CASE ModelAnswers
    <3>1. PICK native \in Parsed(text) :
            Show("model", Phone!TierReached(LowerCased(text), native), Phone!Flags(LowerCased(text), native))
      BY <2>4 DEF ModelAnswers
    <3>2. text' = text /\ explanation' = explanation /\ screen = "checking"
          /\ screen' \in {"flag", "no_strong_pattern"} /\ scorer' = "model"
          /\ tier' = Phone!TierReached(LowerCased(text), native)
          /\ cited' = Phone!Flags(LowerCased(text), native)
      BY <2>4, <3>1 DEF ModelAnswers, Show
    <3> QED
      BY <3>2 DEF TextInField, CitedByItsScorer, ExplainedFromTheText
  <2>5. CASE BackendAnswers
    <3>1. PICK onnx \in Reference!OnnxAnswers(Candidates(Normalized(text)), Level),
               llm \in Answers(Candidates(Normalized(text)), Level) :
            LET a == Reference!Analysis(Normalized(text), {}, onnx, llm)
            IN  Show("backend", a.tier, WireEvidence(a.routed, a.surfaced))
      BY <2>5 DEF BackendAnswers
    <3>2. PICK a : a = Reference!Analysis(Normalized(text), {}, onnx, llm)
      OBVIOUS
    <3>3. text' = text /\ explanation' = explanation /\ screen = "checking"
          /\ screen' \in {"flag", "no_strong_pattern"} /\ scorer' = "backend"
          /\ cited' = WireEvidence(a.routed, a.surfaced)
      BY <2>5, <3>1, <3>2 DEF BackendAnswers, Show
    <3> QED
      BY <3>2, <3>3 DEF TextInField, CitedByItsScorer, ExplainedFromTheText
  <2>6. CASE CheckFails
    BY <2>6 DEF CheckFails, NothingShown, TextInField, CitedByItsScorer, ExplainedFromTheText
  <2>7. CASE ExplainOnDevice
    BY <2>7 DEF ExplainOnDevice, ExplainedTactics, TextInField, CitedByItsScorer, ExplainedFromTheText
  <2>8. CASE Leave
    BY <2>8 DEF Leave, NothingShown, TextInField, CitedByItsScorer, ExplainedFromTheText
  <2>9. CASE UNCHANGED vars
    BY <2>9 DEF vars, TextInField, CitedByItsScorer, ExplainedFromTheText
  <2> QED
    BY <2>1, <2>2, <2>3, <2>4, <2>5, <2>6, <2>7, <2>8, <2>9 DEF Next
<1> QED
  BY <1>1, <1>2, PTL DEF Spec

-----------------------------------------------------------------------------
\* A text without cues has no candidates, however it is read.
LEMMA NoTextNoCandidates ==
    Candidates(LowerCased(NoText)) = {} /\ Candidates(Normalized(NoText)) = {}
  BY DEF Candidates, Matched, NoText, NoCues, LowerCased, Normalized

LEMMA CandidatesNeedText ==
    ASSUME IInv, NEW t,
           t \in Candidates(LowerCased(text)) \/ t \in Candidates(Normalized(text))
    PROVE  LowerCased(text) \in Reading /\ Normalized(text) \in Reading
<1>1. text \in Text
  BY NoTextNoCandidates DEF IInv, TextInField
<1> QED
  BY <1>1 DEF Reading, LowerCased, Normalized

\* On a text that both cascades read alike, the phone's is never less
\* protective than the reference without models: it flags all that the Python
\* pipeline surfaces.
THEOREM PortCoversPipeline == Spec => []PhoneCoversReference
<1>1. IInv => PhoneCoversReference
  <2> SUFFICES ASSUME IInv, screen = "pasted", LowerCased(text) = Normalized(text),
                      ~Normalized(text).doubled,
                      NEW t \in Reference!Analysis(Normalized(text), {}, NoAnswer, NoAnswer).surfaced
               PROVE  t \in Phone!Flags(LowerCased(text), NoAnswer)
    BY DEF PhoneCoversReference
  <2>1. text \in Text
    BY DEF IInv, TextInField
  <2>2. PICK x \in Reading : x = LowerCased(text) /\ x = Normalized(text)
    BY <2>1 DEF Reading, Normalized
  <2> QED
    BY <2>2, PhoneCovers
<1> QED
  BY <1>1, Invariance, PTL

\* One cue alone is never flagged by a scorer on the phone.
THEOREM LoneCueIsSilent == Spec => []LoneCueAbstains
<1>1. IInv => LoneCueAbstains
  <2> SUFFICES ASSUME IInv, scorer \in {"heuristic", "model"}, NEW t \in Tactic,
                      Candidates(LowerCased(text)) = {t}, LowerCased(text).hits[t] = 1
               PROVE  cited = {}
    BY DEF LoneCueAbstains
  <2>1. LowerCased(text) \in Reading
    BY CandidatesNeedText
  <2>2. PICK native : cited = Phone!Flags(LowerCased(text), native)
    BY DEF IInv, CitedByItsScorer
  <2> QED
    BY <2>1, <2>2, LoneCueStaysBelow
<1> QED
  BY <1>1, Invariance, PTL

\* A tactic alone, on dual-use or negated cues, is not cited by any scorer.
THEOREM WeakTacticIsSilent == Spec => []WeakTacticAloneAbstains
<1>1. IInv => WeakTacticAloneAbstains
  <2> SUFFICES ASSUME IInv, NEW t \in Tactic,
                      NEW x, x = IF scorer = "backend" THEN Normalized(text) ELSE LowerCased(text),
                      Candidates(x) = {t}, x.weight[t] = DualUse \/ t \in x.negated
               PROVE  cited = {}
    BY DEF WeakTacticAloneAbstains
  <2>1. x \in Reading
    BY CandidatesNeedText
  <2>2. CASE scorer = "none"
    BY <2>2 DEF IInv, CitedByItsScorer
  <2>3. CASE scorer \in {"heuristic", "model"}
    <3>1. PICK native \in Answers(Phone!Asked(x), Level) : cited = Phone!Flags(x, native)
      BY <2>3 DEF IInv, CitedByItsScorer, Parsed
    <3> QED
      BY <2>1, <3>1, WeakTacticOnPhone
  <2>4. CASE scorer = "backend"
    <3>1. PICK onnx \in Reference!OnnxAnswers(Candidates(x), Level), llm \in Answers(Candidates(x), Level) :
            LET a == Reference!Analysis(x, {}, onnx, llm)
            IN  cited = WireEvidence(a.routed, a.surfaced)
      BY <2>4 DEF IInv, CitedByItsScorer
    <3>2. Reference!Analysis(x, {}, onnx, llm).surfaced = {}
      BY <2>1, WeakTacticOnBackend
    <3> QED
      BY <3>1, <3>2 DEF WireEvidence
  <2> QED
    BY <2>2, <2>3, <2>4 DEF IInv, CitedByItsScorer
<1> QED
  BY <1>1, Invariance, PTL

\* A card labelled Tier 0 shows the heuristic's own result, and is explained
\* with the tactics it cites.
THEOREM TierZeroIsTheHeuristic == Spec => []TierZeroIsHeuristic
<1>1. IInv => TierZeroIsHeuristic
  <2> SUFFICES ASSUME IInv, screen \in {"flag", "no_strong_pattern"}, scorer # "backend", tier = 0
               PROVE  /\ cited = Phone!Flags(LowerCased(text), NoAnswer)
                      /\ explanation \in {NoExplanation, cited}
    BY DEF TierZeroIsHeuristic
  <2>1. PICK native : /\ cited = Phone!Flags(LowerCased(text), native)
                      /\ tier = Phone!TierReached(LowerCased(text), native)
    BY DEF IInv, CitedByItsScorer
  <2>2. ~Phone!Escalates(LowerCased(text)) \/ native = NoAnswer
    BY <2>1, SharedEvidence DEF Phone!TierReached
  <2>3. Phone!Flags(LowerCased(text), native) = Phone!Flags(LowerCased(text), NoAnswer)
    BY <2>2 DEF Phone!Flags
  <2> QED
    BY <2>1, <2>3 DEF IInv, ExplainedFromTheText
<1> QED
  BY <1>1, Invariance, PTL

=============================================================================
