------------------------------ MODULE Evidence ------------------------------
(***************************************************************************)
(* What the two detection cascades see of a text: the manipulation tactics *)
(* of detection/conversation/tactic_taxonomy.py and the table TACTICS of   *)
(* mobile/src/ml/onDeviceCascade.ts, and for each of them the cue phrases  *)
(* found in the text.  Each cascade normalises a text in its own way       *)
(* before it looks for cues; x stands for one reading of a text, a record: *)
(*   hits          how many of each tactic's cues the text contains        *)
(*   weight        the information weight of the strongest of them         *)
(*   negated       tactics with a negation close before one of their cues  *)
(*   hypothetical  the text is a question, or starts like a supposition    *)
(*   doubled       it has "wire the money", which the Python taxonomy      *)
(*                 lists twice                                             *)
(*                                                                         *)
(* Tactics that no rule tells apart are members of Plain.  Scores are in   *)
(* units of 1/10000, weights in 1/60, penalties in 1/400.                  *)
(***************************************************************************)
EXTENDS Integers, FiniteSetsExt

CONSTANTS
    Plain,          \* tactics that the scoring rules do not name
    Untrained       \* those of them that the ONNX classifier has no class for

Urgency == "urgency_injection"
Payment == "payment_channel_funneling"
Calm    == "calming_reassurance"

ASSUME TacticAssumption ==
    /\ Plain \cap {Urgency, Payment, Calm} = {}
    /\ Untrained \subseteq Plain
    /\ IsFiniteSet(Plain)

Tactic == {Urgency, Payment, Calm} \cup Plain

\* "mutually_exclusive_with": only urgency has an entry.
Exclusive(t) == IF t = Urgency THEN {Calm} ELSE {}

One == 10000
Cap(n) == IF n > One THEN One ELSE n

\* A cue counts 0.25 when it is dual-use, a third per word up to 1 otherwise,
\* and at least 0.9 when it holds a term of art.
DualUse == 15
Weights == {DualUse, 20, 40, 54, 60}

Matched(x)    == {t \in Tactic : x.hits[t] > 0}
Candidates(x) == Matched(x) \ {Calm}

\* The cues found for some tactics, each as its tactic and a number.
FoundCues(x, tactics) == UNION {{t} \X (1..x.hits[t]) : t \in tactics}

IgnoringNegation(x, t) == IF x.hypothetical THEN 220 ELSE 400

\* The penalties of hypothetical framing, 0.55, and of negation, 0.15.
Penalty(x, t) ==
    CASE x.hypothetical /\ t \in x.negated -> 33
      [] x.hypothetical /\ t \notin x.negated -> 220
      [] ~x.hypothetical /\ t \in x.negated -> 60
      [] OTHER -> 400

\* 0.15 for each further tactic, at most 0.30.
Corroboration(tactics) ==
    CASE Cardinality(tactics) <= 1 -> 0
      [] Cardinality(tactics) = 2 -> 1500
      [] OTHER -> 3000

\* A model's answer gives a confidence to some of the tactics it was asked
\* about; no model, a failure and an unusable answer give none.
NoAnswer == <<>>
Answers(asked, levels) == UNION {[s -> levels] : s \in SUBSET asked}

\* 50/50 with the model, where it answered.
Blended(score, answer, t) == IF t \in DOMAIN answer THEN (score + answer[t]) \div 2 ELSE score

=============================================================================
