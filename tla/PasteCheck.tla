----------------------------- MODULE PasteCheck -----------------------------
(***************************************************************************)
(* A check of a pasted text, from the press to the card and to "Explain    *)
(* more": mobile/src/screens/PasteCheckScreen.tsx, App.tsx and the scorers *)
(* behind scoreTranscript, over the two cascades.                          *)
(*                                                                         *)
(* Which scorer answers is EdgeRuntime's subject: here any may.  The text  *)
(* is not edited between a check and its explanation.                      *)
(***************************************************************************)
EXTENDS Evidence

CONSTANTS
    Text,           \* the texts a user may paste, each with its two readings:
                    \* raw on the phone, folded by the Python normalisation
    Level           \* the confidences a model may answer

Reading == {x.raw : x \in Text} \cup {x.folded : x \in Text}

\* A negation is close to a cue, and the phrase that is listed twice has three
\* words, so it is as strong as a cue can be.
ASSUME TextAssumption ==
    \A x \in Reading :
        /\ x.hits \in [Tactic -> Nat]
        /\ \A t \in Matched(x) : x.weight[t] \in Weights
        /\ x.negated \subseteq Matched(x)
        /\ x.doubled => x.hits[Payment] > 0 /\ x.weight[Payment] = 60

Phone     == INSTANCE OnDeviceCascade
Reference == INSTANCE ReferenceCascade

NoCues == [hits |-> [t \in Tactic |-> 0]]
NoText == [raw |-> NoCues, folded |-> NoCues]

\* What the phone reads: lower case, blanks collapsed.  A cue spelled with
\* fullwidth or Cyrillic letters, or split by a zero-width character, is none.
LowerCased(x) == x.raw

\* What the backend reads: NFKC, zero-width characters stripped, look-alike
\* letters mapped to Latin, and then lower case and blanks as on the phone.
Normalized(x) == x.folded

\* Both parsers clamp what a model says; the classifier's sigmoid cannot exceed 1.
ASSUME LevelAssumption == Level \subseteq 0..One

VARIABLES
    text,           \* the text in the input field
    screen,         \* which card the screen shows
    scorer,         \* what answered: heuristic, model or backend
    tier,           \* the tier on the flag card's source label
    cited,          \* the tactics its evidence cites
    explanation     \* the tactics that the explanation names, or NoExplanation

vars == <<text, screen, scorer, tier, cited, explanation>>

NoExplanation == {"none"}

-----------------------------------------------------------------------------
\* A card: a flag when evidence is cited, else "no strong pattern".
Show(who, label, evidence) ==
    /\ screen' = IF evidence = {} THEN "no_strong_pattern" ELSE "flag"
    /\ scorer' = who
    /\ tier' = label
    /\ cited' = evidence
    /\ UNCHANGED <<text, explanation>>

NothingShown(card) ==
    /\ screen' = card
    /\ scorer' = "none" /\ tier' = 0 /\ cited' = {}

Paste(x) ==
    /\ screen = "empty"
    /\ text' = x
    /\ NothingShown("pasted")
    /\ UNCHANGED explanation

\* runCheck clears the last result.
RunCheck ==
    /\ screen \in {"pasted", "flag", "no_strong_pattern", "failed"}
    /\ NothingShown("checking")
    /\ explanation' = NoExplanation
    /\ UNCHANGED text

\* defaultScorer.ts: the pure-TS cascade.
HeuristicAnswers ==
    /\ screen = "checking"
    /\ LET read == LowerCased(text)
       IN  Show("heuristic", Phone!TierReached(read, NoAnswer), Phone!Flags(read, NoAnswer))

\* What parseTacticAssessments leaves of a completion, whatever it says.
Parsed(x) == Answers(Phone!Asked(LowerCased(x)), Level)

\* nativeLlamaScorer.ts: the same cascade, blended with what the model said.
ModelAnswers ==
    /\ screen = "checking"
    /\ \E native \in Parsed(text) :
          LET read == LowerCased(text)
          IN  Show("model", Phone!TierReached(read, native), Phone!Flags(read, native))

\* client.ts, toPasteCheckResult: every flag of the response becomes evidence
\* as soon as one of them surfaced.
WireEvidence(routed, surfaced) == IF surfaced = {} THEN {} ELSE routed

BackendAnswers ==
    /\ screen = "checking"
    /\ \E onnx \in Reference!OnnxAnswers(Candidates(Normalized(text)), Level),
          llm \in Answers(Candidates(Normalized(text)), Level) :
          LET a == Reference!Analysis(Normalized(text), {}, onnx, llm)
          IN  Show("backend", a.tier, WireEvidence(a.routed, a.surfaced))

\* A timeout, an HTTP error or an unreadable body of the backend's answer.
CheckFails ==
    /\ screen = "checking"
    /\ NothingShown("failed")
    /\ UNCHANGED <<text, explanation>>

\* buildOnDeviceExplanation runs the heuristic cascade over the text again.
ExplainedTactics(x) == Phone!Flags(LowerCased(x), NoAnswer)

\* The explanation when the cloud is disabled, unreachable or in error.
ExplainOnDevice ==
    /\ screen = "flag" /\ explanation = NoExplanation
    /\ explanation' = ExplainedTactics(text)
    /\ UNCHANGED <<text, screen, scorer, tier, cited>>

Leave ==
    /\ screen \in {"flag", "no_strong_pattern", "failed"}
    /\ text' = NoText
    /\ NothingShown("empty")
    /\ explanation' = NoExplanation

-----------------------------------------------------------------------------
Init ==
    /\ text = NoText /\ screen = "empty"
    /\ scorer = "none" /\ tier = 0 /\ cited = {}
    /\ explanation = NoExplanation

Next ==
    \/ \E x \in Text : Paste(x)
    \/ RunCheck
    \/ HeuristicAnswers \/ ModelAnswers \/ BackendAnswers \/ CheckFails
    \/ ExplainOnDevice \/ Leave

Spec == Init /\ [][Next]_vars

-----------------------------------------------------------------------------
(***************************************************************************)
(* Properties.                                                             *)
(***************************************************************************)
\* The rules of the phone's own cascade are never less protective than those of
\* the reference: what the Python pipeline surfaces without models, the port
\* flags too, whatever the other rules they disagree on (onDeviceCascade.ts:250-537).
\* There are two exceptions: a text that the two normalisations read differently
\* (263-265, transcript_normalizer.py:44-52), and the cue that the Python taxonomy
\* lists twice.
PhoneCoversReference ==
    (screen = "pasted" /\ LowerCased(text) = Normalized(text) /\ ~Normalized(text).doubled) =>
        Reference!Analysis(Normalized(text), {}, NoAnswer, NoAnswer).surfaced
            \subseteq Phone!Flags(LowerCased(text), NoAnswer)

\* One cue alone is never flagged on the phone, whatever the model answers, and
\* whatever reassurance stands beside it (nli_entailment_gate.py:49-57).
LoneCueAbstains ==
    LET read == LowerCased(text) IN
    scorer \in {"heuristic", "model"} /\ (\E t \in Tactic : Candidates(read) = {t} /\ read.hits[t] = 1)
        => cited = {}

\* A tactic that stands alone in what a scorer reads is not flagged on dual-use or
\* on negated cues, by any scorer, whatever the models answer
\* (nli_entailment_gate.py:17-20, 59-67).
WeakTacticAloneAbstains ==
    LET read == IF scorer = "backend" THEN Normalized(text) ELSE LowerCased(text) IN
    \A t \in Tactic :
        Candidates(read) = {t} /\ (read.weight[t] = DualUse \/ t \in read.negated) => cited = {}

\* A card that says Tier 0 shows what the heuristic alone finds, and a flag that
\* it shows is explained with just the tactics it cites: a failed, empty or
\* unreadable completion changes nothing (nativeLlamaScorer.ts:318-336, and
\* onDeviceExplainer.ts:81-130, which runs the heuristic once more).
TierZeroIsHeuristic ==
    (screen \in {"flag", "no_strong_pattern"} /\ scorer # "backend" /\ tier = 0) =>
        cited = Phone!Flags(LowerCased(text), NoAnswer) /\ explanation \in {NoExplanation, cited}

=============================================================================
