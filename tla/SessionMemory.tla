--------------------------- MODULE SessionMemory ---------------------------
(***************************************************************************)
(* A conversation as it is analysed turn by turn.                          *)
(* detection/conversation/transcript_normalizer.py joins the messages of a *)
(* burst into one turn; memory_compaction.py, ConversationMemory, keeps    *)
(* the last turns and, for ever, the tactics that any turn was a candidate *)
(* for; these are the prior flags of the next analysis.                    *)
(***************************************************************************)
EXTENDS ReferenceCascade, SequencesExt

CONSTANTS
    Turn,           \* what the normalised text of a turn may have
    MaxWindow,      \* SLIDING_WINDOW_MAX_TURNS, 12 in the code
    MaxTurns,       \* bound: turns of a session
    BurstWindow,    \* BURST_WINDOW_MS
    Gaps,           \* bound: times from a message to the next
    MaxRaw          \* bound: messages of a transcript

ASSUME TurnAssumption == \A x \in Turn : x.hits \in [Tactic -> Nat]
ASSUME BurstAssumption == BurstWindow \in Int /\ Gaps \subseteq Int

VARIABLES
    turnCount,      \* turn_count
    rawWindow,      \* raw_window: the turns still held word for word
    riskFlags,      \* risk_flags: a tactic and the turn that it comes from
    arc,            \* history: the turns that were a candidate for a tactic
    raw             \* the messages of a transcript: sender, at, short

sessionVars == <<turnCount, rawWindow, riskFlags, arc>>

SessionInit ==
    /\ turnCount = 0 /\ rawWindow = <<>> /\ riskFlags = {} /\ arc = {}
    /\ raw = <<>>

FlagIdsInWindow == {f.tactic : f \in {g \in riskFlags : g.turn \in ToSet(rawWindow)}}

\* session_prior_flag_ids
SessionPriorFlagIds == {f.tactic : f \in riskFlags}

\* The window's oldest turn goes when it is over its length.
Compacted(window) == IF Len(window) > MaxWindow THEN Tail(window) ELSE window

RiskFlagRecord(t) == [tactic |-> t, turn |-> turnCount']

\* add_turn, with the result of route on the turn: the flags are those that
\* reach the gates, whatever the gates say.
AddTurn(x) ==
    /\ turnCount < MaxTurns
    /\ turnCount' = turnCount + 1
    /\ rawWindow' = Compacted(Append(rawWindow, turnCount'))
    /\ LET routed == Analysis(x, SessionPriorFlagIds, NoAnswer, NoAnswer).routed IN
        /\ riskFlags' = riskFlags \cup {RiskFlagRecord(t) : t \in routed}
        /\ arc' = IF routed = {} THEN arc ELSE arc \cup {turnCount'}

-----------------------------------------------------------------------------
\* A message arrives after another one, which its time stamp may precede.
Arrive ==
    /\ Len(raw) < MaxRaw
    /\ \E sender \in {"caller", "victim"}, gap \in Gaps, short \in BOOLEAN :
        raw' = Append(raw, [sender |-> sender, short |-> short,
                            at |-> IF raw = <<>> THEN 0 ELSE Last(raw).at + gap])

ContinuesIfShort(prev, cur) ==
    cur.sender = prev.sender /\ cur.at - prev.at <= BurstWindow /\ cur.short

\* A short message is continued by the next one of its sender.
Continues(prev, cur) ==
    /\ cur.sender = prev.sender
    /\ cur.at - prev.at <= BurstWindow
    /\ prev.short

\* The message continues the last turn or begins one.
Rejoined(turns, i) ==
    IF i > 1 /\ Continues(raw[i - 1], raw[i])
    THEN [turns EXCEPT ![Len(turns)] = Append(@, i)]
    ELSE Append(turns, <<i>>)

\* reassemble_turns: each turn as the numbers of its messages.
ReassembleTurns ==
    LET turns[n \in 0..Len(raw)] == IF n = 0 THEN <<>> ELSE Rejoined(turns[n - 1], n)
    IN  turns[Len(raw)]

-----------------------------------------------------------------------------
\* A plain request for payment in a message that gets past Tier 0.
AsksForPayment(x) ==
    /\ Escalates(x)
    /\ x.hits[Payment] > 0 /\ x.weight[Payment] = 60
    /\ Payment \notin x.negated /\ ~x.hypothetical

\* Once any turn of a session was a candidate for any tactic, a plain request
\* for payment surfaces, however many turns later and although that turn has
\* left the window (memory_compaction.py:12, "a week-1 grooming signal still
\* mattering when the payment ask lands in week 3").
PaymentArcSurfaces ==
    arc # {} =>
        \A x \in {y \in Turn : AsksForPayment(y)} :
            Payment \in Analysis(x, SessionPriorFlagIds, NoAnswer, NoAnswer).surfaced

\* Two messages are parts of one turn exactly if one sender wrote them and all
\* between, in quick succession, and all but the last of them are short; and no
\* message is lost (transcript_normalizer.py:79-113).
BurstsRejoined ==
    /\ FlattenSeq(ReassembleTurns) = [i \in DOMAIN raw |-> i]
    /\ \A i \in DOMAIN raw : \A j \in i + 1..Len(raw) :
        (\E turn \in ToSet(ReassembleTurns) : {i, j} \subseteq ToSet(turn)) <=>
            \A k \in i..j - 1 :
                /\ raw[k].short /\ raw[k].sender = raw[j].sender
                /\ raw[k + 1].at <= raw[k].at + BurstWindow

\* A tactic that was flagged before does not make a text surface less
\* (memory_compaction.py:100-102, "this is the mechanism that lets a recurring
\* tactic compound across turns").
RecurrenceCompounds ==
    \A x \in Turn :
        Analysis(x, {}, NoAnswer, NoAnswer).surfaced
            \subseteq Analysis(x, SessionPriorFlagIds, NoAnswer, NoAnswer).surfaced

=============================================================================
