----------------------------- MODULE CueMatcher -----------------------------
(***************************************************************************)
(* The Aho-Corasick automaton of detection/conversation/                   *)
(* fast_pattern_matcher.py, which the native ports take as their model,    *)
(* and the scan of one tactic's cues that it stands in for.                *)
(*                                                                         *)
(* The number of a node stands for the path to it: a node is the sequence  *)
(* of the characters on its path.                                          *)
(***************************************************************************)
EXTENDS Naturals, SequencesExt, FiniteSetsExt

CONSTANTS
    Phrase,         \* cue phrases, as sequences of characters
    Character,
    MaxCues,        \* bound: cues of the taxonomy
    MaxText         \* bound: characters of a text

ASSUME PhraseAssumption == Phrase \subseteq Seq(Character) \ {<<>>}

VARIABLES
    cues,           \* cue_phrases, in the order of declaration
    goto,           \* _goto: the nodes
    fail,           \* _fail
    out,            \* _out
    queue,          \* the nodes whose children have no failure link yet
    linking,        \* _build_failure_links has begun
    text, node, found       \* find_all: the text read so far, and its locals

matcherVars == <<cues, goto, fail, out, queue, linking, text, node, found>>

Root == <<>>

MatcherInit ==
    /\ cues = <<>> /\ goto = {Root} /\ queue = <<>> /\ linking = FALSE
    /\ fail = [n \in {Root} |-> Root] /\ out = [n \in {Root} |-> {}]
    /\ text = <<>> /\ node = Root /\ found = {}

Children(n) == {m \in goto : m # Root /\ Front(m) = n}

\* _insert
Insert(phrase) ==
    /\ ~linking /\ Len(cues) < MaxCues
    /\ cues' = Append(cues, phrase)
    /\ goto' = goto \cup Prefixes(phrase)
    /\ fail' = [n \in goto' |-> Root]
    /\ out' = [n \in goto' |->
                (IF n \in goto THEN out[n] ELSE {}) \cup (IF n = phrase THEN {phrase} ELSE {})]
    /\ UNCHANGED <<queue, linking, text, node, found>>

BeginLinks ==
    /\ ~linking /\ cues # <<>>
    /\ linking' = TRUE
    /\ queue' = SetToSeq(Children(Root))
    /\ UNCHANGED <<cues, goto, fail, out, text, node, found>>

\* From n along the failure links to the first node that c leads on from, and
\* then along c.
Step(n, c) ==
    LET back[m \in goto] == IF m = Root \/ Append(m, c) \in goto THEN m ELSE back[fail[m]]
    IN  IF Append(back[n], c) \in goto THEN Append(back[n], c) ELSE Root

OwnOutput(n, suffix)    == out[n]
MergedOutput(n, suffix) == out[n] \cup out[suffix]

\* The children of the next node get their links, and the output of the nodes
\* that these lead to.
Link ==
    /\ queue # <<>>
    /\ LET parent == Head(queue)
           link == [n \in Children(parent) |-> Step(fail[parent], Last(n))]
       IN  /\ queue' = Tail(queue) \o SetToSeq(Children(parent))
           /\ fail' = [n \in goto |-> IF n \in DOMAIN link THEN link[n] ELSE fail[n]]
           /\ out' = [n \in goto |->
                        IF n \in DOMAIN link THEN MergedOutput(n, link[n]) ELSE out[n]]
    /\ UNCHANGED <<cues, goto, linking, text, node, found>>

Built == linking /\ queue = <<>>

\* find_all, one character at a time.
Read(c) ==
    /\ Built /\ Len(text) < MaxText
    /\ text' = Append(text, c)
    /\ node' = Step(node, c)
    /\ found' = found \cup out[node']
    /\ UNCHANGED <<cues, goto, fail, out, queue, linking>>

MatcherNext ==
    \/ \E phrase \in Phrase : Insert(phrase)
    \/ BeginLinks
    \/ Link
    \/ \E c \in Character : Read(c)

\* scan_cues_aho_corasick: the cues found, in the order of declaration; one that
\* is declared twice has its last place.
CueOrder(cue) == Max({i \in DOMAIN cues : cues[i] = cue})
InCueOrder(scan) == \A i, j \in DOMAIN scan : i < j => CueOrder(scan[i]) < CueOrder(scan[j])
ScanCuesAhoCorasick == CHOOSE scan \in [1..Cardinality(found) -> found] : InCueOrder(scan)

Occurs(cue) == \E s \in Suffixes(text) : IsPrefix(cue, s)

\* _naive_cue_scan, which scan_cues delegates to
NaiveCueScan ==
    LET scan[n \in 0..Len(cues)] ==
            IF n = 0 THEN <<>>
            ELSE IF Occurs(cues[n]) THEN Append(scan[n - 1], cues[n]) ELSE scan[n - 1]
    IN  scan[Len(cues)]

-----------------------------------------------------------------------------
\* After every character the automaton has found exactly the cues, in the same
\* order, that the naive scan of the text so far returns, unless a cue is
\* declared twice (fast_pattern_matcher.py:41, "the same per-tactic matched-cue
\* lists, in the same order, as the naive substring scan").
ScansAgree == Built /\ IsInjective(cues) => ScanCuesAhoCorasick = NaiveCueScan

=============================================================================
