---------------------------- MODULE MCPasteCheck ----------------------------
(* Texts for model checking PasteCheck: every combination, over three      *)
(* scoreable tactics, of no cue, a lone dual-use, weak or strong cue, and  *)
(* several cues, one of them negated.  The phone misses the cues of at     *)
(* most one tactic, which are spelled with look-alikes.                    *)
EXTENDS PasteCheck

MCPlain == {"remote_access_solicitation"}

Cues(n, w, neg) == [hits |-> n, weight |-> w, negated |-> neg]

CueSets == {Cues(0, 60, FALSE), Cues(1, 15, FALSE), Cues(1, 60, FALSE), Cues(2, 40, FALSE),
            Cues(2, 60, TRUE), Cues(3, 54, FALSE)}

MCReading ==
    {[hits         |-> [t \in Tactic |-> IF t = Calm THEN c ELSE f[t].hits],
      weight       |-> [t \in Tactic |-> IF t = Calm THEN 40 ELSE f[t].weight],
      negated      |-> {t \in Tactic \ {Calm} : f[t].negated},
      hypothetical |-> h,
      doubled      |-> d /\ f[Payment].weight = 60 /\ f[Payment].hits = 1] :
        f \in [Tactic \ {Calm} -> CueSets], c \in 0..1, h \in BOOLEAN, d \in BOOLEAN}

Hiding(x, t) ==
    [x EXCEPT !.hits[t] = 0, !.negated = @ \ {t}, !.doubled = (@ /\ t # Payment)]

MCText ==
    {[raw |-> x, folded |-> x] : x \in MCReading}
      \cup {[raw |-> Hiding(x, t), folded |-> x] : x \in MCReading, t \in Tactic}

MCLevel == {0, 10000}

=============================================================================
