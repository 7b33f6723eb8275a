---------------------------- MODULE MCMessaging ----------------------------
(* Turns over four tactics: every combination of no cue, a lone one and    *)
(* two, strong or weaker, one of them negated; and every cue phrase of one *)
(* to three characters out of two.                                         *)
EXTENDS Messaging, TLC

MCPlain == {"remote_access_solicitation"}
MCGaps == {-1, 2, 3}

Cues(n, w, neg) == [hits |-> n, weight |-> w, negated |-> neg]

MCTurn ==
    {[hits         |-> [t \in Tactic |-> IF t = Calm THEN 0 ELSE f[t].hits],
      weight       |-> [t \in Tactic |-> IF t = Calm THEN 40 ELSE f[t].weight],
      negated      |-> {t \in Tactic \ {Calm} : f[t].negated},
      hypothetical |-> FALSE,
      doubled      |-> FALSE] :
        f \in [Tactic \ {Calm} ->
                {Cues(0, 60, FALSE), Cues(1, 60, FALSE), Cues(2, 40, FALSE), Cues(2, 60, TRUE)}]}

MCPhrase == UNION {[1..n -> {"a", "b"}] : n \in 1..3}

MCSymmetry == Permutations(Thread)

=============================================================================
