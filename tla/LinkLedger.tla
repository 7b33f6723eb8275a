----------------------------- MODULE LinkLedger -----------------------------
(***************************************************************************)
(* What the campaign-graph storage promises, with no tiers in it: a ledger *)
(* of links between infrastructure nodes.  A link that was observed stays  *)
(* known, and a link that was ever confirmed stays confirmed.  This is the *)
(* "never functionally forgotten" rule of tiered_graph_store.py:6-11.      *)
(***************************************************************************)

CONSTANT Link           \* every link that can be observed

VARIABLES links,        \* the links observed so far
          confirmed     \* those observed as confirmed at least once

ledgerVars == <<links, confirmed>>

TypeOK ==
    /\ links \subseteq Link
    /\ confirmed \subseteq links

Init ==
    /\ links = {}
    /\ confirmed = {}

\* One observation adds its link, and its confirmation if it carries one.
Record(l, isConfirmed) ==
    /\ links' = links \cup {l}
    /\ confirmed' = IF isConfirmed THEN confirmed \cup {l} ELSE confirmed

Next == \E l \in Link, isConfirmed \in BOOLEAN : Record(l, isConfirmed)

Spec == Init /\ [][Next]_ledgerVars

=============================================================================
