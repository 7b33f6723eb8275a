--------------------------- MODULE MCCampaignGraph ---------------------------
(* Two POST threads and one GET thread over a script hash, a phone number   *)
(* and a wallet, with the floor lowered to two incidents.                   *)
EXTENDS CampaignGraph, TLC

CONSTANTS phone, wallet, script, alice, bob

MCReportsOf == (alice :> <<phone, script>>) @@ (bob :> <<phone, wallet, script>>)

MCSeedReports == <<script, phone>>

MCSymmetry == Permutations(Worker)

=============================================================================
