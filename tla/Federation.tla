----------------------------- MODULE Federation -----------------------------
(***************************************************************************)
(* Federated learning from the clients' updates to the devices that run    *)
(* the redistributed model: the rounds of SecureRound, each of whose       *)
(* aggregates may become a release of CanaryRollout.                       *)
(***************************************************************************)
EXTENDS SecureRound, CanaryRollout

vars == <<roundVars, rolloutVars>>

Init == RoundInit /\ RolloutInit

\* The aggregate of a round that succeeded becomes a release.
ReleaseAggregate == result.success /\ Release /\ EndRound

RoundStep ==
    \/ StartRound \/ (\E c \in Client : Deliver(c)) \/ RunRound
    \/ ~result.success /\ EndRound
    \/ Restart

RolloutStep == Decide \/ (\E d \in Device : RecordCrash(d))

\* Bounds: rounds run while a release is still allowed and none is under way,
\* and a rollout runs between rounds; the two share no state.
Next ==
    \/ stage # "canary" /\ releases < MaxReleases /\ RoundStep /\ UNCHANGED rolloutVars
    \/ ReleaseAggregate
    \/ round = "idle" /\ RolloutStep /\ UNCHANGED roundVars

Spec == Init /\ [][Next]_vars

-----------------------------------------------------------------------------
PoisonedContributions == {x \in inbox : x[1] \in Poisoned \cap attested}
ValidContributions    == {x \in inbox : x[1] \in attested}

LargestNoise == Max({IF n < 0 THEN -n ELSE n : n \in Noise})

\* As long as no more contributions are poisoned than the trim removes at each
\* end, retries included, an aggregate of unmasked updates stays within what
\* honest clients can send: clip_norm and the noise (secure_aggregation.py:70,
\* dp_noise.py:26).  Of masked updates nothing of the kind holds: the mean sorts
\* and drops them by their masks (secure_aggregation.py:109).
PoisonCannotMoveAggregate ==
    LET bound == result.count * (ClipNorm + LargestNoise)
    IN  (/\ round = "done" /\ result.success /\ ~masking
         /\ Cardinality(PoisonedContributions) <= Cardinality(ValidContributions) \div TrimDiv)
        => -bound <= result.total /\ result.total <= bound

\* A model whose recall regressed on a stratum is promoted only when every
\* device that the stratified cohort took from the stratum was silent or had
\* dropped the model: the guarantee of the stratified sample and of the test
\* per slice together (model_distribution.py:40, :69).
RegressedSliceCaught ==
    stage = "promoted" =>
        \A s \in Stratum :
            LET members == {d \in Device : StratumOf[d] = s}
            IN  RegressedBelow(Baseline, recall[s])
                    => Cardinality(silent \cap members) >= Min({MinPerStratum, Cardinality(members)})

=============================================================================
