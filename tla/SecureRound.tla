----------------------------- MODULE SecureRound -----------------------------
(***************************************************************************)
(* One round of federated learning: federated/dp_noise.py on the clients,  *)
(* federated/secure_aggregation.py and backend/sync_service.py on the      *)
(* server.  A client clips its update and adds noise; the clients of the   *)
(* announced cohort may mask their updates pairwise; the server filters    *)
(* the contributions by attestation, refuses a short list, takes the       *)
(* trimmed mean of the others and charges the privacy accountant.          *)
(*                                                                         *)
(* An update is one coordinate, an integer.  Delivery may lose a           *)
(* contribution and, when a client retries, duplicate it: the server has   *)
(* a list, here a set of pairs <<client, copy>>.                           *)
(***************************************************************************)
EXTENDS Integers, Sequences, SequencesExt, FiniteSetsExt

CONSTANTS
    Client,         \* client ids, integers: the masks use their order
    Poisoned,       \* those of them that skip clipping and send what they like
    Raw,            \* updates that training produces
    Poison,         \* updates of the poisoned clients
    Noise,          \* outcomes of the Gaussian noise
    ClipNorm,       \* clip_norm
    Floor,          \* K_ANONYMITY_FLOOR
    TrimDiv,        \* 1 / TRIM_FRACTION
    Mask(_, _),     \* the mask that the seed of a pair of clients expands to
    Order,          \* the orders of the Renyi accountant
    LogDelta,       \* log(1 / target_delta)
    MaxCopies,      \* bound: times that one contribution reaches the server
    MaxRounds       \* bound: rounds run

ASSUME RoundAssumption ==
    /\ Client \subseteq Nat /\ IsFiniteSet(Client) /\ Poisoned \subseteq Client
    /\ \A c, d \in Client : Mask(c, d) \in Int
    /\ Raw \cup Poison \cup Noise \subseteq Int /\ IsFiniteSet(Noise) /\ Noise # {}
    /\ ClipNorm \in Nat /\ Floor \in Nat \ {0} /\ TrimDiv \in Nat /\ TrimDiv > 2
    /\ Order \subseteq Nat \ {0, 1} /\ Order # {}
    /\ MaxCopies \in Nat /\ MaxRounds \in Nat

VARIABLES
    round,      \* "idle" | "open" | "done"
    masking,    \* the cohort masks its updates this round
    update,     \* client -> clipped and noised update, 0 before the round
    attested,   \* the clients whose device attestation is valid
    inbox,      \* the contributions that reached the server
    result,     \* the AggregationResult, with the budget spent so far
    rdp,        \* _rdp_per_order
    rounds      \* rounds run so far

roundVars == <<round, masking, update, attested, inbox, result, rdp, rounds>>

-----------------------------------------------------------------------------
ClipByL2Norm(u) ==
    CASE u > ClipNorm -> ClipNorm
      [] u < -ClipNorm -> -ClipNorm
      [] OTHER -> u

AddGaussianNoise(u) == {u + n : n \in Noise}

\* The lower id of a pair adds the mask, the higher one subtracts it.
SignedMasks(c) == [d \in Client |-> IF c < d THEN Mask(c, d) ELSE -Mask(d, c)]

ApplyPairwiseMasks(c, u) == u + SumFunctionOnSet(SignedMasks(c), Client \ {c})

\* What a client sends for its update of this round.
Sent(c) == IF masking THEN ApplyPairwiseMasks(c, update[c]) ELSE update[c]

\* The place of a contribution in the sorted list, from 0: equal values are in
\* any order, here that of clients and copies.
Before(x, y) ==
    \/ Sent(x[1]) < Sent(y[1])
    \/ Sent(x[1]) = Sent(y[1]) /\ x[1] < y[1]
    \/ x[1] = y[1] /\ x[2] < y[2]

Place(x, contributions) == Cardinality({y \in contributions : Before(y, x)})

\* A mean is kept as a sum and a count.
MeanOf(kept) == [total |-> SumFunctionOnSet([x \in kept |-> Sent(x[1])], kept), count |-> Cardinality(kept)]

TrimmedOnTopOnly(contributions) ==
    LET n == Cardinality(contributions)
    IN  MeanOf({x \in contributions : Place(x, contributions) < n - n \div TrimDiv})

CoordinateWiseTrimmedMean(contributions) ==
    LET n    == Cardinality(contributions)
        trim == n \div TrimDiv
    IN  MeanOf({x \in contributions : Place(x, contributions) \in trim..(n - trim - 1)})

Deferred == [success |-> FALSE, total |-> 0, count |-> 0]

RunSecureAggregationRound(contributions) ==
    LET valid == {x \in contributions : x[1] \in attested}
        mean  == CoordinateWiseTrimmedMean(valid)
    IN  IF Cardinality(valid) < Floor THEN Deferred
        ELSE [success |-> TRUE, total |-> mean.total, count |-> mean.count]

\* alpha / (2 * multiplier ^ 2), in those units, at every order.
ComposeRound(cost) == [a \in Order |-> cost[a] + a]
GetEpsilon(cost)   == Min({cost[a] + LogDelta \div (a - 1) : a \in Order})

-----------------------------------------------------------------------------
RoundInit ==
    /\ round = "idle" /\ masking = FALSE /\ inbox = {} /\ attested = {}
    /\ update = [c \in Client |-> 0]
    /\ result = Deferred
    /\ rdp = [a \in Order |-> 0]
    /\ rounds = 0

\* The updates that client c can arrive at.
Prepared(c) ==
    IF c \in Poisoned THEN Poison ELSE UNION {AddGaussianNoise(ClipByL2Norm(u)) : u \in Raw}

AnyUpdate == UNION {Prepared(c) : c \in Client}

\* The clients of the cohort train and prepare their updates.
StartRound ==
    /\ round = "idle" /\ rounds < MaxRounds
    /\ update' \in {u \in [Client -> AnyUpdate] : \A c \in Client : u[c] \in Prepared(c)}
    /\ masking' \in BOOLEAN
    /\ attested' \in SUBSET Client
    /\ round' = "open"
    /\ UNCHANGED <<inbox, result, rdp, rounds>>

\* A contribution reaches the server, for the first time or again.
Deliver(c) ==
    /\ round = "open"
    /\ \E k \in 1..MaxCopies :
            /\ <<c, k>> \notin inbox
            /\ \A j \in 1..(k - 1) : <<c, j>> \in inbox
            /\ inbox' = inbox \cup {<<c, k>>}
    /\ UNCHANGED <<round, masking, update, attested, result, rdp, rounds>>

\* FederatedSyncOrchestrator.run_round: only a success costs privacy.
RunRound ==
    /\ round = "open"
    /\ LET aggregation == RunSecureAggregationRound(inbox)
       IN  /\ rdp' = IF aggregation.success THEN ComposeRound(rdp) ELSE rdp
           /\ result' = [success |-> aggregation.success, total |-> aggregation.total,
                          count |-> aggregation.count, epsilon |-> GetEpsilon(rdp')]
    /\ round' = "done" /\ rounds' = rounds + 1
    /\ UNCHANGED <<masking, update, attested, inbox>>

\* Nothing of a round is kept for the next one.
EndRound ==
    /\ round = "done"
    /\ round' = "idle" /\ masking' = FALSE /\ inbox' = {} /\ attested' = {}
    /\ update' = [c \in Client |-> 0] /\ result' = Deferred
    /\ UNCHANGED <<rdp, rounds>>

\* The server process starts again: the accountant is a field of an object.
Restart ==
    /\ round = "idle" /\ rounds > 0
    /\ rdp' = [a \in Order |-> 0]
    /\ UNCHANGED <<round, masking, update, attested, inbox, result, rounds>>

=============================================================================
