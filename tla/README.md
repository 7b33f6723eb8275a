# TrustTrace in TLA+

TrustTrace looks for scams: manipulation tactics in conversations, scam campaigns
behind the numbers and wallets in them, and spyware on the phone.  This directory
holds TLA+ models of its core logic, configurations that check them with TLC, and
theorems about them that TLAPS proves.  Definitions keep the names of the code, and
`PROJECT.json` gives for each one the lines it stands for.

- [1. The system](#1-the-system)
- [2. The models](#2-the-models)
- [3. The runs](#3-the-runs)
- [4. Fairness](#4-fairness)
- [5. The proofs](#5-the-proofs)
- [6. Where the code and its documentation part](#6-where-the-code-and-its-documentation-part)
- [7. What is not modelled](#7-what-is-not-modelled)
- [8. Plan](#8-plan)
- [9. How to run](#9-how-to-run)

## 1. The system

Two programs share one detection design.  The mobile app (TypeScript, Kotlin, Swift)
scores texts on the phone, with a heuristic cascade in TypeScript and, when a GGUF
file has been provisioned, a Llama model in llama.cpp.  The backend (Python) runs the
reference cascade for the SMS gateway and as a fallback, keeps the campaign graph,
and coordinates federated learning.

| Component | State | Operations | What is hard | What makes it correct |
|---|---|---|---|---|
| On-device model lifecycle, `mobile/src/native-modules/registerNativeLlama.ts`, `ml/modelLoader.ts`, `ml/defaultScorer.ts`, `ml/scoring.ts` | the engine and binding in module variables, two native contexts, their in-flight flags, the registered scorer, needsReload, app state | start-up, load, release, memory warning, background, foreground, check, Tier-2 run | every native call is an await, and any event may come in it; module variables are read again after it | a ready scorer has its context; a check stays on the device; no release under a completion; the model comes back |
| Model provisioning, `modelProvisioning.ts`, `TrustTraceModelFsModule.kt` | four files (override, external, internal, sidecar), the free space | resolve, check, copy chunk by chunk, rename | the app is killed at any point, the push goes on meanwhile, the disk fills up, a read fails | no truncated or wrong file is loaded; a staged model is kept by every run that can read it; staging ends |
| Detection cascade and grounding gates, `detection/conversation`, `grounding`, `ml/onDeviceCascade.ts` | none (a function of the text, the session's prior flags and the models' answers) | scan, escalate, boost, blend, exclude, gate | two implementations, seven thresholds, two optional models | no lone or weak cue raises an alarm; the port is no less protective than the reference; a model failure changes nothing |
| Paste check, `PasteCheckScreen.tsx`, `App.tsx`, `api/client.ts`, `onDeviceExplainer.ts` | the text, the card, its evidence, the explanation | paste, check, show, explain | three scorers answer with three shapes | what is cited passed the gates; the explanation is for the card |
| Tiered campaign storage, `threat-intel/tiered_graph_store.py` | a hot and a cold graph, last-seen times | observe with rehydration, demote, query both | long sequences of demotions and rehydrations over shared neighbours, late reports | nothing is forgotten; what is active is hot |
| Campaign graph, `threat-intel/campaign_graph.py`, `backend/incident_ingest.py`, `backend/api/routes.py` | nodes, links, incident sets per link | record an incident, k-anonymous view, prune | a thread per request and no lock; retried POSTs | a link is served when, and only when, enough incidents have it |
| Session memory, transcript normalizer | recent turns, permanent risk flags; a list of messages | add a turn, compact, reassemble | flags outlive their turns; bursts with time stamps out of order | a recurring tactic compounds; no message is lost or joined to the wrong turn |
| Cue matcher, `fast_pattern_matcher.py` | the automaton, the node it is in | insert, build links, find | outputs inherited over links of shorter prefixes | it finds what the naive scan finds |
| Thermal governor, upload guard, wake gate | a policy state, the chunk to send | update; poll and send | values at band edges, a device that changes between two polls | fast up, one step down, no flapping, no trap; an upload stops within a poll |
| SMS-lite gateway, `offline/sms_gateway.py` | a token bucket per sender | handle an SMS | clock steps, two threads and one sender | the rate holds |
| Explanation, `backend/llm_client.py` | the models in the cache, the event loop | choose a provider, load, ask | the disk is read three times over | it stays local when it can, and is refused only for a cause |
| Federated learning, `federated/`, `backend/sync_service.py` | contributions, masks, cohorts, crash counts, privacy budget | contribute, aggregate, canary, roll back, retry | dropouts, retries, poison | poison is trimmed; a regression on a slice is caught |
| Key storage, encrypted store, `security/` | a database file, its copy, the key file | re-key, open, write | a crash between any two steps, open connections | no commit is lost; a due re-keying happens |
| Campaign queries and indexes | search frontiers, index layers | path query, add, nearest neighbour | bounds on both sides of a search, the order of insertion | a shortest path when there is one; what each index ranks first |
| Threat feeds, predictors | feed entries, learned weights | ingest, predict | malformed input | - |
| Transaction and device detectors | none | score a payee, a permission set, an app | thresholds | - |
| Screens, warning store, navigation | open cards, a warning per event | scan, confirm, dismiss | late answers to screens that were left | an answer reaches the screen that asked |
| Native capture (Kotlin, Swift) | buffers, a debounce time | capture, wipe, hand over | callbacks on other threads | buffers are wiped |
| Evaluation, dashboard | - | - | - | - |

How they interact:

- `scoreTranscript` asks the scorer registry whether an on-device scorer is ready, and
  posts to the backend only if none is or if it threw (registry and lifecycle share the
  module variable; the lifecycle changes it from native callbacks).
- The provisioning hands the lifecycle a path; the lifecycle loads it at start-up and
  again at every reload.
- The native scorer calls the cascade for the candidate tactics, the model for their
  confidences, and the cascade again with those.
- The backend handler calls cascade, entailment gate and confidence gate in turn, and,
  when a flag surfaced, extracts patterns from the text and records an incident in the
  campaign graph.
- The campaign view is a second handler over the same in-memory graph, on another thread.

## 2. The models

### 2.1 LinkLedger, TieredGraphStore, StoreProofs

`LinkLedger` is the abstract specification of the campaign storage: a set of links and
the subset of them that was ever confirmed, which only grow.  `TieredGraphStore` is the
code: three sets per tier for the networkx graph (nodes, links, links with the attribute
`confirmed`), the map `_last_seen`, a clock.

| Action | Code |
|---|---|
| `Observe(a, b, isConfirmed, ts)` | `observe` with its loop over both ends and `_rehydrate`; `ts` may be in the past, for a late report |
| `DemoteDormant` | one sweep; the walk over a copy of the node list is one step because a removed node was dormant and so cannot change a neighbour's verdict |
| `Tick` | the wall clock, up to `MaxTime` |

`ImplementsLedger` instantiates the ledger with what the two queries answer
(`deep_lookup`, `confirmed_edge_exists`), so that losing a link or a flag anywhere in a
demotion or rehydration is a step that the ledger cannot take.

### 2.2 CampaignGraph, CampaignGraphProofs

`record_incident` and `k_anonymized_view` statement by statement, for any number of POST
and GET threads.  Python switches threads between any two of these statements; a single
networkx call or dict operation is atomic.  The incident sets are `counts`; `origin`
remembers which submission an incident came from, so that a retried delivery can be told
from an independent one.  A dictionary that changes under an iteration raises in Python:
`ViewFails`, which ends the GET in an error.  `PruneIsolatedNodes` has no caller in the
backend and runs between requests, as in its tests.

### 2.3 EdgeRuntime, ModelLifecycleProofs

The module variables of `registerNativeLlama.ts`, the fields of its engine and binding,
and the registry.  JavaScript is single-threaded, so a step runs from one event to the
next await on native code or on the network; `NativeReleased`, `BringUpSucceeds`,
`BringUpFails`, `Tier2Loaded`, `Tier2Ends` and `CheckEnds` are the answers.
`releaseAllForMemory` is a small program of two awaits: `MemoryWarning` up to the first,
`ReleaseEngine` from there to the second, `Finish` from there on.  Each reads the module
variables afresh, as the code does.

The name of an engine is its Tier-1 context, since code and binding are made together
with it.  `Check` stands for screens, as the screen's own `busy` state allows one check
per mounted screen but not per app.  `Caller` stands for users of `getNativeBinding()`;
the repository has none, so the properties about Tier 2 hold for what such a caller is
promised.  A Tier-2 run holds two contexts: its own, and the binding's Tier-1 context, which
it hands to the native layer as `draft_context` (field `draft`).  The code protects only the
first of them (finding 4), and `Tier2RunKeepsContext` says just that.

### 2.4 ModelProvisioning, ModelLifecycleProofs

A file is a length in chunks and whether its content is that of the model.  `resolveModel`
is a sequence of steps at its awaits (`Launch`, `StatExternal`, `SumExternal`,
`SpacePreCheck`, `CopyBegins`, `CopyChunk`, `CopyEnds`, `Rename`), with `DiskFull`,
`CopyFails` and `RenameFails` for what may go wrong, and `Killed` anywhere in between.  Any
check of a file may meet a read error, which the code takes for an absent file (`statPath`)
or a wrong one (`checksumOk`): a launch that cannot read the override or the internal file
passes over it, `ExternalUnread` gives up on the external one, `CopyUnread` on the copy.  The
developer's push writes the external file chunk by chunk meanwhile.  `pinned` says whether
the build pins a checksum; without one, every file of enough bytes passes.

### 2.5 Evidence, ReferenceCascade, OnDeviceCascade, PasteCheck, PasteCheckProofs

`Evidence` is what a cascade sees of a text, one reading of it: how many cues of each
tactic, the weight of the strongest, negation and hypothetical framing.  How a cue is found
is below the line of the model, but not that the two sides find different ones: the Python
side folds NFKC, zero-width characters and look-alike letters before it looks, the port only
changes case and blanks.  `ReferenceCascade` (Python) and `OnDeviceCascade`
(TypeScript) are operators over it, in integer arithmetic with the exact thresholds of
the code: scores in 1/10000, the reference rounded to four decimals where the code rounds,
the port unrounded where it compares unrounded.  Tactics that no rule names are
interchangeable members of `Plain`.

`PasteCheck` is the state machine around them.  A text has two readings, what the phone
makes of it (`LowerCased`) and what the backend does (`Normalized`), and nothing is assumed
about how they differ.  It is pasted, a check of it is answered by the heuristic
scorer, by the model scorer with any parsed completion, or by the backend with any answers
of its two models; there is the card this gives, and "Explain more" when the cloud cannot
be reached.  Which of the scorers answers is EdgeRuntime's subject, so all may.

### 2.6 SecureRound, CanaryRollout, Federation, FleetProofs

`SecureRound` is one round after another: clients clip and noise an update (`Prepared`),
mask it pairwise if the cohort does, and send it; delivery loses and, on a retry, repeats
contributions; `RunRound` is the attestation filter, the floor, the trimmed mean and the
accountant in one call.  An update is one coordinate, as the mean is coordinate-wise.  The
sorted list is the place of each contribution in it (`Place`, with ties broken by client
and copy, which does not change the sum of what is kept).  `Restart` is the server
process: the accountant is a field in memory. `CanaryRollout` has the stratified cohort,
the evaluation on slices of those that reported, the rollback and the breaker on each
device.  `Federation` composes them: the aggregate of a round that succeeded becomes a
release.

### 2.7 RekeyStore, StoreProofs

The files of the store survive `Kill`, everything else does not.  Opening is a sequence
of steps (`ReadKey`, `CreateKeyFile`, `WriteKeyFile`, `OpenCipher`) because two openers
and a kill may come between them; so is `rekey_database_atomic` (`StartRekey`,
`FinishCopy`, `Verify`, `Replace`).  An open connection keeps its file over a rename
(`conn[c] = "gone"`), a commit during the copy may tear it, and a new process may have
gained or lost the cipher library.

### 2.8 DeviceGuards, FleetProofs

The governor's four states are the rungs of its `_ORDER`; `Update` is one call with a
reading in percent and the fallback flag.  The code subtracts the margin in binary
floating point, where 0.70 - 0.05 is less than 0.65, so that its `<=` is the model's `<`.
The upload is `run_sync_with_continuous_verification` with one step per chunk and two per
poll, which asks for the charger (`Poll`) and then for the Wi-Fi (`PollWifi`);
`ChangeDevice` may come between any two.

### 2.9 PathQuery, HnswIndex, AnnHnsw, CampaignQueries, CampaignQueriesProofs

`PathQuery` is the bidirectional search, one step per expansion, over any view; which
neighbour is met first is a choice. `HnswIndex` and `AnnHnsw` are the two indexes as
operators on lists of neighbour sets. An embedding is a direction, a point of a circle of
integers, and a length. `HnswIndex` ranks by the cosine: `Add` and `Query` divide by the
length (`Normalized`), and the zero vector is refused by the one and unanswered by the
other. `AnnHnsw`, like the exhaustive scan of `ANNIndex`, ranks vectors as they come
(`Raw`) by their distance. On one circle the more similar is the nearer
(`NearerIsMoreSimilar`), so that the operators of both compare distances, with the greedy
walk, the beam search, the descent and the layers of an insertion as recursive functions;
`Exhausted` and `Widened` are the end and the step of the beam. Of equally near nodes the
later one counts as closer, as in the code's heap of results; the heap of candidates
breaks ties otherwise, which the distance of an answer does not tell. The level of a new
node, random in the code, is a choice. `CampaignQueries` composes them and gives every
embedding to both.

### 2.10 SmsGateway, SessionMemory, CueMatcher, Explanation, Messaging, MessagingProofs

`SmsGateway` splits a request at the calls where Python may switch threads: look-up,
creation, the read in `_refill`, the write, the take.  Tokens are counted in clock ticks;
`SetBack` is a correction of the clock.  `SessionMemory` routes each turn through
`ReferenceCascade` with the flags of all earlier ones, and joins messages to turns
(`ReassembleTurns`, one message after another by `Rejoined`).  `CueMatcher` builds the
automaton node by node, where a node is the string that leads to it, and reads a text; the
two scans are the list of the found cues in their order of declaration, and a pass over
the declarations.  `Explanation` is a request to "explain more" from the handler to the
answer, on the event loop that local explanations hold, while weights come and go between
any two of its five looks at the disk.
`Messaging` puts the four beside each other; they share no state and are explored one at a
time.

## 3. The runs

| Run | Bounds | What it shows |
|---|---|---|
| `tiered_store` | 3 nodes, dormancy 2, clock 0..3, every report time | all of section 2.1, and the refinement of the ledger |
| `campaign_graph` | 2 POST threads, 1 GET thread, 3 nodes, 3 incidents, floor 2, with and without the seed | the gate under concurrency: it serves no link below the floor (`ServedAboveFloor`), hides none above it (`ServedComplete`), meets no missing entry (`EntriesExistWhenUsed`), loses no corroboration (`EveryIncidentCounted`) |
| `edge_runtime` | 4 contexts, 2 screens, 2 overlapping warnings, 1 Tier-2 caller | the backend is reachable only during a release; readiness means residency; reloads are not forgotten; a lone Tier-2 run keeps its context, and its draft until a warning takes it; a ready scorer is kept; a scorer comes back |
| `edge_leak` (violation) | 3 contexts, 1 screen, 1 warning | a context that nothing can release, section 6 |
| `provisioning` | a model of 3 chunks, floor 2, room for 2, 5 or 10, 2 pushes, 2 faults | section 2.4, with convergence when there is ample room |
| `paste_check` | 3 scoreable tactics, 6 cue sets each, reassurance or not, hypothetical or not, one tactic's cues unread on the phone or none, model answers 0 and 1 | the port covers the reference on texts that both read alike; lone and weak cues abstain on every path; Tier 0 is the heuristic, in the card and in its explanation |
| `federation` | 3 clients, 1 of them poisoned, 2 copies, 2 rounds; 6 devices in 2 strata, 1 release | poison within the trim stays bounded (`PoisonCannotMoveAggregate`), a regressed stratum is promoted only if nobody of it was heard (`RegressedSliceCaught`) |
| `rekey_store` | 2 connections, 2 commits, 2 keys, 2 cycles, 2 kills | only a commit that raced a re-keying can be lost (`OnlyRacesLoseCommits`); a due plain store is re-keyed (`DuePlainRekeyed`) |
| `device_guards` | 11 readings on both sides of every threshold and margin; 4 chunks, a poll every 2 | a hot phone runs no model, turns need a swing of the margin, a cool phone recovers, an upload stops within one poll |
| `campaign_queries` | every graph on 5 nodes, depth 0..5, 3 named nodes; 5 directions with lengths 1 and 4, and the zero vector, of which 5 are inserted; lists of 4 (2 above layer 0), 2 layers | a shortest path or none within the bound; until a list of layer 0 is cut ann_hnsw answers as the exhaustive scan and hnsw_index as a scan by the cosine; no search leaves its layer |
| `messaging` | 2 threads, 1 sender, a bucket of 1 token of 2 ticks, clock 0..2, 6 messages; 4 turns, window 2; 4 messages; 3 cues of at most 3 characters, 4 characters of text; 2 excerpts, 2 changes of the weights | the rate with all overlaps counted (`RateBound`), a payment ask after an early flag surfaces (`PaymentArcSurfaces`), bursts are rejoined (`BurstsRejoined`), automaton and scan agree (`ScansAgree`), explanations are refused or sent for a cause (`RefusedOrSentForCause`) |
| `messaging_recurrence` (violation) | the same | a prior flag can make a text surface less, section 6 |

Why the bounds are enough to meet the interesting cases:

- *tiered_store*: a demotion that strands a neighbour and its rehydration need a node
  with two links, hence three nodes; a second dormancy needs the clock to pass the
  dormancy twice over for different nodes, hence 3 > 2.  The theorems of section 5 remove
  these bounds.
- *campaign_graph*: the races are between two writers on one new node or link, and
  between one writer and one reader; a link below, at and above the floor needs floor 2
  and three incidents.  One submission has two reports, the other three, so that the pair
  loops run over one and over three pairs.
- *edge_runtime*: the first load, a reload, a Tier-2 load and one more need four
  contexts; two warnings may overlap in either of their awaits.  Contexts are never
  reused, and `MaxCtx` only stops new loads.
- *provisioning*: three chunks give an empty, a sub-floor, an accepted but truncated and
  a whole file.  Two faults kill a copy and the copy that repairs it, or hide the internal
  file from a launch and let the rename fail that replaces it.  Room 2 is
  too little for the model (the disk fills up under the copy when the free space is not
  known), room 5 holds a model but not a model and a whole sidecar, room 10 holds three.
- *paste_check*: the rules single out urgency, payment and reassurance; every other
  tactic behaves as the one in `Plain`, and three at once reach both compounding
  thresholds and the cap of the corroboration.  The six cue sets have a dual-use cue, a
  strong lone cue, weak and strong groups, and a negated group; where the phone does not
  read all that the backend does, it misses the cues of one tactic (the proofs take any
  two readings); the model's answers are the extremes of a linear blend.
- *federation*: with `TrimDiv = 3` (10 in the code) three contributions already lose one
  at each end, so that one poisoned client is within the trim and its retry beyond it; an
  update and its noise lie on both sides of the clipping norm.  A stratum of one device is
  the smallest that a flat sample could miss; recalls lie just above, just below and far
  from the 5 % of the test.
- *rekey_store*: two cycles and two kills let a second attempt meet what the first left;
  two connections let one stay on a file that was replaced, and race for the key file.
- *device_guards*: the readings are the thresholds and their margins, each with the
  value just beside it; the theorems of section 5 hold for all.
- *campaign_queries*: five nodes give paths of up to four links, one more than an odd
  bound of three allows; a sixth named node is never served.  All pairwise distances and
  cosines of the directions differ, and in many sets of them what the one measure ranks
  first the other does not.  Five nodes fill the lists of layer 0 and overflow those of
  layer 1; with more, `ExactUntilCut` says nothing and `LayersSound` is the theorem's.
- *messaging*: two threads can interleave creation and refill in every way; with a
  bucket of one token (5 in the code) a second answer is already too many.  A window of
  two (12 in the code) drops the first turn at the third.  Three characters in two letters
  give phrases that are prefixes, suffixes and inner parts of each other.

The passing runs check for deadlock where the system may not stop: `TieredGraphStore`,
`EdgeRuntime`, `ModelProvisioning` and `PasteCheck` never stop, and `CampaignGraph` always
has its viewers.  The others stop at their bounds, and their configurations say
`CHECK_DEADLOCK FALSE`.  Symmetry is used in runs without liveness only.  Every property
of a passing run comes with a mutant in `PROJECT.json`: a changed definition, such as a
dropped guard or a swapped bound, under which TLC finds the property violated.  The
operators that stand before a mapped definition and are used nowhere (`ResumeRekey`,
`ContinuesIfShort`) are these changed forms.

## 4. Fairness

- `EdgeRuntime`: each native release that was asked for is answered in the end.  The code
  sets no timeout on it and awaits it without one; everything else may fail to happen.
- `ModelProvisioning` (`ProvisionSpec`): the app's own steps are taken, and the app is launched and left
  again and again (the property is about what launches converge to).  Pushes and faults
  are not fair: nothing makes a developer's push go on.
- `RekeyStore` (`RekeySpec`): a re-keying that is due is begun, and one that has begun goes on, unless
  the process is killed, which happens at most `MaxKills` times.  The code leaves the call
  to a scheduler of the application; that it comes again is the assumption.
- `DeviceGuards` (`GuardSpec`): the platform goes on giving readings, so that one that stays is given
  again.  Which ones come is open; the property says what follows when they stay cool.
  Nothing is assumed of the device or the upload.
- The other modules state safety only and assume none.

## 5. The proofs

Proved for every value of the constants, from the named assumptions below, which TLC
evaluates in the runs.

| Assumption | What it says, and what in the code ensures it |
|---|---|
| `StoreAssumption` (tiers) | dormancy and clock bound are natural numbers |
| `RuntimeAssumption` | there is at least one context |
| `GraphAssumption` | a submission yields at least one pattern and no pattern twice (the script hash and the set `seen` of `extract_patterns`); floor and bounds are natural numbers |
| `ProvisioningAssumption` | sizes, rooms and bounds are natural numbers, the floor is positive and at most the model's size |
| `RekeyAssumption` | bounds are natural numbers, there is a first key |
| `GuardAssumption` | readings are natural numbers; an upload has a chunk and a polling interval |
| `RoundAssumption` | a finite cohort, ids that can be ordered; integer updates, masks and noise (fixed point); finitely many noises, since an unbounded one could move any aggregate; floor, trim, norm and orders as configured in `secure_aggregation.py` and `federated_client.py` |
| `RolloutAssumption` | a finite fleet in which every device has a stratum; at least one device per stratum is taken |
| `TacticAssumption`, `TextAssumption`, `LevelAssumption` | finitely many tactics; in each reading of a text a cue's weight is one of the taxonomy's and a negated tactic was matched; a model's answer is a probability |
| `GatewayAssumption`, `TurnAssumption` | finitely many threads, a bucket and a rate above zero; a turn counts its cues |
| `BurstAssumption` | times are integers; a gap may be negative, and so may the window |
| `PhraseAssumption` | a cue is a finite string of at least one character, as all of `TACTICS` are; the naive scan would find an empty cue in the empty text, which the automaton never reads |
| `DepthAssumption`, `NodeAssumption`, `ViewAssumption` | the bound on `max_depth` is a natural number; the mark for "where a search began", None in the code, is not a node |
| `PointAssumption`, `IndexAssumption` | embeddings are points of one circle with integer coordinates, times a length that is a natural number; at least two neighbours per layer, one result to a search, and a construction beam of at least the length of a list, as in the defaults of both indexes (16, 200, 64 and 12, 100, 64) |

**StoreProofs**, the tiers.  `ActiveNeighbourhoodHot` is not inductive: to see that an
observation keeps it one must know that rehydrating a node finds all of its archived
links, and that a link is archived only while both its ends are dormant.  The invariant is

    IInv == TypeOK /\ TiersConsistent /\ KnownNodesSeen /\ ArchivedLinksDormant

One lemma per action shows that the step keeps it; `Invariance` gives `TypeCorrect`,
`TiersAreConsistent` and `ActiveNodesAreHot`, and with the lemmas on `Observe`,
`ReappearingNodesAreHot` and the refinement `StoreImplementsLedger` (a report is one
`Record` of the ledger, a sweep or a tick a stutter).

**CampaignGraphProofs.**  The properties speak of served answers and of finished
recordings, so none is inductive alone.  The argument is that the graph only grows while
any request is under way (`Grows`: pruning waits for all of them), so that what a thread
has established stays true while others run.  The invariant says what that is:

    IInv == TypeOK /\ EdgesReal
              /\ \A w \in Worker : JobSound(w)
              /\ \A v \in Viewer : ViewSound(v)
              /\ ServedAboveFloor /\ ServedComplete /\ EveryIncidentCounted

`JobSound` has the nodes that a recording has been through in the graph and every pair
before the one it is at counted and linked (`JobCounted`); `ViewSound` has what passed the
gate at or above the floor, and whatever was at the floor at the start passed or not yet
visited.  `JobKept`, `ViewKept` and `ServedKept` carry this over the steps of other
threads, with the lemma that the cardinality of a growing finite set does not fall
(`CountsGrow`).  `GateHolds`, `GateIsComplete`, `NoMissingEntry` and `NoCorroborationLost`
follow, for any number of threads and submissions and any floor.

**ModelLifecycleProofs**, the runtime.  A release keeps `ReadyImpliesResident` only
because the context it takes is no one else's: no second load waits for it, no other
binding holds it, no engine is named by it.  The invariant adds this as
`ContextsDistinct`:

    IInv == TypeOK /\ ContextsDistinct /\ ReadyImpliesResident
              /\ FallbackOnlyWhileReleasing /\ ReloadNotForgotten

The steps of `releaseAllForMemory` share two lemmas, on `Finish` and on `ReleaseEngine`,
whatever native answer led to them (`Settled`).  `Invariance` gives `TypeCorrect`,
`FallbackWindow`, `ReadyMeansResident` and `ReloadKept`; `ReadyScorerIsKept` is an action
property from the same invariant.  `LoneRunKeepsContext` needs an assumption that the code
does not enforce and therefore states: at most one caller of Tier 2 at a time.  For the
draft it takes one fact more, `EngineHeldOrTaken`: the engine that the module names is ready,
or a warning waits for the release of its context.

**ModelLifecycleProofs**, the provisioning.  A file that is handed over was found usable
at some earlier await, and other files change meanwhile.  What makes this safe is that
only a run that stages writes to internal storage, and that such a run met no usable file
there or could not read it (`StagesForNeed`); and that a run which met no push in progress copies from a whole
file, so that its sidecar is right and complete when it is renamed (`CleanWhileNotRaced`):

    ProvisionInv == ProvisionTypeOK /\ HandedWhenUp /\ StagesForNeed /\ ExpectsModel
                      /\ HandedUsable /\ CleanWhileNotRaced

A usable file is therefore replaced only by a run that could not read it, and unless a push
raced it a whole copy stands beside the file when it goes (`KeptOrCopied`).
`PinnedLoadIsModel`, `KillsAreHarmless` and the action property `StagedModelIsKept` hold
for any sizes, any room on the disk, and any sequence of pushes, kills and faults.

**FleetProofs** proves about three parts of the fleet.

*Guards.*  Whether a move turns round on a small swing depends on the move before it, whose
reading is no longer known.  The invariant remembers what that reading says about the
present rung (`TurnExplainsRung`: a move up was made at the threshold of the rung it led
to, a move down at least a margin below the threshold of the rung it left).  That an upload
stops within one poll needs what was sent since the charger and the Wi-Fi were last there,
each on its own, which the place within the stride, and within the poll, bounds
(`ExposedWithinStride`):

    GuardInv == TypeOK /\ OverheatedMeansHeuristicOnly /\ TurnExplainsRung /\ ChunkLeft
                  /\ ExposedWithinStride

`NoFlapping`, `HeatStopsModels` and `UploadStopsInTime` follow for every set of readings
and every polling interval.

*Rollout.*  `RegressionIsSeen`: if the model regressed on a stratum and was promoted, as
many of its devices as the sample guarantees were silent, for any fleet and strata.  The
lemma is that the cohort holds the guaranteed devices of each stratum, or the whole of a
smaller one.

*Rounds.*  `RoundInv` says that the updates of honest clients are clipped and noised, that
the inbox holds contributions of clients, and the property.  For `PoisonIsTrimmed` the
trimmed mean is not computed: if the trim at each end is at least the number of poisoned
contributions, then a kept contribution cannot be above all honest ones, since it and
those that the trim leaves out above it would all be poisoned, one more than there are,
and likewise below (`KeptInReach`); so each lies within the reach of an honest update, and
so does the sum of `count` of them (`SumInReach`).  Masked rounds are in the model and
outside the theorem: a trimmed mean never takes the sum in which masks cancel (section 6,
item 9).

**StoreProofs**, the re-keying.  `OnlyRacesLoseCommits` speaks of the file that is in
place.  That a rename keeps it needs what the copy holds at each step of a re-keying:

    RekeyInv == RekeyTypeOK /\ KeysMarkFiles /\ NothingBeforeTheFile /\ CopyKeepsUp
                  /\ OnlyRacesLoseCommits

`CopyKeepsUp` has all but the racing commits in the copy, torn only if there was a race;
`NothingBeforeTheFile` rules out a commit or a re-keying of a store that was never made.
`CommitsSurviveRekeying` holds for any number of keys, cycles and kills.

**PasteCheckProofs.**  A card is the value of a cascade on a reading of the text, so that the invariant
is short (`TextInField /\ CitedByItsScorer /\ ExplainedFromTheText`) and the work is in
lemmas on the operators.  `SharedEvidence` says that the operators of `Evidence` mean the
same in both cascades, applied to one reading.  `PortCoversPipeline` compares the port's
score with the reference's rule by rule, across the rounding that one does and the other
does not, on a text that both read alike: what the phone does not read it cannot flag, and
nothing holds of the others (section 6, item 8).  `LoneCueIsSilent` and
`WeakTacticIsSilent` bound a score by the ceilings; all hold for every finite set of
tactics, every two readings of a text and every answer of the models.

**MessagingProofs.**  The invariant is one part per module that has a theorem:

    IInv == GatewayInv /\ SessionInv /\ ExplainInv /\ TranscriptInv /\ MatcherInv

The answers given are bounded by a potential: what was answered, plus the tokens left,
less the clock at the last refill (`RateInv`), plus one answer for each thread that works
on a bucket which another has replaced (`Astray`).  Every step but an overlap keeps it
within what is allowed.  The proof corrected the property.  With a cost of one bucket per
overlap `RateBound` held on the small instance, but an overlapping write may put back the
tokens of a bucket as well as an old time of refill, from which the clock counts a second
time; with a token per tick and a higher clock TLC finds the run, of eleven messages.
`RateBound` now states what is proved.  `ArcLiftsPayment` bounds the score of the
reference cascade from below, and `ExplanationsForCause` follows from what a request has
seen before it was refused (`SawWhatIsThere`).

*Bursts.*  `BurstsAreJoined` is a fact about every transcript and needs no more of the state
than that `raw` is one (`TranscriptInv`).  The proof goes along the transcript with what is
true of the turns of its first n messages (`TurnsOf`): joined they count to n, the last turn
has just those messages from which one turn reaches n, and two messages share a turn just
when one turn reaches from the first to the second.  `TurnGoesOn` and `TurnBegins` are the
two cases of the next message.  That times may run backwards plays no part: the code
compares neighbours only, and so does the property.

*Automaton.*  `ScansAgree` speaks of what was found; what makes it true is where the links
lead while they are being built.  The invariant says it in three parts:

    MatcherInv == MatcherTypeOK /\ TrieInv /\ LinksInv /\ ScanInv

`TrieInv`: with a node, all its beginnings are nodes, and the cues are nodes.  `LinksInv`:
the queue is by length and over at most two lengths; a node that is in the queue or was
taken from it is `Right`, that is, its link leads to the longest node that ends it
properly and its output is every cue that ends it; one that still waits is `Raw`, with no
link and no output but its own.  `ScanInv`: once built, `node` is the longest node that
ends the text read, and `found` is every cue that occurs in it.  The central lemma is
`StepIs`: from the longest node that ends a text, the walk along links that are right for
all nodes no longer than it reaches the longest node that ends the text with one character
more (`BackIs` by the shortest node on which the walk goes wrong).  Both `Link` and `Read`
are instances of it, the first with the name of a node as the text.  Why breadth first:
`StepIs` asks for right links of all shorter nodes, which is what the order of the queue
gives.  `OneList` says that a set has one list in a given order, so that the sorted
findings are the naive scan's.

**CampaignQueriesProofs.**  One invariant for the query and both indexes:

    LookupInv == QueryInv /\ IndexInv /\ OnCircle /\ AnnInv

*Paths.*  A search that is under way (`Searching`) knows of each side that it has visited
just the nodes within as many links as it has made expansions, each with a parent one link
nearer its end, and that its frontier is the outermost ring (`Knows`); that side 1 is
level with side 2 or one ahead; and that no walk of at most as many links as both have
made expansions joins the ends.  So where the sides meet the path through the meeting
point has one link more than that, and no path is shorter; where a side runs dry or both
are at their bound, there is none within reach.  `Walk` and its lemmas (`WalksJoin`,
`WalksCut`) carry this; the path itself is `Trail` from the meeting point to each end.
`PathsAreShortest` compares with `Within`, the breadth-first definition of distance, for
every view and depth.

*Indexes.*  `IndexInv` has every list lead to nodes of its layer and the entry point on
the top layer, which is `LayersSound`, and the lists of layer 0 complete while none had to
be cut (`Indexed`, `Joined`).  The searches are taken along their recursions: a greedy
walk stays in the nodes whose lists it follows, since each step gets strictly nearer; a
beam search of a complete layer has seen all of it when it ends, or has found nothing
nearer than what it keeps.  `OnCircle` has the vectors of the first index be directions,
of one length, for which the nearest is the most similar.  `ExactWhileUncut` then holds for
all parameters, embeddings, insertions, ties and levels: each index against its own measure.

**Recursion** has what these proofs share: `SmallestOf` (a set of naturals has a smallest
element), `AllNumbers`, and `RecursionAlong`: a function that is defined by its value at one
other argument, of a smaller measure, exists.  It is built as the union of functions that
satisfy the equation up to a measure, of which any two agree.

**Induction.**  The sums of the library are folds over a finite set, and
none of the installed provers takes an induction theorem with an operator as a parameter.
Where a lemma needs induction over a finite set it is by contradiction, with the smallest
set that refutes it (`SmallestSet`, from the well-foundedness of < on the natural
numbers).  Where it needs what a recursive function computes, `RecursionAlong` gives a
function that satisfies the equation, so that the CHOOSE in the definition does too, and the
smallest argument that refutes the claim gives the contradiction.  No module has a recursive
operator.

Only model-checked:

- liveness (`ScorerRestored`, `StagingConverges`, `DuePlainRekeyed`, `CoolPhoneRecovers`),
  since fairness and ENABLED are beyond the provers;
- the two properties of the violation runs, which are false.

Every invariant and every action property of the passing runs is a theorem.

## 6. Where the code and its documentation part

The first two have a run with the shortest counterexample TLC finds.  The others were met
while modelling: the models have the behaviour as the code has it, and the properties are
stated so as to say what holds in spite of it.  `PROJECT.json` quotes the lines.

1. `registerNativeLlama.ts:301`: a warning during a load makes the next foreground load a
   second context, and nothing can release the first (`edge_leak`).
2. `nli_entailment_gate.py:272`: a prior flag lifts a confidence into the gap between the
   ceiling of the corroboration and the user-facing floor, where the text no longer
   surfaces (`messaging_recurrence`).
3. `registerNativeLlama.ts:297`: a check pressed while a memory warning awaits the native
   release goes to the backend.  Proved: this is the only window (`FallbackWindow`).
4. `registerNativeLlama.ts:157`: one boolean in-flight flag for two overlapping checks;
   `:290`: a memory warning releases the Tier-1 context that a Tier-2 run drafts with.
5. `incident_ingest.py:87`: retried submissions count as independent incidents.
6. `modelProvisioning.ts:261`: the free-space check counts the sidecar that the copy would
   delete; `:280`: a rejected copy stays where the next launch accepts it, without a pin;
   `:116`: a read error counts as an absent file, and a good internal one is staged over.
7. `api/client.ts:119`: abstained flags of the backend are cited as evidence;
   `onDeviceExplainer.ts:82`: a flag that the model raised is explained as "no strong
   manipulation pattern".
8. `tactic_taxonomy.py:135`: "wire the money" is listed twice and surfaces alone;
   `onDeviceCascade.ts:434`: port and reference differ in four rules; `:264`: the port does
   not fold look-alike, fullwidth and zero-width characters as the reference does; `onnx_scorer.py:51`:
   two scoreable tactics have no class; `fast_pattern_matcher.py:200`: the two scans differ
   on the cue that is listed twice.
9. `secure_aggregation.py:102`: the floor counts contributions, retries included, and not
   clients; `:109`: masked updates do not go with a trimmed mean; `sync_service.py:39`: the
   privacy budget starts again with the process.
10. `key_storage.py:115`: the copy of an encrypted store never passes its verification;
    `sqlcipher_store.py:51`: two first openers race for the key file.
11. `dashboard_path_query.py:64`: odd bounds lose a hop, and bounds below two gain some;
    `hnsw_index.py:114`: a cut list can leave a node that no search reaches; `:54`: the
    index ranks normalised vectors and the scan that it stands for ranks raw ones.
12. `sms_gateway.py:44`: refills and buckets are shared without a lock;
    `memory_compaction.py:79`: every candidate is recorded as a confirmed flag.
13. `backend/api/routes.py:90`: an explanation names the provider that was configured, not
    the one that answered; `llm_client.py:72`: a local explanation holds the event loop.

## 7. What is not modelled

Inside the modelled components: the text of cues, labels, prompts and explanations; the
loading of the ONNX models; the attributes `first_seen` and `incident_ids` of campaign
nodes, which no caller reads; the expo fallback of the file layer, which never copies;
editing a text between its check and its explanation; the wake gate, whose two moving
averages are floating-point arithmetic over a stream of samples; similarity search by
faiss itself, the centrality queries, which are exhaustive sums over a view, and top_k >
1; the wrapping of keys by hardware, which the repository has stand-ins for; the wording
of SMS replies; the exchange with a cloud model.

Whole components, with the reason, are in `PROJECT.json`: threat feeds and predictors,
evaluation and dashboard are I/O, rendering or numeric code without a protocol; transaction
and device detectors are stateless sums against a threshold, with no step between which
anything could happen.  Screens and native capture have state and are next in the plan.

## 8. Plan

Done: LinkLedger; TieredGraphStore, CampaignGraph, EdgeRuntime, ModelProvisioning and
DeviceGuards; Evidence, the two cascades and PasteCheck; SecureRound, CanaryRollout and
Federation; RekeyStore; SmsGateway, SessionMemory, CueMatcher, Explanation and Messaging;
PathQuery, the two indexes and CampaignQueries: each of these groups with proofs of its
safety properties, as section 5 has them.

Next:

1. *ScreenFlow*: reopened screens with overlapping checks, editing between check and
   explanation, the device scan and the warning store; *Capture*: debounce and buffers.
2. Abstract specifications for the re-keying (an atomic switch) and for the bucket (a rate
   over a clock that may step back), with the modules above as refinements.

Runs are kept few: as modules are added, violation runs whose finding is settled give way
to passing ones, and their findings stay in the list.

Theorems to add: the refinements of item 2, step by step; how far an answer of the indexes
can be from the nearest node once lists have been cut, of which finding 11 gives an example
but no bound is known.

## 9. How to run

    tlc -workers 2 -config MCTieredGraphStore.cfg MCTieredGraphStore
    tlapm StoreProofs.tla

and likewise for the other pairs in `PROJECT.json`.  The longest passing runs take about
a minute; the proofs of a module take up to a few minutes.
