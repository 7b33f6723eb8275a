----------------------------- MODULE EdgeRuntime -----------------------------
(***************************************************************************)
(* The on-device model's lifecycle in the mobile app:                      *)
(* mobile/src/native-modules/registerNativeLlama.ts (contexts, engine,     *)
(* memory and app-state signals), mobile/src/ml/modelLoader.ts and         *)
(* defaultScorer.ts (which scorer is registered), nativeLlamaScorer.ts and *)
(* scoring.ts (which of them answers a check, or the backend).             *)
(*                                                                         *)
(* JavaScript is single-threaded: a step runs from one event to the next   *)
(* await on the native layer or the network.  An await of a promise that   *)
(* is already settled lets no event in, so it ends no step.                *)
(*                                                                         *)
(* A native context is a number.  An engine, and the binding made with it, *)
(* is named by its Tier-1 context: bringUpTier1 and releaseAllForMemory    *)
(* assign the module variables engine and nativeBinding together, so one   *)
(* variable stands for both, and the field tier1 of a binding, which its   *)
(* Tier-2 runs hand to the native layer as draft_context, is the context   *)
(* that names it.  Nothing (null) and the pure-TS scorer are 0.            *)
(***************************************************************************)
EXTENDS Integers, FiniteSets

CONSTANTS
    MaxCtx,         \* bound: native contexts ever asked for
    Check,          \* PasteCheck screens that may have a check in flight
    Signal,         \* memory warnings that may be handled at one time
    Caller          \* users of getNativeBinding() (none in the repository)

ASSUME RuntimeAssumption == MaxCtx \in Nat \ {0}

Ctx     == 1..MaxCtx
None    == 0        \* null
Default == 0        \* the pure-TS scorer of defaultScorer.ts

VARIABLES
    ctx,            \* native contexts: unused, loading, live, releasing, gone
    engine,         \* module variables engine and nativeBinding
    held,           \* engines whose field ctx is not null
    busy,           \* engines whose field busy is true
    tier2,          \* per binding: its field tier2
    tier2Busy,      \* bindings whose field tier2Busy is true
    registered,     \* _registeredRuntime: the engine of the scorer, or Default
    startup,        \* registerNativeLlamaScorerIfAvailable: where it is
    loads,          \* contexts that calls of bringUpTier1 are waiting for
    tier1Path,      \* tier1ModelPath # null
    needsReload,
    wired,          \* appStateWired
    appState,
    release,        \* per signal: where its releaseAllForMemory is
    check,          \* per screen: where its check is
    caller,         \* per caller: where its Tier-2 run is, and on what contexts
    loadLost        \* history: the last bring-up failed, no warning came since

objects == <<ctx, engine, held, busy, tier2, tier2Busy, registered>>
module  == <<startup, loads, tier1Path, needsReload, wired, appState, loadLost>>
vars    == <<objects, module, release, check, caller>>

Idle == [pc |-> "idle", ctx |-> None]
Fresh == {c \in Ctx : ctx[c] = "unused" /\ \A d \in 1..(c - 1) : ctx[d] # "unused"}

\* isEdgeRuntimeAvailable(): the registered scorer's isReady().
Available == registered = Default \/ registered \in held

-----------------------------------------------------------------------------
(***************************************************************************)
(* Start-up and bringUpTier1.                                              *)
(***************************************************************************)
StartupFindsNoModel ==
    /\ startup = "resolving"
    /\ startup' = "done"
    /\ UNCHANGED <<objects, loads, tier1Path, needsReload, wired, appState, loadLost,
                   release, check, caller>>

\* bringUpTier1 up to its await of initLlama.
BringUp(c) ==
    /\ ctx' = [ctx EXCEPT ![c] = "loading"]
    /\ loads' = loads \cup {c}

StartupFindsModel ==
    /\ startup = "resolving"
    /\ \E c \in Fresh : BringUp(c)
    /\ startup' = "loading"
    /\ tier1Path' = TRUE
    /\ UNCHANGED <<engine, held, busy, tier2, tier2Busy, registered, needsReload, wired,
                   appState, loadLost, release, check, caller>>

\* initLlama answers: a new engine and binding replace the module's, and the
\* blended scorer is registered.  Start-up then wires the app-state listeners.
BringUpSucceeds(c) ==
    /\ c \in loads
    /\ loads' = loads \ {c}
    /\ ctx' = [ctx EXCEPT ![c] = "live"]
    /\ engine' = c
    /\ held' = held \cup {c}
    /\ registered' = c
    /\ startup' = "done"
    /\ wired' = TRUE
    /\ loadLost' = FALSE
    /\ UNCHANGED <<busy, tier2, tier2Busy, tier1Path, needsReload, appState,
                   release, check, caller>>

\* It fails, on the GPU and on the CPU: whatever engine there is is dropped.
BringUpFails(c) ==
    /\ c \in loads
    /\ loads' = loads \ {c}
    /\ ctx' = [ctx EXCEPT ![c] = "gone"]
    /\ engine' = None
    /\ tier1Path' = (startup # "loading" /\ tier1Path)
    /\ startup' = "done"
    /\ loadLost' = TRUE
    /\ UNCHANGED <<held, busy, tier2, tier2Busy, registered, needsReload, wired, appState,
                   release, check, caller>>

-----------------------------------------------------------------------------
(***************************************************************************)
(* Releases: LlamaRnBinding.releaseTier2, LlamaRnEngine.release, and       *)
(* releaseAllForMemory, which awaits the one and then the other.           *)
(***************************************************************************)
ReleasesWhenBusy(b) == b # None /\ tier2[b] # None

\* releaseTier2 finds a context to release, and no Tier-2 completion on it.
ReleasesTier2(b) == b # None /\ b \notin tier2Busy /\ tier2[b] # None

HeldUntilReleased(e) == held

\* release() sets the engine's ctx to null before it awaits the native call.
HeldAfterRelease(e) == held \ {e}

AlwaysDefault == Default

NotRestored == registered

\* ensureOnDeviceScorer(): the default scorer, unless a ready one is there.
EnsuredScorer == IF Available THEN registered ELSE Default

OnlyIfEngineLeft == engine # None

ReloadDue == tier1Path

\* releaseAllForMemory from its last await on.
Finish(w) ==
    /\ engine' = None
    /\ needsReload' = ReloadDue
    /\ registered' = EnsuredScorer
    /\ release' = [release EXCEPT ![w] = Idle]
    /\ loadLost' = FALSE
    /\ UNCHANGED held

\* "if (engine !== null) await engine.release()": the module variable is read
\* here, and its busy flag is not.  "after" is ctx once this step's own
\* native answer is counted in.
ReleaseEngine(w, after) ==
    IF engine \in held
      THEN /\ held' = HeldAfterRelease(engine)
           /\ ctx' = [after EXCEPT ![engine] = "releasing"]
           /\ release' = [release EXCEPT ![w] = [pc |-> "tier1", ctx |-> engine]]
           /\ UNCHANGED <<engine, needsReload, registered, loadLost>>
      ELSE /\ ctx' = after
           /\ Finish(w)

\* A memory warning: skipped while the engine is busy; else Tier 2 first.
MemoryWarning(w) ==
    /\ wired /\ release[w].pc = "idle"
    /\ engine \notin busy
    /\ IF ReleasesTier2(engine)
         THEN /\ ctx' = [ctx EXCEPT ![tier2[engine]] = "releasing"]
              /\ tier2' = [tier2 EXCEPT ![engine] = None]
              /\ release' = [release EXCEPT ![w] = [pc |-> "tier2", ctx |-> tier2[engine]]]
              /\ UNCHANGED <<engine, held, needsReload, registered, loadLost>>
         ELSE /\ ReleaseEngine(w, ctx)
              /\ UNCHANGED tier2
    /\ UNCHANGED <<busy, tier2Busy, startup, loads, tier1Path, wired, appState, check, caller>>

\* The native layer has released c (or failed to, which is ignored): the
\* releaseAllForMemory that waits for it, if one does, goes on.
NativeReleased(c) ==
    /\ ctx[c] = "releasing"
    /\ LET after == [ctx EXCEPT ![c] = "gone"]
       IN  \/ \E w \in Signal :
                 /\ release[w] = [pc |-> "tier2", ctx |-> c]
                 /\ ReleaseEngine(w, after)
           \/ \E w \in Signal :
                 /\ release[w] = [pc |-> "tier1", ctx |-> c]
                 /\ Finish(w)
                 /\ ctx' = after
           \/ /\ \A w \in Signal : release[w].ctx # c
              /\ ctx' = after
              /\ UNCHANGED <<engine, held, needsReload, registered, loadLost, release>>
    /\ UNCHANGED <<busy, tier2, tier2Busy, startup, loads, tier1Path, wired, appState,
                   check, caller>>

-----------------------------------------------------------------------------
(***************************************************************************)
(* App-state changes.                                                      *)
(***************************************************************************)
Background ==
    /\ appState = "active"
    /\ appState' = "background"
    /\ IF wired /\ ReleasesTier2(engine)
         THEN /\ ctx' = [ctx EXCEPT ![tier2[engine]] = "releasing"]
              /\ tier2' = [tier2 EXCEPT ![engine] = None]
         ELSE UNCHANGED <<ctx, tier2>>
    /\ UNCHANGED <<engine, held, busy, tier2Busy, registered, startup, loads, tier1Path,
                   needsReload, wired, loadLost, release, check, caller>>

Foreground ==
    /\ appState = "background"
    /\ appState' = "active"
    /\ IF wired /\ needsReload /\ tier1Path
         THEN /\ needsReload' = FALSE
              /\ \E c \in Fresh : BringUp(c)
         ELSE UNCHANGED <<needsReload, ctx, loads>>
    /\ UNCHANGED <<engine, held, busy, tier2, tier2Busy, registered, startup, tier1Path, wired,
                   loadLost, release, check, caller>>

-----------------------------------------------------------------------------
(***************************************************************************)
(* Checks: scoreTranscript, for a press on one screen.  The default scorer *)
(* and a native scorer with no candidate tactic answer at once.            *)
(***************************************************************************)
CheckOnModel(k) ==
    /\ check[k].pc = "idle"
    /\ registered \in held
    /\ busy' = busy \cup {registered}
    /\ check' = [check EXCEPT ![k] = [pc |-> "completing", ctx |-> registered]]
    /\ UNCHANGED <<ctx, engine, held, tier2, tier2Busy, registered, module, release, caller>>

\* No ready scorer is registered: the transcript goes to the backend.
CheckOnBackend(k) ==
    /\ check[k].pc = "idle"
    /\ ~Available
    /\ check' = [check EXCEPT ![k] = [pc |-> "posting", ctx |-> None]]
    /\ UNCHANGED <<objects, module, release, caller>>

\* The completion, or the request, answers or fails: either way the check ends.
CheckEnds(k) ==
    /\ check[k].pc # "idle"
    /\ busy' = busy \ {check[k].ctx}
    /\ check' = [check EXCEPT ![k] = Idle]
    /\ UNCHANGED <<ctx, engine, held, tier2, tier2Busy, registered, module, release, caller>>

-----------------------------------------------------------------------------
(***************************************************************************)
(* runTier2WithSpeculativeDecoding, on the binding a caller got.  The      *)
(* completion runs on the Tier-2 context and on the binding's Tier-1       *)
(* context, its draft; only the flag tier2Busy is set for the two of them. *)
(***************************************************************************)
NoRun == [pc |-> "idle", binding |-> None, ctx |-> None, draft |-> None]

\* The completion starts: this.tier2.completion({..., draft_context: this.tier1}).
Completing(b, c) == [pc |-> "completing", binding |-> b, ctx |-> c, draft |-> b]

RunTier2Loads(t) ==
    /\ caller[t].pc = "idle"
    /\ engine # None /\ tier2[engine] = None
    /\ \E c \in Fresh :
          /\ ctx' = [ctx EXCEPT ![c] = "loading"]
          /\ caller' = [caller EXCEPT ![t] = [pc |-> "loading", binding |-> engine, ctx |-> c,
                                              draft |-> None]]
    /\ UNCHANGED <<engine, held, busy, tier2, tier2Busy, registered, module, release, check>>

\* The Tier-2 context is there: it becomes the binding's, and the run starts.
Tier2Loaded(t) ==
    LET b == caller[t].binding
    IN  /\ caller[t].pc = "loading"
        /\ ctx' = [ctx EXCEPT ![caller[t].ctx] = "live"]
        /\ tier2' = [tier2 EXCEPT ![b] = caller[t].ctx]
        /\ tier2Busy' = tier2Busy \cup {b}
        /\ caller' = [caller EXCEPT ![t] = Completing(b, caller[t].ctx)]
        /\ UNCHANGED <<engine, held, busy, registered, module, release, check>>

\* No weights, or the load failed: the run throws.
Tier2Unavailable(t) ==
    /\ caller[t].pc = "loading"
    /\ ctx' = [ctx EXCEPT ![caller[t].ctx] = "gone"]
    /\ caller' = [caller EXCEPT ![t] = NoRun]
    /\ UNCHANGED <<engine, held, busy, tier2, tier2Busy, registered, module, release, check>>

RunTier2Resident(t) ==
    /\ caller[t].pc = "idle"
    /\ engine # None /\ tier2[engine] # None
    /\ tier2Busy' = tier2Busy \cup {engine}
    /\ caller' = [caller EXCEPT ![t] = Completing(engine, tier2[engine])]
    /\ UNCHANGED <<ctx, engine, held, busy, tier2, registered, module, release, check>>

Tier2Ends(t) ==
    /\ caller[t].pc = "completing"
    /\ tier2Busy' = tier2Busy \ {caller[t].binding}
    /\ caller' = [caller EXCEPT ![t] = NoRun]
    /\ UNCHANGED <<ctx, engine, held, busy, tier2, registered, module, release, check>>

-----------------------------------------------------------------------------
\* The app is mounted: its effect has installed the default scorer and kicked
\* off the native start-up, which is looking for the Tier-1 file.
Init ==
    /\ ctx = [c \in Ctx |-> "unused"]
    /\ engine = None /\ held = {} /\ busy = {}
    /\ tier2 = [c \in Ctx |-> None] /\ tier2Busy = {}
    /\ registered = Default
    /\ startup = "resolving" /\ loads = {}
    /\ tier1Path = FALSE /\ needsReload = FALSE /\ wired = FALSE
    /\ appState = "active"
    /\ release = [w \in Signal |-> Idle]
    /\ check = [k \in Check |-> Idle]
    /\ caller = [t \in Caller |-> NoRun]
    /\ loadLost = FALSE

Native ==
    \/ \E c \in Ctx : BringUpSucceeds(c) \/ BringUpFails(c) \/ NativeReleased(c)
    \/ \E t \in Caller : Tier2Loaded(t) \/ Tier2Unavailable(t) \/ Tier2Ends(t)
    \/ \E k \in Check : CheckEnds(k)

Next ==
    \/ Native
    \/ StartupFindsNoModel \/ StartupFindsModel
    \/ Background \/ Foreground
    \/ \E w \in Signal : MemoryWarning(w)
    \/ \E k \in Check : CheckOnModel(k) \/ CheckOnBackend(k)
    \/ \E t \in Caller : RunTier2Loads(t) \/ RunTier2Resident(t)

\* The native layer answers every call: the code sets no timeout of its own
\* and awaits each answer without one.
Fairness == \A c \in Ctx : WF_vars(NativeReleased(c))

Spec == Init /\ [][Next]_vars /\ Fairness

-----------------------------------------------------------------------------
(***************************************************************************)
(* Properties.                                                             *)
(***************************************************************************)
TypeOK ==
    /\ ctx \in [Ctx -> {"unused", "loading", "live", "releasing", "gone"}]
    /\ engine \in Ctx \cup {None} /\ registered \in Ctx \cup {Default}
    /\ held \subseteq Ctx /\ busy \subseteq Ctx /\ loads \subseteq Ctx
    /\ tier2 \in [Ctx -> Ctx \cup {None}] /\ tier2Busy \subseteq Ctx
    /\ startup \in {"resolving", "loading", "done"}
    /\ appState \in {"active", "background"}
    /\ {tier1Path, needsReload, wired, loadLost} \subseteq BOOLEAN
    /\ release \in [Signal -> {Idle} \cup [pc : {"tier2", "tier1"}, ctx : Ctx]]
    /\ check \in [Check -> {Idle, [pc |-> "posting", ctx |-> None]}
                              \cup [pc : {"completing"}, ctx : Ctx]]
    /\ caller \in [Caller -> {NoRun} \cup [pc : {"loading", "completing"}, binding : Ctx,
                                          ctx : Ctx, draft : Ctx \cup {None}]]

\* A memory warning waits for the native release of e's Tier-1 context.
WarningTakes(e) == \E w \in Signal : release[w] = [pc |-> "tier1", ctx |-> e]

\* The only time a check finds no on-device scorer is while a memory warning
\* waits for the native release of that very scorer's context, whatever other
\* warnings, reloads and checks are under way (lines 289-307, scoring.ts:54).
FallbackOnlyWhileReleasing == ~Available => WarningTakes(registered)

\* A scorer that says it is ready has a resident context, and a binding's
\* Tier-2 context is resident: neither was handed to a release (162-173, 234-248).
ReadyImpliesResident ==
    /\ \A e \in held : ctx[e] = "live"
    /\ \A b \in Ctx : tier2[b] # None => ctx[tier2[b]] = "live"

\* A model that was unloaded is not forgotten: while no engine is resident and
\* the weights are known, a reload is due, a load or a release is under way,
\* or the last load failed (289-307, 319-322).
ReloadNotForgotten ==
    tier1Path /\ engine = None => needsReload \/ loads # {} \/ loadLost

\* With one caller, no release takes the Tier-2 context from under its run,
\* though app-state changes and memory warnings come at any time (230-238).  The
\* Tier-1 context that the run drafts with has no such protection: a warning
\* asks whether the engine is busy, not whether the binding is (290, 295), and
\* takes it.  Short of that the draft is resident too: while the module still
\* names it, and no warning waits for its release.
Tier2RunKeepsContext ==
    \A t \in Caller : caller[t].pc = "completing" =>
        /\ ctx[caller[t].ctx] = "live"
        /\ caller[t].draft = engine /\ ~WarningTakes(engine) => ctx[caller[t].draft] = "live"

\* A ready model scorer is never replaced by the heuristic one: a release that
\* ends after a newer engine came up leaves it registered (defaultScorer.ts:64-72).
ReadyScorerKept ==
    [][(registered \in held) => registered' \in held' \/ registered' = registered]_vars

\* The device is never left without an on-device scorer (302-305).
ScorerRestored == ~Available ~> Available

\* What registerNativeLlama.ts:38 and :306 say: a memory warning releases all
\* contexts.  With no Tier-2 caller, that is to say that every resident context
\* is the one releaseAllForMemory would find.
EveryContextReleasable == \A c \in Ctx : ctx[c] = "live" => c = engine

==============================================================================
