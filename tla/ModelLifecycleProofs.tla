------------------------ MODULE ModelLifecycleProofs ------------------------
(***************************************************************************)
(* Theorems about the on-device model: its lifecycle in memory, for every  *)
(* number of contexts, screens, overlapping memory warnings and Tier-2     *)
(* callers; and the staging of its file, for every size of a model, every  *)
(* floor, every room and any number of pushes and faults.                  *)
(***************************************************************************)
EXTENDS EdgeRuntime, ModelProvisioning, TLAPS

\* Contexts that are loading are waited for by one party only, and a Tier-2
\* context is neither an engine's nor another binding's.
ContextsDistinct ==
    /\ \A c \in loads : ctx[c] = "loading"
    /\ \A t \in Caller : caller[t].pc = "loading" =>
          /\ ctx[caller[t].ctx] = "loading"
          /\ caller[t].ctx \notin loads
          /\ \A u \in Caller \ {t} :
                caller[u].pc = "loading" => caller[u].ctx # caller[t].ctx
    /\ \A b \in Ctx : tier2[b] # None =>
          /\ tier2[b] \notin held
          /\ \A d \in Ctx : tier2[d] = tier2[b] => d = b

\* The inductive invariant.  ReadyImpliesResident alone is not inductive: a
\* release keeps it because the context it takes belongs to no one else.
IInv ==
    /\ TypeOK
    /\ ContextsDistinct
    /\ ReadyImpliesResident
    /\ FallbackOnlyWhileReleasing
    /\ ReloadNotForgotten

\* What a native answer changes in ctx before releaseAllForMemory goes on.
Settled(after) ==
    \/ after = ctx
    \/ \E c \in Ctx : ctx[c] = "releasing" /\ after = [ctx EXCEPT ![c] = "gone"]

CtxState == {"unused", "loading", "live", "releasing", "gone"}

\* Which warning waits for which context is part of every fact below.
USE DEF WarningTakes

-----------------------------------------------------------------------------
\* Null is no context.
LEMMA NoneIsNoCtx == None \notin Ctx
  BY RuntimeAssumption DEF None, Ctx

\* Initially nothing is loaded and the pure-TS scorer is registered.
LEMMA InitInvariant == Init => IInv
  <1>1. SUFFICES ASSUME Init PROVE IInv
    OBVIOUS
  <1>2. TypeOK
    BY <1>1 DEF Init, TypeOK, None, Default, Idle, NoRun
  <1>3. ContextsDistinct
    BY <1>1, NoneIsNoCtx DEF Init, ContextsDistinct, None, NoRun
  <1>4. ReadyImpliesResident /\ FallbackOnlyWhileReleasing /\ ReloadNotForgotten
    BY <1>1 DEF Init, ReadyImpliesResident, FallbackOnlyWhileReleasing, ReloadNotForgotten,
                Available
  <1>5. QED
    BY <1>2, <1>3, <1>4 DEF IInv

\* The end of releaseAllForMemory registers a scorer that is ready.
LEMMA FinishInvariant ==
  ASSUME IInv, NEW w \in Signal, Finish(w), Settled(ctx'),
         UNCHANGED <<busy, tier2, tier2Busy, startup, loads, tier1Path, wired, appState,
                     check, caller>>
  PROVE  IInv'
  <1>1. TypeOK'
    <2>1. ctx' \in [Ctx -> CtxState]
      BY DEF IInv, TypeOK, Settled, CtxState
    <2>2. registered' \in Ctx \cup {Default}
      BY DEF IInv, TypeOK, Finish, EnsuredScorer
    <2>3. release' \in [Signal -> {Idle} \cup [pc : {"tier2", "tier1"}, ctx : Ctx]]
      BY DEF IInv, TypeOK, Finish
    <2>4. {tier1Path, needsReload, wired, loadLost}' \subseteq BOOLEAN
      BY DEF IInv, TypeOK, Finish, ReloadDue
    <2>5. QED
      BY <2>1, <2>2, <2>3, <2>4 DEF IInv, TypeOK, Finish, CtxState
  <1>2. ContextsDistinct'
    <2>1. \A c \in Ctx : ctx'[c] = ctx[c] \/ ctx[c] = "releasing"
      BY DEF IInv, TypeOK, Settled
    <2>2. \A t \in Caller : caller[t].pc = "loading" => caller[t].ctx \in Ctx
      BY DEF IInv, TypeOK, NoRun
    <2>3. QED
      BY <2>1, <2>2 DEF IInv, TypeOK, ContextsDistinct, Finish
  <1>3. ReadyImpliesResident'
    BY DEF IInv, TypeOK, ReadyImpliesResident, Finish, None, Settled
  <1>4. FallbackOnlyWhileReleasing'
    BY DEF IInv, FallbackOnlyWhileReleasing, Finish, EnsuredScorer, Available
  <1>5. ReloadNotForgotten'
    BY DEF ReloadNotForgotten, Finish, ReloadDue
  <1>6. QED
    BY <1>1, <1>2, <1>3, <1>4, <1>5 DEF IInv

\* Releasing the engine keeps the invariant: the releasing warning stands for
\* the scorer that stops being ready.
LEMMA ReleaseEngineInvariant ==
  ASSUME IInv, NEW w \in Signal, NEW after, Settled(after), ReleaseEngine(w, after),
         release[w].pc # "tier1",
         UNCHANGED <<busy, tier2, tier2Busy, startup, loads, tier1Path, wired, appState,
                     check, caller>>
  PROVE  IInv'
  <1>1. CASE engine \notin held
    BY <1>1, FinishInvariant DEF ReleaseEngine
  <1>2. CASE engine \in held
    <2>1. /\ held' = held \ {engine}
          /\ ctx' = [after EXCEPT ![engine] = "releasing"]
          /\ release' = [release EXCEPT ![w] = [pc |-> "tier1", ctx |-> engine]]
          /\ UNCHANGED <<engine, needsReload, registered, loadLost>>
      BY <1>2 DEF ReleaseEngine, HeldAfterRelease
    <2>2. engine \in Ctx /\ engine # None
      BY <1>2, NoneIsNoCtx DEF IInv, TypeOK
    <2>3. after \in [Ctx -> CtxState]
      BY DEF IInv, TypeOK, Settled, CtxState
    <2>4. TypeOK'
      BY <2>1, <2>2, <2>3 DEF IInv, TypeOK, CtxState
    <2>5. ctx[engine] = "live"
      BY <1>2 DEF IInv, ReadyImpliesResident
    <2>6. \A c \in Ctx : c # engine => ctx'[c] = ctx[c] \/ (ctx[c] = "releasing" /\ ctx'[c] = "gone")
      BY <2>1, <2>2, <2>3 DEF Settled, IInv, TypeOK
    <2>7. ContextsDistinct'
      <3>1. \A c \in loads' : ctx'[c] = "loading"
        BY <2>5, <2>6 DEF IInv, TypeOK, ContextsDistinct
      <3>2. \A t \in Caller : caller[t].pc = "loading" => caller[t].ctx \in Ctx
        BY DEF IInv, TypeOK, NoRun
      <3>3. \A t \in Caller : caller'[t].pc = "loading" =>
              /\ ctx'[caller'[t].ctx] = "loading"
              /\ caller'[t].ctx \notin loads'
              /\ \A u \in Caller \ {t} :
                    caller'[u].pc = "loading" => caller'[u].ctx # caller'[t].ctx
        BY <2>5, <2>6, <3>2 DEF IInv, ContextsDistinct
      <3>4. \A b \in Ctx : tier2'[b] # None =>
              /\ tier2'[b] \notin held'
              /\ \A d \in Ctx : tier2'[d] = tier2'[b] => d = b
        BY <2>1 DEF IInv, ContextsDistinct
      <3>5. QED
        BY <3>1, <3>3, <3>4 DEF ContextsDistinct
    <2>8. ReadyImpliesResident'
      BY <1>2, <2>1, <2>6 DEF IInv, TypeOK, ContextsDistinct, ReadyImpliesResident, None
    <2>9. FallbackOnlyWhileReleasing'
      BY <2>1 DEF IInv, TypeOK, FallbackOnlyWhileReleasing, Available
    <2>10. ReloadNotForgotten'
      BY <2>1, <2>2 DEF ReloadNotForgotten
    <2>11. QED
      BY <2>4, <2>7, <2>8, <2>9, <2>10 DEF IInv
  <1>3. QED
    BY <1>1, <1>2

\* Handing a binding's Tier-2 context to a release keeps the invariant.
LEMMA ReleaseTier2Invariant ==
  ASSUME IInv, ReleasesTier2(engine),
         ctx' = [ctx EXCEPT ![tier2[engine]] = "releasing"],
         tier2' = [tier2 EXCEPT ![engine] = None],
         \/ UNCHANGED release
         \/ \E w \in Signal : /\ release[w].pc = "idle"
                              /\ release' = [release EXCEPT ![w] = [pc |-> "tier2", ctx |-> tier2[engine]]],
         appState' \in {"active", "background"},
         UNCHANGED <<engine, held, busy, tier2Busy, registered, startup, loads, tier1Path,
                     needsReload, wired, loadLost, check, caller>>
  PROVE  IInv'
  <1> DEFINE x == tier2[engine]
  <1>1. engine \in Ctx /\ x \in Ctx /\ x # None /\ ctx[x] = "live" /\ x \notin held
    BY DEF IInv, TypeOK, ReleasesTier2, ReadyImpliesResident, ContextsDistinct
  <1>2. TypeOK'
    BY <1>1 DEF IInv, TypeOK, None
  <1>3. \A c \in Ctx : c # x => ctx'[c] = ctx[c]
    BY <1>1 DEF IInv, TypeOK
  <1>4. ContextsDistinct'
    <2>1. \A t \in Caller : caller[t].pc = "loading" => caller[t].ctx \in Ctx
      BY DEF IInv, TypeOK, NoRun
    <2>2. QED
      BY <1>1, <1>3, <2>1 DEF IInv, TypeOK, ContextsDistinct, None
  <1>5. ReadyImpliesResident'
    BY <1>1, <1>3 DEF IInv, TypeOK, ContextsDistinct, ReadyImpliesResident, None
  <1>6. FallbackOnlyWhileReleasing'
    BY DEF IInv, TypeOK, FallbackOnlyWhileReleasing, Available
  <1>7. ReloadNotForgotten'
    BY DEF IInv, ReloadNotForgotten
  <1>8. QED
    BY <1>2, <1>4, <1>5, <1>6, <1>7 DEF IInv

\* A memory warning keeps the invariant.
LEMMA WarningInvariant ==
  ASSUME IInv, NEW w \in Signal, MemoryWarning(w)
  PROVE  IInv'
  <1>1. release[w].pc = "idle"
    BY DEF MemoryWarning
  <1>2. CASE ReleasesTier2(engine)
    BY <1>1, <1>2, ReleaseTier2Invariant DEF MemoryWarning, IInv, TypeOK
  <1>3. CASE ~ReleasesTier2(engine)
    <2>1. ReleaseEngine(w, ctx) /\ Settled(ctx)
      BY <1>3 DEF MemoryWarning, Settled
    <2>2. UNCHANGED <<busy, tier2, tier2Busy, startup, loads, tier1Path, wired, appState,
                      check, caller>>
      BY <1>3 DEF MemoryWarning
    <2>3. QED
      BY <1>1, <2>1, <2>2, ReleaseEngineInvariant
  <1>4. QED
    BY <1>2, <1>3

\* A native release keeps the invariant, whichever warning waited for it.
LEMMA NativeReleasedInvariant ==
  ASSUME IInv, NEW c \in Ctx, NativeReleased(c)
  PROVE  IInv'
  <1> DEFINE after == [ctx EXCEPT ![c] = "gone"]
  <1>1. /\ ctx[c] = "releasing"
        /\ UNCHANGED <<busy, tier2, tier2Busy, startup, loads, tier1Path, wired, appState,
                       check, caller>>
    BY DEF NativeReleased
  <1>2. Settled(after)
    BY <1>1 DEF Settled
  <1>3. CASE \E w \in Signal : release[w] = [pc |-> "tier2", ctx |-> c] /\ ReleaseEngine(w, after)
    <2>1. PICK w \in Signal : release[w] = [pc |-> "tier2", ctx |-> c] /\ ReleaseEngine(w, after)
      BY <1>3
    <2>2. release[w].pc # "tier1"
      BY <2>1
    <2> HIDE DEF after
    <2>3. QED
      BY <1>1, <1>2, <2>1, <2>2, ReleaseEngineInvariant
  <1>4. CASE \E w \in Signal : Finish(w) /\ ctx' = after
    BY <1>1, <1>2, <1>4, FinishInvariant
  <1>5. CASE ctx' = after /\ UNCHANGED <<engine, held, needsReload, registered, loadLost, release>>
    <2>1. TypeOK'
      BY <1>1, <1>5 DEF IInv, TypeOK
    <2>2. \A d \in Ctx : ctx'[d] = ctx[d] \/ ctx[d] = "releasing"
      BY <1>1, <1>5 DEF IInv, TypeOK
    <2>3. ContextsDistinct'
      <3>1. \A t \in Caller : caller[t].pc = "loading" => caller[t].ctx \in Ctx
        BY DEF IInv, TypeOK, NoRun
      <3>2. QED
        BY <1>1, <1>5, <2>2, <3>1 DEF IInv, TypeOK, ContextsDistinct
    <2>4. ReadyImpliesResident'
      BY <1>1, <1>5, <2>2 DEF IInv, TypeOK, ReadyImpliesResident, None
    <2>5. FallbackOnlyWhileReleasing' /\ ReloadNotForgotten'
      BY <1>1, <1>5 DEF IInv, FallbackOnlyWhileReleasing, ReloadNotForgotten, Available
    <2>6. QED
      BY <2>1, <2>3, <2>4, <2>5 DEF IInv
  <1>6. QED
    BY <1>3, <1>4, <1>5 DEF NativeReleased

\* An answer of initLlama keeps the invariant, whether it succeeds or fails.
LEMMA BringUpInvariant ==
  ASSUME IInv, NEW c \in Ctx, BringUpSucceeds(c) \/ BringUpFails(c)
  PROVE  IInv'
  <1>1. c \in loads /\ ctx[c] = "loading" /\ c # None
    BY NoneIsNoCtx DEF IInv, ContextsDistinct, BringUpSucceeds, BringUpFails
  <1>2. \A d \in Ctx : d # c => ctx'[d] = ctx[d]
    BY DEF IInv, TypeOK, BringUpSucceeds, BringUpFails
  <1>3. \A t \in Caller : caller[t].pc = "loading" => caller[t].ctx \in Ctx \ {c}
    BY <1>1 DEF IInv, TypeOK, NoRun, ContextsDistinct
  <1>4. c \notin held /\ \A b \in Ctx : tier2[b] # c
    BY <1>1 DEF IInv, ReadyImpliesResident
  <1>5. TypeOK'
    BY DEF IInv, TypeOK, BringUpSucceeds, BringUpFails
  <1>6. ContextsDistinct'
    <2>1. \A d \in loads' : d # c /\ ctx'[d] = "loading"
      BY <1>2 DEF IInv, TypeOK, ContextsDistinct, BringUpSucceeds, BringUpFails
    <2>2. held' \subseteq held \cup {c} /\ UNCHANGED <<tier2, caller>> /\ loads' \subseteq loads
      BY DEF BringUpSucceeds, BringUpFails
    <2>3. QED
      BY <1>2, <1>3, <1>4, <2>1, <2>2 DEF IInv, ContextsDistinct
  <1>7. ReadyImpliesResident'
    BY <1>2, <1>4 DEF IInv, TypeOK, ReadyImpliesResident, BringUpSucceeds, BringUpFails
  <1>8. FallbackOnlyWhileReleasing'
    BY DEF IInv, FallbackOnlyWhileReleasing, Available, BringUpSucceeds, BringUpFails
  <1>9. ReloadNotForgotten'
    BY <1>1 DEF ReloadNotForgotten, BringUpSucceeds, BringUpFails
  <1>10. QED
    BY <1>5, <1>6, <1>7, <1>8, <1>9 DEF IInv

\* Asking for a Tier-1 context keeps the invariant: a fresh one is no one's.
LEMMA AskInvariant ==
  ASSUME IInv, NEW c \in Fresh, BringUp(c),
         startup' \in {"resolving", "loading", "done"}, appState' \in {"active", "background"},
         tier1Path' \in BOOLEAN, needsReload' \in BOOLEAN,
         UNCHANGED <<engine, held, busy, tier2, tier2Busy, registered, wired, loadLost,
                     release, check, caller>>
  PROVE  IInv'
  <1>1. c \in Ctx /\ ctx[c] = "unused"
    BY DEF Fresh
  <1>2. ctx' = [ctx EXCEPT ![c] = "loading"] /\ loads' = loads \cup {c}
    BY DEF BringUp
  <1>3. TypeOK'
    BY <1>1, <1>2 DEF IInv, TypeOK
  <1>4. \A d \in Ctx : d # c => ctx'[d] = ctx[d]
    BY <1>2 DEF IInv, TypeOK
  <1>5. ContextsDistinct'
    <2>1. \A t \in Caller : caller[t].pc = "loading" => caller[t].ctx \in Ctx \ {c}
      BY <1>1 DEF IInv, TypeOK, NoRun, ContextsDistinct
    <2>2. QED
      BY <1>1, <1>2, <1>4, <2>1 DEF IInv, TypeOK, ContextsDistinct
  <1>6. ReadyImpliesResident'
    BY <1>1, <1>4 DEF IInv, TypeOK, ReadyImpliesResident, None
  <1>7. FallbackOnlyWhileReleasing' /\ ReloadNotForgotten'
    BY <1>2 DEF IInv, FallbackOnlyWhileReleasing, ReloadNotForgotten, Available
  <1>8. QED
    BY <1>3, <1>5, <1>6, <1>7 DEF IInv

\* The steps of checks change neither contexts nor the registered scorer.
LEMMA CheckInvariant ==
  ASSUME IInv, NEW k \in Check, CheckOnModel(k) \/ CheckOnBackend(k) \/ CheckEnds(k)
  PROVE  IInv'
  <1>1. TypeOK'
    BY DEF IInv, TypeOK, CheckOnModel, CheckOnBackend, CheckEnds, objects, module, Idle, None
  <1>2. UNCHANGED <<ctx, engine, held, tier2, registered, loads, tier1Path, needsReload,
                    loadLost, release, caller>>
    BY DEF CheckOnModel, CheckOnBackend, CheckEnds, objects, module
  <1>3. ContextsDistinct' /\ ReadyImpliesResident'
    BY <1>2 DEF IInv, ContextsDistinct, ReadyImpliesResident
  <1>4. FallbackOnlyWhileReleasing' /\ ReloadNotForgotten'
    BY <1>2 DEF IInv, FallbackOnlyWhileReleasing, ReloadNotForgotten, Available
  <1>5. QED
    BY <1>1, <1>3, <1>4 DEF IInv

\* The steps of a Tier-2 run keep the invariant: the context it loads is its
\* own until it becomes its binding's.
LEMMA RunInvariant ==
  ASSUME IInv, NEW t \in Caller,
         \/ RunTier2Loads(t) \/ Tier2Loaded(t) \/ Tier2Unavailable(t)
         \/ RunTier2Resident(t) \/ Tier2Ends(t)
  PROVE  IInv'
  <1>1. UNCHANGED <<engine, held, registered, loads, tier1Path, needsReload, loadLost, release>>
    BY DEF RunTier2Loads, Tier2Loaded, Tier2Unavailable, RunTier2Resident, Tier2Ends, module
  <1>2. FallbackOnlyWhileReleasing' /\ ReloadNotForgotten'
    BY <1>1 DEF IInv, FallbackOnlyWhileReleasing, ReloadNotForgotten, Available
  <1>3. CASE RunTier2Loads(t)
    <2>1. PICK c \in Fresh :
            /\ ctx' = [ctx EXCEPT ![c] = "loading"]
            /\ caller' = [caller EXCEPT ![t] = [pc |-> "loading", binding |-> engine, ctx |-> c,
                                                draft |-> None]]
      BY <1>3 DEF RunTier2Loads
    <2>2. c \in Ctx /\ ctx[c] = "unused" /\ engine \in Ctx /\ caller[t].pc = "idle"
      BY <1>3 DEF Fresh, IInv, TypeOK, RunTier2Loads
    <2>3. tier2' = tier2
      BY <1>3 DEF RunTier2Loads
    <2>4. TypeOK'
      BY <1>3, <2>1, <2>2 DEF IInv, TypeOK, RunTier2Loads, module
    <2>5. \A u \in Caller : caller[u].pc = "loading" => caller[u].ctx \in Ctx \ {c}
      BY <2>2 DEF IInv, TypeOK, NoRun, ContextsDistinct
    <2>6. ContextsDistinct'
      <3>1. \A u \in Caller : u # t => caller'[u] = caller[u]
        BY <2>1 DEF IInv, TypeOK
      <3>2. caller'[t].pc = "loading" /\ caller'[t].ctx = c /\ ctx'[c] = "loading"
        BY <2>1, <2>2 DEF IInv, TypeOK
      <3>3. \A d \in Ctx : d # c => ctx'[d] = ctx[d]
        BY <2>1 DEF IInv, TypeOK
      <3>4. QED
        BY <1>1, <2>2, <2>3, <2>5, <3>1, <3>2, <3>3 DEF IInv, TypeOK, ContextsDistinct
    <2>7. ReadyImpliesResident'
      BY <1>1, <2>1, <2>2, <2>3 DEF IInv, TypeOK, ReadyImpliesResident, None
    <2>8. QED
      BY <1>2, <2>4, <2>6, <2>7 DEF IInv
  <1>4. CASE Tier2Loaded(t)
    <2> DEFINE b == caller[t].binding
               x == caller[t].ctx
    <2>1. b \in Ctx /\ x \in Ctx /\ ctx[x] = "loading" /\ x \notin loads
      BY <1>4 DEF IInv, TypeOK, Tier2Loaded, NoRun, ContextsDistinct
    <2>2. /\ ctx' = [ctx EXCEPT ![x] = "live"]
          /\ tier2' = [tier2 EXCEPT ![b] = x]
          /\ caller' = [caller EXCEPT ![t] = Completing(b, x)]
      BY <1>4 DEF Tier2Loaded
    <2>3. x # None /\ x \notin held /\ \A d \in Ctx : tier2[d] # x
      BY <2>1, NoneIsNoCtx DEF IInv, ReadyImpliesResident
    <2>4. TypeOK'
      BY <1>4, <2>1, <2>2 DEF IInv, TypeOK, Tier2Loaded, module, NoRun, Completing
    <2>5. \A d \in Ctx : d # x => ctx'[d] = ctx[d]
      BY <2>2 DEF IInv, TypeOK
    <2>6. \A u \in Caller : caller'[u].pc = "loading" =>
             u # t /\ caller'[u] = caller[u] /\ caller[u].ctx \in Ctx \ {x}
      <3>1. \A u \in Caller : u # t => caller'[u] = caller[u]
        BY <2>2 DEF IInv, TypeOK
      <3>2. caller'[t].pc = "completing"
        BY <2>2 DEF IInv, TypeOK, NoRun, Completing
      <3>3. caller[t].pc = "loading"
        BY <1>4 DEF Tier2Loaded
      <3>4. QED
        BY <3>1, <3>2, <3>3 DEF IInv, TypeOK, NoRun, ContextsDistinct
    <2>7. ContextsDistinct'
      BY <1>1, <2>1, <2>2, <2>3, <2>5, <2>6 DEF IInv, TypeOK, ContextsDistinct
    <2>8. ReadyImpliesResident'
      BY <1>1, <2>1, <2>2, <2>3, <2>5 DEF IInv, TypeOK, ReadyImpliesResident, None
    <2>9. QED
      BY <1>2, <2>4, <2>7, <2>8 DEF IInv
  <1>5. CASE Tier2Unavailable(t)
    <2> DEFINE x == caller[t].ctx
    <2>1. x \in Ctx /\ ctx[x] = "loading" /\ x \notin loads
      BY <1>5 DEF IInv, TypeOK, Tier2Unavailable, NoRun, ContextsDistinct
    <2>2. /\ ctx' = [ctx EXCEPT ![x] = "gone"]
          /\ caller' = [caller EXCEPT ![t] = NoRun]
          /\ tier2' = tier2
      BY <1>5 DEF Tier2Unavailable
    <2>3. TypeOK'
      BY <1>5, <2>1, <2>2 DEF IInv, TypeOK, Tier2Unavailable, module
    <2>4. \A d \in Ctx : d # x => ctx'[d] = ctx[d]
      BY <2>2 DEF IInv, TypeOK
    <2>5. \A u \in Caller : caller'[u].pc = "loading" =>
             u # t /\ caller'[u] = caller[u] /\ caller[u].ctx \in Ctx \ {x}
      <3>1. \A u \in Caller : u # t => caller'[u] = caller[u]
        BY <2>2 DEF IInv, TypeOK
      <3>2. caller'[t].pc = "idle"
        BY <2>2 DEF IInv, TypeOK, NoRun
      <3>3. caller[t].pc = "loading"
        BY <1>5 DEF Tier2Unavailable
      <3>4. QED
        BY <3>1, <3>2, <3>3 DEF IInv, TypeOK, NoRun, ContextsDistinct
    <2>6. ContextsDistinct'
      BY <1>1, <2>1, <2>2, <2>4, <2>5 DEF IInv, TypeOK, ContextsDistinct
    <2>7. ReadyImpliesResident'
      BY <1>1, <2>1, <2>2, <2>4 DEF IInv, TypeOK, ReadyImpliesResident, None
    <2>8. QED
      BY <1>2, <2>3, <2>6, <2>7 DEF IInv
  <1>6. CASE RunTier2Resident(t) \/ Tier2Ends(t)
    <2>1. UNCHANGED <<ctx, tier2>>
      BY <1>6 DEF RunTier2Resident, Tier2Ends
    <2>2. TypeOK'
      BY <1>6 DEF IInv, TypeOK, RunTier2Resident, Tier2Ends, module, NoRun, Completing
    <2>3. \A u \in Caller : caller'[u].pc = "loading" => caller[u] = caller'[u]
      BY <1>6 DEF IInv, TypeOK, RunTier2Resident, Tier2Ends, NoRun, Completing
    <2>4. ContextsDistinct' /\ ReadyImpliesResident'
      BY <1>1, <2>1, <2>3 DEF IInv, ContextsDistinct, ReadyImpliesResident
    <2>5. QED
      BY <1>2, <2>2, <2>4 DEF IInv
  <1>7. QED
    BY <1>3, <1>4, <1>5, <1>6

\* Every step keeps the invariant.
LEMMA StepInvariant == IInv /\ [Next]_vars => IInv'
  <1>1. SUFFICES ASSUME IInv, [Next]_vars PROVE IInv'
    OBVIOUS
  <1>2. ASSUME NEW c \in Ctx, BringUpSucceeds(c) \/ BringUpFails(c) \/ NativeReleased(c)
        PROVE  IInv'
    BY <1>1, <1>2, BringUpInvariant, NativeReleasedInvariant
  <1>3. ASSUME NEW t \in Caller,
               \/ RunTier2Loads(t) \/ Tier2Loaded(t) \/ Tier2Unavailable(t)
               \/ RunTier2Resident(t) \/ Tier2Ends(t)
        PROVE  IInv'
    BY <1>1, <1>3, RunInvariant
  <1>4. ASSUME NEW k \in Check, CheckOnModel(k) \/ CheckOnBackend(k) \/ CheckEnds(k)
        PROVE  IInv'
    BY <1>1, <1>4, CheckInvariant
  <1>5. ASSUME NEW w \in Signal, MemoryWarning(w)
        PROVE  IInv'
    BY <1>1, <1>5, WarningInvariant
  <1>6. CASE StartupFindsModel
    <2>1. PICK c \in Fresh : BringUp(c)
      BY <1>6 DEF StartupFindsModel
    <2>2. QED
      BY <1>1, <1>6, <2>1, AskInvariant DEF StartupFindsModel, IInv, TypeOK
  <1>7. CASE Foreground
    <2>1. CASE wired /\ needsReload /\ tier1Path
      <3>1. PICK c \in Fresh : BringUp(c)
        BY <1>7, <2>1 DEF Foreground
      <3>2. QED
        BY <1>1, <1>7, <2>1, <3>1, AskInvariant DEF Foreground, IInv, TypeOK
    <2>2. CASE ~(wired /\ needsReload /\ tier1Path)
      BY <1>1, <1>7, <2>2 DEF Foreground, IInv, TypeOK, ContextsDistinct, ReadyImpliesResident,
                              FallbackOnlyWhileReleasing, ReloadNotForgotten, Available
    <2>3. QED
      BY <2>1, <2>2
  <1>8. CASE Background
    <2>1. CASE wired /\ ReleasesTier2(engine)
      BY <1>1, <1>8, <2>1, ReleaseTier2Invariant DEF Background
    <2>2. CASE ~(wired /\ ReleasesTier2(engine))
      BY <1>1, <1>8, <2>2 DEF Background, IInv, TypeOK, ContextsDistinct, ReadyImpliesResident,
                              FallbackOnlyWhileReleasing, ReloadNotForgotten, Available
    <2>3. QED
      BY <2>1, <2>2
  <1>9. CASE StartupFindsNoModel
    BY <1>1, <1>9 DEF StartupFindsNoModel, objects, IInv, TypeOK, ContextsDistinct,
                      ReadyImpliesResident, FallbackOnlyWhileReleasing, ReloadNotForgotten,
                      Available
  <1>10. CASE UNCHANGED vars
    BY <1>1, <1>10 DEF vars, objects, module, IInv, TypeOK, ContextsDistinct,
                       ReadyImpliesResident, FallbackOnlyWhileReleasing, ReloadNotForgotten,
                       Available
  <1>11. QED
    BY <1>1, <1>2, <1>3, <1>4, <1>5, <1>6, <1>7, <1>8, <1>9, <1>10 DEF Next, Native

-----------------------------------------------------------------------------
\* The lifecycle keeps its inductive invariant, whatever the interleaving of
\* warnings, app-state changes, loads, checks and Tier-2 runs.
THEOREM Invariance == Spec => []IInv
  BY InitInvariant, StepInvariant, PTL DEF Spec

\* Every variable stays in its type, and a check and a release keep the record
\* of what they wait for (registerNativeLlama.ts:253-263).
THEOREM TypeCorrect == Spec => []TypeOK
  <1>1. IInv => TypeOK
    BY DEF IInv
  <1>2. QED
    BY Invariance, <1>1, PTL

\* The one window in which a transcript can leave the phone is a memory
\* warning's wait for the release of the registered scorer's own context.
THEOREM FallbackWindow == Spec => []FallbackOnlyWhileReleasing
  <1>1. IInv => FallbackOnlyWhileReleasing
    BY DEF IInv
  <1>2. QED
    BY Invariance, <1>1, PTL

\* An engine that is ready, and a Tier-2 context that a binding names, were
\* not handed to a release.
THEOREM ReadyMeansResident == Spec => []ReadyImpliesResident
  <1>1. IInv => ReadyImpliesResident
    BY DEF IInv
  <1>2. QED
    BY Invariance, <1>1, PTL

\* An unloaded model whose weights are known is due for a reload, unless its
\* last load failed.
THEOREM ReloadKept == Spec => []ReloadNotForgotten
  <1>1. IInv => ReloadNotForgotten
    BY DEF IInv
  <1>2. QED
    BY Invariance, <1>1, PTL

\* No step replaces a ready scorer by one that is not: an old release that
\* ends late leaves the newer engine's scorer registered.
THEOREM ReadyScorerIsKept == Spec => ReadyScorerKept
  <1>1. [Next]_vars => [(registered \in held) => registered' \in held' \/ registered' = registered]_vars
    <2>1. SUFFICES ASSUME Next, registered \in held
                   PROVE  registered' \in held' \/ registered' = registered
      OBVIOUS
    <2>2. ASSUME NEW c \in Ctx, BringUpSucceeds(c)
          PROVE  registered' \in held'
      BY <2>2 DEF BringUpSucceeds
    <2>3. ASSUME NEW w \in Signal, Finish(w)
          PROVE  registered' = registered
      BY <2>1, <2>3 DEF Finish, EnsuredScorer, Available
    <2>4. ASSUME NEW w \in Signal, NEW after, ReleaseEngine(w, after)
          PROVE  registered' = registered
      BY <2>3, <2>4 DEF ReleaseEngine
    <2>5. ASSUME NEW c \in Ctx, NativeReleased(c)
          PROVE  registered' = registered
      BY <2>3, <2>4, <2>5 DEF NativeReleased
    <2>6. ASSUME NEW w \in Signal, MemoryWarning(w)
          PROVE  registered' = registered
      BY <2>4, <2>6 DEF MemoryWarning
    <2>7. ASSUME \/ \E c \in Ctx : BringUpFails(c)
                 \/ \E t \in Caller : \/ Tier2Loaded(t) \/ Tier2Unavailable(t) \/ Tier2Ends(t)
                                      \/ RunTier2Loads(t) \/ RunTier2Resident(t)
                 \/ \E k \in Check : CheckEnds(k) \/ CheckOnModel(k) \/ CheckOnBackend(k)
                 \/ StartupFindsNoModel \/ StartupFindsModel \/ Background \/ Foreground
          PROVE  registered' = registered
      BY <2>7 DEF BringUpFails, Tier2Loaded, Tier2Unavailable, Tier2Ends, RunTier2Loads,
                  RunTier2Resident, CheckEnds, CheckOnModel, CheckOnBackend, objects,
                  StartupFindsNoModel, StartupFindsModel, Background, Foreground
    <2>8. QED
      BY <2>1, <2>2, <2>5, <2>6, <2>7 DEF Next, Native
  <1>2. QED
    BY <1>1, PTL DEF Spec, ReadyScorerKept

-----------------------------------------------------------------------------
\* A Tier-2 run under way has marked its binding busy, the binding still names
\* the run's context, and the run drafts with the binding's Tier-1 context.
RunHoldsBinding ==
    \A t \in Caller : caller[t].pc = "completing" =>
        /\ caller[t].binding \in tier2Busy
        /\ tier2[caller[t].binding] = caller[t].ctx
        /\ caller[t].draft = caller[t].binding

\* The steps that touch a binding's Tier-2 fields keep a lone run's hold on it.
LEMMA HoldPreserved ==
  ASSUME \A t, u \in Caller : t = u
  PROVE  IInv /\ RunHoldsBinding /\ [Next]_vars => RunHoldsBinding'
  <1>1. SUFFICES ASSUME IInv, RunHoldsBinding, [Next]_vars PROVE RunHoldsBinding'
    OBVIOUS
  <1>2. ASSUME NEW t \in Caller, RunTier2Loads(t) \/ Tier2Unavailable(t) \/ Tier2Ends(t)
        PROVE  RunHoldsBinding'
    <2>1. caller'[t].pc # "completing"
      BY <1>1, <1>2 DEF RunTier2Loads, Tier2Unavailable, Tier2Ends, NoRun, IInv, TypeOK
    <2>2. QED
      BY <2>1 DEF RunHoldsBinding
  <1>3. ASSUME NEW t \in Caller, Tier2Loaded(t)
        PROVE  RunHoldsBinding'
    <2>1. caller[t].binding \in Ctx
      BY <1>1, <1>3 DEF Tier2Loaded, IInv, TypeOK, NoRun, Completing
    <2>2. /\ caller'[t].binding = caller[t].binding /\ caller'[t].ctx = caller[t].ctx
          /\ caller'[t].draft = caller'[t].binding
      BY <1>1, <1>3 DEF Tier2Loaded, IInv, TypeOK, NoRun, Completing
    <2>3. caller'[t].binding \in tier2Busy' /\ tier2'[caller'[t].binding] = caller'[t].ctx
      BY <1>1, <1>3, <2>1, <2>2 DEF Tier2Loaded, IInv, TypeOK, NoRun
    <2>4. QED
      BY <2>2, <2>3 DEF RunHoldsBinding
  <1>4. ASSUME NEW t \in Caller, RunTier2Resident(t)
        PROVE  RunHoldsBinding'
    <2>1. /\ caller'[t] = Completing(engine, tier2[engine])
          /\ tier2Busy' = tier2Busy \cup {engine} /\ tier2' = tier2
      BY <1>1, <1>4 DEF RunTier2Resident, IInv, TypeOK
    <2>2. QED
      BY <2>1 DEF RunHoldsBinding, Completing
  <1>5. ASSUME ReleasesTier2(engine), tier2' = [tier2 EXCEPT ![engine] = None],
               UNCHANGED <<tier2Busy, caller>>
        PROVE  RunHoldsBinding'
    BY <1>1, <1>5 DEF ReleasesTier2, RunHoldsBinding, IInv, TypeOK, NoRun
  <1>6. ASSUME UNCHANGED <<tier2, tier2Busy, caller>>
        PROVE  RunHoldsBinding'
    BY <1>1, <1>6 DEF RunHoldsBinding
  <1>7. ASSUME NEW w \in Signal, MemoryWarning(w)
        PROVE  RunHoldsBinding'
    BY <1>5, <1>6, <1>7 DEF MemoryWarning
  <1>8. CASE Background
    BY <1>5, <1>6, <1>8 DEF Background
  <1>9. ASSUME \/ UNCHANGED vars \/ StartupFindsNoModel \/ StartupFindsModel \/ Foreground
               \/ \E c \in Ctx : BringUpSucceeds(c) \/ BringUpFails(c) \/ NativeReleased(c)
               \/ \E k \in Check : CheckEnds(k) \/ CheckOnModel(k) \/ CheckOnBackend(k)
        PROVE  RunHoldsBinding'
    <2>1. UNCHANGED <<tier2, tier2Busy, caller>>
      BY <1>9 DEF vars, objects, StartupFindsNoModel, StartupFindsModel, Foreground,
                  BringUpSucceeds, BringUpFails, NativeReleased, CheckEnds, CheckOnModel,
                  CheckOnBackend
    <2>2. QED
      BY <2>1, <1>6
  <1>10. QED
    BY <1>1, <1>2, <1>3, <1>4, <1>7, <1>8, <1>9 DEF Next, Native

\* The engine that the module names is ready, or a memory warning waits for the
\* release of its context.
EngineHeldOrTaken == engine # None => engine \in held \/ WarningTakes(engine)

\* What releaseAllForMemory does to the engine it finds.
LEMMA ReleaseKeepsEngineNamed ==
  ASSUME IInv, EngineHeldOrTaken, NEW w \in Signal, NEW after,
         release[w].pc # "tier1", ReleaseEngine(w, after)
  PROVE  EngineHeldOrTaken'
  <1>1. CASE engine \in held
    BY <1>1 DEF ReleaseEngine, EngineHeldOrTaken, IInv, TypeOK
  <1>2. CASE engine \notin held
    BY <1>2 DEF ReleaseEngine, Finish, EngineHeldOrTaken
  <1>3. QED
    BY <1>1, <1>2

\* No step leaves the module naming an engine that is neither.
LEMMA EngineNamedPreserved == IInv /\ EngineHeldOrTaken /\ [Next]_vars => EngineHeldOrTaken'
  <1>1. SUFFICES ASSUME IInv, EngineHeldOrTaken, [Next]_vars PROVE EngineHeldOrTaken'
    OBVIOUS
  <1>2. ASSUME NEW c \in Ctx, BringUpSucceeds(c) \/ BringUpFails(c)
        PROVE  EngineHeldOrTaken'
    BY <1>2 DEF BringUpSucceeds, BringUpFails, EngineHeldOrTaken
  <1>3. ASSUME NEW w \in Signal, MemoryWarning(w)
        PROVE  EngineHeldOrTaken'
    <2>1. CASE ReleasesTier2(engine)
      BY <1>1, <1>3, <2>1 DEF MemoryWarning, EngineHeldOrTaken, IInv, TypeOK
    <2>2. CASE ~ReleasesTier2(engine)
      BY <1>1, <1>3, <2>2, ReleaseKeepsEngineNamed DEF MemoryWarning
    <2>3. QED
      BY <2>1, <2>2
  <1>4. ASSUME NEW c \in Ctx, NativeReleased(c)
        PROVE  EngineHeldOrTaken'
    <2>1. ASSUME NEW w \in Signal, NEW after, release[w] = [pc |-> "tier2", ctx |-> c],
                 ReleaseEngine(w, after)
          PROVE  EngineHeldOrTaken'
      BY <1>1, <2>1, ReleaseKeepsEngineNamed
    <2>2. ASSUME NEW w \in Signal, Finish(w)
          PROVE  EngineHeldOrTaken'
      BY <2>2 DEF Finish, EngineHeldOrTaken
    <2>3. CASE UNCHANGED <<engine, held, release>>
      BY <1>1, <2>3 DEF EngineHeldOrTaken
    <2>4. QED
      BY <1>4, <2>1, <2>2, <2>3 DEF NativeReleased
  <1>5. ASSUME \/ UNCHANGED vars \/ StartupFindsNoModel \/ StartupFindsModel
               \/ Background \/ Foreground
               \/ \E t \in Caller : \/ Tier2Loaded(t) \/ Tier2Unavailable(t) \/ Tier2Ends(t)
                                    \/ RunTier2Loads(t) \/ RunTier2Resident(t)
               \/ \E k \in Check : CheckEnds(k) \/ CheckOnModel(k) \/ CheckOnBackend(k)
        PROVE  EngineHeldOrTaken'
    <2>1. UNCHANGED <<engine, held, release>>
      BY <1>5 DEF vars, objects, StartupFindsNoModel, StartupFindsModel, Background, Foreground,
                  Tier2Loaded, Tier2Unavailable, Tier2Ends, RunTier2Loads, RunTier2Resident,
                  CheckEnds, CheckOnModel, CheckOnBackend
    <2>2. QED
      BY <1>1, <2>1 DEF EngineHeldOrTaken
  <1>6. QED
    BY <1>1, <1>2, <1>3, <1>4, <1>5 DEF Next, Native

\* With at most one Tier-2 caller, no app-state change and no memory warning
\* takes the Tier-2 context from under its run, however many contexts, checks
\* and overlapping warnings there are; and the Tier-1 context it drafts with is
\* resident until a warning takes it.
THEOREM LoneRunKeepsContext ==
  ASSUME \A t, u \in Caller : t = u
  PROVE  Spec => []Tier2RunKeepsContext
  <1>1. Init => RunHoldsBinding /\ EngineHeldOrTaken
    BY DEF Init, RunHoldsBinding, EngineHeldOrTaken, NoRun
  <1>2. /\ IInv /\ RunHoldsBinding /\ [Next]_vars => RunHoldsBinding'
        /\ IInv /\ EngineHeldOrTaken /\ [Next]_vars => EngineHeldOrTaken'
    BY HoldPreserved, EngineNamedPreserved
  <1>3. IInv /\ RunHoldsBinding /\ EngineHeldOrTaken => Tier2RunKeepsContext
    <2>1. SUFFICES ASSUME IInv, RunHoldsBinding, EngineHeldOrTaken,
                          NEW t \in Caller, caller[t].pc = "completing"
                   PROVE  /\ ctx[caller[t].ctx] = "live"
                          /\ caller[t].draft = engine /\ ~WarningTakes(engine)
                                => ctx[caller[t].draft] = "live"
      BY DEF Tier2RunKeepsContext
    <2>2. caller[t] \in [pc : {"loading", "completing"}, binding : Ctx, ctx : Ctx,
                         draft : Ctx \cup {None}]
      BY <2>1 DEF IInv, TypeOK, NoRun
    <2>3. ctx[caller[t].ctx] = "live"
      BY <2>1, <2>2, NoneIsNoCtx DEF IInv, RunHoldsBinding, ReadyImpliesResident
    <2>4. engine # None /\ ~WarningTakes(engine) => ctx[engine] = "live"
      BY <2>1 DEF IInv, EngineHeldOrTaken, ReadyImpliesResident
    <2>5. caller[t].draft # None
      BY <2>1, <2>2, NoneIsNoCtx DEF RunHoldsBinding
    <2>6. QED
      BY <2>3, <2>4, <2>5
  <1>4. QED
    BY Invariance, <1>1, <1>2, <1>3, PTL DEF Spec

-----------------------------------------------------------------------------
\* The staging of the model file.

PcState == {"down", "stat", "sum", "space", "begin", "copy", "rename", "up"}

\* The types of the variables; the disk is never overfilled.
ProvisionTypeOK ==
    /\ override \in File /\ external \in File /\ internal \in File /\ part \in File
    /\ pinned \in BOOLEAN /\ room \in Nat /\ raced \in BOOLEAN
    /\ pc \in PcState
    /\ expected \in Nat
    /\ handed \in {"none", "override", "internal", "external"}
    /\ pushes \in Nat /\ faults \in Nat /\ misread \in BOOLEAN
    /\ internal.len + part.len <= room

UnderWay == pc \in {"stat", "sum", "space", "begin", "copy", "rename"}

\* A path is handed over at the end of a run only.
HandedWhenUp == handed # "none" => pc = "up"

\* A run that stages met no usable internal file or could not read it, and has
\* deleted what was there when it comes to rename the sidecar.
StagesForNeed == UnderWay /\ Usable(internal) => misread /\ pc # "rename"

\* What a run copies is at least as long as the floor.
ExpectsModel == pc \in {"sum", "space", "begin", "copy", "rename"} => expected >= Floor

\* A file that is handed over from internal storage was found usable.
HandedUsable == handed = "internal" => Usable(internal)

\* As long as no run met a push in progress: a run has the whole external file,
\* what it has copied of it is right, and internal storage is empty or whole.
CleanWhileNotRaced ==
    ~raced =>
        /\ pc # "down" => Whole(external)
        /\ pc \in {"copy", "rename"} => part.ok
        /\ pc = "rename" => part.len >= Full
        /\ internal = NoFile \/ Whole(internal)

\* What a step may do to a usable internal file.
KeptOrCopied == Usable(internal) /\ internal' # internal => misread /\ (raced \/ Whole(part))

ProvisionInv ==
    /\ ProvisionTypeOK /\ HandedWhenUp /\ StagesForNeed /\ ExpectsModel /\ HandedUsable
    /\ CleanWhileNotRaced

\* The empty file is no model.
LEMMA NoFileFacts == NoFile \in File /\ NoFile.len = 0 /\ NoFile.ok /\ ~SizeOk(NoFile)
BY ProvisioningAssumption DEF NoFile, File, SizeOk

\* The fields of a file.
LEMMA FileFacts ==
    ASSUME NEW f \in File
    PROVE  f.len \in 0..Full /\ f.len \in Nat /\ f.ok \in BOOLEAN
BY ProvisioningAssumption DEF File

\* Faults are counted.
LEMMA FaultFacts == ASSUME ProvisionInv, Fault PROVE faults' \in Nat
BY DEF Fault, ProvisionInv, ProvisionTypeOK

\* At first nothing is staged and no run is under way.
LEMMA ProvisionStarts == ProvisionInit => ProvisionInv
<1> SUFFICES ASSUME ProvisionInit PROVE ProvisionInv
  OBVIOUS
<1>1. override \in File
  <2>1. Full \in 0..Full
    BY ProvisioningAssumption
  <2>2. [len |-> Full, ok |-> TRUE] \in File /\ [len |-> Full, ok |-> FALSE] \in File
    BY <2>1 DEF File
  <2> QED
    BY <2>2, NoFileFacts DEF ProvisionInit
<1>2. room \in Nat /\ internal.len + part.len <= room
  BY NoFileFacts, ProvisioningAssumption DEF ProvisionInit
<1>3. ProvisionTypeOK
  BY <1>1, <1>2, NoFileFacts DEF ProvisionInit, ProvisionTypeOK, PcState
<1> QED
  BY <1>3 DEF ProvisionInit, ProvisionInv, HandedWhenUp, StagesForNeed, UnderWay, ExpectsModel, HandedUsable,
              CleanWhileNotRaced

-----------------------------------------------------------------------------
\* The developer's push writes the external file only, and a run that it meets
\* counts as raced.
LEMMA PushStep ==
    ASSUME ProvisionInv, PushStarts \/ PushChunk
    PROVE  ProvisionInv' /\ UNCHANGED internal
<1>1. UNCHANGED <<override, internal, part, pinned, room, pc, expected, handed, faults, misread>>
  BY DEF PushStarts, PushChunk, fixed
<1>2. external' \in File /\ pushes' \in Nat /\ raced' \in BOOLEAN
  <2>1. CASE PushStarts
    BY <2>1, ProvisioningAssumption DEF PushStarts, ProvisionInv, ProvisionTypeOK, File
  <2>2. CASE PushChunk
    <3>1. external.len + 1 \in 0..Full
      BY <2>2, FileFacts, ProvisioningAssumption DEF PushChunk, ProvisionInv, ProvisionTypeOK
    <3>2. external' \in File
      BY <2>2, <3>1 DEF PushChunk, ProvisionInv, ProvisionTypeOK, File
    <3> QED
      BY <2>2, <3>2 DEF PushChunk, ProvisionInv, ProvisionTypeOK
  <2> QED
    BY <2>1, <2>2
<1>3. raced' \/ (pc = "down" /\ ~raced)
  <2>1. CASE PushStarts
    BY <2>1 DEF PushStarts, ProvisionInv, ProvisionTypeOK
  <2>2. CASE PushChunk
    <3>1. ~Whole(external) /\ raced' = raced
      BY <2>2, ProvisioningAssumption DEF PushChunk, Whole
    <3> QED
      BY <3>1 DEF ProvisionInv, ProvisionTypeOK, CleanWhileNotRaced
  <2> QED
    BY <2>1, <2>2
<1>4. ProvisionTypeOK'
  BY <1>1, <1>2 DEF ProvisionInv, ProvisionTypeOK
<1>5. CleanWhileNotRaced'
  BY <1>1, <1>3 DEF ProvisionInv, CleanWhileNotRaced, Whole
<1> QED
  BY <1>1, <1>4, <1>5 DEF ProvisionInv, HandedWhenUp, StagesForNeed, UnderWay, ExpectsModel, HandedUsable,
                          Usable, SizeOk, ChecksumOk, Whole

\* A launch notes when the external file is not whole.
LEMMA LaunchStep ==
    ASSUME ProvisionInv, Launch
    PROVE  ProvisionInv' /\ UNCHANGED internal
<1>1. UNCHANGED <<override, external, internal, part, pinned, room, pushes>>
  BY DEF Launch, files, fixed
<1>2. /\ raced' = (raced \/ ~Whole(external)) /\ pc = "down"
      /\ misread' \in BOOLEAN /\ faults' \in Nat
  BY FaultFacts DEF Launch, ProvisionInv, ProvisionTypeOK
<1>3. \/ pc' = "up" /\ handed' = "override" /\ expected' = 0
      \/ pc' = "up" /\ handed' = "internal" /\ expected' = 0 /\ Usable(internal)
      \/ /\ pc' = "stat" /\ handed' = handed /\ expected' = expected
         /\ Usable(internal) => misread'
  BY DEF Launch, Hand, Goto, InternalFirst, Passes
<1>4. ProvisionTypeOK'
  BY <1>1, <1>2, <1>3 DEF ProvisionInv, ProvisionTypeOK, PcState
<1>5. HandedWhenUp' /\ ExpectsModel'
  BY <1>2, <1>3 DEF ProvisionInv, HandedWhenUp, ExpectsModel
<1>6. StagesForNeed' /\ HandedUsable'
  BY <1>1, <1>2, <1>3 DEF ProvisionInv, HandedWhenUp, StagesForNeed, UnderWay, HandedUsable, Usable, SizeOk,
                          ChecksumOk, Whole
<1>7. CleanWhileNotRaced'
  BY <1>1, <1>2, <1>3 DEF ProvisionInv, CleanWhileNotRaced, Whole
<1> QED
  BY <1>1, <1>4, <1>5, <1>6, <1>7 DEF ProvisionInv

\* Looking at the external file and at the free space, the failure of a copy and
\* the end of a run change no file; a run goes on, or hands over another path
\* than the internal one, or is over.
LEMMA LookStep ==
    ASSUME ProvisionInv,
           StatExternal \/ SumExternal \/ ExternalUnread \/ SpacePreCheck \/ DiskFull
             \/ CopyFails \/ Exit \/ Killed
    PROVE  ProvisionInv' /\ UNCHANGED internal
<1>1. UNCHANGED <<override, external, internal, part, pinned, room, pushes, raced,
                misread>>
  BY DEF StatExternal, SumExternal, ExternalUnread, SpacePreCheck, DiskFull, CopyFails, Exit, Killed, files, fixed
<1>2. faults' \in Nat
  BY FaultFacts DEF StatExternal, SumExternal, ExternalUnread, SpacePreCheck, DiskFull, CopyFails, Exit,
                    Killed, ProvisionInv, ProvisionTypeOK
<1>3. external.len \in Nat
  BY FileFacts DEF ProvisionInv, ProvisionTypeOK
<1>4. pc # "down"
  BY DEF StatExternal, SumExternal, ExternalUnread, SpacePreCheck, DiskFull, CopyFails, Exit, Killed
<1>5. \/ /\ pc' \in {"sum", "space", "begin"} /\ pc \in {"stat", "sum", "space"}
         /\ handed' = handed
         /\ expected' \in Nat /\ expected' >= Floor
      \/ /\ pc' = "up" /\ handed' \in {"none", "external"} /\ expected' = 0
      \/ /\ pc' = "down" /\ handed' = "none" /\ expected' = 0
  <2>1. CASE StatExternal
    BY <2>1, <1>3 DEF StatExternal, SizeOk, Hand
  <2>2. CASE SumExternal \/ SpacePreCheck
    BY <2>2 DEF SumExternal, SpacePreCheck, Goto, Hand, ProvisionInv, ProvisionTypeOK, ExpectsModel
  <2>3. CASE ExternalUnread \/ DiskFull \/ CopyFails \/ Exit \/ Killed
    BY <2>3 DEF ExternalUnread, DiskFull, CopyFails, Exit, Killed, Hand, Down
  <2> QED
    BY <2>1, <2>2, <2>3
<1>6. ProvisionTypeOK'
  BY <1>1, <1>2, <1>5 DEF ProvisionInv, ProvisionTypeOK, PcState
<1>7. HandedWhenUp' /\ ExpectsModel'
  BY <1>5 DEF ProvisionInv, HandedWhenUp, ExpectsModel
<1>8. StagesForNeed' /\ HandedUsable'
  BY <1>1, <1>5 DEF ProvisionInv, HandedWhenUp, StagesForNeed, UnderWay, HandedUsable, Usable, SizeOk,
                    ChecksumOk, Whole
<1>9. CleanWhileNotRaced'
  BY <1>1, <1>4, <1>5 DEF ProvisionInv, CleanWhileNotRaced, Whole
<1> QED
  BY <1>1, <1>6, <1>7, <1>8, <1>9 DEF ProvisionInv

-----------------------------------------------------------------------------
\* The sidecar is emptied, then filled with what is in the external file.
LEMMA CopyStep ==
    ASSUME ProvisionInv, CopyBegins \/ CopyChunk
    PROVE  ProvisionInv' /\ UNCHANGED internal
<1>1. /\ UNCHANGED <<override, external, internal, pinned, room, expected, handed, pushes, faults,
                     raced, misread>>
      /\ pc \in {"begin", "copy"} /\ pc' = "copy"
  BY DEF CopyBegins, CopyChunk, Goto, InternalMeanwhile, fixed
<1>2. /\ internal.len \in Nat /\ part.len \in 0..Full /\ external.len \in 0..Full
      /\ part.ok \in BOOLEAN /\ external.ok \in BOOLEAN /\ room \in Nat /\ Full \in Nat
  BY FileFacts, ProvisioningAssumption DEF ProvisionInv, ProvisionTypeOK
<1>3. /\ part' \in File /\ internal.len + part'.len <= room
      /\ (pc = "copy" => part.ok) /\ external.ok => part'.ok
  <2>1. CASE CopyBegins
    BY <2>1, <1>2, NoFileFacts DEF CopyBegins, ProvisionInv, ProvisionTypeOK
  <2>2. CASE CopyChunk
    <3>1. part' = [len |-> part.len + 1, ok |-> part.ok /\ external.ok] /\ pc = "copy"
      BY <2>2 DEF CopyChunk
    <3>2. part.len + 1 \in 0..Full /\ internal.len + (part.len + 1) <= room
      BY <2>2, <1>2 DEF CopyChunk, Free
    <3> QED
      BY <3>1, <3>2, <1>2 DEF File
  <2> QED
    BY <2>1, <2>2
<1>4. ProvisionTypeOK'
  BY <1>1, <1>3 DEF ProvisionInv, ProvisionTypeOK, PcState
<1>5. HandedWhenUp' /\ ExpectsModel'
  BY <1>1 DEF ProvisionInv, HandedWhenUp, ExpectsModel
<1>6. StagesForNeed' /\ HandedUsable'
  BY <1>1 DEF ProvisionInv, StagesForNeed, UnderWay, HandedUsable, Usable, SizeOk, ChecksumOk, Whole
<1>7. CleanWhileNotRaced'
  BY <1>1, <1>3 DEF ProvisionInv, CleanWhileNotRaced, Whole
<1> QED
  BY <1>1, <1>4, <1>5, <1>6, <1>7 DEF ProvisionInv

\* A usable internal file was not read by this run, and it is deleted only for a
\* sidecar that is as long as the external file.
LEMMA CopyEndsStep ==
    ASSUME ProvisionInv, CopyEnds
    PROVE  ProvisionInv' /\ KeptOrCopied
<1>1. /\ UNCHANGED <<override, external, part, pinned, room, expected, handed, pushes, faults, raced,
                     misread>>
      /\ pc = "copy" /\ pc' = "rename" /\ internal' = NoFile
      /\ part.len >= external.len
  BY DEF CopyEnds, Goto, fixed
<1>2. internal.len \in Nat /\ part.len \in Nat /\ external.len \in Nat /\ room \in Nat
  BY FileFacts DEF ProvisionInv, ProvisionTypeOK
<1>3. ProvisionTypeOK'
  BY <1>1, <1>2, NoFileFacts DEF ProvisionInv, ProvisionTypeOK, PcState
<1>4. HandedWhenUp' /\ ExpectsModel' /\ handed = "none"
  BY <1>1 DEF ProvisionInv, HandedWhenUp, ExpectsModel
<1>5. StagesForNeed' /\ HandedUsable'
  BY <1>1, <1>4, NoFileFacts DEF StagesForNeed, HandedUsable, Usable, SizeOk
<1>6. CleanWhileNotRaced'
  BY <1>1 DEF ProvisionInv, CleanWhileNotRaced, Whole
<1>7. KeptOrCopied
  <2>1. Usable(internal) => misread
    BY <1>1 DEF ProvisionInv, StagesForNeed, UnderWay
  <2>2. part.len \in 0..Full /\ Full \in Nat
    BY FileFacts, ProvisioningAssumption DEF ProvisionInv, ProvisionTypeOK
  <2>3. ~raced => Whole(part)
    BY <1>1, <1>2, <2>2 DEF ProvisionInv, CleanWhileNotRaced, Whole
  <2> QED
    BY <2>1, <2>3 DEF KeptOrCopied
<1> QED
  BY <1>1, <1>3, <1>4, <1>5, <1>6, <1>7 DEF ProvisionInv

\* The sidecar takes the place of the internal file that is gone, or is dropped.
LEMMA RenameStep ==
    ASSUME ProvisionInv, Rename \/ CopyUnread \/ RenameFails
    PROVE  ProvisionInv' /\ ~Usable(internal)
<1>1. /\ UNCHANGED <<override, external, pinned, room, pushes, raced, misread>>
      /\ pc = "rename" /\ pc' = "up" /\ part' = NoFile /\ expected' = 0
      /\ faults' \in Nat
  BY FaultFacts DEF Rename, CopyUnread, RenameFails, Hand, fixed, ProvisionInv, ProvisionTypeOK
<1>2. internal.len \in Nat /\ part.len \in 0..Full /\ room \in Nat /\ Full \in Nat /\ part.len \in Nat
  BY FileFacts, ProvisioningAssumption DEF ProvisionInv, ProvisionTypeOK
<1>3. \/ /\ internal' = part
         /\ handed' \in {"internal", "external"}
         /\ handed' = "internal" => part.len = expected /\ ChecksumOk(part)
      \/ internal' = internal /\ handed' = "external"
  BY DEF Rename, CopyUnread, RenameFails, Hand
<1>4. ProvisionTypeOK'
  BY <1>1, <1>2, <1>3, NoFileFacts DEF ProvisionInv, ProvisionTypeOK, PcState
<1>5. HandedWhenUp' /\ ExpectsModel' /\ StagesForNeed'
  BY <1>1 DEF HandedWhenUp, ExpectsModel, StagesForNeed, UnderWay
<1>6. HandedUsable'
  BY <1>1, <1>3 DEF ProvisionInv, HandedUsable, ExpectsModel, Usable, SizeOk, ChecksumOk, Whole
<1>7. CleanWhileNotRaced'
  BY <1>1, <1>2, <1>3 DEF ProvisionInv, CleanWhileNotRaced, Whole
<1> QED
  BY <1>1, <1>4, <1>5, <1>6, <1>7 DEF ProvisionInv, StagesForNeed, UnderWay

\* What every step does: the invariant is kept, and a usable internal file is,
\* unless the run could not read it and has copied another.
LEMMA NextStep ==
    ASSUME ProvisionInv, [ProvisionNext]_provisionVars
    PROVE  ProvisionInv' /\ KeptOrCopied
<1>1. CASE UNCHANGED provisionVars
  BY <1>1 DEF provisionVars, files, fixed, ProvisionInv, ProvisionTypeOK, HandedWhenUp, StagesForNeed, UnderWay, ExpectsModel,
              HandedUsable, CleanWhileNotRaced, Usable, SizeOk, ChecksumOk, Whole, KeptOrCopied
<1>2. UNCHANGED internal \/ ~Usable(internal) => KeptOrCopied
  BY DEF KeptOrCopied
<1> QED
  BY <1>1, <1>2, PushStep, LaunchStep, LookStep, CopyStep, CopyEndsStep, RenameStep
     DEF ProvisionNext, Staging

-----------------------------------------------------------------------------
\* The inductive invariant holds in every reachable state.
THEOREM ProvisionInvariance == ProvisionSpec => []ProvisionInv
<1>1. ProvisionInv /\ [ProvisionNext]_provisionVars => ProvisionInv'
  BY NextStep
<1> QED
  BY ProvisionStarts, <1>1, PTL DEF ProvisionSpec

\* With a pinned checksum, what is loaded from internal storage is the model,
\* whatever is pushed and whenever the app is killed (modelProvisioning.ts:200-234).
THEOREM PinnedLoadIsModel == ProvisionSpec => []PinnedModelOnly
<1>1. ProvisionInv => PinnedModelOnly
  BY DEF ProvisionInv, HandedUsable, PinnedModelOnly, Usable, ChecksumOk
<1> QED
  BY ProvisionInvariance, <1>1, PTL

\* Also with no pin, kills alone never make a truncated file loadable: it takes
\* a run during a push (TrustTraceModelFsModule.kt:100-136).
THEOREM KillsAreHarmless == ProvisionSpec => []KilledCopyHarmless
<1>1. ProvisionInv => KilledCopyHarmless
  BY NoFileFacts DEF ProvisionInv, HandedUsable, CleanWhileNotRaced, KilledCopyHarmless, Usable
<1> QED
  BY ProvisionInvariance, <1>1, PTL

\* No step touches an internal file that is usable, unless the run could not read
\* it, and then not before the copy is whole (modelProvisioning.ts:28-31, 116-119).
THEOREM StagedModelIsKept == ProvisionSpec => UsableModelKept
<1>1. ProvisionInv /\ [ProvisionNext]_provisionVars => [KeptOrCopied]_provisionVars
  BY NextStep
<1>2. ProvisionSpec => [][KeptOrCopied]_provisionVars
  BY ProvisionInvariance, <1>1, PTL DEF ProvisionSpec
<1> QED
  BY <1>2 DEF UsableModelKept, KeptOrCopied

=============================================================================
