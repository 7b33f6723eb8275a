---------------------------- MODULE Explanation ----------------------------
(***************************************************************************)
(* "Explain more" on the server: the handler of backend/api/routes.py, the *)
(* providers of backend/llm_client.py, and the models that they share with *)
(* the cascade through detection/conversation/llm_runtime.py.              *)
(*                                                                         *)
(* The handler is a coroutine: it gives the event loop away only while the *)
(* cloud is asked, and a local explanation holds it to the end.  Weights   *)
(* may be installed and removed at any time, and a model that has been     *)
(* loaded stays in the cache without them.                                 *)
(***************************************************************************)
EXTENDS Naturals

CONSTANTS
    Excerpt,        \* the requests
    MaxChanges      \* bound: weights files installed or removed

Tier == {1, 2}      \* TIER1_MODEL_PATH and TIER2_MODEL_PATH

VARIABLES
    keyed,          \* the cloud provider is named and has a key
    weights,        \* the tiers whose weights llama_cpp finds on disk
    cached,         \* the tiers that _load_model has cached
    request,        \* excerpt -> where its handler is
    path,           \* excerpt -> model_path of its local explanation
    loop,           \* the handlers that hold the event loop: one at most
    seen,           \* history: excerpt -> the weights that lay there while a
                    \* provider was looked for
    sent,           \* history: the excerpts that left the server,
    troubled,       \* those whose provider failed, or met changing weights
    changes

explainVars == <<keyed, weights, cached, request, path, loop, seen, sent, troubled, changes>>

ExplainInit ==
    /\ keyed \in BOOLEAN /\ weights \in SUBSET Tier /\ cached = {}
    /\ request = [r \in Excerpt |-> "none"]
    /\ path = [r \in Excerpt |-> 1]
    /\ seen = [r \in Excerpt |-> {}]
    /\ loop = {} /\ sent = {} /\ troubled = {} /\ changes = 0

UnderWay(r) == request[r] \notin {"none", "explained", "refused"}

Ask(r) ==
    /\ request[r] = "none"
    /\ request' = [request EXCEPT ![r] = "asked"]
    /\ UNCHANGED <<keyed, weights, cached, path, loop, seen, sent, troubled, changes>>

\* _llama_available
Available(t) == t \in weights

\* Whatever stands in the way is a 503 to the client.
Refused(r) ==
    /\ request' = [request EXCEPT ![r] = "refused"]
    /\ loop' = loop \ {r}

\* build_provider: any weights do, the larger looked for first,
LookForLarger(r) ==
    /\ request[r] = "asked" /\ loop = {}
    /\ loop' = {r}
    /\ seen' = [seen EXCEPT ![r] = weights]
    /\ request' = [request EXCEPT ![r] = IF Available(2) THEN "local" ELSE "looking"]
    /\ UNCHANGED <<keyed, weights, cached, path, sent, troubled, changes>>

\* then the cloud, then nothing.
BuildProvider(r) ==
    /\ request[r] = "looking"
    /\ \/ /\ Available(1)
          /\ request' = [request EXCEPT ![r] = "local"] /\ UNCHANGED <<loop, sent>>
       \/ /\ ~Available(1) /\ keyed
          /\ request' = [request EXCEPT ![r] = "cloud"] /\ sent' = sent \cup {r} /\ loop' = loop \ {r}
       \/ /\ ~Available(1) /\ ~keyed
          /\ Refused(r) /\ UNCHANGED sent
    /\ UNCHANGED <<keyed, weights, cached, path, seen, troubled, changes>>

LargerOnly == 2
ModelPath  == IF Available(2) THEN 2 ELSE 1

\* LocalLlamaProvider.complete looks at the disk for itself, and once more for
\* the weights that it chose.
ChoosePath(r) ==
    /\ request[r] = "local"
    /\ path' = [path EXCEPT ![r] = ModelPath]
    /\ request' = [request EXCEPT ![r] = "chosen"]
    /\ UNCHANGED <<keyed, weights, cached, loop, seen, sent, troubled, changes>>

CheckPath(r) ==
    /\ request[r] = "chosen"
    /\ \/ /\ Available(path[r])
          /\ request' = [request EXCEPT ![r] = "load"] /\ UNCHANGED loop
       \/ /\ ~Available(path[r])
          /\ Refused(r)
    /\ UNCHANGED <<keyed, weights, cached, path, seen, sent, troubled, changes>>

\* _load_model: from the cache, or from weights that are still there.
Load(r) ==
    /\ request[r] = "load" /\ path[r] \in cached \cup weights
    /\ request' = [request EXCEPT ![r] = "infer"]
    /\ cached' = cached \cup {path[r]}
    /\ UNCHANGED <<keyed, weights, path, loop, seen, sent, troubled, changes>>

\* The model, or the cloud, gives a text.
Explained(r) ==
    /\ request[r] \in {"infer", "cloud"}
    /\ request' = [request EXCEPT ![r] = "explained"]
    /\ loop' = loop \ {r}
    /\ UNCHANGED <<keyed, weights, cached, path, seen, sent, troubled, changes>>

\* The provider raises: no such file, no memory, no network.
ProviderFails(r) ==
    /\ request[r] \in {"load", "infer", "cloud"}
    /\ Refused(r)
    /\ troubled' = troubled \cup {r}
    /\ UNCHANGED <<keyed, weights, cached, path, seen, sent, changes>>

\* The cascade, on another thread, uses Tier 1.
CascadeLoads ==
    /\ Available(1)
    /\ cached' = cached \cup {1}
    /\ UNCHANGED <<keyed, weights, request, path, loop, seen, sent, troubled, changes>>

ChangeWeights(t) ==
    /\ changes < MaxChanges
    /\ changes' = changes + 1
    /\ weights' = IF t \in weights THEN weights \ {t} ELSE weights \cup {t}
    /\ troubled' = troubled \cup {r \in Excerpt : UnderWay(r)}
    /\ seen' = [r \in Excerpt |-> IF request[r] = "looking" THEN seen[r] \cap weights' ELSE seen[r]]
    /\ UNCHANGED <<keyed, cached, request, path, loop, sent>>

ExplainNext ==
    \/ \E r \in Excerpt :
        \/ Ask(r) \/ LookForLarger(r) \/ BuildProvider(r)
        \/ ChoosePath(r) \/ CheckPath(r) \/ Load(r) \/ Explained(r) \/ ProviderFails(r)
    \/ CascadeLoads
    \/ \E t \in Tier : ChangeWeights(t)

-----------------------------------------------------------------------------
\* A request is refused only if there was no provider for it, its provider
\* failed or weights came and went meanwhile: what build_provider takes for
\* usable, the local provider can use.  And an excerpt leaves the server only
\* if no weights lay there all the while that build_provider looked, whatever
\* fails later (llm_client.py:25, :62-69, :166-185).
RefusedOrSentForCause ==
    \A r \in Excerpt :
        /\ request[r] = "refused" => r \in troubled \/ (seen[r] = {} /\ ~keyed)
        /\ r \in sent => seen[r] = {}

=============================================================================
