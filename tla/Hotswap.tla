------------------------------- MODULE Hotswap -------------------------------
(***************************************************************************)
(* The relevance model, trained and served: the retrain worker evaluates a *)
(* candidate against the incumbent and publishes it with two puts          *)
(* (services/retrain, libs/classify/model_store); every enrich pod polls   *)
(* the bucket with three gets and installs what it finds (watch_models).   *)
(*                                                                         *)
(* Models are numbered in the order they are trained, 0 is the heuristic.  *)
(* A model is its bytes: its sha is its number, and a broken one does not  *)
(* load.                                                                   *)
(***************************************************************************)
EXTENDS Naturals

CONSTANTS Replicas,
          Broken,      \* models that load in the retrain image, not in the pods
          Scores,      \* what f1 can be on an evaluation slice
          MaxModels,   \* bound on the candidates trained
          Faults       \* bound on the failures of each kind

FaultKinds == {"put", "get", "restart"}

ASSUME HotswapConfig == MaxModels \in Nat /\ Faults \in [FaultKinds -> Nat]

VARIABLES
    bucket,     \* the KV bucket exists
    meta,       \* version in classifier.meta, 0: unset
    model,      \* classifier, 0: unset
    revision,   \* of the classifier key
    trained,    \* candidates trained so far
    retrain,    \* [pc, incumbent, score] of the retrain worker
    watch,      \* [pc, rev, bytes] of each pod's watcher
    lastRev,    \* last_rev of each watcher
    serving,    \* filter._classifier of each pod
    left

kv      == <<bucket, meta, model, revision>>
hotvars == <<kv, trained, retrain, watch, lastRev, serving, left>>

Models == 0..MaxModels

HotswapTypeOK ==
    /\ bucket \in BOOLEAN
    /\ meta \in Models /\ model \in Models /\ trained \in Models
    /\ revision \in 0..MaxModels
    /\ retrain \in [pc : {"idle", "evaluate", "meta", "model"}, incumbent : Models]
    /\ watch \in [Replicas -> [pc : {"unbound", "poll", "model", "meta"},
                               rev : 0..MaxModels, bytes : Models]]
    /\ lastRev \in [Replicas -> 0..MaxModels]
    /\ serving \in [Replicas -> Models]
    /\ left \in [FaultKinds -> Nat]

Unbound == [pc |-> "unbound", rev |-> 0, bytes |-> 0]
Resting == [pc |-> "idle", incumbent |-> 0]

HotswapInit ==
    /\ bucket = FALSE /\ meta = 0 /\ model = 0 /\ revision = 0 /\ trained = 0
    /\ retrain = Resting
    /\ watch = [r \in Replicas |-> Unbound]
    /\ lastRev = [r \in Replicas |-> 0]
    /\ serving = [r \in Replicas |-> 0]
    /\ left = Faults

Fault(kind) == left[kind] > 0 /\ left' = [left EXCEPT ![kind] = @ - 1]

----------------------------------------------------------------------------
(* Retrainer.cycle                                                         *)

\* ModelStore.connect creates the bucket or binds to it.
Connect ==
    /\ ~bucket
    /\ bucket' = TRUE
    /\ UNCHANGED <<meta, model, revision, trained, retrain, watch, lastRev, serving, left>>

\* The floors are met: a candidate is trained and the incumbent fetched.
Train ==
    /\ bucket /\ retrain.pc = "idle"
    /\ trained < MaxModels
    /\ trained' = trained + 1
    /\ retrain' = [pc |-> "evaluate", incumbent |-> model]
    /\ UNCHANGED <<kv, watch, lastRev, serving, left>>

\* should_promote on the newest slice; without an incumbent the floors decide.
Evaluate ==
    /\ retrain.pc = "evaluate"
    /\ \E candidate, current \in Scores :
          retrain' = IF retrain.incumbent = 0 \/ candidate >= current
                     THEN [retrain EXCEPT !.pc = "meta"] ELSE Resting
    /\ UNCHANGED <<kv, trained, watch, lastRev, serving, left>>

PutMeta ==
    /\ retrain.pc = "meta"
    /\ meta' = trained
    /\ retrain' = [retrain EXCEPT !.pc = "model"]
    /\ UNCHANGED <<bucket, model, revision, trained, watch, lastRev, serving, left>>

PutModel ==
    /\ retrain.pc = "model"
    /\ model' = trained
    /\ revision' = revision + 1
    /\ retrain' = Resting
    /\ UNCHANGED <<bucket, meta, trained, watch, lastRev, serving, left>>

\* A put raises, stored or not, or the pod dies: the cycle is over.
PublishFails ==
    /\ retrain.pc \in {"meta", "model"}
    /\ Fault("put")
    /\ IF retrain.pc = "meta"
       THEN meta' \in {meta, trained} /\ UNCHANGED <<model, revision>>
       ELSE /\ UNCHANGED meta
            /\ \/ UNCHANGED <<model, revision>>
               \/ model' = trained /\ revision' = revision + 1
    /\ retrain' = Resting
    /\ UNCHANGED <<bucket, trained, watch, lastRev, serving>>

----------------------------------------------------------------------------
(* watch_models                                                            *)

To(r, step) == watch' = [watch EXCEPT ![r].pc = step]

Sleep(r) == watch' = [watch EXCEPT ![r] = [pc |-> "poll", rev |-> 0, bytes |-> 0]]

Bind(r) ==
    /\ watch[r].pc = "unbound" /\ bucket
    /\ Sleep(r)
    /\ UNCHANGED <<kv, trained, retrain, lastRev, serving, left>>

\* Mutant: a revision counts as seen before it is installed.
ReadRevisionSeen(r) ==
    /\ watch[r].pc = "poll"
    /\ revision # 0 /\ revision # lastRev[r]
    /\ watch' = [watch EXCEPT ![r].pc = "model", ![r].rev = revision]
    /\ lastRev' = [lastRev EXCEPT ![r] = revision]
    /\ UNCHANGED <<kv, trained, retrain, serving, left>>

\* model_revision: nothing to do unless the key has a revision not installed yet.
ReadRevision(r) ==
    /\ watch[r].pc = "poll"
    /\ revision # 0 /\ revision # lastRev[r]
    /\ watch' = [watch EXCEPT ![r].pc = "model", ![r].rev = revision]
    /\ UNCHANGED <<kv, trained, retrain, lastRev, serving, left>>

ReadModel(r) ==
    /\ watch[r].pc = "model"
    /\ watch' = [watch EXCEPT ![r].pc = "meta", ![r].bytes = model]
    /\ UNCHANGED <<kv, trained, retrain, lastRev, serving, left>>

\* get_meta and the sha check; metadata without a version is not checked.
Mismatch(r) == meta # 0 /\ meta # watch[r].bytes

\* Mutant: a model that does not load is replaced by the heuristic.
InstallFallsBack(r) ==
    /\ watch[r].pc = "meta"
    /\ IF Mismatch(r) THEN Sleep(r) /\ UNCHANGED <<lastRev, serving>>
       ELSE IF watch[r].bytes \in Broken
       THEN /\ watch' = [watch EXCEPT ![r] = Unbound]
            /\ serving' = [serving EXCEPT ![r] = 0] /\ UNCHANGED lastRev
       ELSE /\ Sleep(r)
            /\ serving' = [serving EXCEPT ![r] = watch[r].bytes]
            /\ lastRev' = [lastRev EXCEPT ![r] = watch[r].rev]
    /\ UNCHANGED <<kv, trained, retrain, left>>

\* The sha check, the trial run, the swap.  A mismatch is skipped and a
\* model that does not load raises; both are tried again at the next poll.
Install(r) ==
    /\ watch[r].pc = "meta"
    /\ IF Mismatch(r) THEN Sleep(r) /\ UNCHANGED <<lastRev, serving>>
       ELSE IF watch[r].bytes \in Broken
       THEN watch' = [watch EXCEPT ![r] = Unbound] /\ UNCHANGED <<lastRev, serving>>
       ELSE /\ Sleep(r)
            /\ serving' = [serving EXCEPT ![r] = watch[r].bytes]
            /\ lastRev' = [lastRev EXCEPT ![r] = watch[r].rev]
    /\ UNCHANGED <<kv, trained, retrain, left>>

\* A get raises: "keeping current classifier", bind again.
WatchFails(r) ==
    /\ watch[r].pc # "unbound"
    /\ Fault("get")
    /\ watch' = [watch EXCEPT ![r] = Unbound]
    /\ UNCHANGED <<kv, trained, retrain, lastRev, serving>>

\* The pod dies and comes back with the classifier of its image.
PodRestart(r) ==
    /\ Fault("restart")
    /\ watch' = [watch EXCEPT ![r] = Unbound]
    /\ lastRev' = [lastRev EXCEPT ![r] = 0]
    /\ serving' = [serving EXCEPT ![r] = 0]
    /\ UNCHANGED <<kv, trained, retrain>>

Watch(r) == Bind(r) \/ ReadRevision(r) \/ ReadModel(r) \/ Install(r)

HotswapNext ==
    \/ Connect \/ Train \/ Evaluate \/ PutMeta \/ PutModel \/ PublishFails
    \/ \E r \in Replicas : Watch(r) \/ WatchFails(r) \/ PodRestart(r)

\* The poll loops run, and a publish under way is carried through.
HotswapFairness ==
    /\ \A r \in Replicas : WF_hotvars(Watch(r))
    /\ WF_hotvars(Connect \/ Evaluate \/ PutMeta \/ PutModel)

HotswapSpec == HotswapInit /\ [][HotswapNext]_hotvars

----------------------------------------------------------------------------
(* Properties                                                              *)

\* A pod never goes back to an older model or to the heuristic while it lives, and
\* never serves a model that does not load, though a publish is two puts and a look
\* at it is three gets ("the current model keeps serving", enrich/main.py).
SwapsForward ==
    [][\A r \in Replicas :
          left["restart"]' = left["restart"] =>
              /\ serving'[r] >= serving[r]
              /\ serving'[r] # serving[r] => serving'[r] \notin Broken]_hotvars

\* If the last publish is whole and its model loads, every pod serves it in the end,
\* whatever half publishes it saw before, pods that restarted included.
PodsConverge ==
    <>[](/\ meta = model /\ model \in 1..MaxModels \ Broken)
        => <>[](\A r \in Replicas : serving[r] = model)
=============================================================================
