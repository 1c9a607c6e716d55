----------------------------- MODULE FilterProofs -----------------------------
(***************************************************************************)
(* The relevance filter of a pod for every budget, scale, step and         *)
(* traffic, and any number of pods, models and failures.                   *)
(*                                                                         *)
(* The governor: the threshold stays between its floor and its ceiling,    *)
(* keeps pace with the rate, and so bounds how far a burst overshoots the  *)
(* budget.  The hot swap: however the two puts of a publish fall between   *)
(* the three gets of a watcher, no pod goes back to an older model while   *)
(* it lives.  The pod is both side by side: what holds of each alone holds *)
(* of the pod that runs both.                                              *)
(***************************************************************************)
EXTENDS Filter, TLAPS

----------------------------------------------------------------------------
(* The governor                                                            *)

LEMMA DivIsNat ==
    ASSUME NEW a \in Nat, NEW b \in Nat \ {0}
    PROVE  a \div b \in Nat
  BY Z3

LEMMA TimesIsNat ==
    ASSUME NEW a \in Nat, NEW b \in Nat
    PROVE  a * b \in Nat
  BY SMT

LEMMA TimesGrows ==
    ASSUME NEW a \in Nat, NEW b \in Int, NEW c \in Int, b <= c
    PROVE  a * b <= a * c
<1>1. c - b \in Nat
  OBVIOUS
<1>2. a * (c - b) \in Nat
  BY <1>1, TimesIsNat
<1>3. a * c = a * b + a * (c - b)
  BY SMT
<1> QED
  BY <1>2, <1>3, SMT

LEMMA RelaxationIsNat ==
    ASSUME NEW t \in Floor..Ceiling
    PROVE  Relaxation(t) \in Nat
<1>1. (t - Floor) * RelaxNum \in Nat
  BY TimesIsNat, GovernorConfig
<1>2. (t - Floor) * RelaxNum + RelaxDen - 1 \in Nat
  BY <1>1, GovernorConfig
<1>3. ((t - Floor) * RelaxNum + RelaxDen - 1) \div RelaxDen \in Nat
  BY <1>2, DivIsNat, GovernorConfig
<1> QED
  BY <1>3, GovernorConfig DEF Relaxation, AtMost

\* The step keeps the threshold in its range.
LEMMA StepInRange ==
    ASSUME NEW t \in Floor..Ceiling, NEW x \in Nat
    PROVE  StepTheta(t, x) \in Floor..Ceiling
<1>1. Relaxation(t) \in Nat
  BY RelaxationIsNat
<1> QED
  BY <1>1, GovernorConfig DEF StepTheta, AtMost, AtLeast

\* The admission threshold is between its floor and its ceiling and the rate is a
\* number, whatever the traffic (governor.py _step clamps).
THEOREM GovernorTyped == GovernorSpec => []GovernorTypeOK
<1>1. GovernorInit => GovernorTypeOK
  <2> SUFFICES ASSUME GovernorInit PROVE GovernorTypeOK
    OBVIOUS
  <2>1. theta \in Floor..Ceiling /\ rate \in Nat
    BY GovernorConfig DEF GovernorInit
  <2>2. started \in BOOLEAN
    BY Zenon DEF GovernorInit
  <2> QED
    BY <2>1, <2>2 DEF GovernorTypeOK
<1>2. GovernorTypeOK /\ [GovernorNext]_gvars => GovernorTypeOK'
  <2> SUFFICES ASSUME GovernorTypeOK, [GovernorNext]_gvars PROVE GovernorTypeOK'
    OBVIOUS
  <2>1. CASE UNCHANGED gvars
    BY <2>1 DEF GovernorTypeOK, gvars
  <2>2. ASSUME NEW relevance \in Relevances, NEW residue \in 0..rate, Admit(relevance, residue)
        PROVE  GovernorTypeOK'
    <3>1. rate' \in Nat /\ started' = TRUE
      BY <2>2 DEF Admit, GovernorTypeOK
    <3>2. theta' \in Floor..Ceiling
      BY <2>2, <3>1, StepInRange DEF Admit, GovernorTypeOK
    <3> QED
      BY <3>1, <3>2 DEF GovernorTypeOK
  <2> QED
    BY <2>1, <2>2 DEF GovernorNext
<1> QED
  BY <1>1, <1>2, PTL DEF GovernorSpec

----------------------------------------------------------------------------

\* What both properties say of k: the height theta has climbed to.
Climbed(k) == AtMost(Ceiling, Floor + Step * (k + 1))

LEMMA ClimbedGrows ==
    ASSUME NEW j \in Nat, NEW k \in Nat, k <= j
    PROVE  Climbed(k) \in Nat /\ Climbed(k) <= Climbed(j)
<1>1. Step * (k + 1) \in Nat /\ Step * (k + 1) <= Step * (j + 1)
  <2>1. Step \in Nat
    BY GovernorConfig
  <2>2. Step * (k + 1) \in Nat
    BY <2>1, TimesIsNat
  <2> QED
    BY <2>1, <2>2, TimesGrows
<1>2. Step * (j + 1) \in Nat
  BY TimesIsNat, GovernorConfig
<1> QED
  BY <1>1, <1>2, GovernorConfig DEF Climbed, AtMost

\* The dead band is closed downwards and no empty rate is over it.
LEMMA OverGrows ==
    ASSUME NEW x \in Int, NEW y \in Int, x <= y, Over(x)
    PROVE  Over(y) /\ x >= 0
  BY GovernorConfig DEF Over

\* An event adds at most one to the rate, and that only when it is admitted.
LEMMA RateSteps ==
    ASSUME GovernorTypeOK, NEW relevance \in Relevances, NEW residue \in 0..rate,
           Admit(relevance, residue)
    PROVE  /\ rate' \in Nat
           /\ rate' <= rate \/ (rate' <= rate + 1 /\ relevance >= theta)
  BY DEF Admit, GovernorTypeOK

\* The arithmetic of one event: the rate goes from a to b, and what is k above the
\* dead band after it was k or k - 1 above before it.
LEMMA Shift ==
    ASSUME NEW a \in Nat, NEW b \in Nat, NEW d \in Nat, b <= a + d,
           NEW k \in Nat, k <= b, d <= k
    PROVE  /\ a - b + k \in 0..a
           /\ a - b + k \in Nat
           /\ a - (a - b + k) = b - k
           /\ a - 1 - (a - b + k) = b - 1 - k
           /\ k - d \in Nat
           /\ k - d <= a - b + k
  BY SMT

\* A threshold t that kept pace with the rate a, raised by one step, keeps pace with
\* the rate b one event later.
LEMMA RaiseKeepsPace ==
    ASSUME NEW t \in Floor..Ceiling, NEW a \in Nat, NEW b \in Nat, b <= a + 1,
           \A k \in 0..a : Over(a - k) => t >= Climbed(k),
           NEW k \in Nat, k <= b, Over(b - k)
    PROVE  AtMost(Ceiling, t + Step) >= Climbed(k)
<1>1. t \in Nat /\ Step \in Nat /\ Floor <= t /\ Floor \in Nat /\ Ceiling \in Nat
  BY GovernorConfig
<1>2. CASE k = 0
  <2>1. Step * (k + 1) = Step
    BY <1>2, GovernorConfig
  <2> QED
    BY <1>1, <2>1 DEF Climbed, AtMost
<1>3. CASE 1 <= k
  <2>1. /\ a - b + k \in 0..a /\ a - b + k \in Nat
        /\ a - (a - b + k) = b - k
        /\ k - 1 \in Nat /\ k - 1 <= a - b + k
    BY <1>3, Shift
  <2>2. t >= Climbed(a - b + k)
    BY <2>1
  <2>3. Climbed(k - 1) \in Nat /\ Climbed(k - 1) <= Climbed(a - b + k)
    BY <2>1, ClimbedGrows
  <2>4. Climbed(a - b + k) \in Nat
    BY <2>1, ClimbedGrows
  <2>5. t >= Climbed(k - 1)
    BY <1>1, <2>2, <2>3, <2>4
  <2>6. Step * (k + 1) = Step * (k - 1 + 1) + Step
    BY GovernorConfig
  <2>7. Step * (k - 1 + 1) \in Nat
    BY <1>1, <2>1, TimesIsNat
  <2> QED
    BY <1>1, <2>5, <2>6, <2>7 DEF Climbed, AtMost
<1> QED
  BY <1>2, <1>3

LEMMA Within ==
    ASSUME NEW b \in Nat, NEW k \in 0..b
    PROVE  k \in Nat /\ k <= b /\ b - k \in Int /\ b - k <= b /\ b - 1 - k \in Int
  BY SMT

\* One event, while the threshold kept pace before it.
LEMMA PaceIsKept ==
    ASSUME GovernorTypeOK, KeepsPace, NEW relevance \in Relevances, NEW residue \in 0..rate,
           Admit(relevance, residue)
    PROVE  KeepsPace'
<1>1. rate' \in Nat /\ rate' <= rate + 1 /\ rate \in Nat /\ theta \in Floor..Ceiling
  BY RateSteps DEF GovernorTypeOK
<1> SUFFICES ASSUME NEW k \in 0..rate', Over(rate' - k)
             PROVE  theta' >= Climbed(k)
  BY DEF KeepsPace, Climbed, Over, AtMost
<1>2. k \in Nat /\ k <= rate' /\ rate' - k \in Int /\ rate' - k <= rate'
  BY <1>1, Within
<1>3. Over(rate')
  BY <1>1, <1>2, OverGrows
<1>4. theta' = AtMost(Ceiling, theta + Step)
  BY <1>3, GovernorConfig DEF Admit, StepTheta, AtMost
<1>5. \A i \in 0..rate : Over(rate - i) => theta >= Climbed(i)
  BY DEF KeepsPace, Climbed
<1>6. AtMost(Ceiling, theta + Step) >= Climbed(k)
  BY <1>1, <1>2, <1>5, RaiseKeepsPace
<1> QED
  BY <1>4, <1>6

\* The threshold keeps pace with the rate: k events above the dead band it has
\* climbed k + 1 steps (governor.py _step runs after every event).
THEOREM PaceKept == GovernorSpec => []KeepsPace
<1>1. GovernorInit => KeepsPace
  BY GovernorConfig DEF GovernorInit, KeepsPace, Over
<1>2. GovernorTypeOK /\ KeepsPace /\ [GovernorNext]_gvars => KeepsPace'
  <2>1. KeepsPace /\ UNCHANGED gvars => KeepsPace'
    BY DEF KeepsPace, gvars, Over, AtMost
  <2> QED
    BY <2>1, PaceIsKept DEF GovernorNext
<1> QED
  BY <1>1, <1>2, GovernorTyped, PTL DEF GovernorSpec

\* An event that was not admitted, or that found the rate decayed, from a to b.
LEMMA StaysBounded ==
    ASSUME NEW a \in Nat, NEW b \in Nat, b <= a,
           \A k \in 0..a : Over(a - 1 - k) => \E r \in Relevances : Climbed(k) <= r,
           NEW k \in Nat, k <= b, Over(b - 1 - k)
    PROVE  \E r \in Relevances : Climbed(k) <= r
<1>1. /\ a - b + k \in 0..a /\ a - b + k \in Nat /\ k <= a - b + k
      /\ a - 1 - (a - b + k) = b - 1 - k
  BY Shift
<1>2. PICK r \in Relevances : Climbed(a - b + k) <= r
  BY <1>1
<1>3. Climbed(k) \in Nat /\ Climbed(k) <= Climbed(a - b + k)
  BY <1>1, ClimbedGrows
<1>4. Climbed(a - b + k) \in Nat
  BY <1>1, ClimbedGrows
<1> QED
  BY <1>2, <1>3, <1>4, GovernorConfig

\* An event of relevance v that the threshold t, which kept pace with a, admitted.
LEMMA AdmittedIsBound ==
    ASSUME NEW t \in Nat, NEW a \in Nat, NEW b \in Nat, b <= a + 1,
           \A k \in 0..a : Over(a - k) => t >= Climbed(k),
           NEW v \in Relevances, v >= t,
           NEW k \in Nat, k <= b, Over(b - 1 - k)
    PROVE  \E r \in Relevances : Climbed(k) <= r
<1>1. 0 <= b - 1 - k
  BY OverGrows
<1>2. k + 1 \in Nat /\ k + 1 <= b /\ b - (k + 1) = b - 1 - k
  BY <1>1
<1>3. /\ a - b + (k + 1) \in 0..a /\ a - b + (k + 1) \in Nat
      /\ a - (a - b + (k + 1)) = b - 1 - k
      /\ k <= a - b + (k + 1)
  BY <1>2, Shift
<1>4. t >= Climbed(a - b + (k + 1))
  BY <1>3
<1>5. Climbed(k) \in Nat /\ Climbed(k) <= Climbed(a - b + (k + 1))
  BY <1>3, ClimbedGrows
<1>6. Climbed(a - b + (k + 1)) \in Nat
  BY <1>3, ClimbedGrows
<1>7. v \in Nat
  BY GovernorConfig
<1> QED
  BY <1>4, <1>5, <1>6, <1>7

\* One event, while the overshoot was bounded before it.
LEMMA BoundIsKept ==
    ASSUME GovernorTypeOK, KeepsPace, OvershootBounded,
           NEW relevance \in Relevances, NEW residue \in 0..rate, Admit(relevance, residue)
    PROVE  OvershootBounded'
<1>1. /\ rate' \in Nat /\ rate \in Nat /\ theta \in Nat
      /\ rate' <= rate \/ (rate' <= rate + 1 /\ relevance >= theta)
  BY RateSteps, GovernorConfig DEF GovernorTypeOK
<1> SUFFICES ASSUME NEW k \in 0..rate', Over(rate' - 1 - k)
             PROVE  \E r \in Relevances : Climbed(k) <= r
  BY DEF OvershootBounded, Climbed, Over, AtMost
<1>2. k \in Nat /\ k <= rate'
  BY <1>1, Within
<1>3. CASE rate' <= rate
  <2>1. \A i \in 0..rate : Over(rate - 1 - i) => \E r \in Relevances : Climbed(i) <= r
    BY DEF OvershootBounded, Climbed
  <2> QED
    BY <1>1, <1>2, <1>3, <2>1, StaysBounded
<1>4. CASE rate' <= rate + 1 /\ relevance >= theta
  <2>1. \A i \in 0..rate : Over(rate - i) => theta >= Climbed(i)
    BY DEF KeepsPace, Climbed
  <2> QED
    BY <1>1, <1>2, <1>4, <2>1, AdmittedIsBound
<1> QED
  BY <1>1, <1>3, <1>4

\* A burst goes past the budget by no more events than the threshold takes to climb
\* above the most relevant of them ("holds the embed survivor rate at the budget").
THEOREM Bounded == GovernorSpec => []OvershootBounded
<1>1. GovernorInit => OvershootBounded
  BY GovernorConfig DEF GovernorInit, OvershootBounded, Over
<1>2. GovernorTypeOK /\ KeepsPace /\ OvershootBounded /\ [GovernorNext]_gvars
        => OvershootBounded'
  <2>1. OvershootBounded /\ UNCHANGED gvars => OvershootBounded'
    BY DEF OvershootBounded, gvars, Over, AtMost
  <2> QED
    BY <2>1, BoundIsKept DEF GovernorNext
<1> QED
  BY <1>1, <1>2, GovernorTyped, PaceKept, PTL DEF GovernorSpec

----------------------------------------------------------------------------
(* The hot swap                                                            *)

\* A revision is of a candidate: there are no more of them than candidates trained, one
\* fewer while a candidate is judged or published.
Published ==
    revision + (IF retrain.pc = "idle" THEN 0 ELSE 1) <= trained

\* A step of the retrainer keeps the types and counts a revision for its candidate.
LEMMA RetrainTyped ==
    ASSUME HotswapTypeOK, Published,
           Connect \/ Train \/ Evaluate \/ PutMeta \/ PutModel \/ PublishFails
    PROVE  HotswapTypeOK' /\ Published'
<1> USE HotswapConfig DEF HotswapTypeOK, Published, Models, kv
<1>1. CASE Connect
  BY <1>1 DEF Connect
<1>2. CASE Train
  BY <1>2 DEF Train
<1>3. CASE Evaluate
  <2>1. retrain' = [retrain EXCEPT !.pc = "meta"] \/ retrain' = Resting
    BY <1>3 DEF Evaluate
  <2> QED
    BY <1>3, <2>1 DEF Evaluate, Resting
<1>4. CASE PutMeta
  BY <1>4 DEF PutMeta
<1>5. CASE PutModel
  BY <1>5 DEF PutModel, Resting
<1>6. CASE PublishFails
  <2>1. left' \in [FaultKinds -> Nat]
    BY <1>6 DEF PublishFails, Fault, FaultKinds
  <2> QED
    BY <1>6, <2>1 DEF PublishFails, Resting
<1> QED
  BY <1>1, <1>2, <1>3, <1>4, <1>5, <1>6

\* A step of one watcher, the restart of its pod included.
LEMMA WatchTyped ==
    ASSUME HotswapTypeOK, Published, NEW r \in Replicas,
           Watch(r) \/ WatchFails(r) \/ PodRestart(r)
    PROVE  HotswapTypeOK' /\ Published'
<1>1. UNCHANGED <<bucket, meta, model, revision, trained, retrain>>
  BY DEF Watch, Bind, ReadRevision, ReadModel, Install, WatchFails, PodRestart, kv
<1> USE HotswapConfig DEF HotswapTypeOK, Models, Unbound
<1>2. left' \in [FaultKinds -> Nat]
  <2>1. CASE Watch(r)
    BY <2>1 DEF Watch, Bind, ReadRevision, ReadModel, Install
  <2>2. CASE WatchFails(r) \/ PodRestart(r)
    BY <2>2 DEF WatchFails, PodRestart, Fault, FaultKinds
  <2> QED
    BY <2>1, <2>2
<1>3. /\ lastRev' \in [Replicas -> 0..MaxModels] /\ serving' \in [Replicas -> Models]
      /\ watch' \in [Replicas -> [pc : {"unbound", "poll", "model", "meta"},
                                  rev : 0..MaxModels, bytes : Models]]
  <2>1. CASE Bind(r)
    BY <2>1 DEF Bind, Sleep
  <2>2. CASE ReadRevision(r)
    BY <2>2 DEF ReadRevision
  <2>3. CASE ReadModel(r)
    <3>1. /\ watch' = [watch EXCEPT ![r].pc = "meta", ![r].bytes = model]
          /\ UNCHANGED <<lastRev, serving>> /\ model \in 0..MaxModels
      BY <2>3 DEF ReadModel
    <3>2. watch' \in [Replicas -> [pc : {"unbound", "poll", "model", "meta"},
                                   rev : 0..MaxModels, bytes : 0..MaxModels]]
      <4> DEFINE Numbers == 0..MaxModels
      <4>1. watch \in [Replicas -> [pc : {"unbound", "poll", "model", "meta"},
                                    rev : Numbers, bytes : Numbers]]
        OBVIOUS
      <4>2. model \in Numbers
        BY <3>1
      <4> HIDE DEF Numbers
      <4>3. watch' \in [Replicas -> [pc : {"unbound", "poll", "model", "meta"},
                                     rev : Numbers, bytes : Numbers]]
        BY ONLY <3>1, <4>1, <4>2
      <4> QED
        BY <4>3 DEF Numbers
    <3> QED
      BY <3>1, <3>2
  <2>4. CASE Install(r)
    <3>1. /\ watch[r].rev \in 0..MaxModels /\ watch[r].bytes \in 0..MaxModels
          /\ 0 \in 0..MaxModels
      OBVIOUS
    <3>2. \/ UNCHANGED <<lastRev, serving>>
          \/ /\ serving' = [serving EXCEPT ![r] = watch[r].bytes]
             /\ lastRev' = [lastRev EXCEPT ![r] = watch[r].rev]
      BY <2>4 DEF Install
    <3>3. \E pc \in {"unbound", "poll"} :
             watch' = [watch EXCEPT ![r] = [pc |-> pc, rev |-> 0, bytes |-> 0]]
      BY <2>4 DEF Install, Sleep
    <3>4. lastRev' \in [Replicas -> 0..MaxModels] /\ serving' \in [Replicas -> 0..MaxModels]
      BY <3>1, <3>2
    <3>5. watch' \in [Replicas -> [pc : {"unbound", "poll", "model", "meta"},
                                   rev : 0..MaxModels, bytes : 0..MaxModels]]
      BY <3>1, <3>3
    <3> QED
      BY <3>4, <3>5
  <2>5. CASE WatchFails(r)
    BY <2>5 DEF WatchFails
  <2>6. CASE PodRestart(r)
    BY <2>6 DEF PodRestart
  <2> QED
    BY <2>1, <2>2, <2>3, <2>4, <2>5, <2>6 DEF Watch
<1> QED
  BY <1>1, <1>2, <1>3 DEF Published

\* Every revision, model and version a watcher holds is one the retrainer trained, and
\* the bucket has no more revisions than there were candidates (ModelStore.publish puts
\* one per candidate).
THEOREM HotswapTyped == HotswapSpec => []HotswapTypeOK
<1>1. HotswapInit => HotswapTypeOK /\ Published
  <2> SUFFICES ASSUME HotswapInit PROVE HotswapTypeOK /\ Published
    OBVIOUS
  <2>1. bucket \in BOOLEAN
    BY Zenon DEF HotswapInit
  <2>2. /\ 0 \in Models /\ 0 \in 0..MaxModels
        /\ Unbound \in [pc : {"unbound", "poll", "model", "meta"}, rev : 0..MaxModels,
                        bytes : Models]
    BY HotswapConfig DEF Models, Unbound
  <2>3. /\ watch \in [Replicas -> [pc : {"unbound", "poll", "model", "meta"},
                                   rev : 0..MaxModels, bytes : Models]]
        /\ lastRev \in [Replicas -> 0..MaxModels] /\ serving \in [Replicas -> Models]
    BY <2>2 DEF HotswapInit
  <2>4. retrain \in [pc : {"idle", "evaluate", "meta", "model"}, incumbent : Models]
        /\ retrain.pc = "idle"
    BY <2>2 DEF HotswapInit, Resting
  <2> QED
    BY <2>1, <2>2, <2>3, <2>4, HotswapConfig DEF HotswapInit, HotswapTypeOK, Published
<1>2. HotswapTypeOK /\ Published /\ [HotswapNext]_hotvars => HotswapTypeOK' /\ Published'
  <2>1. HotswapTypeOK /\ Published /\ UNCHANGED hotvars => HotswapTypeOK' /\ Published'
    BY DEF HotswapTypeOK, Published, hotvars, kv
  <2> QED
    BY <2>1, RetrainTyped, WatchTyped DEF HotswapNext
<1> QED
  BY <1>1, <1>2, PTL DEF HotswapSpec

----------------------------------------------------------------------------

\* Models are published in the order they are trained, and what a watcher holds in
\* its hands lies between what its pod serves and what the bucket has.
Ordered ==
    /\ model \in Nat /\ trained \in Nat /\ model <= trained
    /\ serving \in [Replicas -> Nat]
    /\ watch \in [Replicas -> [pc : {"unbound", "poll", "model", "meta"},
                               rev : Nat, bytes : Nat]]
    /\ revision \in Nat
    /\ left \in [FaultKinds -> Nat]
    /\ \A r \in Replicas :
          /\ serving[r] <= model
          /\ watch[r].pc = "meta" => serving[r] <= watch[r].bytes /\ watch[r].bytes <= model

LEMMA OrderedInit == HotswapInit => Ordered
  BY HotswapConfig DEF HotswapInit, Ordered, Unbound

\* What the retrainer does: the model in the bucket only gets newer.
LEMMA RetrainKeepsOrder ==
    ASSUME Ordered, Connect \/ Train \/ Evaluate \/ PutMeta \/ PutModel \/ PublishFails
    PROVE  Ordered' /\ UNCHANGED serving
<1>1. UNCHANGED <<watch, serving>>
  BY DEF Connect, Train, Evaluate, PutMeta, PutModel, PublishFails
<1>2. /\ model' \in Nat /\ trained' \in Nat /\ model' <= trained' /\ model <= model'
      /\ revision' \in Nat
  BY DEF Ordered, Connect, Train, Evaluate, PutMeta, PutModel, PublishFails, kv
<1>3. left' \in [FaultKinds -> Nat]
  <2>1. CASE PublishFails
    BY <2>1 DEF Ordered, PublishFails, Fault, FaultKinds
  <2>2. CASE Connect \/ Train \/ Evaluate \/ PutMeta \/ PutModel
    BY <2>2 DEF Ordered, Connect, Train, Evaluate, PutMeta, PutModel
  <2> QED
    BY <2>1, <2>2
<1> QED
  BY <1>1, <1>2, <1>3 DEF Ordered

\* What one watcher does, the restart of its pod included.
LEMMA WatchKeepsOrder ==
    ASSUME Ordered, NEW r \in Replicas, Watch(r) \/ WatchFails(r) \/ PodRestart(r)
    PROVE  Ordered'
<1>1. UNCHANGED <<model, trained, revision>>
  BY DEF Watch, Bind, ReadRevision, ReadModel, Install, WatchFails, PodRestart, kv
<1>2. left' \in [FaultKinds -> Nat]
  <2>1. CASE Watch(r)
    BY <2>1 DEF Ordered, Watch, Bind, ReadRevision, ReadModel, Install
  <2>2. CASE WatchFails(r) \/ PodRestart(r)
    BY <2>2 DEF Ordered, WatchFails, PodRestart, Fault, FaultKinds
  <2> QED
    BY <2>1, <2>2
<1>3. /\ serving' \in [Replicas -> Nat]
      /\ watch' \in [Replicas -> [pc : {"unbound", "poll", "model", "meta"},
                                  rev : Nat, bytes : Nat]]
      /\ \A q \in Replicas :
            /\ serving'[q] <= model
            /\ watch'[q].pc = "meta"
                  => serving'[q] <= watch'[q].bytes /\ watch'[q].bytes <= model
  <2>1. CASE Bind(r)
    BY <2>1 DEF Ordered, Bind, Sleep
  <2>2. CASE ReadRevision(r)
    BY <2>2 DEF Ordered, ReadRevision
  <2>3. CASE ReadModel(r)
    <3>1. /\ watch' = [watch EXCEPT ![r].pc = "meta", ![r].bytes = model]
          /\ serving' = serving /\ serving[r] <= model /\ model \in Nat
      BY <2>3 DEF Ordered, ReadModel
    <3>2. watch'[r].pc = "meta" /\ watch'[r].bytes = model
      BY <3>1 DEF Ordered
    <3>3. \A q \in Replicas : q # r => watch'[q] = watch[q]
      BY <3>1 DEF Ordered
    <3>4. watch' \in [Replicas -> [pc : {"unbound", "poll", "model", "meta"},
                                   rev : Nat, bytes : Nat]]
      BY <3>1 DEF Ordered
    <3> QED
      BY <3>1, <3>2, <3>3, <3>4 DEF Ordered
  <2>4. CASE Install(r)
    BY <2>4 DEF Ordered, Install, Sleep, Unbound
  <2>5. CASE WatchFails(r)
    BY <2>5 DEF Ordered, WatchFails, Unbound
  <2>6. CASE PodRestart(r)
    BY <2>6 DEF Ordered, PodRestart, Unbound
  <2> QED
    BY <2>1, <2>2, <2>3, <2>4, <2>5, <2>6 DEF Watch
<1> QED
  BY <1>1, <1>2, <1>3 DEF Ordered

\* The models stay in order through every step of the retrainer and the watchers.
THEOREM OrderKept == HotswapSpec => []Ordered
<1>1. Ordered /\ [HotswapNext]_hotvars => Ordered'
  <2>1. Ordered /\ UNCHANGED hotvars => Ordered'
    BY DEF Ordered, hotvars, kv
  <2> QED
    BY <2>1, RetrainKeepsOrder, WatchKeepsOrder DEF HotswapNext
<1> QED
  BY OrderedInit, <1>1, PTL DEF HotswapSpec

\* Forward(r): what a step may do to the model a pod serves.
Forward(r) ==
    left["restart"]' = left["restart"] =>
        /\ serving'[r] >= serving[r]
        /\ serving'[r] # serving[r] => serving'[r] \notin Broken

LEMMA StepsGoForward ==
    ASSUME Ordered, HotswapNext, NEW q \in Replicas
    PROVE  Forward(q)
<1>1. CASE UNCHANGED serving
  BY <1>1 DEF Ordered, Forward
<1>2. ASSUME NEW r \in Replicas, Install(r) PROVE Forward(q)
  BY <1>2 DEF Ordered, Forward, Install
<1>3. ASSUME NEW r \in Replicas, PodRestart(r) PROVE Forward(q)
  <2>1. left["restart"] \in Nat /\ left'["restart"] = left["restart"] - 1
    BY <1>3 DEF Ordered, PodRestart, Fault, FaultKinds
  <2> QED
    BY <2>1 DEF Forward
<1>4. ASSUME NEW r \in Replicas, Bind(r) \/ ReadRevision(r) \/ ReadModel(r) \/ WatchFails(r)
      PROVE  UNCHANGED serving
  BY <1>4 DEF Bind, ReadRevision, ReadModel, WatchFails
<1> QED
  BY <1>1, <1>2, <1>3, <1>4, RetrainKeepsOrder DEF HotswapNext, Watch

\* No pod goes back to an older model or to the heuristic while it lives, nor installs
\* one that does not load (watch_models of services/enrich/main.py).
THEOREM NeverBack == HotswapSpec => SwapsForward
<1> DEFINE Goes == \A r \in Replicas :
                      left["restart"]' = left["restart"] =>
                          /\ serving'[r] >= serving[r]
                          /\ serving'[r] # serving[r] => serving'[r] \notin Broken
<1>1. Ordered /\ [HotswapNext]_hotvars => [Goes]_hotvars
  BY StepsGoForward DEF Forward
<1> QED
  BY OrderKept, <1>1, PTL DEF HotswapSpec, SwapsForward

----------------------------------------------------------------------------
(* The pod                                                                 *)

LEMMA GovernorSteps == [FilterNext]_fvars => [GovernorNext]_gvars
<1>1. ASSUME NEW relevance \in Relevances, Judge(relevance)
      PROVE  GovernorNext
  BY <1>1 DEF Judge, GovernorNext
<1> QED
  BY <1>1 DEF FilterNext, fvars

LEMMA HotswapSteps == [FilterNext]_fvars => [HotswapNext]_hotvars
<1>1. ASSUME NEW relevance \in Relevances, Judge(relevance)
      PROVE  UNCHANGED hotvars
  BY <1>1 DEF Judge
<1> QED
  BY <1>1 DEF FilterNext, fvars

\* The pod implements both of its parts, whatever model the handlers score with while
\* the watcher swaps (Inference.handle and watch_models share one event loop).
THEOREM PodImplementsParts == FilterSpec => GovernorSpec /\ HotswapSpec
<1>1. FilterInit => GovernorInit /\ HotswapInit
  BY DEF FilterInit
<1> QED
  BY <1>1, GovernorSteps, HotswapSteps, PTL DEF FilterSpec, GovernorSpec, HotswapSpec

\* So a burst overshoots the budget of the pod by a bounded number of events.
THEOREM PodBounded == FilterSpec => []OvershootBounded
  BY PodImplementsParts, Bounded, PTL

\* And the pod never goes back to an older model while it lives.
THEOREM PodNeverBack == FilterSpec => SwapsForward
  BY PodImplementsParts, NeverBack, PTL

\* What the handlers and the watcher share keeps its type in the pod that runs both.
THEOREM FilterTyped == FilterSpec => []FilterTypeOK
<1>1. GovernorTypeOK /\ HotswapTypeOK => FilterTypeOK
  BY DEF FilterTypeOK
<1> QED
  BY <1>1, PodImplementsParts, GovernorTyped, HotswapTyped, PTL
=============================================================================
