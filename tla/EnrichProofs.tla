---------------------------- MODULE EnrichProofs ----------------------------
(***************************************************************************)
(* What holds of Enrich for every set of messages, keys and replicas.      *)
(***************************************************************************)
EXTENDS Enrich, TLAPS

----------------------------------------------------------------------------
(* Types                                                                   *)

\* A handler that runs has a message.
Typed ==
    /\ TypeOK
    /\ \A r \in Replicas : pc[r] # "idle" => msg[r] \in Items

\* The LRU stays a sequence of keys when it evicts.
LEMMA EvictType ==
    ASSUME NEW q \in Seq(Keys), NEW k \in Keys
    PROVE  (IF Len(q) >= LruCap THEN Append(Tail(q), k) ELSE Append(q, k)) \in Seq(Keys)
<1>1. Len(q) >= LruCap => q # <<>>
  BY CapAssumption
<1>2. q # <<>> => Tail(q) \in Seq(Keys)
  OBVIOUS
<1> QED
  BY <1>1, <1>2

\* The governor moves the handler to "publish" or "ack" and nothing else.
LEMMA JudgeMoves ==
    ASSUME Typed, NEW r \in Replicas, Judge(r)
    PROVE  /\ pc' \in [Replicas -> PCs]
           /\ pc'[r] \in {"publish", "ack"}
           /\ \A d \in Replicas \ {r} : pc'[d] = pc[d]
<1>1. CASE Goto(r, "publish")
  BY <1>1 DEF Typed, TypeOK, PCs, Goto
<1>2. CASE Goto(r, "ack")
  BY <1>2 DEF Typed, TypeOK, PCs, Goto
<1> QED
  BY <1>1, <1>2 DEF Judge

\* Every step keeps the types.
LEMMA TypedStep == Typed /\ [Next]_vars => Typed'
<1> SUFFICES ASSUME Typed, [Next]_vars PROVE Typed'
  OBVIOUS
<1> USE KeyAssumption
    DEF Typed, TypeOK, PCs, FaultKinds, Fault, Goto, Release, bus, store
<1>1. ASSUME NEW r \in Replicas, NEW i \in Items, Fetch(r, i) PROVE Typed'
  BY <1>1 DEF Fetch
<1>2. ASSUME NEW r \in Replicas, Duplicate(r) PROVE Typed'
  BY <1>2 DEF Duplicate
<1>3. ASSUME NEW r \in Replicas, CreateKey(r) PROVE Typed'
  BY <1>3, JudgeMoves DEF CreateKey
<1>4. ASSUME NEW r \in Replicas, KvFails(r) PROVE Typed'
  BY <1>4, JudgeMoves DEF KvFails
<1>5. ASSUME NEW r \in Replicas, RememberKey(r) PROVE Typed'
  <2>1. lru' \in [Replicas -> Seq(Keys)]
    BY <1>5, EvictType DEF RememberKey
  <2> QED
    BY <1>5, <2>1, JudgeMoves DEF RememberKey
<1>6. ASSUME NEW r \in Replicas, Publish(r) PROVE Typed'
  BY <1>6 DEF Publish
<1>7. ASSUME NEW r \in Replicas, Ack(r) PROVE Typed'
  BY <1>7 DEF Ack
<1>8. ASSUME NEW r \in Replicas, Nak(r) PROVE Typed'
  BY <1>8 DEF Nak
<1>9. ASSUME NEW r \in Replicas, Restart(r) PROVE Typed'
  BY <1>9 DEF Restart
<1>10. ASSUME NEW i \in Items, StoreItem(i) PROVE Typed'
  BY <1>10 DEF StoreItem
<1>11. CASE UNCHANGED vars
  BY <1>11 DEF vars
<1> QED
  BY <1>1, <1>2, <1>3, <1>4, <1>5, <1>6, <1>7, <1>8, <1>9, <1>10, <1>11
     DEF Next, Delivery, Handler

\* Every reachable state is typed, and a handler that runs has a message.
THEOREM AlwaysTyped == Spec => []Typed
<1>1. Init => Typed
  BY FaultAssumption, ModeAssumption DEF Init, Typed, TypeOK, PCs
<1> QED
  BY <1>1, TypedStep, PTL DEF Spec

\* The variables of Enrich keep the types that TypeOK gives them.
THEOREM TypeCorrect == Spec => []TypeOK
<1>1. Typed => TypeOK
  BY DEF Typed
<1> QED
  BY <1>1, AlwaysTyped, PTL

----------------------------------------------------------------------------
(* One representative per key                                              *)

\* Failures are used up, never given back.
Spent == \A kind \in FaultKinds : left[kind] <= Faults[kind]

LEMMA NothingGivenBack ==
    ASSUME Typed, [Next]_vars, NEW k \in FaultKinds
    PROVE  left[k] \in Nat /\ left'[k] \in Nat /\ left'[k] <= left[k]
<1>1. left' = left \/ \E kind \in FaultKinds : Fault(kind)
  BY DEF Next, Delivery, Handler, Fetch, Duplicate, CreateKey, KvFails, RememberKey, Publish,
         Ack, Nak, Restart, StoreItem, vars, FaultKinds
<1>2. left[k] \in Nat /\ left \in [FaultKinds -> Nat]
  BY DEF Typed, TypeOK
<1>3. ASSUME NEW kind \in FaultKinds, Fault(kind) PROVE left'[k] \in Nat /\ left'[k] <= left[k]
  BY <1>2, <1>3 DEF Fault
<1> QED
  BY <1>1, <1>2, <1>3

LEMMA AlwaysSpent == Spec => []Spent
<1>1. Init => Spent
  BY FaultAssumption DEF Init, Spent
<1>2. Typed /\ Spent /\ [Next]_vars => Spent'
  <2> SUFFICES ASSUME Typed, Spent, [Next]_vars, NEW kind \in FaultKinds
               PROVE  left'[kind] <= Faults[kind]
    BY DEF Spent
  <2>1. left'[kind] <= left[kind] /\ left[kind] \in Nat /\ left'[kind] \in Nat
    BY NothingGivenBack
  <2> QED
    BY <2>1, FaultAssumption DEF Spent
<1> QED
  BY <1>1, <1>2, AlwaysTyped, PTL DEF Spec

BucketHeld == shared /\ left["kv"] = Faults["kv"]

\* A key that was published, or is about to be, is in the bucket; at most one
\* handler is about to publish it, and none once it was published.
Exclusive ==
    BucketHeld =>
        /\ SingleRepresentative
        /\ \A i \in Items : published[i] > 0 => KeyOf[i] \in kv
        /\ \A r \in Replicas : pc[r] = "publish" =>
              /\ KeyOf[msg[r]] \in kv
              /\ \A i \in Items : KeyOf[i] = KeyOf[msg[r]] => published[i] = 0
              /\ \A d \in Replicas \ {r} :
                    pc[d] = "publish" => KeyOf[msg[d]] # KeyOf[msg[r]]

\* As long as the shared bucket answers, no key goes out twice, for any number of
\* replicas, naks, restarts and redeliveries (NatsKvDeduper.seen).
THEOREM OneRepresentative == Spec => []SingleRepresentative
<1>1. Init => Exclusive
  BY DEF Init, Exclusive, SingleRepresentative
<1>2. Typed /\ Spent /\ Exclusive /\ [Next]_vars => Exclusive'
  <2> SUFFICES ASSUME Typed, Spent, Exclusive, [Next]_vars, BucketHeld' PROVE Exclusive'
    BY DEF Exclusive
  <2> USE KeyAssumption DEF BucketHeld, Exclusive, SingleRepresentative
  <2>1. ASSUME NEW r \in Replicas, NEW i \in Items, Fetch(r, i) PROVE Exclusive'
    BY <2>1 DEF Fetch, Fault, Goto, bus, store, Typed, TypeOK, FaultKinds
  <2>2. ASSUME NEW r \in Replicas, Duplicate(r) PROVE Exclusive'
    BY <2>2 DEF Duplicate, Goto, bus, store, Typed, TypeOK
  <2>3. ASSUME NEW r \in Replicas, CreateKey(r) PROVE Exclusive'
    BY <2>3, JudgeMoves DEF CreateKey, bus, Typed, TypeOK
  <2>4. ASSUME NEW r \in Replicas, KvFails(r) PROVE Exclusive'
    BY <2>4, FaultAssumption DEF KvFails, Fault, Spent, Typed, TypeOK, FaultKinds
  <2>5. ASSUME NEW r \in Replicas, RememberKey(r) PROVE Exclusive'
    BY <2>5 DEF RememberKey
  <2>6. ASSUME NEW r \in Replicas, Publish(r) PROVE Exclusive'
    <3> DEFINE i == msg[r]
    <3> USE <2>6 DEF Publish, Goto, store, Typed, TypeOK
    <3>1. /\ BucketHeld
          /\ i \in Items
          /\ published[i] = 0 /\ published'[i] = 1
          /\ \A j \in Items \ {i} : published'[j] = published[j]
          /\ kv' = kv /\ msg' = msg
      OBVIOUS
    <3>2. /\ \A d \in Replicas \ {r} : pc'[d] = pc[d]
          /\ pc'[r] = "ack"
      OBVIOUS
    <3>3. SingleRepresentative'
      <4>1. \A j \in Items : KeyOf[j] = KeyOf[i] => published[j] = 0
        OBVIOUS
      <4> HIDE DEF i, Publish
      <4>0. \A j \in Items : published[j] \in 0..1
        BY <3>1
      <4>2. ASSUME NEW j \in Items PROVE published'[j] <= 1
        <5>1. CASE j = i
          BY <3>1, <5>1
        <5>2. CASE j # i
          BY <3>1, <4>0, <5>2
        <5> QED
          BY <5>1, <5>2
      <4>3. ASSUME NEW j \in Items, NEW k \in Items, KeyOf[j] = KeyOf[k],
                   published'[j] > 0, published'[k] > 0
            PROVE  j = k
        <5>1. (j # i => published[j] > 0) /\ (k # i => published[k] > 0)
          BY <3>1, <4>3
        <5>2. CASE j # i /\ k # i
          BY <5>1, <5>2, <4>3, <3>1
        <5>3. CASE j = i /\ k # i
          BY <5>1, <5>3, <4>1, <4>3
        <5>4. CASE k = i /\ j # i
          BY <5>1, <5>4, <4>1, <4>3
        <5> QED
          BY <5>2, <5>3, <5>4
      <4> QED
        BY <4>2, <4>3
    <3>4. \A j \in Items : published'[j] > 0 => KeyOf[j] \in kv'
      BY <3>1
    <3>5. ASSUME NEW d \in Replicas, pc'[d] = "publish"
          PROVE  /\ d # r /\ pc[d] = "publish" /\ msg'[d] = msg[d]
                 /\ KeyOf[msg[d]] # KeyOf[i]
      BY <3>1, <3>2, <3>5
    <3> QED
      BY <3>1, <3>2, <3>3, <3>4, <3>5
  <2>7. ASSUME NEW r \in Replicas, Ack(r) PROVE Exclusive'
    BY <2>7 DEF Ack, Release, Goto, store, Typed, TypeOK
  <2>8. ASSUME NEW r \in Replicas, Nak(r) PROVE Exclusive'
    BY <2>8 DEF Nak, Fault, Release, Goto, bus, store, Typed, TypeOK, FaultKinds
  <2>9. ASSUME NEW r \in Replicas, Restart(r) PROVE Exclusive'
    BY <2>9 DEF Restart, Fault, Release, Goto, bus, Typed, TypeOK, FaultKinds
  <2>10. ASSUME NEW i \in Items, StoreItem(i) PROVE Exclusive'
    BY <2>10 DEF StoreItem, bus, store
  <2>11. CASE UNCHANGED vars
    BY <2>11 DEF vars
  <2> QED
    BY <2>1, <2>2, <2>3, <2>4, <2>5, <2>6, <2>7, <2>8, <2>9, <2>10, <2>11
       DEF Next, Delivery, Handler
<1>3. Exclusive => SingleRepresentative
  BY DEF Exclusive, BucketHeld, SingleRepresentative
<1> QED
  BY <1>1, <1>2, <1>3, AlwaysTyped, AlwaysSpent, PTL DEF Spec
----------------------------------------------------------------------------
(* What bypasses the governor                                              *)

\* Keys of a bypassing class.
Bound == {KeyOf[i] : i \in {j \in Items : Bypasses(j)}}

\* Keys that went out on ENRICHED, keys that a pod is about to publish, and keys
\* in the memory of a pod.
Out == {KeyOf[i] : i \in {j \in Items : published[j] > 0}}
Due == [r \in Replicas |-> IF pc[r] = "publish" THEN {KeyOf[msg[r]]} ELSE {}]
Memory == [r \in Replicas |-> {lru[r][n] : n \in DOMAIN lru[r]}]

\* In memory a pod that restarts takes its key along, so that only a publish counts.
Safe == {k \in Keys : k \in Out \/ (shared /\ \E r \in Replicas : k \in Due[r])}

Acked == \A i \in Items \ inbox : KeyOf[i] \in Bound => KeyOf[i] \in Safe
Acking == \A r \in Replicas : pc[r] = "ack" /\ KeyOf[msg[r]] \in Bound => KeyOf[msg[r]] \in Safe
InBucket == shared => \A k \in kv \cap Bound : k \in Safe
InMemory == ~shared => \A r \in Replicas : \A k \in Memory[r] \cap Bound : k \in Out \cup Due[r]

\* What is acked, is about to be, or would be a duplicate now, is published or about
\* to be: with the bucket by any pod, in memory by the pod that remembers the key.
Kept == CarriedThrough => Acked /\ Acking /\ InBucket /\ InMemory

LEMMA BoundIsBypassing ==
    ASSUME NEW i \in Items
    PROVE  KeyOf[i] \in Bound <=> Bypasses(i)
  BY KeyClassAssumption DEF Bound, Bypasses

\* What an LRU holds after an insert was there or is the new key.
LEMMA EvictKeeps ==
    ASSUME NEW q \in Seq(Keys), NEW key \in Keys, NEW p,
           p = IF Len(q) >= LruCap THEN Append(Tail(q), key) ELSE Append(q, key),
           NEW n \in DOMAIN p
    PROVE  p[n] = key \/ \E m \in DOMAIN q : p[n] = q[m]
<1>1. CASE Len(q) >= LruCap
  <2>1. q # <<>> /\ Len(q) \in Nat
    BY <1>1, CapAssumption
  <2> DEFINE t == Tail(q)
  <2>2. t \in Seq(Keys) /\ Len(t) = Len(q) - 1
    BY <2>1
  <2>3. \A m \in 1..Len(t) : t[m] = q[m + 1] /\ m + 1 \in DOMAIN q
    BY <2>1
  <2>4. p = Append(t, key)
    BY <1>1
  <2> HIDE DEF t
  <2>5. n \in 1..(Len(t) + 1) /\ (n = Len(t) + 1 => p[n] = key) /\ (n <= Len(t) => p[n] = t[n])
    BY <2>2, <2>4
  <2>6. CASE n <= Len(t)
    BY <2>2, <2>3, <2>5, <2>6
  <2> QED
    BY <2>2, <2>5, <2>6
<1>2. CASE ~(Len(q) >= LruCap)
  <2>1. p = Append(q, key)
    BY <1>2
  <2>2. n \in 1..(Len(q) + 1) /\ (n = Len(q) + 1 => p[n] = key) /\ (n <= Len(q) => p[n] = q[n])
    BY <2>1
  <2>3. n <= Len(q) => n \in DOMAIN q
    BY <2>2
  <2> QED
    BY <2>2, <2>3
<1> QED
  BY <1>1, <1>2

\* A step that cuts no handler off keeps what is published or about to be.
LEMMA SafeStays ==
    ASSUME Typed, NEW r \in Replicas, Handler(r) \/ KvFails(r)
    PROVE  /\ Out \subseteq Out'
           /\ \A d \in Replicas : Due[d] \subseteq Due'[d] \cup Out'
           /\ Safe \subseteq Safe'
<1>1. shared' = shared
  BY DEF Handler, Fetch, Duplicate, CreateKey, RememberKey, Publish, Ack, KvFails, store
<1>2. /\ published \in [Items -> Nat] /\ pc \in [Replicas -> PCs]
      /\ msg \in [Replicas -> Items \cup {NoItem}]
      /\ pc[r] # "idle" => msg[r] \in Items
  BY DEF Typed, TypeOK
<1>3. /\ Out \subseteq Out'
      /\ \A d \in Replicas : Due[d] \subseteq Due'[d] \cup Out'
  <2>1. CASE Publish(r)
    <3>1. /\ published' = [published EXCEPT ![msg[r]] = @ + 1] /\ msg' = msg
          /\ \A d \in Replicas \ {r} : pc'[d] = pc[d]
          /\ msg[r] \in Items
      BY <1>2, <2>1 DEF Publish, Goto, PCs
    <3>2. \A j \in Items : published[j] > 0 => published'[j] > 0
      BY <1>2, <3>1
    <3>3. published'[msg[r]] > 0
      BY <1>2, <3>1
    <3> QED
      BY <3>1, <3>2, <3>3 DEF Out, Due
  <2>2. CASE ~Publish(r)
    <3>1. published' = published
      BY <2>2 DEF Handler, Fetch, Duplicate, CreateKey, RememberKey, Ack, KvFails, bus
    <3>2. pc[r] # "publish"
      BY <2>2 DEF Handler, Fetch, Duplicate, CreateKey, RememberKey, Ack, KvFails
    <3>3. \A d \in Replicas \ {r} : pc'[d] = pc[d] /\ msg'[d] = msg[d]
      BY <1>2, <2>2, JudgeMoves
         DEF Handler, Fetch, Duplicate, CreateKey, RememberKey, Ack, KvFails, Goto, Release
    <3> QED
      BY <3>1, <3>2, <3>3 DEF Out, Due
  <2> QED
    BY <2>1, <2>2
<1> QED
  BY <1>1, <1>3 DEF Safe

\* The first sight of a key: an item that bypasses is about to be published.
LEMMA FirstSight ==
    ASSUME Typed, NEW r \in Replicas, pc[r] = "dedup", Judge(r), msg' = msg,
           KeyOf[msg[r]] \in Bound
    PROVE  KeyOf[msg[r]] \in Due'[r] /\ pc'[r] = "publish"
<1>1. msg[r] \in Items /\ pc \in [Replicas -> PCs]
  BY DEF Typed, TypeOK
<1>2. Bypasses(msg[r])
  BY <1>1, BoundIsBypassing
<1>3. pc'[r] = "publish"
  BY <1>1, <1>2 DEF Judge, Goto
<1> QED
  BY <1>3 DEF Due

\* Whatever copies are at two pods, ack waits expire, keys are evicted, the bucket fails
\* or pods with keys in memory restart: while no handler is cut off between its key and
\* its publish (Inference.handle), no item that bypasses the governor is lost.
THEOREM NothingAuthoritativeIsLost == Spec => []AuthoritativeSurvives
<1>1. Init => Kept
  BY DEF Init, Kept, Acked, Acking, InBucket, InMemory, Memory
<1>2. Typed /\ Spent /\ Kept /\ [Next]_vars => Kept'
  <2> SUFFICES ASSUME Typed, Spent, Kept, [Next]_vars, CarriedThrough'
               PROVE  Acked' /\ Acking' /\ InBucket' /\ InMemory'
    BY DEF Kept
  <2> USE KeyAssumption
  <2>0. shared' = shared
    BY DEF Next, Delivery, Handler, Fetch, Duplicate, CreateKey, KvFails, RememberKey, Publish,
           Ack, Nak, Restart, StoreItem, bus, store, vars
  <2>1. CarriedThrough
    <3> SUFFICES ASSUME NEW kind \in {"nak"} \cup (IF shared THEN {"restart"} ELSE {})
                 PROVE  left[kind] = Faults[kind]
      BY DEF CarriedThrough
    <3>1. kind \in FaultKinds
      BY DEF FaultKinds
    <3>2. left'[kind] = Faults[kind]
      BY <2>0 DEF CarriedThrough
    <3>3. left[kind] <= Faults[kind] /\ left'[kind] <= left[kind] /\ left[kind] \in Nat
      BY <3>1, NothingGivenBack DEF Spent
    <3> QED
      BY <3>1, <3>2, <3>3, FaultAssumption
  <2>2. Acked /\ Acking /\ InBucket /\ InMemory
    BY <2>1 DEF Kept
  <2>3. /\ pc \in [Replicas -> PCs] /\ msg \in [Replicas -> Items \cup {NoItem}]
        /\ lru \in [Replicas -> Seq(Keys)] /\ published \in [Items -> Nat]
        /\ inbox \subseteq Items
        /\ \A r \in Replicas : pc[r] # "idle" => msg[r] \in Items
    BY DEF Typed, TypeOK
  <2>4. ASSUME NEW r \in Replicas, Handler(r) \/ KvFails(r)
        PROVE  Acked' /\ Acking' /\ InBucket' /\ InMemory'
    <3>1. /\ Out \subseteq Out' /\ Safe \subseteq Safe'
          /\ \A d \in Replicas : Due[d] \subseteq Due'[d] \cup Out'
      BY <2>4, SafeStays
    <3>2. \A d \in Replicas \ {r} : pc'[d] = pc[d] /\ msg'[d] = msg[d]
      BY <2>3, <2>4, JudgeMoves
         DEF Handler, Fetch, Duplicate, CreateKey, RememberKey, Publish, Ack, KvFails, Goto, Release
    <3>3. ASSUME \A i \in inbox \ inbox' : KeyOf[i] \in Bound => KeyOf[i] \in Safe'
          PROVE  Acked'
      BY <2>2, <3>1, <3>3 DEF Acked
    <3>4. ASSUME pc'[r] = "ack" /\ KeyOf[msg'[r]] \in Bound => KeyOf[msg'[r]] \in Safe'
          PROVE  Acking'
      BY <2>2, <3>1, <3>2, <3>4 DEF Acking
    <3>5. ASSUME kv' = kv PROVE InBucket'
      BY <2>0, <2>2, <3>1, <3>5 DEF InBucket
    <3>6. ASSUME lru' = lru PROVE InMemory'
      <4>1. Memory' = Memory
        BY <3>6 DEF Memory
      <4> QED
        BY <2>0, <2>2, <3>1, <4>1 DEF InMemory
    <3>7. CASE \E i \in Items : Fetch(r, i)
      <4>1. inbox' = inbox /\ UNCHANGED <<kv, lru>> /\ pc'[r] # "ack"
        BY <2>3, <3>7 DEF Fetch, Goto, bus, store
      <4> QED
        BY <3>3, <3>4, <3>5, <3>6, <4>1
    <3>8. CASE Duplicate(r)
      <4>1. /\ inbox' = inbox /\ UNCHANGED <<kv, lru, msg>> /\ pc[r] = "dedup"
            /\ IF shared THEN KeyOf[msg[r]] \in kv
               ELSE \E n \in DOMAIN lru[r] : lru[r][n] = KeyOf[msg[r]]
        BY <3>8 DEF Duplicate, bus, store
      <4>2. Due[r] = {} /\ KeyOf[msg[r]] \in Keys
        BY <2>3, <4>1 DEF Due
      <4>3. ASSUME KeyOf[msg[r]] \in Bound PROVE KeyOf[msg[r]] \in Safe
        <5>1. CASE shared
          BY <2>2, <4>1, <4>3, <5>1 DEF InBucket
        <5>2. CASE ~shared
          <6>1. KeyOf[msg[r]] \in Memory[r]
            BY <4>1, <5>2 DEF Memory
          <6>2. KeyOf[msg[r]] \in Out
            BY <2>2, <4>2, <4>3, <5>2, <6>1 DEF InMemory
          <6> QED
            BY <4>2, <6>2 DEF Safe
        <5> QED
          BY <5>1, <5>2
      <4> QED
        BY <3>1, <3>3, <3>4, <3>5, <3>6, <4>1, <4>3
    <3>9. CASE CreateKey(r) \/ KvFails(r)
      <4>1. /\ UNCHANGED <<inbox, lru, msg>> /\ shared /\ pc[r] = "dedup" /\ Judge(r)
            /\ kv' \subseteq kv \cup {KeyOf[msg[r]]}
        BY <3>9 DEF CreateKey, KvFails, bus
      <4>2. KeyOf[msg[r]] \in Bound => KeyOf[msg[r]] \in Due'[r] /\ pc'[r] = "publish"
        BY <4>1, FirstSight
      <4>3. KeyOf[msg[r]] \in Bound => KeyOf[msg[r]] \in Safe'
        BY <2>0, <2>3, <4>1, <4>2 DEF Safe
      <4>4. InBucket'
        BY <2>2, <3>1, <4>1, <4>3 DEF InBucket
      <4> QED
        BY <3>3, <3>4, <3>6, <4>1, <4>3, <4>4
    <3>10. CASE RememberKey(r)
      <4> DEFINE key == KeyOf[msg[r]]
      <4>1. /\ UNCHANGED <<inbox, kv, msg>> /\ ~shared /\ pc[r] = "dedup" /\ Judge(r)
            /\ \A d \in Replicas \ {r} : lru'[d] = lru[d]
            /\ lru'[r] = IF Len(lru[r]) >= LruCap THEN Append(Tail(lru[r]), key)
                         ELSE Append(lru[r], key)
        BY <2>3, <3>10 DEF RememberKey, bus
      <4>2. key \in Bound => key \in Due'[r] /\ pc'[r] = "publish"
        BY <4>1, FirstSight
      <4>3. key \in Keys /\ lru[r] \in Seq(Keys)
        BY <2>3, <4>1
      <4>4. \A n \in DOMAIN lru'[r] : lru'[r][n] = key \/ \E m \in DOMAIN lru[r] : lru'[r][n] = lru[r][m]
        <5> HIDE DEF key
        <5> QED
          BY <4>1, <4>3, EvictKeeps
      <4>5. /\ Memory'[r] \subseteq Memory[r] \cup {key}
            /\ \A d \in Replicas \ {r} : Memory'[d] = Memory[d]
        <5>1. \A d \in Replicas : /\ Memory[d] = {lru[d][n] : n \in DOMAIN lru[d]}
                                  /\ Memory'[d] = {lru'[d][n] : n \in DOMAIN lru'[d]}
          BY DEF Memory
        <5>2. \A d \in Replicas \ {r} : Memory'[d] = Memory[d]
          <6> SUFFICES ASSUME NEW d \in Replicas \ {r} PROVE Memory'[d] = Memory[d]
            OBVIOUS
          <6>1. lru'[d] = lru[d]
            BY <4>1
          <6> QED
            BY <6>1 DEF Memory
        <5>3. Memory'[r] \subseteq Memory[r] \cup {key}
          <6> SUFFICES ASSUME NEW n \in DOMAIN lru'[r] PROVE lru'[r][n] \in Memory[r] \cup {key}
            BY <5>1
          <6> QED
            BY <4>4, <5>1
        <5> QED
          BY <5>2, <5>3
      <4>6. InMemory'
        BY <2>0, <2>2, <3>1, <4>2, <4>1, <4>5 DEF InMemory
      <4>7. pc'[r] = "ack" /\ KeyOf[msg'[r]] \in Bound => KeyOf[msg'[r]] \in Safe'
        BY <4>1, <4>2
      <4> QED
        BY <3>3, <3>4, <3>5, <4>1, <4>6, <4>7
    <3>11. CASE Publish(r)
      <4>1. /\ inbox' = inbox /\ UNCHANGED <<kv, lru, msg>> /\ msg[r] \in Items
            /\ published' = [published EXCEPT ![msg[r]] = @ + 1]
        BY <2>3, <3>11 DEF Publish, store, PCs
      <4>2. published'[msg[r]] > 0
        BY <2>3, <4>1
      <4>3. KeyOf[msg[r]] \in Safe'
        BY <4>1, <4>2 DEF Safe, Out
      <4> QED
        BY <3>3, <3>4, <3>5, <3>6, <4>1, <4>3
    <3>12. CASE Ack(r)
      <4>1. /\ inbox' = inbox \ {msg[r]} /\ UNCHANGED <<kv, lru>> /\ pc[r] = "ack" /\ pc'[r] = "idle"
        BY <2>3, <3>12 DEF Ack, Release, Goto, store
      <4>2. \A i \in inbox \ inbox' : KeyOf[i] \in Bound => KeyOf[i] \in Safe'
        BY <2>2, <3>1, <4>1 DEF Acking
      <4> QED
        BY <3>3, <3>4, <3>5, <3>6, <4>1, <4>2
    <3> QED
      BY <2>4, <3>7, <3>8, <3>9, <3>10, <3>11, <3>12 DEF Handler
  <2>5. ASSUME NEW r \in Replicas, Nak(r) PROVE FALSE
    <3>1. left["nak"] = Faults["nak"] /\ left'["nak"] = Faults["nak"]
      BY <2>1 DEF CarriedThrough
    <3>2. left \in [FaultKinds -> Nat] /\ left' = [left EXCEPT !["nak"] = @ - 1]
      BY <2>5 DEF Nak, Fault, Typed, TypeOK
    <3> QED
      BY <3>1, <3>2 DEF FaultKinds
  <2>6. ASSUME NEW r \in Replicas, Restart(r)
        PROVE  Acked' /\ Acking' /\ InBucket' /\ InMemory'
    <3>1. ~shared
      <4>1. shared => left["restart"] = Faults["restart"] /\ left'["restart"] = Faults["restart"]
        BY <2>0, <2>1 DEF CarriedThrough
      <4>2. left \in [FaultKinds -> Nat] /\ left' = [left EXCEPT !["restart"] = @ - 1]
        BY <2>6 DEF Restart, Fault, Typed, TypeOK
      <4> QED
        BY <4>1, <4>2 DEF FaultKinds
    <3>2. /\ UNCHANGED <<inbox, published>> /\ pc'[r] = "idle" /\ lru'[r] = <<>>
          /\ \A d \in Replicas \ {r} : pc'[d] = pc[d] /\ msg'[d] = msg[d] /\ lru'[d] = lru[d]
      BY <2>3, <2>6 DEF Restart, Release, Goto, bus
    <3>3. /\ Out' = Out /\ \A d \in Replicas \ {r} : Due'[d] = Due[d] /\ Memory'[d] = Memory[d]
          /\ Memory'[r] = {}
      <4>1. Out' = Out /\ \A d \in Replicas \ {r} : Due'[d] = Due[d]
        BY <3>2 DEF Out, Due
      <4>2. ASSUME NEW d \in Replicas \ {r} PROVE Memory'[d] = Memory[d]
        <5>1. lru'[d] = lru[d]
          BY <3>2
        <5> QED
          BY <5>1 DEF Memory
      <4>3. Memory'[r] = {}
        BY <3>2 DEF Memory
      <4> QED
        BY <4>1, <4>2, <4>3
    <3>4. Safe' = Safe
      BY <2>0, <3>1, <3>3 DEF Safe
    <3> QED
      BY <2>0, <2>2, <3>1, <3>2, <3>3, <3>4 DEF Acked, Acking, InBucket, InMemory
  <2>7. ASSUME UNCHANGED <<inbox, shared, kv, lru, pc, msg, published>>
        PROVE  Acked' /\ Acking' /\ InBucket' /\ InMemory'
    <3>1. Out' = Out /\ Due' = Due /\ Memory' = Memory
      BY <2>7 DEF Out, Due, Memory
    <3>2. Safe' = Safe
      BY <2>7, <3>1 DEF Safe
    <3> QED
      BY <2>2, <2>7, <3>1, <3>2 DEF Acked, Acking, InBucket, InMemory
  <2> QED
    BY <2>4, <2>5, <2>6, <2>7 DEF Next, Delivery, StoreItem, bus, store, vars
<1>3. Typed /\ Kept => AuthoritativeSurvives
  <2> SUFFICES ASSUME Typed, Kept, CarriedThrough, NEW i \in Items \ inbox, Bypasses(i)
               PROVE  \E j \in Items :
                         /\ KeyOf[j] = KeyOf[i]
                         /\ \/ published[j] > 0 \/ j \in inbox
                            \/ \E r \in Replicas : pc[r] = "publish" /\ msg[r] = j
    BY DEF AuthoritativeSurvives
  <2>1. KeyOf[i] \in Safe
    BY BoundIsBypassing DEF Kept, Acked
  <2>2. \A r \in Replicas : pc[r] = "publish" => msg[r] \in Items
    BY DEF Typed
  <2> QED
    BY <2>1, <2>2 DEF Safe, Out, Due
<1> QED
  BY <1>1, <1>2, <1>3, AlwaysTyped, AlwaysSpent, PTL DEF Spec
=============================================================================
