------------------------------- MODULE Enrich -------------------------------
(***************************************************************************)
(* The inference path: a message of the INGEST stream is tallied, checked  *)
(* against the dedup store, judged by the admission governor, embedded and *)
(* published on ENRICHED (services/enrich), from where the db-writer puts  *)
(* it in Postgres (services/writer).                                       *)
(*                                                                         *)
(* The dedup store is the shared KV bucket, or one LRU in each process.    *)
(* The governor is a choice: its threshold is not state of this module.    *)
(* Relevance, entities and the embedding are data no property looks at.    *)
(***************************************************************************)
EXTENDS Naturals, Sequences

CONSTANTS Items,       \* INGEST messages
          Keys,        \* dedup keys
          KeyOf,       \* [Items -> Keys]: content_hash or text
          ClassOf,     \* [Items -> source classes]
          Mentioning,  \* SUBSET Items: the gazetteer finds the one entity in their text
          Replicas,    \* enrich pods
          NoItem,
          SharedKV,    \* SUBSET BOOLEAN: whether DEDUP_KV_BUCKET is set
          LruCap,      \* InMemoryDeduper.cap
          Faults       \* [FaultKinds -> Nat]: bound on each kind of failure

\* The last three belong to the tally flush (Tally).
FaultKinds == {"nak", "restart", "kv", "expiry", "stop", "flush", "insert"}

ASSUME KeyAssumption == KeyOf \in [Items -> Keys]
ASSUME NoItemAssumption == NoItem \notin Items
ASSUME CapAssumption == LruCap \in Nat \ {0}
ASSUME ModeAssumption == SharedKV \subseteq BOOLEAN
ASSUME FaultAssumption == Faults \in [FaultKinds -> Nat]

\* Every ingester prefixes or namespaces the keys of its own source.
ASSUME KeyClassAssumption ==
    \A i, j \in Items : KeyOf[i] = KeyOf[j] => ClassOf[i] = ClassOf[j]

VARIABLES
    inbox,      \* messages the enrich durable has not acked
    shared,     \* the pods share the bucket
    kv,         \* keys in the shared dedup bucket
    lru,        \* the in-memory keys of each process, oldest first
    pc, msg,    \* the handler of each process
    mentions,   \* filter.mentions of each process, for one entity
    published,  \* how often each item went out on ENRICHED
    rows,       \* items in Postgres
    left        \* failures that may still happen, by kind

bus   == <<inbox, published>>
store == <<shared, kv, lru>>
vars  == <<inbox, shared, kv, lru, pc, msg, mentions, published, rows, left>>

PCs == {"idle", "dedup", "publish", "ack"}

TypeOK ==
    /\ inbox \subseteq Items
    /\ shared \in BOOLEAN
    /\ kv \subseteq Keys
    /\ lru \in [Replicas -> Seq(Keys)]
    /\ pc \in [Replicas -> PCs]
    /\ msg \in [Replicas -> Items \cup {NoItem}]
    /\ mentions \in [Replicas -> Nat]
    /\ published \in [Items -> Nat]
    /\ rows \subseteq Items
    /\ left \in [FaultKinds -> Nat]

Init ==
    /\ inbox = Items
    /\ shared \in SharedKV
    /\ kv = {}
    /\ lru = [r \in Replicas |-> <<>>]
    /\ pc = [r \in Replicas |-> "idle"]
    /\ msg = [r \in Replicas |-> NoItem]
    /\ mentions = [r \in Replicas |-> 0]
    /\ published = [i \in Items |-> 0]
    /\ rows = {}
    /\ left = Faults

Fault(kind) == left[kind] > 0 /\ left' = [left EXCEPT ![kind] = @ - 1]

Goto(r, step) == pc' = [pc EXCEPT ![r] = step]

Release(r) == Goto(r, "idle") /\ msg' = [msg EXCEPT ![r] = NoItem]

Held(i) == \E r \in Replicas : msg[r] = i

\* AUTHORITATIVE and PRIMARY pass the governor untouched.
Bypasses(i) == ClassOf[i] \in {"authoritative", "primary"}

\* Mutant: every class can be shed.
JudgeAll(r) == Goto(r, "publish") \/ Goto(r, "ack")

\* Anything else is admitted, explored or shed.
Judge(r) ==
    \/ Goto(r, "publish")
    \/ ~Bypasses(msg[r]) /\ Goto(r, "ack")

----------------------------------------------------------------------------
(* Inference.handle                                                        *)

\* The message is fetched and tallied, then the dedup store is asked.  While
\* another process still holds it, it comes again when its ack wait expires.
Fetch(r, i) ==
    /\ pc[r] = "idle"
    /\ i \in inbox
    /\ \/ ~Held(i) /\ UNCHANGED left
       \/ Held(i) /\ Fault("expiry")
    /\ msg' = [msg EXCEPT ![r] = i]
    /\ mentions' = IF i \in Mentioning THEN [mentions EXCEPT ![r] = @ + 1] ELSE mentions
    /\ Goto(r, "dedup")
    /\ UNCHANGED <<bus, store, rows>>

Duplicate(r) ==
    /\ pc[r] = "dedup"
    /\ IF shared THEN KeyOf[msg[r]] \in kv
       ELSE \E n \in DOMAIN lru[r] : lru[r][n] = KeyOf[msg[r]]
    /\ Goto(r, "ack")
    /\ UNCHANGED <<bus, store, msg, mentions, rows, left>>

\* Mutant: the bucket is written with put, so a recorded key is no obstacle.
PutKey(r) ==
    /\ shared
    /\ pc[r] = "dedup"
    /\ kv' = kv \cup {KeyOf[msg[r]]}
    /\ Judge(r)
    /\ UNCHANGED <<bus, shared, lru, msg, mentions, rows, left>>

\* kv.create succeeded: this is the first sight of the key.
CreateKey(r) ==
    /\ shared
    /\ pc[r] = "dedup"
    /\ KeyOf[msg[r]] \notin kv
    /\ kv' = kv \cup {KeyOf[msg[r]]}
    /\ Judge(r)
    /\ UNCHANGED <<bus, shared, lru, msg, mentions, rows, left>>

\* Any other error of the bucket counts as a first sight ("fail open"); the key
\* may or may not have been recorded.
KvFails(r) ==
    /\ shared
    /\ pc[r] = "dedup"
    /\ Fault("kv")
    /\ kv' \in {kv, kv \cup {KeyOf[msg[r]]}}
    /\ Judge(r)
    /\ UNCHANGED <<bus, shared, lru, msg, mentions, rows>>

\* Mutant: the process remembers the message, not its content hash.
RememberMessage(r) ==
    /\ ~shared
    /\ pc[r] = "dedup"
    /\ \A n \in DOMAIN lru[r] : lru[r][n] # msg[r]
    /\ lru' = [lru EXCEPT ![r] = IF Len(@) >= LruCap THEN Append(Tail(@), msg[r])
                                 ELSE Append(@, msg[r])]
    /\ Judge(r)
    /\ UNCHANGED <<bus, shared, kv, msg, mentions, rows, left>>

\* InMemoryDeduper.seen: append, then evict the oldest beyond cap.
RememberKey(r) ==
    /\ ~shared
    /\ pc[r] = "dedup"
    /\ \A n \in DOMAIN lru[r] : lru[r][n] # KeyOf[msg[r]]
    /\ lru' = [lru EXCEPT ![r] =
          IF Len(@) >= LruCap THEN Append(Tail(@), KeyOf[msg[r]])
          ELSE Append(@, KeyOf[msg[r]])]
    /\ Judge(r)
    /\ UNCHANGED <<bus, shared, kv, msg, mentions, rows, left>>

Publish(r) ==
    /\ pc[r] = "publish"
    /\ published' = [published EXCEPT ![msg[r]] = @ + 1]
    /\ Goto(r, "ack")
    /\ UNCHANGED <<inbox, store, msg, mentions, rows, left>>

Ack(r) ==
    /\ pc[r] = "ack"
    /\ inbox' = inbox \ {msg[r]}
    /\ Release(r)
    /\ UNCHANGED <<store, mentions, published, rows, left>>

\* The handler raises and the message is naked, or its ack is lost.
Nak(r) ==
    /\ pc[r] # "idle"
    /\ Fault("nak")
    /\ Release(r)
    /\ UNCHANGED <<bus, store, mentions, rows>>

\* Mutant: the in-memory keys outlive the process.
RestartKeepsLru(r) ==
    /\ Fault("restart")
    /\ Release(r)
    /\ mentions' = [mentions EXCEPT ![r] = 0]
    /\ UNCHANGED <<bus, store, rows>>

\* The process dies and comes back; only the broker and the bucket remember.
Restart(r) ==
    /\ Fault("restart")
    /\ Release(r)
    /\ lru' = [lru EXCEPT ![r] = <<>>]
    /\ mentions' = [mentions EXCEPT ![r] = 0]
    /\ UNCHANGED <<bus, shared, kv, rows>>

Handler(r) ==
    \/ \E i \in Items : Fetch(r, i)
    \/ Duplicate(r) \/ CreateKey(r) \/ RememberKey(r)
    \/ Publish(r) \/ Ack(r)

\* What a process that lives may do with its message.
Delivery(r) == Handler(r) \/ KvFails(r) \/ Nak(r)

----------------------------------------------------------------------------
(* Writer.handle: INSERT ... ON CONFLICT DO NOTHING, so that a redelivery  *)
(* changes nothing.                                                        *)

StoreItem(i) ==
    /\ published[i] > 0
    /\ i \notin rows
    /\ rows' = rows \cup {i}
    /\ UNCHANGED <<bus, store, pc, msg, mentions, left>>

----------------------------------------------------------------------------

Next ==
    \/ \E r \in Replicas : Delivery(r) \/ Restart(r)
    \/ \E i \in Items : StoreItem(i)

Spec == Init /\ [][Next]_vars

\* The pods run, the broker delivers and Postgres comes back.
Fairness ==
    /\ \A r \in Replicas : WF_vars(Handler(r))
    /\ \A i \in Items : WF_vars(StoreItem(i))

FairSpec == Spec /\ Fairness

----------------------------------------------------------------------------
(* Properties                                                              *)

\* As long as the bucket answers, a key is embedded and published at most once,
\* by whichever replica, however often its messages are redelivered: "collapse
\* copypasta to a single embedded representative" (libs/dedup).
SingleRepresentative ==
    shared /\ left["kv"] = Faults["kv"] =>
        \A i, j \in Items :
            /\ published[i] <= 1
            /\ KeyOf[i] = KeyOf[j] /\ published[i] > 0 /\ published[j] > 0 => i = j

\* No item of a bypassing class is acked while nothing stands for its key: it, or
\* a copy, was published or will be delivered again ("keep every authoritative
\* item", PLAN.md).
AuthoritativeKept ==
    \A i \in Items \ inbox : Bypasses(i) =>
        \E j \in Items : KeyOf[j] = KeyOf[i] /\ (published[j] > 0 \/ j \in inbox)

\* No nak and, where the bucket outlives its pods, no restart.
CarriedThrough ==
    \A kind \in {"nak"} \cup (IF shared THEN {"restart"} ELSE {}) : left[kind] = Faults[kind]

\* While no handler is cut off between the record of a key and the publish, such an
\* item is kept, though a copy can be acked before the first is out: through copies at
\* two pods, expired ack waits, an LRU that evicts, a bucket that fails and, as keys in
\* memory die with the process, through restarts.
AuthoritativeSurvives ==
    CarriedThrough =>
        \A i \in Items \ inbox : Bypasses(i) =>
            \E j \in Items :
                /\ KeyOf[j] = KeyOf[i]
                /\ \/ published[j] > 0 \/ j \in inbox
                   \/ \E r \in Replicas : pc[r] = "publish" /\ msg[r] = j

\* ... and what stands for it reaches Postgres in the end.
AuthoritativeStored ==
    []CarriedThrough =>
        \A i \in Items : Bypasses(i) => <>(\E j \in rows : KeyOf[j] = KeyOf[i])
=============================================================================
