------------------------------- MODULE Cluster -------------------------------
(***************************************************************************)
(* The clustering path: the db-writer's item rows, the cluster service     *)
(* (services/cluster), the Stories it keeps in Postgres, the claims it     *)
(* queues for the claim LLM, and the trust worker (services/trust) that    *)
(* promotes a Story off an extracted claim.                                *)
(*                                                                         *)
(* Every awaited database or bus call of a handler is a step of its own:   *)
(* another worker may act between two of them, and the handler may die     *)
(* there.  A message stays in "queue" until it is acked, so a handler that *)
(* raises, crashes or loses its ack is simply run again.                   *)
(***************************************************************************)
EXTENDS Provenance

CONSTANTS Stories,      \* the uuids uuid4() may draw
          NoStory, NoItem, NoClaim,
          Clusterers,   \* instances of the cluster deployment
          Mergeable,    \* {{i, j}}: similarity >= THETA and a shared entity
          Backs,        \* [Items -> SUBSET Items]: records aligned with a claim
          MaxFaults     \* bound on failures, crashes, lost acks, expired ack waits
                        \* and second publishes

ASSUME FaultAssumption == MaxFaults \in Nat
ASSUME BacksAssumption == Backs \in [Items -> SUBSET Items]
ASSUME RecordsAssumption ==     \* what primary_candidates selects
    \A i \in Items : \A x \in Backs[i] : Node[x].class \in {"authoritative", "primary"}
ASSUME NoStoryAssumption == NoStory \notin Stories
ASSUME NoItemAssumption == NoItem \notin Items
ASSUME NoClaimAssumption == NoClaim \notin Stories \X Items

VARIABLES
    \* Postgres
    stored,    \* items rows the db-writer has inserted
    storyOf,   \* items.story_id
    row,       \* stories rows
    trust,     \* stories.trust_state (rumor where there is no row)
    origins,   \* stories.independent_origins (0 where there is no row)
    folded,    \* members whose source and entities are in source_set, entity_set
    edges,     \* provenance_edges: <<story, src, dst>>
    \* the bus
    queue,     \* ENRICHED messages the cluster durable has not acked
    claims,    \* claims on their way from the cluster service to the trust worker
    \* the cluster service
    minted,    \* uuids drawn so far
    pc, msg, sid, snap, count, state,
    \* the trust worker
    wpc, wclaim,
    \* environment
    faults,
    promoted   \* history: Stories the trust worker ever promoted

db     == <<stored, storyOf, row, trust, origins, folded, edges>>
local  == <<pc, msg, sid, snap, count, state>>
worker == <<wpc, wclaim>>
vars   == <<db, queue, claims, minted, local, worker, faults, promoted>>

Claim == Stories \X Items

Members(s) == {i \in Items : storyOf[i] = s}

StoryEdges(s) == {<<e[2], e[3]>> : e \in {x \in edges : x[1] = s}}

\* "not idle" is in the middle of handler(parsed) or about to ack.
Held(i) == \E c \in Clusterers : msg[c] = i

PCs == {"idle", "assign", "create", "touch_read", "touch_write", "prov",
        "edges", "read_edges", "read_state", "update", "claim", "ack"}

TypeOK ==
    /\ stored \subseteq Items
    /\ storyOf \in [Items -> Stories \cup {NoStory}]
    /\ row \subseteq Stories
    /\ trust \in [Stories -> TrustStates]
    /\ origins \in [Stories -> Nat]
    /\ folded \in [Stories -> SUBSET Items]
    /\ edges \subseteq Stories \X Items \X Items
    /\ queue \subseteq Items
    /\ claims \subseteq Claim
    /\ minted \subseteq Stories
    /\ pc \in [Clusterers -> PCs]
    /\ msg \in [Clusterers -> Items \cup {NoItem}]
    /\ sid \in [Clusterers -> Stories \cup {NoStory}]
    /\ snap \in [Clusterers -> SUBSET Items]
    /\ count \in [Clusterers -> Nat]
    /\ state \in [Clusterers -> TrustStates]
    /\ wpc \in {"idle", "match", "promote", "ack"}
    /\ wclaim \in Claim \cup {NoClaim}
    /\ faults \in 0..MaxFaults
    /\ promoted \subseteq Stories

\* One ENRICHED message for each item; PublishAgain sends a second one.
Init ==
    /\ stored = {}
    /\ storyOf = [i \in Items |-> NoStory]
    /\ row = {}
    /\ trust = [s \in Stories |-> "rumor"]
    /\ origins = [s \in Stories |-> 0]
    /\ folded = [s \in Stories |-> {}]
    /\ edges = {}
    /\ queue = Items
    /\ claims = {}
    /\ minted = {}
    /\ pc = [c \in Clusterers |-> "idle"]
    /\ msg = [c \in Clusterers |-> NoItem]
    /\ sid = [c \in Clusterers |-> NoStory]
    /\ snap = [c \in Clusterers |-> {}]
    /\ count = [c \in Clusterers |-> 0]
    /\ state = [c \in Clusterers |-> "rumor"]
    /\ wpc = "idle"
    /\ wclaim = NoClaim
    /\ faults = 0
    /\ promoted = {}

----------------------------------------------------------------------------
(* The db-writer stores the item from its own durable, whenever it likes.  *)

InsertItem(i) ==
    /\ i \notin stored
    /\ stored' = stored \cup {i}
    /\ UNCHANGED <<storyOf, row, trust, origins, folded, edges, queue, claims,
                   minted, local, worker, faults, promoted>>

----------------------------------------------------------------------------
(* Clusterer.handle                                                        *)

Goto(c, step) == pc' = [pc EXCEPT ![c] = step]

\* The handler is over: its locals are gone.
Release(c) ==
    /\ Goto(c, "idle")
    /\ msg' = [msg EXCEPT ![c] = NoItem]
    /\ sid' = [sid EXCEPT ![c] = NoStory]
    /\ snap' = [snap EXCEPT ![c] = {}]
    /\ count' = [count EXCEPT ![c] = 0]
    /\ state' = [state EXCEPT ![c] = "rumor"]

Fault == faults < MaxFaults /\ faults' = faults + 1

\* The Stories nearest + choose_story may return for i.  The ANN index is
\* approximate and the query is cut by a time window and a LIMIT, so any
\* mergeable clustered neighbour may be found first, and all may be missed.
Targets(i) ==
    {storyOf[j] : j \in {k \in Items \ {i} : {i, k} \in Mergeable}} \cup {NoStory}

\* enrich publishes an item once more after its message was acked: the dedup bucket
\* did not answer, or the keys in memory were evicted or died with the pod.  A second message that
\* comes while the first is unacked is either handled by another instance at the
\* same time (the second branch of Nearest) or after the ack, as here.
PublishAgain(i) ==
    /\ i \notin queue
    /\ ~Held(i)
    /\ Fault
    /\ queue' = queue \cup {i}
    /\ UNCHANGED <<db, claims, minted, local, worker, promoted>>

\* Mutant: a message that is already acked is handled again.
NearestOfAny(c, i) ==
    /\ pc[c] = "idle"
    /\ \E target \in Targets(i) : sid' = [sid EXCEPT ![c] = target]
    /\ msg' = [msg EXCEPT ![c] = i]
    /\ Goto(c, "assign")
    /\ UNCHANGED <<db, queue, claims, minted, snap, count, state, worker, faults,
                   promoted>>

\* A message is fetched, and nearest is awaited.  A message another instance
\* still holds is delivered again when its ack wait expires.
Nearest(c, i) ==
    /\ pc[c] = "idle"
    /\ i \in queue
    /\ \/ ~Held(i) /\ UNCHANGED faults
       \/ Held(i) /\ Fault
    /\ \E target \in Targets(i) : sid' = [sid EXCEPT ![c] = target]
    /\ msg' = [msg EXCEPT ![c] = i]
    /\ Goto(c, "assign")
    /\ UNCHANGED <<db, queue, claims, minted, snap, count, state, worker, promoted>>

\* Mutant: the handler returns instead of raising, so the message is acked.
AssignMissingReturns(c) ==
    /\ pc[c] = "assign"
    /\ msg[c] \notin stored
    /\ queue' = queue \ {msg[c]}
    /\ Release(c)
    /\ UNCHANGED <<db, claims, minted, worker, faults, promoted>>

\* Mutant: the Story row is written before the item is known to be stored.
AssignMissingCreates(c) ==
    /\ pc[c] = "assign"
    /\ msg[c] \notin stored
    /\ \E s \in Stories \ minted : minted' = minted \cup {s} /\ row' = row \cup {s}
    /\ Release(c)
    /\ UNCHANGED <<stored, storyOf, trust, origins, folded, edges, queue, claims,
                   worker, faults, promoted>>

\* assign_item matched no row: the writer has not stored the item yet, so the
\* handler raises and the message is naked.
AssignMissing(c) ==
    /\ pc[c] = "assign"
    /\ msg[c] \notin stored
    /\ Release(c)
    /\ UNCHANGED <<db, queue, claims, minted, worker, faults, promoted>>

AssignJoin(c) ==
    /\ pc[c] = "assign"
    /\ msg[c] \in stored
    /\ sid[c] # NoStory
    /\ storyOf' = [storyOf EXCEPT ![msg[c]] = sid[c]]
    /\ Goto(c, "touch_read")
    /\ UNCHANGED <<stored, row, trust, origins, folded, edges, queue, claims,
                   minted, msg, sid, snap, count, state, worker, faults, promoted>>

\* Mutant: a new Story goes down the path of an old one and gets no row.
AssignNewTouches(c) ==
    /\ pc[c] = "assign"
    /\ msg[c] \in stored
    /\ sid[c] = NoStory
    /\ \E s \in Stories \ minted :
          /\ minted' = minted \cup {s}
          /\ sid' = [sid EXCEPT ![c] = s]
          /\ storyOf' = [storyOf EXCEPT ![msg[c]] = s]
    /\ Goto(c, "touch_read")
    /\ UNCHANGED <<stored, row, trust, origins, folded, edges, queue, claims,
                   msg, snap, count, state, worker, faults, promoted>>

\* No target: the Story is a fresh uuid4, which nobody saw before this step.
AssignNew(c) ==
    /\ pc[c] = "assign"
    /\ msg[c] \in stored
    /\ sid[c] = NoStory
    /\ \E s \in Stories \ minted :
          /\ minted' = minted \cup {s}
          /\ sid' = [sid EXCEPT ![c] = s]
          /\ storyOf' = [storyOf EXCEPT ![msg[c]] = s]
    /\ Goto(c, "create")
    /\ UNCHANGED <<stored, row, trust, origins, folded, edges, queue, claims,
                   msg, snap, count, state, worker, faults, promoted>>

\* create_story; one origin, so no claim is queued.
CreateStory(c) ==
    /\ pc[c] = "create"
    /\ row' = row \cup {sid[c]}
    /\ origins' = [origins EXCEPT ![sid[c]] = 1]
    /\ folded' = [folded EXCEPT ![sid[c]] = {msg[c]}]
    /\ Goto(c, "ack")
    /\ UNCHANGED <<stored, storyOf, trust, edges, queue, claims, minted,
                   msg, sid, snap, count, state, worker, faults, promoted>>

\* Mutant: a missing row is an error, so the message is naked for ever.
TouchReadRaises(c) ==
    /\ pc[c] = "touch_read"
    /\ IF sid[c] \in row
       THEN /\ snap' = [snap EXCEPT ![c] = folded[sid[c]]]
            /\ Goto(c, "touch_write")
            /\ UNCHANGED <<msg, sid, count, state>>
       ELSE Release(c)
    /\ UNCHANGED <<db, queue, claims, minted, worker, faults, promoted>>

\* touch_story is SELECT then UPDATE in one READ COMMITTED transaction.
TouchRead(c) ==
    /\ pc[c] = "touch_read"
    /\ IF sid[c] \in row
       THEN /\ snap' = [snap EXCEPT ![c] = folded[sid[c]]]
            /\ Goto(c, "touch_write")
       ELSE /\ Goto(c, "prov")
            /\ UNCHANGED snap
    /\ UNCHANGED <<db, queue, claims, minted, msg, sid, count,
                   state, worker, faults, promoted>>

TouchWrite(c) ==
    /\ pc[c] = "touch_write"
    /\ folded' = [folded EXCEPT ![sid[c]] = snap[c] \cup {msg[c]}]
    /\ Goto(c, "prov")
    /\ UNCHANGED <<stored, storyOf, row, trust, origins, edges, queue, claims,
                   minted, msg, sid, snap, count, state, worker, faults, promoted>>

\* story_prov: the members now.  If the new member is not among them (moved by
\* another delivery) the number of rows is returned instead of an origin count.
StoryProv(c) ==
    /\ pc[c] = "prov"
    /\ snap' = [snap EXCEPT ![c] = Members(sid[c])]
    /\ IF msg[c] \in Members(sid[c])
       THEN /\ Goto(c, "edges")
            /\ UNCHANGED count
       ELSE /\ Goto(c, "claim")
            /\ count' = [count EXCEPT ![c] = Cardinality(Members(sid[c]))]
    /\ UNCHANGED <<db, queue, claims, minted, msg, sid,
                   state, worker, faults, promoted>>

InsertEdges(c) ==
    /\ pc[c] = "edges"
    /\ edges' = edges \cup
          {<<sid[c], e[1], e[2]>> : e \in DetectEdges(msg[c], snap[c])}
    /\ Goto(c, "read_edges")
    /\ UNCHANGED <<stored, storyOf, row, trust, origins, folded, queue, claims,
                   minted, msg, sid, snap, count, state, worker, faults, promoted>>

\* story_edges, then the two counts and the state they imply.
ReadEdges(c) ==
    /\ pc[c] = "read_edges"
    /\ LET stars == StoryEdges(sid[c])
           n     == IndependentOrigins(snap[c], stars)
       IN  /\ count' = [count EXCEPT ![c] = n]
           /\ state' = [state EXCEPT ![c] =
                 Implied(n, DistinctOriginSources(snap[c], stars),
                         InStoryPrimaryMatch(snap[c]))]
    /\ Goto(c, "read_state")
    /\ UNCHANGED <<db, queue, claims, minted, msg,
                   sid, snap, worker, faults, promoted>>

\* story_state, then next_state.
ReadState(c) ==
    /\ pc[c] = "read_state"
    /\ state' = [state EXCEPT ![c] = NextState(trust[sid[c]], state[c])]
    /\ Goto(c, "update")
    /\ UNCHANGED <<db, queue, claims, minted, msg,
                   sid, snap, count, worker, faults, promoted>>

\* Mutant: the row is written only when the state changes.
UpdateTrustOnRise(c) ==
    /\ pc[c] = "update"
    /\ IF sid[c] \in row /\ state[c] # trust[sid[c]]
       THEN /\ trust' = [trust EXCEPT ![sid[c]] = state[c]]
            /\ origins' = [origins EXCEPT ![sid[c]] = count[c]]
       ELSE UNCHANGED <<trust, origins>>
    /\ Goto(c, "claim")
    /\ UNCHANGED <<stored, storyOf, row, folded, edges, queue, claims, minted,
                   msg, sid, snap, count, state, worker, faults, promoted>>

\* update_trust sets both columns unconditionally; without a row it sets none.
UpdateTrust(c) ==
    /\ pc[c] = "update"
    /\ IF sid[c] \in row
       THEN /\ trust' = [trust EXCEPT ![sid[c]] = state[c]]
            /\ origins' = [origins EXCEPT ![sid[c]] = count[c]]
       ELSE UNCHANGED <<trust, origins>>
    /\ Goto(c, "claim")
    /\ UNCHANGED <<stored, storyOf, row, folded, edges, queue, claims, minted,
                   msg, sid, snap, count, state, worker, faults, promoted>>

PublishClaim(c) ==
    /\ pc[c] = "claim"
    /\ claims' = IF IsCandidate(count[c])
                 THEN claims \cup {<<sid[c], msg[c]>>}
                 ELSE claims
    /\ Goto(c, "ack")
    /\ UNCHANGED <<db, queue, minted, msg, sid, snap, count,
                   state, worker, faults, promoted>>

Ack(c) ==
    /\ pc[c] = "ack"
    /\ queue' = queue \ {msg[c]}
    /\ Release(c)
    /\ UNCHANGED <<db, claims, minted, worker, faults, promoted>>

\* The awaited call raises (nak), the process is cancelled or dies, or, at
\* "ack", the ack is lost.  The message is delivered again.
Fail(c) ==
    /\ pc[c] # "idle"
    /\ Fault
    /\ Release(c)
    /\ UNCHANGED <<db, queue, claims, minted, worker, promoted>>

Clusterer(c) ==
    \/ \E i \in Items : Nearest(c, i)
    \/ AssignMissing(c) \/ AssignJoin(c) \/ AssignNew(c) \/ CreateStory(c)
    \/ TouchRead(c) \/ TouchWrite(c)
    \/ StoryProv(c) \/ InsertEdges(c) \/ ReadEdges(c) \/ ReadState(c)
    \/ UpdateTrust(c) \/ PublishClaim(c) \/ Ack(c)

----------------------------------------------------------------------------
(* Claims.  claimx asks the LLM for the assertion in the text and publishes *)
(* what it answers; requests and results of one claim are one element here, *)
(* and so are two undelivered copies of it.                                *)

\* The LLM found no checkable assertion, so the trust worker drops the result.
BlankClaim(cl) ==
    /\ cl \in claims
    /\ claims' = claims \ {cl}
    /\ UNCHANGED <<db, queue, minted, local, worker, faults, promoted>>

\* claim_item: gone, reassigned since, or not social, the claim is dropped.
ClaimItem(cl) ==
    /\ wpc = "idle"
    /\ cl \in claims
    /\ claims' = claims \ {cl}
    /\ IF cl[2] \in stored /\ storyOf[cl[2]] = cl[1] /\ Node[cl[2]].class = "social"
       THEN wpc' = "match" /\ wclaim' = cl
       ELSE UNCHANGED worker
    /\ UNCHANGED <<db, queue, minted, local, faults, promoted>>

\* primary_candidates and find_primary_match.
MatchRecord ==
    /\ wpc = "match"
    /\ IF \E r \in Backs[wclaim[2]] : r \in stored
       THEN wpc' = "promote" /\ UNCHANGED wclaim
       ELSE wpc' = "idle" /\ wclaim' = NoClaim
    /\ UNCHANGED <<db, queue, claims, minted, local, faults, promoted>>

PromotePrimaryBacked ==
    /\ wpc = "promote"
    /\ IF wclaim[1] \in row
       THEN /\ trust' = [trust EXCEPT ![wclaim[1]] = "primary_backed"]
            /\ promoted' = promoted \cup {wclaim[1]}
       ELSE UNCHANGED <<trust, promoted>>
    /\ wpc' = "ack"
    /\ UNCHANGED <<stored, storyOf, row, origins, folded, edges, queue, claims,
                   minted, local, wclaim, faults>>

WorkerAck ==
    /\ wpc = "ack"
    /\ wpc' = "idle"
    /\ wclaim' = NoClaim
    /\ UNCHANGED <<db, queue, claims, minted, local, faults, promoted>>

\* Mutant: the worker naks a claim it does not hold.
WorkerFailIdle ==
    /\ Fault
    /\ claims' = claims \cup {wclaim}
    /\ wpc' = "idle"
    /\ wclaim' = NoClaim
    /\ UNCHANGED <<db, queue, minted, local, promoted>>

WorkerFail ==
    /\ wpc # "idle"
    /\ Fault
    /\ claims' = claims \cup {wclaim}
    /\ wpc' = "idle"
    /\ wclaim' = NoClaim
    /\ UNCHANGED <<db, queue, minted, local, promoted>>

TrustWorker ==
    \/ \E cl \in Claim : ClaimItem(cl)
    \/ MatchRecord \/ PromotePrimaryBacked \/ WorkerAck

----------------------------------------------------------------------------

Next ==
    \/ \E i \in Items : InsertItem(i) \/ PublishAgain(i)
    \/ \E c \in Clusterers : Clusterer(c) \/ Fail(c)
    \/ \E cl \in Claim : BlankClaim(cl)
    \/ TrustWorker
    \/ WorkerFail

Spec == Init /\ [][Next]_vars

\* The pods run and Postgres answers: the db-writer stores every item, a
\* clusterer takes its next step, the trust worker takes its next step.
Fairness ==
    /\ \A i \in Items : WF_vars(InsertItem(i))
    /\ \A c \in Clusterers : WF_vars(Clusterer(c))
    /\ WF_vars(TrustWorker)

FairSpec == Spec /\ Fairness

\* Steps between the assignment of an item and the write of its edges.
Unlinked == {"touch_read", "touch_write", "prov", "edges"}

\* Nobody else works on c's message, and nobody acked it.
SoleHolder(c) ==
    /\ msg[c] \in queue
    /\ \A d \in Clusterers \ {c} : msg[d] # msg[c]

\* A handler cut off before it wrote the edges was alone with its message, so the
\* message is handled again.  One instance never does anything else.
CutsAreUncontested ==
    \A c \in Clusterers :
        pc[c] \in Unlinked /\ pc'[c] = "idle" => SoleHolder(c)

UncontestedSpec == Init /\ [][Next /\ CutsAreUncontested]_vars
----------------------------------------------------------------------------
(* Properties                                                              *)

\* Every dependency there really is between the members of s.
Dependencies(s) ==
    {p \in Members(s) \X Members(s) : p[1] # p[2] /\ Depends(p[1], p[2])}

TrueOrigins(s) == IndependentOrigins(Members(s), Dependencies(s))

Settled(i) == i \notin queue

\* A message is acked only once its item is in a Story, so no item is dropped
\* because the db-writer was late or a call failed (cluster/main.py handle).
SettledIsFiled == \A i \in Items : Settled(i) => storyOf[i] # NoStory

\* An item changes Story only while a message about it is unacked: claims, edges and
\* the origin count that name it stay valid from the ack until enrich publishes the
\* item again (_assign, handle).
SettledStays ==
    [][\A i \in Items : Settled(i) => storyOf'[i] = storyOf[i]]_vars

\* Two members that no handler works on and whose messages are acked have an
\* edge if they depend on each other, whatever the order of the handlers that
\* filed them, under UncontestedSpec: every later count takes them as one origin
\* (_update_trust, detect_edges).
EdgesComplete ==
    \A i, j \in Items :
        /\ Settled(i) /\ Settled(j) /\ ~Held(i) /\ ~Held(j) /\ i # j
        /\ storyOf[i] = storyOf[j] /\ Depends(i, j)
        => <<i, j>> \in StoryEdges(storyOf[i]) \/ <<j, i>> \in StoryEdges(storyOf[i])

\* The only trust a Story can lose is a promotion by the trust worker: what the
\* clusterer established itself (CORROBORATED, an in-story primary match) stays.
OnlyPromotionsAreLost ==
    [][\A s \in Stories :
          \/ Rank[trust'[s]] >= Rank[trust[s]]
          \/ trust[s] = "primary_backed" /\ s \in promoted]_vars

\* "a Story never demotes" (libs/trust/states.py).
NeverDemotes ==
    [][\A s \in Stories : Rank[trust'[s]] >= Rank[trust[s]]]_vars

\* An item whose message is acked is in a Story that has a row: "either assigns
\* the item to an existing Story or opens a new one" (cluster/main.py).
NoPhantomStory == \A i \in Items : Settled(i) => storyOf[i] \in row

\* No Story row without a member: "a NAK can't leave an orphan Story behind".
NoOrphanStory == \A s \in row : Members(s) # {}

\* A Story becomes CORROBORATED only when its members really span N
\* independent origins: copies of one report never corroborate it.
CorroborationEarned ==
    [][\A s \in Stories :
          trust[s] = "rumor" /\ trust'[s] = "corroborated"
          => TrueOrigins(s) >= CorroborationN]_vars

\* Between two handlers every row states what the evidence says: the origin
\* count is exact and every member's source and entities are folded in.
RowsExact ==
    \A s \in row :
        (\A c \in Clusterers : sid[c] # s)
        => origins[s] = TrueOrigins(s) /\ folded[s] = Members(s)

\* A Story is PRIMARY_BACKED only on the word of a social member that a stored
\* record backs, either in the Story itself or by the claim matcher.
PromotionBacked ==
    [][\A s \in Stories :
          trust[s] # "primary_backed" /\ trust'[s] = "primary_backed"
          => \E i \in Members(s) :
                /\ Node[i].class = "social"
                /\ \E x \in stored : /\ Node[x].class \in {"authoritative", "primary"}
                                     /\ x \in Members(s) \cup Backs[i]]_vars

\* Every enriched item is filed in the end, though the db-writer may be late and
\* calls may fail: a nak is a retry, never a drop.
EveryItemSettles == \A i \in Items : <>Settled(i)

\* The calm system keeps the abstract ledger: an item is filed once, in a Story
\* that is open, and the trust of a Story only rises, but for a promotion by the
\* trust worker that a clusterer overwrites (StoryLedger).
Ledger == INSTANCE StoryLedger
    WITH filed   <- [i \in Items |-> IF Settled(i) THEN storyOf[i] ELSE NoStory],
         opened  <- row,
         level   <- [s \in Stories |-> Rank[trust[s]]],
         granted <- promoted

LedgerSpec == Ledger!Spec

=============================================================================
