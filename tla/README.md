# Formal models of the news aggregator

TLA+ models of the pipeline in this repository: public sources are ingested,
filtered and embedded, stored, clustered into Stories, given a trust state by
counting independent origins, scored, and pushed as alerts. The models are
translated from the code; `PROJECT.json` names, for each definition, the lines it
stands for.

## 1. The system

All services are single-threaded asyncio processes that talk through NATS
JetStream streams, Postgres and two NATS KV buckets. Everything that makes the
system hard happens *between* processes, or between two `await`s of one handler.

| Part | State it keeps | Operations | Talks to |
|---|---|---|---|
| bus, `libs/bus` | streams, durables with unacked messages | `consume_validated`: pull, validate, handle, ack, nak after 1 s, redeliver after the ack wait | every service but score, notify, api |
| ingesters, `services/ingest` | seen keys and cursors, in memory | poll or stream, normalize, publish on INGEST | sources, bus |
| enrich, `services/enrich` | dedup keys (KV or LRU), mention counter, governor threshold, live classifier | `handle`, `flush_tallies`, `watch_models` | INGEST -> ENRICHED, TALLY; KV |
| db-writer, `services/writer` | items, entity_tallies, system_state | `handle`, `handle_tally` | ENRICHED, TALLY -> Postgres |
| cluster, `services/cluster` | items.story_id, stories, provenance_edges | `handle`, `_update_trust` | ENRICHED -> Postgres, LLM_HEAVY |
| claimx, `services/cluster/claimx.py` | none | ask the LLM for the claim | LLM_HEAVY -> CLAIM |
| trust worker, `services/trust` | stories.trust_state | match a claim with a primary record, promote | CLAIM -> Postgres |
| score, `services/score` | score columns, alerts | periodic cycle | Postgres |
| notify, `services/notify` | cursor, in memory | push new alerts | Postgres -> ntfy |
| retrain, `services/retrain` | models KV | train, evaluate, publish | Postgres, KV -> enrich |
| api, `services/api` | last good answers | reads | Postgres |
| retention, `schema.sql` | daily partitions | create, drop after 5 days | Postgres |

What makes each part correct:

* **bus and handlers**: a message is acked only after its work is done; doing the
  work twice does no harm.
* **enrich**: one representative per dedup key; no authoritative item is lost;
  a mention counts once in the velocity table for each delivery of its message.
* **cluster and trust**: an item is in one Story that exists; the provenance
  edges are complete; only truly independent origins corroborate; trust should
  only rise (it does not: see `trust_demotion`), and rises to `primary_backed` only
  on a record.
* **score and notify**: an alert rests on the Story's trust, comes once per
  cooldown and is pushed at least once.
* **governor**: a burst passes the budget by little, and shedding ends.
* **hot swap**: a pod never falls back to an older model, nor to one that does
  not load, and ends up with the last one published whole.
* **text and source rules**: a text is cut into whole words, an entity is what the
  text says, one event of a source has one identity.
* **retention**: nothing is written to, or read from, an expired day.
* **ingest**: a record of a source that stays up is published in the end.

Hard behaviours: two instances during a rolling update (deployments use the
default strategy, and both attach to one durable); naks, lost acks and expired
ack waits; a pod that dies between two awaits; the cluster service and the
db-writer consuming ENRICHED independently; the trust worker and the cluster
service writing the same column. `PROJECT.json` lists each hazard at its line.

## 2. The modules

| Module | Models | Composes |
|---|---|---|
| `Provenance` | the pure rules of `libs/trust`: `origin_key`, `detect_edges`, origin components, `next_state` | |
| `Cluster` | the clustering path: db-writer rows, the cluster service, its claims, the trust worker | extends `Provenance` |
| `StoryLedger` | what the clustering path promises, abstractly | implemented by `Cluster` |
| `Enrich` | the inference path: tally, dedup, admission, publish, ack | |
| `Tally` | the mention counter, its flushes and the table | extends `Enrich` |
| `Governor` | the admission threshold and the rate it is steered by | |
| `Hotswap` | training cycle, two-put publish, the watchers of the pods | |
| `Filter` | one pod: its governor and its hot swap side by side | extends `Governor`, `Hotswap` |
| `Scoring` | velocity, inauthenticity, gap and the alert threshold | |
| `Alerts` | score worker, alerts table, notifier | extends `Scoring` |
| `Ingest` | the four ingester loops, their cursors and seen sets | |
| `Sources` | `should_keep`, `normalize` and the keys of the eight sources | |
| `Tokens` | tokenizer, BIO decoding, gazetteer match, entity merge, simhash | |
| `Gate` | labelled rows, time split, F1, floors, promotion | |
| `ReadApi` | the feed tabs, their order and limits, the degraded cache | |
| `Ordering` | `ORDER BY` and `sorted()` | used by `Gate`, `ReadApi` |
| `Rules` | calls each pure function on one input; runs the read API | extends `Sources`, `Tokens`, `Gate`, `Scoring`, `ReadApi` |
| `MC*` | instances for TLC | extend the above |
| `*Proofs` | theorems; those of `Governor` and `Hotswap` are in `FilterProofs` | extend the module of their name |
| `Sums` | lemmas about sums and maps over finite sets | used by the proofs of `Tally`, `Ingest`, `Rules` |

Definitions marked `Mutant` are what a plausible bug would make of the definition
after them. They are no part of the specifications; they show that a property can
tell the difference.

### Cluster

The state is the Postgres tables (`stored`, `storyOf`, `row`, `trust`, `origins`,
`folded`, `edges`), the unacked messages (`queue`), the claims on their way
(`claims`) and the locals of each handler. `folded[s]` is the set of members
whose source and entities are in the JSON sets of the row. The bus hands a
message to a handler (`Nearest`) and from there each awaited call is an action:

    Nearest -> AssignMissing                                (not stored: nak)
            -> AssignNew  -> CreateStory                             -> Ack
            -> AssignJoin -> TouchRead [-> TouchWrite] -> StoryProv
                 -> InsertEdges -> ReadEdges -> ReadState -> UpdateTrust
                 -> PublishClaim                                     -> Ack

`touch_story` is two actions because its transaction is READ COMMITTED and its first
statement takes no lock. `Fail` cuts the handler off at any point; the message stays
in `queue`, so it is handled again from the start. A message that is still held may
be handed to another instance, which stands for an expired ack wait. `PublishAgain`
is a second ENRICHED message about an item after the first was acked: the dedup
bucket fails open, and keys in memory are lost. The ANN query is a choice: any Story
that holds a mergeable item, or none, because the index is approximate, the time
window cuts and the neighbours are limited. `Mergeable` is cosine >= THETA with an
entity in common. claimx and the LLM are a choice between no claim and a claim.
`Backs[i]` are the records that `primary_candidates` and `find_primary_match` align
with item `i`; they count only once stored.

### Enrich and Tally

`Fetch` is delivery and `filter.tally`; `Duplicate`, `CreateKey` and `KvFails` are
the three outcomes of the KV `create`, `RememberKey` the LRU; `Judge` is the
governor's choice for the classes that do not bypass it. In `Tally` each pod also
runs the flush loop: `Drain` hands off the counter and stamps the minute,
`PublishFlush` and `PublishFails` end the awaited publish, `InsertTallies` is the
db-writer's insert under (entity, minute, replica). `Stop` is SIGTERM; a stop
that arrives while a publish is awaited ends the loop with no further drain.

### Governor, Hotswap, Filter

`Governor` is `AdmissionGovernor` on integers. The code computes with floats; the
model takes as its unit of the rate the most that one admitted event can add to
it, and leaves open how far the rate decays before the next event, so that any
timing of events is covered. `StepTheta` is `_step`: additive increase above the
dead band, relative decrease below it, slew limit, clamp.

`Hotswap` numbers the models in the order they are trained; 0 is the heuristic of
the image. A publish is `PutMeta` then `PutModel`, a look at the bucket
`ReadRevision`, `ReadModel`, `Install`, where `get_meta` and the sha comparison
happen. `Broken` are models whose trial run raises in the pods. Failures are a
put that raises, stored or not, a get that raises and a pod that dies.

`Filter` joins both for one pod: `relevance` and `admit` have no await between
them, so an item is judged by the model that is installed and the threshold that
was learnt on the items of the models before.

### Scoring and Alerts

`Scoring` has the formulas of `services/score` on integers and fractions: the
z-score of the second difference (as its square, with its sign), the features of
inauthenticity and `gap`. In `Alerts` a cycle is

    CycleStart -> (Measure -> UpdateScores [-> InsertAlert [-> CommitAlert]])* -> CycleEnd

`CycleStart` takes the snapshot of the Stories and of the history of the tallies:
of the Stories seen within `Window`, the `MaxStories` most recently seen ones, of
equals any (`ActiveStories`). Trust and origins come from it, the rest is read when
the Story's turn has come. `CycleFails` ends a cycle anywhere. `Evolve` is the rest
of the system: one piece of evidence of a Story changes, and an item may be seen.
Trust goes up and down, since the cluster service may take a promotion away. The
notifier boots its cursor (`BootCursor`), fetches the rows after it (`FetchNew`), and
pushes them one at a time (`Push`). A POST fails once (`PushFails`), or it raises for
the same row at every cycle (`PushRaises`): `Unpushable` are the Stories whose title
is no ASCII header or whose alert ntfy rejects. A restart forgets the cursor.
Timestamps are taken when the transaction of `insert_alert` begins and rows are seen
when it commits. `had` records the trusts of a Story since a cycle began.

### Ingest

One module for the four loops, told apart by `kind`. A host emits records 1, 2,
...; `Fetch` reads what the feed shows (poll) or the newest page after `since_id`
(mastodon), `Connect` and `Receive` are the streams, which resume at the cursor
(bluesky) or after it (wikipedia). `Skip` and `Publish` are the body of the loop,
`EndPage` moves `since_id`. `Raise`, `PublishFails` and `Drop` end a page or a
stream with an exception; `Restart` forgets cursor and LRU. `missed` records what
the code never handles by design: what a page of limited size leaves out, and the
event in hand when a stream that resumes after its cursor breaks. `told` records, in
order, the keys a process is done with: published, or remembered as of no use.

### The pure functions

`Rules` calls one function once with one input of the given set: a behaviour is a
call. What callers of these functions see to is stated as assumptions on those sets
(`CallsAssumption`, `RecordsAssumption`): rows have a time and a label or none and are
each of an item of its own (`items.id` is the key), a
window has its latest bin and its bins are natural numbers, a split text holds no
null. The properties compare the answer with a reference definition: what words,
entities and hits of a text are, when two records are one event, what a z-score may
depend on, what a promotion needs. Characters are model values with a class and a
normal form; a record is a record of fields whose values are the ones the code
tells apart (`None`, an empty value, a value of another type, two long ids with
the same prefix of the length a key holds). In the behaviours that call no
function the read API serves overlapping requests while the data changes and the
database fails.

## 3. What is checked

| Run | Instance | Shows |
|---|---|---|
| `cluster_calm` | 4 items, 4 uuids, 1 instance, no failure | rows agree with the evidence (`RowsExact`), corroboration and promotion are earned, no Story without row or member; the path implements `StoryLedger` |
| `cluster_solo` | 3 items, 4 uuids, 1 instance, 1 failure or second publish, fairness | an item moves only while a message about it is unacked, acked items are in a Story, only the trust worker's promotions can be lost; every message is acked in the end |
| `cluster_overlap` | 2 copies of a post, 5 uuids, 2 instances, 3 failures | `EdgesComplete` under `UncontestedSpec`: two settled members that depend on each other have an edge, whatever the interleaving |
| `enrich` | 2 copies of an authoritative record and a post, 2 replicas, either dedup store, LRU of 1, one nak, restart, bucket failure and expired ack wait, fairness | no key is published twice while the bucket answers; while no handler is cut off no authoritative record is lost (`AuthoritativeSurvives`) and each is stored |
| `tally_counts` | 2 copies of a post, 2 replicas, 2 minutes, 3 flushes, up to two kinds of failure | a mention counts at most once for its message and once for each redelivery, whatever becomes of flushes; while no pod stops or dies and no flush fails every mention is in exactly one place |
| `alerts` | 2 Stories, one of them unpushable, of which a cycle takes one, active for 3 time units; 1 score worker, cooldown 2, batches of 2; a change of evidence and a failed cycle, or a failed POST and a restart of the notifier; fairness | alerts are a cooldown apart and name a trust the Story had during the cycle, also when it is demoted in between; a Story that stays hot, active and most recently seen is alerted on; the cursor never passes an alert that was not pushed; none is pushed twice; the notifier catches up or comes to a row it cannot push |
| `filter` | 1 pod, 3 models of which one is broken, budget 4, theta in 0..9, one failure of each kind, fairness | `OvershootBounded`, `SheddingEnds`, no way back to an older model, `PodsConverge` |
| `ingest` | each kind of loop, 2 hosts with 4 and 3 records, pages of 2, LRU of 3, one failure of each kind, fairness | `NoGap`; a process publishes a post again only when `SEEN_CAP` others came between (`OnceEach`), and where the LRU spans what a source shows again, only after a restart or a doubt (`PublishedOnce`); every post that is still shown arrives |
| `rules` | all inputs of a bounded shape | the text rules, the identities of the sources, the velocity score and the promotion gate agree with their references; answers of the read API are true and marked |

Three more runs, each of one property, are refuted; see below.

The instances make the interesting cases happen: in `MCCluster` `a` and `b` are
copies on two platforms, `b` shares a link with the local report `c`, so that
one item ties two others into one origin, and `r` is an authoritative record
that `c` cites (they share a link), that clusters with `c` only and that backs
what `a` claims; the corroboration threshold is set so that two origins reach it.
`cluster_solo` takes `a`, `c` and `r`: two origins that corroborate a Story, one
of which a redelivery can take out of it again. In `enrich` the initial state picks
the dedup store (`SharedKV` is the set of choices) and the post makes the LRU of
one key forget the record. There `Mentioning`, the messages whose text names the
entity, is empty, as no property of that run reads the counter. In the tally run
two copies of one post are redelivered to either replica; `AtMostTwoFailures` keeps TLC to
behaviours with two of the seven kinds of failure, in any combination. In
`MCAlerts` (`EitherSpec`) either the evidence changes and a cycle may fail, or it
stands still while the notifier has its failures: the notifier reads nothing but the
alerts. One change is enough for a promotion, a demotion between the reads of a cycle,
or an item that puts the other Story on top; up to four alerts are two batches, the
failed POST can hit the first or a later row, and the row that cannot be pushed stands
before or after others. The clock stops short of its bound while a Story is
still to be alerted on. In `MCFilter` a swap turns a stream of
middling items into relevant ones or back, 5 steps carry theta from floor to
ceiling, and model 2 does not load, so that a good one comes before and after it.
In `MCIngest` the third record of `a` raises, its first is unusable and
the first of `b` is a post that `a` showed as well; 4 records are more than a page
and, with those of `b`, more than the LRU holds: mastodon, held up by the third
record, publishes the fourth again when `b` has driven it out. Any set of hosts may
be down for good.

In `rules` texts have up to 4 characters from accents, capitals, punctuation,
ideographs and spaces, with vocabularies that make the longest match differ from the
shortest; predictions are all label sequences over 4 positions; token sequences have
up to 5 tokens and phrases up to 3, which overlap; records differ from one another
in up to three fields; the gate sees up to 4 rows of distinct items, with equal
times and texts among them, and every pair of classifiers; tallies span 6 bins,
present or not.

Failures are bounded by `MaxFaults` and by `Faults`, the flushes by `MaxFlushes`,
the clocks by `MaxMinute`, `MaxTick` and `MaxTime`, changes of evidence by `MaxChanges`,
candidates by `MaxModels`, records by `MaxRecords`, uuids by `Stories`: as many as
the handlers of a run can draw, one for each item and one for each failure. One
failure is what separates a first delivery from a redelivery, and every
disagreement below needs at most one; `cluster_overlap` takes three, so that an
expired ack wait, a second one and a cut-off handler can fall together. Stories are
symmetric in `Cluster`: nothing compares them. The runs disable the deadlock check
since the input is finite: the system stops when the queues are empty.

### Disagreements the runs exhibit

Each is a run that TLC refutes.

* `trust_demotion`: the trust worker promotes a Story between `story_state` and
  `update_trust`; the unconditional UPDATE takes the promotion away.
  `states.py` says a Story never demotes. With one instance this is the *only*
  trust that can be lost (`OnlyPromotionsAreLost`, proved).
* `phantom_story`: the handler dies between `assign_item` and `create_story`;
  another item joins the Story that has no row, and is acked.
* `enrich_loss`: the dedup key is recorded before the publish. A nak in between
  makes the redelivery its own duplicate: the item is acked and lost.

A relative of `phantom_story`: `CorroborationEarned`, which `cluster_calm` checks,
fails in the same way as soon as `MaxFaults` is 1. A handler that is cut off
between `assign_item` and `insert_edges` leaves a member without edges, the
recount of the next one takes the copy for an independent origin, and the state
never demotes again.

`NoOrphanStory` fails likewise when a second publish takes the only member of a Story
elsewhere: the row stays until it ages out.

A relative that needs two instances: a message whose ack wait expired is handled
twice, the first handler acks it, the second moves the item to another Story and is
cut off before `insert_edges`. The broker has the ack, so nobody writes the edges.
TLC finds this under `Spec` with two instances and two failures; `UncontestedSpec`
(`CutsAreUncontested`) excludes failures between assignment and edges while another
instance holds the message or has acked it, and `EdgesComplete` is checked and proved
under it. The chart deploys one instance, for which `Spec` implies
`UncontestedSpec`.

### Other observations

Met while modelling; no run is kept for them, and the properties above state what
holds besides.

* The flush at shutdown can fall in the minute of the last periodic one; `ON
  CONFLICT DO NOTHING` (`enrich/db.py:96`) then drops its counts. `filter.py`
  expects that the persisted buckets sum correctly. `NoUndercount` leaves pods
  that stop out. The instance is `tally_counts` without that exception.
* A row whose POST raises at every cycle, because its title is no ASCII header
  (`notify/main.py:56,76`) or ntfy answers 4xx (line 79), is retried for ever: the
  cursor stays and no later alert is pushed. `CatchesUp` says that such a row is all
  that stops the notifier. That later rows are pushed is false of the code, without any
  failure of ntfy.
* A flat baseline has no deviation, and `velocity.py:42` answers any change of the last
  bin with the bounded positive spike, a drop included: a Story that cools off after a
  constant level gets the highest score. `VelocityHonest` describes it, and says no more
  for a flat baseline. A decline that slows down counts as positive acceleration.
* An evaluation slice without a positive row gives every model F1 0, and
  `should_promote` only rejects a lower F1: a candidate with false positives then
  replaces an incumbent without a mistake. `GateSound` asks for a positive.
* `filter.tally` runs before the dedup store is asked: an INGEST message that is
  delivered again counts its mentions again. `NoOvercount` pays for each redelivery.
* A Story that `MAX_STORIES` others are seen after is not scored, however hot it is.
* The normalizers answer a missing or mistyped field with None, but raise on a
  container of another type and on some long identifiers. The poll loop then ends
  the cycle: older records of that feed wait until the record leaves it.
* A revised USGS record is new to the poll loop and old to the deduper, which
  keeps the first version.
* The Wikipedia stream resumes after the last id, which is set before the event
  is published: a failed publish loses the event in hand.
* A negative limit makes the database raise, which the read API reports as a
  degraded database.
* `SEEN_CAP` bounds the memory of a mastodon loop over all its instances together.
  An instance with a status that always raises is read again from the same cursor
  every round, while the others fill the LRU: its earlier posts are then published
  again, which the deduper of enrich absorbs. No capacity rules this out, and it
  happens in the `ingest` run. `OnceEach` says how many others must come between;
  `PublishedOnce` is about the loops whose LRU can span what a source shows again
  (`Sheltered`).
* A notifier that restarts begins at the newest alert: what was raised while it
  was down is not pushed.

### Fairness

`cluster_solo` assumes weak fairness of the db-writer for each item, of each
clusterer and of the trust worker; `enrich` of each replica's handler and
of the db-writer; `alerts` of each score worker's cycle, of the notifier and of
the passing of the warm-up; `filter` of each pod's watcher, of the rest of a
publish that has begun, and of the arrival of items; `ingest` of the loop. Every
one is a process that Kubernetes restarts, whose loop never exits, and which the
broker redelivers to, or which polls, without limit. Items keep arriving in
`filter` because the governor only moves with them. No fairness is assumed of
failures, of the LLM, of sources, of new candidates, of the clock or of any choice
within a handler. Weak fairness suffices because a nak, a failed cycle or a
dropped connection leads back to a state in which the loop can go on: it is always
able to take some step while there is work.

## 4. What is proved

For every value of the constants, checked by TLAPS:

* `ClusterProofs!TypeCorrect`: the type invariant, for any items, Stories,
  instances and failures. It is not inductive alone: that `PublishClaim` puts a
  well-formed claim in the queue needs that a handler past its assignment has an
  item and a Story (`Located`).
* `ClusterProofs!AckedIsFiled`: no message is acked before its item is in a
  Story. `Filed` strengthens it: past the assignment the handler's item is in a
  Story. No assignment takes an item out of all Stories, so this survives other
  instances and failures.
* `ClusterProofs!SoloSettledStays`: with one instance (`Solo`) an item moves only
  while a message about it is unacked, however often it is published, because the
  message a handler works on is still in the queue (`Holding`). Both fail with two
  instances: the other one may ack.
* `ClusterProofs!SoloTrustIsKept`: with one instance the only trust a Story can
  lose is a promotion by the trust worker. `Floored` says that what a handler is
  about to write ranks no lower than the state in the row, unless the trust
  worker raised that since; it rests on `NextStateFloor`.
* `ClusterProofs!EdgesAreComplete`: under `UncontestedSpec`, for any instances and
  failures, settled members that depend on each other have their edge.
  `AllAttended` strengthens it: the edge is there, or a handler between its
  assignment and `insert_edges` owes it (`Owes`), or one of the two messages waits
  for a handler that will assign it anew (`Pending`). A fresh uuid has no members
  (`OnlyMinted`). `SoloEdgesAreComplete` is the corollary for one instance, without
  any condition on failures.
* The calm system (`Calm`: one instance, `MaxFaults = 0`):
  `CalmStoriesHaveRows`, `CalmRowsHaveMembers`, `CalmRowsAreExact`,
  `CalmCorroborationIsEarned`, `CalmPromotionIsBacked`. `CalmInvariant` says where a
  handler has got to (`Orderly`: an item is assigned once, a Story has its row after
  `create_story`), that rows and the handler's locals agree with the members
  (`Folding`, `Counting`), that the state a handler is about to write is earned or
  in the row already (`Evidenced`), and that the worker's claim is backed
  (`Backing`). `CountIsExact` is the point where edges meet counts: with every edge
  attended and none spurious (`EdgesAreSound`), the pairs that `Linked` takes from
  the stored edges are those of the true dependencies, so the origins are equal.
* `ClusterProofs!CalmImplementsLedger`: the calm system implements `StoryLedger`.
  `Unseen` collects the steps that the ledger does not see; `LedgerStep` maps
  `CreateStory` to `Open`, `Ack` to `File`, `UpdateTrust` to `Rise` or `LoseGrant`
  and `PromotePrimaryBacked` to `Grant`.
* `EnrichProofs!TypeCorrect` and `EnrichProofs!OneRepresentative`: as long as the
  bucket answers no key is published twice. `Exclusive` adds to the property that
  a key which was or is about to be published is in the bucket, and that no two
  handlers are about to publish one key. `Spent` (failures are used up, never
  given back) carries "the bucket has answered so far" from a step to the state
  before it.
* `EnrichProofs!NothingAuthoritativeIsLost`: while no handler is cut off between
  its key and its publish, what bypasses the governor is never acked with nothing
  standing for it, on the bucket and on in-memory keys, for any LRU size. `Kept`
  says what "standing for it" rests on: a recorded key of such a class went out or
  is about to. With the bucket any pod may be the one about to publish; in memory
  it is the pod that remembers, which is why its restart does no harm.
* `FilterProofs!GovernorTyped`, `PaceKept` and `Bounded`: a burst passes the
  budget by no more events than theta needs to climb above them, for any budget,
  step, slew limit and relaxation. `OvershootBounded` speaks of the rate alone
  and is not inductive; `KeepsPace` relates rate and theta and is: an event that
  is let in raises the rate by at most one unit and, above the dead band, theta by
  a step, while the decay of the rate only weakens what is asked of theta.
* `FilterProofs!HotswapTyped`, `OrderKept` and `NeverBack`: a pod that lives never goes back to
  an older model nor takes a broken one. The invariant `Ordered` says that the
  model a pod serves is no newer than the bytes its watcher holds, these no newer
  than the model in the bucket, and that no newer than the last one trained. That
  `Install` goes forward then needs no sha check; what the check gives is that the
  metadata belongs to the bytes.
* `FilterProofs!PodImplementsParts`: the pod implements both parts, so that
  `PodBounded`, `PodNeverBack` and `FilterTyped` follow without a new induction.
* `AlertsProofs!OnlyEarnedAlerts`: for any number of Stories and score workers an
  alert names a trust its Story had during the cycle that raised it, and is never
  raised before the warm-up. The invariant carries trust and history of the snapshot
  through every stage of the cycle, against `had`, while `Evolve` promotes and
  demotes. That the trust is still there when the alert is written is false of the
  code.
* `AlertsProofs!CooldownIsKept`: with one score worker two alerts of a Story are a
  cooldown apart. The strengthening `Spaced` says that the alert about to be
  committed comes a cooldown after every alert of its Story; with two workers the
  other one may commit in between.
* `AlertsProofs!CursorIsCovered`: with one score worker every alert between the
  boot cursor and the cursor was pushed, through full batches, failed POSTs, rows that
  cannot be pushed and restarts. The invariant relates table, batch and cursor: alerts commit in the
  order of their timestamps, the pending one after all that are there (`Timed`,
  `Latest`), the cursor stands where it was booted or at an alert (`Anchored`), and
  the batch in hand holds every alert after the cursor up to its last one, in order
  (`InHand`).
* `AlertsProofs!NeverRepeated` and `AlertsTyped`: no alert is POSTed twice, for any
  number of score workers. `Once` needs neither the order of commits nor what
  `CursorIsCovered` rests on: an alert that was pushed is not after the cursor
  (`PushedOnce`), and the rows in hand are after it, in strictly rising order of
  their timestamps (`Ahead`).
* `TallyProofs!TallyTypeCorrect`, `CountsArePaid` and `NothingLostInQuiet`:
  `Balance` is the sum of the table, the flushes that await their first insert, the
  publishes in flight and the counters. No step makes it grow by more than what a
  handler counts, and a handler counts once for a message heard for the first time or
  for a redelivery (`Paid`): `CountsArePaid` bounds what is accounted for by the messages
  heard plus the redeliveries. It falls when an insert meets a row that is there and when a counter
  dies; while no pod stops or dies and no flush fails (`Quiet`) neither happens,
  because each flush of a replica has a minute later than all it has published
  (`Regular`).
* `IngestProofs!TypeCorrect`: the loops keep their types; no LRU outgrows
  `SEEN_CAP`.
* `IngestProofs!CursorLeavesNoGap`: no cursor passes a record that was neither
  published nor given up, in any of the loops, through replays, aborted pages,
  broken streams and restarts. `Settled` are the records that need no handling any
  more, `Covered` says where the others are: on the page, for mastodon, up to the
  id that `since_id` will move to; in hand, for a stream. A key in the LRU of
  these loops stands for a post that is out, so skipping it settles the record;
  for the poll loop that is false (it also remembers what it cannot use), but it
  has no cursor. What it publishes is the subject of `EveryPostArrives`, which is
  liveness.
* `IngestProofs!LruKeepsOnce`: `OnceEach` for every loop and any LRU size: a process is
  done with a key again only when at least `SEEN_CAP` others came between. The LRU is
  the end of `told` (`EndOfTold`), so a key that is not in it is that far back.
* `IngestProofs!ShelteredPublishOnce`: `PublishedOnce`, what that means for a source whose
  repeats the LRU spans. A
  poll loop needs room for `2 * Page - 1` keys: while a record can be shown nothing is
  read but it, the `Page - 1` before it and the `Page - 1` after it. The bound is
  tight (TLC refutes the claim with `Page = 3` and `SeenCap = 4`). A stream repeats no
  more than the event at its cursor, so it only needs that the source shows no post
  again after more than `SEEN_CAP` events. `SEEN_CAP` is 10000 in the code.
  The invariants count: for each record that can still be read, what went out for its
  post is covered by a restart or a doubt, or its key is in the LRU (`Counted`).
* `RulesProofs!PromotionIsSound`: `GateSound` for any rows, models and floors, of
  which one row of each class must be one (`MinPerClass >= 1`). It goes through
  what sorting gives (`InOrderIs`: a strict total order makes `InOrder` a sequence
  of all elements in that order; `Timely`: sorting by time gives each row once),
  `FetchedIs` (a labelled row that is dropped is no newer than those kept), `SplitIs`
  (training and held-out rows are all rows and, as those are of distinct items, have
  none in common) and `BetterF1`: a perfect incumbent has F1 1, if a held-out row is
  positive, and a blind candidate F1 0.
* `RulesProofs!IdentityIsTheEvent`: `SourcesIdentify` for any two records of a
  source: `HashIsEvent` (one key exactly for what the source calls one event, as far
  as a key can hold it), `DedupIsEvent`, `ReplyNamesParent` and `ItemFits`, where the
  centroid of a ring of points in range is in range (`MeanIsBetween`).
* `RulesProofs!VelocityIsHonest`: `VelocityHonest` for every series and every alpha.
  `Smoothed` is the average, on integers, by its recurrence; a series with one
  mention more everywhere has an average that much higher (`LiftedEwma`), one that
  ends higher an average that ends higher and is the same before (`RaisedEwma`).
  Second differences forget the level, and only the last one can see the last bin
  (`CurvesAre`), so the baseline and its deviation stay (`SpreadIs`).
  A baseline has no deviation exactly when it does not vary (`VarianceIs`, from the sum
  of squared distances, `DistancesAre`). `JudgedIs` has both cases (`Judges`): a varying baseline
  measures the last bin, a flat one answers 0 or the stand-in, and 0 only at the one
  count that continues it.
* `RulesProofs!FeedIsTrue`: `AnswersTrue` for any requests, histories of the table
  and failures. `Answering` adds that a request that has read has what the query
  gave at one moment since it came in, and that what is kept for a tab is what some
  request of that tab was answered fresh.
* `RulesProofs!TextsAreExact`: `TextExact` for any texts, vocabularies, limits, labels,
  phrases, Items and hashes. Its parts are lemmas of their own.
  `EncodingIs`, the tokenizer: the words of a text lie apart and hold every
  character but the spaces (`WordsAre`, from the order that `InOrder` gives);
  `CutUp` says where the pieces of a word end and that none could be longer, from each
  place of the word to its end (`CutUpStep` goes from the end to the front, along the
  recursion); `Laid` says what flattening makes of the first `k` words, so that the
  pieces of a word are read back at the places that bear its number (`SubwordsAre`),
  and what is cut off does not fit.
  `EntitiesAre`, the labels: after `k` words the entity of word `k` is open and those
  that end before it are found, each once (`ReadTo`, kept by `ReadStep`); an entity has
  one beginning and one end (`OneStart`, `LastWord`), and it is the same text whether
  it is cut to its limit by its last character or after it is taken out (`CutTwice`).
  `MatchIs`, the gazetteer: `Finds` says, for the suffix
  from any place on, that what is found there is what can be found there; it goes from
  the end to the front, because a hit jumps by its length (`FindsStep`).
  `MergedIs`: `Grown`
  says what the first `k` entities make of an Item; that a place keeps the gazetteer's
  geo when NER finds it too needs both merges: an entity of NER is only added when the
  first merge left room, and then every hit is in the Item.
  `SimhashIs` and `SignedIs`: `AllOnes` bounds a
  fingerprint by the sum of all powers of two below it.

The assumptions are those that the modules state: finitely many items, replicas
and score workers, numeric thresholds and bounds, placeholders that are no real
values, an LRU of at least one key, a floor below the ceiling, records as backing of
claims, a step within the slew limit, a positive cooldown, window and limit on the
Stories of a cycle, a bounded clock, pages
and LRUs of at least one entry, at least one host, and the shape of the inputs of
the pure functions and of the tables that are queried (rows of distinct items among
them). For texts these are: a
character has one class and a normal form made of characters, "##" is no single
character, an encoding has room for the two special tokens (both callers pass
256), and a label of the NER model is O or a B- or I- with a kind (as in the default
labels of `onnx_ner.py` and in the files it reads).

Sums, counts, sorting, folds and the moving average are defined over sets and series of
any size. Their facts are proved without an induction rule: a set of counterexamples
that is not empty has a smallest member, since proper inclusion of finite sets and
the order of the natural numbers are well-founded, and the step from the next
smaller case refutes it (`Sums!Smallest`, `RulesProofs!Least`).

Every invariant of the runs that expect no violation is a theorem, or is one under the
conditions named above. Model-checked only: liveness, which is out of the provers'
reach.

## 5. What is not modelled

* Similarity, embeddings, NER scores and the text of claims enter as constants or
  choices; so does the alignment of claims with records (`find_primary_match`).
* The 5-day TTL of dedup keys, the drop of partitions and the caches of partitions
  that exist: they act on days, while the models have minutes or no clock.
* Message validation and `term`, the set-up of streams, the health beats in
  `system_state`, wire references.
* In `Alerts` Stories without entities, which have no velocity; in `ReadApi` the detail
  of a Story, the sparkline, the list of alerts and the health page, which are single reads.
* Numerical training and the batches of the models, the loading of vocabularies
  and gazetteers, the LLM client: pure or numerical functions without state.
* URLs, languages, times and the cleaning of HTML in the normalizers: formatting
  that no property here tells apart.
* The deployment files: they justify the numbers of instances, nothing else.

## 6. Plan

What is left, in this order:

1. `Wall`: partitions, the drop job, `_ensured` caches, late redeliveries.
2. `find_primary_match` as an operator, in place of the constant `Backs`.
