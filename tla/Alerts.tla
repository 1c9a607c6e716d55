------------------------------- MODULE Alerts -------------------------------
(***************************************************************************)
(* From the Stories to the phone: the score worker measures every active   *)
(* Story once per cycle and raises alerts (services/score), the notifier   *)
(* polls the alerts table and POSTs each row to ntfy (services/notify).    *)
(* Every awaited call is an action, but the three reads that measure a     *)
(* Story, which are one.                                                   *)
(*                                                                         *)
(* A Story is its evidence: trust, origins, the z-score of its entities,   *)
(* its mainstream items and whether a swarm of one bot net is among its    *)
(* members; and when an item of it was last seen.  A trust can be lost: the *)
(* cluster service may write over a promotion (Cluster, NeverDemotes).     *)
(* The clock moves with every alert, so that no two alerts of one scorer   *)
(* share a timestamp.                                                      *)
(***************************************************************************)
EXTENDS Scoring

CONSTANTS Stories, Scorers,
          Zs,          \* values of velocity_z
          SwarmSize,   \* social items of a swarm, all copies, all in step
          Cooldown,    \* ALERT_COOLDOWN, in clock units
          Window,      \* ACTIVE_WINDOW, in clock units
          MaxStories,  \* MAX_STORIES, the Stories of one cycle
          Batch,       \* NOTIFY_BATCH
          Unpushable,  \* Stories whose alerts cannot be POSTed: an entity that is no ASCII
                       \* in the Title header, or a POST that ntfy answers with a 4xx
          MaxTick,     \* bound on the clock while nothing is alerted on
          MaxTime,     \* bound on the clock
          MaxChanges,  \* bound on the changes of evidence
          Faults       \* SUBSET [FaultKinds -> Nat]: bounds on the failures of each kind

FaultKinds == {"score", "post", "restart"}

ASSUME BatchAssumption == Batch \in Nat \ {0}
ASSUME CooldownAssumption == Cooldown \in Nat \ {0}
ASSUME ScorersAssumption == IsFiniteSet(Scorers)
ASSUME LimitsAssumption == Window \in Nat \ {0} /\ MaxStories \in Nat \ {0}
ASSUME UnpushableAssumption == Unpushable \subseteq Stories
ASSUME MaxTimeAssumption == MaxTime \in Nat
ASSUME MaxTickAssumption == MaxTick \in 0..MaxTime
ASSUME MaxChangesAssumption == MaxChanges \in Nat
ASSUME FaultsAssumption == Faults \subseteq [FaultKinds -> Nat]

VARIABLES
    story,      \* the evidence of each Story
    lastSeen,   \* stories.last_seen
    flagged,    \* stories.inauthenticity >= FLAG_THRESHOLD
    history,    \* the tallies reach back at least WARM_MIN
    now,
    scorer,     \* the cycle of each score worker
    had,        \* history: the trusts of each Story since a worker's cycle began
    alerts,     \* the alerts table, in the order of commit
    cursor,     \* Notifier.cursor, or None
    booted,     \* history: the value the cursor was booted with
    batch,      \* rows fetched and not pushed yet
    pushes,     \* history: how often each alert was POSTed with success
    changes, left

env      == <<story, lastSeen, history, had>>
notifier == <<cursor, booted, batch, pushes>>
vars == <<env, flagged, now, scorer, alerts, notifier, changes, left>>

None == -1

TrustStates == {"rumor", "corroborated", "primary_backed"}

Evidence == [trust : TrustStates, origins : 1..3, z : Zs,
             mainstream : {0, Saturation}, swarm : BOOLEAN]

\* A primary record backs a Story of any number of origins.
OriginsOf(trust) ==
    CASE trust = "rumor" -> {1} [] trust = "corroborated" -> {3}
      [] trust = "primary_backed" -> {1, 3}

MaxAlerts == MaxTime

Alert == [story : Stories, trust : TrustStates, ts : 1..MaxTime]

Idle == [pc |-> "idle", todo |-> {}, warm |-> FALSE, cur |-> <<>>]

TypeOK ==
    /\ story \in [Stories -> Evidence]
    /\ flagged \subseteq Stories
    /\ lastSeen \in [Stories -> 0..MaxTime]
    /\ history \in BOOLEAN
    /\ now \in 0..MaxTime
    /\ had \in [Scorers -> [Stories -> SUBSET TrustStates]]
    /\ \A w \in Scorers :
          /\ scorer[w].pc \in {"idle", "story", "update", "alert", "commit"}
          /\ \A s \in scorer[w].todo : s.id \in Stories /\ s.trust \in TrustStates
    /\ alerts \in Seq(Alert)
    /\ cursor \in None..MaxTime /\ booted \in None..MaxTime
    /\ \A k \in DOMAIN batch : batch[k] \in DOMAIN alerts
    /\ pushes \in [1..MaxAlerts -> Nat]
    /\ changes \in 0..MaxChanges /\ left \in [FaultKinds -> Nat]

Init ==
    /\ story \in [Stories -> {e \in Evidence :
                     /\ e.z = Max(Zs) /\ e.mainstream = 0 /\ ~e.swarm
                     /\ e.origins = IF e.trust = "rumor" THEN 1 ELSE 3}]
    /\ lastSeen = [s \in Stories |-> 0]
    /\ flagged = {}
    /\ history \in BOOLEAN
    /\ now = 0
    /\ scorer = [w \in Scorers |-> Idle]
    /\ had = [w \in Scorers |-> [s \in Stories |-> {}]]
    /\ alerts = <<>>
    /\ cursor = None /\ booted = None /\ batch = <<>>
    /\ pushes = [k \in 1..MaxAlerts |-> 0]
    /\ changes \in 0..MaxChanges
    /\ left \in Faults

Fault(kind) == left[kind] > 0 /\ left' = [left EXCEPT ![kind] = @ - 1]

----------------------------------------------------------------------------
(* The rest of the system: items arrive, trust changes, time passes.       *)

\* One thing about a Story changes.  An item that arrives moves last_seen, though not
\* back; tallies and the trust worker leave it.  Trust goes up and down.
Evolve(s) ==
    /\ changes > 0
    /\ changes' = changes - 1
    /\ \E e \in Evidence :
          /\ e.origins \in OriginsOf(e.trust)
          /\ Cardinality({f \in {"trust", "z", "mainstream", "swarm"} :
                 e[f] # story[s][f]}) <= 1
          /\ story' = [story EXCEPT ![s] = e]
          /\ had' = [w \in Scorers |-> [had[w] EXCEPT ![s] = @ \cup {e.trust}]]
    /\ \E seen \in {lastSeen[s], now} : lastSeen' = [lastSeen EXCEPT ![s] = seen]
    /\ UNCHANGED <<flagged, history, now, scorer, alerts, notifier, left>>

WarmUp ==
    /\ ~history
    /\ history' = TRUE
    /\ UNCHANGED <<story, lastSeen, had, flagged, now, scorer, alerts, notifier, changes, left>>

Tick ==
    /\ now < MaxTick
    /\ now' = now + 1
    /\ UNCHANGED <<env, flagged, scorer, alerts, notifier, changes, left>>

----------------------------------------------------------------------------
(* Scorer.cycle                                                            *)

Goto(w, step) == scorer' = [scorer EXCEPT ![w].pc = step]

NextStory(w) == scorer' = [scorer EXCEPT ![w].pc = "story", ![w].cur = <<>>]

\* An item of the Story was seen within the window.
Active(s) == lastSeen[s] > now - Window

\* Mutant: the Stories seen longest ago come first.
LastFirst(chosen, s) == lastSeen[chosen] <= lastSeen[s]

\* ORDER BY last_seen DESC.
Precedes(chosen, s) == lastSeen[chosen] >= lastSeen[s]

\* What active_stories may return: the most recently seen Stories, no more than
\* MaxStories of them.
ActiveStories ==
    LET active == {s \in Stories : Active(s)} IN
    {top \in SUBSET active :
        /\ Cardinality(top) = Min2(MaxStories, Cardinality(active))
        /\ \A chosen \in top, s \in active \ top : Precedes(chosen, s)}

\* earliest_bucket and active_stories: history, trust and origins are those of this
\* moment for the whole cycle.
CycleStart(w) ==
    /\ scorer[w].pc = "idle"
    /\ \E top \in ActiveStories :
          scorer' = [scorer EXCEPT ![w] = [Idle EXCEPT !.pc = "story", !.warm = history,
              !.todo = {[id |-> s, trust |-> story[s].trust, origins |-> story[s].origins]
                        : s \in top}]]
    /\ had' = [had EXCEPT ![w] = [s \in Stories |-> {story[s].trust}]]
    /\ UNCHANGED <<story, lastSeen, history, flagged, now, alerts, notifier, changes, left>>

\* The authors of a swarm are repeat offenders when at least half of what they
\* wrote is in Stories that are flagged already.
LowRep(s) ==
    LET swarms == {t \in Stories : story[t].swarm} IN
    IF story[s].swarm /\ 2 * Cardinality(swarms \cap flagged) >= Cardinality(swarms)
    THEN SwarmSize ELSE 0

\* mention_series, mainstream_count and inauth_counts of the next Story; what they
\* read may be newer than the snapshot.
Measure(w) ==
    /\ scorer[w].pc = "story"
    /\ \E row \in scorer[w].todo :
          LET e == story[row.id]
              n == IF e.swarm THEN SwarmSize ELSE 0
              q == Inauthenticity([social |-> n, origins |-> row.origins, copies |-> n,
                                   synced |-> n, lowRep |-> LowRep(row.id)])
          IN scorer' = [scorer EXCEPT ![w].pc = "update", ![w].todo = @ \ {row},
                ![w].cur = [row |-> row, inauth |-> Flagged(q),
                            exceeds |-> GapExceeds(e.z, e.mainstream, row.trust, q)]]
    /\ UNCHANGED <<env, flagged, now, alerts, notifier, changes, left>>

\* Mutant: alerts are not held back before the baseline is warm.
ShouldAlertCold(w) == scorer[w].cur.exceeds /\ scorer[w].cur.row.trust # "rumor"

\* The alert rule; its explicit trust check repeats what a weight of 0 implies.
ShouldAlert(w) ==
    /\ scorer[w].warm
    /\ scorer[w].cur.exceeds
    /\ scorer[w].cur.row.trust # "rumor"

UpdateScores(w) ==
    LET cur == scorer[w].cur IN
    /\ scorer[w].pc = "update"
    /\ flagged' = IF cur.inauth THEN flagged \cup {cur.row.id} ELSE flagged \ {cur.row.id}
    /\ IF ShouldAlert(w) THEN Goto(w, "alert") ELSE NextStory(w)
    /\ UNCHANGED <<env, now, alerts, notifier, changes, left>>

\* Mutant: the cooldown is one for all Stories.
RecentOfAny(s, t) == \E k \in DOMAIN alerts : alerts[k].ts > t - Cooldown

\* Mutant: the cooldown looks at the alerts of this very moment.
RecentNow(s, t) == \E k \in DOMAIN alerts : alerts[k].story = s /\ alerts[k].ts >= t

\* An alert of the Story within the cooldown.
Recent(s, t) ==
    \E k \in DOMAIN alerts : alerts[k].story = s /\ alerts[k].ts > t - Cooldown

\* insert_alert: the transaction begins, takes its timestamp and looks for a recent
\* alert ...
InsertAlert(w) ==
    /\ scorer[w].pc = "alert"
    /\ now < MaxTime
    /\ IF Recent(scorer[w].cur.row.id, now + 1)
       THEN NextStory(w) /\ UNCHANGED now
       ELSE /\ now' = now + 1
            /\ scorer' = [scorer EXCEPT ![w].pc = "commit", ![w].cur =
                             [row |-> @.row, ts |-> now + 1]]
    /\ UNCHANGED <<env, flagged, alerts, notifier, changes, left>>

\* ... and commits.
CommitAlert(w) ==
    /\ scorer[w].pc = "commit"
    /\ alerts' = Append(alerts, [story |-> scorer[w].cur.row.id,
                                 trust |-> scorer[w].cur.row.trust,
                                 ts    |-> scorer[w].cur.ts])
    /\ NextStory(w)
    /\ UNCHANGED <<env, flagged, now, notifier, changes, left>>

\* The heartbeat, then INTERVAL_S of sleep.
CycleEnd(w) ==
    /\ scorer[w].pc = "story" /\ scorer[w].todo = {}
    /\ scorer' = [scorer EXCEPT ![w] = Idle]
    /\ UNCHANGED <<env, flagged, now, alerts, notifier, changes, left>>

\* Mutant: a failed cycle is the last one.
CycleFailsForGood(w) ==
    /\ scorer[w].pc # "idle"
    /\ Fault("score")
    /\ Goto(w, "failed")
    /\ UNCHANGED <<env, flagged, now, alerts, notifier, changes>>

\* "score cycle failed; retrying next interval": a call raised, or the pod died.
CycleFails(w) ==
    /\ scorer[w].pc # "idle"
    /\ Fault("score")
    /\ scorer' = [scorer EXCEPT ![w] = Idle]
    /\ UNCHANGED <<env, flagged, now, alerts, notifier, changes>>

Cycle(w) ==
    \/ CycleStart(w) \/ Measure(w) \/ UpdateScores(w)
    \/ InsertAlert(w) \/ CommitAlert(w) \/ CycleEnd(w)

----------------------------------------------------------------------------
(* Notifier.cycle                                                          *)

\* Boot at the newest alert, or at the present if there is none.
BootCursor ==
    /\ cursor = None
    /\ cursor' = IF alerts = <<>> THEN now
                 ELSE Max({alerts[k].ts : k \in DOMAIN alerts})
    /\ booted' = cursor'
    /\ UNCHANGED <<env, flagged, now, scorer, alerts, batch, pushes,
                   changes, left>>

Newer == {k \in DOMAIN alerts : alerts[k].ts > cursor}

\* Mutant: the newest rows first.
FetchNewest ==
    /\ cursor # None /\ batch = <<>> /\ Newer # {}
    /\ \E rows \in [1..Min2(Batch, Cardinality(Newer)) -> Newer] :
          /\ \A i, j \in DOMAIN rows : i < j => alerts[rows[i]].ts > alerts[rows[j]].ts
          /\ \A k \in Newer : alerts[k].ts >= alerts[rows[Len(rows)]].ts
                                 => \E i \in DOMAIN rows : rows[i] = k
          /\ batch' = rows
    /\ UNCHANGED <<env, flagged, now, scorer, alerts, cursor, booted, pushes,
                   changes, left>>

\* Mutant: nothing is pushed until a batch is full.
FetchFullBatch ==
    /\ cursor # None /\ batch = <<>> /\ Cardinality(Newer) >= Batch
    /\ \E rows \in [1..Batch -> Newer] :
          /\ \A i, j \in DOMAIN rows : i < j => alerts[rows[i]].ts < alerts[rows[j]].ts
          /\ \A k \in Newer : alerts[k].ts <= alerts[rows[Len(rows)]].ts
                                 => \E i \in DOMAIN rows : rows[i] = k
          /\ batch' = rows
    /\ UNCHANGED <<env, flagged, now, scorer, alerts, cursor, booted, pushes,
                   changes, left>>

\* The rows after the cursor, oldest first, no more than a batch.
FetchNew ==
    /\ cursor # None /\ batch = <<>> /\ Newer # {}
    /\ \E rows \in [1..Min2(Batch, Cardinality(Newer)) -> Newer] :
          /\ \A i, j \in DOMAIN rows : i < j => alerts[rows[i]].ts < alerts[rows[j]].ts
          /\ \A k \in Newer : alerts[k].ts <= alerts[rows[Len(rows)]].ts
                                 => \E i \in DOMAIN rows : rows[i] = k
          /\ batch' = rows
    /\ UNCHANGED <<env, flagged, now, scorer, alerts, cursor, booted, pushes,
                   changes, left>>

\* Mutant: the cursor moves when the batch is through.
PushThenMoveAtEnd ==
    /\ batch # <<>> /\ alerts[Head(batch)].story \notin Unpushable
    /\ pushes' = [pushes EXCEPT ![Head(batch)] = @ + 1]
    /\ cursor' = IF Len(batch) = 1 THEN alerts[Head(batch)].ts ELSE cursor
    /\ batch' = Tail(batch)
    /\ UNCHANGED <<env, flagged, now, scorer, alerts, booted, changes, left>>

Pushable(k) == alerts[k].story \notin Unpushable

\* The POST succeeds and the cursor moves past the row.
Push ==
    /\ batch # <<>> /\ Pushable(Head(batch))
    /\ pushes' = [pushes EXCEPT ![Head(batch)] = @ + 1]
    /\ cursor' = alerts[Head(batch)].ts
    /\ batch' = Tail(batch)
    /\ UNCHANGED <<env, flagged, now, scorer, alerts, booted, changes, left>>

\* Mutant: a row that ntfy does not take is skipped.
PushFailsSkips ==
    /\ batch # <<>>
    /\ Fault("post")
    /\ cursor' = alerts[Head(batch)].ts
    /\ batch' = <<>>
    /\ UNCHANGED <<env, flagged, now, scorer, alerts, booted, pushes, changes>>

\* Mutant: a row that cannot be pushed is stepped over.
PushSteps ==
    /\ batch # <<>> /\ ~Pushable(Head(batch))
    /\ cursor' = alerts[Head(batch)].ts
    /\ batch' = Tail(batch)
    /\ UNCHANGED <<env, flagged, now, scorer, alerts, booted, pushes, changes, left>>

\* The POST of this row raises at every cycle.  The cycle is over, the cursor stays and
\* the next cycle begins with the same row.
PushRaises ==
    /\ batch # <<>> /\ ~Pushable(Head(batch))
    /\ batch' = <<>>
    /\ UNCHANGED <<env, flagged, now, scorer, alerts, cursor, booted, pushes, changes, left>>

\* A failure of ntfy: the POST raises this once, whether or not ntfy got it.
PushFails ==
    /\ batch # <<>>
    /\ Fault("post")
    /\ batch' = <<>>
    /\ UNCHANGED <<env, flagged, now, scorer, alerts, cursor, booted, pushes, changes>>

\* The pod dies and comes back: the cursor was in memory.
NotifierRestart ==
    /\ cursor # None
    /\ Fault("restart")
    /\ cursor' = None /\ booted' = None /\ batch' = <<>>
    /\ UNCHANGED <<env, flagged, now, scorer, alerts, pushes, changes>>

Notify == BootCursor \/ FetchNew \/ Push \/ PushRaises

----------------------------------------------------------------------------

ScoreNext ==
    \/ \E s \in Stories : Evolve(s)
    \/ WarmUp \/ Tick
    \/ \E w \in Scorers : Cycle(w) \/ CycleFails(w)

Next == ScoreNext \/ Notify \/ PushFails \/ NotifierRestart

\* Every sleep ends: the cycles run and the poll loop runs.
Fairness ==
    /\ WF_vars(WarmUp) /\ WF_vars(Notify)
    /\ \A w \in Scorers : WF_vars(Cycle(w))

Spec == Init /\ [][Next]_vars

FairSpec == Spec /\ Fairness

----------------------------------------------------------------------------
(* Properties                                                              *)

\* With one score worker two alerts of a Story are at least the cooldown apart,
\* whatever cycles fail and run again ("no row lands if a recent alert for the
\* story exists", score/db.py).
CooldownKept ==
    Cardinality(Scorers) = 1 =>
        \A i, j \in DOMAIN alerts :
            i < j /\ alerts[i].story = alerts[j].story
                => alerts[j].ts - alerts[i].ts >= Cooldown

\* An alert names a trust its Story had at some moment of the cycle that raised it,
\* never rumor, and none is raised before the baseline is warm, though trust and history
\* were read at the start of the cycle, the rest later, and the trust may be gone when
\* the alert is written ("hold alerts rather than alert off noise", score/main.py).
AlertsEarned ==
    [][alerts' # alerts =>
          LET alert == alerts'[Len(alerts')] IN
          /\ history /\ alert.trust # "rumor"
          /\ \E w \in Scorers : alert.trust \in had[w][alert.story]]_vars

\* "the cursor advances only past alerts that POSTed successfully" (notify/main.py):
\* ntfy got every alert between the boot cursor and the cursor, across batches and
\* failed POSTs.  One scorer, whose alerts commit in the order of their timestamps.
CursorCoversPushed ==
    Cardinality(Scorers) = 1 =>
        \A k \in DOMAIN alerts :
            booted < alerts[k].ts /\ alerts[k].ts <= cursor => pushes[k] > 0

\* An alert whose POST succeeded is never POSTed again: neither the failure of a
\* later row of its batch nor a restart repeats it ("a ntfy outage replays the tail").
NoIdleRepeat == \A k \in 1..MaxAlerts : pushes[k] <= 1

Stuck == \E k \in Newer : ~Pushable(k) /\ \A j \in Newer : alerts[k].ts <= alerts[j].ts

\* "Delivery is at-least-once" (notify/main.py), as far as the code keeps it: the notifier
\* catches up with the table for good, through failed POSTs, full batches and restarts,
\* or comes to a row that cannot be pushed and pushed all that was before it
\* (CursorCoversPushed).
CatchesUp == <>[](cursor # None /\ (Newer = {} \/ Stuck))

Hot(s) ==
    /\ story[s].z = Max(Zs) /\ story[s].trust = "primary_backed"
    /\ story[s].mainstream = 0 /\ ~story[s].swarm

\* Fewer than MaxStories others were seen as late as the Story.
OnTop(s) ==
    /\ Active(s)
    /\ Cardinality({t \in Stories \ {s} : lastSeen[t] >= lastSeen[s]}) < MaxStories

\* A Story that stays hot and among the most recently seen ones is alerted on in the
\* end, though cycles fail and others are alerted on first.  One that is not is left out
\* as long as MaxStories others are seen after it.
HotIsAlerted ==
    <>[](\A s \in Stories : Hot(s) /\ OnTop(s) =>
            \E k \in DOMAIN alerts : alerts[k].story = s)
=============================================================================
