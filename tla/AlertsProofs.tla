----------------------------- MODULE AlertsProofs -----------------------------
(***************************************************************************)
(* Alerts for every set of Stories and score workers and any number of     *)
(* changes and failures: what an alert says was true of its Story during   *)
(* the cycle, and a single worker keeps the cooldown.  With one score      *)
(* worker the cursor of the notifier never passes an alert that ntfy did   *)
(* not get, and whatever workers there are it never POSTs an alert again.  *)
(***************************************************************************)
EXTENDS Alerts, FiniteSetTheorems, SequenceTheorems, TLAPS

Rows == [id : Stories, trust : TrustStates, origins : 1..3]

Held == {<<>>} \cup [row : Rows, inauth : BOOLEAN, exceeds : BOOLEAN] \cup [row : Rows, ts : Nat]

Cycles == [pc : {"idle", "story", "update", "alert", "commit"}, todo : SUBSET Rows,
           warm : BOOLEAN, cur : Held]

\* The part of the state that alerts depend on.
Typed ==
    /\ story \in [Stories -> Evidence]
    /\ history \in BOOLEAN
    /\ had \in [Scorers -> [Stories -> SUBSET TrustStates]]
    /\ now \in Nat
    /\ scorer \in [Scorers -> Cycles]
    /\ alerts \in Seq([story : Stories, trust : TrustStates, ts : Nat])

\* row is a snapshot of a Story that the cycle of w took.
Was(w, row) == row.trust \in had[w][row.id]

\* What a cycle knows is true, or was when it began.
Faithful(w) ==
    /\ scorer[w].warm => history
    /\ \A row \in scorer[w].todo : Was(w, row)
    /\ scorer[w].pc \in {"update", "alert", "commit"} =>
          scorer[w].cur.row \in Rows /\ Was(w, scorer[w].cur.row)
    /\ scorer[w].pc \in {"alert", "commit"} =>
          scorer[w].warm /\ scorer[w].cur.row.trust # "rumor"
    /\ scorer[w].pc = "commit" => scorer[w].cur.ts \in Nat

Inv == Typed /\ \A w \in Scorers : Faithful(w)

LEMMA AlertType ==
    ASSUME Typed, NEW k \in DOMAIN alerts
    PROVE  alerts[k].story \in Stories /\ alerts[k].trust \in TrustStates /\ alerts[k].ts \in Nat
<1>1. k \in 1..Len(alerts)
  BY DEF Typed
<1>2. alerts[k] \in [story : Stories, trust : TrustStates, ts : Nat]
  BY <1>1, ElementOfSeq DEF Typed
<1> QED
  BY <1>2

LEMMA FlagIsBoolean ==
    ASSUME NEW q
    PROVE  Flagged(q) \in BOOLEAN
  BY DEF Flagged

LEMMA GapIsBoolean ==
    ASSUME NEW z, NEW m, NEW t, NEW q
    PROVE  GapExceeds(z, m, t, q) \in BOOLEAN
  BY DEF GapExceeds

LEMMA InvInit == Init => Inv
<1> SUFFICES ASSUME Init PROVE Inv
  OBVIOUS
<1>1. story \in [Stories -> Evidence] /\ now \in Nat /\ alerts = <<>>
  BY DEF Init
<1>2. history \in BOOLEAN
  BY Zenon DEF Init
<1>3. \A w \in Scorers : scorer[w] = Idle
  BY DEF Init
<1>4. Idle \in Cycles
  BY DEF Idle, Cycles, Held
<1>5. scorer \in [Scorers -> Cycles]
  BY <1>4 DEF Init
<1>6. ASSUME NEW w \in Scorers PROVE Faithful(w)
  BY <1>3 DEF Faithful, Idle
<1>7. had \in [Scorers -> [Stories -> SUBSET TrustStates]]
  BY DEF Init
<1> QED
  BY <1>1, <1>2, <1>5, <1>6, <1>7 DEF Inv, Typed

\* A step of the world outside the scorers: trust goes up and down, but what a Story
\* had it had, and history is not lost.
LEMMA WorldKeeps ==
    ASSUME Inv, UNCHANGED <<scorer, alerts>>, now' \in Nat, history' \in BOOLEAN,
           history => history', story' \in [Stories -> Evidence],
           had' \in [Scorers -> [Stories -> SUBSET TrustStates]],
           \A w \in Scorers, s \in Stories : had[w][s] \subseteq had'[w][s]
    PROVE  Inv'
<1>1. ASSUME NEW w \in Scorers, NEW row \in Rows, Was(w, row) PROVE Was(w, row)'
  <2>1. row.id \in Stories
    BY DEF Rows
  <2> QED
    BY <1>1, <2>1 DEF Was
<1>2. ASSUME NEW w \in Scorers PROVE Faithful(w)'
  <2>1. scorer[w].todo \subseteq Rows
    BY DEF Inv, Typed, Cycles
  <2> QED
    BY <1>1, <2>1 DEF Inv, Faithful
<1> QED
  BY <1>2 DEF Inv, Typed

\* A step of the scorer w that writes no alert.
LEMMA ScorerBegins ==
    ASSUME Inv, NEW w \in Scorers, NEW c \in Cycles, UNCHANGED <<story, history, alerts>>,
           now' \in Nat, scorer' = [scorer EXCEPT ![w] = c], Faithful(w)',
           had' \in [Scorers -> [Stories -> SUBSET TrustStates]],
           \A v \in Scorers : v # w => had'[v] = had[v]
    PROVE  Inv'
<1>1. scorer' \in [Scorers -> Cycles]
  BY DEF Inv, Typed
<1>2. ASSUME NEW v \in Scorers PROVE Faithful(v)'
  <2>1. CASE v = w
    BY <2>1
  <2>2. CASE v # w
    <3>1. scorer'[v] = scorer[v] /\ had'[v] = had[v]
      BY <2>2 DEF Inv, Typed
    <3> QED
      BY <3>1 DEF Inv, Faithful, Was
  <2> QED
    BY <2>1, <2>2
<1> QED
  BY <1>1, <1>2 DEF Inv, Typed

LEMMA ScorerKeeps ==
    ASSUME Inv, NEW w \in Scorers, NEW c \in Cycles, UNCHANGED <<story, history, had, alerts>>,
           now' \in Nat, scorer' = [scorer EXCEPT ![w] = c], Faithful(w)'
    PROVE  Inv'
<1>1. had' \in [Scorers -> [Stories -> SUBSET TrustStates]]
  BY DEF Inv, Typed
<1> QED
  BY <1>1, ScorerBegins

\* The steps of the scorer w, but the commit of an alert.
LEMMA CycleKeeps ==
    ASSUME Inv, NEW w \in Scorers,
           \/ CycleStart(w) \/ Measure(w) \/ UpdateScores(w)
           \/ InsertAlert(w) \/ CycleEnd(w) \/ CycleFails(w)
    PROVE  Inv'
<1>1. scorer[w] \in Cycles /\ scorer \in [Scorers -> Cycles] /\ now \in Nat
  BY DEF Inv, Typed
<1>2. \A s \in Stories : story[s].trust \in TrustStates /\ story[s].origins \in 1..3
  BY DEF Inv, Typed, Evidence
<1>3. Faithful(w)
  BY DEF Inv
<1>4. Idle \in Cycles
  BY DEF Idle, Cycles, Held
<1>5. CASE CycleStart(w)
  <2> DEFINE rows(top) == {[id |-> s, trust |-> story[s].trust, origins |-> story[s].origins] :
                               s \in top}
             trusts == [s \in Stories |-> {story[s].trust}]
  <2>1. PICK top \in ActiveStories :
           scorer' = [scorer EXCEPT ![w] = [Idle EXCEPT !.pc = "story", !.warm = history,
                                                        !.todo = rows(top)]]
    BY <1>5 DEF CycleStart
  <2>2. top \subseteq Stories
    BY DEF ActiveStories
  <2>3. rows(top) \subseteq Rows
    BY <1>2, <2>2 DEF Rows
  <2>4. history \in BOOLEAN
    BY DEF Inv, Typed
  <2> DEFINE c == [Idle EXCEPT !.pc = "story", !.warm = history, !.todo = rows(top)]
  <2>5. c \in Cycles
    BY <2>3, <2>4 DEF Idle, Cycles, Held
  <2>6. scorer' = [scorer EXCEPT ![w] = c] /\ scorer'[w] = c
    BY <1>1, <2>1
  <2>7. had' = [had EXCEPT ![w] = trusts]
    BY <1>5 DEF CycleStart
  <2>8. trusts \in [Stories -> SUBSET TrustStates]
    BY <1>2
  <2>9. \A row \in rows(top) : row.trust \in trusts[row.id]
    BY <2>2
  <2>10. UNCHANGED <<story, history, alerts, now>>
    BY <1>5 DEF CycleStart
  <2>11. c.pc = "story" /\ c.warm = history /\ c.todo = rows(top)
    BY DEF Idle
  <2> HIDE DEF c, rows, trusts
  <2>12. /\ had' \in [Scorers -> [Stories -> SUBSET TrustStates]] /\ had'[w] = trusts
         /\ \A v \in Scorers : v # w => had'[v] = had[v]
    BY <2>7, <2>8 DEF Inv, Typed
  <2>13. Faithful(w)'
    BY <2>6, <2>9, <2>10, <2>11, <2>12 DEF Faithful, Was
  <2> QED
    BY <1>1, <2>5, <2>6, <2>10, <2>12, <2>13, ScorerBegins
<1>6. CASE Measure(w)
  <2> DEFINE e(row) == story[row.id]
             n(row) == IF e(row).swarm THEN SwarmSize ELSE 0
             q(row) == Inauthenticity([social |-> n(row), origins |-> row.origins,
                           copies |-> n(row), synced |-> n(row), lowRep |-> LowRep(row.id)])
             seen(row) == [row |-> row, inauth |-> Flagged(q(row)), exceeds |->
                           GapExceeds(e(row).z, e(row).mainstream, row.trust, q(row))]
  <2>1. PICK row \in scorer[w].todo :
           scorer' = [scorer EXCEPT ![w].pc = "update", ![w].todo = @ \ {row},
                                    ![w].cur = seen(row)]
    BY <1>6 DEF Measure
  <2> DEFINE cur == seen(row)
             c == [scorer[w] EXCEPT !.pc = "update", !.todo = @ \ {row}, !.cur = cur]
  <2> HIDE DEF e, q
  <2>2. row \in Rows
    BY <1>1 DEF Cycles
  <2>3. cur \in Held
    BY <2>2, FlagIsBoolean, GapIsBoolean DEF Held
  <2>4. cur.row = row
    OBVIOUS
  <2> HIDE DEF cur
  <2>5. c \in Cycles
    BY <1>1, <2>3 DEF Cycles
  <2>6. scorer' = [scorer EXCEPT ![w] = c] /\ scorer'[w] = c
    BY <1>1, <2>1 DEF cur
  <2>7. UNCHANGED <<story, history, had, alerts, now>>
    BY <1>6 DEF Measure, env
  <2>8. c.pc = "update" /\ c.todo = scorer[w].todo \ {row} /\ c.cur = cur
        /\ c.warm = scorer[w].warm
    BY <1>1 DEF Cycles
  <2>9. Faithful(w)'
    BY <1>3, <2>2, <2>4, <2>6, <2>7, <2>8 DEF Faithful, Was
  <2> HIDE DEF c
  <2> QED
    BY <1>1, <2>5, <2>6, <2>7, <2>9, ScorerKeeps
<1>7. CASE UpdateScores(w) /\ ShouldAlert(w)
  <2> DEFINE c == [scorer[w] EXCEPT !.pc = "alert"]
  <2>1. c \in Cycles
    BY <1>1 DEF Cycles
  <2>2. scorer' = [scorer EXCEPT ![w] = c] /\ scorer'[w] = c
    BY <1>1, <1>7 DEF UpdateScores, Goto
  <2>3. UNCHANGED <<story, history, had, alerts, now>>
    BY <1>7 DEF UpdateScores, env
  <2>4. scorer[w].pc = "update" /\ scorer[w].warm /\ scorer[w].cur.row.trust # "rumor"
    BY <1>7 DEF UpdateScores, ShouldAlert
  <2>5. c.pc = "alert" /\ c.todo = scorer[w].todo /\ c.cur = scorer[w].cur
        /\ c.warm = scorer[w].warm
    BY <1>1 DEF Cycles
  <2>6. Faithful(w)'
    BY <1>3, <2>2, <2>3, <2>4, <2>5 DEF Faithful, Was
  <2> HIDE DEF c
  <2> QED
    BY <1>1, <2>1, <2>2, <2>3, <2>6, ScorerKeeps
<1>8. ASSUME NextStory(w), UNCHANGED <<story, history, had, alerts, now>> PROVE Inv'
  <2> DEFINE c == [scorer[w] EXCEPT !.pc = "story", !.cur = <<>>]
  <2>1. c \in Cycles
    BY <1>1 DEF Cycles, Held
  <2>2. scorer' = [scorer EXCEPT ![w] = c] /\ scorer'[w] = c
    BY <1>1, <1>8 DEF NextStory
  <2>3. c.pc = "story" /\ c.todo = scorer[w].todo /\ c.warm = scorer[w].warm
    BY <1>1 DEF Cycles
  <2>4. Faithful(w)'
    BY <1>3, <1>8, <2>2, <2>3 DEF Faithful, Was
  <2> HIDE DEF c
  <2> QED
    BY <1>1, <1>8, <2>1, <2>2, <2>4, ScorerKeeps
<1>9. CASE UpdateScores(w) /\ ~ShouldAlert(w)
  BY <1>8, <1>9 DEF UpdateScores, env
<1>10. CASE InsertAlert(w) /\ Recent(scorer[w].cur.row.id, now + 1)
  BY <1>8, <1>10 DEF InsertAlert, env
<1>11. CASE InsertAlert(w) /\ ~Recent(scorer[w].cur.row.id, now + 1)
  <2> DEFINE cur == [row |-> scorer[w].cur.row, ts |-> now + 1]
             c == [scorer[w] EXCEPT !.pc = "commit", !.cur = cur]
  <2>1. scorer[w].pc = "alert" /\ scorer[w].cur.row \in Rows
    BY <1>3, <1>11 DEF InsertAlert, Faithful
  <2>2. cur \in Held
    BY <1>1, <2>1 DEF Held
  <2>3. c \in Cycles
    BY <1>1, <2>2 DEF Cycles
  <2>4. scorer' = [scorer EXCEPT ![w] = c] /\ scorer'[w] = c
    BY <1>1, <1>11 DEF InsertAlert
  <2>5. UNCHANGED <<story, history, had, alerts>> /\ now' \in Nat
    BY <1>1, <1>11 DEF InsertAlert, env
  <2>6. c.pc = "commit" /\ c.todo = scorer[w].todo /\ c.cur = cur
        /\ c.warm = scorer[w].warm
    BY <1>1 DEF Cycles
  <2>7. Faithful(w)'
    BY <1>1, <1>3, <2>1, <2>4, <2>5, <2>6 DEF Faithful, Was
  <2> HIDE DEF c
  <2> QED
    BY <2>3, <2>4, <2>5, <2>7, ScorerKeeps
<1>12. ASSUME scorer' = [scorer EXCEPT ![w] = Idle], UNCHANGED <<story, history, had, alerts, now>>
       PROVE  Inv'
  <2>1. Faithful(w)'
    BY <1>1, <1>12 DEF Faithful, Idle
  <2> QED
    BY <1>1, <1>4, <1>12, <2>1, ScorerKeeps
<1>13. CASE CycleEnd(w) \/ CycleFails(w)
  BY <1>12, <1>13 DEF CycleEnd, CycleFails, env
<1> QED
  BY <1>5, <1>6, <1>7, <1>9, <1>10, <1>11, <1>13

\* An alert is committed with the trust of the snapshot.
LEMMA CommitKeeps ==
    ASSUME Inv, NEW w \in Scorers, CommitAlert(w)
    PROVE  Inv'
<1> DEFINE row == scorer[w].cur.row
           alert == [story |-> row.id, trust |-> row.trust, ts |-> scorer[w].cur.ts]
           c == [scorer[w] EXCEPT !.pc = "story", !.cur = <<>>]
<1>1. /\ scorer[w] \in Cycles /\ scorer \in [Scorers -> Cycles]
      /\ alerts \in Seq([story : Stories, trust : TrustStates, ts : Nat])
  BY DEF Inv, Typed
<1>2. /\ history /\ row \in Rows /\ Was(w, row) /\ row.trust # "rumor"
      /\ scorer[w].cur.ts \in Nat
  BY DEF Inv, Faithful, CommitAlert
<1>3. UNCHANGED <<story, history, had, now>> /\ alerts' = Append(alerts, alert)
  BY DEF CommitAlert, env
<1>4. alert \in [story : Stories, trust : TrustStates, ts : Nat]
  BY <1>2 DEF Rows
<1>5. c \in Cycles
  BY <1>1 DEF Cycles, Held
<1>6. scorer' = [scorer EXCEPT ![w] = c] /\ scorer'[w] = c
  BY <1>1 DEF CommitAlert, NextStory
<1>7. c.pc = "story" /\ c.todo = scorer[w].todo /\ c.warm = scorer[w].warm
  BY <1>1 DEF Cycles
<1> HIDE DEF alert, c
<1>8. alerts' \in Seq([story : Stories, trust : TrustStates, ts : Nat])
  BY <1>1, <1>3, <1>4, AppendProperties
<1>9. ASSUME NEW v \in Scorers PROVE Faithful(v)'
  <2>1. CASE v = w
    BY <1>3, <1>6, <1>7, <2>1 DEF Inv, Faithful, Was
  <2>2. CASE v # w
    <3>1. scorer'[v] = scorer[v]
      BY <1>1, <1>6, <2>2
    <3> QED
      BY <1>3, <3>1 DEF Inv, Faithful, Was
  <2> QED
    BY <2>1, <2>2
<1>10. scorer' \in [Scorers -> Cycles]
  BY <1>1, <1>5, <1>6
<1> QED
  BY <1>3, <1>8, <1>9, <1>10 DEF Inv, Typed

\* Everything but the scorers: evidence, the clock and the notifier.
LEMMA OthersKeep ==
    ASSUME Inv, (\E s \in Stories : Evolve(s)) \/ WarmUp \/ Tick \/ Notify \/ PushFails
                \/ NotifierRestart \/ UNCHANGED vars
    PROVE  Inv'
<1>1. UNCHANGED <<scorer, alerts>>
  BY DEF Evolve, WarmUp, Tick, Notify, BootCursor, FetchNew, Push,
         PushRaises, PushFails, NotifierRestart, vars
<1>2. now' \in Nat
  BY DEF Evolve, WarmUp, Tick, Notify, BootCursor, FetchNew, Push,
         PushRaises, PushFails, NotifierRestart,
         vars, Inv, Typed
<1>3. history' \in BOOLEAN /\ (history => history')
  <2>1. CASE WarmUp
    BY <2>1, Zenon DEF WarmUp
  <2>2. CASE ~WarmUp
    <3>1. history' = history
      BY <2>2 DEF Evolve, Tick, Notify, BootCursor, FetchNew, Push,
             PushRaises, PushFails, NotifierRestart,
                  vars, env
    <3> QED
      BY <3>1 DEF Inv, Typed
  <2> QED
    BY <2>1, <2>2
<1>4. /\ story' \in [Stories -> Evidence]
      /\ had' \in [Scorers -> [Stories -> SUBSET TrustStates]]
      /\ \A w \in Scorers, s \in Stories : had[w][s] \subseteq had'[w][s]
  <2>1. ASSUME NEW s \in Stories, Evolve(s)
        PROVE  /\ story' \in [Stories -> Evidence]
               /\ had' \in [Scorers -> [Stories -> SUBSET TrustStates]]
               /\ \A w \in Scorers, r \in Stories : had[w][r] \subseteq had'[w][r]
    <3>1. PICK e \in Evidence :
             /\ story' = [story EXCEPT ![s] = e]
             /\ had' = [w \in Scorers |-> [had[w] EXCEPT ![s] = @ \cup {e.trust}]]
      BY <2>1 DEF Evolve
    <3>2. e.trust \in TrustStates
      BY DEF Evidence
    <3> QED
      BY <3>1, <3>2 DEF Inv, Typed
  <2>2. CASE UNCHANGED <<story, had>>
    BY <2>2 DEF Inv, Typed
  <2> QED
    BY <2>1, <2>2 DEF WarmUp, Tick, Notify, BootCursor, FetchNew, Push, PushRaises, PushFails,
                      NotifierRestart, vars, env
<1> QED
  BY <1>1, <1>2, <1>3, <1>4, WorldKeeps

LEMMA InvStep == Inv /\ [Next]_vars => Inv'
  BY OthersKeep, CycleKeeps, CommitKeeps DEF Next, ScoreNext, Cycle

\* Only a commit writes the table.
LEMMA OnlyCommits ==
    ASSUME Inv, [Next]_vars
    PROVE  alerts' = alerts \/ \E w \in Scorers : CommitAlert(w)
  BY DEF Next, ScoreNext, Cycle, Evolve, WarmUp, Tick, CycleStart, Measure, UpdateScores,
         InsertAlert, CycleEnd, CycleFails, Notify, BootCursor, FetchNew, Push, PushRaises,
         PushFails, NotifierRestart, vars

LEMMA AlertIsEarned ==
    ASSUME Inv, NEW w \in Scorers, CommitAlert(w)
    PROVE  LET alert == alerts'[Len(alerts')] IN
           history /\ alert.trust # "rumor" /\ alert.trust \in had[w][alert.story]
<1> DEFINE row == scorer[w].cur.row
           alert == [story |-> row.id, trust |-> row.trust, ts |-> scorer[w].cur.ts]
<1>1. /\ history /\ row \in Rows /\ Was(w, row) /\ row.trust # "rumor"
      /\ scorer[w].cur.ts \in Nat
  BY DEF Inv, Faithful, CommitAlert
<1>2. alerts' = Append(alerts, alert)
  BY DEF CommitAlert
<1>3. alert \in [story : Stories, trust : TrustStates, ts : Nat]
  BY <1>1 DEF Rows
<1>4. alert.story = row.id /\ alert.trust = row.trust
  OBVIOUS
<1> HIDE DEF alert
<1>5. Len(alerts') = Len(alerts) + 1 /\ alerts'[Len(alerts) + 1] = alert
  BY <1>2, <1>3, AppendProperties DEF Inv, Typed
<1> QED
  BY <1>1, <1>4, <1>5 DEF Was

\* An alert names a trust its Story had during the cycle, never rumor, and none is raised
\* before the baseline is warm, though Scorer.cycle reads trust and history at its start,
\* scores later and writes last, and the trust may be gone by then.
THEOREM OnlyEarnedAlerts == Spec => AlertsEarned
<1> DEFINE Earned ==
        alerts' # alerts =>
            LET alert == alerts'[Len(alerts')] IN
            /\ history /\ alert.trust # "rumor"
            /\ \E w \in Scorers : alert.trust \in had[w][alert.story]
<1>1. Inv /\ [Next]_vars => Earned
  BY OnlyCommits, AlertIsEarned
<1>2. Inv /\ [Next]_vars => [Earned]_vars
  BY <1>1
<1> QED
  BY InvInit, InvStep, <1>2, PTL DEF Spec, AlertsEarned

----------------------------------------------------------------------------
(* One score worker                                                        *)

\* The alert a worker is about to commit comes a cooldown after the last of its Story,
\* and no other worker can add one before it does.
Spaced(w) ==
    scorer[w].pc = "commit" =>
        \A k \in DOMAIN alerts :
            alerts[k].story = scorer[w].cur.row.id => alerts[k].ts + Cooldown <= scorer[w].cur.ts

Apart ==
    \A i, j \in DOMAIN alerts :
        i < j /\ alerts[i].story = alerts[j].story => alerts[j].ts - alerts[i].ts >= Cooldown

Solo == \A v, w \in Scorers : v = w

LEMMA OneIsSolo == Cardinality(Scorers) = 1 => Solo
  BY ScorersAssumption, FS_Singleton DEF Solo

LEMMA NotRecent ==
    ASSUME Typed, NEW s, NEW t \in Nat, ~Recent(s, t),
           NEW k \in DOMAIN alerts, alerts[k].story = s
    PROVE  alerts[k].ts + Cooldown <= t
<1>1. alerts[k].ts \in Nat /\ Cooldown \in Nat
  BY AlertType, CooldownAssumption
<1>2. ~(alerts[k].ts > t - Cooldown)
  BY Zenon DEF Recent
<1> QED
  BY <1>1, <1>2

LEMMA InsertSpaces ==
    ASSUME Inv, NEW w \in Scorers, InsertAlert(w)
    PROVE  Spaced(w)'
<1>1. CASE Recent(scorer[w].cur.row.id, now + 1)
  BY <1>1 DEF InsertAlert, NextStory, Inv, Typed, Cycles, Spaced
<1>2. CASE ~Recent(scorer[w].cur.row.id, now + 1)
  <2> DEFINE cur == [row |-> scorer[w].cur.row, ts |-> now + 1]
  <2>1. scorer'[w].cur = cur /\ alerts' = alerts
    BY <1>2 DEF InsertAlert, Inv, Typed, Cycles
  <2>2. cur.row = scorer[w].cur.row /\ cur.ts = now + 1
    OBVIOUS
  <2> HIDE DEF cur
  <2>3. ASSUME NEW k \in DOMAIN alerts, alerts[k].story = scorer[w].cur.row.id
        PROVE  alerts[k].ts + Cooldown <= now + 1
    <3>1. now + 1 \in Nat
      BY DEF Inv, Typed
    <3> QED
      BY <1>2, <2>3, <3>1, NotRecent DEF Inv
  <2> QED
    BY <2>1, <2>2, <2>3 DEF Spaced
<1> QED
  BY <1>1, <1>2

LEMMA CommitStaysApart ==
    ASSUME Inv, Apart, NEW w \in Scorers, Spaced(w), CommitAlert(w)
    PROVE  Apart'
<1> DEFINE alert == [story |-> scorer[w].cur.row.id, trust |-> scorer[w].cur.row.trust,
                     ts |-> scorer[w].cur.ts]
<1>1. alerts' = Append(alerts, alert) /\ scorer[w].pc = "commit"
  BY DEF CommitAlert
<1>2. alert \in [story : Stories, trust : TrustStates, ts : Nat]
  BY DEF CommitAlert, Inv, Faithful, Rows
<1>3. alert.story = scorer[w].cur.row.id /\ alert.ts = scorer[w].cur.ts /\ alert.ts \in Nat
  BY <1>2
<1> HIDE DEF alert
<1>4. /\ Len(alerts) \in Nat /\ DOMAIN alerts = 1..Len(alerts)
      /\ DOMAIN alerts' = 1..(Len(alerts) + 1)
      /\ \A k \in DOMAIN alerts : alerts'[k] = alerts[k]
      /\ alerts'[Len(alerts) + 1] = alert
  BY <1>1, <1>2, AppendProperties DEF Inv, Typed
<1> SUFFICES ASSUME NEW i \in DOMAIN alerts', NEW j \in DOMAIN alerts', i < j,
                    alerts'[i].story = alerts'[j].story
             PROVE  alerts'[j].ts - alerts'[i].ts >= Cooldown
  BY DEF Apart
<1>5. i \in DOMAIN alerts /\ alerts'[i] = alerts[i]
  BY <1>4
<1>6. CASE j \in DOMAIN alerts
  BY <1>4, <1>5, <1>6 DEF Apart
<1>7. CASE j = Len(alerts) + 1
  <2>1. alerts[i].ts + Cooldown <= alert.ts
    BY <1>1, <1>3, <1>4, <1>5, <1>7 DEF Spaced
  <2>2. alerts[i].ts \in Nat
    BY <1>5, AlertType DEF Inv
  <2> QED
    BY <1>3, <1>4, <1>5, <1>7, <2>1, <2>2, CooldownAssumption
<1> QED
  BY <1>4, <1>6, <1>7

\* Of the steps of a cycle only insert_alert leads to a pending alert.
LEMMA NothingPending ==
    ASSUME Inv, NEW w \in Scorers,
           CycleStart(w) \/ Measure(w) \/ UpdateScores(w) \/ CycleEnd(w) \/ CycleFails(w)
    PROVE  alerts' = alerts /\ scorer'[w].pc # "commit"
<1>1. scorer \in [Scorers -> Cycles]
  BY DEF Inv, Typed
<1> SUFFICES scorer'[w].pc # "commit"
  BY DEF CycleStart, Measure, UpdateScores, CycleEnd, CycleFails
<1>2. CASE CycleEnd(w) \/ CycleFails(w)
  <2>1. scorer'[w] = Idle
    BY <1>1, <1>2 DEF CycleEnd, CycleFails
  <2>2. Idle.pc = "idle"
    BY DEF Idle
  <2> QED
    BY <2>1, <2>2
<1>3. CASE CycleStart(w)
  <2>1. \E rows : scorer'[w] = [Idle EXCEPT !.pc = "story", !.warm = history, !.todo = rows]
    BY <1>1, <1>3, Zenon DEF CycleStart
  <2> QED
    BY <2>1 DEF Idle
<1>4. CASE UpdateScores(w)
  BY <1>1, <1>4 DEF UpdateScores, Goto, NextStory, Cycles
<1>5. CASE Measure(w)
  <2>1. \E row, cur : scorer' = [scorer EXCEPT ![w].pc = "update", ![w].todo = @ \ {row},
                                               ![w].cur = cur]
    BY <1>5, Zenon DEF Measure
  <2> QED
    BY <1>1, <2>1 DEF Cycles
<1> QED
  BY <1>2, <1>3, <1>4, <1>5

\* Two alerts of a Story are a cooldown apart, whatever cycles fail and run again, with
\* one score worker (_INSERT_ALERT looks for a recent alert before it inserts).
THEOREM CooldownIsKept == Spec => []CooldownKept
<1> DEFINE Apart1 == Solo => Inv /\ Apart /\ \A w \in Scorers : Spaced(w)
<1>1. Init => Apart1
  BY InvInit DEF Init, Apart, Spaced, Idle
<1>2. Apart1 /\ [Next]_vars => Apart1'
  <2> SUFFICES ASSUME Solo, Inv, Apart, \A w \in Scorers : Spaced(w), [Next]_vars
               PROVE  Inv' /\ Apart' /\ \A w \in Scorers : Spaced(w)'
    BY Zenon DEF Solo
  <2>1. Inv'
    BY InvStep
  <2>2. ASSUME UNCHANGED <<scorer, alerts>>
        PROVE  Apart' /\ \A v \in Scorers : Spaced(v)'
    BY <2>2 DEF Apart, Spaced
  <2>3. ASSUME NEW w \in Scorers, InsertAlert(w)
        PROVE  Apart' /\ \A v \in Scorers : Spaced(v)'
    BY <2>3, InsertSpaces DEF Solo, Apart, InsertAlert
  <2>4. ASSUME NEW w \in Scorers, CommitAlert(w)
        PROVE  Apart' /\ \A v \in Scorers : Spaced(v)'
    <3>1. scorer'[w].pc = "story"
      BY <2>4 DEF CommitAlert, NextStory, Inv, Typed, Cycles
    <3> QED
      BY <2>4, <3>1, CommitStaysApart DEF Solo, Spaced
  <2>5. ASSUME NEW w \in Scorers, CycleStart(w) \/ Measure(w) \/ UpdateScores(w)
                                   \/ CycleEnd(w) \/ CycleFails(w)
        PROVE  Apart' /\ \A v \in Scorers : Spaced(v)'
    <3>1. alerts' = alerts /\ scorer'[w].pc # "commit"
      BY <2>5, NothingPending
    <3> QED
      BY <3>1 DEF Solo, Spaced, Apart
  <2> QED
    BY <2>1, <2>2, <2>3, <2>4, <2>5
       DEF Next, ScoreNext, Cycle, vars, Evolve, WarmUp, Tick, Notify, BootCursor, FetchNew,
           Push, PushRaises, PushFails, NotifierRestart
<1>3. Apart1 => CooldownKept
  BY OneIsSolo DEF Apart, CooldownKept
<1> QED
  BY <1>1, <1>2, <1>3, PTL DEF Spec

----------------------------------------------------------------------------
(* The notifier                                                            *)

\* Alerts are committed in the order of their timestamps, a pending one after all that
\* are there, and the clock moves with each.
Timed ==
    /\ now <= MaxTime
    /\ Len(alerts) <= now
    /\ \A k \in DOMAIN alerts : alerts[k].ts \in 1..now
    /\ \A i, j \in DOMAIN alerts : i < j => alerts[i].ts < alerts[j].ts

Latest(w) ==
    scorer[w].pc = "commit" =>
        /\ scorer[w].cur.ts \in 1..now
        /\ Len(alerts) < now
        /\ \A k \in DOMAIN alerts : alerts[k].ts < scorer[w].cur.ts

\* A cursor is where it was booted or at an alert.
Anchored ==
    /\ cursor \in Int /\ booted \in Int
    /\ cursor = booted \/ \E k \in DOMAIN alerts : alerts[k].ts = cursor

\* The rows in hand are in order, and are all there is between the cursor and the
\* last of them.
InHand ==
    /\ batch \in Seq(Nat)
    /\ cursor = None => batch = <<>>
    /\ \A i \in DOMAIN batch : batch[i] \in DOMAIN alerts /\ cursor < alerts[batch[i]].ts
    /\ \A i, j \in DOMAIN batch : i < j => alerts[batch[i]].ts < alerts[batch[j]].ts
    /\ \A k \in DOMAIN alerts :
          batch # <<>> /\ cursor < alerts[k].ts /\ alerts[k].ts <= alerts[batch[Len(batch)]].ts
              => \E i \in DOMAIN batch : batch[i] = k

Covered ==
    /\ pushes \in [1..MaxTime -> Nat]
    /\ \A k \in DOMAIN alerts :
          booted < alerts[k].ts /\ alerts[k].ts <= cursor => pushes[k] > 0

Table == Inv /\ Timed /\ \A w \in Scorers : Latest(w)

NotifierInv == Anchored /\ InHand /\ Covered

LEMMA AlertsSeq ==
    ASSUME Inv
    PROVE  /\ Len(alerts) \in Nat
           /\ DOMAIN alerts = 1..Len(alerts)
           /\ \A k \in DOMAIN alerts : alerts[k].ts \in Nat
  BY AlertType, LenProperties DEF Inv, Typed

LEMMA TableInit == Init => Table
<1> SUFFICES ASSUME Init PROVE Table
  OBVIOUS
<1>1. now = 0 /\ alerts = <<>> /\ scorer = [w \in Scorers |-> Idle]
  BY DEF Init
<1>2. Timed
  BY <1>1, MaxTimeAssumption DEF Timed
<1>3. \A w \in Scorers : Latest(w)
  BY <1>1 DEF Latest, Idle
<1> QED
  BY <1>2, <1>3, InvInit DEF Table

LEMMA NotifierInit == Init => NotifierInv
<1> SUFFICES ASSUME Init PROVE NotifierInv
  OBVIOUS
<1>1. /\ alerts = <<>> /\ batch = <<>> /\ cursor = None /\ booted = None
      /\ pushes = [k \in 1..MaxAlerts |-> 0]
  BY DEF Init
<1> QED
  BY <1>1 DEF NotifierInv, Anchored, InHand, Covered, None, MaxAlerts

----------------------------------------------------------------------------
(* The score worker                                                        *)

\* What does not write the table keeps its order while time passes.
LEMMA TimePasses ==
    ASSUME Table, Inv', UNCHANGED alerts, now' \in now..MaxTime
    PROVE  Timed'
  BY AlertsSeq DEF Table, Inv, Typed, Timed

LEMMA InsertIsLatest ==
    ASSUME Table, Inv', NEW w \in Scorers, InsertAlert(w)
    PROVE  Timed' /\ Latest(w)'
<1>1. now \in Nat /\ now < MaxTime /\ alerts' = alerts /\ scorer \in [Scorers -> Cycles]
  BY DEF InsertAlert, Table, Inv, Typed
<1>2. now' \in now..MaxTime
  BY <1>1, MaxTimeAssumption DEF InsertAlert
<1>3. Timed'
  BY <1>1, <1>2, TimePasses
<1>4. CASE Recent(scorer[w].cur.row.id, now + 1)
  BY <1>1, <1>3, <1>4 DEF InsertAlert, NextStory, Cycles, Latest
<1>5. CASE ~Recent(scorer[w].cur.row.id, now + 1)
  <2> DEFINE cur == [row |-> scorer[w].cur.row, ts |-> now + 1]
  <2>1. scorer'[w].cur = cur /\ now' = now + 1
    BY <1>1, <1>5 DEF InsertAlert, Cycles
  <2>2. cur.ts = now + 1
    OBVIOUS
  <2> HIDE DEF cur
  <2>3. scorer'[w].cur.ts = now + 1
    BY <2>1, <2>2
  <2> QED
    BY <1>1, <1>3, <2>1, <2>3, AlertsSeq DEF Table, Timed, Latest
<1> QED
  BY <1>4, <1>5

\* A commit appends the latest alert.
LEMMA CommitAppends ==
    ASSUME Table, NEW w \in Scorers, CommitAlert(w)
    PROVE  \E ts \in 1..now :
              /\ UNCHANGED now /\ Len(alerts) < now
              /\ Len(alerts') = Len(alerts) + 1 /\ DOMAIN alerts' = 1..(Len(alerts) + 1)
              /\ \A k \in DOMAIN alerts : alerts'[k] = alerts[k] /\ alerts[k].ts < ts
              /\ alerts'[Len(alerts) + 1].ts = ts
<1> DEFINE alert == [story |-> scorer[w].cur.row.id, trust |-> scorer[w].cur.row.trust,
                     ts |-> scorer[w].cur.ts]
<1>1. alerts' = Append(alerts, alert) /\ scorer[w].pc = "commit" /\ now' = now
  BY DEF CommitAlert
<1>2. alert \in [story : Stories, trust : TrustStates, ts : Nat]
  BY DEF CommitAlert, Table, Inv, Faithful, Rows
<1>3. alert.ts = scorer[w].cur.ts
  OBVIOUS
<1> HIDE DEF alert
<1>4. /\ Len(alerts) \in Nat /\ DOMAIN alerts = 1..Len(alerts)
      /\ alerts' \in Seq([story : Stories, trust : TrustStates, ts : Nat])
      /\ Len(alerts') = Len(alerts) + 1
      /\ \A k \in DOMAIN alerts : alerts'[k] = alerts[k]
      /\ alerts'[Len(alerts) + 1] = alert
  BY <1>1, <1>2, AppendProperties DEF Table, Inv, Typed
<1>5. DOMAIN alerts' = 1..(Len(alerts) + 1)
  BY <1>4, LenProperties
<1>6. /\ scorer[w].cur.ts \in 1..now /\ Len(alerts) < now
      /\ \A k \in DOMAIN alerts : alerts[k].ts < scorer[w].cur.ts
  BY <1>1 DEF Table, Latest
<1> QED
  BY <1>1, <1>3, <1>4, <1>5, <1>6

LEMMA CommitKeepsOrder ==
    ASSUME Table, NEW w \in Scorers, CommitAlert(w)
    PROVE  Timed'
<1>1. PICK ts \in 1..now :
         /\ UNCHANGED now /\ Len(alerts) < now
         /\ Len(alerts') = Len(alerts) + 1 /\ DOMAIN alerts' = 1..(Len(alerts) + 1)
         /\ \A k \in DOMAIN alerts : alerts'[k] = alerts[k] /\ alerts[k].ts < ts
         /\ alerts'[Len(alerts) + 1].ts = ts
  BY CommitAppends
<1>2. Len(alerts) \in Nat /\ DOMAIN alerts = 1..Len(alerts) /\ now \in Nat
  BY AlertsSeq DEF Table, Inv, Typed
<1>3. \A k \in DOMAIN alerts' : alerts'[k].ts \in 1..now'
  BY <1>1, <1>2 DEF Table, Timed
<1>4. ASSUME NEW i \in DOMAIN alerts', NEW j \in DOMAIN alerts', i < j
      PROVE  alerts'[i].ts < alerts'[j].ts
  <2>1. i \in DOMAIN alerts
    BY <1>1, <1>2, <1>4
  <2>2. j \in DOMAIN alerts \/ j = Len(alerts) + 1
    BY <1>1, <1>2
  <2> QED
    BY <1>1, <1>4, <2>1, <2>2 DEF Table, Timed
<1> QED
  BY <1>1, <1>2, <1>3, <1>4 DEF Table, Timed

\* The table is in order as long as one worker writes it.
LEMMA TableStep == Solo /\ Table /\ [Next]_vars => Table'
<1> SUFFICES ASSUME Solo, Table, [Next]_vars
             PROVE  Timed' /\ \A w \in Scorers : Latest(w)'
  BY InvStep DEF Table
<1>1. Inv'
  BY InvStep DEF Table
<1>2. now \in Nat /\ now <= MaxTime
  BY DEF Table, Timed, Inv, Typed
<1>3. ASSUME UNCHANGED <<scorer, alerts>>, now' \in now..MaxTime
      PROVE  Timed' /\ \A v \in Scorers : Latest(v)'
  <2>1. ASSUME NEW v \in Scorers PROVE Latest(v)'
    BY <1>2, <1>3 DEF Table, Latest
  <2> QED
    BY <1>1, <1>3, <2>1, TimePasses
<1>4. ASSUME NEW w \in Scorers, InsertAlert(w)
      PROVE  Timed' /\ \A v \in Scorers : Latest(v)'
  BY <1>1, <1>4, InsertIsLatest DEF Solo
<1>5. ASSUME NEW w \in Scorers, CommitAlert(w)
      PROVE  Timed' /\ \A v \in Scorers : Latest(v)'
  <2>1. scorer'[w].pc = "story"
    BY <1>5 DEF CommitAlert, NextStory, Table, Inv, Typed, Cycles
  <2> QED
    BY <1>5, <2>1, CommitKeepsOrder DEF Solo, Latest
<1>6. ASSUME NEW w \in Scorers, CycleStart(w) \/ Measure(w) \/ UpdateScores(w)
                                 \/ CycleEnd(w) \/ CycleFails(w)
      PROVE  Timed' /\ \A v \in Scorers : Latest(v)'
  <2>1. now' = now
    BY <1>6 DEF CycleStart, Measure, UpdateScores, CycleEnd, CycleFails
  <2>2. alerts' = alerts /\ scorer'[w].pc # "commit"
    BY <1>6, NothingPending DEF Table
  <2> QED
    BY <1>1, <1>2, <2>1, <2>2, TimePasses, MaxTimeAssumption DEF Solo, Latest
<1>7. CASE Tick
  BY <1>2, <1>3, <1>7, MaxTimeAssumption, MaxTickAssumption DEF Tick
<1>8. CASE (\E s \in Stories : Evolve(s)) \/ WarmUp \/ Notify \/ PushFails
           \/ NotifierRestart \/ UNCHANGED vars
  <2>1. UNCHANGED <<scorer, alerts, now>>
    BY <1>8 DEF Evolve, WarmUp, Notify, BootCursor, FetchNew, Push, PushRaises, PushFails,
                NotifierRestart, vars
  <2> QED
    BY <1>2, <1>3, <2>1, MaxTimeAssumption
<1> QED
  BY <1>4, <1>5, <1>6, <1>7, <1>8 DEF Next, ScoreNext, Cycle

----------------------------------------------------------------------------
(* The notifier                                                            *)

\* An alert that commits is ahead of the cursor and of the rows in hand, or was there
\* to come when the cursor was booted.
LEMMA CommitStaysCovered ==
    ASSUME Table, NotifierInv, NEW w \in Scorers, CommitAlert(w)
    PROVE  NotifierInv'
<1>1. PICK ts \in 1..now :
         /\ UNCHANGED now /\ Len(alerts) < now
         /\ Len(alerts') = Len(alerts) + 1 /\ DOMAIN alerts' = 1..(Len(alerts) + 1)
         /\ \A k \in DOMAIN alerts : alerts'[k] = alerts[k] /\ alerts[k].ts < ts
         /\ alerts'[Len(alerts) + 1].ts = ts
  BY CommitAppends
<1>2. /\ Len(alerts) \in Nat /\ DOMAIN alerts = 1..Len(alerts) /\ now \in Nat
      /\ \A k \in DOMAIN alerts : alerts[k].ts \in Nat
  BY AlertsSeq DEF Table, Inv, Typed
<1>3. UNCHANGED <<cursor, booted, batch, pushes>>
  BY DEF CommitAlert, notifier
<1>4. DOMAIN alerts \subseteq DOMAIN alerts'
  BY <1>1, <1>2
<1>5. Anchored'
  BY <1>1, <1>3, <1>4 DEF NotifierInv, Anchored
<1>6. InHand'
  <2>1. ASSUME batch # <<>>
        PROVE  batch[Len(batch)] \in DOMAIN alerts
    BY <2>1, EmptySeq, LenProperties DEF NotifierInv, InHand
  <2>2. ASSUME NEW k \in DOMAIN alerts', batch # <<>>, cursor < alerts'[k].ts,
               alerts'[k].ts <= alerts'[batch[Len(batch)]].ts
        PROVE  \E i \in DOMAIN batch : batch[i] = k
    <3>1. k \in DOMAIN alerts
      BY <1>1, <1>2, <2>1, <2>2
    <3> QED
      BY <1>1, <2>1, <2>2, <3>1 DEF NotifierInv, InHand
  <2>3. /\ \A i \in DOMAIN batch :
              batch[i] \in DOMAIN alerts' /\ cursor < alerts'[batch[i]].ts
        /\ \A i, j \in DOMAIN batch : i < j => alerts'[batch[i]].ts < alerts'[batch[j]].ts
    BY <1>1, <1>4 DEF NotifierInv, InHand
  <2> QED
    BY <1>3, <2>2, <2>3 DEF NotifierInv, InHand
<1>7. Covered'
  <2>1. ASSUME NEW k \in DOMAIN alerts', booted < alerts'[k].ts, alerts'[k].ts <= cursor
        PROVE  k \in DOMAIN alerts
    BY <1>1, <1>2, <2>1 DEF NotifierInv, Anchored
  <2> QED
    BY <1>1, <1>3, <2>1 DEF NotifierInv, Covered
<1> QED
  BY <1>5, <1>6, <1>7 DEF NotifierInv

LEMMA BootCovers ==
    ASSUME Table, NotifierInv, BootCursor
    PROVE  NotifierInv'
<1>1. /\ Len(alerts) \in Nat /\ DOMAIN alerts = 1..Len(alerts) /\ now \in Nat
      /\ \A k \in DOMAIN alerts : alerts[k].ts \in Nat
  BY AlertsSeq DEF Table, Inv, Typed
<1>2. UNCHANGED <<alerts, batch, pushes>> /\ booted' = cursor' /\ cursor = None
  BY DEF BootCursor
<1>3. cursor' \in Nat
  <2>1. CASE alerts = <<>>
    BY <1>1, <2>1 DEF BootCursor
  <2>2. CASE alerts # <<>>
    <3> DEFINE times == {alerts[k].ts : k \in DOMAIN alerts}
               last == alerts[Len(alerts)].ts
    <3>1. Len(alerts) \in DOMAIN alerts
      BY <1>1, <2>2, EmptySeq DEF Table, Inv, Typed
    <3>2. last \in times
      BY <3>1
    <3>3. ASSUME NEW k \in DOMAIN alerts PROVE last >= alerts[k].ts
      BY <1>1, <3>1 DEF Table, Timed
    <3>4. \A y \in times : last >= y
      BY <3>3
    <3>5. Max(times) \in times
      <4> HIDE DEF times, last
      <4> QED
        BY <3>2, <3>4 DEF Max
    <3>6. cursor' = Max(times)
      BY <2>2 DEF BootCursor
    <3> QED
      BY <1>1, <3>5, <3>6
  <2> QED
    BY <2>1, <2>2
<1>4. Anchored'
  BY <1>2, <1>3 DEF Anchored
<1>5. InHand'
  <2>1. batch = <<>>
    BY <1>2 DEF NotifierInv, InHand
  <2> QED
    BY <1>2, <2>1 DEF NotifierInv, InHand
<1>6. Covered'
  BY <1>1, <1>2, <1>3 DEF NotifierInv, Covered
<1> QED
  BY <1>4, <1>5, <1>6 DEF NotifierInv

LEMMA BatchSize ==
    ASSUME Inv
    PROVE  Min2(Batch, Cardinality(Newer)) \in Nat
<1>1. Len(alerts) \in Nat /\ DOMAIN alerts = 1..Len(alerts)
  BY AlertsSeq
<1>2. IsFiniteSet(Newer)
  <2>1. IsFiniteSet(1..Len(alerts))
    BY <1>1, FS_Interval
  <2>2. Newer \in SUBSET (1..Len(alerts))
    BY <1>1 DEF Newer
  <2> QED
    BY <2>1, <2>2, FS_Subset
<1>3. Cardinality(Newer) \in Nat
  BY <1>2, FS_CardinalityType
<1> QED
  BY <1>3, BatchAssumption DEF Min2

LEMMA FetchCovers ==
    ASSUME Table, NotifierInv, FetchNew
    PROVE  NotifierInv'
<1> DEFINE n == Min2(Batch, Cardinality(Newer))
<1>1. PICK rows \in [1..n -> Newer] :
         /\ \A i, j \in DOMAIN rows : i < j => alerts[rows[i]].ts < alerts[rows[j]].ts
         /\ \A k \in Newer : alerts[k].ts <= alerts[rows[Len(rows)]].ts
                                => \E i \in DOMAIN rows : rows[i] = k
         /\ batch' = rows
  BY DEF FetchNew
<1>2. UNCHANGED <<alerts, cursor, booted, pushes>>
  BY DEF FetchNew
<1>3. n \in Nat
  BY BatchSize DEF Table
<1> HIDE DEF n
<1>4. Newer \subseteq DOMAIN alerts /\ Newer \subseteq Nat
  BY AlertsSeq DEF Newer, Table
<1>5. rows \in Seq(Nat)
  BY <1>3, <1>4
<1>6. InHand'
  <2>1. cursor # None
    BY DEF FetchNew
  <2> QED
    BY <1>1, <1>2, <1>4, <1>5, <2>1 DEF InHand, Newer
<1> QED
  BY <1>2, <1>6 DEF NotifierInv, Anchored, Covered

\* A push takes the oldest row in hand, so that nothing is between it and the cursor.
LEMMA PushCovers ==
    ASSUME Table, NotifierInv, Push
    PROVE  NotifierInv'
<1> DEFINE row == Head(batch)
<1>1. /\ batch # <<>> /\ UNCHANGED <<alerts, booted>>
      /\ pushes' = [pushes EXCEPT ![row] = @ + 1]
      /\ cursor' = alerts[row].ts /\ batch' = Tail(batch)
  BY DEF Push
<1>2. /\ Len(alerts) \in Nat /\ DOMAIN alerts = 1..Len(alerts) /\ Len(alerts) <= MaxTime
      /\ \A k \in DOMAIN alerts : alerts[k].ts \in Nat
  <2>1. /\ Len(alerts) \in Nat /\ DOMAIN alerts = 1..Len(alerts)
        /\ \A k \in DOMAIN alerts : alerts[k].ts \in Nat
    BY AlertsSeq DEF Table
  <2>2. now \in Nat /\ Len(alerts) <= now /\ now <= MaxTime
    BY DEF Table, Timed, Inv, Typed
  <2> QED
    BY <2>1, <2>2, MaxTimeAssumption
<1>3. /\ Len(batch) \in Nat \ {0} /\ DOMAIN batch = 1..Len(batch) /\ row = batch[1]
      /\ batch \in Seq(Nat)
  BY <1>1, EmptySeq, LenProperties DEF NotifierInv, InHand
<1>4. /\ Tail(batch) \in Seq(Nat) /\ Len(Tail(batch)) = Len(batch) - 1
      /\ \A i \in 1..Len(Tail(batch)) : Tail(batch)[i] = batch[i + 1]
  BY <1>1, <1>3, HeadTailProperties
<1>5. DOMAIN Tail(batch) = 1..(Len(batch) - 1)
  BY <1>4, LenProperties
<1>6. /\ row \in DOMAIN alerts
      /\ \A i \in DOMAIN batch : batch[i] \in DOMAIN alerts /\ cursor < alerts[batch[i]].ts
  BY <1>3 DEF NotifierInv, InHand
<1> HIDE DEF row
<1>7. Anchored'
  BY <1>1, <1>2, <1>6 DEF NotifierInv, Anchored
<1>8. \A i, j \in DOMAIN batch : i < j => alerts[batch[i]].ts < alerts[batch[j]].ts
  BY DEF NotifierInv, InHand
<1>9. \A k \in DOMAIN alerts :
         cursor < alerts[k].ts /\ alerts[k].ts <= alerts[batch[Len(batch)]].ts
             => \E i \in DOMAIN batch : batch[i] = k
  BY <1>1 DEF NotifierInv, InHand
<1>10. cursor \in Int /\ booted \in Int
  BY DEF NotifierInv, Anchored
<1>11. ASSUME NEW k \in DOMAIN alerts, cursor < alerts[k].ts, alerts[k].ts <= alerts[row].ts
       PROVE  k = row
  <2> DEFINE last == batch[Len(batch)]
  <2>1. 1 \in DOMAIN batch /\ Len(batch) \in DOMAIN batch
    BY <1>3
  <2>2. alerts[k].ts <= alerts[last].ts
    <3>1. CASE Len(batch) = 1
      BY <1>3, <1>11, <3>1
    <3>2. CASE 1 < Len(batch)
      <4>1. alerts[row].ts < alerts[last].ts
        BY <1>3, <1>8, <2>1, <3>2
      <4>2. alerts[last].ts \in Nat /\ alerts[row].ts \in Nat /\ alerts[k].ts \in Nat
        BY <1>2, <1>6, <2>1
      <4> QED
        BY <1>11, <4>1, <4>2
    <3> QED
      BY <1>3, <3>1, <3>2
  <2>3. PICK i \in DOMAIN batch : batch[i] = k
    BY <1>9, <1>11, <2>2
  <2>4. i = 1
    BY <1>2, <1>3, <1>6, <1>8, <1>11, <2>3
  <2> QED
    BY <1>3, <2>3, <2>4
<1>12. Covered'
  <2>1. /\ pushes \in [1..MaxTime -> Nat] /\ pushes' \in [1..MaxTime -> Nat]
        /\ \A k \in 1..MaxTime : pushes'[k] = pushes[k] \/ pushes'[k] = pushes[k] + 1
    <3>1. pushes \in [1..MaxTime -> Nat]
      BY DEF NotifierInv, Covered
    <3>2. pushes' \in [1..MaxTime -> Nat]
      <4>1. row \in 1..MaxTime
        BY <1>2, <1>6, MaxTimeAssumption
      <4>2. pushes[row] + 1 \in Nat
        BY <3>1, <4>1
      <4> DEFINE more == pushes[row] + 1
      <4>3. pushes' = [pushes EXCEPT ![row] = more]
        BY <1>1
      <4> HIDE DEF more
      <4> QED
        BY <3>1, <4>2, <4>3 DEF more
    <3>3. ASSUME NEW k \in 1..MaxTime
          PROVE  pushes'[k] = pushes[k] \/ pushes'[k] = pushes[k] + 1
      <4>1. CASE k = row
        BY <1>1, <3>1, <4>1
      <4>2. CASE k # row
        BY <1>1, <3>1, <4>2
      <4> QED
        BY <4>1, <4>2
    <3> QED
      BY <3>1, <3>2, <3>3
  <2>2. row \in 1..MaxTime
    BY <1>2, <1>6, MaxTimeAssumption
  <2>3. pushes'[row] > 0
    BY <1>1, <2>1, <2>2
  <2>4. ASSUME NEW k \in DOMAIN alerts, booted < alerts[k].ts, alerts[k].ts <= alerts[row].ts
        PROVE  pushes'[k] > 0
    <3>1. CASE cursor < alerts[k].ts
      BY <1>11, <2>3, <2>4, <3>1
    <3>2. CASE alerts[k].ts <= cursor
      <4>1. k \in 1..MaxTime
        BY <1>2, MaxTimeAssumption
      <4>2. pushes[k] > 0 /\ pushes[k] \in Nat
        BY <2>4, <3>2, <4>1 DEF NotifierInv, Covered
      <4> QED
        BY <2>1, <4>1, <4>2
    <3> QED
      BY <1>2, <1>10, <3>1, <3>2
  <2> QED
    BY <1>1, <2>1, <2>4 DEF Covered
<1>13. InHand'
  <2>1. \A i \in DOMAIN Tail(batch) : i + 1 \in DOMAIN batch /\ Tail(batch)[i] = batch[i + 1]
    BY <1>3, <1>4, <1>5
  <2>2. \A i, j \in DOMAIN Tail(batch) : i < j =>
            alerts[Tail(batch)[i]].ts < alerts[Tail(batch)[j]].ts
    <3>1. ASSUME NEW i \in DOMAIN Tail(batch), NEW j \in DOMAIN Tail(batch), i < j
          PROVE  alerts[batch[i + 1]].ts < alerts[batch[j + 1]].ts
      <4>1. i + 1 \in DOMAIN batch /\ j + 1 \in DOMAIN batch /\ i + 1 < j + 1
        BY <1>3, <1>5, <2>1, <3>1
      <4> QED
        BY <1>8, <4>1
    <3> QED
      BY <2>1, <3>1
  <2>3. ASSUME NEW k \in DOMAIN alerts, Tail(batch) # <<>>, alerts[row].ts < alerts[k].ts,
               alerts[k].ts <= alerts[Tail(batch)[Len(Tail(batch))]].ts
        PROVE  \E i \in DOMAIN Tail(batch) : Tail(batch)[i] = k
    <3>1. Len(Tail(batch)) \in Nat \ {0}
      BY <1>4, <2>3, EmptySeq
    <3>2. Tail(batch)[Len(Tail(batch))] = batch[Len(batch)]
      BY <1>3, <1>4, <3>1
    <3>3. PICK i \in DOMAIN batch : batch[i] = k
      <4>1. CASE cursor < alerts[k].ts
        BY <1>9, <2>3, <3>2, <4>1
      <4>2. CASE alerts[k].ts <= cursor
        <5>1. cursor < alerts[row].ts
          BY <1>3, <1>6
        <5> QED
          BY <1>2, <1>6, <1>10, <2>3, <4>2, <5>1
      <4> QED
        BY <1>2, <1>10, <4>1, <4>2
    <3>4. i # 1
      BY <1>2, <1>3, <1>6, <2>3, <3>3
    <3>5. i - 1 \in DOMAIN Tail(batch) /\ Tail(batch)[i - 1] = batch[i]
      BY <1>3, <1>4, <1>5, <3>4
    <3> QED
      BY <3>3, <3>5
  <2> QED
    <3>1. \A i \in DOMAIN Tail(batch) : Tail(batch)[i] \in DOMAIN alerts
                                       /\ alerts[row].ts < alerts[Tail(batch)[i]].ts
      <4>1. \A i \in DOMAIN Tail(batch) : 1 < i + 1 /\ 1 \in DOMAIN batch
        BY <1>3, <1>5
      <4> QED
        BY <1>3, <1>6, <1>8, <2>1, <4>1
    <3>2. alerts[row].ts # None
      BY <1>2, <1>6 DEF None
    <3> QED
      BY <1>1, <1>4, <2>2, <2>3, <3>1, <3>2 DEF InHand
<1> QED
  BY <1>7, <1>12, <1>13 DEF NotifierInv

LEMMA NotifierStep == Table /\ NotifierInv /\ [Next]_vars => NotifierInv'
<1> SUFFICES ASSUME Table, NotifierInv, [Next]_vars
             PROVE  NotifierInv'
  OBVIOUS
<1>1. ASSUME UNCHANGED <<alerts, cursor, booted, batch, pushes>> PROVE NotifierInv'
  BY <1>1 DEF NotifierInv, Anchored, InHand, Covered
<1>2. CASE (\E w \in Scorers : CommitAlert(w)) \/ BootCursor \/ FetchNew \/ Push
  BY <1>2, CommitStaysCovered, BootCovers, FetchCovers, PushCovers
<1>3. ASSUME NEW w \in Scorers, \/ CycleStart(w) \/ Measure(w) \/ UpdateScores(w)
                                \/ InsertAlert(w) \/ CycleEnd(w) \/ CycleFails(w)
      PROVE  NotifierInv'
  BY <1>1, <1>3 DEF CycleStart, Measure, UpdateScores, InsertAlert, CycleEnd, CycleFails, notifier
<1>4. CASE PushRaises \/ PushFails
  <2>1. batch' = <<>> /\ UNCHANGED <<alerts, cursor, booted, pushes>>
    BY <1>4 DEF PushRaises, PushFails
  <2>2. Anchored' /\ Covered'
    BY <2>1 DEF NotifierInv, Anchored, Covered
  <2>3. InHand'
    BY <2>1 DEF InHand
  <2> QED
    BY <2>2, <2>3 DEF NotifierInv
<1>5. CASE NotifierRestart
  <2>1. /\ cursor' = -1 /\ booted' = -1 /\ batch' = <<>> /\ UNCHANGED <<alerts, pushes>>
    BY <1>5 DEF NotifierRestart, None
  <2>2. \A k \in DOMAIN alerts : alerts[k].ts \in Nat
    BY AlertsSeq DEF Table
  <2> QED
    BY <2>1, <2>2 DEF NotifierInv, Anchored, InHand, Covered
<1>6. CASE (\E s \in Stories : Evolve(s)) \/ WarmUp \/ Tick \/ UNCHANGED vars
  BY <1>1, <1>6 DEF Evolve, WarmUp, Tick, vars, notifier
<1> QED
  BY <1>2, <1>3, <1>4, <1>5, <1>6 DEF Next, ScoreNext, Cycle, Notify

\* With one score worker ntfy got every alert between the boot cursor and the cursor,
\* whatever batches, failed POSTs and restarts (Notifier.cycle moves the cursor row by
\* row, after the POST).
THEOREM CursorIsCovered == Spec => []CursorCoversPushed
<1> DEFINE Covers == Solo => Table /\ NotifierInv
<1>1. Init => Covers
  BY TableInit, NotifierInit
<1>2. Covers /\ [Next]_vars => Covers'
  <2>1. Solo' <=> Solo
    BY DEF Solo
  <2> QED
    BY <2>1, TableStep, NotifierStep
<1>3. Covers => CursorCoversPushed
  BY OneIsSolo DEF NotifierInv, Covered, CursorCoversPushed
<1> QED
  BY <1>1, <1>2, <1>3, PTL DEF Spec

----------------------------------------------------------------------------
(* Any number of score workers                                             *)

\* An alert has the timestamp of a moment that was.
Stamped ==
    /\ now \in 0..MaxTime
    /\ \A k \in DOMAIN alerts : alerts[k].ts \in 1..now
    /\ \A w \in Scorers : scorer[w].pc = "commit" => scorer[w].cur.ts \in 1..now

\* The rows in hand are alerts after the cursor, oldest first.
Ahead ==
    /\ cursor \in None..MaxTime /\ booted \in None..MaxTime
    /\ batch \in Seq(Nat)
    /\ cursor = None => batch = <<>>
    /\ \A i \in DOMAIN batch : batch[i] \in DOMAIN alerts /\ cursor < alerts[batch[i]].ts
    /\ \A i, j \in DOMAIN batch : i < j => alerts[batch[i]].ts < alerts[batch[j]].ts

\* No alert that is ahead of the cursor was pushed.
PushedOnce ==
    /\ pushes \in [1..MaxAlerts -> Nat]
    /\ \A k \in 1..MaxAlerts :
          /\ pushes[k] <= 1
          /\ pushes[k] > 0 => k \in DOMAIN alerts /\ (cursor = None \/ alerts[k].ts <= cursor)

Counted ==
    /\ flagged \subseteq Stories /\ lastSeen \in [Stories -> 0..MaxTime]
    /\ changes \in 0..MaxChanges /\ left \in [FaultKinds -> Nat]

Once == Inv /\ Stamped /\ Ahead /\ PushedOnce

LEMMA OnceInit == Init => Once /\ Counted
<1> SUFFICES ASSUME Init PROVE Once /\ Counted
  OBVIOUS
<1>1. /\ now = 0 /\ alerts = <<>> /\ scorer = [w \in Scorers |-> Idle]
      /\ batch = <<>> /\ cursor = None /\ booted = None
      /\ pushes = [k \in 1..MaxAlerts |-> 0]
      /\ flagged = {} /\ changes \in 0..MaxChanges /\ left \in Faults
      /\ lastSeen = [s \in Stories |-> 0]
  BY DEF Init
<1>2. Stamped
  BY <1>1, MaxTimeAssumption DEF Stamped, Idle
<1>3. Ahead /\ PushedOnce
  BY <1>1, MaxTimeAssumption DEF Ahead, PushedOnce, None
<1>4. Counted
  BY <1>1, MaxChangesAssumption, MaxTimeAssumption, FaultsAssumption DEF Counted
<1> QED
  BY <1>2, <1>3, <1>4, InvInit DEF Once

\* Who writes what is counted.
LEMMA CountedFrame ==
    ASSUME [Next]_vars
    PROVE  /\ flagged' = flagged \/ \E w \in Scorers : UpdateScores(w)
           /\ (lastSeen' = lastSeen /\ changes' = changes) \/ \E s \in Stories : Evolve(s)
           /\ left' = left \/ \E kind \in FaultKinds : Fault(kind)
<1>1. CASE \E s \in Stories : Evolve(s)
  <2>1. flagged' = flagged /\ left' = left
    BY <1>1 DEF Evolve
  <2> QED
    BY <1>1, <2>1
<1>2. CASE \E w \in Scorers : UpdateScores(w)
  <2>1. lastSeen' = lastSeen /\ changes' = changes /\ left' = left
    BY <1>2 DEF UpdateScores, env
  <2> QED
    BY <1>2, <2>1
<1>3. CASE (\E w \in Scorers : CycleFails(w)) \/ PushFails \/ NotifierRestart
  <2>1. flagged' = flagged /\ lastSeen' = lastSeen /\ changes' = changes
    BY <1>3 DEF CycleFails, PushFails, NotifierRestart, env
  <2>2. Fault("score") \/ Fault("post") \/ Fault("restart")
    BY <1>3 DEF CycleFails, PushFails, NotifierRestart
  <2> QED
    BY <2>1, <2>2 DEF FaultKinds
<1>4. CASE WarmUp \/ Tick \/ Notify \/ UNCHANGED vars
  BY <1>4 DEF WarmUp, Tick, Notify, BootCursor, FetchNew, Push, PushRaises, vars, env
<1>5. ASSUME NEW w \in Scorers,
             \/ CycleStart(w) \/ Measure(w) \/ InsertAlert(w) \/ CommitAlert(w) \/ CycleEnd(w)
      PROVE  flagged' = flagged /\ lastSeen' = lastSeen /\ changes' = changes /\ left' = left
  BY <1>5 DEF CycleStart, Measure, InsertAlert, CommitAlert, CycleEnd, env
<1> QED
  BY <1>1, <1>2, <1>3, <1>4, <1>5 DEF Next, ScoreNext, Cycle

LEMMA CountedStep == Inv /\ Stamped /\ Counted /\ [Next]_vars => Counted'
<1> SUFFICES ASSUME Inv, Stamped, Counted, [Next]_vars PROVE Counted'
  OBVIOUS
<1>1. ASSUME NEW w \in Scorers, UpdateScores(w) PROVE flagged' \subseteq Stories
  <2>1. scorer[w].cur.row \in Rows
    BY <1>1 DEF UpdateScores, Inv, Faithful
  <2>2. scorer[w].cur.row.id \in Stories
    BY <2>1 DEF Rows
  <2> QED
    BY <1>1, <2>2 DEF UpdateScores, Counted
<1>2. ASSUME NEW s \in Stories, Evolve(s)
      PROVE  changes' \in 0..MaxChanges /\ lastSeen' \in [Stories -> 0..MaxTime]
  <2>1. PICK seen \in {lastSeen[s], now} : lastSeen' = [lastSeen EXCEPT ![s] = seen]
    BY <1>2 DEF Evolve
  <2>2. seen \in 0..MaxTime
    BY <2>1 DEF Stamped, Counted
  <2>3. changes' \in 0..MaxChanges
    BY <1>2, MaxChangesAssumption DEF Evolve, Counted
  <2> QED
    BY <2>1, <2>2, <2>3 DEF Counted
<1>3. ASSUME NEW kind \in FaultKinds, Fault(kind) PROVE left' \in [FaultKinds -> Nat]
  <2>1. left[kind] \in Nat /\ left[kind] - 1 \in Nat
    BY <1>3 DEF Fault, Counted
  <2> QED
    BY <1>3, <2>1 DEF Fault, Counted
<1> QED
  BY <1>1, <1>2, <1>3, CountedFrame DEF Counted

\* A commit appends the alert that was pending.
LEMMA CommitAdds ==
    ASSUME Inv, Stamped, NEW w \in Scorers, CommitAlert(w)
    PROVE  /\ Len(alerts) \in Nat /\ DOMAIN alerts = 1..Len(alerts)
           /\ UNCHANGED now
           /\ DOMAIN alerts' = 1..(Len(alerts) + 1)
           /\ \A k \in DOMAIN alerts : alerts'[k] = alerts[k]
           /\ alerts'[Len(alerts) + 1].ts \in 1..now
<1> DEFINE alert == [story |-> scorer[w].cur.row.id, trust |-> scorer[w].cur.row.trust,
                     ts |-> scorer[w].cur.ts]
<1>1. alerts' = Append(alerts, alert) /\ scorer[w].pc = "commit" /\ now' = now
  BY DEF CommitAlert
<1>2. alert \in [story : Stories, trust : TrustStates, ts : Nat]
  BY DEF CommitAlert, Inv, Faithful, Rows
<1>3. alert.ts = scorer[w].cur.ts
  OBVIOUS
<1> HIDE DEF alert
<1>4. /\ Len(alerts) \in Nat /\ DOMAIN alerts = 1..Len(alerts)
      /\ alerts' \in Seq([story : Stories, trust : TrustStates, ts : Nat])
      /\ Len(alerts') = Len(alerts) + 1
      /\ \A k \in DOMAIN alerts : alerts'[k] = alerts[k]
      /\ alerts'[Len(alerts) + 1] = alert
  BY <1>1, <1>2, AppendProperties DEF Inv, Typed
<1>5. DOMAIN alerts' = 1..(Len(alerts) + 1)
  BY <1>4, LenProperties
<1> QED
  BY <1>1, <1>3, <1>4, <1>5 DEF Stamped

LEMMA StampedStep == Inv /\ Stamped /\ [Next]_vars => Stamped'
<1> SUFFICES ASSUME Inv, Stamped, [Next]_vars PROVE Stamped'
  OBVIOUS
<1>1. scorer \in [Scorers -> Cycles] /\ now \in Nat /\ MaxTime \in Nat
  BY MaxTimeAssumption DEF Inv, Typed
<1>2. ASSUME UNCHANGED <<scorer, alerts>>, now' \in now..MaxTime
      PROVE  Stamped'
  BY <1>1, <1>2 DEF Stamped
<1>3. ASSUME NEW w \in Scorers, CycleStart(w) \/ Measure(w) \/ UpdateScores(w)
                                 \/ CycleEnd(w) \/ CycleFails(w)
      PROVE  Stamped'
  <2>1. alerts' = alerts /\ scorer'[w].pc # "commit"
    BY <1>3, NothingPending
  <2>2. now' = now
    BY <1>3 DEF CycleStart, Measure, UpdateScores, CycleEnd, CycleFails
  <2>3. \A v \in Scorers : v # w => scorer'[v] = scorer[v]
    <3>1. CASE CycleStart(w) \/ Measure(w)
      BY <1>1, <3>1 DEF CycleStart, Measure
    <3>2. CASE UpdateScores(w) \/ CycleEnd(w) \/ CycleFails(w)
      BY <1>1, <3>2 DEF UpdateScores, CycleEnd, CycleFails, Goto, NextStory
    <3> QED
      BY <1>3, <3>1, <3>2
  <2> QED
    BY <2>1, <2>2, <2>3 DEF Stamped
<1>4. ASSUME NEW w \in Scorers, InsertAlert(w)
      PROVE  Stamped'
  <2>1. alerts' = alerts /\ now' \in now..(now + 1) /\ now' <= MaxTime
    BY <1>1, <1>4 DEF InsertAlert
  <2>2. \A v \in Scorers : v # w => scorer'[v] = scorer[v]
    BY <1>1, <1>4 DEF InsertAlert, NextStory
  <2>3. scorer'[w].pc = "commit" => scorer'[w].cur.ts \in 1..now'
    <3>1. CASE Recent(scorer[w].cur.row.id, now + 1)
      BY <1>1, <1>4, <3>1 DEF InsertAlert, NextStory, Cycles
    <3>2. CASE ~Recent(scorer[w].cur.row.id, now + 1)
      <4> DEFINE cur == [row |-> scorer[w].cur.row, ts |-> now + 1]
      <4>1. scorer'[w].cur = cur /\ now' = now + 1
        BY <1>1, <1>4, <3>2 DEF InsertAlert, Cycles
      <4>2. cur.ts = now + 1
        OBVIOUS
      <4> HIDE DEF cur
      <4> QED
        BY <1>1, <4>1, <4>2
    <3> QED
      BY <3>1, <3>2
  <2> QED
    BY <1>1, <2>1, <2>2, <2>3 DEF Stamped
<1>5. ASSUME NEW w \in Scorers, CommitAlert(w)
      PROVE  Stamped'
  <2>1. scorer'[w].pc = "story" /\ \A v \in Scorers : v # w => scorer'[v] = scorer[v]
    BY <1>1, <1>5 DEF CommitAlert, NextStory, Cycles
  <2>2. /\ Len(alerts) \in Nat /\ DOMAIN alerts = 1..Len(alerts)
        /\ UNCHANGED now
        /\ DOMAIN alerts' = 1..(Len(alerts) + 1)
        /\ \A k \in DOMAIN alerts : alerts'[k] = alerts[k]
        /\ alerts'[Len(alerts) + 1].ts \in 1..now
    BY <1>5, CommitAdds
  <2>3. \A k \in DOMAIN alerts' : alerts'[k].ts \in 1..now'
    BY <2>2 DEF Stamped
  <2> QED
    BY <2>1, <2>2, <2>3 DEF Stamped
<1>6. CASE Tick
  BY <1>1, <1>2, <1>6, MaxTickAssumption DEF Tick
<1>7. CASE (\E s \in Stories : Evolve(s)) \/ WarmUp \/ Notify \/ PushFails
           \/ NotifierRestart \/ UNCHANGED vars
  <2>1. UNCHANGED <<scorer, alerts, now>>
    BY <1>7 DEF Evolve, WarmUp, Notify, BootCursor, FetchNew, Push, PushRaises, PushFails,
                NotifierRestart, vars
  <2>2. now' \in now..MaxTime
    BY <1>1, <2>1 DEF Stamped
  <2> QED
    BY <1>2, <2>1, <2>2
<1> QED
  BY <1>3, <1>4, <1>5, <1>6, <1>7 DEF Next, ScoreNext, Cycle

\* The largest of a set of numbers that are bounded.
LEMMA LargestIs ==
    ASSUME NEW S \in SUBSET Nat, S # {}, NEW n \in Nat, \A x \in S : x <= n
    PROVE  Max(S) \in S /\ \A x \in S : x <= Max(S)
<1> DEFINE gaps == {n - x : x \in S}
<1>1. gaps \subseteq Nat /\ gaps # {}
  <2>1. ASSUME NEW x \in S PROVE n - x \in Nat
    <3>1. x \in Nat /\ x <= n
      OBVIOUS
    <3> QED
      BY <3>1
  <2> QED
    BY <2>1
<1>2. PICK g \in gaps : \A h \in gaps : <<h, g>> \notin OpToRel(<, Nat)
  <2> HIDE DEF gaps
  <2> QED
    BY <1>1, WFMin, NatLessThanWellFounded
<1>3. PICK x \in S : g = n - x
  OBVIOUS
<1>4. \A h \in gaps : g <= h
  <2> SUFFICES ASSUME NEW h \in gaps PROVE g <= h
    OBVIOUS
  <2> HIDE DEF gaps
  <2>1. g \in Nat /\ h \in Nat
    BY <1>1
  <2>2. ~(h < g)
    BY <1>2, <2>1 DEF OpToRel
  <2> QED
    BY <2>1, <2>2
<1>5. \A y \in S : x >= y
  <2> SUFFICES ASSUME NEW y \in S PROVE x >= y
    OBVIOUS
  <2>1. n - y \in gaps
    OBVIOUS
  <2> HIDE DEF gaps
  <2>2. g <= n - y
    BY <1>4, <2>1
  <2> QED
    BY <1>3, <2>2
<1>6. Max(S) \in S /\ \A y \in S : Max(S) >= y
  BY <1>5, Zenon DEF Max
<1> QED
  BY <1>6

LEMMA AlertsAre ==
    ASSUME Inv, Stamped
    PROVE  /\ Len(alerts) \in Nat /\ DOMAIN alerts = 1..Len(alerts)
           /\ \A k \in DOMAIN alerts : alerts[k].ts \in 1..MaxTime
           /\ now \in 0..MaxTime /\ MaxTime \in Nat
<1>1. Len(alerts) \in Nat /\ DOMAIN alerts = 1..Len(alerts)
  BY AlertsSeq
<1>2. now \in 0..MaxTime /\ MaxTime \in Nat
  BY MaxTimeAssumption DEF Stamped
<1> QED
  BY <1>1, <1>2 DEF Stamped

\* The cursor boots past all that was pushed.
LEMMA BootIsPast ==
    ASSUME Inv, Stamped, BootCursor
    PROVE  cursor' \in 0..MaxTime /\ \A k \in DOMAIN alerts : alerts[k].ts <= cursor'
<1>1. /\ Len(alerts) \in Nat /\ DOMAIN alerts = 1..Len(alerts)
      /\ \A k \in DOMAIN alerts : alerts[k].ts \in 1..MaxTime
      /\ now \in 0..MaxTime /\ MaxTime \in Nat
  BY AlertsAre
<1>2. CASE alerts = <<>>
  BY <1>1, <1>2 DEF BootCursor
<1>3. CASE alerts # <<>>
  <2> DEFINE times == {alerts[k].ts : k \in DOMAIN alerts}
  <2>1. cursor' = Max(times)
    BY <1>3 DEF BootCursor
  <2>2. 1 \in DOMAIN alerts
    BY <1>1, <1>3, EmptySeq DEF Inv, Typed
  <2>3. alerts[1].ts \in times
    BY <2>2
  <2>4. times \subseteq 1..MaxTime
    BY <1>1
  <2>5. \A k \in DOMAIN alerts : alerts[k].ts \in times
    OBVIOUS
  <2> HIDE DEF times
  <2>6. times \in SUBSET Nat /\ times # {} /\ \A x \in times : x <= MaxTime
    BY <1>1, <2>3, <2>4
  <2>7. Max(times) \in times /\ \A x \in times : x <= Max(times)
    BY <1>1, <2>6, LargestIs
  <2>8. cursor' \in 1..MaxTime
    BY <2>1, <2>4, <2>7
  <2> QED
    BY <1>1, <2>1, <2>5, <2>7, <2>8
<1> QED
  BY <1>2, <1>3

LEMMA CommitStaysAhead ==
    ASSUME Inv, Stamped, Ahead, PushedOnce, NEW w \in Scorers, CommitAlert(w)
    PROVE  Ahead' /\ PushedOnce'
<1>1. /\ Len(alerts) \in Nat /\ DOMAIN alerts = 1..Len(alerts)
      /\ DOMAIN alerts' = 1..(Len(alerts) + 1)
      /\ \A k \in DOMAIN alerts : alerts'[k] = alerts[k]
  BY CommitAdds
<1>2. UNCHANGED <<cursor, booted, batch, pushes>>
  BY DEF CommitAlert, notifier
<1>3. DOMAIN alerts \subseteq DOMAIN alerts'
  BY <1>1
<1>4. Ahead'
  BY <1>1, <1>2, <1>3 DEF Ahead
<1>5. PushedOnce'
  BY <1>1, <1>2, <1>3 DEF PushedOnce
<1> QED
  BY <1>4, <1>5

LEMMA FetchIsAhead ==
    ASSUME Inv, Stamped, Ahead, PushedOnce, FetchNew
    PROVE  Ahead' /\ PushedOnce'
<1> DEFINE n == Min2(Batch, Cardinality(Newer))
<1>1. PICK rows \in [1..n -> Newer] :
         /\ \A i, j \in DOMAIN rows : i < j => alerts[rows[i]].ts < alerts[rows[j]].ts
         /\ batch' = rows
  BY DEF FetchNew
<1>2. UNCHANGED <<alerts, cursor, booted, pushes>> /\ cursor # None
  BY DEF FetchNew
<1>3. n \in Nat
  BY BatchSize
<1> HIDE DEF n
<1>4. Newer \subseteq DOMAIN alerts /\ Newer \subseteq Nat
  BY AlertsSeq DEF Newer
<1>5. rows \in Seq(Nat)
  BY <1>3, <1>4
<1>6. Ahead'
  BY <1>1, <1>2, <1>4, <1>5 DEF Ahead, Newer
<1>7. PushedOnce'
  BY <1>2 DEF PushedOnce
<1> QED
  BY <1>6, <1>7

\* A push takes the oldest row in hand.
LEMMA PushIsAhead ==
    ASSUME Inv, Stamped, Ahead, PushedOnce, Push
    PROVE  Ahead' /\ PushedOnce'
<1> DEFINE row == Head(batch)
<1>1. /\ batch # <<>> /\ UNCHANGED <<alerts, booted>>
      /\ pushes' = [pushes EXCEPT ![row] = @ + 1]
      /\ cursor' = alerts[row].ts /\ batch' = Tail(batch)
  BY DEF Push
<1>2. /\ Len(alerts) \in Nat /\ DOMAIN alerts = 1..Len(alerts)
      /\ \A k \in DOMAIN alerts : alerts[k].ts \in 1..MaxTime
      /\ now \in 0..MaxTime /\ MaxTime \in Nat
  BY AlertsAre
<1>3. /\ Len(batch) \in Nat \ {0} /\ DOMAIN batch = 1..Len(batch) /\ row = batch[1]
      /\ batch \in Seq(Nat)
  BY <1>1, EmptySeq, LenProperties DEF Ahead
<1>4. /\ Tail(batch) \in Seq(Nat) /\ Len(Tail(batch)) = Len(batch) - 1
      /\ \A i \in 1..Len(Tail(batch)) : Tail(batch)[i] = batch[i + 1]
  BY <1>1, <1>3, HeadTailProperties
<1>5. DOMAIN Tail(batch) = 1..(Len(batch) - 1)
  BY <1>4, LenProperties
<1>6. \A i \in DOMAIN batch : batch[i] \in DOMAIN alerts /\ cursor < alerts[batch[i]].ts
  BY DEF Ahead
<1>7. \A i, j \in DOMAIN batch : i < j => alerts[batch[i]].ts < alerts[batch[j]].ts
  BY DEF Ahead
<1>8. row \in DOMAIN alerts /\ cursor < alerts[row].ts
  BY <1>3, <1>6
<1>9. cursor \in None..MaxTime /\ None \in Int /\ cursor # None
  BY <1>1 DEF Ahead, None
<1> HIDE DEF row
<1>10. \A i \in DOMAIN Tail(batch) :
           /\ Tail(batch)[i] = batch[i + 1] /\ i + 1 \in DOMAIN batch
           /\ 1 \in DOMAIN batch /\ 1 < i + 1
  BY <1>3, <1>4, <1>5
<1>11. \A i \in DOMAIN Tail(batch) :
           Tail(batch)[i] \in DOMAIN alerts /\ alerts[row].ts < alerts[Tail(batch)[i]].ts
  BY <1>3, <1>6, <1>7, <1>10
<1>12. \A i, j \in DOMAIN Tail(batch) :
           i < j => alerts[Tail(batch)[i]].ts < alerts[Tail(batch)[j]].ts
  <2> SUFFICES ASSUME NEW i \in DOMAIN Tail(batch), NEW j \in DOMAIN Tail(batch), i < j
               PROVE  alerts[batch[i + 1]].ts < alerts[batch[j + 1]].ts
    BY <1>10
  <2>1. i + 1 < j + 1
    BY <1>3, <1>5
  <2> QED
    BY <1>7, <1>10, <2>1
<1>13. cursor' \in 1..MaxTime
  BY <1>1, <1>2, <1>8
<1>14. Ahead'
  <2>1. cursor' \in None..MaxTime /\ cursor' # None /\ booted' \in None..MaxTime
    BY <1>1, <1>13 DEF None, Ahead
  <2> QED
    BY <1>1, <1>4, <1>11, <1>12, <2>1 DEF Ahead
<1>15. PushedOnce'
  <2>1. pushes \in [1..MaxAlerts -> Nat]
    BY DEF PushedOnce
  <2>2. ASSUME row \in 1..MaxAlerts PROVE pushes[row] = 0
    <3>1. ~(pushes[row] > 0)
      BY <1>2, <1>8, <1>9, <2>2 DEF PushedOnce
    <3> QED
      BY <2>1, <2>2, <3>1
  <2>3. ASSUME NEW k \in 1..MaxAlerts
        PROVE  IF k = row THEN pushes'[k] = 1 ELSE pushes'[k] = pushes[k]
    BY <1>1, <2>1, <2>2, <2>3
  <2>4. pushes' \in [1..MaxAlerts -> Nat]
    <3>1. DOMAIN pushes' = 1..MaxAlerts /\ pushes' = [k \in 1..MaxAlerts |-> pushes'[k]]
      BY <1>1, <2>1
    <3> QED
      BY <2>1, <2>3, <3>1
  <2>5. ASSUME NEW k \in 1..MaxAlerts
        PROVE  /\ pushes'[k] <= 1
               /\ pushes'[k] > 0 => k \in DOMAIN alerts /\ alerts[k].ts <= alerts[row].ts
    <3>1. CASE k = row
      BY <1>2, <1>8, <2>3, <3>1
    <3>2. CASE k # row
      <4>1. /\ pushes[k] <= 1
            /\ pushes[k] > 0 => k \in DOMAIN alerts /\ alerts[k].ts <= cursor
        BY <1>9 DEF PushedOnce
      <4>2. pushes'[k] = pushes[k] /\ pushes[k] \in Nat
        BY <2>1, <2>3, <3>2
      <4> QED
        BY <1>2, <1>8, <1>9, <4>1, <4>2
    <3> QED
      BY <3>1, <3>2
  <2> QED
    BY <1>1, <2>4, <2>5 DEF PushedOnce
<1> QED
  BY <1>14, <1>15

LEMMA OnceStep == Once /\ [Next]_vars => Once'
<1> SUFFICES ASSUME Inv, Stamped, Ahead, PushedOnce, [Next]_vars PROVE Once'
  BY DEF Once
<1>1. Inv' /\ Stamped'
  BY InvStep, StampedStep
<1> SUFFICES Ahead' /\ PushedOnce'
  BY <1>1 DEF Once
<1>2. ASSUME UNCHANGED <<alerts, cursor, booted, batch, pushes>>
      PROVE  Ahead' /\ PushedOnce'
  BY <1>2 DEF Ahead, PushedOnce
<1>3. CASE \E w \in Scorers : CommitAlert(w)
  BY <1>3, CommitStaysAhead
<1>4. CASE FetchNew
  BY <1>4, FetchIsAhead
<1>5. CASE Push
  BY <1>5, PushIsAhead
<1>6. CASE BootCursor
  <2>1. cursor' \in 0..MaxTime /\ \A k \in DOMAIN alerts : alerts[k].ts <= cursor'
    BY <1>6, BootIsPast
  <2>2. UNCHANGED <<alerts, batch, pushes>> /\ booted' = cursor' /\ cursor = None
    BY <1>6 DEF BootCursor
  <2>3. cursor' \in None..MaxTime /\ batch = <<>>
    BY <2>1, <2>2, MaxTimeAssumption DEF None, Ahead
  <2>4. Ahead'
    BY <2>2, <2>3 DEF Ahead
  <2>5. PushedOnce'
    BY <2>1, <2>2 DEF PushedOnce
  <2> QED
    BY <2>4, <2>5
<1>7. CASE PushRaises \/ PushFails
  <2>1. batch' = <<>> /\ UNCHANGED <<alerts, cursor, booted, pushes>>
    BY <1>7 DEF PushRaises, PushFails
  <2> QED
    BY <2>1 DEF Ahead, PushedOnce
<1>8. CASE NotifierRestart
  <2>1. /\ cursor' = None /\ booted' = None /\ batch' = <<>> /\ UNCHANGED <<alerts, pushes>>
    BY <1>8 DEF NotifierRestart
  <2>2. None \in None..MaxTime
    BY MaxTimeAssumption DEF None
  <2> QED
    BY <2>1, <2>2 DEF Ahead, PushedOnce
<1>9. ASSUME NEW w \in Scorers, \/ CycleStart(w) \/ Measure(w) \/ UpdateScores(w)
                                \/ InsertAlert(w) \/ CycleEnd(w) \/ CycleFails(w)
      PROVE  Ahead' /\ PushedOnce'
  BY <1>2, <1>9 DEF CycleStart, Measure, UpdateScores, InsertAlert, CycleEnd, CycleFails, notifier
<1>10. CASE (\E s \in Stories : Evolve(s)) \/ WarmUp \/ Tick \/ UNCHANGED vars
  BY <1>2, <1>10 DEF Evolve, WarmUp, Tick, vars, notifier
<1> QED
  BY <1>3, <1>4, <1>5, <1>6, <1>7, <1>8, <1>9, <1>10 DEF Next, ScoreNext, Cycle, Notify

\* No alert is POSTed again once its POST succeeded, whatever workers write the table.
THEOREM NeverRepeated == Spec => []NoIdleRepeat
<1>1. Init => Once
  BY OnceInit
<1>2. Once => NoIdleRepeat
  BY DEF Once, PushedOnce, NoIdleRepeat
<1> QED
  BY <1>1, <1>2, OnceStep, PTL DEF Spec

LEMMA TypedOnce == Once /\ Counted => TypeOK
<1> SUFFICES ASSUME Once, Counted PROVE TypeOK
  OBVIOUS
<1>1. Inv /\ Stamped /\ Ahead /\ PushedOnce
  BY DEF Once
<1>2. /\ \A k \in DOMAIN alerts : alerts[k].ts \in 1..MaxTime
      /\ now \in 0..MaxTime
  BY <1>1, AlertsAre
<1>3. ASSUME NEW w \in Scorers
      PROVE  /\ scorer[w].pc \in {"idle", "story", "update", "alert", "commit"}
             /\ \A s \in scorer[w].todo : s.id \in Stories /\ s.trust \in TrustStates
  BY <1>1 DEF Inv, Typed, Cycles, Rows
<1>4. alerts \in Seq(Alert)
  <2>1. Len(alerts) \in Nat /\ DOMAIN alerts = 1..Len(alerts)
        /\ alerts = [k \in 1..Len(alerts) |-> alerts[k]]
    BY <1>1, AlertsSeq DEF Inv, Typed
  <2>2. ASSUME NEW k \in 1..Len(alerts) PROVE alerts[k] \in Alert
    <3>1. alerts[k] \in [story : Stories, trust : TrustStates, ts : Nat]
      BY <1>1, ElementOfSeq DEF Inv, Typed
    <3> QED
      BY <1>2, <2>1, <3>1 DEF Alert
  <2> QED
    BY <2>1, <2>2
<1> QED
  BY <1>1, <1>2, <1>3, <1>4 DEF TypeOK, Inv, Typed, Ahead, PushedOnce, Counted

\* Every variable keeps its type.
THEOREM AlertsTyped == Spec => []TypeOK
<1> DEFINE All == Once /\ Counted
<1>1. Init => All
  BY OnceInit
<1>2. All /\ [Next]_vars => All'
  BY OnceStep, CountedStep DEF Once
<1>3. All => TypeOK
  BY TypedOnce
<1> QED
  BY <1>1, <1>2, <1>3, PTL DEF Spec
=============================================================================
