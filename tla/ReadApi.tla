------------------------------- MODULE ReadApi -------------------------------
(***************************************************************************)
(* The feed of the read API (services/api): the tabs as queries over the   *)
(* rows of stories, and _degradable, which keeps the last payload of a tab *)
(* to serve while the database is away.  Requests overlap: each awaits its *)
(* query.                                                                  *)
(***************************************************************************)
EXTENDS Ordering, SequencesExt

CONSTANTS Requests,    \* 1..n, in the order they come in
          Sorts,       \* values of the sort parameter, known and unknown
          Limits,      \* values of the limit parameter
          MaxLimit,    \* MAX_LIMIT
          Histories,   \* sequences of tables: Story -> [gap, trust, weather]
          Failures     \* bound on the failures of the database

ASSUME RequestsAssumption == Requests \subseteq Nat

ASSUME LimitsAssumption == Limits \subseteq Int /\ MaxLimit \in Nat

ASSUME HistoriesAssumption ==
    \A h \in Histories :
        /\ Len(h) \in Nat \ {0} /\ DOMAIN h = 1..Len(h)
        /\ \A v \in DOMAIN h :
              /\ DOMAIN h[v] \subseteq Nat /\ IsFiniteSet(DOMAIN h[v])
              /\ \A s \in DOMAIN h[v] : h[v][s].gap \in Int /\ h[v][s].weather \in BOOLEAN

VARIABLES
    history,   \* the table at every moment of this run
    now,
    pool,      \* the connection pool is up
    req,       \* request -> [pc, tab, limit, since, data, kind]
    cache,     \* _last_good: tab -> payload, on the tabs that have one
    failures

apivars == <<history, now, pool, req, cache, failures>>

Tabs == {"gap", "corroborated", "primary", "weather"}

NoRequest == [pc |-> "new", tab |-> "gap", limit |-> 0, since |-> 0, data |-> <<>>,
              kind |-> "none"]

ApiInit ==
    /\ history \in Histories
    /\ now = 1
    /\ pool = FALSE
    /\ req = [r \in Requests |-> NoRequest]
    /\ cache = <<>>
    /\ failures = Failures

----------------------------------------------------------------------------
(* Queries                                                                 *)

\* Mutant: weather is shown on the trust tabs as well.
OnTabWithWeather(row, tab) ==
    CASE tab = "gap"          -> ~row.weather
      [] tab = "corroborated" -> row.trust = "corroborated"
      [] tab = "primary"      -> row.trust = "primary_backed"
      [] tab = "weather"      -> row.weather

\* The WHERE of STORY_QUERIES; rows past the window have left the table.
OnTab(row, tab) ==
    CASE tab = "gap"          -> ~row.weather
      [] tab = "corroborated" -> ~row.weather /\ row.trust = "corroborated"
      [] tab = "primary"      -> ~row.weather /\ row.trust = "primary_backed"
      [] tab = "weather"      -> row.weather

\* ORDER BY gap DESC, last_seen DESC LIMIT n; later Stories have larger numbers.
Query(table, tab, n) ==
    LET shown == {s \in DOMAIN table : OnTab(table[s], tab)}
        before == {p \in shown \X shown :
                     \/ table[p[1]].gap > table[p[2]].gap
                     \/ table[p[1]].gap = table[p[2]].gap /\ p[1] > p[2]}
    IN  SubSeq(InOrder(shown, before), 1,
               IF Cardinality(shown) < n THEN Cardinality(shown) ELSE n)

----------------------------------------------------------------------------
(* Requests                                                                *)

\* _connect_with_retry
Connect ==
    /\ ~pool
    /\ pool' = TRUE
    /\ UNCHANGED <<history, now, req, cache, failures>>

\* The other services change the table.
Change ==
    /\ now < Len(history)
    /\ now' = now + 1
    /\ UNCHANGED <<history, pool, req, cache, failures>>

\* stories: an unknown sort is the gap tab, a large limit the largest.
Ask(r, sort, limit) ==
    /\ req[r].pc = "new"
    /\ \A q \in Requests : q < r => req[q].pc # "new"
    /\ req' = [req EXCEPT ![r] =
                [NoRequest EXCEPT !.pc = "asked", !.since = now,
                    !.tab = IF sort \in Tabs THEN sort ELSE "gap",
                    !.limit = IF limit > MaxLimit THEN MaxLimit ELSE limit]]
    /\ UNCHANGED <<history, now, pool, cache, failures>>

\* The snapshot the query sees; Postgres refuses a negative LIMIT.
Read(r) ==
    /\ req[r].pc = "asked" /\ pool /\ req[r].limit >= 0
    /\ req' = [req EXCEPT ![r].pc = "read",
                          ![r].data = Query(history[now], req[r].tab, req[r].limit)]
    /\ UNCHANGED <<history, now, pool, cache, failures>>

\* Mutant: there is one copy for all tabs.
KeepForAll(tab, data) == [t \in Tabs |-> data]

\* _last_good[key] = payload
Keep(tab, data) == [t \in DOMAIN cache \cup {tab} |-> IF t = tab THEN data ELSE cache[t]]

Fresh(r) ==
    /\ req[r].pc = "read"
    /\ cache' = Keep(req[r].tab, req[r].data)
    /\ req' = [req EXCEPT ![r].pc = "done", ![r].kind = "fresh"]
    /\ UNCHANGED <<history, now, pool, failures>>

\* The query raises: no pool yet, a failover, a limit Postgres refuses.
Degrade(r) ==
    LET tab == req[r].tab IN
    /\ \/ req[r].pc = "asked" /\ (~pool \/ req[r].limit < 0) /\ UNCHANGED failures
       \/ req[r].pc \in {"asked", "read"} /\ pool /\ failures > 0 /\ failures' = failures - 1
    /\ req' = [req EXCEPT ![r].pc = "done",
                          ![r].kind = IF tab \in DOMAIN cache THEN "degraded" ELSE "503",
                          ![r].data = IF tab \in DOMAIN cache THEN cache[tab] ELSE <<>>]
    /\ UNCHANGED <<history, now, pool, cache>>

ApiNext ==
    \/ Connect \/ Change
    \/ \E r \in Requests :
          \/ \E sort \in Sorts, limit \in Limits : Ask(r, sort, limit)
          \/ Read(r) \/ Fresh(r) \/ Degrade(r)

----------------------------------------------------------------------------
(* Properties                                                              *)

\* A fresh answer is its tab, as it was at one moment of the request, cut to the
\* limit asked for.  A degraded one is an answer another request of the same tab got
\* fresh, to the limit of that one ("the cached last-known-good copy", api/main.py).
\* The weather tab shows nothing but weather, "which every other tab excludes".
AnswersTrue ==
    \A r \in Requests :
        /\ \A s \in ToSet(req[r].data) : \E v \in 1..now :
              s \in DOMAIN history[v] /\ history[v][s].weather = (req[r].tab = "weather")
        /\ req[r].kind = "fresh" =>
              \E v \in req[r].since..now : req[r].data = Query(history[v], req[r].tab, req[r].limit)
        /\ req[r].kind = "degraded" =>
              \E q \in Requests \ {r} :
                  /\ req[q].kind = "fresh"
                  /\ req[q].tab = req[r].tab /\ req[q].data = req[r].data
=============================================================================
