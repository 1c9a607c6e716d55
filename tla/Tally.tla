-------------------------------- MODULE Tally --------------------------------
(***************************************************************************)
(* The velocity counts: each enrich process counts the gazetteer mentions  *)
(* of every message it handles (Enrich), flush_tallies drains the counter  *)
(* once a minute and once more at shutdown, and the db-writer inserts each *)
(* flush under (entity, minute, replica).  One entity is modelled: entities *)
(* never share a row, and the cap on their number is never reached.        *)
(***************************************************************************)
EXTENDS Enrich, FiniteSetsExt

CONSTANTS MaxMinute,   \* bound on the clock
          MaxFlushes   \* bound on the flushes of all replicas

ASSUME ReplicasAssumption == IsFiniteSet(Replicas)
ASSUME MinutesAssumption == MaxMinute \in Nat
ASSUME FlushesAssumption == MaxFlushes \in Nat

VARIABLES
    minute,     \* wall clock, in minutes
    phase,      \* of each pod: "up", "stopping", "stopped"
    woke,       \* minute in which the flush loop last went to sleep
    draining,   \* drained counts whose publish is awaited: <<bucket, n>> or <<>>
    stream,     \* TALLY messages the writer-tally durable has not acked
    sent,       \* flushes published so far, which tells two of them apart
    table,      \* entity_tallies.mentions (0: no row)
    mentioned,  \* history: how often a handler counted the mention of its message
    heard       \* history: the messages whose mention was counted

history   == <<mentioned, heard>>
tallyVars == <<minute, phase, woke, draining, stream, sent, table, history>>

Flush == [id : 1..MaxFlushes, bucket : 0..MaxMinute, replica : Replicas, n : Nat]

TallyTypeOK ==
    /\ TypeOK
    /\ minute \in 0..MaxMinute
    /\ phase \in [Replicas -> {"up", "stopping", "stopped"}]
    /\ woke \in [Replicas -> 0..MaxMinute]
    /\ draining \in [Replicas -> ((0..MaxMinute) \X Nat) \cup {<<>>}]
    /\ stream \subseteq Flush
    /\ sent \in 0..MaxFlushes
    /\ table \in [(0..MaxMinute) \X Replicas -> Nat]
    /\ mentioned \in Nat
    /\ heard \subseteq Items

TallyInit ==
    /\ Init
    /\ minute = 0
    /\ phase = [r \in Replicas |-> "up"]
    /\ woke = [r \in Replicas |-> 0]
    /\ draining = [r \in Replicas |-> <<>>]
    /\ stream = {}
    /\ sent = 0
    /\ table = [cell \in (0..MaxMinute) \X Replicas |-> 0]
    /\ mentioned = 0
    /\ heard = {}

----------------------------------------------------------------------------

\* Inference.handle of a pod that is up; its first call is filter.tally.
Handle(r) ==
    /\ phase[r] = "up"
    /\ Delivery(r)
    /\ IF mentions'[r] > mentions[r]
       THEN mentioned' = mentioned + 1 /\ heard' = heard \cup {msg'[r]}
       ELSE UNCHANGED history
    /\ UNCHANGED <<minute, phase, woke, draining, stream, sent, table>>

Tick ==
    /\ minute < MaxMinute
    /\ minute' = minute + 1
    /\ UNCHANGED <<vars, phase, woke, draining, stream, sent, table, history>>

\* SIGTERM: the consumer task is cancelled, the flush loop wakes up.
Stop(r) ==
    /\ phase[r] = "up"
    /\ Fault("stop")
    /\ phase' = [phase EXCEPT ![r] = "stopping"]
    /\ Release(r)
    /\ UNCHANGED <<bus, store, mentions, rows,
                   minute, woke, draining, stream, sent, table, history>>

\* The loop wakes after TALLY_FLUSH_S, a minute, or on the stop event: the
\* counter is handed off and the flush is stamped with the minute it is.
Drain(r) ==
    /\ draining[r] = <<>>
    /\ \/ phase[r] = "stopping"
       \/ phase[r] = "up" /\ minute > woke[r]
    /\ draining' = [draining EXCEPT ![r] = <<minute, mentions[r]>>]
    /\ mentions' = [mentions EXCEPT ![r] = 0]
    /\ UNCHANGED <<bus, store, pc, msg, rows, left,
                   minute, phase, woke, stream, sent, table, history>>

\* After the publish the loop sleeps again, or ends.
FlushDone(r) ==
    /\ draining' = [draining EXCEPT ![r] = <<>>]
    /\ woke' = [woke EXCEPT ![r] = minute]
    /\ phase' = [phase EXCEPT ![r] = IF @ = "stopping" THEN "stopped" ELSE @]

Send(r) ==
    /\ draining[r] # <<>>
    /\ sent < MaxFlushes
    /\ sent' = sent + 1
    /\ stream' = stream \cup {[id |-> sent + 1, bucket |-> draining[r][1],
                               replica |-> r, n |-> draining[r][2]]}

PublishFlush(r) ==
    /\ Send(r)
    /\ FlushDone(r)
    /\ UNCHANGED <<vars, minute, table, history>>

\* "tally flush failed; counts window dropped": the broker may still have it.
PublishFails(r) ==
    /\ draining[r] # <<>>
    /\ Fault("flush")
    /\ (UNCHANGED <<stream, sent>> \/ Send(r))
    /\ FlushDone(r)
    /\ UNCHANGED <<bus, store, pc, msg, mentions, rows, minute, table, history>>

\* The container dies, or comes back after a stop, under the same HOSTNAME.
Reboot(r) ==
    /\ Fault("restart")
    /\ Release(r)
    /\ lru' = [lru EXCEPT ![r] = <<>>]
    /\ mentions' = [mentions EXCEPT ![r] = 0]
    /\ draining' = [draining EXCEPT ![r] = <<>>]
    /\ woke' = [woke EXCEPT ![r] = minute]
    /\ phase' = [phase EXCEPT ![r] = "up"]
    /\ UNCHANGED <<bus, shared, kv, rows, minute, stream, sent, table, history>>

\* Mutant: a delivery adds its count to the row that is there.
InsertTalliesAdds(f) ==
    LET cell == <<f.bucket, f.replica>> IN
    /\ f \in stream
    /\ table' = [table EXCEPT ![cell] = @ + f.n]
    /\ \/ stream' = stream \ {f} /\ UNCHANGED left
       \/ Fault("insert") /\ UNCHANGED stream
    /\ UNCHANGED <<bus, store, pc, msg, mentions, rows,
                   minute, phase, woke, draining, sent, history>>

\* Mutant: the key of a row is without the replica.
InsertTalliesSharedRow(f) ==
    LET cell == <<f.bucket, CHOOSE r \in Replicas : TRUE>> IN
    /\ f \in stream
    /\ table' = IF table[cell] = 0 THEN [table EXCEPT ![cell] = f.n] ELSE table
    /\ \/ stream' = stream \ {f} /\ UNCHANGED left
       \/ Fault("insert") /\ UNCHANGED stream
    /\ UNCHANGED <<bus, store, pc, msg, mentions, rows,
                   minute, phase, woke, draining, sent, history>>

\* Writer.handle_tally: an empty flush has no rows, a row that is there stays.
\* The message is acked, or it comes again.
InsertTallies(f) ==
    LET cell == <<f.bucket, f.replica>> IN
    /\ f \in stream
    /\ table' = IF table[cell] = 0 THEN [table EXCEPT ![cell] = f.n] ELSE table
    /\ \/ stream' = stream \ {f} /\ UNCHANGED left
       \/ Fault("insert") /\ UNCHANGED stream
    /\ UNCHANGED <<bus, store, pc, msg, mentions, rows,
                   minute, phase, woke, draining, sent, history>>

TallyNext ==
    \/ Tick
    \/ \E r \in Replicas : \/ Handle(r) \/ Stop(r) \/ Drain(r) \/ PublishFlush(r)
                           \/ PublishFails(r) \/ Reboot(r)
    \/ \E f \in stream : InsertTallies(f)

TallySpec == TallyInit /\ [][TallyNext]_<<vars, tallyVars>>

----------------------------------------------------------------------------
(* Properties                                                              *)

Total(f, S) == MapThenSumSet(LAMBDA x : f[x], S)

\* Flushes the db-writer has not put in the table yet, delivered again or not.
Pending == {f \in stream : table[<<f.bucket, f.replica>>] = 0}

Accounted ==
    Total(table, DOMAIN table)
    + Total([f \in Pending |-> f.n], Pending)
    + Total([r \in Replicas |-> IF draining[r] = <<>> THEN 0 ELSE draining[r][2]], Replicas)
    + Total(mentions, Replicas)

Used(kind) == Faults[kind] - left[kind]

\* INGEST messages that were delivered again, or at most so many: naks, expired ack
\* waits and pods that stopped or died, whether or not they held a message.
Redelivered == Used("nak") + Used("expiry") + Used("stop") + Used("restart")

\* A message counts once for each delivery, since filter.tally runs before the dedup
\* store is asked, and nothing else counts it again: not a flush that is delivered
\* again, a flush in doubt, a drain beside a handler or a pod that comes back ("Both
\* writes are idempotent under redelivery", writer/main.py).
NoOvercount == Accounted <= Cardinality(heard) + Redelivered

Unspent(kinds) == \A k \in kinds : left[k] = Faults[k]

\* While no pod stops or dies and no flush fails every count is accounted for,
\* however handlers, drains, flushes, naks and redeliveries interleave: the table
\* has every delta once (filter.drain_mentions, db.insert_tallies).  A pod that stops
\* is excluded: its last flush can fall in the minute of the one before and is then
\* dropped as a redelivery.
NoUndercount == Unspent({"stop", "restart", "flush"}) => Accounted = mentioned
=============================================================================
