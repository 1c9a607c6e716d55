----------------------------- MODULE TallyProofs -----------------------------
(***************************************************************************)
(* The velocity counts for every set of replicas and messages and any      *)
(* number of minutes, flushes and failures: a mention is counted once for  *)
(* each delivery of its message, and no count is lost while no pod stops,  *)
(* dies or fails to flush.                                                 *)
(***************************************************************************)
EXTENDS Tally, EnrichProofs, Sums

Cells == (0..MaxMinute) \X Replicas

Windows == ((0..MaxMinute) \X Nat) \cup {<<>>}

----------------------------------------------------------------------------
(* Types                                                                   *)

\* Every flush in the stream has an id of its own, given in the order of the publishes.
TallyTyped ==
    /\ Typed
    /\ minute \in 0..MaxMinute
    /\ phase \in [Replicas -> {"up", "stopping", "stopped"}]
    /\ woke \in [Replicas -> 0..MaxMinute]
    /\ draining \in [Replicas -> Windows]
    /\ stream \subseteq Flush /\ IsFiniteSet(stream)
    /\ \A f \in stream : f.id <= sent
    /\ sent \in 0..MaxFlushes
    /\ table \in [Cells -> Nat]
    /\ mentioned \in Nat
    /\ heard \subseteq Items /\ IsFiniteSet(heard)

LEMMA TallyInitTyped == TallyInit => TallyTyped
<1> SUFFICES ASSUME TallyInit PROVE TallyTyped
  OBVIOUS
<1>1. Typed
  BY FaultAssumption, ModeAssumption DEF TallyInit, Init, Typed, TypeOK, PCs
<1>2. IsFiniteSet(stream) /\ IsFiniteSet(heard)
  BY FS_EmptySet DEF TallyInit
<1> QED
  BY <1>1, <1>2, MinutesAssumption, FlushesAssumption DEF TallyInit, TallyTyped, Cells, Windows

\* What the flush loop leaves alone in Enrich keeps its types.
LEMMA LoopTyped ==
    ASSUME Typed, UNCHANGED <<inbox, published, shared, kv, rows>>,
           lru' \in [Replicas -> Seq(Keys)], mentions' \in [Replicas -> Nat],
           UNCHANGED <<pc, msg>> \/ \E r \in Replicas : Release(r),
           left' = left \/ \E kind \in FaultKinds : Fault(kind)
    PROVE  Typed'
<1>1. left' \in [FaultKinds -> Nat]
  <2>1. left \in [FaultKinds -> Nat]
    BY DEF Typed, TypeOK
  <2>2. ASSUME NEW kind \in FaultKinds, Fault(kind) PROVE left' \in [FaultKinds -> Nat]
    <3>1. left[kind] \in Nat /\ left[kind] - 1 \in Nat
      BY <2>1, <2>2 DEF Fault
    <3> QED
      BY <2>1, <2>2, <3>1 DEF Fault
  <2> QED
    BY <2>1, <2>2
<1>2. /\ pc' \in [Replicas -> PCs] /\ msg' \in [Replicas -> Items \cup {NoItem}]
      /\ \A r \in Replicas : pc'[r] # "idle" => msg'[r] \in Items
  BY DEF Typed, TypeOK, Release, Goto, PCs
<1> QED
  BY <1>1, <1>2 DEF Typed, TypeOK

LEMMA WindowType ==
    ASSUME TallyTyped, NEW r \in Replicas, draining[r] # <<>>
    PROVE  draining[r][1] \in 0..MaxMinute /\ draining[r][2] \in Nat
  BY DEF TallyTyped, Windows

\* A flush that is sent is typed and newer than all in the stream.
LEMMA SendTyped ==
    ASSUME TallyTyped, NEW r \in Replicas, Send(r)
    PROVE  \E f \in Flush :
              /\ f.id = sent + 1 /\ f.bucket = draining[r][1] /\ f.replica = r
              /\ f.n = draining[r][2] /\ f \notin stream
              /\ stream' = stream \cup {f} /\ IsFiniteSet(stream')
              /\ stream' \subseteq Flush /\ sent' = sent + 1 /\ sent' \in 0..MaxFlushes
              /\ \A g \in stream' : g.id <= sent'
<1> DEFINE f == [id |-> sent + 1, bucket |-> draining[r][1], replica |-> r,
                 n |-> draining[r][2]]
<1>1. draining[r] # <<>> /\ sent < MaxFlushes /\ sent' = sent + 1 /\ stream' = stream \cup {f}
  BY DEF Send
<1>2. sent \in Nat /\ sent + 1 \in 1..MaxFlushes /\ sent + 1 \in 0..MaxFlushes
  BY <1>1, FlushesAssumption DEF TallyTyped
<1>3. f \in Flush
  BY <1>1, <1>2, WindowType DEF Flush
<1>4. /\ f.id = sent + 1 /\ f.bucket = draining[r][1] /\ f.replica = r
      /\ f.n = draining[r][2]
  OBVIOUS
<1> HIDE DEF f
<1>5. \A g \in stream : g.id \in Nat /\ g.id <= sent
  BY DEF TallyTyped, Flush
<1>6. f \notin stream
  BY <1>2, <1>4, <1>5
<1>7. IsFiniteSet(stream')
  BY <1>1, FS_AddElement DEF TallyTyped
<1>8. \A g \in stream' : g.id <= sent'
  BY <1>1, <1>2, <1>4, <1>5
<1> QED
  BY <1>1, <1>2, <1>3, <1>4, <1>6, <1>7, <1>8 DEF TallyTyped

\* A handler counts the mention of the message that it fetches.
LEMMA HandleCounts ==
    ASSUME TallyTyped, NEW r \in Replicas, Handle(r)
    PROVE  \/ mentioned' = mentioned /\ heard' = heard /\ mentions' = mentions
           \/ \E i \in Items :
                 /\ Fetch(r, i) /\ mentions' = [mentions EXCEPT ![r] = @ + 1]
                 /\ mentioned' = mentioned + 1 /\ heard' = heard \cup {i}
<1>1. mentions \in [Replicas -> Nat] /\ msg \in [Replicas -> Items \cup {NoItem}]
  BY DEF TallyTyped, Typed, TypeOK
<1>2. CASE \E i \in Items : Fetch(r, i)
  <2>1. PICK i \in Items : Fetch(r, i)
    BY <1>2
  <2>2. msg'[r] = i
    BY <1>1, <2>1 DEF Fetch
  <2>3. CASE mentions' = mentions
    BY <1>1, <2>3 DEF Handle, history
  <2>4. CASE mentions' = [mentions EXCEPT ![r] = @ + 1]
    <3>1. mentions'[r] = mentions[r] + 1 /\ mentions[r] \in Nat
      BY <1>1, <2>4
    <3> QED
      BY <2>1, <2>2, <2>4, <3>1 DEF Handle
  <2> QED
    BY <2>1, <2>3, <2>4 DEF Fetch
<1>3. CASE ~\E i \in Items : Fetch(r, i)
  <2>1. mentions' = mentions
    BY <1>3 DEF Handle, Delivery, Handler, Duplicate, CreateKey, RememberKey, Publish, Ack,
                KvFails, Nak
  <2> QED
    BY <1>1, <2>1 DEF Handle, history
<1> QED
  BY <1>2, <1>3

LEMMA TallyTypedStep == TallyTyped /\ [TallyNext]_<<vars, tallyVars>> => TallyTyped'
<1> SUFFICES ASSUME TallyTyped, [TallyNext]_<<vars, tallyVars>> PROVE TallyTyped'
  OBVIOUS
<1> USE MinutesAssumption
<1>1. Typed
  BY DEF TallyTyped
<1>2. /\ lru \in [Replicas -> Seq(Keys)] /\ mentions \in [Replicas -> Nat]
      /\ \A r \in Replicas : mentions[r] \in Nat
  BY <1>1 DEF Typed, TypeOK
<1>3. ASSUME NEW r \in Replicas, FlushDone(r), minute' = minute
      PROVE  /\ phase' \in [Replicas -> {"up", "stopping", "stopped"}]
             /\ woke' \in [Replicas -> 0..MaxMinute]
             /\ draining' \in [Replicas -> Windows]
  BY <1>3 DEF FlushDone, TallyTyped, Windows
<1>4. ASSUME NEW r \in Replicas, Handle(r) PROVE TallyTyped'
  <2>1. Typed'
    BY <1>1, <1>4, TypedStep DEF Handle, Next
  <2>2. mentioned' \in Nat /\ heard' \subseteq Items /\ IsFiniteSet(heard')
    BY <1>4, HandleCounts, FS_AddElement DEF TallyTyped
  <2> QED
    BY <1>4, <2>1, <2>2 DEF Handle, TallyTyped
<1>5. CASE Tick
  <2>1. Typed'
    BY <1>1, <1>5, TypedStep DEF Tick, history
  <2> QED
    BY <1>5, <2>1 DEF Tick, history, TallyTyped
<1>6. ASSUME NEW r \in Replicas, Stop(r) PROVE TallyTyped'
  <2>1. Typed'
    BY <1>1, <1>2, <1>6, LoopTyped DEF Stop, history, bus, store, FaultKinds
  <2> QED
    BY <1>6, <2>1 DEF Stop, history, TallyTyped
<1>7. ASSUME NEW r \in Replicas, Drain(r) PROVE TallyTyped'
  <2>1. Typed'
    BY <1>1, <1>2, <1>7, LoopTyped DEF Drain, history, bus, store
  <2>2. <<minute, mentions[r]>> \in Windows
    BY <1>2 DEF TallyTyped, Windows
  <2>3. draining' \in [Replicas -> Windows]
    BY <1>7, <2>2 DEF Drain, history, TallyTyped
  <2> QED
    BY <1>7, <2>1, <2>3 DEF Drain, history, TallyTyped
<1>8. ASSUME NEW r \in Replicas, PublishFlush(r) PROVE TallyTyped'
  <2>1. Typed'
    BY <1>1, <1>8, TypedStep DEF PublishFlush, history
  <2>2. Send(r) /\ FlushDone(r) /\ UNCHANGED <<minute, table, history>>
    BY <1>8 DEF PublishFlush
  <2> QED
    BY <1>3, <2>1, <2>2, SendTyped DEF TallyTyped, history
<1>9. ASSUME NEW r \in Replicas, PublishFails(r) PROVE TallyTyped'
  <2>1. Typed'
    BY <1>1, <1>2, <1>9, LoopTyped DEF PublishFails, history, bus, store, FaultKinds
  <2>2. /\ UNCHANGED <<stream, sent>> \/ Send(r)
        /\ FlushDone(r) /\ UNCHANGED <<minute, table, history>>
    BY <1>9 DEF PublishFails, history
  <2> QED
    BY <1>3, <2>1, <2>2, SendTyped DEF TallyTyped, history
<1>10. ASSUME NEW r \in Replicas, Reboot(r) PROVE TallyTyped'
  <2>1. lru' \in [Replicas -> Seq(Keys)] /\ mentions' \in [Replicas -> Nat]
    BY <1>2, <1>10 DEF Reboot, history
  <2>2. Typed'
    BY <1>1, <1>10, <2>1, LoopTyped DEF Reboot, history, bus, FaultKinds
  <2> QED
    BY <1>10, <2>2 DEF Reboot, history, TallyTyped, Windows
<1>11. ASSUME NEW f \in stream, InsertTallies(f) PROVE TallyTyped'
  <2>1. Typed'
    BY <1>1, <1>2, <1>11, LoopTyped DEF InsertTallies, history, bus, store, FaultKinds
  <2>2. table' \in [Cells -> Nat]
    BY <1>11 DEF InsertTallies, history, TallyTyped, Flush, Cells
  <2>3. stream' \subseteq stream
    BY <1>11 DEF InsertTallies, history
  <2>4. IsFiniteSet(stream')
    BY <2>3, FS_Subset DEF TallyTyped
  <2> QED
    BY <1>11, <2>1, <2>2, <2>3, <2>4 DEF InsertTallies, history, TallyTyped
<1>12. CASE UNCHANGED <<vars, tallyVars>>
  <2>1. Typed'
    BY <1>1, <1>12, TypedStep
  <2> QED
    BY <1>12, <2>1 DEF tallyVars, history, TallyTyped
<1> QED
  BY <1>4, <1>5, <1>6, <1>7, <1>8, <1>9, <1>10, <1>11, <1>12 DEF TallyNext

\* The variables keep the types that TallyTypeOK gives them.
THEOREM TallyTypeCorrect == TallySpec => []TallyTypeOK
<1>1. TallyTyped => TallyTypeOK
  BY DEF TallyTyped, TallyTypeOK, Typed, Cells, Windows
<1> QED
  BY <1>1, TallyInitTyped, TallyTypedStep, PTL DEF TallySpec

----------------------------------------------------------------------------
(* The balance of the mentions                                             *)

Counts == [f \in Flush |-> f.n]

Waiting == [r \in Replicas |-> IF draining[r] = <<>> THEN 0 ELSE draining[r][2]]

LEMMA TotalIsSum == \A f, S : Total(f, S) = Sum(f, S)
  BY DEF Total, Sum

LEMMA NatSum ==
    ASSUME NEW S, IsFiniteSet(S), NEW f \in [S -> Nat]
    PROVE  Sum(f, S) \in Nat
  BY SumBelow

LEMMA CellsFinite == IsFiniteSet(Cells)
<1>1. IsFiniteSet(0..MaxMinute)
  BY FS_Interval, MinutesAssumption
<1> QED
  BY <1>1, FS_Product, ReplicasAssumption DEF Cells

LEMMA CountsSum ==
    ASSUME NEW P \in SUBSET Flush, IsFiniteSet(P)
    PROVE  Total([f \in P |-> f.n], P) = Sum(Counts, P) /\ Sum(Counts, P) \in Nat
<1>1. \A f \in P : Counts[f] = f.n /\ f.n \in Nat
  BY DEF Counts, Flush
<1>2. Sum([f \in P |-> f.n], P) = Sum(Counts, P)
  BY <1>1, SumSame
<1>3. Sum(Counts, P) \in Nat
  BY <1>1, SumBelow
<1> QED
  BY <1>2, <1>3, TotalIsSum

\* The four places where a mention that was counted can be.
LEMMA Places ==
    ASSUME NEW tab \in [Cells -> Nat], NEW P \in SUBSET Flush, IsFiniteSet(P),
           NEW wait \in [Replicas -> Nat], NEW ment \in [Replicas -> Nat]
    PROVE  /\ Total(tab, DOMAIN tab) + Total([f \in P |-> f.n], P)
                  + Total(wait, Replicas) + Total(ment, Replicas)
              = Sum(tab, Cells) + Sum(Counts, P) + Sum(wait, Replicas) + Sum(ment, Replicas)
           /\ Sum(tab, Cells) \in Nat /\ Sum(Counts, P) \in Nat
           /\ Sum(wait, Replicas) \in Nat /\ Sum(ment, Replicas) \in Nat
<1>1. DOMAIN tab = Cells
  OBVIOUS
<1>2. Total([f \in P |-> f.n], P) = Sum(Counts, P) /\ Sum(Counts, P) \in Nat
  BY CountsSum
<1>3. /\ Sum(tab, Cells) \in Nat /\ Sum(wait, Replicas) \in Nat /\ Sum(ment, Replicas) \in Nat
  BY CellsFinite, ReplicasAssumption, NatSum
<1> QED
  BY <1>1, <1>2, <1>3, TotalIsSum

Balance == Sum(table, Cells) + Sum(Counts, Pending) + Sum(Waiting, Replicas)
           + Sum(mentions, Replicas)

LEMMA BalanceIs ==
    ASSUME TallyTyped
    PROVE  /\ Accounted = Balance
           /\ Sum(table, Cells) \in Nat /\ Sum(Counts, Pending) \in Nat
           /\ Sum(Waiting, Replicas) \in Nat /\ Sum(mentions, Replicas) \in Nat
           /\ mentions \in [Replicas -> Nat] /\ Waiting \in [Replicas -> Nat]
           /\ Pending \subseteq Flush /\ IsFiniteSet(Pending)
<1>1. mentions \in [Replicas -> Nat] /\ table \in [Cells -> Nat]
  BY DEF TallyTyped, Typed, TypeOK
<1>2. Waiting \in [Replicas -> Nat]
  BY WindowType DEF Waiting
<1>3. Pending \in SUBSET Flush /\ IsFiniteSet(Pending)
  <2>1. Pending \in SUBSET stream
    BY DEF Pending
  <2> QED
    BY <2>1, FS_Subset DEF TallyTyped
<1>4. Accounted = Total(table, DOMAIN table) + Total([f \in Pending |-> f.n], Pending)
                  + Total(Waiting, Replicas) + Total(mentions, Replicas)
  BY DEF Accounted, Waiting
<1> QED
  BY <1>1, <1>2, <1>3, <1>4, Places DEF Balance

LEMMA BalanceIsNext ==
    ASSUME TallyTyped'
    PROVE  Balance' \in Nat
<1>1. mentions' \in [Replicas -> Nat] /\ table' \in [Cells -> Nat]
  BY DEF TallyTyped, Typed, TypeOK
<1>2. Waiting' \in [Replicas -> Nat]
  <2>1. draining' \in [Replicas -> Windows]
    BY DEF TallyTyped
  <2>2. ASSUME NEW r \in Replicas, draining'[r] # <<>> PROVE draining'[r][2] \in Nat
    BY <2>1, <2>2 DEF Windows
  <2> QED
    BY <2>2 DEF Waiting
<1>3. Pending' \in SUBSET Flush /\ IsFiniteSet(Pending')
  <2>1. Pending' \in SUBSET stream'
    BY DEF Pending
  <2> QED
    BY <2>1, FS_Subset DEF TallyTyped
<1>4. /\ Sum(table', Cells) \in Nat /\ Sum(Counts, Pending') \in Nat
      /\ Sum(Waiting', Replicas) \in Nat /\ Sum(mentions', Replicas) \in Nat
  BY <1>1, <1>2, <1>3, Places
<1> QED
  BY <1>4 DEF Balance

\* A handler counts its mention once.
LEMMA HandleBalances ==
    ASSUME TallyTyped, TallyTyped', NEW r \in Replicas, Handle(r)
    PROVE  Balance' - Balance = mentioned' - mentioned
<1>1. UNCHANGED <<table, stream, draining>> /\ mentioned \in Nat
  BY DEF Handle, TallyTyped
<1>2. /\ Sum(table, Cells) \in Nat /\ Sum(Counts, Pending) \in Nat
      /\ Sum(Waiting, Replicas) \in Nat /\ Sum(mentions, Replicas) \in Nat
      /\ mentions \in [Replicas -> Nat]
  BY BalanceIs
<1>3. Pending' = Pending /\ Waiting' = Waiting
  BY <1>1 DEF Pending, Waiting
<1>4. \/ mentions' = mentions /\ mentioned' = mentioned
      \/ mentions' = [mentions EXCEPT ![r] = @ + 1] /\ mentioned' = mentioned + 1
  BY HandleCounts
<1>5. CASE mentions' = mentions /\ mentioned' = mentioned
  BY <1>1, <1>2, <1>3, <1>5 DEF Balance
<1>6. CASE mentions' = [mentions EXCEPT ![r] = @ + 1] /\ mentioned' = mentioned + 1
  <2>1. mentions'[r] = mentions[r] + 1 /\ \A d \in Replicas \ {r} : mentions'[d] = mentions[d]
    BY <1>2, <1>6
  <2>2. mentions[r] \in Nat
    BY <1>2
  <2>3. Sum(mentions', Replicas) = Sum(mentions, Replicas) - mentions[r] + mentions'[r]
    BY <1>2, <2>1, <2>2, ReplicasAssumption, SumUpdate
  <2>4. Sum(mentions', Replicas) = Sum(mentions, Replicas) + 1 /\ mentioned' = mentioned + 1
    BY <1>1, <1>2, <1>6, <2>1, <2>2, <2>3
  <2> QED
    BY <1>1, <1>2, <1>3, <2>4 DEF Balance
<1> QED
  BY <1>4, <1>5, <1>6

\* A drain moves what a replica has counted.
LEMMA DrainBalances ==
    ASSUME TallyTyped, TallyTyped', NEW r \in Replicas, Drain(r)
    PROVE  Balance' = Balance
<1>1. /\ UNCHANGED <<table, stream>> /\ draining[r] = <<>>
      /\ draining' = [draining EXCEPT ![r] = <<minute, mentions[r]>>]
      /\ mentions' = [mentions EXCEPT ![r] = 0]
  BY DEF Drain, history
<1>2. /\ Sum(table, Cells) \in Nat /\ Sum(Counts, Pending) \in Nat
      /\ Sum(Waiting, Replicas) \in Nat /\ Sum(mentions, Replicas) \in Nat
      /\ mentions \in [Replicas -> Nat] /\ Waiting \in [Replicas -> Nat]
  BY BalanceIs
<1>3. draining \in [Replicas -> Windows]
  BY DEF TallyTyped
<1>4. Pending' = Pending
  BY <1>1 DEF Pending
<1>5. draining'[r] = <<minute, mentions[r]>>
      /\ \A d \in Replicas \ {r} : draining'[d] = draining[d]
  BY <1>1, <1>3
<1>6. /\ Waiting[r] = 0 /\ Waiting'[r] = mentions[r]
      /\ \A d \in Replicas \ {r} : Waiting'[d] = Waiting[d]
  BY <1>1, <1>5 DEF Waiting
<1>7. Sum(Waiting', Replicas) = Sum(Waiting, Replicas) - Waiting[r] + Waiting'[r]
  BY <1>2, <1>6, ReplicasAssumption, SumUpdate
<1>8. mentions'[r] = 0 /\ \A d \in Replicas \ {r} : mentions'[d] = mentions[d]
  BY <1>1, <1>2
<1>9. Sum(mentions', Replicas) = Sum(mentions, Replicas) - mentions[r] + mentions'[r]
  BY <1>2, <1>8, ReplicasAssumption, SumUpdate
<1>10. mentions[r] \in Nat
  BY <1>2
<1> QED
  BY <1>1, <1>2, <1>4, <1>6, <1>7, <1>8, <1>9, <1>10 DEF Balance

\* The window of a replica is gone when its flush is done.
LEMMA DoneEmpties ==
    ASSUME TallyTyped, NEW r \in Replicas, FlushDone(r)
    PROVE  Sum(Waiting', Replicas) = Sum(Waiting, Replicas) - Waiting[r]
<1>1. draining'[r] = <<>> /\ \A d \in Replicas \ {r} : draining'[d] = draining[d]
  BY DEF FlushDone, TallyTyped
<1>2. Waiting'[r] = 0 /\ \A d \in Replicas \ {r} : Waiting'[d] = Waiting[d]
  BY <1>1 DEF Waiting
<1>3. Waiting \in [Replicas -> Nat] /\ Sum(Waiting, Replicas) \in Nat
  BY BalanceIs
<1>4. Sum(Waiting', Replicas) = Sum(Waiting, Replicas) - Waiting[r] + Waiting'[r]
  BY <1>2, <1>3, ReplicasAssumption, SumUpdate
<1> QED
  BY <1>2, <1>3, <1>4

\* A flush that is sent is pending, unless the table has a row of its minute.
LEMMA SendBalances ==
    ASSUME TallyTyped, TallyTyped', NEW r \in Replicas, Send(r), FlushDone(r),
           UNCHANGED <<table, mentions>>
    PROVE  /\ Balance' <= Balance
           /\ table[<<draining[r][1], r>>] = 0 => Balance' = Balance
<1>1. PICK f \in Flush :
         /\ f.bucket = draining[r][1] /\ f.replica = r /\ f.n = draining[r][2]
         /\ f \notin stream /\ stream' = stream \cup {f}
  BY SendTyped
<1>2. /\ Sum(table, Cells) \in Nat /\ Sum(Counts, Pending) \in Nat
      /\ Sum(Waiting, Replicas) \in Nat /\ Sum(mentions, Replicas) \in Nat
      /\ Pending \subseteq Flush /\ IsFiniteSet(Pending)
  BY BalanceIs
<1>3. Waiting[r] = f.n /\ Counts[f] = f.n /\ f.n \in Nat
  BY <1>1 DEF Waiting, Counts, Send, Flush
<1>4. Sum(Waiting', Replicas) = Sum(Waiting, Replicas) - f.n
  BY <1>3, DoneEmpties
<1>5. f \notin Pending
  BY <1>1 DEF Pending
<1>6. CASE table[<<draining[r][1], r>>] = 0
  <2>1. Pending' = Pending \cup {f}
    BY <1>1, <1>6 DEF Pending
  <2>2. IsFiniteSet(Pending \cup {f}) /\ \A g \in Pending \cup {f} : Counts[g] \in Int
    BY <1>2, FS_AddElement DEF Counts, Flush
  <2>3. (Pending \cup {f}) \ {f} = Pending
    BY <1>5
  <2>4. Sum(Counts, Pending \cup {f}) = f.n + Sum(Counts, Pending)
    BY <1>3, <2>2, <2>3, SumSplit
  <2> QED
    BY <1>2, <1>3, <1>4, <2>1, <2>4 DEF Balance
<1>7. CASE table[<<draining[r][1], r>>] # 0
  <2>1. Pending' = Pending
    BY <1>1, <1>7 DEF Pending
  <2> QED
    BY <1>2, <1>3, <1>4, <1>7, <2>1 DEF Balance
<1> QED
  BY <1>6, <1>7

\* A flush that fails takes its window along.
LEMMA DropBalances ==
    ASSUME TallyTyped, NEW r \in Replicas, FlushDone(r), UNCHANGED <<table, mentions, stream>>
    PROVE  Balance' <= Balance
<1>1. /\ Sum(table, Cells) \in Nat /\ Sum(Counts, Pending) \in Nat
      /\ Sum(Waiting, Replicas) \in Nat /\ Sum(mentions, Replicas) \in Nat
      /\ Waiting \in [Replicas -> Nat]
  BY BalanceIs
<1>2. Pending' = Pending
  BY DEF Pending
<1>3. Sum(Waiting', Replicas) = Sum(Waiting, Replicas) - Waiting[r]
  BY DoneEmpties
<1>4. Waiting[r] \in Nat
  BY <1>1
<1> QED
  BY <1>1, <1>2, <1>3, <1>4 DEF Balance

\* A pod that dies takes its counter and its window along.
LEMMA RebootBalances ==
    ASSUME TallyTyped, NEW r \in Replicas, Reboot(r)
    PROVE  Balance' <= Balance
<1>1. /\ Sum(table, Cells) \in Nat /\ Sum(Counts, Pending) \in Nat
      /\ Sum(Waiting, Replicas) \in Nat /\ Sum(mentions, Replicas) \in Nat
      /\ Waiting \in [Replicas -> Nat] /\ mentions \in [Replicas -> Nat]
  BY BalanceIs
<1>2. /\ UNCHANGED <<table, stream>>
      /\ draining' = [draining EXCEPT ![r] = <<>>] /\ mentions' = [mentions EXCEPT ![r] = 0]
      /\ draining \in [Replicas -> Windows]
  BY DEF Reboot, history, TallyTyped
<1>3. Pending' = Pending
  BY <1>2 DEF Pending
<1>4. draining'[r] = <<>> /\ \A d \in Replicas \ {r} : draining'[d] = draining[d]
  BY <1>2
<1>5. Waiting'[r] = 0 /\ \A d \in Replicas \ {r} : Waiting'[d] = Waiting[d]
  BY <1>4 DEF Waiting
<1>6. Sum(Waiting', Replicas) = Sum(Waiting, Replicas) - Waiting[r] + Waiting'[r]
  BY <1>1, <1>5, ReplicasAssumption, SumUpdate
<1>7. mentions'[r] = 0 /\ \A d \in Replicas \ {r} : mentions'[d] = mentions[d]
  BY <1>1, <1>2
<1>8. Sum(mentions', Replicas) = Sum(mentions, Replicas) - mentions[r] + mentions'[r]
  BY <1>1, <1>7, ReplicasAssumption, SumUpdate
<1>9. Waiting[r] \in Nat /\ mentions[r] \in Nat
  BY <1>1
<1> QED
  BY <1>1, <1>2, <1>3, <1>5, <1>6, <1>7, <1>8, <1>9 DEF Balance

\* No other flush in the stream is for the same row.
Alone(f) == \A g \in stream : g.bucket = f.bucket /\ g.replica = f.replica => g = f

\* A row takes one of the flushes that are pending for it.
LEMMA InsertBalances ==
    ASSUME TallyTyped, NEW f \in stream, InsertTallies(f)
    PROVE  Balance' <= Balance /\ (Alone(f) => Balance' = Balance)
<1> DEFINE cell == <<f.bucket, f.replica>>
<1>1. /\ table' = IF table[cell] = 0 THEN [table EXCEPT ![cell] = f.n] ELSE table
      /\ stream' = stream \ {f} \/ stream' = stream
      /\ UNCHANGED <<mentions, draining>>
  BY DEF InsertTallies, history
<1>2. /\ Sum(table, Cells) \in Nat /\ Sum(Counts, Pending) \in Nat
      /\ Sum(Waiting, Replicas) \in Nat /\ Sum(mentions, Replicas) \in Nat
      /\ Pending \subseteq Flush /\ IsFiniteSet(Pending)
  BY BalanceIs
<1>3. /\ cell \in Cells /\ Counts[f] = f.n /\ f.n \in Nat
      /\ table \in [Cells -> Nat]
      /\ \A g \in stream : <<g.bucket, g.replica>> \in Cells
  BY DEF TallyTyped, Flush, Cells, Counts
<1>4. Waiting' = Waiting
  BY <1>1 DEF Waiting
<1>5. ASSUME f \in Pending
      PROVE  /\ Sum(Counts, Pending) = f.n + Sum(Counts, Pending \ {f})
             /\ Sum(Counts, Pending \ {f}) \in Nat /\ IsFiniteSet(Pending \ {f})
  <2>1. \A g \in Pending : Counts[g] \in Nat
    BY <1>2 DEF Counts, Flush
  <2>2. Sum(Counts, Pending) = Counts[f] + Sum(Counts, Pending \ {f})
    BY <1>2, <1>5, <2>1, SumSplit
  <2>3. Pending \ {f} \in SUBSET Pending
    OBVIOUS
  <2> QED
    BY <1>2, <1>3, <2>1, <2>2, <2>3, SumBelow, FS_Subset
<1>6. CASE table[cell] # 0
  <2>1. table' = table
    BY <1>1, <1>6
  <2>2. Pending' = Pending
    BY <1>1, <1>6, <2>1 DEF Pending
  <2> QED
    BY <1>1, <1>2, <1>4, <2>1, <2>2 DEF Balance
<1>7. CASE table[cell] = 0 /\ f.n = 0
  <2>1. table' = table
    BY <1>1, <1>3, <1>7
  <2>2. f \in Pending /\ (Pending' = Pending \/ Pending' = Pending \ {f})
    BY <1>1, <1>7, <2>1 DEF Pending
  <2>3. Sum(Counts, Pending') = Sum(Counts, Pending)
    <3>1. Sum(Counts, Pending) = Sum(Counts, Pending \ {f})
      BY <1>2, <1>5, <1>7, <2>2
    <3> QED
      BY <2>2, <3>1
  <2> QED
    BY <1>1, <1>2, <1>4, <2>1, <2>3 DEF Balance
<1>8. CASE table[cell] = 0 /\ f.n # 0
  <2>1. table'[cell] = f.n /\ \A c \in Cells \ {cell} : table'[c] = table[c]
    BY <1>1, <1>3, <1>8
  <2>2. Sum(table', Cells) = Sum(table, Cells) + f.n
    <3>1. \A c \in Cells : table[c] \in Int
      BY <1>3
    <3>2. Sum(table', Cells) = Sum(table, Cells) - table[cell] + table'[cell]
      BY <1>3, <2>1, <3>1, CellsFinite, SumUpdate
    <3> QED
      BY <1>2, <1>3, <1>8, <2>1, <3>2
  <2>3. f \in Pending
    BY <1>8 DEF Pending
  <2>4. Pending' \subseteq Pending \ {f}
    <3> SUFFICES ASSUME NEW g \in Pending' PROVE g \in Pending /\ g # f
      OBVIOUS
    <3>1. g \in stream /\ table'[<<g.bucket, g.replica>>] = 0
      BY <1>1 DEF Pending
    <3>2. <<g.bucket, g.replica>> # cell
      BY <1>8, <2>1, <3>1
    <3>3. table[<<g.bucket, g.replica>>] = 0
      BY <1>3, <2>1, <3>1, <3>2
    <3> QED
      BY <3>1, <3>2, <3>3 DEF Pending
  <2>5. Sum(Counts, Pending') <= Sum(Counts, Pending \ {f}) /\ Sum(Counts, Pending') \in Nat
    <3>1. \A g \in Pending \ {f} : Counts[g] \in Nat
      BY <1>2 DEF Counts, Flush
    <3> QED
      BY <1>5, <2>3, <2>4, <3>1, SumBelow
  <2>6. Balance' <= Balance
    BY <1>1, <1>2, <1>3, <1>4, <1>5, <2>2, <2>3, <2>5 DEF Balance
  <2>7. ASSUME Alone(f) PROVE Balance' = Balance
    <3>1. Pending \ {f} \subseteq Pending'
      <4> SUFFICES ASSUME NEW g \in Pending, g # f PROVE g \in Pending'
        OBVIOUS
      <4>1. g \in stream /\ table[<<g.bucket, g.replica>>] = 0 /\ g \in stream'
        BY <1>1 DEF Pending
      <4>2. <<g.bucket, g.replica>> # cell
        BY <2>7, <4>1 DEF Alone
      <4>3. table'[<<g.bucket, g.replica>>] = 0
        BY <1>3, <2>1, <4>1, <4>2
      <4> QED
        BY <4>1, <4>3 DEF Pending
    <3>2. Pending' = Pending \ {f}
      BY <2>4, <3>1
    <3> QED
      BY <1>1, <1>2, <1>3, <1>4, <1>5, <2>2, <2>3, <3>2 DEF Balance
  <2> QED
    BY <2>6, <2>7
<1> QED
  BY <1>6, <1>7, <1>8

\* No step accounts for a mention that no handler has counted.
LEMMA StepBalances ==
    ASSUME TallyTyped, TallyTyped', [TallyNext]_<<vars, tallyVars>>
    PROVE  Balance' - Balance <= mentioned' - mentioned
<1>1. Balance \in Nat /\ Balance' \in Nat
  <2>1. Balance \in Nat
    BY BalanceIs DEF Balance
  <2>2. Balance' \in Nat
    BY BalanceIsNext DEF Balance
  <2> QED
    BY <2>1, <2>2
<1>2. mentioned \in Nat
  BY DEF TallyTyped
<1>3. ASSUME NEW r \in Replicas, Handle(r)
      PROVE  Balance' - Balance <= mentioned' - mentioned
  <2>1. Balance' - Balance = mentioned' - mentioned
    BY <1>3, HandleBalances
  <2>2. Balance' - Balance \in Int
    BY <1>1
  <2> QED
    BY <2>1, <2>2
<1>4. ASSUME mentioned' = mentioned, Balance' <= Balance
      PROVE  Balance' - Balance <= mentioned' - mentioned
  <2>1. \A a, b \in Nat : b <= a => b - a <= 0
    OBVIOUS
  <2>2. mentioned' - mentioned = 0
    BY ONLY <1>2, <1>4
  <2>3. Balance' - Balance <= 0
    BY ONLY <1>1, <1>4, <2>1
  <2> QED
    BY ONLY <2>2, <2>3
<1>5. ASSUME UNCHANGED <<table, stream, draining, mentions, mentioned>>
      PROVE  Balance' - Balance <= mentioned' - mentioned
  <2>1. Balance' = Balance
    BY <1>5 DEF Balance, Pending, Waiting
  <2> QED
    BY <1>1, <1>4, <1>5, <2>1
<1>6. CASE Tick \/ (\E r \in Replicas : Stop(r)) \/ UNCHANGED <<vars, tallyVars>>
  BY <1>5, <1>6 DEF Tick, history, Stop, vars, tallyVars, history
<1>7. ASSUME NEW r \in Replicas, Drain(r)
      PROVE  Balance' - Balance <= mentioned' - mentioned
  <2>1. Balance' = Balance /\ mentioned' = mentioned
    BY <1>7, DrainBalances DEF Drain, history
  <2> QED
    BY <1>1, <1>4, <2>1
<1>8. ASSUME NEW r \in Replicas, PublishFlush(r)
      PROVE  Balance' - Balance <= mentioned' - mentioned
  BY <1>4, <1>8, SendBalances DEF PublishFlush, history, vars
<1>9. ASSUME NEW r \in Replicas, PublishFails(r)
      PROVE  Balance' - Balance <= mentioned' - mentioned
  BY <1>4, <1>9, SendBalances, DropBalances DEF PublishFails, history
<1>10. ASSUME NEW r \in Replicas, Reboot(r)
       PROVE  Balance' - Balance <= mentioned' - mentioned
  BY <1>4, <1>10, RebootBalances DEF Reboot, history
<1>11. ASSUME NEW f \in stream, InsertTallies(f)
       PROVE  Balance' - Balance <= mentioned' - mentioned
  BY <1>4, <1>11, InsertBalances DEF InsertTallies, history
<1> QED
  BY <1>3, <1>6, <1>7, <1>8, <1>9, <1>10, <1>11 DEF TallyNext

LEMMA BalanceInit == TallyInit => Balance = 0 /\ mentioned = 0
<1> SUFFICES ASSUME TallyInit PROVE Balance = 0 /\ mentioned = 0
  OBVIOUS
<1>1. /\ \A c \in Cells : table[c] = 0
      /\ \A r \in Replicas : draining[r] = <<>> /\ mentions[r] = 0
      /\ stream = {} /\ mentioned = 0
  BY DEF TallyInit, Init, Cells
<1>2. Pending = {} /\ \A r \in Replicas : Waiting[r] = 0
  BY <1>1 DEF Pending, Waiting
<1>3. /\ Sum(table, Cells) = 0 /\ Sum(Counts, {}) = 0
      /\ Sum(Waiting, Replicas) = 0 /\ Sum(mentions, Replicas) = 0
  BY <1>1, <1>2, CellsFinite, ReplicasAssumption, SumZero, EmptySum
<1> QED
  BY <1>1, <1>2, <1>3 DEF Balance

----------------------------------------------------------------------------
(* Every count beyond the first of a message is paid for by a redelivery   *)

\* A message that was counted and waits for a handler: its next fetch counts it again.
Reserve == {i \in heard \cap inbox : ~Held(i)}

Free == \A r \in Replicas : pc[r] = "idle" => msg[r] = NoItem

Paid == Free /\ mentioned + Cardinality(Reserve) <= Cardinality(heard) + Redelivered

Redeliveries == {"nak", "expiry", "stop", "restart"}

LEMMA RedeliveredIs ==
    ASSUME TallyTyped, TallyTyped'
    PROVE  /\ Redelivered \in Int /\ Redelivered' \in Int
           /\ left' = left => Redelivered' = Redelivered
           /\ \A kind \in FaultKinds : Fault(kind) =>
                 Redelivered' = IF kind \in Redeliveries THEN Redelivered + 1 ELSE Redelivered
<1>1. /\ left \in [FaultKinds -> Nat] /\ left' \in [FaultKinds -> Nat]
      /\ Faults \in [FaultKinds -> Nat]
  BY FaultAssumption DEF TallyTyped, Typed, TypeOK
<1>2. \A k \in FaultKinds : Used(k) \in Int /\ Used(k)' \in Int
  BY <1>1 DEF Used
<1>3. Redeliveries \subseteq FaultKinds
  BY DEF Redeliveries, FaultKinds
<1>4. Redelivered \in Int /\ Redelivered' \in Int
  BY <1>2, <1>3 DEF Redelivered, Redeliveries
<1>5. left' = left => Redelivered' = Redelivered
  BY DEF Redelivered, Used
<1>6. ASSUME NEW kind \in FaultKinds, Fault(kind)
      PROVE  /\ Used(kind)' = Used(kind) + 1
             /\ \A k \in FaultKinds \ {kind} : Used(k)' = Used(k)
  BY <1>1, <1>6 DEF Fault, Used
<1>7. ASSUME NEW kind \in FaultKinds, Fault(kind)
      PROVE  Redelivered' = IF kind \in Redeliveries THEN Redelivered + 1 ELSE Redelivered
  BY <1>2, <1>3, <1>6, <1>7 DEF Redelivered, Redeliveries
<1> QED
  BY <1>4, <1>5, <1>7

LEMMA ReserveIsFinite ==
    ASSUME TallyTyped
    PROVE  /\ IsFiniteSet(heard) /\ IsFiniteSet(Reserve)
           /\ Cardinality(heard) \in Nat /\ Cardinality(Reserve) \in Nat
<1>1. Reserve \subseteq heard
  BY DEF Reserve
<1> QED
  BY <1>1, FS_Subset, FS_CardinalityType DEF TallyTyped

\* No step but a fetch counts anything, and what is put back is paid for.
LEMMA ReleasePays ==
    ASSUME TallyTyped, TallyTyped', Paid, UNCHANGED history, inbox' \subseteq inbox,
           NEW r \in Replicas, Release(r),
           \/ left' = left /\ msg[r] \notin inbox'
           \/ \E kind \in Redeliveries : Fault(kind)
    PROVE  Paid'
<1>1. /\ msg \in [Replicas -> Items \cup {NoItem}] /\ pc \in [Replicas -> PCs]
      /\ mentioned \in Nat /\ mentioned' = mentioned /\ heard' = heard
      /\ heard \subseteq Items
  BY DEF TallyTyped, Typed, TypeOK, history
<1>2. /\ msg'[r] = NoItem /\ \A d \in Replicas \ {r} : msg'[d] = msg[d]
      /\ pc'[r] = "idle" /\ \A d \in Replicas \ {r} : pc'[d] = pc[d]
  BY <1>1 DEF Release, Goto
<1>3. Free'
  BY <1>2 DEF Free, Paid
<1>4. Reserve' \subseteq Reserve \cup {msg[r]}
  BY <1>1, <1>2 DEF Reserve, Held
<1>5. /\ Cardinality(heard) \in Nat /\ Cardinality(Reserve) \in Nat
      /\ Cardinality(Reserve') \in Nat
      /\ IsFiniteSet(Reserve) /\ IsFiniteSet(Reserve \cup {msg[r]})
      /\ Cardinality(Reserve \cup {msg[r]}) \in Nat
      /\ Cardinality(Reserve \cup {msg[r]}) <= Cardinality(Reserve) + 1
  <2>1. IsFiniteSet(Reserve \cup {msg[r]}) /\ Cardinality(Reserve \cup {msg[r]}) \in Nat
    BY ReserveIsFinite, FS_AddElement, FS_CardinalityType
  <2>2. Cardinality(Reserve \cup {msg[r]}) <= Cardinality(Reserve) + 1
    <3>1. IsFiniteSet(Reserve) /\ Cardinality(Reserve) \in Nat
      BY ReserveIsFinite
    <3>2. Cardinality(Reserve \cup {msg[r]})
             = IF msg[r] \in Reserve THEN Cardinality(Reserve) ELSE Cardinality(Reserve) + 1
      BY <3>1, FS_AddElement
    <3> QED
      BY ONLY <3>1, <3>2
  <2>3. Cardinality(Reserve') \in Nat
    BY <1>4, <2>1, FS_Subset, FS_CardinalityType
  <2> QED
    BY <2>1, <2>2, <2>3, ReserveIsFinite
<1>6. mentioned + Cardinality(Reserve) <= Cardinality(heard) + Redelivered
  BY DEF Paid
<1>7. CASE left' = left /\ msg[r] \notin inbox'
  <2>1. Reserve' \subseteq Reserve
    BY <1>4, <1>7 DEF Reserve
  <2>2. Cardinality(Reserve') <= Cardinality(Reserve)
    BY <1>5, <2>1, FS_Subset
  <2>3. Redelivered \in Int /\ Redelivered' = Redelivered
    BY <1>7, RedeliveredIs
  <2> QED
    BY <1>1, <1>3, <1>5, <1>6, <2>2, <2>3 DEF Paid
<1>8. CASE \E kind \in Redeliveries : Fault(kind)
  <2>1. Cardinality(Reserve') <= Cardinality(Reserve \cup {msg[r]})
    BY <1>4, <1>5, FS_Subset
  <2>2. Redelivered \in Int /\ Redelivered' = Redelivered + 1
    BY <1>8, RedeliveredIs DEF Redeliveries, FaultKinds
  <2> QED
    BY <1>1, <1>3, <1>5, <1>6, <2>1, <2>2 DEF Paid
<1> QED
  BY <1>7, <1>8

\* The first fetch of a message is heard, the next is out of the reserve, or its ack
\* wait expired.
LEMMA FetchPays ==
    ASSUME TallyTyped, TallyTyped', Paid, NEW r \in Replicas, NEW i \in Items, Fetch(r, i),
           \/ UNCHANGED history
           \/ mentioned' = mentioned + 1 /\ heard' = heard \cup {i}
    PROVE  Paid'
<1>1. /\ msg \in [Replicas -> Items \cup {NoItem}] /\ pc \in [Replicas -> PCs]
      /\ mentioned \in Nat /\ heard \subseteq Items /\ msg[r] = NoItem
      /\ pc[r] = "idle" /\ i \in inbox /\ inbox' = inbox
  BY DEF TallyTyped, Typed, TypeOK, Fetch, Paid, Free, bus
<1>2. /\ msg'[r] = i /\ \A d \in Replicas \ {r} : msg'[d] = msg[d]
      /\ pc'[r] = "dedup" /\ \A d \in Replicas \ {r} : pc'[d] = pc[d]
  BY <1>1 DEF Fetch, Goto
<1>3. Free'
  BY <1>2 DEF Free, Paid
<1>4. \A j \in Items : Held(j) => Held(j)'
  BY <1>1, <1>2, NoItemAssumption DEF Held
<1>5. Held(i)'
  BY <1>2 DEF Held
<1>6. Reserve' \subseteq Reserve \ {i}
  BY <1>1, <1>4, <1>5 DEF Reserve, history
<1>7. /\ Cardinality(heard) \in Nat /\ Cardinality(Reserve) \in Nat
      /\ Cardinality(Reserve') \in Nat /\ Cardinality(Reserve \ {i}) \in Nat
      /\ Cardinality(Reserve') <= Cardinality(Reserve \ {i})
      /\ Cardinality(Reserve \ {i}) =
            IF i \in Reserve THEN Cardinality(Reserve) - 1 ELSE Cardinality(Reserve)
  <2>1. IsFiniteSet(Reserve \ {i})
    BY ReserveIsFinite, FS_RemoveElement
  <2> QED
    BY <1>6, <2>1, ReserveIsFinite, FS_RemoveElement, FS_Subset, FS_CardinalityType
<1>8. mentioned + Cardinality(Reserve) <= Cardinality(heard) + Redelivered
  BY DEF Paid
<1>9. /\ Redelivered \in Int /\ Redelivered' \in Int
      /\ \/ ~Held(i) /\ Redelivered' = Redelivered
         \/ Held(i) /\ Redelivered' = Redelivered + 1
  BY RedeliveredIs DEF Fetch, Redeliveries, FaultKinds
<1>10. CASE UNCHANGED history
  BY <1>1, <1>3, <1>7, <1>8, <1>9, <1>10 DEF Paid, history
<1>11. CASE mentioned' = mentioned + 1 /\ heard' = heard \cup {i}
  <2>1. CASE i \notin heard
    <3>1. Cardinality(heard') = Cardinality(heard) + 1
      BY <1>11, <2>1, ReserveIsFinite, FS_AddElement
    <3> QED
      BY <1>1, <1>3, <1>7, <1>8, <1>9, <1>11, <3>1 DEF Paid
  <2>2. CASE i \in heard
    <3>1. heard' = heard
      BY <1>11, <2>2
    <3>2. Held(i) \/ i \in Reserve
      BY <1>1, <2>2 DEF Reserve
    <3> QED
      BY <1>1, <1>3, <1>7, <1>8, <1>9, <1>11, <3>1, <3>2 DEF Paid
  <2> QED
    BY <2>1, <2>2
<1> QED
  BY <1>10, <1>11

\* A step that leaves messages and counts alone, and spends nothing on a redelivery.
LEMMA OthersPay ==
    ASSUME TallyTyped, TallyTyped', Paid, UNCHANGED <<history, inbox, msg>>,
           \A r \in Replicas : pc'[r] = "idle" => pc[r] = "idle",
           left' = left \/ \E kind \in FaultKinds \ Redeliveries : Fault(kind)
    PROVE  Paid'
<1>1. Reserve' = Reserve /\ mentioned' = mentioned /\ heard' = heard
  BY DEF Reserve, Held, history
<1>2. Redelivered' = Redelivered
  BY RedeliveredIs
<1> QED
  BY <1>1, <1>2 DEF Paid, Free

LEMMA PaidStep ==
    ASSUME TallyTyped, TallyTyped', Paid, [TallyNext]_<<vars, tallyVars>>
    PROVE  Paid'
<1>1. ASSUME NEW r \in Replicas, Handle(r) PROVE Paid'
  <2>1. CASE \E i \in Items : Fetch(r, i)
    <3>1. PICK i \in Items : Fetch(r, i)
      BY <2>1
    <3>2. \A j \in Items : Fetch(r, j) => j = i
      BY <3>1 DEF Fetch, TallyTyped, Typed, TypeOK
    <3>3. \/ UNCHANGED history
          \/ mentioned' = mentioned + 1 /\ heard' = heard \cup {i}
      BY <1>1, <3>2, HandleCounts DEF history
    <3> QED
      BY <3>1, <3>3, FetchPays
  <2>2. CASE ~\E i \in Items : Fetch(r, i)
    <3>1. UNCHANGED history
      BY <1>1, <2>2, HandleCounts DEF history
    <3>2. CASE Ack(r)
      BY <3>1, <3>2, ReleasePays DEF Ack
    <3>3. CASE Nak(r)
      BY <3>1, <3>3, ReleasePays DEF Nak, bus, Redeliveries
    <3>4. CASE Duplicate(r) \/ CreateKey(r) \/ RememberKey(r) \/ Publish(r) \/ KvFails(r)
      <4>1. \A step \in PCs : Goto(r, step) /\ step # "idle" =>
               \A d \in Replicas : pc'[d] = "idle" => pc[d] = "idle"
        BY DEF Goto, TallyTyped, Typed, TypeOK
      <4>2. \A d \in Replicas : pc'[d] = "idle" => pc[d] = "idle"
        BY <3>4, <4>1 DEF Duplicate, CreateKey, RememberKey, Publish, KvFails, Judge, PCs
      <4>3. UNCHANGED <<inbox, msg>>
        BY <3>4 DEF Duplicate, CreateKey, RememberKey, Publish, KvFails, bus
      <4>4. left' = left \/ \E kind \in FaultKinds \ Redeliveries : Fault(kind)
        BY <3>4 DEF Duplicate, CreateKey, RememberKey, Publish, KvFails, FaultKinds,
                    Redeliveries
      <4> QED
        BY <3>1, <4>2, <4>3, <4>4, OthersPay
    <3> QED
      BY <1>1, <2>2, <3>2, <3>3, <3>4 DEF Handle, Delivery, Handler
  <2> QED
    BY <2>1, <2>2
<1>2. ASSUME NEW r \in Replicas, Stop(r) PROVE Paid'
  BY <1>2, ReleasePays DEF Stop, bus, Redeliveries
<1>3. ASSUME NEW r \in Replicas, Reboot(r) PROVE Paid'
  BY <1>3, ReleasePays DEF Reboot, bus, Redeliveries
<1>4. ASSUME NEW r \in Replicas, Drain(r) PROVE Paid'
  BY <1>4, OthersPay DEF Drain, bus
<1>5. ASSUME NEW r \in Replicas, PublishFlush(r) PROVE Paid'
  BY <1>5, OthersPay DEF PublishFlush, vars
<1>6. ASSUME NEW r \in Replicas, PublishFails(r) PROVE Paid'
  BY <1>6, OthersPay DEF PublishFails, bus, FaultKinds, Redeliveries
<1>7. ASSUME NEW f \in stream, InsertTallies(f) PROVE Paid'
  BY <1>7, OthersPay DEF InsertTallies, bus, FaultKinds, Redeliveries
<1>8. CASE Tick \/ UNCHANGED <<vars, tallyVars>>
  BY <1>8, OthersPay DEF Tick, vars, tallyVars
<1> QED
  BY <1>1, <1>2, <1>3, <1>4, <1>5, <1>6, <1>7, <1>8 DEF TallyNext

LEMMA PaidInit == TallyInit => Paid
<1> SUFFICES ASSUME TallyInit PROVE Paid
  OBVIOUS
<1>1. Reserve = {} /\ heard = {} /\ mentioned = 0
  BY DEF TallyInit, Reserve
<1>2. Cardinality({}) = 0
  BY FS_EmptySet
<1>3. Redelivered = 0
  BY FaultAssumption DEF TallyInit, Init, Redelivered, Used, FaultKinds
<1> QED
  BY <1>1, <1>2, <1>3 DEF TallyInit, Init, Paid, Free

\* A message counts once for each delivery and nothing else counts it again, for any
\* replicas and failures: filter.tally runs once a delivery, insert_tallies keeps the
\* row that is there, drain_mentions hands the counter off.
THEOREM CountsArePaid == TallySpec => []NoOvercount
<1> DEFINE Covered == TallyTyped /\ Paid /\ Balance <= mentioned
<1>1. TallyInit => Covered
  BY TallyInitTyped, PaidInit, BalanceInit
<1>2. Covered /\ [TallyNext]_<<vars, tallyVars>> => Covered'
  <2> SUFFICES ASSUME Covered, [TallyNext]_<<vars, tallyVars>> PROVE Covered'
    OBVIOUS
  <2>1. TallyTyped' /\ Paid'
    BY TallyTypedStep, PaidStep
  <2>2. Balance' - Balance <= mentioned' - mentioned
    BY <2>1, StepBalances
  <2>3. mentioned \in Nat /\ mentioned' \in Nat
    BY <2>1 DEF TallyTyped
  <2>4. Balance \in Nat
    BY BalanceIs DEF Balance
  <2>5. Balance' \in Nat
    BY <2>1, BalanceIsNext DEF Balance
  <2>6. Balance <= mentioned
    OBVIOUS
  <2>7. Balance' <= mentioned'
    <3>1. \A a, b, c, d \in Nat : b - a <= d - c /\ a <= c => b <= d
      OBVIOUS
    <3> QED
      BY <2>2, <2>3, <2>4, <2>5, <2>6, <3>1
  <2> QED
    BY <2>1, <2>7
<1>3. Covered => NoOvercount
  <2> SUFFICES ASSUME Covered PROVE NoOvercount
    OBVIOUS
  <2>1. mentioned + Cardinality(Reserve) <= Cardinality(heard) + Redelivered
    BY DEF Paid
  <2>2. /\ Cardinality(Reserve) \in Nat /\ Cardinality(heard) \in Nat /\ mentioned \in Nat
        /\ Balance \in Nat /\ Accounted = Balance /\ Balance <= mentioned
    BY ReserveIsFinite, BalanceIs DEF TallyTyped, Balance
  <2>3. Redelivered \in Int
    <3>1. left \in [FaultKinds -> Nat] /\ Faults \in [FaultKinds -> Nat]
      BY FaultAssumption DEF TallyTyped, Typed, TypeOK
    <3>2. \A k \in FaultKinds : Used(k) \in Int
      BY <3>1 DEF Used
    <3> QED
      BY <3>2 DEF Redelivered, FaultKinds
  <2> QED
    BY <2>1, <2>2, <2>3 DEF NoOvercount
<1> QED
  BY <1>1, <1>2, <1>3, PTL DEF TallySpec

----------------------------------------------------------------------------
(* Nothing is lost while the loops run undisturbed                         *)

Quiet == Unspent({"stop", "restart", "flush"})

\* Each flush of a replica has a minute of its own, later than all it has published.
Regular ==
    /\ \A r \in Replicas :
          /\ phase[r] = "up" /\ woke[r] <= minute
          /\ draining[r] # <<>> => woke[r] < draining[r][1] /\ draining[r][1] <= minute
          /\ \A b \in 0..MaxMinute : table[<<b, r>>] # 0 => b <= woke[r]
    /\ \A f \in stream : f.bucket <= woke[f.replica] /\ Alone(f)

LEMMA FaultSpends ==
    ASSUME Typed, NEW kind \in FaultKinds, Fault(kind), NEW k \in FaultKinds
    PROVE  /\ left[k] \in Nat /\ left'[k] \in Nat /\ left'[k] <= left[k]
           /\ left'[kind] < left[kind]
<1>1. left \in [FaultKinds -> Nat]
  BY DEF Typed, TypeOK
<1>2. left[kind] \in Nat /\ left[k] \in Nat /\ left[kind] > 0
  BY <1>1 DEF Fault
<1>3. left'[kind] = left[kind] - 1
  BY <1>1 DEF Fault
<1>4. k # kind => left'[k] = left[k]
  BY <1>1 DEF Fault
<1> QED
  BY <1>2, <1>3, <1>4

LEMMA TallySpends ==
    ASSUME TallyTyped, [TallyNext]_<<vars, tallyVars>>
    PROVE  left' = left \/ \E kind \in FaultKinds : Fault(kind)
<1>1. ASSUME NEW r \in Replicas, Handle(r)
      PROVE  left' = left \/ \E kind \in FaultKinds : Fault(kind)
  BY <1>1 DEF Handle, Delivery, Handler, Fetch, Duplicate, CreateKey, KvFails, RememberKey,
              Publish, Ack, Nak, FaultKinds
<1> QED
  BY <1>1 DEF TallyNext, Tick, Stop, Drain, PublishFlush, PublishFails, Reboot, InsertTallies,
              FaultKinds, vars

\* Failures are used up, never given back.
LEMMA SpentStep ==
    ASSUME TallyTyped, Spent, [TallyNext]_<<vars, tallyVars>>
    PROVE  Spent' /\ (Quiet' => Quiet)
<1>1. ASSUME NEW k \in FaultKinds
      PROVE  /\ left[k] \in Nat /\ left'[k] \in Nat /\ left'[k] <= left[k]
             /\ left[k] <= Faults[k] /\ Faults[k] \in Nat
  <2>1. left[k] \in Nat /\ left[k] <= Faults[k] /\ Faults[k] \in Nat
    BY FaultAssumption DEF TallyTyped, Typed, TypeOK, Spent
  <2>2. left'[k] \in Nat /\ left'[k] <= left[k]
    BY <2>1, TallySpends, FaultSpends DEF TallyTyped
  <2> QED
    BY <2>1, <2>2
<1>2. Spent'
  BY <1>1 DEF Spent
<1>3. ASSUME Quiet', NEW k \in {"stop", "restart", "flush"} PROVE left[k] = Faults[k]
  <2>1. k \in FaultKinds /\ left'[k] = Faults[k]
    BY <1>3 DEF FaultKinds, Quiet, Unspent
  <2> QED
    BY <1>1, <2>1
<1> QED
  BY <1>2, <1>3 DEF Quiet, Unspent

\* Quiet rules out the steps that use up a failure of the flush loop.
LEMMA QuietHasNoFault ==
    ASSUME TallyTyped, Spent, Quiet', NEW kind \in {"stop", "restart", "flush"}, Fault(kind)
    PROVE  FALSE
<1>1. kind \in FaultKinds /\ left'[kind] = Faults[kind]
  BY DEF FaultKinds, Quiet, Unspent
<1>2. left'[kind] < left[kind] /\ left[kind] <= Faults[kind] /\ left[kind] \in Nat
      /\ Faults[kind] \in Nat
  BY <1>1, FaultSpends, FaultAssumption DEF TallyTyped, Spent
<1> QED
  BY <1>1, <1>2

\* A regular flush is the first of its minute.
LEMMA PublishIsRegular ==
    ASSUME TallyTyped, TallyTyped', Regular, NEW r \in Replicas, PublishFlush(r)
    PROVE  Regular' /\ table[<<draining[r][1], r>>] = 0
<1>1. Send(r) /\ FlushDone(r) /\ UNCHANGED <<minute, table>>
  BY DEF PublishFlush, history
<1>2. PICK f \in Flush :
         /\ f.bucket = draining[r][1] /\ f.replica = r
         /\ f \notin stream /\ stream' = stream \cup {f}
  BY <1>1, SendTyped
<1>3. draining[r] # <<>> /\ draining[r][1] \in 0..MaxMinute
  BY <1>1, WindowType DEF Send
<1>4. /\ minute \in Nat /\ \A d \in Replicas : woke[d] \in Nat /\ woke[d] <= minute
      /\ woke[r] < f.bucket /\ f.bucket <= minute /\ f.bucket \in Nat
  BY <1>2, <1>3, MinutesAssumption DEF TallyTyped, Regular
<1>5. /\ woke'[r] = minute /\ \A d \in Replicas \ {r} : woke'[d] = woke[d]
      /\ draining'[r] = <<>> /\ \A d \in Replicas \ {r} : draining'[d] = draining[d]
      /\ \A d \in Replicas : phase'[d] = "up"
  <2>1. phase[r] = "up"
    BY DEF Regular
  <2> QED
    BY <1>1, <2>1 DEF FlushDone, TallyTyped, Regular
<1>6. \A d \in Replicas : woke[d] <= woke'[d] /\ woke'[d] <= minute
  BY <1>4, <1>5
<1>7. \A d \in Replicas :
         draining'[d] # <<>> => woke'[d] < draining'[d][1] /\ draining'[d][1] <= minute
  BY <1>5 DEF Regular
<1>8. \A d \in Replicas : \A b \in 0..MaxMinute : table[<<b, d>>] # 0 => b <= woke'[d]
  <2> SUFFICES ASSUME NEW d \in Replicas, NEW b \in 0..MaxMinute, table[<<b, d>>] # 0
               PROVE  b <= woke'[d]
    OBVIOUS
  <2>1. b <= woke[d] /\ b \in Nat
    BY MinutesAssumption DEF Regular
  <2>2. woke[d] \in Nat /\ woke'[d] \in Nat
    BY <1>4, <1>5
  <2> QED
    BY <1>6, <2>1, <2>2
<1>9. \A g \in stream : g.bucket \in Nat /\ g.replica \in Replicas /\ g.bucket <= woke[g.replica]
  BY MinutesAssumption DEF Regular, TallyTyped, Flush
<1>10. \A g \in stream' : g.bucket <= woke'[g.replica]
  <2> SUFFICES ASSUME NEW g \in stream' PROVE g.bucket <= woke'[g.replica]
    OBVIOUS
  <2>1. CASE g = f
    BY <1>2, <1>4, <1>5, <2>1
  <2>2. CASE g \in stream
    <3>1. woke[g.replica] \in Nat /\ woke'[g.replica] \in Nat
      BY <1>4, <1>5, <1>9, <2>2
    <3> QED
      BY <1>6, <1>9, <2>2, <3>1
  <2> QED
    BY <1>2, <2>1, <2>2
<1>11. \A g \in stream : ~(g.bucket = f.bucket /\ g.replica = f.replica)
  BY <1>2, <1>4, <1>9
<1>12. ASSUME NEW g \in stream' PROVE Alone(g)'
  BY <1>2, <1>11 DEF Alone, Regular
<1>13. table[<<draining[r][1], r>>] = 0
  BY <1>2, <1>3, <1>4 DEF Regular
<1> QED
  BY <1>1, <1>5, <1>6, <1>7, <1>8, <1>10, <1>12, <1>13 DEF Regular

LEMMA InsertIsRegular ==
    ASSUME TallyTyped, Regular, NEW f \in stream, InsertTallies(f)
    PROVE  Regular'
<1>1. /\ stream' \subseteq stream /\ UNCHANGED <<minute, phase, woke, draining>>
      /\ table' = IF table[<<f.bucket, f.replica>>] = 0
                  THEN [table EXCEPT ![<<f.bucket, f.replica>>] = f.n] ELSE table
  BY DEF InsertTallies, history
<1>2. ASSUME NEW r \in Replicas, NEW b \in 0..MaxMinute, table'[<<b, r>>] # 0
      PROVE  b <= woke[r]
  <2>1. table \in [Cells -> Nat] /\ <<b, r>> \in Cells
    BY DEF TallyTyped, Cells
  <2>2. CASE <<b, r>> = <<f.bucket, f.replica>>
    BY <2>2 DEF Regular
  <2>3. CASE <<b, r>> # <<f.bucket, f.replica>>
    <3>1. table'[<<b, r>>] = table[<<b, r>>]
      BY <1>1, <2>1, <2>3
    <3> QED
      BY <1>2, <3>1 DEF Regular
  <2> QED
    BY <2>2, <2>3
<1> QED
  BY <1>1, <1>2 DEF Regular, Alone

\* While the flush loops run undisturbed every mention is in one place.
LEMMA QuietStep ==
    ASSUME TallyTyped, TallyTyped', Spent, Quiet', Regular,
           [TallyNext]_<<vars, tallyVars>>
    PROVE  Regular' /\ Balance' - Balance = mentioned' - mentioned
<1>1. Balance \in Nat
  BY BalanceIs DEF Balance
<1>2. mentioned \in Nat
  BY DEF TallyTyped
<1>3. ASSUME mentioned' = mentioned, Balance' = Balance
      PROVE  Balance' - Balance = mentioned' - mentioned
  <2>1. mentioned' - mentioned = 0
    BY ONLY <1>2, <1>3
  <2>2. Balance' - Balance = 0
    BY ONLY <1>1, <1>3
  <2> QED
    BY ONLY <2>1, <2>2
<1>4. ASSUME NEW r \in Replicas, Handle(r)
      PROVE  Regular' /\ Balance' - Balance = mentioned' - mentioned
  <2>1. Regular'
    BY <1>4 DEF Handle, Regular, Alone
  <2> QED
    BY <1>4, <2>1, HandleBalances
<1>5. ASSUME UNCHANGED <<table, stream, draining, mentions, mentioned>>
      PROVE  Balance' - Balance = mentioned' - mentioned
  <2>1. Balance' = Balance
    BY <1>5 DEF Balance, Pending, Waiting
  <2> QED
    BY <1>3, <1>5, <2>1
<1>6. CASE Tick
  <2>1. /\ minute \in Nat /\ minute' = minute + 1
        /\ \A r \in Replicas : woke[r] \in Nat
        /\ \A r \in Replicas : draining[r] # <<>> => draining[r][1] \in Nat
    BY <1>6, WindowType, MinutesAssumption DEF Tick, history, TallyTyped
  <2>2. Regular'
    BY <1>6, <2>1 DEF Tick, history, Regular, Alone
  <2> QED
    BY <1>5, <1>6, <2>2 DEF Tick, history, vars
<1>7. CASE UNCHANGED <<vars, tallyVars>>
  BY <1>5, <1>7 DEF vars, tallyVars, history, Regular, Alone
<1>8. ASSUME NEW r \in Replicas, Drain(r)
      PROVE  Regular' /\ Balance' - Balance = mentioned' - mentioned
  <2>1. /\ UNCHANGED <<minute, phase, woke, stream, table, mentioned>>
        /\ draining' = [draining EXCEPT ![r] = <<minute, mentions[r]>>]
        /\ phase[r] = "up" /\ minute > woke[r]
    BY <1>8 DEF Drain, history, Regular
  <2>2. /\ draining'[r] = <<minute, mentions[r]>>
        /\ \A d \in Replicas \ {r} : draining'[d] = draining[d]
        /\ minute \in Nat /\ woke[r] \in Nat
    BY <2>1, MinutesAssumption DEF TallyTyped
  <2>3. Regular'
    BY <2>1, <2>2 DEF Regular, Alone
  <2> QED
    BY <1>3, <1>8, <2>1, <2>3, DrainBalances
<1>9. ASSUME NEW r \in Replicas, PublishFlush(r)
      PROVE  Regular' /\ Balance' - Balance = mentioned' - mentioned
  <2>1. Regular' /\ table[<<draining[r][1], r>>] = 0
    BY <1>9, PublishIsRegular
  <2>2. Balance' = Balance /\ mentioned' = mentioned
    BY <1>9, <2>1, SendBalances DEF PublishFlush, history, vars
  <2> QED
    BY <1>3, <2>1, <2>2
<1>10. ASSUME NEW f \in stream, InsertTallies(f)
       PROVE  Regular' /\ Balance' - Balance = mentioned' - mentioned
  <2>1. Balance' = Balance /\ mentioned' = mentioned
    BY <1>10, InsertBalances DEF Regular, InsertTallies, history
  <2> QED
    BY <1>3, <1>10, <2>1, InsertIsRegular
<1>11. ASSUME NEW r \in Replicas, Stop(r) \/ PublishFails(r) \/ Reboot(r) PROVE FALSE
  BY <1>11, QuietHasNoFault DEF Stop, history, PublishFails, Reboot
<1> QED
  BY <1>4, <1>6, <1>7, <1>8, <1>9, <1>10, <1>11 DEF TallyNext

\* While no pod stops or dies and no flush fails no count is lost, however handlers,
\* drains, flushes, naks and redeliveries interleave (flush_tallies, insert_tallies).
THEOREM NothingLostInQuiet == TallySpec => []NoUndercount
<1> DEFINE Exact == TallyTyped /\ Spent /\ (Quiet => Regular /\ Balance = mentioned)
<1>1. TallyInit => Exact
  <2> SUFFICES ASSUME TallyInit PROVE Spent /\ Regular
    BY TallyInitTyped, BalanceInit
  <2>1. Spent
    BY FaultAssumption DEF TallyInit, Init, Spent
  <2>2. Regular
    BY DEF TallyInit, Regular
  <2> QED
    BY <2>1, <2>2
<1>2. Exact /\ [TallyNext]_<<vars, tallyVars>> => Exact'
  <2> SUFFICES ASSUME Exact, [TallyNext]_<<vars, tallyVars>> PROVE Exact'
    OBVIOUS
  <2>1. TallyTyped'
    BY TallyTypedStep
  <2>2. Spent' /\ (Quiet' => Quiet)
    BY SpentStep
  <2>3. ASSUME Quiet' PROVE Regular' /\ Balance' = mentioned'
    <3>1. Regular /\ Balance = mentioned
      BY <2>2, <2>3
    <3>2. Regular' /\ Balance' - Balance = mentioned' - mentioned
      BY <2>1, <2>3, <3>1, QuietStep
    <3>3. mentioned \in Nat /\ mentioned' \in Nat
      BY <2>1 DEF TallyTyped
    <3>4. Balance' \in Nat
      BY <2>1, BalanceIsNext
    <3>5. \A a, b, d \in Nat : b - a = d - a => b = d
      OBVIOUS
    <3> QED
      BY <3>1, <3>2, <3>3, <3>4, <3>5
  <2> QED
    BY <2>1, <2>2, <2>3
<1>3. Exact => NoUndercount
  BY BalanceIs DEF NoUndercount, Quiet
<1> QED
  BY <1>1, <1>2, <1>3, PTL DEF TallySpec
===============================================================================
