---------------------------- MODULE IngestProofs ----------------------------
(***************************************************************************)
(* What holds of the ingester loops for any number of hosts and records,   *)
(* any page size and any size of the LRU.                                  *)
(***************************************************************************)
EXTENDS Ingest, Sums

----------------------------------------------------------------------------
(* Types                                                                   *)

\* Only records the host has emitted are read, and a page is there only while the
\* loop is in it.
Typed ==
    /\ TypeOK
    /\ kind \in Streams \cup {"poll", "mastodon"}
    /\ start \in [ToSet(Hosts) -> None..MaxRecords]
    /\ \A h \in ToSet(Hosts) : cursor[h] <= emitted[h]
    /\ next <= emitted[Host] + 1
    /\ pc = "idle" => page = <<>>
    /\ pc = "page" => kind \notin Streams /\ next <= emitted[Host]
    /\ pc = "open" => kind \in Streams /\ next > 0

LEMMA HostType ==
    ASSUME TypeOK
    PROVE  /\ Host \in ToSet(Hosts)
           /\ Rounds \in 1..Len(Hosts)
           /\ Len(Hosts) \in Nat \ {0}
<1>1. Len(Hosts) \in Nat \ {0} /\ DOMAIN Hosts = 1..Len(Hosts)
  BY HostsAssumption
<1>2. turn \in 1..Len(Hosts)
  BY DEF TypeOK
<1>3. Host \in ToSet(Hosts)
  BY <1>1, <1>2 DEF Host, ToSet
<1> QED
  BY <1>1, <1>3 DEF Rounds

LEMMA SeenType ==
    ASSUME TypeOK, NEW r \in Records, Remember(r)
    PROVE  seen' \in Seq(Records) /\ Len(seen') <= SeenCap
<1>1. SeenKey(r) \in Records
  BY PostAssumption DEF SeenKey
<1>2. seen \in Seq(Records) /\ Len(seen) <= SeenCap /\ Len(seen) \in Nat
  BY DEF TypeOK
<1>3. CASE Len(seen) >= SeenCap
  <2>1. seen # <<>> /\ Tail(seen) \in Seq(Records) /\ Len(Tail(seen)) = Len(seen) - 1
    BY <1>2, <1>3, BoundAssumption
  <2>2. seen' = Append(Tail(seen), SeenKey(r))
    BY <1>3 DEF Remember
  <2> QED
    BY <1>1, <1>2, <2>1, <2>2, BoundAssumption
<1>4. CASE ~(Len(seen) >= SeenCap)
  <2>1. seen' = Append(seen, SeenKey(r))
    BY <1>4 DEF Remember
  <2> QED
    BY <1>1, <1>2, <1>4, <2>1, BoundAssumption
<1> QED
  BY <1>3, <1>4

\* The end of a turn, by whatever way.
LEMMA TurnEnds ==
    ASSUME Typed, EndTurn, UNCHANGED feed,
           cursor' \in [ToSet(Hosts) -> 0..MaxRecords],
           \A h \in ToSet(Hosts) : cursor'[h] <= emitted[h],
           UNCHANGED <<seen, start>>, missed' \subseteq Records, sent' \in [Records -> Nat]
    PROVE  Typed'
<1>1. /\ turn' \in 1..Len(Hosts) /\ pc' = "idle" /\ page' = <<>> /\ next' = 0
      /\ emitted' = emitted /\ kind' = kind
  BY HostType DEF Typed, TypeOK, EndTurn, feed
<1>2. Host' \in ToSet(Hosts)
  BY <1>1, HostsAssumption DEF Host, ToSet
<1>3. emitted[Host'] \in 0..MaxRecords
  BY <1>2 DEF Typed, TypeOK
<1>4. TypeOK'
  BY SMTT(20), <1>1, BoundAssumption DEF Typed, TypeOK
<1> QED
  BY <1>1, <1>3, <1>4 DEF Typed

\* What was never handed over are records of the host.
LEMMA OverlookType ==
    ASSUME Typed, NEW first \in 1..(MaxRecords + 1), Overlook(first)
    PROVE  /\ start' \in [ToSet(Hosts) -> None..MaxRecords]
           /\ missed \subseteq missed' /\ missed' \subseteq Records
<1> DEFINE before == IF cursor[Host] # 0 THEN cursor[Host]
                     ELSE IF start[Host] # None THEN start[Host] ELSE first - 1
<1>1. Host \in ToSet(Hosts) /\ MaxRecords \in Nat /\ first \in Int
  BY HostType, BoundAssumption DEF Typed
<1>2. start' \in [ToSet(Hosts) -> None..MaxRecords]
  BY <1>1 DEF Typed, Overlook, None
<1>3. before \in Nat
  BY <1>1 DEF Typed, TypeOK, None
<1>4. missed' = missed \cup {<<Host, r>> : r \in (before + 1)..(first - 1)}
  BY DEF Overlook
<1>5. \A r \in (before + 1)..(first - 1) : <<Host, r>> \in Records
  BY <1>1, <1>3 DEF Records
<1> QED
  BY <1>2, <1>4, <1>5 DEF Typed, TypeOK

\* A page is a sequence of records of the host.
LEMMA NewestType ==
    ASSUME TypeOK, NEW first \in Nat \ {0}, NEW last \in 0..MaxRecords, first <= last + 1
    PROVE  /\ Newest(first, last) \in Seq(Records)
           /\ Len(Newest(first, last)) = last - first + 1
           /\ \A k \in 1..(last - first + 1) : Newest(first, last)[k] = <<Host, last - k + 1>>
<1> DEFINE n == last - first + 1
<1>1. n \in Nat /\ MaxRecords \in Nat
  BY BoundAssumption
<1>2. \A k \in 1..n : <<Host, last - k + 1>> \in Records
  BY <1>1, HostType DEF Records
<1>3. Newest(first, last) = [k \in 1..n |-> <<Host, last - k + 1>>]
  BY DEF Newest
<1>4. Newest(first, last) \in [1..n -> Records]
  BY <1>2, <1>3
<1>5. Newest(first, last) \in Seq(Records) /\ Len(Newest(first, last)) = n
  <2> HIDE DEF n
  <2>1. \E m \in Nat : Newest(first, last) \in [1..m -> Records]
    BY <1>1, <1>4
  <2> QED
    BY <1>1, <1>4, <2>1
<1> QED
  BY <1>3, <1>5

\* What Fetch reads.
First == LET since == IF kind = "mastodon" THEN cursor[Host] ELSE 0
         IN  IF since < emitted[Host] - Page THEN emitted[Host] - Page + 1 ELSE since + 1

LEMMA FirstType ==
    ASSUME Typed
    PROVE  /\ First \in 1..(MaxRecords + 1) /\ First <= emitted[Host] + 1
           /\ emitted[Host] \in 0..MaxRecords
           /\ kind = "mastodon" => First > cursor[Host]
<1>1. /\ Host \in ToSet(Hosts) /\ MaxRecords \in Nat /\ Page \in Nat \ {0}
      /\ emitted[Host] \in 0..MaxRecords /\ cursor[Host] \in 0..MaxRecords
      /\ cursor[Host] <= emitted[Host]
  BY HostType, BoundAssumption DEF Typed, TypeOK
<1> QED
  BY <1>1 DEF First

LEMMA TypedInit == Init => Typed
<1> SUFFICES ASSUME Init PROVE Typed
  OBVIOUS
<1>1. 1 \in 1..Len(Hosts) /\ MaxRecords \in Nat
  BY HostsAssumption, BoundAssumption
<1>2. Hosts[1] \in ToSet(Hosts)
  BY <1>1, HostsAssumption DEF ToSet
<1> QED
  BY <1>1, <1>2, BoundAssumption DEF Init, Typed, TypeOK, Host, None, Streams

LEMMA AlwaysTyped == Spec => []Typed
<1>2. Typed /\ [Next]_vars => Typed'
  <2> SUFFICES ASSUME Typed, [Next]_vars PROVE Typed'
    OBVIOUS
  <2>0. /\ Host \in ToSet(Hosts) /\ MaxRecords \in Nat /\ SeenCap \in Nat
        /\ emitted[Host] \in 0..MaxRecords /\ cursor[Host] \in 0..MaxRecords
        /\ cursor[Host] <= emitted[Host] /\ next \in Nat /\ page \in Seq(Records)
    BY HostType, BoundAssumption DEF Typed, TypeOK
  <2>1. ASSUME NEW h \in ToSet(Hosts), Emit(h) PROVE Typed'
    <3>0. /\ emitted \in [ToSet(Hosts) -> 0..MaxRecords]
          /\ cursor \in [ToSet(Hosts) -> 0..MaxRecords]
          /\ emitted' = [emitted EXCEPT ![h] = emitted[h] + 1] /\ emitted[h] < Supply[h]
      BY <2>1 DEF Emit, Typed, TypeOK
    <3>1. emitted[h] \in Nat /\ Supply[h] \in 0..MaxRecords
      <4>1. emitted[h] \in 0..MaxRecords
        BY <3>0
      <4>2. Supply[h] \in 0..MaxRecords
        BY SupplyAssumption
      <4> QED
        BY <2>0, <4>1, <4>2
    <3>2. emitted[h] + 1 \in 0..MaxRecords
      BY <2>0, <3>0, <3>1
    <3>3. /\ emitted' \in [ToSet(Hosts) -> 0..MaxRecords]
          /\ \A g \in ToSet(Hosts) : emitted'[g] >= emitted[g]
      BY <2>0, <3>0, <3>1, <3>2
    <3>4. UNCHANGED <<kind, pc, turn, page, next, cursor, seen, start, missed, sent>> /\ Host' = Host
      BY <2>1 DEF Emit, mem, Host
    <3>5. TypeOK'
      BY <3>3, <3>4 DEF Typed, TypeOK
    <3>6. /\ \A g \in ToSet(Hosts) : cursor[g] <= emitted'[g]
          /\ next <= emitted'[Host] + 1
          /\ next <= emitted[Host] => next <= emitted'[Host]
      <4>1. \A g \in ToSet(Hosts) : /\ emitted[g] \in Nat /\ emitted'[g] \in Nat /\ cursor[g] \in Nat
                                    /\ cursor[g] <= emitted[g]
        BY <2>0, <3>0, <3>3 DEF Typed
      <4>2. next <= emitted[Host] + 1
        BY DEF Typed
      <4> QED
        BY <2>0, <3>3, <4>1, <4>2
    <3> QED
      BY <3>4, <3>5, <3>6 DEF Typed
  <2>2. CASE FetchFails
    BY <2>2, TurnEnds DEF FetchFails, Typed, TypeOK
  <2>3. CASE Fetch
    <3>1. /\ kind \notin Streams /\ UNCHANGED <<kind, emitted, turn, cursor, seen, sent>>
          /\ pc' = "page" /\ page' = Newest(First, emitted[Host]) /\ next' = emitted[Host]
          /\ \/ UNCHANGED <<start, missed>>
             \/ Overlook(First)
      BY <2>3 DEF Fetch, First, feed
    <3>2. page' \in Seq(Records)
      BY <3>1, FirstType, NewestType DEF Typed
    <3>3. start' \in [ToSet(Hosts) -> None..MaxRecords] /\ missed' \subseteq Records
      BY <3>1, FirstType, OverlookType DEF Typed, TypeOK
    <3>4. TypeOK'
      BY SMTT(20), <2>0, <3>1, <3>2, <3>3 DEF Typed, TypeOK
    <3>5. Host' = Host
      BY <3>1 DEF Host
    <3> QED
      BY <2>0, <3>1, <3>3, <3>4, <3>5 DEF Typed
  <2>4. CASE Connect
    <3>1. /\ kind \in Streams /\ UNCHANGED <<kind, emitted, turn, page, cursor, seen, sent>>
          /\ pc = "idle" /\ pc' = "open" /\ Overlook(next')
      BY <2>4 DEF Connect, feed
    <3>2. next' \in 1..(MaxRecords + 1) /\ next' <= emitted[Host] + 1
      BY <2>0, <2>4 DEF Connect
    <3>3. start' \in [ToSet(Hosts) -> None..MaxRecords] /\ missed' \subseteq Records
      BY <3>1, <3>2, OverlookType
    <3>4. TypeOK'
      BY <2>0, <3>1, <3>2, <3>3 DEF Typed, TypeOK
    <3>5. Host' = Host
      BY <3>1 DEF Host
    <3> QED
      BY <2>0, <3>1, <3>2, <3>3, <3>4, <3>5 DEF Typed
  <2>5. CASE Receive
    <3>1. /\ UNCHANGED <<kind, emitted, pc, turn, seen, start, missed, sent>> /\ pc = "open"
          /\ page' = << <<Host, next>> >> /\ cursor' = [cursor EXCEPT ![Host] = next]
          /\ next' = next + 1 /\ next <= emitted[Host] /\ next > 0 /\ kind \in Streams
      BY <2>5 DEF Receive, feed, Typed
    <3>2. next \in 1..MaxRecords /\ <<Host, next>> \in Records
      BY <2>0, <3>1 DEF Records
    <3>3. page' \in Seq(Records)
      BY <3>1, <3>2
    <3>4. /\ cursor' \in [ToSet(Hosts) -> 0..MaxRecords]
          /\ \A h \in ToSet(Hosts) : cursor'[h] <= emitted[h]
      BY <2>0, <3>1, <3>2 DEF Typed, TypeOK
    <3>5. TypeOK'
      BY <2>0, <3>1, <3>2, <3>3, <3>4 DEF Typed, TypeOK
    <3>6. Host' = Host
      BY <3>1 DEF Host
    <3> QED
      BY <2>0, <3>1, <3>2, <3>4, <3>5, <3>6 DEF Typed
  <2>6. CASE Skip \/ Publish
    <3>1. /\ UNCHANGED <<kind, emitted, pc, turn, next, cursor, start, missed>>
          /\ page # <<>> /\ page' = Tail(page) /\ Host' = Host
      BY <2>6 DEF Skip, Publish, feed, Host
    <3>2. Head(page) \in Records /\ Tail(page) \in Seq(Records)
      BY <2>0, <3>1
    <3>3. UNCHANGED seen \/ Remember(Head(page))
      BY <2>6 DEF Skip, Publish
    <3>4. seen' \in Seq(Records) /\ Len(seen') <= SeenCap
      BY <3>2, <3>3, SeenType DEF Typed, TypeOK
    <3>5. sent' \in [Records -> Nat]
      <4>1. sent \in [Records -> Nat]
        BY DEF Typed, TypeOK
      <4>2. sent' = sent \/ sent' = [sent EXCEPT ![Head(page)] = @ + 1]
        BY <2>6 DEF Skip, Publish
      <4> QED
        BY <3>2, <4>1, <4>2
    <3>6. TypeOK'
      BY <3>1, <3>2, <3>4, <3>5 DEF Typed, TypeOK
    <3> QED
      BY <3>1, <3>6 DEF Typed
  <2>7. CASE EndPage
    <3>1. cursor' = [cursor EXCEPT ![Host] = IF kind = "mastodon" THEN next ELSE @]
          /\ next <= emitted[Host]
      BY <2>7 DEF EndPage, Typed
    <3>2. /\ cursor' \in [ToSet(Hosts) -> 0..MaxRecords]
          /\ \A h \in ToSet(Hosts) : cursor'[h] <= emitted[h]
      BY SMTT(20), <2>0, <3>1 DEF Typed, TypeOK
    <3> QED
      BY <2>7, <3>2, TurnEnds DEF EndPage, Typed, TypeOK
  <2>8. CASE Raise \/ PublishFails \/ Drop
    <3>1. Abort /\ sent' \in [Records -> Nat]
      <4>1. sent \in [Records -> Nat]
        BY DEF Typed, TypeOK
      <4>2. /\ Abort
            /\ \/ sent' = sent
               \/ page # <<>> /\ sent' = [sent EXCEPT ![Head(page)] = @ + 1]
        BY <2>8 DEF Raise, PublishFails, Drop
      <4>3. page # <<>> => Head(page) \in Records
        BY <2>0
      <4> QED
        BY <4>1, <4>2, <4>3
    <3>2. missed' \subseteq Records
      BY SMTT(20), <2>0, <3>1 DEF Abort, Typed, TypeOK
    <3> QED
      BY <3>1, <3>2, TurnEnds DEF Abort, Typed, TypeOK
  <2>9. CASE Restart
    <3>1. 1 \in 1..Len(Hosts) /\ Hosts[1] \in ToSet(Hosts)
      BY HostsAssumption DEF ToSet
    <3>2. emitted[Hosts[1]] \in Nat /\ \A h \in ToSet(Hosts) : emitted[h] \in Nat
      BY <2>0, <3>1 DEF Typed, TypeOK
    <3>3. TypeOK'
      <4>1. /\ emitted' = emitted /\ pc' = "idle" /\ turn' = 1 /\ page' = <<>> /\ next' = 0
            /\ cursor' = [h \in ToSet(Hosts) |-> 0] /\ seen' = <<>>
            /\ missed' = missed /\ sent' = sent
        BY <2>9 DEF Restart, feed
      <4> QED
        BY SMTT(20), <2>0, <3>1, <4>1 DEF Typed, TypeOK
    <3> QED
      BY SMTT(20), <2>0, <2>9, <3>1, <3>2, <3>3 DEF Restart, feed, Host, Typed, None
  <2>10. CASE UNCHANGED vars
    BY <2>10 DEF vars, feed, mem, Host, Typed, TypeOK
  <2> QED
    BY <2>1, <2>2, <2>3, <2>4, <2>5, <2>6, <2>7, <2>8, <2>9, <2>10 DEF Next, Loop
<1> QED
  BY TypedInit, <1>2, PTL DEF Spec

\* The variables of Ingest keep their types, and no LRU outgrows SEEN_CAP.
THEOREM TypeCorrect == Spec => []TypeOK
<1>1. Typed => TypeOK
  BY DEF Typed
<1> QED
  BY <1>1, AlwaysTyped, PTL

----------------------------------------------------------------------------
(* The cursor                                                              *)

\* Records of a host that no longer need to be handled: not of use, out of reach, or
\* a post that is published.
Settled == [h \in ToSet(Hosts) |->
    {n \in 1..MaxRecords :
        Worth[<<h, n>>] = "item" /\ <<h, n>> \notin missed /\ start[h] < n => Arrived(<<h, n>>)}]

\* poll_once takes what it cannot use into the LRU, the other loops only what is out.
SeenArrived ==
    kind # "poll" => \A k \in DOMAIN seen : \E q \in Records : Post[q] = seen[k] /\ sent[q] > 0

\* Every record up to the end of the page is on it or settled.
PageCovered ==
    kind = "mastodon" =>
        /\ \A h \in ToSet(Hosts) : \A n \in 1..cursor[h] : n \in Settled[h]
        /\ pc = "page" => \A n \in 1..next :
              n \in Settled[Host] \/ \E k \in DOMAIN page : page[k] = <<Host, n>>

\* The event in hand is the one the cursor is at, all before it are settled; a cursor
\* that is not repeated is settled once the event is out of hand.
StreamCovered ==
    kind \in Streams =>
        /\ \A h \in ToSet(Hosts), n \in 1..MaxRecords : n < cursor[h] => n \in Settled[h]
        /\ kind = "wikipedia" => \A h \in ToSet(Hosts) : cursor[h] > 0 =>
              cursor[h] \in Settled[h] \/ (page # <<>> /\ Head(page) = <<h, cursor[h]>>)
        /\ page # <<>> => page = << <<Host, next - 1>> >> /\ cursor[Host] = next - 1
        /\ pc = "open" => \A n \in 1..MaxRecords :
              n < next => n \in Settled[Host] \/ (page # <<>> /\ n = next - 1)

Covered ==
    /\ kind = "poll" => \A h \in ToSet(Hosts) : cursor[h] = 0
    /\ SeenArrived /\ PageCovered /\ StreamCovered

\* What is settled stays so until a restart.
LEMMA SettledStays ==
    ASSUME Typed, Typed', missed \subseteq missed',
           \A h \in ToSet(Hosts) : start'[h] >= start[h],
           \A q \in Records : sent'[q] >= sent[q]
    PROVE  /\ \A h \in ToSet(Hosts) : Settled[h] \subseteq Settled'[h]
           /\ UNCHANGED <<kind, seen>> /\ SeenArrived => SeenArrived'
<1>1. /\ MaxRecords \in Nat
      /\ \A q \in Records : sent[q] \in Nat /\ sent'[q] \in Nat
      /\ \A h \in ToSet(Hosts) : start[h] \in Int /\ start'[h] \in Int
  <2>1. MaxRecords \in Nat /\ None \in Int
    BY BoundAssumption DEF None
  <2>2. sent \in [Records -> Nat] /\ sent' \in [Records -> Nat]
    BY DEF Typed, TypeOK
  <2>3. /\ start \in [ToSet(Hosts) -> None..MaxRecords]
        /\ start' \in [ToSet(Hosts) -> None..MaxRecords]
    BY DEF Typed
  <2>4. None..MaxRecords \subseteq Int
    BY <2>1
  <2> QED
    BY <2>1, <2>2, <2>3, <2>4
<1>2. \A q \in Records : sent[q] > 0 => sent'[q] > 0
  BY <1>1
<1>3. ASSUME NEW h \in ToSet(Hosts), NEW n \in Settled[h] PROVE n \in Settled'[h]
  <2>1. /\ n \in 1..MaxRecords
        /\ Worth[<<h, n>>] = "item" /\ <<h, n>> \notin missed /\ start[h] < n => Arrived(<<h, n>>)
    BY <1>3 DEF Settled
  <2>2. Worth[<<h, n>>] = "item" /\ <<h, n>> \notin missed' /\ start'[h] < n
            => \E q \in Records : Post[q] = Post[<<h, n>>] /\ sent'[q] > 0
    BY <1>1, <1>2, <2>1 DEF Arrived
  <2> QED
    BY <2>1, <2>2 DEF Settled, Arrived
<1> QED
  BY <1>2, <1>3 DEF SeenArrived

\* The body of the loop settles the record in hand.
LEMMA HeadSettles ==
    ASSUME Typed, SeenArrived, kind # "poll", Skip \/ Publish,
           NEW h \in ToSet(Hosts), NEW n \in 1..MaxRecords, Head(page) = <<h, n>>
    PROVE  n \in Settled'[h] /\ SeenArrived'
<1> DEFINE r == <<h, n>>
<1>1. /\ r \in Records /\ sent \in [Records -> Nat] /\ seen \in Seq(Records)
      /\ SeenKey(r) = Post[r] /\ UNCHANGED kind
  BY DEF Records, Typed, TypeOK, SeenKey, Skip, Publish, feed
<1>2. CASE Skip
  <2>1. sent' = sent /\ seen' = seen
    BY <1>2 DEF Skip
  <2>2. Worth[r] = "unusable" \/ Known(r)
    BY <1>2 DEF Skip
  <2>3. Known(r) => \E q \in Records : Post[q] = Post[r] /\ sent[q] > 0
    BY <1>1 DEF Known, SeenArrived
  <2>4. n \in Settled'[h]
    BY <2>1, <2>2, <2>3 DEF Settled, Arrived
  <2> QED
    BY <1>1, <2>1, <2>4 DEF SeenArrived
<1>3. CASE Publish
  <2>1. sent' = [sent EXCEPT ![r] = @ + 1] /\ Remember(r)
    BY <1>3 DEF Publish
  <2>2. sent'[r] > 0 /\ \A q \in Records : sent[q] > 0 => sent'[q] > 0
    <3> HIDE DEF r
    <3>1. sent'[r] = sent[r] + 1 /\ sent[r] \in Nat
      BY <1>1, <2>1
    <3>2. \A q \in Records : q # r => sent'[q] = sent[q]
      BY <1>1, <2>1
    <3> QED
      BY <3>1, <3>2
  <2>3. n \in Settled'[h]
    BY <1>1, <2>2 DEF Settled, Arrived
  <2>4. ASSUME NEW k \in DOMAIN seen'
        PROVE  seen'[k] = Post[r] \/ \E m \in DOMAIN seen : seen'[k] = seen[m]
    <3>1. Len(seen) \in Nat /\ Post[r] \in Records
      BY <1>1, PostAssumption
    <3>2. CASE Len(seen) >= SeenCap
      <4> DEFINE t == Tail(seen)
      <4>1. /\ t \in Seq(Records) /\ Len(t) = Len(seen) - 1
            /\ \A m \in 1..Len(t) : t[m] = seen[m + 1] /\ m + 1 \in DOMAIN seen
        BY <1>1, <3>1, <3>2, BoundAssumption
      <4>2. seen' = Append(t, Post[r])
        BY <1>1, <2>1, <3>2 DEF Remember
      <4> HIDE DEF t
      <4>3. k \in 1..(Len(t) + 1) /\ (k = Len(t) + 1 => seen'[k] = Post[r])
            /\ (k <= Len(t) => seen'[k] = t[k])
        BY <2>4, <3>1, <4>1, <4>2
      <4>4. CASE k <= Len(t)
        <5>1. k \in 1..Len(t) /\ seen'[k] = t[k]
          BY <3>1, <4>1, <4>3, <4>4
        <5> QED
          BY <4>1, <5>1
      <4>5. k <= Len(t) \/ k = Len(t) + 1
        BY <3>1, <4>1, <4>3
      <4> QED
        BY <4>3, <4>4, <4>5
    <3>3. CASE ~(Len(seen) >= SeenCap)
      <4>1. seen' = Append(seen, Post[r])
        BY <1>1, <2>1, <3>3 DEF Remember
      <4>2. k \in 1..(Len(seen) + 1) /\ (k = Len(seen) + 1 => seen'[k] = Post[r])
            /\ (k <= Len(seen) => seen'[k] = seen[k])
        BY <1>1, <2>4, <3>1, <4>1
      <4> QED
        BY <1>1, <3>1, <4>2
    <3> QED
      BY <3>2, <3>3
  <2>5. SeenArrived'
    <3> SUFFICES ASSUME NEW k \in DOMAIN seen'
                 PROVE  \E q \in Records : Post[q] = seen'[k] /\ sent'[q] > 0
      BY DEF SeenArrived
    <3>1. CASE seen'[k] = Post[r]
      BY <1>1, <2>2, <3>1
    <3>2. CASE \E m \in DOMAIN seen : seen'[k] = seen[m]
      <4>1. \E q \in Records : Post[q] = seen'[k] /\ sent[q] > 0
        BY <3>2 DEF SeenArrived
      <4> QED
        BY <2>2, <4>1
    <3> QED
      BY <2>4, <3>1, <3>2
  <2> QED
    BY <2>3, <2>5
<1> QED
  BY <1>2, <1>3

\* What a first look or a jump leaves behind is out of reach.
LEMMA OverlookSettles ==
    ASSUME Typed, NEW first \in 1..(MaxRecords + 1), Overlook(first)
    PROVE  /\ missed \subseteq missed'
           /\ \A h \in ToSet(Hosts) : start'[h] >= start[h]
           /\ \A n \in 1..MaxRecords :
                 n < first /\ (cursor[Host] = 0 \/ n > cursor[Host]) => n \in Settled'[Host]
<1> DEFINE before == IF cursor[Host] # 0 THEN cursor[Host]
                     ELSE IF start[Host] # None THEN start[Host] ELSE first - 1
<1>1. Host \in ToSet(Hosts) /\ MaxRecords \in Nat /\ None = -1 /\ first \in Nat \ {0}
  BY HostType, BoundAssumption DEF Typed, None
<1>2. start \in [ToSet(Hosts) -> None..MaxRecords] /\ cursor[Host] \in Nat
  BY <1>1 DEF Typed, TypeOK
<1>3. start' = [start EXCEPT ![Host] = IF @ = None THEN first - 1 ELSE @]
  BY DEF Overlook
<1>4. \A h \in ToSet(Hosts) : start[h] \in Int /\ start[h] >= -1
  BY <1>1, <1>2
<1>5. start'[Host] = IF start[Host] = None THEN first - 1 ELSE start[Host]
  BY <1>1, <1>2, <1>3
<1>6. \A h \in ToSet(Hosts) : start'[h] >= start[h]
  <2> SUFFICES ASSUME NEW h \in ToSet(Hosts) PROVE start'[h] >= start[h]
    OBVIOUS
  <2>1. CASE h = Host
    BY <1>1, <1>4, <1>5, <2>1
  <2>2. CASE h # Host
    BY <1>2, <1>3, <1>4, <2>2
  <2> QED
    BY <2>1, <2>2
<1>7. missed' = missed \cup {<<Host, r>> : r \in (before + 1)..(first - 1)}
  BY DEF Overlook
<1>8. ASSUME NEW n \in 1..MaxRecords, n < first, cursor[Host] = 0 \/ n > cursor[Host]
      PROVE  n \in Settled'[Host]
  <2>1. CASE n > before
    <3>1. before \in Int /\ n \in (before + 1)..(first - 1)
      BY <1>1, <1>2, <1>4, <1>8, <2>1
    <3>2. <<Host, n>> \in missed'
      BY <1>7, <3>1
    <3>3. \A h \in ToSet(Hosts), m \in 1..MaxRecords : <<h, m>> \in missed' => m \in Settled'[h]
      BY DEF Settled
    <3> QED
      BY <1>1, <3>2, <3>3
  <2>2. CASE ~(n > before)
    <3>1. ~(start'[Host] < n)
      BY <1>1, <1>2, <1>4, <1>5, <1>8, <2>2
    <3>2. \A h \in ToSet(Hosts), m \in 1..MaxRecords : ~(start'[h] < m) => m \in Settled'[h]
      BY DEF Settled
    <3> QED
      BY <1>1, <3>1, <3>2
  <2> QED
    BY <2>1, <2>2
<1> QED
  BY <1>6, <1>7, <1>8

\* An exception: the cursor stays before the record in hand, or the record is given up.
LEMMA AbortCovers ==
    ASSUME Typed, Typed', Covered, Abort, \A q \in Records : sent'[q] >= sent[q]
    PROVE  Covered'
<1>1. /\ UNCHANGED <<kind, cursor, seen, start>> /\ missed \subseteq missed'
      /\ pc' = "idle" /\ page' = <<>>
      /\ kind = "wikipedia" /\ page # <<>> => Head(page) \in missed'
  BY DEF Abort, EndTurn, feed
<1>2. /\ \A h \in ToSet(Hosts) : Settled[h] \subseteq Settled'[h]
      /\ SeenArrived'
  <2>1. \A h \in ToSet(Hosts) : start'[h] >= start[h]
    <3>1. start' = start /\ \A h \in ToSet(Hosts) : start[h] \in None..MaxRecords
      BY <1>1 DEF Typed
    <3> QED
      BY <3>1, BoundAssumption DEF None
  <2> QED
    BY <1>1, <2>1, SettledStays DEF Covered
<1>3. \A h \in ToSet(Hosts) : cursor[h] \in 0..MaxRecords
  BY DEF Typed, TypeOK
<1>4. ASSUME kind = "wikipedia", NEW h \in ToSet(Hosts), cursor[h] > 0
      PROVE  cursor[h] \in Settled'[h]
  <2>1. CASE cursor[h] \in Settled[h]
    BY <1>2, <2>1
  <2>2. CASE page # <<>> /\ Head(page) = <<h, cursor[h]>>
    <3>1. <<h, cursor[h]>> \in missed' /\ cursor[h] \in 1..MaxRecords
      BY <1>1, <1>3, <1>4, <2>2, BoundAssumption
    <3>2. \A m \in 1..MaxRecords : <<h, m>> \in missed' => m \in Settled'[h]
      BY DEF Settled
    <3> QED
      BY <3>1, <3>2
  <2> QED
    BY <1>4, <2>1, <2>2 DEF Covered, StreamCovered, Streams
<1>5. PageCovered'
  BY <1>1, <1>2 DEF Covered, PageCovered
<1>6. StreamCovered'
  BY <1>1, <1>2, <1>4 DEF Covered, StreamCovered
<1> QED
  BY <1>1, <1>2, <1>5, <1>6 DEF Covered

\* A page begins right after what is settled, or after what is out of reach.
LEMMA FetchCovers ==
    ASSUME Typed, Typed', Covered, Fetch
    PROVE  Covered'
<1>1. /\ kind \notin Streams /\ UNCHANGED <<kind, emitted, turn, cursor, seen, sent>>
      /\ page' = Newest(First, emitted[Host]) /\ next' = emitted[Host]
      /\ kind = "mastodon" => Overlook(First)
  BY DEF Fetch, First, feed, Streams
<1>2. CASE kind # "mastodon"
  <2>1. kind = "poll"
    BY <1>1, <1>2 DEF Typed
  <2> QED
    BY <1>1, <2>1 DEF Covered, SeenArrived, PageCovered, StreamCovered, Streams
<1>3. CASE kind = "mastodon"
  <2>1. /\ First \in 1..(MaxRecords + 1) /\ First <= emitted[Host] + 1
        /\ emitted[Host] \in 0..MaxRecords
    BY FirstType
  <2>2. /\ missed \subseteq missed'
        /\ \A h \in ToSet(Hosts) : start'[h] >= start[h]
        /\ \A n \in 1..MaxRecords :
              n < First /\ (cursor[Host] = 0 \/ n > cursor[Host]) => n \in Settled'[Host]
    BY <1>1, <1>3, <2>1, OverlookSettles
  <2>3. \A q \in Records : sent'[q] >= sent[q]
    <3>1. sent' = sent /\ \A q \in Records : sent[q] \in Nat
      BY <1>1 DEF Typed, TypeOK
    <3> QED
      BY <3>1
  <2>4. SeenArrived' /\ \A h \in ToSet(Hosts) : Settled[h] \subseteq Settled'[h]
    BY <1>1, <2>2, <2>3, SettledStays DEF Covered
  <2>5. Host \in ToSet(Hosts) /\ Host' = Host /\ MaxRecords \in Nat /\ cursor[Host] \in Nat
    BY <1>1, HostType, BoundAssumption DEF Host, Typed, TypeOK
  <2>6. ASSUME NEW n \in 1..next', n \notin Settled'[Host]
        PROVE  \E k \in DOMAIN page' : page'[k] = <<Host, n>>
    <3>1. n \in 1..MaxRecords
      BY <1>1, <2>1, <2>5, <2>6
    <3>2. n > cursor[Host] \/ cursor[Host] = 0
      <4>1. n \in 1..cursor[Host] => n \in Settled[Host]
        BY <1>3, <2>5 DEF Covered, PageCovered
      <4> QED
        BY <2>4, <2>5, <2>6, <3>1, <4>1
    <3>3. ~(n < First)
      BY <2>2, <2>6, <3>1, <3>2
    <3> DEFINE last == emitted[Host]
    <3>4. /\ Len(Newest(First, last)) = last - First + 1
          /\ \A k \in 1..(last - First + 1) : Newest(First, last)[k] = <<Host, last - k + 1>>
          /\ Newest(First, last) \in Seq(Records)
      <4>1. First \in Nat \ {0} /\ last \in 0..MaxRecords /\ First <= last + 1 /\ TypeOK
        BY <2>1, <2>5 DEF Typed
      <4> HIDE DEF last
      <4> QED
        BY <4>1, NewestType
    <3> DEFINE k == last - n + 1
    <3>5. k \in 1..(last - First + 1) /\ last - k + 1 = n
      BY <1>1, <2>1, <2>5, <3>1, <3>3
    <3> HIDE DEF k, last
    <3>6. k \in DOMAIN Newest(First, last) /\ Newest(First, last)[k] = <<Host, n>>
      BY <3>4, <3>5
    <3> QED
      BY <1>1, <3>6 DEF last
  <2>7. PageCovered'
    BY <1>1, <1>3, <2>4, <2>5, <2>6 DEF Covered, PageCovered
  <2> QED
    BY <1>1, <1>3, <2>4, <2>7 DEF Covered, StreamCovered
<1> QED
  BY <1>2, <1>3

\* A stream resumes where all before is settled, or after what is out of reach.
LEMMA ConnectCovers ==
    ASSUME Typed, Typed', Covered, Connect
    PROVE  Covered'
<1>1. /\ kind \in Streams /\ pc = "idle" /\ page = <<>> /\ Overlook(next')
      /\ UNCHANGED <<kind, emitted, turn, page, cursor, seen, sent>>
      /\ next' = IF cursor[Host] = 0 THEN emitted[Host] + 1
                 ELSE IF kind = "bluesky" THEN cursor[Host] ELSE cursor[Host] + 1
  BY DEF Connect, feed, Typed
<1>2. /\ Host \in ToSet(Hosts) /\ Host' = Host /\ MaxRecords \in Nat
      /\ cursor[Host] \in 0..MaxRecords /\ emitted[Host] \in 0..MaxRecords
  BY <1>1, HostType, BoundAssumption DEF Host, Typed, TypeOK
<1>3. next' \in 1..(MaxRecords + 1)
  BY <1>1, <1>2
<1>4. /\ missed \subseteq missed' /\ \A h \in ToSet(Hosts) : start'[h] >= start[h]
      /\ \A n \in 1..MaxRecords :
            n < next' /\ (cursor[Host] = 0 \/ n > cursor[Host]) => n \in Settled'[Host]
  BY <1>1, <1>3, OverlookSettles
<1>5. \A q \in Records : sent'[q] >= sent[q]
  <2>1. sent' = sent /\ \A q \in Records : sent[q] \in Nat
    BY <1>1 DEF Typed, TypeOK
  <2> QED
    BY <2>1
<1>6. SeenArrived' /\ \A h \in ToSet(Hosts) : Settled[h] \subseteq Settled'[h]
  BY <1>1, <1>4, <1>5, SettledStays DEF Covered
<1>7. ASSUME NEW n \in 1..MaxRecords, n < next' PROVE n \in Settled'[Host]
  <2>1. CASE cursor[Host] = 0 \/ n > cursor[Host]
    BY <1>4, <1>7, <2>1
  <2>2. CASE n = cursor[Host] /\ cursor[Host] # 0
    <3>1. kind = "wikipedia" /\ cursor[Host] > 0
      BY <1>1, <1>2, <1>7, <2>2 DEF Streams
    <3>2. cursor[Host] \in Settled[Host]
      BY <1>1, <1>2, <3>1 DEF Covered, StreamCovered
    <3> QED
      BY <1>2, <1>6, <2>2, <3>2
  <2>3. CASE n < cursor[Host]
    <3>1. n \in Settled[Host]
      BY <1>1, <1>2, <2>3 DEF Covered, StreamCovered
    <3> QED
      BY <1>2, <1>6, <3>1
  <2> QED
    BY <1>2, <2>1, <2>2, <2>3
<1>8. StreamCovered'
  BY <1>1, <1>2, <1>6, <1>7 DEF Covered, StreamCovered
<1> QED
  BY <1>1, <1>6, <1>8 DEF Covered, PageCovered, Streams

\* The cursor goes to the event in hand.
LEMMA ReceiveCovers ==
    ASSUME Typed, Typed', Covered, Receive
    PROVE  Covered'
<1>1. /\ kind \in Streams /\ pc = "open" /\ page = <<>> /\ pc' = pc
      /\ UNCHANGED <<kind, emitted, turn, seen, start, missed, sent>>
      /\ page' = << <<Host, next>> >> /\ cursor' = [cursor EXCEPT ![Host] = next]
      /\ next' = next + 1
  BY DEF Receive, feed, Typed
<1>2. /\ Host \in ToSet(Hosts) /\ Host' = Host /\ next \in Nat /\ next' - 1 = next
      /\ cursor \in [ToSet(Hosts) -> 0..MaxRecords]
  BY <1>1, HostType, BoundAssumption DEF Host, Typed, TypeOK
<1>3. Settled' = Settled
  BY <1>1 DEF Settled, Arrived
<1>4. /\ cursor'[Host] = next /\ \A h \in ToSet(Hosts) \ {Host} : cursor'[h] = cursor[h]
  BY <1>1, <1>2
<1>5. \A n \in 1..MaxRecords : n < next => n \in Settled[Host]
  BY <1>1 DEF Covered, StreamCovered
<1>6. \A h \in ToSet(Hosts), n \in 1..MaxRecords : n < cursor'[h] => n \in Settled[h]
  BY <1>1, <1>4, <1>5 DEF Covered, StreamCovered
<1>7. kind = "wikipedia" => \A h \in ToSet(Hosts) : cursor'[h] > 0 =>
         cursor'[h] \in Settled[h] \/ Head(page') = <<h, cursor'[h]>>
  <2> SUFFICES ASSUME kind = "wikipedia", NEW h \in ToSet(Hosts), cursor'[h] > 0
               PROVE  cursor'[h] \in Settled[h] \/ Head(page') = <<h, cursor'[h]>>
    OBVIOUS
  <2>1. CASE h = Host
    BY <1>1, <1>4, <2>1
  <2>2. CASE h # Host
    BY <1>1, <1>4, <2>2 DEF Covered, StreamCovered
  <2> QED
    BY <2>1, <2>2
<1>8. page' # <<>>
  BY <1>1
<1>9. \A n \in 1..MaxRecords : n < next + 1 => n \in Settled[Host] \/ n = next
  BY <1>2, <1>5
<1>10. StreamCovered'
  BY <1>1, <1>2, <1>3, <1>4, <1>6, <1>7, <1>8, <1>9 DEF StreamCovered
<1> QED
  BY <1>1, <1>10 DEF Covered, SeenArrived, PageCovered, Streams

\* The body of the loop takes the record in hand off the page and settles it.
LEMMA BodyCovers ==
    ASSUME Typed, Typed', Covered, Skip \/ Publish
    PROVE  Covered'
<1>1. /\ UNCHANGED <<kind, emitted, pc, turn, next, cursor, start, missed>>
      /\ page # <<>> /\ page' = Tail(page)
  BY DEF Skip, Publish, feed
<1>2. CASE kind = "poll"
  BY <1>1, <1>2 DEF Covered, SeenArrived, PageCovered, StreamCovered, Streams
<1>3. CASE kind # "poll"
  <2>1. /\ Host \in ToSet(Hosts) /\ Host' = Host /\ page \in Seq(Records)
        /\ cursor \in [ToSet(Hosts) -> 0..MaxRecords] /\ next \in Nat /\ MaxRecords \in Nat
    BY <1>1, HostType, BoundAssumption DEF Host, Typed, TypeOK
  <2>2. Head(page) \in Records
    BY <1>1, <2>1
  <2>3. PICK h \in ToSet(Hosts), m \in 1..MaxRecords : Head(page) = <<h, m>>
    BY <2>2 DEF Records
  <2>4. SeenArrived' /\ m \in Settled'[h]
    BY <1>3, <2>3, HeadSettles DEF Covered
  <2>5. \A q \in Records : sent'[q] >= sent[q]
    <3>1. sent \in [Records -> Nat]
      BY DEF Typed, TypeOK
    <3>2. sent' = sent \/ sent' = [sent EXCEPT ![Head(page)] = @ + 1]
      BY DEF Skip, Publish
    <3> QED
      BY <2>2, <3>1, <3>2
  <2>6. \A g \in ToSet(Hosts) : Settled[g] \subseteq Settled'[g]
    <3>1. start' = start /\ missed' = missed /\ \A g \in ToSet(Hosts) : start[g] \in None..MaxRecords
      BY <1>1 DEF Typed
    <3>2. \A g \in ToSet(Hosts) : start'[g] >= start[g]
      BY <2>1, <3>1 DEF None
    <3> QED
      BY <2>5, <3>1, <3>2, SettledStays
  <2>7. CASE kind = "mastodon"
    <3>1. ASSUME pc = "page", NEW n \in 1..next, n \notin Settled'[Host]
          PROVE  \E k \in DOMAIN page' : page'[k] = <<Host, n>>
      <4>1. PICK k \in DOMAIN page : page[k] = <<Host, n>>
        BY <2>1, <2>6, <2>7, <3>1 DEF Covered, PageCovered
      <4>2. k # 1
        <5>1. k = 1 => Head(page) = <<Host, n>>
          BY <1>1, <2>1, <4>1
        <5> QED
          BY <2>3, <2>4, <3>1, <5>1
      <4>3. k \in 2..Len(page)
        BY <2>1, <4>1, <4>2
      <4>4. k - 1 \in DOMAIN Tail(page) /\ Tail(page)[k - 1] = page[k]
        BY <1>1, <2>1, <4>3
      <4> QED
        BY <1>1, <4>1, <4>4
    <3>2. \A g \in ToSet(Hosts) : \A n \in 1..cursor[g] : n \in Settled'[g]
      BY <2>6, <2>7 DEF Covered, PageCovered
    <3>3. PageCovered'
      BY <1>1, <2>1, <3>1, <3>2 DEF PageCovered
    <3> QED
      BY <1>1, <2>4, <2>7, <3>3 DEF Covered, StreamCovered, Streams
  <2>8. CASE kind \in Streams
    <3>1. page = << <<Host, next - 1>> >> /\ cursor[Host] = next - 1
      BY <1>1, <2>8 DEF Covered, StreamCovered
    <3>2. page' = <<>> /\ h = Host /\ m = next - 1
      BY <1>1, <2>3, <3>1
    <3>3. \A g \in ToSet(Hosts), n \in 1..MaxRecords : n < cursor[g] => n \in Settled'[g]
      BY <2>6, <2>8 DEF Covered, StreamCovered
    <3>4. ASSUME kind = "wikipedia", NEW g \in ToSet(Hosts), cursor[g] > 0
          PROVE  cursor[g] \in Settled'[g]
      <4>1. cursor[g] \in Settled[g] \/ Head(page) = <<g, cursor[g]>>
        BY <2>8, <3>4 DEF Covered, StreamCovered
      <4> QED
        BY <2>3, <2>4, <2>6, <4>1
    <3>5. pc = "open" => \A n \in 1..MaxRecords : n < next => n \in Settled'[Host]
      <4>1. pc = "open" => \A n \in 1..MaxRecords :
               n < next => n \in Settled[Host] \/ n = next - 1
        BY <2>8 DEF Covered, StreamCovered
      <4> QED
        BY <2>1, <2>4, <2>6, <3>2, <4>1
    <3>6. StreamCovered'
      BY <1>1, <2>1, <3>2, <3>3, <3>4, <3>5 DEF StreamCovered
    <3> QED
      BY <1>1, <2>4, <2>8, <3>6 DEF Covered, PageCovered, Streams
  <2> QED
    BY <1>3, <2>7, <2>8 DEF Typed, Streams
<1> QED
  BY <1>2, <1>3

\* The page is through and since_id moves past it.
LEMMA EndPageCovers ==
    ASSUME Typed, Typed', Covered, EndPage
    PROVE  Covered'
<1>1. /\ kind \notin Streams /\ pc = "page" /\ page = <<>> /\ pc' = "idle" /\ page' = <<>>
      /\ UNCHANGED <<kind, seen, start, missed, sent>>
      /\ cursor' = [cursor EXCEPT ![Host] = IF kind = "mastodon" THEN next ELSE @]
  BY DEF EndPage, EndTurn, feed, Typed
<1>2. Host \in ToSet(Hosts) /\ cursor \in [ToSet(Hosts) -> 0..MaxRecords]
  BY HostType DEF Typed, TypeOK
<1>3. Settled' = Settled
  BY <1>1 DEF Settled, Arrived
<1>4. CASE kind = "mastodon"
  <2>1. \A n \in 1..next : n \in Settled[Host]
    BY <1>1, <1>4 DEF Covered, PageCovered
  <2>2. ASSUME NEW h \in ToSet(Hosts), NEW n \in 1..cursor'[h] PROVE n \in Settled[h]
    <3>1. CASE h = Host
      BY <1>1, <1>2, <1>4, <2>1, <2>2, <3>1
    <3>2. CASE h # Host
      <4>1. cursor'[h] = cursor[h]
        BY <1>1, <1>2, <3>2
      <4> QED
        BY <1>4, <2>2, <4>1 DEF Covered, PageCovered
    <3> QED
      BY <3>1, <3>2
  <2>3. PageCovered'
    BY <1>1, <1>3, <2>2 DEF PageCovered
  <2> QED
    BY <1>1, <1>4, <2>3 DEF Covered, SeenArrived, StreamCovered
<1>5. CASE kind # "mastodon"
  <2>1. kind = "poll" /\ cursor' = cursor
    BY <1>1, <1>2, <1>5 DEF Typed
  <2> QED
    BY <1>1, <2>1 DEF Covered, SeenArrived, PageCovered, StreamCovered, Streams
<1> QED
  BY <1>4, <1>5

\* Through replays, broken pages and streams, jumps and restarts, no ingester's cursor
\* passes a record it neither published nor gave up: mastodon's since_id moves after the
\* page, bluesky repeats the event at its cursor (services/ingest).
THEOREM CursorLeavesNoGap == Spec => []NoGap
<1>1. Init => Covered
  BY DEF Init, Covered, SeenArrived, PageCovered, StreamCovered
<1>2. Typed /\ Typed' /\ Covered /\ [Next]_vars => Covered'
  <2> SUFFICES ASSUME Typed, Typed', Covered, [Next]_vars PROVE Covered'
    OBVIOUS
  <2>1. ASSUME UNCHANGED <<kind, pc, turn, page, next, cursor, seen, start, missed, sent>>
        PROVE  Covered'
    <3>1. Settled' = Settled /\ Host' = Host
      BY <2>1 DEF Settled, Arrived, Host
    <3> QED
      BY <2>1, <3>1 DEF Covered, SeenArrived, PageCovered, StreamCovered
  <2>2. ASSUME NEW h \in ToSet(Hosts), Emit(h) PROVE Covered'
    BY <2>1, <2>2 DEF Emit, mem
  <2>3. CASE FetchFails
    <3>1. /\ UNCHANGED <<kind, cursor, seen, start, missed, sent>>
          /\ pc' = "idle" /\ page' = <<>> /\ kind \notin Streams
      BY <2>3 DEF FetchFails, EndTurn, feed
    <3>2. Settled' = Settled
      BY <3>1 DEF Settled, Arrived
    <3> QED
      BY <3>1, <3>2 DEF Covered, SeenArrived, PageCovered, StreamCovered
  <2>4. CASE Raise \/ PublishFails \/ Drop
    <3>1. sent \in [Records -> Nat] /\ page \in Seq(Records)
      BY DEF Typed, TypeOK
    <3>2. /\ Abort
          /\ \/ sent' = sent
             \/ page # <<>> /\ sent' = [sent EXCEPT ![Head(page)] = @ + 1]
      BY <2>4 DEF Raise, PublishFails, Drop
    <3>3. page # <<>> => Head(page) \in Records
      BY <3>1
    <3>4. \A q \in Records : sent'[q] >= sent[q]
      BY <3>1, <3>2, <3>3
    <3> QED
      BY <3>2, <3>4, AbortCovers
  <2>5. CASE Restart
    <3>1. /\ kind' = kind /\ pc' = "idle" /\ page' = <<>> /\ seen' = <<>>
          /\ cursor' = [h \in ToSet(Hosts) |-> 0]
      BY <2>5 DEF Restart, feed
    <3>2. SeenArrived'
      BY <3>1 DEF SeenArrived
    <3>3. \A h \in ToSet(Hosts) : cursor'[h] = 0
      BY <3>1
    <3>4. PageCovered' /\ StreamCovered'
      BY <3>1, <3>3 DEF PageCovered, StreamCovered
    <3> QED
      BY <3>2, <3>3, <3>4 DEF Covered
  <2>6. CASE UNCHANGED vars
    BY <2>1, <2>6 DEF vars, feed, mem
  <2> QED
    BY <2>2, <2>3, <2>4, <2>5, <2>6, FetchCovers, ConnectCovers, ReceiveCovers, BodyCovers,
       EndPageCovers
       DEF Next, Loop
<1>3. Typed /\ Covered => NoGap
  <2> SUFFICES ASSUME Typed, Covered, NEW h \in ToSet(Hosts), NEW n \in 1..MaxRecords,
                      IF kind = "bluesky" THEN n < cursor[h] ELSE n <= cursor[h],
                      page = <<>> \/ <<h, n>> # Head(page)
               PROVE  n \in Settled[h]
    BY DEF NoGap, Settled
  <2>1. cursor[h] \in 0..MaxRecords /\ MaxRecords \in Nat
    BY BoundAssumption DEF Typed, TypeOK
  <2>2. CASE kind = "poll"
    BY <2>1, <2>2 DEF Covered
  <2>3. CASE kind = "mastodon"
    BY <2>1, <2>3 DEF Covered, PageCovered
  <2>4. CASE kind \in Streams
    <3>1. CASE n < cursor[h]
      BY <2>4, <3>1 DEF Covered, StreamCovered
    <3>2. CASE n = cursor[h]
      <4>1. kind = "wikipedia" /\ cursor[h] > 0
        BY <2>1, <2>4, <3>2 DEF Streams
      <4> QED
        BY <2>4, <3>2, <4>1 DEF Covered, StreamCovered
    <3> QED
      BY <2>1, <3>1, <3>2
  <2> QED
    BY <2>2, <2>3, <2>4 DEF Typed
<1> QED
  BY <1>1, <1>2, <1>3, AlwaysTyped, PTL DEF Spec

----------------------------------------------------------------------------
(* Once each                                                               *)

\* The records that one key of the LRU stands for, and the publishes they had.
Group(r) == {q \in Records : SeenKey(q) = SeenKey(r)}
Out(r) == Sum(sent, Group(r))

\* The publishes that may have gone out twice for a cause.
Spent == (Faults["doubt"] - left["doubt"]) + (Faults["restart"] - left["restart"])

\* live: the records that can still be read.  One the LRU does not know has the next
\* publish to its credit.
Counted(live) ==
    \A r \in Records : /\ Out(r) <= 1 + Spent
                       /\ r \in live /\ ~Known(r) => Out(r) <= Spent

\* The LRU holds a key once.
Distinct == \A j, k \in DOMAIN seen : seen[j] = seen[k] => j = k

Steady ==
    /\ left \in [FaultKinds -> Int]
    /\ turn \in 1..Rounds
    /\ Distinct

\* There are finitely many records, and so every sum of publishes is one.
LEMMA FiniteRecords == IsFiniteSet(Records) /\ \A r : IsFiniteSet(Group(r))
<1>1. Len(Hosts) \in Nat /\ DOMAIN Hosts = 1..Len(Hosts)
  BY HostsAssumption
<1>2. IsFiniteSet(1..Len(Hosts)) /\ IsFiniteSet(1..MaxRecords)
  BY <1>1, FS_Interval, BoundAssumption
<1>3. Hosts \in Surjection(1..Len(Hosts), ToSet(Hosts))
  BY <1>1, HostsAssumption DEF ToSet, Surjection
<1>4. IsFiniteSet(ToSet(Hosts))
  BY <1>2, <1>3, FS_Surjection
<1>5. IsFiniteSet(Records)
  BY <1>2, <1>4, FS_Product DEF Records
<1> QED
  BY <1>5, FS_Subset DEF Group

\* Publishes are counted by naturals.
LEMMA OutIs ==
    ASSUME Typed, NEW r \in Records
    PROVE  Out(r) \in Nat
<1>1. sent \in [Records -> Nat] /\ IsFiniteSet(Group(r)) /\ Group(r) \subseteq Records
  BY FiniteRecords DEF Typed, TypeOK, Group
<1> QED
  BY <1>1, SumBelow DEF Out

\* A publish counts for every record with its key.
LEMMA PublishAdds ==
    ASSUME Typed, UNCHANGED kind, NEW r \in Records, sent' = [sent EXCEPT ![r] = @ + 1],
           NEW q \in Records
    PROVE  Out(q)' = IF SeenKey(q) = SeenKey(r) THEN Out(q) + 1 ELSE Out(q)
<1>1. /\ sent \in [Records -> Nat] /\ IsFiniteSet(Group(q)) /\ Group(q) \subseteq Records
      /\ Group(q)' = Group(q)
  BY FiniteRecords DEF Typed, TypeOK, Group, SeenKey
<1>2. Out(q)' = Sum(sent', Group(q)) /\ Out(q) = Sum(sent, Group(q))
  BY <1>1 DEF Out
<1>3. /\ sent[r] \in Nat /\ sent'[r] = sent[r] + 1
      /\ \A x \in Records : sent[x] \in Int
      /\ \A x \in Records \ {r} : sent'[x] = sent[x]
  BY <1>1
<1>4. CASE SeenKey(q) = SeenKey(r)
  <2>1. r \in Group(q)
    BY <1>4 DEF Group
  <2>2. /\ \A x \in Group(q) : sent[x] \in Int
        /\ \A x \in Group(q) \ {r} : sent'[x] = sent[x]
        /\ sent'[r] \in Int
    BY <1>1, <1>3
  <2>4. Sum(sent', Group(q)) = Sum(sent, Group(q)) - sent[r] + sent'[r]
    BY ONLY <1>1, <2>1, <2>2, SumUpdate
  <2>3. Out(q) \in Nat
    BY OutIs
  <2> QED
    BY <1>2, <1>3, <1>4, <2>3, <2>4
<1>5. CASE SeenKey(q) # SeenKey(r)
  <2>1. r \notin Group(q)
    BY <1>5 DEF Group
  <2>2. ASSUME NEW x \in Group(q) PROVE sent'[x] = sent[x]
    <3>1. x \in Records \ {r}
      BY <1>1, <2>1, <2>2
    <3> QED
      BY <1>3, <3>1
  <2>3. Sum(sent', Group(q)) = Sum(sent, Group(q))
    <3>1. IsFiniteSet(Group(q))
      BY <1>1
    <3> QED
      BY ONLY <2>2, <3>1, SumSame
  <2> QED
    BY <1>2, <1>5, <2>3
<1> QED
  BY <1>4, <1>5

\* What _remember does to the LRU: d of the oldest go, the key comes last.
Shifted(d, r) ==
    /\ d = 1 <=> Len(seen) = SeenCap
    /\ d <= Len(seen)
    /\ Len(seen') = Len(seen) + 1 - d
    /\ \A i \in 1..(Len(seen) - d) : seen'[i] = seen[i + d]
    /\ seen'[Len(seen')] = SeenKey(r)
    /\ seen' \in Seq(Records)

LEMMA RememberIs ==
    ASSUME Typed, NEW r \in Records, Remember(r)
    PROVE  \E d \in {0, 1} : Shifted(d, r)
<1> USE DEF Shifted
<1>1. SeenKey(r) \in Records
  BY PostAssumption DEF SeenKey
<1>2. /\ seen \in Seq(Records) /\ Len(seen) <= SeenCap /\ Len(seen) \in Nat
      /\ SeenCap \in Nat \ {0}
  BY BoundAssumption DEF Typed, TypeOK
<1>3. CASE Len(seen) >= SeenCap
  <2> DEFINE t == Tail(seen)
  <2>1. /\ seen # <<>> /\ t \in Seq(Records) /\ Len(t) = Len(seen) - 1
        /\ \A i \in 1..Len(t) : t[i] = seen[i + 1]
    BY <1>2, <1>3
  <2>2. seen' = Append(t, SeenKey(r))
    BY <1>3 DEF Remember
  <2> HIDE DEF t
  <2>3. /\ seen' \in Seq(Records) /\ Len(seen') = Len(t) + 1
        /\ \A i \in 1..Len(t) : seen'[i] = t[i]
        /\ seen'[Len(t) + 1] = SeenKey(r)
    BY <1>1, <2>1, <2>2
  <2>4. /\ Len(seen) = SeenCap /\ 1 <= Len(seen) /\ Len(seen') = Len(seen) + 1 - 1
        /\ \A i \in 1..(Len(seen) - 1) : seen'[i] = seen[i + 1]
        /\ seen'[Len(seen')] = SeenKey(r)
    BY <1>2, <1>3, <2>1, <2>3
  <2> QED
    BY <2>3, <2>4
<1>4. CASE ~(Len(seen) >= SeenCap)
  <2>1. seen' = Append(seen, SeenKey(r))
    BY <1>4 DEF Remember
  <2>2. /\ seen' \in Seq(Records) /\ Len(seen') = Len(seen) + 1
        /\ \A i \in 1..Len(seen) : seen'[i] = seen[i]
        /\ seen'[Len(seen) + 1] = SeenKey(r)
    BY <1>1, <1>2, <2>1
  <2>3. /\ Len(seen) # SeenCap /\ 0 <= Len(seen) /\ Len(seen') = Len(seen) + 1 - 0
        /\ \A i \in 1..(Len(seen) - 0) : seen'[i] = seen[i + 0]
        /\ seen'[Len(seen')] = SeenKey(r)
    BY <1>2, <1>4, <2>2
  <2> QED
    BY <2>2, <2>3
<1> QED
  BY <1>3, <1>4

\* What is not the oldest of a full LRU stays known.
LEMMA RememberKeeps ==
    ASSUME Typed, UNCHANGED kind, NEW r \in Records, Remember(r), ~Known(r)
    PROVE  /\ Known(r)'
           /\ \A q \in Records :
                 Known(q) /\ (Len(seen) = SeenCap => SeenKey(q) # seen[1]) => Known(q)'
           /\ Distinct => Distinct'
<1> USE DEF Shifted
<1>1. PICK d \in {0, 1} : Shifted(d, r)
  BY RememberIs
<1>2. /\ Len(seen) \in Nat /\ DOMAIN seen = 1..Len(seen) /\ DOMAIN seen' = 1..Len(seen')
      /\ \A q : SeenKey(q)' = SeenKey(q)
  BY <1>1 DEF Typed, TypeOK, SeenKey
<1>3. Known(r)'
  <2>1. Len(seen') \in DOMAIN seen'
    BY <1>1, <1>2
  <2> QED
    BY <1>1, <1>2, <2>1 DEF Known
<1>4. ASSUME NEW q \in Records, Known(q), Len(seen) = SeenCap => SeenKey(q) # seen[1]
      PROVE  Known(q)'
  <2>1. PICK k \in 1..Len(seen) : seen[k] = SeenKey(q)
    BY <1>2, <1>4 DEF Known
  <2>2. k > d
    BY <1>1, <1>2, <1>4, <2>1
  <2>3. k - d \in 1..(Len(seen) - d) /\ (k - d) + d = k
    BY <1>1, <1>2, <2>1, <2>2
  <2>4. k - d \in DOMAIN seen' /\ seen'[k - d] = seen[k]
    BY <1>1, <1>2, <2>3
  <2> QED
    BY <1>2, <2>1, <2>4 DEF Known
<1>5. ASSUME Distinct PROVE Distinct'
  <2> SUFFICES ASSUME NEW j \in 1..Len(seen'), NEW k \in 1..Len(seen'), seen'[j] = seen'[k], j < k
               PROVE  FALSE
    BY <1>1, <1>2 DEF Distinct
  <2>1. j \in 1..(Len(seen) - d) /\ j + d \in DOMAIN seen /\ seen'[j] = seen[j + d]
    BY <1>1, <1>2
  <2>2. CASE k = Len(seen')
    BY <1>1, <1>2, <2>1, <2>2 DEF Known
  <2>3. CASE k # Len(seen')
    <3>1. k \in 1..(Len(seen) - d) /\ k + d \in 1..Len(seen)
      <4>1. \A n, e, l \in Nat, i \in Nat \ {0} :
               n = l + 1 - e /\ i <= n /\ i # n => i \in 1..(l - e) /\ i + e \in 1..l
        OBVIOUS
      <4>2. d \in Nat /\ Len(seen') \in Nat /\ k \in Nat \ {0} /\ k <= Len(seen')
        BY <1>1, <1>2
      <4> QED
        BY ONLY <1>1, <1>2, <2>3, <4>1, <4>2
    <3>3. k + d \in DOMAIN seen /\ seen'[k] = seen[k + d]
      BY <1>1, <1>2, <3>1
    <3>2. j + d = k + d
      BY <1>5, <2>1, <3>3 DEF Distinct
    <3> QED
      BY <1>1, <3>2
  <2> QED
    BY <2>2, <2>3
<1> QED
  BY <1>3, <1>4, <1>5

----------------------------------------------------------------------------
(* What a step may do to the LRU and the publishes                         *)

\* Nothing; or the loop takes the record in hand into the LRU, published or not; or a
\* publish is in doubt; or the process restarts.
Quiet == UNCHANGED <<seen, sent>> /\ Spent' = Spent

Taken(r) ==
    /\ ~Known(r) /\ Remember(r) /\ Spent' = Spent
    /\ sent' = sent \/ sent' = [sent EXCEPT ![r] = @ + 1]

Doubtful(r) ==
    /\ ~Known(r) /\ seen' = seen /\ Spent' = Spent + 1
    /\ sent' = [sent EXCEPT ![r] = @ + 1]

Cleared == Restart /\ seen' = <<>> /\ sent' = sent /\ Spent' = Spent + 1

\* Every step does one of the four.
LEMMA Effects ==
    ASSUME Typed, Steady, [Next]_vars
    PROVE  /\ kind' = kind
           /\ \/ Quiet \/ Cleared
              \/ page # <<>> /\ (Taken(Head(page)) \/ Doubtful(Head(page)))
           /\ Restart => Cleared
           /\ left' \in [FaultKinds -> Int]
           /\ Spent \in Int
<1>1. /\ left \in [FaultKinds -> Int] /\ Faults \in [FaultKinds -> Nat]
      /\ FaultKinds = {"publish", "doubt", "drop", "restart"}
  BY FaultsAssumption DEF Steady, FaultKinds
<1>2. Spent \in Int /\ \A k \in FaultKinds : left[k] \in Int /\ Faults[k] \in Int
  BY <1>1 DEF Spent
<1>3. ASSUME left' = left PROVE Spent' = Spent /\ left' \in [FaultKinds -> Int]
  BY <1>1, <1>3 DEF Spent
<1>4. ASSUME NEW k \in FaultKinds, Fault(k)
      PROVE  /\ left' \in [FaultKinds -> Int]
             /\ Spent' = IF k \in {"doubt", "restart"} THEN Spent + 1 ELSE Spent
  <2>1. left' = [left EXCEPT ![k] = left[k] - 1] /\ left[k] \in Int
    BY <1>2, <1>4 DEF Fault
  <2>2. left' \in [FaultKinds -> Int]
    BY <1>1, <2>1
  <2>3. /\ left'["doubt"] = IF k = "doubt" THEN left["doubt"] - 1 ELSE left["doubt"]
        /\ left'["restart"] = IF k = "restart" THEN left["restart"] - 1 ELSE left["restart"]
    BY <1>1, <2>1
  <2> QED
    BY <1>1, <1>2, <2>2, <2>3 DEF Spent
<1>10. ASSUME Restart PROVE kind' = kind /\ Cleared /\ left' \in [FaultKinds -> Int]
  <2>1. kind' = kind /\ seen' = <<>> /\ sent' = sent /\ Fault("restart")
    BY <1>10 DEF Restart, feed
  <2>2. "restart" \in FaultKinds
    BY <1>1
  <2> QED
    BY <1>2, <1>4, <1>10, <2>1, <2>2 DEF Cleared
<1> SUFFICES /\ kind' = kind
             /\ \/ Quiet \/ Cleared
                \/ page # <<>> /\ (Taken(Head(page)) \/ Doubtful(Head(page)))
             /\ left' \in [FaultKinds -> Int]
  BY <1>2, <1>10
<1>5. CASE \/ \E h \in ToSet(Hosts) : Emit(h)
           \/ FetchFails \/ Fetch \/ Connect \/ Receive \/ EndPage \/ Raise
           \/ UNCHANGED vars
  <2>1. left' = left /\ kind' = kind /\ seen' = seen /\ sent' = sent
    BY <1>5 DEF Emit, FetchFails, Fetch, Connect, Receive, EndPage, Raise, Abort, vars, feed, mem
  <2> QED
    BY <1>2, <1>3, <2>1 DEF Quiet
<1>6. CASE Skip
  <2>1. left' = left /\ kind' = kind /\ sent' = sent /\ page # <<>>
    BY <1>6 DEF Skip, feed
  <2>2. seen' = seen \/ (~Known(Head(page)) /\ Remember(Head(page)))
    BY <1>6 DEF Skip
  <2> QED
    BY <1>2, <1>3, <2>1, <2>2 DEF Quiet, Taken
<1>7. CASE Publish
  <2>1. left' = left /\ kind' = kind /\ page # <<>>
    BY <1>7 DEF Publish, feed
  <2>2. /\ sent' = [sent EXCEPT ![Head(page)] = @ + 1]
        /\ ~Known(Head(page)) /\ Remember(Head(page))
    BY <1>7 DEF Publish
  <2> QED
    BY <1>2, <1>3, <2>1, <2>2 DEF Taken
<1>8. CASE PublishFails
  <2>1. kind' = kind /\ page # <<>> /\ seen' = seen /\ ~Known(Head(page))
    BY <1>8 DEF PublishFails, Abort, feed
  <2>2. CASE Fault("publish") /\ sent' = sent
    <3>1. "publish" \in FaultKinds /\ "publish" \notin {"doubt", "restart"}
      BY <1>1
    <3> QED
      BY <1>2, <1>4, <2>1, <2>2, <3>1 DEF Quiet
  <2>3. CASE Fault("doubt") /\ sent' = [sent EXCEPT ![Head(page)] = @ + 1]
    <3>1. "doubt" \in FaultKinds
      BY <1>1
    <3> QED
      BY <1>2, <1>4, <2>1, <2>3, <3>1 DEF Doubtful
  <2> QED
    BY <1>8, <2>2, <2>3 DEF PublishFails
<1>9. CASE Drop
  <2>1. kind' = kind /\ seen' = seen /\ sent' = sent /\ Fault("drop")
    BY <1>9 DEF Drop, Abort, feed
  <2>2. "drop" \in FaultKinds /\ "drop" \notin {"doubt", "restart"}
    BY <1>1
  <2> QED
    BY <1>2, <1>4, <2>1, <2>2 DEF Quiet
<1> QED
  BY <1>5, <1>6, <1>7, <1>8, <1>9, <1>10 DEF Next, Loop

\* The LRU stays without duplicates; only mastodon leaves the first host.
LEMMA SteadyStep ==
    ASSUME Typed, Steady, [Next]_vars
    PROVE  Steady'
<1>1. /\ kind' = kind /\ left' \in [FaultKinds -> Int]
      /\ \/ Quiet \/ Cleared
         \/ page # <<>> /\ (Taken(Head(page)) \/ Doubtful(Head(page)))
  BY Effects
<1>2. page # <<>> => Head(page) \in Records
  BY DEF Typed, TypeOK
<1>3. Distinct'
  <2>1. CASE seen' = seen
    BY <2>1 DEF Steady, Distinct
  <2>2. CASE seen' = <<>>
    BY <2>2 DEF Distinct
  <2>3. ASSUME page # <<>>, Taken(Head(page)) PROVE Distinct'
    BY <1>1, <1>2, <2>3, RememberKeeps DEF Taken, Steady
  <2> QED
    BY <1>1, <2>1, <2>2, <2>3 DEF Quiet, Cleared, Doubtful
<1>4. turn' \in 1..Rounds
  <2>1. Rounds \in Nat \ {0} /\ turn \in 1..Rounds
    BY HostType DEF Typed, Steady
  <2>2. EndTurn => turn' \in 1..Rounds
    BY <2>1 DEF EndTurn
  <2>3. turn' = turn \/ turn' = 1 \/ EndTurn
    BY DEF Next, Loop, Emit, FetchFails, Fetch, Connect, Receive, Skip, Publish, EndPage,
           PublishFails, Raise, Drop, Abort, Restart, vars, mem
  <2> QED
    BY <2>1, <2>2, <2>3
<1>5. Rounds' = Rounds
  BY <1>1 DEF Rounds
<1> QED
  BY <1>1, <1>3, <1>4, <1>5 DEF Steady

\* The account of the keys balances after a step that keeps every live key in the LRU.
LEMMA CountedStep ==
    ASSUME Typed, Steady, [Next]_vars,
           NEW live \in SUBSET Records, NEW rest \in SUBSET Records, Counted(live),
           Restart \/ rest \subseteq live,
           page # <<>> => Head(page) \in live,
           \A q \in live : page # <<>> /\ Taken(Head(page)) /\ Known(q) => Known(q)'
    PROVE  Counted(rest)'
<1>1. /\ kind' = kind /\ Spent \in Int
      /\ \/ Quiet \/ Cleared
         \/ page # <<>> /\ (Taken(Head(page)) \/ Doubtful(Head(page)))
  BY Effects
<1>2. \A q \in Records : Out(q) \in Nat /\ SeenKey(q)' = SeenKey(q)
  BY <1>1, OutIs DEF SeenKey
<1>3. ASSUME sent' = sent PROVE \A q \in Records : Out(q)' = Out(q)
  BY <1>1, <1>3 DEF Out, Group, SeenKey
<1>4. ASSUME seen' = seen PROVE \A q \in Records : Known(q)' = Known(q)
  BY <1>1, <1>4 DEF Known, SeenKey
<1>5. \A q \in Records : /\ Out(q) <= 1 + Spent
                         /\ q \in live /\ ~Known(q) => Out(q) <= Spent
  BY DEF Counted
<1>6. CASE Cleared
  <2>1. Spent' = Spent + 1 /\ \A q \in Records : Out(q)' = Out(q)
    BY <1>3, <1>6 DEF Cleared
  <2> QED
    BY <1>1, <1>2, <1>5, <2>1 DEF Counted
<1>7. ASSUME ~Cleared PROVE rest \subseteq live
  BY <1>7, Effects
<1>8. CASE Quiet /\ ~Cleared
  <2>1. /\ Spent' = Spent /\ \A q \in Records : Out(q)' = Out(q) /\ Known(q)' = Known(q)
    BY <1>3, <1>4, <1>8 DEF Quiet
  <2> QED
    BY <1>5, <1>7, <1>8, <2>1 DEF Counted
<1>9. ASSUME page # <<>>, Taken(Head(page)), ~Cleared PROVE Counted(rest)'
  <2>1. PICK r \in live : r = Head(page)
    BY <1>9
  <2>2. /\ ~Known(r) /\ Remember(r) /\ Spent' = Spent
        /\ sent' = sent \/ sent' = [sent EXCEPT ![r] = @ + 1]
    BY <1>9, <2>1 DEF Taken
  <2>3. Known(r)' /\ \A q \in live : Known(q) => Known(q)'
    BY <1>1, <1>9, <2>1, <2>2, RememberKeeps
  <2>4. r \in Records /\ Out(r) <= Spent
    BY <1>5, <2>1, <2>2
  <2>5. ASSUME NEW q \in Records, SeenKey(q) = SeenKey(r)
        PROVE  Out(q)' <= 1 + Spent /\ Known(q)'
    <3>1. Out(q) = Out(r)
      BY <2>5 DEF Out, Group
    <3>2. Out(q)' = Out(q) \/ Out(q)' = Out(q) + 1
      BY <1>1, <1>3, <2>2, <2>4, PublishAdds
    <3>3. Known(q)'
      BY <1>2, <2>3, <2>5 DEF Known
    <3> QED
      BY <1>1, <1>2, <2>4, <3>1, <3>2, <3>3
  <2>6. ASSUME NEW q \in Records, SeenKey(q) # SeenKey(r)
        PROVE  Out(q)' = Out(q)
    BY <1>1, <1>3, <2>2, <2>4, <2>6, PublishAdds
  <2> QED
    BY <1>5, <1>7, <1>9, <2>2, <2>3, <2>5, <2>6 DEF Counted
<1>10. ASSUME page # <<>>, Doubtful(Head(page)), ~Cleared PROVE Counted(rest)'
  <2>0. PICK r \in live : r = Head(page)
    BY <1>10
  <2>1. /\ r \in live /\ ~Known(r) /\ seen' = seen /\ Spent' = Spent + 1
        /\ sent' = [sent EXCEPT ![r] = @ + 1]
    BY <1>10, <2>0 DEF Doubtful
  <2>2. r \in Records /\ Out(r) <= Spent /\ \A q \in Records : Known(q)' = Known(q)
    BY <1>4, <1>5, <2>1
  <2>3. ASSUME NEW q \in Records
        PROVE  /\ Out(q)' <= 1 + (Spent + 1)
               /\ q \in rest /\ ~Known(q) => Out(q)' <= Spent + 1
    <3>1. Out(q)' = IF SeenKey(q) = SeenKey(r) THEN Out(q) + 1 ELSE Out(q)
      BY <1>1, <2>1, <2>2, PublishAdds
    <3>2. SeenKey(q) = SeenKey(r) => Out(q) = Out(r)
      BY DEF Out, Group
    <3>3. Out(q) <= 1 + Spent /\ Out(q) \in Nat /\ (q \in rest /\ ~Known(q) => Out(q) <= Spent)
      BY <1>2, <1>5, <1>7, <1>10
    <3> QED
      BY <1>1, <2>2, <3>1, <3>2, <3>3
  <2> QED
    BY <2>1, <2>2, <2>3 DEF Counted
<1> QED
  BY <1>1, <1>6, <1>8, <1>9, <1>10

\* A full LRU and one key more do not fit into a set of no more than SEEN_CAP elements.
LEMMA TooMany ==
    ASSUME NEW S, IsFiniteSet(S), Cardinality(S) <= SeenCap,
           NEW f \in [1..(SeenCap + 1) -> S],
           \A i, j \in 1..(SeenCap + 1) : f[i] = f[j] => i = j
    PROVE  FALSE
<1>1. SeenCap \in Nat
  BY BoundAssumption
<1>2. IsFiniteSet(1..(SeenCap + 1)) /\ Cardinality(1..(SeenCap + 1)) = SeenCap + 1
  BY <1>1, FS_Interval
<1>3. Cardinality(S) \in Nat
  BY FS_CardinalityType
<1>4. Cardinality(S) < Cardinality(1..(SeenCap + 1))
  BY <1>1, <1>2, <1>3
<1>5. \E i, j \in 1..(SeenCap + 1) : i # j /\ f[i] = f[j]
  BY ONLY <1>2, <1>4, IsFiniteSet(S), f \in [1..(SeenCap + 1) -> S], FS_PigeonHole
<1> QED
  BY <1>5

----------------------------------------------------------------------------
(* A poll loop                                                             *)

\* Records of the first host from n on, the only ones a loop that does not change
\* hosts reads.
Since(n) == {r \in Records : r[1] = Hosts[1] /\ r[2] >= n}

\* last: the newest record of the feed when it was read last; the page shows the Page
\* records up to it, and so did every page before: keys that came to the LRU after a
\* record that may still be shown are close to it.
Window(last) ==
    /\ last <= emitted[Hosts[1]]
    /\ \A k \in DOMAIN page : page[k][1] = Hosts[1] /\ page[k][2] \in (last - Page + 1)..last
    /\ \A k \in DOMAIN seen : seen[k][1] = Hosts[1] /\ seen[k][2] <= last
    /\ \A j, k \in DOMAIN seen :
          j < k /\ seen[j][2] > last - Page => seen[k][2] > seen[j][2] - Page

\* A record is a host and a number.
LEMMA PairsOf ==
    ASSUME NEW r \in Records
    PROVE  r[1] \in ToSet(Hosts) /\ r[2] \in 1..MaxRecords /\ r = <<r[1], r[2]>>
  BY DEF Records

\* A poll loop reads the first host only.
LEMMA PollHost ==
    ASSUME Typed, Steady, kind = "poll"
    PROVE  /\ turn = 1 /\ Host = Hosts[1] /\ Hosts[1] \in ToSet(Hosts)
           /\ emitted[Hosts[1]] \in 0..MaxRecords
<1>1. turn = 1
  BY DEF Steady, Rounds
<1>2. Host = Hosts[1] /\ Host \in ToSet(Hosts)
  BY <1>1, HostType DEF Typed, Host
<1> QED
  BY <1>1, <1>2 DEF Typed, TypeOK

\* An LRU with room for 2 * PAGE - 1 keys never drops a record that may be shown again.
LEMMA RoomForWindow ==
    ASSUME 2 * Page - 1 <= SeenCap, Typed, Steady, kind = "poll",
           NEW last \in 0..MaxRecords, Window(last), page # <<>>,
           NEW r \in Records, r = Head(page), ~Known(r),
           Len(seen) = SeenCap, seen[1][2] > last - Page
    PROVE  FALSE
<1> DEFINE n == seen[1][2]
           f == [i \in 1..(SeenCap + 1) |-> IF i <= SeenCap THEN seen[i][2] ELSE r[2]]
           near == (n - Page + 1)..(n + Page - 1)
<1>1. /\ SeenCap \in Nat \ {0} /\ Page \in Nat \ {0} /\ MaxRecords \in Nat
      /\ seen \in Seq(Records) /\ DOMAIN seen = 1..SeenCap
      /\ page \in Seq(Records)
  BY BoundAssumption DEF Typed, TypeOK
<1>2. /\ \A i \in 1..SeenCap : /\ seen[i] \in Records /\ seen[i][2] \in 1..MaxRecords
                               /\ seen[i] = <<Hosts[1], seen[i][2]>> /\ seen[i][2] <= last
  <2>1. \A i \in 1..SeenCap : seen[i] \in Records
    BY <1>1
  <2>2. \A i \in 1..SeenCap : seen[i][1] = Hosts[1] /\ seen[i][2] <= last
    BY <1>1 DEF Window
  <2> QED
    BY <2>1, <2>2, PairsOf
<1>3. r = <<Hosts[1], r[2]>> /\ r[2] \in 1..MaxRecords /\ r[2] <= last /\ r[2] > last - Page
  <2>1. 1 \in DOMAIN page /\ r = page[1]
    BY <1>1
  <2>2. r[1] = Hosts[1] /\ r[2] \in (last - Page + 1)..last
    BY <2>1 DEF Window
  <2> QED
    BY SMTT(20), <1>1, <2>2, PairsOf
<1>4. n \in 1..MaxRecords /\ n <= last /\ n > last - Page
  <2>1. 1 \in 1..SeenCap
    BY <1>1
  <2> QED
    BY <1>2, <2>1
<1>5. \A i \in 1..SeenCap : i # 1 => seen[i][2] > n - Page
  <2>1. \A i \in 1..SeenCap : i # 1 => 1 < i /\ 1 \in 1..SeenCap
    BY <1>1
  <2> QED
    BY <1>1, <1>4, <2>1 DEF Window
<1> HIDE DEF n
<1>6. \A x \in 1..MaxRecords : x <= last /\ x > n - Page => x \in near
  BY <1>1, <1>4
<1>7. \A i \in 1..SeenCap : seen[i][2] \in near
  <2>1. n > n - Page
    BY <1>1, <1>4
  <2> HIDE DEF near
  <2>2. ASSUME NEW i \in 1..SeenCap PROVE seen[i][2] > n - Page
    BY <1>5, <2>1 DEF n
  <2> QED
    BY <1>2, <1>6, <2>2
<1>8. r[2] \in near
  BY <1>1, <1>3, <1>4, <1>6
<1>9. IsFiniteSet(near) /\ Cardinality(near) <= SeenCap
  <2>1. n - Page + 1 \in Int /\ n + Page - 1 \in Int /\ ~(n - Page + 1 > n + Page - 1)
    BY <1>1, <1>4
  <2>2. IsFiniteSet(near) /\ Cardinality(near) = (n + Page - 1) - (n - Page + 1) + 1
    BY <2>1, FS_Interval
  <2> QED
    BY <1>1, <1>4, <2>2
<1>10. f \in [1..(SeenCap + 1) -> near]
  <2> HIDE DEF near
  <2> QED
    BY <1>1, <1>7, <1>8
<1>11. \A i \in 1..SeenCap : seen[i][2] # r[2]
  <2>1. SeenKey(r) = r
    BY DEF SeenKey
  <2> QED
    BY <1>1, <1>2, <1>3, <2>1 DEF Known
<1>12. \A i, j \in 1..SeenCap : seen[i][2] = seen[j][2] => i = j
  <2> SUFFICES ASSUME NEW i \in 1..SeenCap, NEW j \in 1..SeenCap, seen[i][2] = seen[j][2]
               PROVE  i = j
    OBVIOUS
  <2>1. seen[i] = seen[j]
    BY <1>2
  <2> QED
    BY <1>1, <2>1 DEF Steady, Distinct
<1>13. \A i, j \in 1..(SeenCap + 1) : f[i] = f[j] => i = j
  <2>1. \A i \in 1..(SeenCap + 1) : i \in 1..SeenCap \/ i = SeenCap + 1
    BY <1>1
  <2>2. /\ \A i \in 1..SeenCap : f[i] = seen[i][2]
        /\ f[SeenCap + 1] = r[2]
    BY <1>1
  <2> HIDE DEF f
  <2> QED
    BY <1>11, <1>12, <2>1, <2>2
<1> HIDE DEF f, near
<1> QED
  BY <1>9, <1>10, <1>13, TooMany

\* The key that is added is on the page, and so is close to all that may still be shown.
LEMMA WindowTakes ==
    ASSUME Typed, Steady, kind = "poll", UNCHANGED <<kind, emitted>>,
           NEW last \in 0..MaxRecords, Window(last),
           page # <<>>, page' = Tail(page), seen' = seen \/ Remember(Head(page))
    PROVE  Window(last)'
<1>1. /\ page \in Seq(Records) /\ seen \in Seq(Records) /\ Len(seen) \in Nat
      /\ MaxRecords \in Nat /\ Page \in Nat \ {0}
      /\ \A i \in DOMAIN seen : seen[i][2] \in Int
  <2>1. page \in Seq(Records) /\ seen \in Seq(Records)
    BY DEF Typed, TypeOK
  <2>2. \A i \in DOMAIN seen : seen[i] \in Records
    BY <2>1
  <2>3. \A r \in Records : r[2] \in 1..MaxRecords
    BY PairsOf
  <2>4. MaxRecords \in Nat /\ Page \in Nat \ {0}
    BY BoundAssumption
  <2> HIDE DEF Records
  <2> QED
    BY <2>1, <2>2, <2>3, <2>4
<1>2. \A k \in DOMAIN page' : k + 1 \in DOMAIN page /\ page'[k] = page[k + 1]
  BY <1>1
<1>3. \A k \in DOMAIN page' : page'[k][1] = Hosts[1] /\ page'[k][2] \in (last - Page + 1)..last
  BY <1>2 DEF Window
<1>4. CASE seen' = seen
  BY <1>3, <1>4 DEF Window
<1>5. CASE Remember(Head(page))
  <2>1. PICK r \in Records : r = Head(page)
    BY <1>1
  <2>2. SeenKey(r) = r
    BY DEF SeenKey
  <2>3. r[1] = Hosts[1] /\ r[2] \in (last - Page + 1)..last
    <3>1. 1 \in DOMAIN page /\ r = page[1]
      BY <1>1, <2>1
    <3> QED
      BY <3>1 DEF Window
  <2> USE DEF Shifted
  <2>4. PICK d \in {0, 1} : Shifted(d, r)
    BY <1>5, <2>1, RememberIs
  <2>5. DOMAIN seen' = 1..(Len(seen) + 1 - d) /\ DOMAIN seen = 1..Len(seen)
    BY <1>1, <2>4
  <2>6. \A k \in DOMAIN seen' :
           \/ k = Len(seen) + 1 - d /\ seen'[k] = r
           \/ k < Len(seen) + 1 - d /\ k + d \in DOMAIN seen /\ seen'[k] = seen[k + d]
    <3>1. \A l \in Nat, e \in {0, 1} : \A k \in 1..(l + 1 - e) :
             k = l + 1 - e \/ (k < l + 1 - e /\ k + e \in 1..l /\ k \in 1..(l - e))
      OBVIOUS
    <3> QED
      BY <1>1, <2>2, <2>4, <2>5, <3>1
  <2>7. \A k \in DOMAIN seen' : seen'[k][1] = Hosts[1] /\ seen'[k][2] <= last
    BY <2>3, <2>6 DEF Window
  <2>8. ASSUME NEW j \in DOMAIN seen', NEW k \in DOMAIN seen', j < k, seen'[j][2] > last - Page
        PROVE  seen'[k][2] > seen'[j][2] - Page
    <3>1. /\ k <= Len(seen) + 1 - d /\ j \in Nat /\ k \in Nat
      BY <1>1, <2>4, <2>5
    <3>2. j + d \in DOMAIN seen /\ seen'[j] = seen[j + d]
      BY <1>1, <2>6, <2>8, <3>1
    <3>3. CASE seen'[k] = r
      <4>1. seen[j + d][2] \in Int /\ seen[j + d][2] <= last
        BY <1>1, <3>2 DEF Window
      <4> QED
        BY <1>1, <2>3, <3>2, <3>3, <4>1
    <3>4. CASE k + d \in DOMAIN seen /\ seen'[k] = seen[k + d]
      <4>1. j + d < k + d
        BY <2>8, <3>1
      <4> QED
        BY <2>8, <3>2, <3>4, <4>1 DEF Window
    <3> QED
      BY <2>6, <3>3, <3>4
  <2> QED
    BY <1>3, <2>7, <2>8 DEF Window
<1> QED
  BY <1>4, <1>5

\* Whatever the loop does, the window it reads goes on, but for a restart.
LEMMA WindowStep ==
    ASSUME Typed, Steady, kind = "poll", [Next]_vars, NEW last \in 0..MaxRecords, Window(last)
    PROVE  \E new \in 0..MaxRecords : Window(new)' /\ (Restart \/ new >= last)
<1> DEFINE top == emitted[Hosts[1]]
<1>1. /\ turn = 1 /\ Host = Hosts[1] /\ Hosts[1] \in ToSet(Hosts) /\ top \in 0..MaxRecords
      /\ MaxRecords \in Nat /\ Page \in Nat \ {0} /\ last >= last /\ last <= top
  BY PollHost, BoundAssumption DEF Window
<1>2. ASSUME page' = page \/ page' = <<>>, seen' = seen,
             emitted'[Hosts[1]] \in Int, emitted'[Hosts[1]] >= top
      PROVE  Window(last)'
  <2>1. last <= emitted'[Hosts[1]]
    BY <1>1, <1>2
  <2> QED
    BY <1>2, <2>1 DEF Window
<1>3. ASSUME NEW h \in ToSet(Hosts), Emit(h) PROVE Window(last)'
  <2>1. /\ emitted \in [ToSet(Hosts) -> 0..MaxRecords] /\ page' = page /\ seen' = seen
        /\ emitted' = [emitted EXCEPT ![h] = emitted[h] + 1]
    BY <1>3 DEF Emit, mem, Typed, TypeOK
  <2>2. emitted'[Hosts[1]] = top \/ emitted'[Hosts[1]] = top + 1
    BY <1>1, <2>1
  <2> QED
    BY <1>1, <1>2, <2>1, <2>2
<1>4. CASE Fetch
  <2>1. /\ page' = Newest(First, top) /\ seen' = seen /\ emitted' = emitted
        /\ First = IF 0 < top - Page THEN top - Page + 1 ELSE 0 + 1
    BY <1>1, <1>4 DEF Fetch, First, feed
  <2>2. First \in Nat \ {0} /\ First <= top + 1 /\ First >= top - Page + 1
    BY <1>1, <2>1
  <2>3. /\ page' \in Seq(Records) /\ Len(page') = top - First + 1
        /\ \A k \in 1..(top - First + 1) : page'[k] = <<Host, top - k + 1>>
    <3>1. PICK n \in 0..MaxRecords : n = top
      BY <1>1
    <3>2. PICK m \in Nat \ {0} : m = First
      BY <2>2
    <3>3. m <= n + 1 /\ TypeOK /\ page' = Newest(m, n)
      BY <2>1, <2>2, <3>1, <3>2 DEF Typed
    <3>4. /\ Newest(m, n) \in Seq(Records) /\ Len(Newest(m, n)) = n - m + 1
          /\ \A k \in 1..(n - m + 1) : Newest(m, n)[k] = <<Host, n - k + 1>>
      BY <3>3, NewestType
    <3> QED
      BY <3>1, <3>2, <3>3, <3>4
  <2>4. \A k \in DOMAIN page' : page'[k][1] = Hosts[1] /\ page'[k][2] \in (top - Page + 1)..top
    <3>1. DOMAIN page' = 1..(top - First + 1)
      BY <2>3
    <3>2. \A k \in 1..(top - First + 1) : top - k + 1 \in (top - Page + 1)..top
      BY <1>1, <2>2
    <3> QED
      BY <1>1, <2>3, <3>1, <3>2
  <2>5. ASSUME NEW k \in DOMAIN seen
        PROVE  /\ seen[k][1] = Hosts[1] /\ seen[k][2] <= top
               /\ seen[k][2] > top - Page => seen[k][2] > last - Page
    <3>1. seen[k] \in Records
      BY DEF Typed, TypeOK
    <3>2. seen[k][2] \in 1..MaxRecords /\ seen[k][2] <= last /\ seen[k][1] = Hosts[1]
      BY <3>1, PairsOf DEF Window
    <3> QED
      BY <1>1, <3>2
  <2>6. \A j, k \in DOMAIN seen :
           j < k /\ seen[j][2] > top - Page => seen[k][2] > seen[j][2] - Page
    BY <2>5 DEF Window
  <2>7. PICK new \in 0..MaxRecords : new = top
    BY <1>1
  <2>8. Window(new)'
    BY <1>1, <2>1, <2>4, <2>5, <2>6, <2>7 DEF Window
  <2> QED
    BY <1>1, <2>7, <2>8
<1>5. CASE Skip \/ Publish
  <2>1. /\ UNCHANGED <<kind, emitted>> /\ page # <<>> /\ page' = Tail(page)
        /\ seen' = seen \/ Remember(Head(page))
    BY <1>5 DEF Skip, Publish, feed
  <2> QED
    BY <1>1, <2>1, WindowTakes
<1>6. CASE Restart
  <2>1. page' = <<>> /\ seen' = <<>> /\ emitted' = emitted
    BY <1>6 DEF Restart, feed
  <2>2. 0 <= top /\ 0 \in 0..MaxRecords
    BY <1>1
  <2>3. Window(0)'
    BY <2>1, <2>2 DEF Window
  <2> QED
    BY <1>6, <2>2, <2>3
<1>7. CASE FetchFails \/ EndPage \/ Raise \/ PublishFails \/ Drop \/ UNCHANGED vars
  <2>1. emitted' = emitted /\ seen' = seen /\ (page' = page \/ page' = <<>>)
    BY <1>7 DEF FetchFails, EndPage, Raise, PublishFails, Drop, Abort, EndTurn, vars, feed, mem
  <2> QED
    BY <1>1, <1>2, <2>1
<1>8. CASE Connect \/ Receive
  <2>1. kind \in Streams
    BY <1>8 DEF Connect, Receive, Typed
  <2> QED
    BY <2>1 DEF Streams
<1> QED
  BY <1>1, <1>3, <1>4, <1>5, <1>6, <1>7, <1>8 DEF Next, Loop

\* The account is what PublishedOnce asks for.
LEMMA CountedIsOnce ==
    ASSUME Typed, Steady, NEW live \in SUBSET Records, Counted(live)
    PROVE  PublishedOnce
<1>1. \A r \in Records : Out(r) \in Nat /\ Out(r) <= 1 + Spent
  BY OutIs DEF Counted
<1>2. /\ Faults["doubt"] - left["doubt"] \in Int /\ Faults["restart"] - left["restart"] \in Int
  BY FaultsAssumption DEF Steady, FaultKinds
<1>3. \A r \in Records :
         Out(r) <= 1 + (Faults["doubt"] - left["doubt"]) + (Faults["restart"] - left["restart"])
  BY <1>1, <1>2 DEF Spent
<1> QED
  BY <1>3 DEF PublishedOnce, Out, Sum, Group

\* Nothing is published at first.
LEMMA SteadyInit ==
    ASSUME Init
    PROVE  Typed /\ Steady /\ Counted(Records)
<1>1. Typed
  BY TypedInit
<1>2. Steady
  <2>1. Rounds \in 1..Len(Hosts) /\ Len(Hosts) \in Nat
    BY <1>1, HostType DEF Typed
  <2>2. left \in [FaultKinds -> Int]
    BY FaultsAssumption DEF Init
  <2> QED
    BY <2>1, <2>2 DEF Init, Steady, Distinct
<1>3. ASSUME NEW r \in Records PROVE Out(r) = 0
  <2>1. IsFiniteSet(Group(r)) /\ \A q \in Group(r) : sent[q] = 0
    BY FiniteRecords DEF Init, Group
  <2> QED
    BY <2>1, SumZero DEF Out
<1>4. Spent = 0
  BY FaultsAssumption DEF Init, Spent, FaultKinds
<1> QED
  BY <1>1, <1>2, <1>3, <1>4 DEF Counted

\* What was counted for the records that can still be read, with the newest page.
PollOnce ==
    kind = "poll" /\ 2 * Page - 1 <= SeenCap =>
        \E last \in 0..MaxRecords : Window(last) /\ Counted(Since(last - Page + 1))

\* What a poll loop counted stays true.
LEMMA PollOnceStep ==
    ASSUME Typed, Steady, PollOnce, [Next]_vars
    PROVE  PollOnce'
<1>1. kind' = kind
  BY Effects
<1> SUFFICES ASSUME kind = "poll", 2 * Page - 1 <= SeenCap
             PROVE  \E new \in 0..MaxRecords : Window(new)' /\ Counted(Since(new - Page + 1))'
  BY <1>1 DEF PollOnce
<1>2. PICK last \in 0..MaxRecords : Window(last) /\ Counted(Since(last - Page + 1))
  BY DEF PollOnce
<1>3. PICK new \in 0..MaxRecords : Window(new)' /\ (Restart \/ new >= last)
  BY <1>2, WindowStep
<1>4. PICK live \in SUBSET Records : live = Since(last - Page + 1)
  BY DEF Since
<1>5. PICK rest \in SUBSET Records : rest = Since(new - Page + 1)
  BY DEF Since
<1>6. Page \in Nat \ {0} /\ MaxRecords \in Nat /\ last \in Int /\ new \in Int
  BY BoundAssumption
<1>7. \A r \in Records : r[2] \in Int
  BY PairsOf
<1>8. Restart \/ rest \subseteq live
  <2>1. ASSUME new >= last PROVE rest \subseteq live
    BY <1>4, <1>5, <1>6, <1>7, <2>1 DEF Since
  <2> QED
    BY <1>3, <2>1
<1>9. ASSUME page # <<>> PROVE Head(page) \in live
  <2>1. page \in Seq(Records)
    BY DEF Typed, TypeOK
  <2>2. 1 \in DOMAIN page /\ Head(page) = page[1] /\ page[1] \in Records
    BY <1>9, <2>1
  <2>3. page[1][1] = Hosts[1] /\ page[1][2] \in (last - Page + 1)..last
    BY <1>2, <2>2 DEF Window
  <2> QED
    BY <1>4, <1>6, <2>2, <2>3 DEF Since
<1>10. ASSUME NEW q \in live, page # <<>>, Taken(Head(page)), Known(q)
       PROVE  Known(q)'
  <2>1. PICK r \in Records : r = Head(page)
    BY <1>9, <1>10
  <2>2. ~Known(r) /\ Remember(r)
    BY <1>10, <2>1 DEF Taken
  <2>3. ASSUME Len(seen) = SeenCap, SeenKey(q) = seen[1] PROVE FALSE
    <3>1. seen[1] = q
      BY <2>3 DEF SeenKey
    <3>2. q[2] > last - Page
      BY <1>4, <1>6, <1>7 DEF Since
    <3> QED
      BY <1>2, <1>10, <2>1, <2>2, <2>3, <3>1, <3>2, RoomForWindow
  <2> QED
    BY <1>1, <1>10, <2>2, <2>3, RememberKeeps
<1>11. Counted(rest)'
  BY <1>2, <1>4, <1>8, <1>9, <1>10, CountedStep
<1> QED
  BY <1>3, <1>5, <1>11

LEMMA PollOnceInit == Init => PollOnce
<1> SUFFICES ASSUME Init PROVE PollOnce
  OBVIOUS
<1>1. Counted(Records) /\ 0 \in 0..MaxRecords
  BY SteadyInit, BoundAssumption
<1>2. Hosts[1] \in ToSet(Hosts)
  BY HostsAssumption DEF ToSet
<1>3. Window(0)
  BY <1>2 DEF Init, Window
<1>4. Counted(Since(0 - Page + 1))
  BY <1>1 DEF Counted, Since
<1> QED
  BY <1>1, <1>3, <1>4 DEF PollOnce

----------------------------------------------------------------------------
(* A stream                                                                *)

\* The keys of the LRU are those of ever later events, f, up to the cursor.
Ordered(f) ==
    /\ f \in [DOMAIN seen -> 1..cursor[Hosts[1]]]
    /\ \A j, k \in DOMAIN seen : j < k => f[j] < f[k]
    /\ \A k \in DOMAIN seen : seen[k] = Post[<<Hosts[1], f[k]>>]

\* The event in hand is the one at the cursor, and none before it comes again.
Onward ==
    /\ pc = "open" => next >= cursor[Hosts[1]]
    /\ page # <<>> => page = << <<Hosts[1], cursor[Hosts[1]]>> >>
    /\ \E f : Ordered(f)

\* A stream is that of the first host, and its cursor is no newer than the source.
LEMMA StreamHost ==
    ASSUME Typed, Steady, kind \in Streams
    PROVE  /\ turn = 1 /\ Host = Hosts[1] /\ Hosts[1] \in ToSet(Hosts)
           /\ cursor[Hosts[1]] \in 0..MaxRecords /\ emitted[Hosts[1]] \in 0..MaxRecords
           /\ cursor[Hosts[1]] <= emitted[Hosts[1]]
           /\ MaxRecords \in Nat /\ next \in Nat
<1>1. turn = 1
  BY DEF Steady, Rounds, Streams
<1>2. Host = Hosts[1] /\ Host \in ToSet(Hosts)
  BY <1>1, HostType DEF Typed, Host
<1> QED
  BY <1>1, <1>2, BoundAssumption DEF Typed, TypeOK

\* The event in hand comes after all that is in the LRU.
LEMMA OrderedTakes ==
    ASSUME Typed, Steady, kind \in Streams, cursor' = cursor,
           NEW f, Ordered(f), NEW r \in Records, r = <<Hosts[1], cursor[Hosts[1]]>>,
           ~Known(r), Remember(r)
    PROVE  \E g : Ordered(g)'
<1> DEFINE c == cursor[Hosts[1]]
<1>1. /\ DOMAIN seen = 1..Len(seen) /\ Len(seen) \in Nat /\ SeenKey(r) = Post[r]
      /\ c \in 1..MaxRecords /\ MaxRecords \in Nat
  <2>1. c \in 1..MaxRecords
    BY PairsOf
  <2> QED
    BY SMTT(20), <2>1, BoundAssumption DEF Typed, TypeOK, SeenKey, Streams
<1> USE DEF Shifted
<1>2. PICK d \in {0, 1} : Shifted(d, r)
  BY RememberIs
<1> DEFINE l == Len(seen)
           g == [k \in 1..(l + 1 - d) |-> IF k = l + 1 - d THEN c ELSE f[k + d]]
<1>3. DOMAIN seen' = 1..(l + 1 - d) /\ l + 1 - d \in Nat
  BY <1>1, <1>2
<1>4. \A k \in DOMAIN seen : f[k] \in 1..c /\ f[k] # c /\ seen[k] = Post[<<Hosts[1], f[k]>>]
  <2>1. \A k \in DOMAIN seen : f[k] \in 1..c /\ seen[k] = Post[<<Hosts[1], f[k]>>]
    BY DEF Ordered
  <2>2. \A k \in DOMAIN seen : seen[k] # Post[r]
    BY <1>1 DEF Known
  <2> QED
    BY <2>1, <2>2
<1>5. ASSUME NEW k \in 1..(l + 1 - d), k # l + 1 - d
      PROVE  k \in 1..(l - d) /\ k + d \in DOMAIN seen /\ g[k] = f[k + d]
  BY <1>1, <1>2, <1>5
<1>6. g[l + 1 - d] = c
  BY <1>1, <1>2
<1>7. \A k \in DOMAIN seen' : g[k] \in 1..c
  <2> SUFFICES ASSUME NEW k \in 1..(l + 1 - d) PROVE g[k] \in 1..c
    BY <1>3
  <2>1. c \in 1..c
    BY <1>1
  <2>2. CASE k = l + 1 - d
    BY <1>6, <2>1, <2>2
  <2>3. CASE k # l + 1 - d
    BY <1>4, <1>5, <2>3
  <2> QED
    BY <2>2, <2>3
<1>8. g \in [DOMAIN seen' -> 1..c]
  BY <1>3, <1>7
<1> HIDE DEF g
<1>9. ASSUME NEW k \in DOMAIN seen' PROVE seen'[k] = Post[<<Hosts[1], g[k]>>]
  <2>1. CASE k = l + 1 - d
    BY <1>1, <1>2, <1>6, <2>1
  <2>2. CASE k # l + 1 - d
    <3>1. k \in 1..(l - d) /\ k + d \in DOMAIN seen /\ g[k] = f[k + d]
      BY <1>3, <1>5, <2>2
    <3>2. seen'[k] = seen[k + d]
      BY <1>2, <3>1
    <3>3. seen[k + d] = Post[<<Hosts[1], f[k + d]>>]
      BY <1>4, <3>1
    <3> QED
      BY ONLY <3>1, <3>2, <3>3
  <2> QED
    BY <2>1, <2>2
<1>10. ASSUME NEW j \in DOMAIN seen', NEW k \in DOMAIN seen', j < k PROVE g[j] < g[k]
  <2>1. j # l + 1 - d
    BY <1>2, <1>3, <1>10
  <2>2. j + d \in DOMAIN seen /\ g[j] = f[j + d]
    BY <1>3, <1>5, <2>1
  <2>3. CASE k = l + 1 - d
    <3>1. f[j + d] \in 1..c /\ f[j + d] # c
      BY <1>4, <2>2
    <3>2. f[j + d] < c
      BY <1>1, <3>1
    <3> QED
      BY <1>6, <2>2, <2>3, <3>2
  <2>4. CASE k # l + 1 - d
    <3>1. k + d \in DOMAIN seen /\ g[k] = f[k + d]
      BY <1>3, <1>5, <2>4
    <3>2. j + d < k + d
      BY <1>2, <1>3, <1>10
    <3> QED
      BY <2>2, <3>1, <3>2 DEF Ordered
  <2> QED
    BY <2>3, <2>4
<1>11. PICK e : e = g
  OBVIOUS
<1>12. Ordered(e)'
  BY <1>8, <1>9, <1>10, <1>11 DEF Ordered
<1> QED
  BY <1>12

\* Whatever a stream does, its cursor goes on, but for a restart.
LEMMA OnwardStep ==
    ASSUME Typed, Steady, kind \in Streams, Onward, [Next]_vars
    PROVE  Onward' /\ (Restart \/ cursor'[Hosts[1]] >= cursor[Hosts[1]])
<1> DEFINE c == cursor[Hosts[1]]
<1>1. /\ Host = Hosts[1] /\ Hosts[1] \in ToSet(Hosts) /\ c \in 0..MaxRecords
      /\ emitted[Hosts[1]] \in 0..MaxRecords /\ c <= emitted[Hosts[1]]
      /\ MaxRecords \in Nat /\ next \in Nat /\ kind \in {"bluesky", "wikipedia"} /\ c >= c
  BY StreamHost DEF Streams
<1>2. /\ pc = "open" => next >= c
      /\ page # <<>> => page = << <<Hosts[1], c>> >>
      /\ page # <<>> => Head(page) = <<Hosts[1], c>> /\ Tail(page) = <<>>
  <2>1. \A x : Head(<<x>>) = x /\ Tail(<<x>>) = <<>>
    OBVIOUS
  <2> QED
    BY <2>1 DEF Onward
<1>3. PICK f : Ordered(f)
  BY DEF Onward
<1>4. ASSUME UNCHANGED <<seen, cursor>> PROVE Ordered(f)'
  BY <1>3, <1>4 DEF Ordered
<1>5. ASSUME UNCHANGED <<seen, cursor>>,
             (pc' = pc /\ next' = next) \/ pc' = "idle",
             page' = page \/ page' = <<>>
      PROVE  Onward'
  BY <1>2, <1>4, <1>5 DEF Onward
<1>6. CASE FetchFails \/ Fetch \/ EndPage
  BY <1>6 DEF FetchFails, Fetch, EndPage, Typed
<1>7. CASE (\E h \in ToSet(Hosts) : Emit(h)) \/ UNCHANGED vars
  <2>1. UNCHANGED <<seen, cursor, pc, next, page>>
    BY <1>7 DEF Emit, vars, mem
  <2> QED
    BY <1>1, <1>5, <2>1
<1>8. CASE Raise \/ PublishFails \/ Drop
  <2>1. UNCHANGED <<seen, cursor>> /\ pc' = "idle" /\ page' = <<>>
    BY <1>8 DEF Raise, PublishFails, Drop, Abort, EndTurn
  <2> QED
    BY <1>1, <1>5, <2>1
<1>9. CASE Connect
  <2>1. /\ UNCHANGED <<seen, cursor, page>> /\ page = <<>>
        /\ next' = IF c = 0 THEN emitted[Hosts[1]] + 1 ELSE IF kind = "bluesky" THEN c ELSE c + 1
    BY <1>1, <1>9 DEF Connect, Typed
  <2>2. next' >= c
    BY <1>1, <2>1
  <2> QED
    BY <1>1, <1>4, <2>1, <2>2 DEF Onward
<1>10. CASE Receive
  <2>1. /\ seen' = seen /\ pc = "open" /\ page' = << <<Hosts[1], next>> >> /\ next' = next + 1
        /\ cursor' = [cursor EXCEPT ![Hosts[1]] = next]
        /\ cursor \in [ToSet(Hosts) -> 0..MaxRecords]
    BY <1>1, <1>10 DEF Receive, Typed, TypeOK
  <2>2. cursor'[Hosts[1]] = next /\ next >= c
    BY <1>1, <1>2, <2>1
  <2>3. 1..c \subseteq 1..next
    BY <1>1, <2>2
  <2>4. f \in [DOMAIN seen -> 1..next]
    BY <1>3, <2>3 DEF Ordered
  <2>5. Ordered(f)'
    BY <1>3, <2>1, <2>2, <2>4 DEF Ordered
  <2> QED
    BY <1>1, <2>1, <2>2, <2>5 DEF Onward
<1>11. CASE Skip \/ Publish
  <2>1. /\ page # <<>> /\ page' = <<>> /\ UNCHANGED <<pc, next, cursor>>
        /\ seen' = seen \/ (~Known(Head(page)) /\ Remember(Head(page)))
    BY <1>2, <1>11 DEF Skip, Publish
  <2>2. PICK r \in Records : r = Head(page)
    BY <2>1 DEF Typed, TypeOK
  <2>3. \E g : Ordered(g)'
    <3>1. CASE seen' = seen
      BY <1>4, <2>1, <3>1
    <3>2. CASE ~Known(r) /\ Remember(r)
      <4>1. r = <<Hosts[1], cursor[Hosts[1]]>> /\ cursor' = cursor
        BY <1>2, <2>1, <2>2
      <4> QED
        BY <1>3, <3>2, <4>1, OrderedTakes
    <3> QED
      BY <2>1, <2>2, <3>1, <3>2
  <2> QED
    BY <1>1, <1>2, <2>1, <2>3 DEF Onward
<1>12. CASE Restart
  <2>1. pc' = "idle" /\ page' = <<>> /\ seen' = <<>>
    BY <1>12 DEF Restart
  <2>2. Ordered(<<>>)'
    BY <2>1 DEF Ordered
  <2> QED
    BY <1>12, <2>1, <2>2 DEF Onward
<1> QED
  BY <1>6, <1>7, <1>8, <1>9, <1>10, <1>11, <1>12 DEF Next, Loop

\* A post that a full LRU drops is not shown again.
LEMMA RoomForRepeats ==
    ASSUME RepeatsAreClose, Typed, Steady, kind \in Streams, NEW f, Ordered(f),
           NEW r \in Records, r = <<Hosts[1], cursor[Hosts[1]]>>, ~Known(r),
           Len(seen) = SeenCap,
           NEW n \in 1..MaxRecords, n >= cursor[Hosts[1]], seen[1] = Post[<<Hosts[1], n>>]
    PROVE  FALSE
<1> DEFINE c == cursor[Hosts[1]]
           near == f[1]..c
           g == [i \in 1..(SeenCap + 1) |-> IF i <= SeenCap THEN f[i] ELSE c]
<1>1. /\ SeenCap \in Nat \ {0} /\ DOMAIN seen = 1..SeenCap /\ SeenKey(r) = Post[r]
      /\ c \in 1..MaxRecords /\ MaxRecords \in Nat
  <2>1. c \in 1..MaxRecords
    BY PairsOf
  <2> QED
    BY <2>1, BoundAssumption DEF Typed, TypeOK, SeenKey, Streams
<1>2. \A i \in 1..SeenCap : f[i] \in 1..c /\ f[i] # c /\ seen[i] = Post[<<Hosts[1], f[i]>>]
  <2>1. \A i \in 1..SeenCap : f[i] \in 1..c /\ seen[i] = Post[<<Hosts[1], f[i]>>]
    BY <1>1 DEF Ordered
  <2>2. \A i \in 1..SeenCap : seen[i] # Post[r]
    BY <1>1 DEF Known
  <2> QED
    BY <2>1, <2>2
<1>3. 1 \in 1..SeenCap /\ f[1] \in 1..c
  <2>1. 1 \in 1..SeenCap
    BY <1>1
  <2> HIDE DEF c
  <2> QED
    BY <1>2, <2>1
<1>4. \A i, j \in 1..SeenCap : f[i] = f[j] => i = j
  <2> SUFFICES ASSUME NEW i \in 1..SeenCap, NEW j \in 1..SeenCap, i # j PROVE f[i] # f[j]
    OBVIOUS
  <2>1. f[i] < f[j] \/ f[j] < f[i]
    <3>1. i < j \/ j < i
      BY <1>1
    <3>2. i \in DOMAIN seen /\ j \in DOMAIN seen
      BY <1>1
    <3> QED
      BY <3>1, <3>2 DEF Ordered
  <2>2. f[i] \in 1..c /\ f[j] \in 1..c
    BY <1>2
  <2> HIDE DEF c
  <2> QED
    BY <1>1, <2>1, <2>2
<1>5. n - f[1] <= SeenCap
  <2>1. f[1] \in 1..MaxRecords /\ Post[<<Hosts[1], f[1]>>] = Post[<<Hosts[1], n>>]
    BY <1>1, <1>2, <1>3
  <2> QED
    BY <2>1 DEF RepeatsAreClose
<1>6. n # c
  BY <1>2, <1>3, <1>1 DEF Known
<1>7. IsFiniteSet(near) /\ Cardinality(near) <= SeenCap
  <2>1. f[1] \in Int /\ c \in Int /\ ~(f[1] > c) /\ n >= c
    BY <1>1, <1>3
  <2> HIDE DEF c
  <2>2. IsFiniteSet(near) /\ Cardinality(near) = c - f[1] + 1
    BY ONLY <2>1, FS_Interval
  <2> HIDE DEF near
  <2> QED
    BY <1>1, <1>3, <1>5, <1>6, <2>1, <2>2
<1>8. \A i \in 1..SeenCap : f[i] \in near
  <2> SUFFICES ASSUME NEW i \in 1..SeenCap PROVE f[i] \in near
    OBVIOUS
  <2>1. i = 1 \/ f[1] < f[i]
    <3>1. i = 1 \/ 1 < i
      BY <1>1
    <3>2. i \in DOMAIN seen /\ 1 \in DOMAIN seen
      BY <1>1, <1>3
    <3> QED
      BY <3>1, <3>2 DEF Ordered
  <2>2. f[i] \in 1..c
    BY <1>2
  <2> HIDE DEF c
  <2> QED
    BY <1>1, <1>3, <2>1, <2>2
<1>9. c \in near
  BY <1>1, <1>3
<1>10. /\ \A i \in 1..(SeenCap + 1) : i \in 1..SeenCap \/ i = SeenCap + 1
       /\ \A i \in 1..SeenCap : g[i] = f[i]
       /\ g[SeenCap + 1] = c
  BY <1>1
<1>11. g \in [1..(SeenCap + 1) -> near]
  <2> HIDE DEF near
  <2> QED
    BY <1>1, <1>8, <1>9
<1> HIDE DEF g, near, c
<1>12. ASSUME NEW i \in 1..(SeenCap + 1), NEW j \in 1..(SeenCap + 1), g[i] = g[j]
       PROVE  i = j
  <2>1. CASE i \in 1..SeenCap /\ j \in 1..SeenCap
    BY <1>4, <1>10, <1>12, <2>1
  <2>2. CASE i \in 1..SeenCap /\ j = SeenCap + 1
    BY <1>2, <1>10, <1>12, <2>2
  <2>3. CASE i = SeenCap + 1 /\ j \in 1..SeenCap
    BY <1>2, <1>10, <1>12, <2>3
  <2> QED
    BY <1>10, <2>1, <2>2, <2>3
<1> QED
  BY <1>7, <1>11, <1>12, TooMany

StreamOnce ==
    kind \in Streams /\ RepeatsAreClose => Onward /\ Counted(Since(cursor[Hosts[1]]))

\* What a stream counted stays true.
LEMMA StreamOnceStep ==
    ASSUME Typed, Typed', Steady, StreamOnce, [Next]_vars
    PROVE  StreamOnce'
<1>1. kind' = kind
  BY Effects
<1> SUFFICES ASSUME kind \in Streams, RepeatsAreClose
             PROVE  Onward' /\ Counted(Since(cursor[Hosts[1]]))'
  BY <1>1 DEF StreamOnce
<1>2. Onward /\ Counted(Since(cursor[Hosts[1]]))
  BY DEF StreamOnce
<1>3. Onward' /\ (Restart \/ cursor'[Hosts[1]] >= cursor[Hosts[1]])
  BY <1>2, OnwardStep
<1>4. PICK c \in 0..MaxRecords : c = cursor[Hosts[1]]
  BY StreamHost
<1>5. PICK new \in 0..MaxRecords : new = cursor'[Hosts[1]]
  BY StreamHost DEF Typed, TypeOK
<1>6. PICK live \in SUBSET Records : live = Since(c)
  BY DEF Since
<1>7. PICK rest \in SUBSET Records : rest = Since(new)
  BY DEF Since
<1>8. \A r \in Records : r[2] \in Int
  BY PairsOf
<1>9. Restart \/ rest \subseteq live
  <2>1. ASSUME new >= c PROVE rest \subseteq live
    <3>1. c \in Int /\ new \in Int
      BY BoundAssumption
    <3> QED
      BY <1>6, <1>7, <1>8, <2>1, <3>1 DEF Since
  <2> QED
    BY <1>3, <1>4, <1>5, <2>1
<1>10. ASSUME page # <<>>
       PROVE  Head(page) \in live /\ Head(page) = <<Hosts[1], cursor[Hosts[1]]>>
  <2>1. Head(page) = <<Hosts[1], c>>
    <3>1. \A x : Head(<<x>>) = x
      OBVIOUS
    <3> QED
      BY <1>2, <1>4, <1>10, <3>1 DEF Onward
  <2>2. Head(page) \in Records
    BY <1>10 DEF Typed, TypeOK
  <2>3. c >= c
    BY BoundAssumption
  <2> QED
    BY <1>4, <1>6, <2>1, <2>2, <2>3 DEF Since
<1>11. ASSUME NEW q \in live, page # <<>>, Taken(Head(page)), Known(q)
       PROVE  Known(q)'
  <2>1. PICK r \in Records : r = Head(page)
    BY <1>10, <1>11
  <2>2. ~Known(r) /\ Remember(r) /\ r = <<Hosts[1], cursor[Hosts[1]]>>
    BY <1>10, <1>11, <2>1 DEF Taken
  <2>3. ASSUME Len(seen) = SeenCap, SeenKey(q) = seen[1] PROVE FALSE
    <3>1. PICK n \in 1..MaxRecords : q = <<Hosts[1], n>> /\ n >= c
      BY <1>6, PairsOf DEF Since
    <3>2. seen[1] = Post[<<Hosts[1], n>>]
      BY <2>3, <3>1 DEF SeenKey, Streams
    <3>3. PICK f : Ordered(f)
      BY <1>2 DEF Onward
    <3> QED
      BY <1>4, <2>2, <2>3, <3>1, <3>2, <3>3, RoomForRepeats
  <2> QED
    BY <1>1, <1>11, <2>2, <2>3, RememberKeeps
<1>12. Counted(rest)'
  BY <1>2, <1>4, <1>6, <1>9, <1>10, <1>11, CountedStep
<1> QED
  BY <1>3, <1>5, <1>7, <1>12

LEMMA StreamOnceInit == Init => StreamOnce
<1> SUFFICES ASSUME Init PROVE StreamOnce
  OBVIOUS
<1>1. Counted(Records)
  BY SteadyInit
<1>2. Ordered(<<>>)
  BY DEF Init, Ordered
<1>3. Onward
  BY <1>2 DEF Init, Onward
<1>4. Counted(Since(cursor[Hosts[1]]))
  BY <1>1 DEF Counted, Since
<1> QED
  BY <1>3, <1>4 DEF StreamOnce

\* A poll loop whose LRU has room for what can come after a record while the feed shows
\* it, 2 * PAGE - 1 keys, and a stream, which repeats no more than the event at its
\* cursor, with an LRU that spans the distance at which the source shows a post again,
\* publish a post again only after a restart or a publish in doubt, whatever else breaks
\* off their pages (poll_once in ingest/runner.py, bluesky/main.py, wikipedia/main.py).
THEOREM ShelteredPublishOnce == Spec => []PublishedOnce
<1>1. Init => Steady /\ PollOnce /\ StreamOnce
  BY SteadyInit, PollOnceInit, StreamOnceInit
<1>2. Typed /\ Typed' /\ Steady /\ PollOnce /\ StreamOnce /\ [Next]_vars
      => Steady' /\ PollOnce' /\ StreamOnce'
  BY SteadyStep, PollOnceStep, StreamOnceStep
<1>3. Typed /\ Steady /\ PollOnce /\ StreamOnce => PublishedOnce
  <2> SUFFICES ASSUME Typed, Steady, PollOnce, StreamOnce, Sheltered PROVE PublishedOnce
    BY DEF PublishedOnce
  <2>1. \A n : Since(n) \in SUBSET Records
    BY DEF Since
  <2>2. \E n : Counted(Since(n))
    BY DEF Sheltered, PollOnce, StreamOnce
  <2> QED
    BY <2>1, <2>2, CountedIsOnce
<1> QED
  BY <1>1, <1>2, <1>3, AlwaysTyped, PTL DEF Spec

----------------------------------------------------------------------------
(* The LRU of any loop                                                     *)

\* The LRU holds the end of told, and all of it until it is full.
EndOfTold ==
    /\ told \in Seq(Records)
    /\ Len(seen) <= Len(told)
    /\ Len(seen) = Len(told) \/ Len(seen) = SeenCap
    /\ \A k \in 1..Len(seen) : seen[k] = told[Len(told) - Len(seen) + k]

\* A step leaves the LRU and its history alone, clears both or adds a key that was not
\* there to both.
LEMMA ToldEffects ==
    ASSUME [Next]_vars
    PROVE  \/ UNCHANGED <<seen, told>>
           \/ seen' = <<>> /\ told' = <<>>
           \/ /\ page # <<>> /\ ~Known(Head(page))
              /\ Remember(Head(page)) /\ Done(Head(page))
  BY DEF Next, Loop, Emit, FetchFails, Fetch, Connect, Receive, Skip, Publish, EndPage,
         PublishFails, Raise, Drop, Abort, Restart, vars, mem

\* A key that the LRU does not hold was not among the last SEEN_CAP of told.
LEMMA UnknownIsFar ==
    ASSUME Typed, EndOfTold, NEW r \in Records, ~Known(r),
           NEW i \in 1..Len(told), told[i] = SeenKey(r)
    PROVE  Len(told) + 1 - i > SeenCap
<1>1. seen \in Seq(Records) /\ told \in Seq(Records)
  BY DEF Typed, TypeOK, EndOfTold
<1>2. PICK n \in Nat : n = Len(seen) /\ DOMAIN seen = 1..n
  BY ONLY <1>1
<1>3. PICK l \in Nat : l = Len(told)
  BY ONLY <1>1
<1>4. /\ n <= l /\ (n = l \/ n = SeenCap) /\ SeenCap \in Nat /\ i \in 1..l
      /\ \A k \in 1..n : seen[k] = told[l - n + k]
  BY <1>2, <1>3, BoundAssumption DEF EndOfTold
<1>5. ASSUME NEW k \in 1..n, l - n + k = i PROVE FALSE
  <2>1. seen[k] = SeenKey(r)
    BY ONLY <1>4, <1>5, told[i] = SeenKey(r)
  <2> QED
    BY <1>2, <2>1 DEF Known
<1>6. ASSUME l + 1 - i <= SeenCap PROVE FALSE
  <2>1. PICK k \in 1..n : l - n + k = i
    <3>1. i - (l - n) \in 1..n /\ l - n + (i - (l - n)) = i
      BY ONLY <1>4, <1>6, n \in Nat, l \in Nat
    <3> QED
      BY <3>1
  <2> QED
    BY <1>5, <2>1
<1>7. l + 1 - i > SeenCap
  BY ONLY <1>4, <1>6, l \in Nat
<1> QED
  BY <1>3, <1>7

\* What the step of the LRU does to the end of told.
LEMMA EndOfToldStep ==
    ASSUME Typed, EndOfTold, OnceEach, [Next]_vars
    PROVE  EndOfTold' /\ OnceEach'
<1>1. CASE UNCHANGED <<seen, told>>
  BY <1>1 DEF EndOfTold, OnceEach
<1>2. CASE seen' = <<>> /\ told' = <<>>
  BY <1>2 DEF EndOfTold, OnceEach
<1>3. ASSUME page # <<>>, ~Known(Head(page)), Remember(Head(page)), Done(Head(page))
      PROVE  EndOfTold' /\ OnceEach'
  <2>1. PICK r \in Records : r = Head(page)
    BY <1>3 DEF Typed, TypeOK
  <2>2. PICK d \in {0, 1} : Shifted(d, r)
    BY <1>3, <2>1, RememberIs
  <2>3. SeenKey(r) \in Records /\ told' = Append(told, SeenKey(r))
    BY <1>3, <2>1, PostAssumption DEF SeenKey, Done
  <2>0. told \in Seq(Records) /\ seen \in Seq(Records)
    BY DEF Typed, TypeOK, EndOfTold
  <2>4. /\ told' \in Seq(Records) /\ Len(told') = Len(told) + 1
        /\ DOMAIN told = 1..Len(told) /\ DOMAIN told' = 1..Len(told')
        /\ \A i \in 1..Len(told) : told'[i] = told[i]
        /\ told'[Len(told')] = SeenKey(r)
        /\ Len(told) \in Nat /\ Len(seen) \in Nat /\ SeenCap \in Nat
    BY ONLY <2>0, <2>3, BoundAssumption
  <2>5. EndOfTold'
    <3>1. /\ Len(seen') = Len(seen) + 1 - d /\ Len(seen) <= Len(told)
          /\ Len(seen) = Len(told) \/ Len(seen) = SeenCap
          /\ d = 1 <=> Len(seen) = SeenCap
      BY <2>2 DEF EndOfTold, Shifted
    <3>2. Len(seen') <= Len(told') /\ (Len(seen') = Len(told') \/ Len(seen') = SeenCap)
      BY <2>4, <3>1
    <3>3. ASSUME NEW k \in 1..Len(seen')
          PROVE  seen'[k] = told'[Len(told') - Len(seen') + k]
      <4>1. CASE k = Len(seen')
        <5>1. Len(told') - Len(seen') + k = Len(told')
          BY <2>4, <3>1, <4>1
        <5> QED
          BY <2>2, <2>4, <4>1, <5>1 DEF Shifted
      <4>2. CASE k # Len(seen')
        <5>1. k \in 1..(Len(seen) - d)
          BY <2>4, <3>1, <4>2
        <5>2. /\ k + d \in 1..Len(seen)
              /\ Len(told) - Len(seen) + (k + d) = Len(told') - Len(seen') + k
              /\ Len(told') - Len(seen') + k \in 1..Len(told)
          BY <2>4, <3>1, <5>1
        <5>3. seen'[k] = seen[k + d] /\ seen[k + d] = told[Len(told) - Len(seen) + (k + d)]
          BY <2>2, <5>1, <5>2 DEF Shifted, EndOfTold
        <5> QED
          BY <2>4, <5>2, <5>3
      <4> QED
        BY <4>1, <4>2
    <3> QED
      BY <2>4, <3>2, <3>3 DEF EndOfTold
  <2>6. ASSUME NEW i \in 1..Len(told'), NEW j \in 1..Len(told'), i < j, told'[i] = told'[j]
        PROVE  j - i > SeenCap
    <3>1. i \in 1..Len(told) /\ told'[i] = told[i]
      BY <2>4, <2>6
    <3>2. CASE j = Len(told')
      <4>1. told[i] = SeenKey(r)
        BY <2>4, <2>6, <3>1, <3>2
      <4>2. Len(told) + 1 - i > SeenCap
        BY <1>3, <2>1, <3>1, <4>1, UnknownIsFar
      <4> QED
        BY <2>4, <3>2, <4>2
    <3>3. CASE j # Len(told')
      <4>1. j \in 1..Len(told) /\ told'[j] = told[j]
        BY <2>4, <3>3
      <4> QED
        BY <2>4, <2>6, <3>1, <4>1 DEF OnceEach
    <3> QED
      BY <3>2, <3>3
  <2>7. OnceEach'
    BY <2>4, <2>6 DEF OnceEach
  <2> QED
    BY <2>5, <2>7
<1> QED
  BY <1>1, <1>2, <1>3, ToldEffects

\* No loop, of any source and with an LRU of any size, is done with a post twice unless
\* SEEN_CAP others came between: mastodon's over all its instances as well, which reads
\* pages again while a status keeps raising (_remember in mastodon/main.py, runner.py).
THEOREM LruKeepsOnce == Spec => []OnceEach
<1>1. Init => EndOfTold /\ OnceEach
  BY DEF Init, EndOfTold, OnceEach
<1>2. Typed /\ EndOfTold /\ OnceEach /\ [Next]_vars => EndOfTold' /\ OnceEach'
  BY EndOfToldStep
<1> QED
  BY <1>1, <1>2, AlwaysTyped, PTL DEF Spec
===============================================================================
