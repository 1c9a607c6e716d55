-------------------------------- MODULE Ingest --------------------------------
(***************************************************************************)
(* One ingester, of any of the kinds the code has (services/ingest):       *)
(*   poll       the whole feed is read again and again (runner.py);        *)
(*   mastodon   a page after since_id, from every instance in turn;        *)
(*   bluesky    a stream that resumes AT the cursor;                       *)
(*   wikipedia  a stream that resumes AFTER Last-Event-ID.                 *)
(* A source emits records 1, 2, ... and shows the newest of them first.    *)
(* What a record is worth is decided by should_keep and normalize; two     *)
(* records can be one post (a boost seen on two instances).                *)
(***************************************************************************)
EXTENDS SequencesExt, Integers

CONSTANTS Hosts,       \* INSTANCES, in the order they are polled
          MaxRecords,  \* bound on the records of a host
          Supply,      \* [host -> what it emits at most]
          Worth,       \* [host, record -> "item" | "unusable" | "raises"]
          Post,        \* [host, record -> the first record of the same post]
          Page,        \* PAGE_LIMIT, or what a feed shows at once
          SeenCap,     \* SEEN_CAP
          Faults       \* bound on the failures of each kind

FaultKinds == {"publish", "doubt", "drop", "restart"}

Streams == {"bluesky", "wikipedia"}

None == -1   \* no start yet

Records == ToSet(Hosts) \X (1..MaxRecords)

ASSUME HostsAssumption == Hosts \in Seq(ToSet(Hosts)) /\ Hosts # <<>>
ASSUME BoundAssumption == MaxRecords \in Nat /\ Page \in Nat \ {0} /\ SeenCap \in Nat \ {0}
ASSUME SupplyAssumption == Supply \in [ToSet(Hosts) -> 0..MaxRecords]
ASSUME PostAssumption == Post \in [Records -> Records]
ASSUME FaultsAssumption == Faults \in [FaultKinds -> Nat]
ASSUME WorthAssumption == Worth \in [Records -> {"item", "unusable", "raises"}]

VARIABLES
    kind,
    down,       \* hosts that never answer
    emitted,    \* records each host has emitted
    pc,         \* "idle", "page" or, for a stream, "open"
    turn,       \* the instance being polled
    page,       \* records fetched and not handled, newest first
    next,       \* the cursor once the page is through, or the next event of a stream
    cursor,     \* since_id, cursor, last_id; 0 is None
    seen,       \* the LRU, oldest first
    start,      \* history: the process began to look after this record
    missed,     \* history: records the source never handed over
    sent,       \* history: publishes the broker stored
    told,       \* history: the keys this process was done with, oldest first
    left

feed == <<kind, down, emitted>>
mem  == <<turn, page, next, cursor, seen, told>>
vars == <<feed, pc, mem, start, missed, sent, left>>

TypeOK ==
    /\ emitted \in [ToSet(Hosts) -> 0..MaxRecords]
    /\ pc \in {"idle", "page", "open"}
    /\ turn \in 1..Len(Hosts)
    /\ page \in Seq(Records)
    /\ next \in 0..(MaxRecords + 1)
    /\ cursor \in [ToSet(Hosts) -> 0..MaxRecords]
    /\ seen \in Seq(Records) /\ Len(seen) <= SeenCap
    /\ missed \subseteq Records
    /\ sent \in [Records -> Nat]

Fault(k) == left[k] > 0 /\ left' = [left EXCEPT ![k] = @ - 1]

Host == Hosts[turn]

Init ==
    /\ kind \in Streams \cup {"poll", "mastodon"}
    /\ down \in SUBSET ToSet(Hosts)
    /\ emitted = [h \in ToSet(Hosts) |-> 0]
    /\ pc = "idle" /\ turn = 1 /\ page = <<>> /\ next = 0
    /\ cursor = [h \in ToSet(Hosts) |-> 0]
    /\ seen = <<>>
    /\ start = [h \in ToSet(Hosts) |-> None]
    /\ missed = {}
    /\ sent = [r \in Records |-> 0]
    /\ told = <<>>
    /\ left = Faults

Emit(h) ==
    /\ kind = "mastodon" \/ h = Hosts[1]
    /\ emitted[h] < Supply[h]
    /\ emitted' = [emitted EXCEPT ![h] = @ + 1]
    /\ UNCHANGED <<kind, down, pc, mem, start, missed, sent, left>>

----------------------------------------------------------------------------
(* Fetching                                                                *)

\* Records first..last of the host whose turn it is, newest first.
Newest(first, last) ==
    [k \in 1..(last - first + 1) |-> <<Host, last - k + 1>>]

\* One source has one feed; only mastodon goes through all instances.
Rounds == IF kind = "mastodon" THEN Len(Hosts) ELSE 1

\* The next instance, or POLL_SECONDS of sleep and the first one again.
EndTurn ==
    /\ turn' = IF turn < Rounds THEN turn + 1 ELSE 1
    /\ pc' = "idle" /\ page' = <<>> /\ next' = 0

\* Mutant: a cycle ends at the first host that fails.
FetchFailsRound ==
    /\ kind \notin Streams /\ pc = "idle" /\ Host \in down
    /\ turn' = 1
    /\ UNCHANGED <<feed, pc, page, next, cursor, seen, told, start, missed, sent, left>>

\* The GET of a host that does not answer: "instance poll failed; skipping".
FetchFails ==
    /\ kind \notin Streams /\ pc = "idle" /\ Host \in down
    /\ EndTurn
    /\ UNCHANGED <<feed, cursor, seen, told, start, missed, sent, left>>

\* What is read now begins at first; what came between it and what was read before
\* is lost to this process.
Overlook(first) ==
    LET before == IF cursor[Host] # 0 THEN cursor[Host]
                  ELSE IF start[Host] # None THEN start[Host] ELSE first - 1
    IN
    /\ start' = [start EXCEPT ![Host] = IF @ = None THEN first - 1 ELSE @]
    /\ missed' = missed \cup {<<Host, r>> : r \in (before + 1)..(first - 1)}

\* Mutant: since_id moves with the request.
FetchMovesCursor ==
    LET last == emitted[Host]
        since == IF kind = "mastodon" THEN cursor[Host] ELSE 0
        first == IF since < last - Page THEN last - Page + 1 ELSE since + 1
    IN  /\ kind \notin Streams /\ pc = "idle" /\ Host \notin down
        /\ pc' = "page"
        /\ page' = Newest(first, last)
        /\ next' = last
        /\ cursor' = [cursor EXCEPT ![Host] = IF kind = "mastodon" THEN last ELSE @]
        /\ IF kind = "poll" THEN UNCHANGED <<start, missed>> ELSE Overlook(first)
        /\ UNCHANGED <<feed, turn, seen, told, sent, left>>

\* One page: what the feed shows, or the newest records after since_id; older ones
\* that do not fit on it are never seen.
Fetch ==
    LET last == emitted[Host]
        since == IF kind = "mastodon" THEN cursor[Host] ELSE 0
        first == IF since < last - Page THEN last - Page + 1 ELSE since + 1
    IN  /\ kind \notin Streams /\ pc = "idle" /\ Host \notin down
        /\ pc' = "page"
        /\ page' = Newest(first, last)
        /\ next' = last
        /\ IF kind = "poll" THEN UNCHANGED <<start, missed>> ELSE Overlook(first)
        /\ UNCHANGED <<feed, turn, cursor, seen, told, sent, left>>

\* websockets.connect and sse_events: at the cursor, after it, or from now on.
Connect ==
    /\ kind \in Streams /\ pc = "idle" /\ Host \notin down
    /\ pc' = "open"
    /\ next' = IF cursor[Host] = 0 THEN emitted[Host] + 1
               ELSE IF kind = "bluesky" THEN cursor[Host] ELSE cursor[Host] + 1
    /\ Overlook(next')
    /\ UNCHANGED <<feed, turn, page, cursor, seen, told, sent, left>>

\* The next event of the stream: the cursor moves before anything is done with it.
Receive ==
    /\ pc = "open" /\ page = <<>>
    /\ next <= emitted[Host]
    /\ page' = << <<Host, next>> >>
    /\ cursor' = [cursor EXCEPT ![Host] = next]
    /\ next' = next + 1
    /\ UNCHANGED <<feed, pc, turn, seen, told, start, missed, sent, left>>

----------------------------------------------------------------------------
(* The loop over the records                                               *)

\* The poll loop knows records by dedup_key, the others posts by content_hash.
SeenKey(r) == IF kind = "poll" THEN r ELSE Post[r]

Known(r) == \E k \in DOMAIN seen : seen[k] = SeenKey(r)

\* Mutant: one too many is kept.
RememberOneMore(r) ==
    seen' = IF Len(seen) > SeenCap THEN Append(Tail(seen), SeenKey(r))
            ELSE Append(seen, SeenKey(r))

\* Mutant: a key that is read again is not kept.
RememberNothing(r) == UNCHANGED seen

\* Mutant: the newest key makes room.
RememberForNewest(r) ==
    seen' = IF Len(seen) >= SeenCap THEN Append(Front(seen), SeenKey(r))
            ELSE Append(seen, SeenKey(r))

\* _remember a key that is not there.
Remember(r) ==
    seen' = IF Len(seen) >= SeenCap THEN Append(Tail(seen), SeenKey(r))
            ELSE Append(seen, SeenKey(r))

\* A key is done with: it is published, or of no use.
Done(r) == told' = Append(told, SeenKey(r))

\* Seen already, not kept or not normalized; poll_once remembers what it cannot use.
Skip ==
    /\ page # <<>>
    /\ LET r == Head(page) IN
          \/ Worth[r] = "unusable"
             /\ IF kind = "poll" /\ ~Known(r) THEN Remember(r) /\ Done(r)
                ELSE UNCHANGED <<seen, told>>
          \/ Worth[r] = "item" /\ Known(r) /\ UNCHANGED <<seen, told>>
    /\ page' = Tail(page)
    /\ UNCHANGED <<feed, pc, turn, next, cursor, start, missed, sent, left>>

\* Publish, then remember.
Publish ==
    /\ page # <<>>
    /\ LET r == Head(page) IN
          /\ Worth[r] = "item" /\ ~Known(r)
          /\ Remember(r) /\ Done(r)
          /\ sent' = [sent EXCEPT ![r] = @ + 1]
    /\ page' = Tail(page)
    /\ UNCHANGED <<feed, pc, turn, next, cursor, start, missed, left>>

\* The page is through: since_id moves.
EndPage ==
    /\ pc = "page" /\ page = <<>>
    /\ cursor' = [cursor EXCEPT ![Host] = IF kind = "mastodon" THEN next ELSE @]
    /\ EndTurn
    /\ UNCHANGED <<feed, seen, told, start, missed, sent, left>>

\* An exception ends the page or the stream; the cursor stays where it is.  A stream
\* that resumes after its cursor has then dropped the record in hand.
Abort ==
    /\ EndTurn
    /\ missed' = IF kind = "wikipedia" /\ page # <<>> THEN missed \cup {Head(page)}
                 ELSE missed
    /\ UNCHANGED <<feed, cursor, seen, told, start>>

\* The publish raises, before the broker has it or after.
PublishFails ==
    /\ page # <<>>
    /\ Worth[Head(page)] = "item" /\ ~Known(Head(page))
    /\ \/ Fault("publish") /\ UNCHANGED sent
       \/ Fault("doubt") /\ sent' = [sent EXCEPT ![Head(page)] = @ + 1]
    /\ Abort

\* normalize raises, and will again.
Raise ==
    /\ page # <<>>
    /\ Worth[Head(page)] = "raises"
    /\ Abort
    /\ UNCHANGED <<sent, left>>

\* The server hangs up, or nothing comes for a minute.
Drop ==
    /\ pc = "open" /\ page = <<>>
    /\ Fault("drop")
    /\ Abort
    /\ UNCHANGED sent

\* The pod dies; cursor and seen were in memory.
Restart ==
    /\ Fault("restart")
    /\ pc' = "idle" /\ turn' = 1 /\ page' = <<>> /\ next' = 0
    /\ cursor' = [h \in ToSet(Hosts) |-> 0]
    /\ seen' = <<>> /\ told' = <<>>
    /\ start' = [h \in ToSet(Hosts) |-> None]
    /\ UNCHANGED <<feed, missed, sent>>

Loop == FetchFails \/ Fetch \/ Connect \/ Receive \/ Skip \/ Publish \/ EndPage \/ Raise

Next ==
    \/ \E h \in ToSet(Hosts) : Emit(h)
    \/ Loop \/ PublishFails \/ Drop \/ Restart

Spec == Init /\ [][Next]_vars

\* The loops run; sources owe nothing.
FairSpec == Spec /\ WF_vars(Loop)

----------------------------------------------------------------------------
(* Properties                                                              *)

Arrived(r) == \E q \in Records : Post[q] = Post[r] /\ sent[q] > 0

\* What a cursor has gone past is published, but for the record in hand, what did
\* not fit on a page and what was in hand when a stream that resumes after its
\* cursor broke: "a blip replays instead of gaps" (bluesky/main.py).
NoGap ==
    \A h \in ToSet(Hosts) : \A n \in 1..MaxRecords :
        LET r == <<h, n>> IN
        /\ Worth[r] = "item" /\ r \notin missed
        /\ start[h] < n
        /\ IF kind = "bluesky" THEN n < cursor[h] ELSE n <= cursor[h]
        /\ page = <<>> \/ r # Head(page)
        => Arrived(r)

\* Replays, overlapping polls and instances that show one post are collapsed by the
\* LRU: a process is done with a post again only when SEEN_CAP others came between.
\* (A restart begins told anew, and what is in doubt was not done with.)
OnceEach ==
    \A i, j \in DOMAIN told : i < j /\ told[i] = told[j] => j - i > SeenCap

\* One post of a stream is not shown again after more than SEEN_CAP events.
RepeatsAreClose ==
    \A m, n \in 1..MaxRecords :
        Post[<<Hosts[1], m>>] = Post[<<Hosts[1], n>>] => n - m <= SeenCap

\* The LRU spans what the source can show again: all that can come after a record while
\* a feed shows it, the distance of repeats in a stream.  Nothing spans the pages that
\* mastodon reads again while a status keeps raising.
Sheltered ==
    \/ kind = "poll" /\ 2 * Page - 1 <= SeenCap
    \/ kind \in Streams /\ RepeatsAreClose

\* Where it spans that, a post is published again only after a restart or a publish in
\* doubt, whatever breaks off the pages.
PublishedOnce ==
    Sheltered =>
        \A r \in Records :
            MapThenSumSet(LAMBDA q : sent[q], {q \in Records : SeenKey(q) = SeenKey(r)})
                <= 1 + (Faults["doubt"] - left["doubt"]) + (Faults["restart"] - left["restart"])

\* A record that normalize raises on keeps back the older records of a feed and the
\* later events of bluesky.
Blocked(h, n) ==
    \E m \in 1..emitted[h] :
        /\ Worth[<<h, m>>] = "raises"
        /\ IF kind = "bluesky" THEN m < n ELSE kind # "wikipedia" /\ m > n

\* Everything a source that answers still shows arrives in the end, through failed
\* publishes, dropped connections and restarts, and whatever the other hosts do:
\* "one bad host must not stall the others" (mastodon/main.py).
EveryPostArrives ==
    <>[](\A i \in 1..Rounds : \A n \in 1..MaxRecords :
            LET h == Hosts[i] IN
            /\ h \notin down /\ n <= emitted[h]
            /\ IF kind = "poll" THEN n > emitted[h] - Page ELSE n > start[h]
            /\ Worth[<<h, n>>] = "item" /\ <<h, n>> \notin missed /\ ~Blocked(h, n)
            => Arrived(<<h, n>>))
=============================================================================
