----------------------------- MODULE RulesProofs -----------------------------
(***************************************************************************)
(* The pure functions and the read API for every input: sorting, the       *)
(* promotion gate, the identities of the sources, the velocity score, what *)
(* the feed answers, the gazetteer, the merge, the fingerprint, the        *)
(* tokenizer and the decoding of entities.                                 *)
(***************************************************************************)
EXTENDS Rules, Sums, NaturalsInduction, SequenceTheorems

----------------------------------------------------------------------------
(* Sorting                                                                 *)

\* before is a strict total order of S.
Orders(before, S) ==
    /\ \A s \in S : <<s, s>> \notin before
    /\ \A s, t \in S : s # t => <<s, t>> \in before \/ <<t, s>> \in before
    /\ \A s, t, u \in S : <<s, t>> \in before /\ <<t, u>> \in before => <<s, u>> \in before

Before(S, before, s) == {t \in S : <<t, s>> \in before}

\* The numbers of elements before an element are 0, 1, ... in the order of before.
LEMMA RanksGrow ==
    ASSUME NEW S, IsFiniteSet(S), NEW before, Orders(before, S), NEW s \in S
    PROVE  /\ Cardinality(Before(S, before, s)) \in 0..(Cardinality(S) - 1)
           /\ \A t \in S : <<s, t>> \in before =>
                 Cardinality(Before(S, before, s)) < Cardinality(Before(S, before, t))
<1>0. Cardinality(S) \in Nat
  BY FS_CardinalityType
<1>1. IsFiniteSet(Before(S, before, s)) /\ Before(S, before, s) \subseteq S \ {s}
  BY FS_Subset DEF Before, Orders
<1>2. Cardinality(Before(S, before, s)) \in Nat
  BY <1>1, FS_CardinalityType
<1>3. IsFiniteSet(S \ {s}) /\ Cardinality(S \ {s}) = Cardinality(S) - 1
  BY FS_RemoveElement
<1>4. Cardinality(Before(S, before, s)) <= Cardinality(S \ {s})
  BY <1>1, <1>3, FS_Subset
<1>5. ASSUME NEW t \in S, <<s, t>> \in before
      PROVE  Cardinality(Before(S, before, s)) < Cardinality(Before(S, before, t))
  <2>1. Before(S, before, s) \subseteq Before(S, before, t)
    BY <1>5 DEF Before, Orders
  <2>2. s \in Before(S, before, t) /\ s \notin Before(S, before, s)
    BY <1>5 DEF Before, Orders
  <2>3. IsFiniteSet(Before(S, before, t))
    BY FS_Subset DEF Before
  <2>4. Cardinality(Before(S, before, t)) \in Nat
    BY <2>3, FS_CardinalityType
  <2>5. /\ Cardinality(Before(S, before, s)) <= Cardinality(Before(S, before, t))
        /\ Cardinality(Before(S, before, s)) # Cardinality(Before(S, before, t))
    BY <2>1, <2>2, <2>3, FS_Subset
  <2> QED
    BY <1>2, <2>4, <2>5
<1> QED
  BY <1>0, <1>2, <1>3, <1>4, <1>5

\* What is sorted is S, each element once, and in the order of before.
LEMMA InOrderIs ==
    ASSUME NEW S, IsFiniteSet(S), NEW before, Orders(before, S)
    PROVE  /\ Cardinality(S) \in Nat
           /\ InOrder(S, before) \in [1..Cardinality(S) -> S]
           /\ \A i, j \in 1..Cardinality(S) :
                 i < j => <<InOrder(S, before)[i], InOrder(S, before)[j]>> \in before
           /\ \A s \in S : \E i \in 1..Cardinality(S) : InOrder(S, before)[i] = s
<1> DEFINE n == Cardinality(S)
           rank == [s \in S |-> Cardinality(Before(S, before, s)) + 1]
           o == InOrder(S, before)
<1>1. n \in Nat
  BY FS_CardinalityType
<1>2. \A s \in S : rank[s] \in 1..n
  BY <1>1, RanksGrow
<1>3. \A s, t \in S : <<s, t>> \in before => rank[s] < rank[t]
  <2>1. ASSUME NEW s \in S, NEW t \in S, <<s, t>> \in before
        PROVE  rank[s] < rank[t]
    <3>1. Cardinality(Before(S, before, s)) < Cardinality(Before(S, before, t))
      BY <2>1, RanksGrow
    <3>2. rank[s] \in 1..n /\ rank[t] \in 1..n
      BY <1>2
    <3>3. /\ Cardinality(Before(S, before, s)) \in 0..(n - 1)
          /\ Cardinality(Before(S, before, t)) \in 0..(n - 1)
      BY RanksGrow
    <3> QED
      BY <1>1, <3>1, <3>3
  <2> QED
    BY <2>1
<1>4. rank \in [S -> 1..n]
  BY <1>2
<1>5. \A s, t \in S : rank[s] = rank[t] => s = t
  <2>1. ASSUME NEW s \in S, NEW t \in S, rank[s] = rank[t], s # t
        PROVE  FALSE
    <3>1. <<s, t>> \in before \/ <<t, s>> \in before
      BY <2>1 DEF Orders
    <3>2. rank[s] < rank[t] \/ rank[t] < rank[s]
      BY <3>1, <1>3
    <3>3. rank[s] \in 1..n /\ rank[t] \in 1..n
      BY <1>2
    <3> HIDE DEF rank
    <3> QED
      BY <1>1, <2>1, <3>2, <3>3
  <2> QED
    BY <2>1
<1>6. rank \in Injection(S, 1..n)
  <2> HIDE DEF rank
  <2> QED
    BY <1>4, <1>5 DEF Injection, IsInjective
<1>7. IsFiniteSet(1..n) /\ Cardinality(1..n) = n
  BY <1>1, FS_Interval
<1>8. rank \in Surjection(S, 1..n)
  <2> HIDE DEF rank
  <2> QED
    BY <1>6, <1>7, FS_Injection
<1>9. \A k \in 1..n : \E s \in S : rank[s] = k
  <2> HIDE DEF rank
  <2> QED
    BY <1>8 DEF Surjection
<1>10. \A k \in 1..n : o[k] = CHOOSE s \in S : Cardinality(Before(S, before, s)) = k - 1
  BY DEF InOrder, Before
<1>11. \A k \in 1..n : o[k] \in S /\ rank[o[k]] = k
  <2> TAKE k \in 1..n
  <2>1. PICK s \in S : rank[s] = k
    BY <1>9
  <2>2. Cardinality(Before(S, before, s)) \in 0..(n - 1)
    BY RanksGrow
  <2>3. Cardinality(Before(S, before, s)) = k - 1
    BY <1>1, <2>1, <2>2
  <2>4. o[k] \in S /\ Cardinality(Before(S, before, o[k])) = k - 1
    <3> HIDE DEF o
    <3> QED
      BY <1>10, <2>3
  <2> HIDE DEF o
  <2> QED
    BY <2>4
<1>12. o = [k \in 1..n |-> CHOOSE s \in S : Cardinality(Before(S, before, s)) = k - 1]
  BY DEF InOrder, Before
<1>13. o \in [1..n -> S]
  <2>1. \A k \in 1..n : (CHOOSE s \in S : Cardinality(Before(S, before, s)) = k - 1) \in S
    BY <1>10, <1>11
  <2> HIDE DEF o
  <2> QED
    BY <1>12, <2>1
<1> HIDE DEF o
<1> HIDE DEF rank
<1>14. ASSUME NEW i \in 1..n, NEW j \in 1..n, i < j
       PROVE  <<o[i], o[j]>> \in before
  <2>1. o[i] \in S /\ o[j] \in S /\ rank[o[i]] = i /\ rank[o[j]] = j
    BY <1>11
  <2>2. o[i] # o[j]
    BY <1>1, <1>14, <2>1
  <2>3. ~ (<<o[j], o[i]>> \in before)
    BY <1>1, <1>3, <1>14, <2>1
  <2> QED
    BY <2>1, <2>2, <2>3 DEF Orders
<1>15. \A s \in S : o[rank[s]] = s
  BY <1>2, <1>5, <1>11
<1> QED
  BY <1>1, <1>2, <1>13, <1>14, <1>15 DEF o

----------------------------------------------------------------------------
(* Calls                                                                   *)

Sorted(c) == FetchLabels(c.view)

\* A call is one of those given, and an answer is that of its function.
Called ==
    \/ call \in EncodeCalls \cup NerCalls \cup MatchCalls \cup MergeCalls \cup HashCalls
    \/ call \in GateCalls
    \/ call \in VelocityCalls
    \/ \E s \in DOMAIN RecordsOf :
          call \in [rule : {"record"}, source : {s}, a : RecordsOf[s].any, b : RecordsOf[s].plain]
    \/ call = Serve

Score(c, buckets) ==
    VelocityZ(FillSeries(buckets, 1, c.until), c.num, c.den, c.least, c.flat)

Returned ==
    /\ Answered("encode") =>
          answer = Encode(call.text, call.vocab, call.uncased, call.maxLen)
    /\ Answered("ner") =>
          answer = Extract(call.text, call.vocab, call.uncased, call.maxLen, call.pred)
    /\ Answered("match") => answer = Match(call.tokens, call.phrases)
    /\ Answered("merge") => answer = Merge(Merge(call.item, call.hits), call.found)
    /\ Answered("hash") =>
          LET v == Simhash(Features(call.tokens), call.hash)
          IN  answer = [value |-> v, stored |-> ToSigned(v), back |-> FromSigned(ToSigned(v))]
    /\ Answered("record") =>
          answer = <<Normalize(call.source, call.a), Normalize(call.source, call.b)>>
    /\ Answered("gate") =>
          answer = [split |-> TimeSplit(Sorted(call)),
                    promoted |-> ShouldPromote(call.candidate, call.current, Sorted(call))]
    /\ Answered("velocity") =>
          answer = [z |-> Score(call, call.buckets), busier |-> Score(call, Busier(call)),
                    louder |-> Score(call, Louder(call))]

LEMMA CallsInit == Init => Called /\ Returned
  BY DEF Init, Called, Returned, Answered

LEMMA CallsStep == Called /\ Returned /\ [Next]_<<rulevars, apivars>> => (Called /\ Returned)'
<1> SUFFICES ASSUME Called, Returned, [Next]_<<rulevars, apivars>>
             PROVE  (Called /\ Returned)'
  OBVIOUS
<1>1. CASE UNCHANGED rulevars
  BY <1>1 DEF Called, Returned, Answered, rulevars, Score, Sorted, Busier, Louder
<1>2. CASE Tokenize
  BY <1>2 DEF Called, Returned, Answered, Call, Tokenize
<1>3. CASE Recognize
  BY <1>3 DEF Called, Returned, Answered, Call, Recognize
<1>7. CASE Tag \/ MergeBoth \/ Fingerprint
  BY <1>7 DEF Called, Returned, Answered, Call, Tag, MergeBoth, Fingerprint
<1>4. CASE Ingest
  BY <1>4 DEF Called, Returned, Answered, Call, Ingest
<1>5. CASE Evaluate
  BY <1>5 DEF Called, Returned, Answered, Call, Evaluate, Sorted
<1>6. CASE Measure
  <2>1. call.rule = "velocity" /\ call' = call
    BY <1>6 DEF Measure, Call
  <2>2. answer' = [z |-> Score(call, call.buckets), busier |-> Score(call, Busier(call)),
                   louder |-> Score(call, Louder(call))]
    BY <1>6 DEF Measure, Call, Score
  <2>3. Returned'
    BY <2>1, <2>2 DEF Returned, Answered, Score, Busier, Louder
  <2> QED
    BY <2>1, <2>3 DEF Called
<1> QED
  BY <1>1, <1>2, <1>3, <1>4, <1>5, <1>6, <1>7 DEF Next, rulevars

\* The rule of a call says which calls it is one of.
LEMMA CallOf ==
    Called => /\ call.rule = "encode" => call \in EncodeCalls
              /\ call.rule = "ner" => call \in NerCalls
              /\ call.rule = "match" => call \in MatchCalls
              /\ call.rule = "merge" => call \in MergeCalls
              /\ call.rule = "gate" => call \in GateCalls
              /\ call.rule = "velocity" => call \in VelocityCalls
<1>1. /\ \A c \in EncodeCalls : c.rule = "encode"
      /\ \A c \in NerCalls : c.rule = "ner"
      /\ \A c \in HashCalls : c.rule = "hash"
      /\ \A c \in MatchCalls : c.rule = "match"
      /\ \A c \in MergeCalls : c.rule = "merge"
      /\ \A c \in GateCalls : c.rule = "gate"
      /\ \A c \in VelocityCalls : c.rule = "velocity"
  BY CallsAssumption
<1>2. Called => \/ call \in EncodeCalls \/ call \in NerCalls \/ call \in MatchCalls
                \/ call \in MergeCalls \/ call \in HashCalls \/ call \in GateCalls
                \/ call \in VelocityCalls \/ call.rule = "record" \/ call.rule = "serve"
  BY DEF Called, Serve
<1> QED
  BY ONLY <1>1, <1>2

----------------------------------------------------------------------------
(* The promotion gate                                                      *)

RowOf(T) == [id : Int, ts : Int, label : {0, 1}, text : T]
AnyRowOf(T) == [id : Int, ts : Int, label : {Unlabeled, 0, 1}, text : T]

\* No two rows are of one item.
Apart(rows) == \A j, k \in DOMAIN rows : rows[j].id = rows[k].id => j = k

LEMMA NatInt == Nat \subseteq Int
  OBVIOUS

\* o are those rows, each once, in the order of their times.
Timely(o, rows, those, first) ==
    /\ o \in [1..Cardinality(those) -> those]
    /\ \A i, j \in 1..Cardinality(those) : i < j =>
          first * rows[o[i]].ts <= first * rows[o[j]].ts /\ o[i] # o[j]
    /\ \A k \in those : \E i \in 1..Cardinality(those) : o[i] = k

LEMMA ByTimeIs ==
    ASSUME NEW rows, NEW those \in SUBSET Nat, IsFiniteSet(those),
           \A k \in those : rows[k].ts \in Int, NEW first \in {1, -1}
    PROVE  Cardinality(those) \in Nat /\ Timely(ByTime(rows, those, first), rows, those, first)
<1> DEFINE Earlier(i, j) == \/ first * rows[i].ts < first * rows[j].ts
                            \/ rows[i].ts = rows[j].ts /\ i < j
           before == {p \in those \X those : Earlier(p[1], p[2])}
           t == [k \in those |-> rows[k].ts]
<1>1. \A i, j \in those : <<i, j>> \in before <=>
            first * rows[i].ts < first * rows[j].ts \/ (rows[i].ts = rows[j].ts /\ i < j)
  <2> HIDE DEF Earlier
  <2>1. \A i, j \in those : <<i, j>> \in before <=> Earlier(i, j)
    OBVIOUS
  <2> QED
    BY ONLY <2>1, Zenon DEF Earlier
<1>2. \A i \in those : t[i] = rows[i].ts /\ t[i] \in Int /\ i \in Int
  BY Zenon, NatInt
<1>3. ByTime(rows, those, first) = InOrder(those, before)
  BY DEF ByTime
<1> HIDE DEF before, t
<1>4. \A i, j \in those : <<i, j>> \in before <=>
            (first = 1 /\ t[i] < t[j]) \/ (first = -1 /\ t[j] < t[i]) \/ (t[i] = t[j] /\ i < j)
  <2>1. \A x, y \in Int : /\ first = 1 => (first * x < first * y <=> x < y)
                          /\ first = -1 => (first * x < first * y <=> y < x)
    OBVIOUS
  <2>2. first = 1 \/ first = -1
    OBVIOUS
  <2> TAKE i, j \in those
  <2>3. /\ t[i] \in Int /\ t[j] \in Int
        /\ <<i, j>> \in before <=> first * t[i] < first * t[j] \/ (t[i] = t[j] /\ i < j)
    <3>1. t[i] = rows[i].ts /\ t[j] = rows[j].ts /\ t[i] \in Int /\ t[j] \in Int
      BY ONLY <1>2, i \in those, j \in those
    <3>2. <<i, j>> \in before <=>
            first * rows[i].ts < first * rows[j].ts \/ (rows[i].ts = rows[j].ts /\ i < j)
      BY <1>1, Zenon
    <3> QED
      BY ONLY <3>1, <3>2
  <2> QED
    BY ONLY <2>1, <2>2, <2>3
<1>5. Orders(before, those)
  <2>1. \A s \in those : <<s, s>> \notin before
    BY ONLY <1>2, <1>4
  <2>2. \A s, u \in those : s # u => <<s, u>> \in before \/ <<u, s>> \in before
    BY ONLY <1>2, <1>4, first \in {1, -1}
  <2>3. \A s, u, v \in those :
            <<s, u>> \in before /\ <<u, v>> \in before => <<s, v>> \in before
    BY ONLY <1>2, <1>4
  <2> QED
    BY <2>1, <2>2, <2>3 DEF Orders
<1>6. \A i, j \in those : <<i, j>> \in before => first * t[i] <= first * t[j]
  BY ONLY <1>2, <1>4, first \in {1, -1}
<1>7. /\ Cardinality(those) \in Nat
      /\ InOrder(those, before) \in [1..Cardinality(those) -> those]
      /\ \A i, j \in 1..Cardinality(those) :
            i < j => <<InOrder(those, before)[i], InOrder(those, before)[j]>> \in before
      /\ \A k \in those : \E i \in 1..Cardinality(those) : InOrder(those, before)[i] = k
  BY <1>5, InOrderIs
<1>8. \A i, j \in 1..Cardinality(those) : i < j =>
          /\ first * t[InOrder(those, before)[i]] <= first * t[InOrder(those, before)[j]]
          /\ InOrder(those, before)[i] # InOrder(those, before)[j]
  BY <1>5, <1>6, <1>7 DEF Orders
<1> DEFINE o == InOrder(those, before)
           m == Cardinality(those)
<1>9. \A i \in 1..m : t[o[i]] = rows[o[i]].ts
  BY <1>2, <1>7
<1>10. \A i, j \in 1..m : i < j => first * rows[o[i]].ts <= first * rows[o[j]].ts /\ o[i] # o[j]
  <2> HIDE DEF o, m
  <2> TAKE i, j \in 1..m
  <2>1. i < j => first * t[o[i]] <= first * t[o[j]] /\ o[i] # o[j]
    BY <1>8, Zenon DEF o, m
  <2>2. t[o[i]] = rows[o[i]].ts /\ t[o[j]] = rows[o[j]].ts
    BY ONLY <1>9, i \in 1..m, j \in 1..m
  <2> QED
    BY ONLY <2>1, <2>2
<1> HIDE DEF o
<1>11. Timely(o, rows, those, first)
  BY ONLY <1>7, <1>10 DEF Timely, o
<1> QED
  BY ONLY <1>3, <1>7, <1>11 DEF o

\* What is fetched are labelled rows of the view, each once, and the newest of them.
LEMMA FetchedIs ==
    ASSUME NEW T, NEW view \in Seq(AnyRowOf(T)), Apart(view)
    PROVE  /\ FetchLabels(view) \in Seq(RowOf(T)) /\ Apart(FetchLabels(view))
           /\ ToSet(FetchLabels(view)) \subseteq ToSet(view)
           /\ \A r \in ToSet(view) \ ToSet(FetchLabels(view)) :
                 r.label # Unlabeled => \A s \in ToSet(FetchLabels(view)) : r.ts <= s.ts
<1> DEFINE labeled == {k \in DOMAIN view : view[k].label # Unlabeled}
           order == ByTime(view, labeled, Newest)
           n == AtMost(Cardinality(labeled), MaxRows)
<1>1. /\ DOMAIN view = 1..Len(view) /\ Len(view) \in Nat
      /\ \A k \in DOMAIN view : view[k] \in AnyRowOf(T)
  OBVIOUS
<1>2. IsFiniteSet(DOMAIN view)
  BY <1>1, FS_Interval
<1>3. IsFiniteSet(labeled) /\ labeled \in SUBSET Nat
  BY <1>1, <1>2, FS_Subset
<1>4. \A k \in labeled : view[k] \in RowOf(T)
  BY <1>1 DEF AnyRowOf, RowOf, Unlabeled
<1>5. \A k \in labeled : view[k].ts \in Int
  BY <1>4 DEF RowOf
<1>6. FetchLabels(view) = [k \in 1..n |-> view[order[k]]]
  BY DEF FetchLabels
<1>7. labeled \subseteq DOMAIN view
      /\ \A k \in DOMAIN view : view[k].label # Unlabeled => k \in labeled
  OBVIOUS
<1> HIDE DEF labeled
<1>8. /\ Cardinality(labeled) \in Nat /\ order \in [1..Cardinality(labeled) -> labeled]
      /\ \A i, j \in 1..Cardinality(labeled) : i < j =>
            Newest * view[order[i]].ts <= Newest * view[order[j]].ts /\ order[i] # order[j]
      /\ \A k \in labeled : \E i \in 1..Cardinality(labeled) : order[i] = k
  <2>1. Newest \in {1, -1}
    BY DEF Newest
  <2>2. Cardinality(labeled) \in Nat /\ Timely(order, view, labeled, Newest)
    BY <1>3, <1>5, <2>1, ByTimeIs
  <2> HIDE DEF order
  <2> QED
    BY ONLY <2>2 DEF Timely
<1> HIDE DEF order
<1>9. n \in Nat /\ n <= Cardinality(labeled)
  BY <1>8, GateConfig DEF AtMost
<1> HIDE DEF n
<1>10. \A k \in 1..n : order[k] \in labeled
  BY <1>8, <1>9
<1>11. FetchLabels(view) \in Seq(RowOf(T))
  BY <1>4, <1>6, <1>9, <1>10
<1>12. DOMAIN FetchLabels(view) = 1..n
  BY <1>6
<1>13. \A k \in 1..n : FetchLabels(view)[k] = view[order[k]]
  BY <1>6
<1>14. ToSet(FetchLabels(view)) \subseteq ToSet(view)
  BY <1>7, <1>10, <1>12, <1>13 DEF ToSet
<1>15. Apart(FetchLabels(view))
  <2> SUFFICES ASSUME NEW i \in 1..n, NEW j \in 1..n, view[order[i]].id = view[order[j]].id
               PROVE  i = j
    BY <1>12, <1>13 DEF Apart
  <2>1. order[i] = order[j]
    BY <1>7, <1>10 DEF Apart
  <2>2. i \in 1..Cardinality(labeled) /\ j \in 1..Cardinality(labeled)
    BY <1>8, <1>9
  <2> QED
    BY <1>8, <2>1, <2>2
<1>16. ASSUME NEW r \in ToSet(view), r \notin ToSet(FetchLabels(view)), r.label # Unlabeled,
              NEW s \in ToSet(FetchLabels(view))
       PROVE  r.ts <= s.ts
  <2>1. PICK k \in labeled : view[k] = r
    BY <1>7, <1>16 DEF ToSet
  <2>2. PICK i \in 1..Cardinality(labeled) : order[i] = k
    BY <1>8
  <2>3. PICK j \in 1..n : view[order[j]] = s
    BY <1>12, <1>13 DEF ToSet
  <2>4. i \notin 1..n
    BY <1>12, <1>13, <1>16, <2>1, <2>2 DEF ToSet
  <2>5. j \in 1..Cardinality(labeled) /\ j < i
    BY <1>8, <1>9, <2>4
  <2>6. Newest * s.ts <= Newest * r.ts
    BY <1>8, <2>1, <2>2, <2>3, <2>5
  <2>7. r.ts \in Int /\ s.ts \in Int
    BY <1>5, <1>10, <2>1, <2>3
  <2> QED
    BY ONLY <2>6, <2>7 DEF Newest
<1> QED
  BY <1>11, <1>14, <1>15, <1>16

\* How many rows are held out: at least one and never all.
LEMMA HeldOut ==
    ASSUME NEW n \in Nat, n >= 2
    PROVE  Between(1, n - 1, Round(n * EvalNum, EvalDen)) \in 1..(n - 1)
<1>1. n * EvalNum \in Int /\ EvalDen \in Nat \ {0}
  BY GateConfig
<1> DEFINE m == n * EvalNum
<1> HIDE DEF m
<1>2. m \div EvalDen \in Int /\ m % EvalDen \in Int
  BY <1>1 DEF m
<1>3. Round(m, EvalDen) \in Int
  BY <1>2 DEF Round
<1> DEFINE r == Round(m, EvalDen)
<1> HIDE DEF r
<1>4. Between(1, n - 1, r) \in 1..(n - 1)
  BY <1>3 DEF Between, r
<1> QED
  BY <1>4 DEF m, r

\* The held-out rows are the newest ones, and every row is on one side.
LEMMA SplitIs ==
    ASSUME NEW T, NEW rows \in Seq(RowOf(T)), Apart(rows)
    PROVE  /\ ToSet(TimeSplit(rows).train) \cap ToSet(TimeSplit(rows).eval) = {}
           /\ ToSet(TimeSplit(rows).train) \cup ToSet(TimeSplit(rows).eval) = ToSet(rows)
           /\ TimeSplit(rows).train \in Seq(RowOf(T))
           /\ TimeSplit(rows).eval \in Seq(RowOf(T))
           /\ \A r \in ToSet(TimeSplit(rows).train), h \in ToSet(TimeSplit(rows).eval) :
                 r.ts <= h.ts
           /\ Len(TimeSplit(rows).train) + Len(TimeSplit(rows).eval) = Len(rows)
           /\ Len(rows) >= 2 => TimeSplit(rows).train # <<>> /\ TimeSplit(rows).eval # <<>>
<1> DEFINE n == Len(rows)
           held == IF n >= 2 THEN Between(1, n - 1, Round(n * EvalNum, EvalDen)) ELSE 0
           order == ByTime(rows, DOMAIN rows, Oldest)
           ordered == [k \in 1..n |-> rows[order[k]]]
           train == SubSeq(ordered, 1, n - held)
           test == SubSeq(ordered, n - held + 1, n)
<1>1. n \in Nat /\ DOMAIN rows = 1..n /\ \A k \in 1..n : rows[k] \in RowOf(T)
  OBVIOUS
<1>2. held \in 0..n /\ (n >= 2 => held \in 1..(n - 1))
  BY <1>1, HeldOut
<1>3. TimeSplit(rows) = [train |-> train, eval |-> test]
  BY DEF TimeSplit
<1> HIDE DEF held, n
<1>4. IsFiniteSet(1..n) /\ Cardinality(1..n) = n
  BY <1>1, FS_Interval
<1>5. 1..n \in SUBSET Nat /\ \A k \in 1..n : rows[k].ts \in Int
  BY <1>1 DEF RowOf
<1>6. /\ order \in [1..n -> 1..n]
      /\ \A i, j \in 1..n : i < j =>
            Oldest * rows[order[i]].ts <= Oldest * rows[order[j]].ts /\ order[i] # order[j]
      /\ \A k \in 1..n : \E i \in 1..n : order[i] = k
  <2>1. Oldest \in {1, -1}
    BY DEF Oldest
  <2> QED
    <3>1. Timely(ByTime(rows, 1..n, Oldest), rows, 1..n, Oldest)
      BY <1>4, <1>5, <2>1, ByTimeIs
    <3>2. order = ByTime(rows, 1..n, Oldest)
      BY <1>1
    <3> HIDE DEF order
    <3> QED
      BY ONLY <1>4, <3>1, <3>2 DEF Timely
<1>7. \A i, j \in 1..n : i < j => rows[order[i]].ts <= rows[order[j]].ts
  <2>1. \A x, y \in Int : Oldest * x <= Oldest * y => x <= y
    BY DEF Oldest
  <2> QED
    BY ONLY <1>5, <1>6, <2>1
<1> HIDE DEF order
<1>8. ordered \in Seq(RowOf(T)) /\ Len(ordered) = n
  BY <1>1, <1>6
<1>9. \A i, j \in 1..n : i < j => ordered[i].ts <= ordered[j].ts
  BY <1>7
<1>17. \A i, j \in 1..n : i < j => ordered[i] # ordered[j]
  <2> SUFFICES ASSUME NEW i \in 1..n, NEW j \in 1..n, i < j, rows[order[i]] = rows[order[j]]
               PROVE  FALSE
    OBVIOUS
  <2>1. order[i] \in 1..n /\ order[j] \in 1..n /\ order[i] # order[j]
    BY <1>6
  <2>2. rows[order[i]].id = rows[order[j]].id
    OBVIOUS
  <2> QED
    BY <1>1, <2>1, <2>2 DEF Apart
<1>18. ToSet(rows) = {ordered[k] : k \in 1..n}
  <2>1. ToSet(rows) = {rows[k] : k \in 1..n}
    BY <1>1 DEF ToSet
  <2>2. \A k \in 1..n : ordered[k] = rows[order[k]] /\ order[k] \in 1..n
    BY <1>6
  <2> HIDE DEF ordered
  <2>3. \A k \in 1..n : rows[k] \in {ordered[i] : i \in 1..n}
    <3> TAKE k \in 1..n
    <3>1. PICK i \in 1..n : order[i] = k
      BY <1>6
    <3> QED
      BY <2>2, <3>1
  <2>4. \A i \in 1..n : ordered[i] \in {rows[k] : k \in 1..n}
    BY <2>2
  <2> QED
    BY ONLY <2>1, <2>3, <2>4
<1> HIDE DEF ordered
<1>10. train \in Seq(RowOf(T)) /\ Len(train) = n - held
       /\ \A k \in 1..(n - held) : train[k] = ordered[k]
  BY <1>1, <1>2, <1>8
<1>11. test \in Seq(RowOf(T)) /\ Len(test) = held
       /\ \A k \in 1..held : test[k] = ordered[n - held + k]
  <2>1. n - held + 1 \in 1..(n + 1) /\ n \in 0..Len(ordered) /\ n - (n - held + 1) + 1 = held
    BY <1>1, <1>2, <1>8
  <2> QED
    BY ONLY <1>1, <1>2, <1>8, <2>1, SMTT(30)
<1> HIDE DEF train, test
<1>12. \A i \in 1..(n - held), j \in 1..held : train[i].ts <= test[j].ts /\ train[i] # test[j]
  <2> TAKE i \in 1..(n - held), j \in 1..held
  <2>1. i \in 1..n /\ n - held + j \in 1..n /\ i < n - held + j
    BY ONLY <1>1, <1>2
  <2> QED
    BY <1>9, <1>17, <1>10, <1>11, <2>1
<1>13. DOMAIN train = 1..(n - held) /\ DOMAIN test = 1..held
  BY <1>10, <1>11
<1>14. \A r \in ToSet(train), h \in ToSet(test) : r.ts <= h.ts
  BY <1>12, <1>13 DEF ToSet
<1>15. n >= 2 => train # <<>> /\ test # <<>>
  BY <1>1, <1>2, <1>10, <1>11
<1>16. Len(train) + Len(test) = n
  BY <1>1, <1>2, <1>10, <1>11
<1>19. ToSet(train) \cap ToSet(test) = {}
  BY <1>12, <1>13 DEF ToSet
<1>20. ToSet(train) \cup ToSet(test) = ToSet(rows)
  <2>1. ToSet(train) = {train[k] : k \in 1..(n - held)} /\ ToSet(test) = {test[k] : k \in 1..held}
    BY <1>13 DEF ToSet
  <2>2. \A k \in 1..n : \/ k \in 1..(n - held)
                         \/ (k - (n - held) \in 1..held /\ k = n - held + (k - (n - held)))
    BY <1>1, <1>2
  <2>3. (\A k \in 1..(n - held) : k \in 1..n) /\ \A k \in 1..held : n - held + k \in 1..n
    BY <1>1, <1>2
  <2>4. \A k \in 1..n : ordered[k] \in ToSet(train) \cup ToSet(test)
    <3> TAKE k \in 1..n
    <3>1. CASE k \in 1..(n - held)
      BY <1>10, <2>1, <3>1
    <3>2. CASE k - (n - held) \in 1..held /\ k = n - held + (k - (n - held))
      BY <1>11, <2>1, <3>2
    <3> QED
      BY <2>2, <3>1, <3>2
  <2>5. ToSet(rows) \subseteq ToSet(train) \cup ToSet(test)
    BY ONLY <1>18, <2>4
  <2>6. ToSet(train) \subseteq ToSet(rows)
    BY ONLY <1>10, <1>18, <2>1, <2>3
  <2>7. ToSet(test) \subseteq ToSet(rows)
    BY ONLY <1>11, <1>18, <2>1, <2>3
  <2> QED
    BY ONLY <2>5, <2>6, <2>7
<1> QED
  BY <1>3, <1>10, <1>11, <1>14, <1>15, <1>16, <1>19, <1>20 DEF n

\* F1 in terms of what the model finds and of the mistakes it makes.
LEMMA F1Is ==
    ASSUME NEW T, NEW rows \in Seq(RowOf(T)), NEW model \in [T -> {0, 1}]
    PROVE  \E tp, wrong \in Nat :
              /\ F1(model, rows).num = 2 * tp
              /\ F1(model, rows).den = IF tp = 0 THEN 1 ELSE 2 * tp + wrong
              /\ tp = 0 <=> ~ \E r \in ToSet(rows) : model[r.text] = 1 /\ r.label = 1
              /\ wrong = 0 <=> Perfect(model, rows)
<1> DEFINE Said(y, label) == {k \in DOMAIN rows : model[rows[k].text] = y /\ rows[k].label = label}
           tp == Cardinality(Said(1, 1))
           fp == Cardinality(Said(1, 0))
           fn == Cardinality(Said(0, 1))
<1>1. DOMAIN rows = 1..Len(rows) /\ Len(rows) \in Nat
  OBVIOUS
<1>2. IsFiniteSet(DOMAIN rows)
  BY <1>1, FS_Interval
<1>3. ASSUME NEW y, NEW label
      PROVE  /\ Cardinality(Said(y, label)) \in Nat
             /\ Cardinality(Said(y, label)) = 0 <=>
                   ~ \E r \in ToSet(rows) : model[r.text] = y /\ r.label = label
  <2>1. IsFiniteSet(Said(y, label))
    BY <1>2, FS_Subset
  <2>2. Cardinality(Said(y, label)) \in Nat
    BY <2>1, FS_CardinalityType
  <2>3. Cardinality(Said(y, label)) = 0 <=> Said(y, label) = {}
    BY <2>1, FS_EmptySet
  <2>4. Said(y, label) = {} <=> ~ \E r \in ToSet(rows) : model[r.text] = y /\ r.label = label
    BY DEF ToSet
  <2> QED
    BY <2>2, <2>3, <2>4
<1>4. F1(model, rows) = IF tp = 0 THEN [num |-> 0, den |-> 1]
                        ELSE [num |-> 2 * tp, den |-> 2 * tp + fp + fn]
  BY DEF F1
<1>5. /\ tp \in Nat /\ fp \in Nat /\ fn \in Nat
      /\ tp = 0 <=> ~ \E r \in ToSet(rows) : model[r.text] = 1 /\ r.label = 1
      /\ fp = 0 <=> ~ \E r \in ToSet(rows) : model[r.text] = 1 /\ r.label = 0
      /\ fn = 0 <=> ~ \E r \in ToSet(rows) : model[r.text] = 0 /\ r.label = 1
  <2> HIDE DEF Said
  <2>1. tp \in Nat /\ (tp = 0 <=> ~ \E r \in ToSet(rows) : model[r.text] = 1 /\ r.label = 1)
    BY <1>3, Zenon
  <2>2. fp \in Nat /\ (fp = 0 <=> ~ \E r \in ToSet(rows) : model[r.text] = 1 /\ r.label = 0)
    BY <1>3, Zenon
  <2>3. fn \in Nat /\ (fn = 0 <=> ~ \E r \in ToSet(rows) : model[r.text] = 0 /\ r.label = 1)
    BY <1>3, Zenon
  <2> QED
    BY <2>1, <2>2, <2>3
<1> HIDE DEF tp, fp, fn
<1>6. \A r \in ToSet(rows) : model[r.text] \in {0, 1} /\ r.label \in {0, 1}
  <2>1. \A k \in DOMAIN rows : rows[k].text \in T /\ rows[k].label \in {0, 1}
    <3>1. \A k \in DOMAIN rows : rows[k] \in RowOf(T)
      BY <1>1
    <3>2. \A r \in RowOf(T) : r.text \in T /\ r.label \in {0, 1}
      BY DEF RowOf
    <3> QED
      BY <3>1, <3>2
  <2> QED
    BY <2>1 DEF ToSet
<1>7. fp + fn = 0 <=> Perfect(model, rows)
  <2>1. fp + fn = 0 <=> fp = 0 /\ fn = 0
    BY <1>5
  <2> QED
    BY <1>5, <1>6, <2>1 DEF Perfect
<1>8. /\ F1(model, rows).num = 2 * tp
      /\ F1(model, rows).den = IF tp = 0 THEN 1 ELSE 2 * tp + (fp + fn)
  BY <1>4, <1>5
<1>9. fp + fn \in Nat
  BY <1>5
<1> QED
  BY <1>5, <1>7, <1>8, <1>9

\* What the comparison of two scores says: it never loses all that is found, nor gives
\* up perfection.
LEMMA BetterF1 ==
    ASSUME NEW t \in Nat, NEW e \in Nat, NEW u \in Nat, NEW f \in Nat, u > 0,
           (2 * t) * (2 * u + f) >= (2 * u) * (IF t = 0 THEN 1 ELSE 2 * t + e)
    PROVE  t > 0 /\ (f = 0 => e = 0)
<1>1. ASSUME t = 0 PROVE FALSE
  BY <1>1
<1>2. ASSUME f = 0, t > 0 PROVE e = 0
  <2>1. (2 * t) * (2 * u) >= (2 * u) * (2 * t + e)
    BY <1>2
  <2>2. (2 * u) * (2 * t + e) = (2 * t) * (2 * u) + 2 * (u * e)
    OBVIOUS
  <2>3. u * e <= 0 /\ u * e \in Int
    BY <2>1, <2>2
  <2>4. e > 0 => u * e > 0
    OBVIOUS
  <2> QED
    BY <2>3, <2>4
<1> QED
  BY <1>1, <1>2

NoWorse(candidate, current, held) ==
    LET positive == {r \in ToSet(held) : r.label = 1}
        found(model) == {r \in positive : model[r.text] = 1}
    IN  positive # {} =>
            \A incumbent \in current :
                /\ Perfect(incumbent, held) => Perfect(candidate, held)
                /\ found(incumbent) # {} => found(candidate) # {}

\* The gate for any labels, any models and any split: what it holds out is newest, and
\* what it promotes is no worse on it.
LEMMA GateIsSound ==
    ASSUME MinPerClass >= 1, NEW T, NEW view \in Seq(AnyRowOf(T)), Apart(view),
           NEW candidate \in [T -> {0, 1}], NEW current, \A m \in current : m \in [T -> {0, 1}],
           ShouldPromote(candidate, current, FetchLabels(view))
    PROVE  /\ \A class \in {0, 1} : \E r \in ToSet(view) : r.label = class
           /\ NoWorse(candidate, current, TimeSplit(FetchLabels(view)).eval)
<1> DEFINE rows == FetchLabels(view)
           held == TimeSplit(rows).eval
           positive == {r \in ToSet(held) : r.label = 1}
           found(model) == {r \in positive : model[r.text] = 1}
<1>1. rows \in Seq(RowOf(T)) /\ ToSet(rows) \subseteq ToSet(view) /\ Apart(rows)
  BY FetchedIs
<1>2. held \in Seq(RowOf(T))
  BY <1>1, SplitIs
<1>3. ASSUME NEW class \in {0, 1}
      PROVE  \E r \in ToSet(view) : r.label = class
  <2> HIDE DEF rows
  <2>1. Count(rows, class) >= MinPerClass
    BY <1>3 DEF ShouldPromote, MeetsFloors, rows
  <2>2. Count(rows, class) # 0
    <3>1. ASSUME Count(rows, class) = 0 PROVE FALSE
      BY <2>1, <3>1, GateConfig
    <3> QED
      BY <3>1
  <2>3. {k \in DOMAIN rows : rows[k].label = class} # {}
    BY <2>2, FS_EmptySet DEF Count
  <2> QED
    BY <1>1, <2>3 DEF ToSet
<1>4. ASSUME positive # {}, NEW incumbent \in current
      PROVE  /\ Perfect(incumbent, held) => Perfect(candidate, held)
             /\ found(incumbent) # {} => found(candidate) # {}
  <2>1. F1(candidate, held).num * F1(incumbent, held).den
          >= F1(incumbent, held).num * F1(candidate, held).den
    BY DEF ShouldPromote
  <2> HIDE DEF held, rows
  <2>2. PICK t, e \in Nat :
              /\ F1(candidate, held).num = 2 * t
              /\ F1(candidate, held).den = IF t = 0 THEN 1 ELSE 2 * t + e
              /\ t = 0 <=> ~ \E r \in ToSet(held) : candidate[r.text] = 1 /\ r.label = 1
              /\ e = 0 <=> Perfect(candidate, held)
    BY <1>2, F1Is
  <2>3. PICK u, f \in Nat :
              /\ F1(incumbent, held).num = 2 * u
              /\ F1(incumbent, held).den = IF u = 0 THEN 1 ELSE 2 * u + f
              /\ u = 0 <=> ~ \E r \in ToSet(held) : incumbent[r.text] = 1 /\ r.label = 1
              /\ f = 0 <=> Perfect(incumbent, held)
    <3>1. incumbent \in [T -> {0, 1}]
      OBVIOUS
    <3> QED
      BY <1>2, <3>1, F1Is
  <2>4. u > 0 => t > 0 /\ (f = 0 => e = 0)
    <3>1. u > 0 => (2 * t) * (2 * u + f) >= (2 * u) * (IF t = 0 THEN 1 ELSE 2 * t + e)
      BY <2>1, <2>2, <2>3
    <3> QED
      BY <3>1, BetterF1
  <2>5. Perfect(incumbent, held) => u > 0
    BY <1>4, <2>3 DEF Perfect
  <2>6. found(incumbent) # {} => u > 0
    BY <2>3
  <2>7. t > 0 => found(candidate) # {}
    BY <2>2
  <2> QED
    BY <2>2, <2>3, <2>4, <2>5, <2>6, <2>7
<1>5. NoWorse(candidate, current, held)
  <2> HIDE DEF held
  <2> QED
    BY <1>4 DEF NoWorse
<1> QED
  BY <1>3, <1>5

\* Only rows the candidate was not trained on decide, the newest of the newest labelled
\* ones; and where one of them is positive, a candidate that makes a mistake on them
\* replaces no model that makes none, nor one that finds nothing a model that finds
\* something (fetch_labels, time_split and should_promote).  At least one row of each
\* class is asked for.
THEOREM PromotionIsSound ==
    ASSUME MinPerClass >= 1
    PROVE  Spec => []GateSound
<1>1. Called /\ Returned => GateSound
  <2> SUFFICES ASSUME Called, Returned, Answered("gate")
               PROVE  GateSound
    BY DEF GateSound
  <2> DEFINE T == DOMAIN call.candidate
             rows == FetchLabels(call.view)
             split == TimeSplit(rows)
  <2>1. call \in GateCalls
    BY CallOf DEF Answered
  <2>2. /\ call.view \in Seq(AnyRowOf(T)) /\ Apart(call.view)
        /\ call.candidate \in [T -> {0, 1}]
        /\ \A model \in call.current : model \in [T -> {0, 1}]
    BY <2>1, CallsAssumption DEF AnyRowOf, Apart
  <2>3. answer.split = split /\ answer.promoted = ShouldPromote(call.candidate, call.current, rows)
    BY DEF Returned, Sorted
  <2> HIDE DEF T
  <2>4. /\ rows \in Seq(RowOf(T)) /\ Apart(rows) /\ ToSet(rows) \subseteq ToSet(call.view)
        /\ \A r \in ToSet(call.view) \ ToSet(rows) :
              r.label # Unlabeled => \A s \in ToSet(rows) : r.ts <= s.ts
    BY <2>2, FetchedIs
  <2>5. /\ ToSet(split.train) \cap ToSet(split.eval) = {}
        /\ ToSet(split.train) \cup ToSet(split.eval) = ToSet(rows)
        /\ \A r \in ToSet(split.train), h \in ToSet(split.eval) : r.ts <= h.ts
        /\ split.train \in Seq(RowOf(T)) /\ split.eval \in Seq(RowOf(T))
        /\ Len(split.train) + Len(split.eval) = Len(rows)
        /\ Len(rows) >= 2 => split.train # <<>> /\ split.eval # <<>>
    BY <2>4, SplitIs
  <2>6. ASSUME answer.promoted
        PROVE  /\ \A class \in {0, 1} : \E r \in ToSet(call.view) : r.label = class
               /\ NoWorse(call.candidate, call.current, split.eval)
    BY <2>2, <2>3, <2>6, GateIsSound
  <2>7. \A r \in ToSet(rows) : r.label # Unlabeled
    <3>1. \A k \in DOMAIN rows : rows[k] \in RowOf(T)
      BY <2>4
    <3> QED
      BY <3>1 DEF ToSet, RowOf, Unlabeled
  <2> HIDE DEF split, rows
  <2> QED
    BY <2>3, <2>4, <2>5, <2>6, <2>7 DEF GateSound, NoWorse
<1> QED
  BY <1>1, CallsInit, CallsStep, PTL DEF Spec

----------------------------------------------------------------------------
(* Records                                                                 *)

AllSources == Polled \cup {"bluesky", "mastodon", "wikipedia"}

\* What makes a record an Item, source by source.
LEMMA ItemIs ==
    ASSUME NEW r
    PROVE  /\ Bluesky(r).is = "item" =>
                /\ Bluesky(r) = Item(UriKey(r.did, r.rkey), <<r.did>>,
                       IF r.parent = <<>> THEN <<>> ELSE UriKey(r.parent[1], r.parent[2]), {}, <<>>)
                /\ r.parent # <<Odd>>
           /\ Mastodon(r).is = "item" =>
                Mastodon(r) = Item(MastodonKey(r),
                    IF Truthy(r.account) THEN <<r.instance, r.account>> ELSE <<>>, <<>>, {}, <<>>)
           /\ Wikipedia(r).is = "item" =>
                /\ Wikipedia(r) = Item(<<"wiki", r.domain, Cut(IF Truthy(r.rev) THEN r.rev ELSE r.id)>>,
                       IF Truthy(r.user) THEN <<r.domain, r.user>> ELSE <<>>, <<>>, {}, <<>>)
                /\ r.domain = "en.wikipedia.org"
           /\ Press(r).is = "item" =>
                /\ Press(r) = Item(<<PressRef(r)>>, <<>>, <<>>, {}, <<>>)
                /\ PressRef(r) \notin LongRefs
           /\ Usgs(r).is = "item" =>
                Usgs(r) = Item(IF r.id = None THEN <<>> ELSE <<Cut(r.id)>>, <<>>, <<>>,
                               IF Truthy(r.place) THEN {r.place} ELSE {}, Point(r.lon, r.lat))
           /\ Noaa(r).is = "item" =>
                Noaa(r) = Item(<<Cut(NoaaRef(r))>>, <<>>, <<>>,
                               Places(r.area, MaxAreaEntities), Centroid(r.ring))
           /\ Gdacs(r).is = "item" =>
                Gdacs(r) = Item(<<"gdacs", r.eventtype, Cut(r.eventid)>>, <<>>, <<>>,
                                Places(r.country, MaxCountryEntities), Point(r.lon, r.lat))
           /\ Gdelt(r).is = "item" =>
                Gdelt(r) = Item(<<"gdelt", r.url>>, <<r.domain>>, <<>>, {}, <<>>)
<1>1. Nothing.is # "item" /\ Failure.is # "item"
  BY DEF Nothing, Failure
<1>2. Bluesky(r).is = "item" =>
        /\ Bluesky(r) = Item(UriKey(r.did, r.rkey), <<r.did>>,
               IF r.parent = <<>> THEN <<>> ELSE UriKey(r.parent[1], r.parent[2]), {}, <<>>)
        /\ r.parent # <<Odd>>
  BY <1>1, Zenon DEF Bluesky
<1>3. Mastodon(r).is = "item" =>
        Mastodon(r) = Item(MastodonKey(r),
            IF Truthy(r.account) THEN <<r.instance, r.account>> ELSE <<>>, <<>>, {}, <<>>)
  BY <1>1, Zenon DEF Mastodon
<1>4. Wikipedia(r).is = "item" =>
        /\ Wikipedia(r) = Item(<<"wiki", r.domain, Cut(IF Truthy(r.rev) THEN r.rev ELSE r.id)>>,
               IF Truthy(r.user) THEN <<r.domain, r.user>> ELSE <<>>, <<>>, {}, <<>>)
        /\ r.domain = "en.wikipedia.org"
  BY <1>1, Zenon DEF Wikipedia, KeepWikipedia
<1>5. Press(r).is = "item" =>
        /\ Press(r) = Item(<<PressRef(r)>>, <<>>, <<>>, {}, <<>>)
        /\ PressRef(r) \notin LongRefs
  BY <1>1, Zenon DEF Press
<1>6. Usgs(r).is = "item" =>
        Usgs(r) = Item(IF r.id = None THEN <<>> ELSE <<Cut(r.id)>>, <<>>, <<>>,
                       IF Truthy(r.place) THEN {r.place} ELSE {}, Point(r.lon, r.lat))
  BY <1>1, Zenon DEF Usgs
<1>7. Noaa(r).is = "item" =>
        Noaa(r) = Item(<<Cut(NoaaRef(r))>>, <<>>, <<>>,
                       Places(r.area, MaxAreaEntities), Centroid(r.ring))
  BY <1>1, Zenon DEF Noaa
<1>8. Gdacs(r).is = "item" =>
        Gdacs(r) = Item(<<"gdacs", r.eventtype, Cut(r.eventid)>>, <<>>, <<>>,
                        Places(r.country, MaxCountryEntities), Point(r.lon, r.lat))
  BY <1>1, Zenon DEF Gdacs
<1>9. Gdelt(r).is = "item" => Gdelt(r) = Item(<<"gdelt", r.url>>, <<r.domain>>, <<>>, {}, <<>>)
  BY <1>1, Zenon DEF Gdelt
<1> QED
  BY <1>2, <1>3, <1>4, <1>5, <1>6, <1>7, <1>8, <1>9

\* What is cut is not long, and nothing is made of it that means that it was not there.
LEMMA CutIs == \A v : Cut(v) \notin LongRefs /\ (Cut(v) = None <=> v = None)
  BY DEF Cut, LongRefs, None

\* Two Items of one source have one hash when the source means one event.
LEMMA HashIsEvent ==
    ASSUME NEW source \in AllSources, NEW a, NEW b,
           Normalize(source, a).is = "item", Normalize(source, b).is = "item"
    PROVE  Normalize(source, a).hash = Normalize(source, b).hash <=> SameEvent(source, a, b)
<1>1. CASE source = "bluesky"
  BY <1>1, ItemIs DEF Normalize, Item, UriKey, SameEvent
<1>2. CASE source = "mastodon"
  BY <1>2, ItemIs DEF Normalize, Item, MastodonKey, SameEvent
<1>3. CASE source = "wikipedia"
  <2> DEFINE id(e) == IF Truthy(e.rev) THEN Cut(e.rev) ELSE Cut(e.id)
  <2>1. \A e : Cut(IF Truthy(e.rev) THEN e.rev ELSE e.id) = id(e)
    BY Zenon
  <2>2. \A e : Wikipedia(e).is = "item" => Wikipedia(e).hash = <<"wiki", e.domain, id(e)>>
    BY <2>1, ItemIs DEF Item
  <2>3. SameEvent(source, a, b) <=> a.domain = b.domain /\ id(a) = id(b)
    BY <1>3 DEF SameEvent
  <2> HIDE DEF id
  <2> QED
    BY <1>3, <2>2, <2>3 DEF Normalize
<1>4. CASE source = "press"
  BY <1>4, ItemIs DEF Normalize, Item, SameEvent
<1>5. CASE source = "usgs"
  <2>1. /\ Normalize(source, a).hash = IF a.id = None THEN <<>> ELSE <<Cut(a.id)>>
        /\ Normalize(source, b).hash = IF b.id = None THEN <<>> ELSE <<Cut(b.id)>>
    BY <1>5, ItemIs DEF Normalize, Item
  <2>2. SameEvent(source, a, b) <=> Cut(a.id) = Cut(b.id)
    BY <1>5 DEF SameEvent
  <2>3. \A x : <<x>> # <<>>
    OBVIOUS
  <2>4. \A x, y : <<x>> = <<y>> <=> x = y
    OBVIOUS
  <2>5. CASE a.id = None
    BY <2>1, <2>2, <2>3, <2>5, CutIs
  <2>6. CASE b.id = None
    BY <2>1, <2>2, <2>3, <2>6, CutIs
  <2>7. CASE a.id # None /\ b.id # None
    BY <2>1, <2>2, <2>4, <2>7
  <2> QED
    BY <2>5, <2>6, <2>7
<1>6. CASE source = "noaa"
  BY <1>6, ItemIs DEF Normalize, Item, SameEvent
<1>7. CASE source = "gdacs"
  BY <1>7, ItemIs DEF Normalize, Item, SameEvent
<1>8. CASE source = "gdelt"
  BY <1>8, ItemIs DEF Normalize, Item, SameEvent
<1> QED
  BY <1>1, <1>2, <1>3, <1>4, <1>5, <1>6, <1>7, <1>8 DEF AllSources, Polled

\* What the poll loop takes for one record is one event.
LEMMA DedupIsEvent ==
    ASSUME NEW source \in Polled, NEW a, NEW b, source = "noaa" => Truthy(a.urn),
           DedupKey(source, a) = DedupKey(source, b)
    PROVE  SameEvent(source, a, b)
<1>1. CASE source = "press"
  BY <1>1 DEF DedupKey, SameEvent
<1>2. CASE source = "usgs"
  BY <1>2 DEF DedupKey, SameEvent
<1>3. CASE source = "noaa"
  BY <1>3 DEF DedupKey, SameEvent, NoaaRef
<1>4. CASE source = "gdacs"
  BY <1>4 DEF DedupKey, SameEvent
<1>5. CASE source = "gdelt"
  BY <1>5 DEF DedupKey, SameEvent
<1> QED
  BY <1>1, <1>2, <1>3, <1>4, <1>5 DEF Polled

\* A key fits its column.
LEMMA HashFits ==
    ASSUME NEW source \in AllSources \ Hashed, NEW r, Normalize(source, r).is = "item",
           source = "gdacs" => r.eventtype \notin LongRefs
    PROVE  ToSet(Normalize(source, r).hash) \cap LongRefs = {}
<1>1. ASSUME NEW x, x \notin LongRefs PROVE ToSet(<<x>>) \cap LongRefs = {}
  BY <1>1 DEF ToSet
<1>2. ASSUME NEW x, NEW y, NEW z, x \notin LongRefs, y \notin LongRefs, z \notin LongRefs
      PROVE  ToSet(<<x, y, z>>) \cap LongRefs = {}
  BY <1>2 DEF ToSet
<1>3. "wiki" \notin LongRefs /\ "en.wikipedia.org" \notin LongRefs /\ "gdacs" \notin LongRefs
  BY DEF LongRefs
<1>4. CASE source = "wikipedia"
  <2>1. Normalize(source, r) = Wikipedia(r)
    BY <1>4 DEF Normalize
  <2>2. /\ Wikipedia(r).hash = <<"wiki", r.domain, Cut(IF Truthy(r.rev) THEN r.rev ELSE r.id)>>
        /\ r.domain = "en.wikipedia.org"
    BY <2>1, ItemIs DEF Item
  <2> QED
    BY <1>2, <1>3, <2>1, <2>2, CutIs, Zenon
<1>5. CASE source = "press"
  <2>1. Normalize(source, r).hash = <<PressRef(r)>> /\ PressRef(r) \notin LongRefs
    BY <1>5, ItemIs DEF Normalize, Item
  <2> QED
    BY <1>1, <2>1
<1>6. CASE source = "usgs"
  <2>1. Normalize(source, r).hash = IF r.id = None THEN <<>> ELSE <<Cut(r.id)>>
    BY <1>6, ItemIs DEF Normalize, Item
  <2>2. ToSet(<<>>) \cap LongRefs = {}
    BY DEF ToSet
  <2> QED
    BY <1>1, <2>1, <2>2, CutIs, Zenon
<1>7. CASE source = "noaa"
  <2>1. Normalize(source, r).hash = <<Cut(NoaaRef(r))>>
    BY <1>7, ItemIs DEF Normalize, Item
  <2> QED
    BY <1>1, <2>1, CutIs
<1>8. CASE source = "gdacs"
  <2>1. Normalize(source, r).hash = <<"gdacs", r.eventtype, Cut(r.eventid)>>
    BY <1>8, ItemIs DEF Normalize, Item
  <2> QED
    BY <1>2, <1>3, <1>8, <2>1, CutIs, Zenon
<1> QED
  BY <1>4, <1>5, <1>6, <1>7, <1>8 DEF AllSources, Polled, Hashed

\* The mean of numbers between two bounds is between them.
LEMMA MeanIsBetween ==
    ASSUME NEW f, NEW S, IsFiniteSet(S), S # {}, NEW b \in Nat, \A x \in S : f[x] \in (-b)..b
    PROVE  Sum(f, S) \div Cardinality(S) \in (-b)..b
<1> DEFINE Bad == {T \in SUBSET S : ~ (Sum(f, T) \in (-(b * Cardinality(T)))..(b * Cardinality(T)))}
<1>1. ASSUME Bad # {} PROVE FALSE
  <2>1. Bad \in SUBSET (SUBSET S)
    OBVIOUS
  <2> HIDE DEF Bad
  <2>2. PICK T \in Bad : IsFiniteSet(T) /\ \A U \in SUBSET T : U \in Bad => U = T
    BY <1>1, <2>1, Smallest
  <2>3. T \in SUBSET S /\ ~ (Sum(f, T) \in (-(b * Cardinality(T)))..(b * Cardinality(T)))
    BY DEF Bad
  <2>4. CASE T = {}
    <3>1. Sum(f, T) = 0 /\ Cardinality(T) = 0
      BY <2>4, EmptySum, FS_EmptySet
    <3> QED
      BY <2>3, <3>1
  <2>5. CASE T # {}
    <3> DEFINE U == T \ {Pick(T)}
    <3>1. Pick(T) \in T
      BY <2>5, PickIn
    <3>2. Sum(f, T) = f[Pick(T)] + Sum(f, U)
      BY <2>2, <2>5, SumStep
    <3>3. IsFiniteSet(U) /\ Cardinality(U) = Cardinality(T) - 1
      BY <2>2, <3>1, FS_RemoveElement
    <3>4. Cardinality(T) \in Nat /\ Cardinality(U) \in Nat
      BY <2>2, <3>3, FS_CardinalityType
    <3>5. U \in SUBSET S /\ U \notin Bad
      BY <2>2, <2>3, <3>1
    <3>6. Sum(f, U) \in (-(b * Cardinality(U)))..(b * Cardinality(U))
      BY <3>5 DEF Bad
    <3>7. f[Pick(T)] \in (-b)..b
      BY <2>3, <3>1
    <3>8. \A n \in Nat, s \in Int, x \in (-b)..b :
              n - 1 \in Nat /\ s \in (-(b * (n - 1)))..(b * (n - 1)) => x + s \in (-(b * n))..(b * n)
      <4> TAKE n \in Nat, s \in Int, x \in (-b)..b
      <4>1. b * (n - 1) = b * n - b /\ b * n \in Int
        OBVIOUS
      <4> DEFINE m == b * n
      <4> HIDE DEF m
      <4>2. m \in Int /\ b * (n - 1) = m - b
        BY <4>1 DEF m
      <4> SUFFICES s \in (-(m - b))..(m - b) => x + s \in (-m)..m
        BY <4>2 DEF m
      <4> QED
        BY <4>2
    <3> HIDE DEF U
    <3> QED
      BY <2>3, <3>2, <3>3, <3>4, <3>6, <3>7, <3>8
  <2> QED
    BY <2>4, <2>5
<1> DEFINE n == Cardinality(S)
           s == Sum(f, S)
<1>2. s \in (-(b * n))..(b * n)
  BY <1>1
<1>3. n \in Nat \ {0}
  BY FS_CardinalityType, FS_EmptySet
<1> HIDE DEF n, s
<1>4. s \in Int /\ s <= b * n /\ -(b * n) <= s
  BY <1>2, <1>3
<1>5. s \div n \in Int /\ n * (s \div n) <= s /\ s < n * (s \div n) + n
  BY <1>3, <1>4
<1>6. ASSUME NEW q \in Int, n * q <= s, s < n * q + n
      PROVE  q \in (-b)..b
  <2>1. ASSUME q > b PROVE FALSE
    <3>1. n * q >= n * (b + 1)
      BY <1>3, <2>1
    <3>2. n * (b + 1) = b * n + n
      BY <1>3
    <3> QED
      BY <1>3, <1>4, <1>6, <3>1, <3>2
  <2>2. ASSUME q < -b PROVE FALSE
    <3>1. n * (q + 1) <= n * (-b)
      BY <1>3, <2>2
    <3>2. n * (q + 1) = n * q + n /\ n * (-b) = -(b * n)
      BY <1>3
    <3> QED
      BY <1>3, <1>4, <1>6, <3>1, <3>2
  <2> QED
    BY <2>1, <2>2
<1> QED
  BY <1>5, <1>6 DEF n, s

\* A place is on the globe or there is none; the mean of points on it is on it.
LEMMA PointsAre ==
    /\ \A lon, lat : LET p == Point(lon, lat) IN p # <<>> => Point(p[1], p[2]) # <<>>
    /\ \A ring \in Seq(Int \X Int) :
          LET p == Centroid(ring) IN p # <<>> => Point(p[1], p[2]) # <<>>
<1>1. ASSUME NEW lon, NEW lat, Point(lon, lat) # <<>>
      PROVE  Point(Point(lon, lat)[1], Point(lon, lat)[2]) # <<>>
  BY <1>1 DEF Point
<1>2. ASSUME NEW ring \in Seq(Int \X Int), Centroid(ring) # <<>>
      PROVE  Point(Centroid(ring)[1], Centroid(ring)[2]) # <<>>
  <2> DEFINE on == {k \in DOMAIN ring : Point(ring[k][1], ring[k][2]) # <<>>}
             lons == [k \in on |-> ring[k][1]]
             lats == [k \in on |-> ring[k][2]]
  <2>1. IsFiniteSet(on)
    <3>1. DOMAIN ring = 1..Len(ring) /\ Len(ring) \in Nat
      OBVIOUS
    <3>2. IsFiniteSet(DOMAIN ring)
      BY <3>1, FS_Interval
    <3> QED
      BY <3>2, FS_Subset
  <2>2. \A k \in on : ring[k][1] \in -180..180 /\ ring[k][2] \in -90..90
    BY DEF Point
  <2>3. on # {}
    BY <1>2 DEF Centroid
  <2>4. Centroid(ring) = << Sum(lons, on) \div Cardinality(on), Sum(lats, on) \div Cardinality(on) >>
    BY <2>3 DEF Centroid, Sum
  <2>5. \A k \in on : lons[k] \in (-180)..180 /\ lats[k] \in (-90)..90
    BY <2>2
  <2> HIDE DEF on, lons, lats
  <2>6. Sum(lons, on) \div Cardinality(on) \in (-180)..180
    <3> PICK b : b = 180
      OBVIOUS
    <3>1. b \in Nat
      OBVIOUS
    <3>2. \A k \in on : lons[k] \in (-b)..b
      BY ONLY <2>5, b = 180
    <3>3. Sum(lons, on) \div Cardinality(on) \in (-b)..b
      BY ONLY <2>1, <2>3, <3>1, <3>2, MeanIsBetween
    <3> QED
      BY ONLY <3>3, b = 180
  <2>7. Sum(lats, on) \div Cardinality(on) \in (-90)..90
    <3> PICK b : b = 90
      OBVIOUS
    <3>1. b \in Nat
      OBVIOUS
    <3>2. \A k \in on : lats[k] \in (-b)..b
      BY ONLY <2>5, b = 90
    <3>3. Sum(lats, on) \div Cardinality(on) \in (-b)..b
      BY ONLY <2>1, <2>3, <3>1, <3>2, MeanIsBetween
    <3> QED
      BY ONLY <3>3, b = 90
  <2> DEFINE x == Sum(lons, on) \div Cardinality(on)
             y == Sum(lats, on) \div Cardinality(on)
  <2> HIDE DEF x, y
  <2>8. Centroid(ring) = <<x, y>> /\ x \in (-180)..180 /\ y \in (-90)..90
    BY <2>4, <2>6, <2>7 DEF x, y
  <2>9. Point(x, y) # <<>>
    BY <2>8 DEF Point
  <2> QED
    BY <2>8, <2>9
<1> QED
  BY <1>1, <1>2

\* What an Item holds besides its key.
LEMMA ItemFits ==
    ASSUME NEW source \in AllSources, NEW r, Normalize(source, r).is = "item",
           source = "noaa" => r.ring \in Seq(Int \X Int) /\ None \notin ToSet(r.area),
           source = "gdacs" => None \notin ToSet(r.country)
    PROVE  LET it == Normalize(source, r)
           IN  /\ it.geo # <<>> => Point(it.geo[1], it.geo[2]) # <<>>
               /\ \A e \in it.entities : Truthy(e)
<1>1. ASSUME NEW list, NEW most, None \notin ToSet(list)
      PROVE  \A e \in Places(list, most) : Truthy(e)
  BY <1>1 DEF Places, ToSet, Truthy
<1>2. CASE source \in {"bluesky", "mastodon", "wikipedia", "press", "gdelt"}
  <2>1. Normalize(source, r).geo = <<>> /\ Normalize(source, r).entities = {}
    <3>1. CASE source = "bluesky"
      BY <3>1, ItemIs DEF Normalize, Item
    <3>2. CASE source = "mastodon"
      BY <3>2, ItemIs DEF Normalize, Item
    <3>3. CASE source = "wikipedia"
      BY <3>3, ItemIs DEF Normalize, Item
    <3>4. CASE source = "press"
      BY <3>4, ItemIs DEF Normalize, Item
    <3>5. CASE source = "gdelt"
      BY <3>5, ItemIs DEF Normalize, Item
    <3> QED
      BY <1>2, <3>1, <3>2, <3>3, <3>4, <3>5
  <2> QED
    BY <2>1
<1>3. CASE source = "usgs"
  <2>1. /\ Normalize(source, r).geo = Point(r.lon, r.lat)
        /\ Normalize(source, r).entities = IF Truthy(r.place) THEN {r.place} ELSE {}
    <3>1. Normalize(source, r) = Usgs(r) /\ Usgs(r).is = "item"
      BY <1>3 DEF Normalize
    <3>2. Usgs(r) = Item(IF r.id = None THEN <<>> ELSE <<Cut(r.id)>>, <<>>, <<>>,
                         IF Truthy(r.place) THEN {r.place} ELSE {}, Point(r.lon, r.lat))
      BY <3>1, ItemIs
    <3> DEFINE h == IF r.id = None THEN <<>> ELSE <<Cut(r.id)>>
               e == IF Truthy(r.place) THEN {r.place} ELSE {}
    <3>3. Usgs(r) = Item(h, <<>>, <<>>, e, Point(r.lon, r.lat))
      BY <3>2
    <3>4. Usgs(r).geo = Point(r.lon, r.lat) /\ Usgs(r).entities = e
      <4> HIDE DEF h, e
      <4> QED
        BY <3>3 DEF Item
    <3> QED
      BY <3>1, <3>4
  <2> QED
    BY <2>1, PointsAre
<1>4. CASE source = "noaa"
  <2>1. /\ Normalize(source, r).geo = Centroid(r.ring)
        /\ Normalize(source, r).entities = Places(r.area, MaxAreaEntities)
    BY <1>4, ItemIs DEF Normalize, Item
  <2> QED
    BY <1>1, <1>4, <2>1, PointsAre
<1>5. CASE source = "gdacs"
  <2>1. /\ Normalize(source, r).geo = Point(r.lon, r.lat)
        /\ Normalize(source, r).entities = Places(r.country, MaxCountryEntities)
    BY <1>5, ItemIs DEF Normalize, Item
  <2> QED
    BY <1>1, <1>5, <2>1, PointsAre
<1>6. \/ source \in {"bluesky", "mastodon", "wikipedia", "press", "gdelt"}
      \/ source = "usgs" \/ source = "noaa" \/ source = "gdacs"
  BY DEF AllSources, Polled
<1> QED
  BY <1>2, <1>3, <1>4, <1>5, <1>6

\* A reply names its parent by the key of the parent.
LEMMA ReplyNamesParent ==
    ASSUME NEW a, NEW b, Bluesky(a).is = "item", Bluesky(b).is = "item",
           b.parent = <<a.did, a.rkey>>
    PROVE  Bluesky(b).parent = Bluesky(a).hash
<1>1. Bluesky(a).hash = UriKey(a.did, a.rkey)
  BY ItemIs DEF Item
<1>2. Bluesky(b).parent = IF b.parent = <<>> THEN <<>> ELSE UriKey(b.parent[1], b.parent[2])
  BY ItemIs DEF Item
<1>3. b.parent # <<>> /\ b.parent[1] = a.did /\ b.parent[2] = a.rkey
  OBVIOUS
<1> QED
  BY <1>1, <1>2, <1>3

\* Whatever fields two records of a source have: they have one hash if and only if the
\* source means one event, records the poll loop takes for one are one event, a reply
\* names its parent, and the Item fits its schema.
THEOREM IdentityIsTheEvent == Spec => []SourcesIdentify
<1>1. Called /\ Returned => SourcesIdentify
  <2> SUFFICES ASSUME Called, Returned, Answered("record")
               PROVE  SourcesIdentify
    BY DEF SourcesIdentify
  <2>1. PICK s \in DOMAIN RecordsOf :
          call \in [rule : {"record"}, source : {s}, a : RecordsOf[s].any, b : RecordsOf[s].plain]
    <3>1. /\ \A c \in GateCalls \cup VelocityCalls : c.rule # "record"
          /\ \A c \in EncodeCalls \cup NerCalls \cup MatchCalls \cup MergeCalls \cup HashCalls :
                c.rule # "record"
          /\ Serve.rule # "record"
      BY CallsAssumption DEF Serve
    <3> QED
      BY <3>1, Zenon DEF Called, Answered
  <2>2. /\ call.source = s /\ call.a \in RecordsOf[s].any \cup RecordsOf[s].plain
        /\ call.b \in RecordsOf[s].any \cup RecordsOf[s].plain
    BY <2>1
  <2>3. s \in AllSources
    BY <2>2, RecordsAssumption DEF AllSources
  <2>4. PICK a, b : a = call.a /\ b = call.b
    OBVIOUS
  <2>5. \A r \in {a, b} :
          /\ s = "noaa" => r.ring \in Seq(Int \X Int) /\ None \notin ToSet(r.area)
          /\ s = "gdacs" => r.eventtype \notin LongRefs /\ None \notin ToSet(r.country)
    BY <2>2, <2>4, RecordsAssumption
  <2>6. answer[1] = Normalize(s, a) /\ answer[2] = Normalize(s, b)
    BY <2>2, <2>4 DEF Returned
  <2>7. ASSUME Normalize(s, a).is = "item", Normalize(s, b).is = "item"
        PROVE  /\ Normalize(s, a).hash = Normalize(s, b).hash <=> SameEvent(s, a, b)
               /\ s \in Polled /\ (s = "noaa" => Truthy(a.urn)) /\ DedupKey(s, a) = DedupKey(s, b)
                    => Normalize(s, a).hash = Normalize(s, b).hash
               /\ s = "bluesky" /\ b.parent = <<a.did, a.rkey>>
                    => Normalize(s, b).parent = Normalize(s, a).hash
    <3>1. Normalize(s, a).hash = Normalize(s, b).hash <=> SameEvent(s, a, b)
      BY <2>3, <2>7, HashIsEvent
    <3>2. s = "bluesky" => Normalize(s, a) = Bluesky(a) /\ Normalize(s, b) = Bluesky(b)
      BY DEF Normalize
    <3> QED
      BY <2>7, <3>1, <3>2, DedupIsEvent, ReplyNamesParent
  <2>8. ASSUME NEW r \in {a, b}, Normalize(s, r).is = "item"
        PROVE  LET it == Normalize(s, r)
               IN  /\ s \notin Hashed => ToSet(it.hash) \cap LongRefs = {}
                   /\ it.geo # <<>> => Point(it.geo[1], it.geo[2]) # <<>>
                   /\ \A e \in it.entities : Truthy(e)
    BY <2>3, <2>5, <2>8, HashFits, ItemFits
  <2> QED
    BY <2>2, <2>4, <2>6, <2>7, <2>8 DEF SourcesIdentify
<1> QED
  BY <1>1, CallsInit, CallsStep, PTL DEF Spec

----------------------------------------------------------------------------
(* Velocity                                                                *)

\* A set of numbers that is not empty has a least one.
LEMMA Least ==
    ASSUME NEW Bad \in SUBSET Nat, Bad # {}
    PROVE  \E m \in Bad : \A k \in Bad : m <= k
<1>1. PICK m \in Bad : \A k \in Bad : ~ (<<k, m>> \in OpToRel(<, Nat))
  BY WFMin, NatLessThanWellFounded
<1>2. \A k \in Bad : ~ (k < m)
  BY <1>1 DEF OpToRel
<1> QED
  BY <1>2

\* There is a function that is defined along 1..n, each value from the one before.
LEMMA Unfolds ==
    ASSUME NEW n \in Nat, NEW x \in Int, NEW F \in [(1..n) \X Int -> Int]
    PROVE  \E h \in [1..n -> Int] :
              \A i \in 1..n : h[i] = IF i = 1 THEN x ELSE F[<<i, h[i - 1]>>]
<1> DEFINE Has(m) == \E h \in [1..m -> Int] :
                        \A i \in 1..m : h[i] = IF i = 1 THEN x ELSE F[<<i, h[i - 1]>>]
           Bad == {m \in 0..n : ~ Has(m)}
<1>1. ASSUME Bad # {} PROVE FALSE
  <2>1. Bad \in SUBSET Nat
    OBVIOUS
  <2> HIDE DEF Bad
  <2>2. PICK m \in Bad : \A k \in Bad : m <= k
    BY <1>1, <2>1, Least
  <2>3. m \in 0..n /\ ~ Has(m)
    BY DEF Bad
  <2>4. m # 0
    <3>1. ASSUME m = 0 PROVE FALSE
      <4>1. [i \in 1..0 |-> 0] \in [1..0 -> Int] /\ \A i \in 1..0 : FALSE
        OBVIOUS
      <4>2. Has(0)
        BY <4>1
      <4> QED
        BY <2>3, <3>1, <4>2
    <3> QED
      BY <3>1
  <2>5. m - 1 \in 0..n /\ m - 1 \notin Bad
    BY <2>1, <2>2, <2>3, <2>4
  <2>6. PICK h \in [1..(m - 1) -> Int] :
            \A i \in 1..(m - 1) : h[i] = IF i = 1 THEN x ELSE F[<<i, h[i - 1]>>]
    BY <2>5 DEF Bad
  <2> DEFINE last == IF m = 1 THEN x ELSE F[<<m, h[m - 1]>>]
             g == [i \in 1..m |-> IF i = m THEN last ELSE h[i]]
  <2>7. last \in Int
    <3>1. m # 1 => <<m, h[m - 1]>> \in (1..n) \X Int
      BY <2>3, <2>4
    <3> QED
      BY <3>1
  <2>8. g \in [1..m -> Int]
    <3> HIDE DEF last
    <3> QED
      BY <2>3, <2>4, <2>7
  <2>9. ASSUME NEW i \in 1..m
        PROVE  g[i] = IF i = 1 THEN x ELSE F[<<i, g[i - 1]>>]
    <3>1. CASE i = m
      <4>1. m # 1 => m - 1 \in 1..m /\ m - 1 # m
        BY <2>3, <2>4
      <4>2. m # 1 => g[m - 1] = h[m - 1]
        BY <4>1
      <4> QED
        BY <3>1, <4>2
    <3>2. CASE i # m
      <4>1. i \in 1..(m - 1) /\ (i # 1 => i - 1 \in 1..m /\ i - 1 # m)
        BY <2>3, <3>2
      <4>2. g[i] = h[i] /\ (i # 1 => g[i - 1] = h[i - 1])
        BY <3>2, <4>1
      <4> HIDE DEF g
      <4> QED
        BY <2>6, <4>1, <4>2
    <3> QED
      BY <3>1, <3>2
  <2>10. Has(m)
    <3> HIDE DEF g
    <3> QED
      BY <2>8, <2>9
  <2> QED
    BY <2>3, <2>10
<1>2. Has(n)
  <2> HIDE DEF Has
  <2> QED
    BY <1>1
<1> QED
  BY <1>2

Powers(f, d, n) == f = [k \in 1..n |-> IF k = 1 THEN 1 ELSE d * f[k - 1]]

Smooths(s, p, series, a, d, n) ==
    s = [i \in 1..n |-> IF i = 1 THEN p * series[1]
                        ELSE (a * p * series[i] + (d - a) * s[i - 1]) \div d]

Power(d, n) == (CHOOSE f : Powers(f, d, n))[n]

\* The definition, with its recursive functions made bound variables.
LEMMA EwmaIsChoice ==
    ASSUME NEW series, NEW a, NEW d
    PROVE  Ewma(series, a, d)
             = CHOOSE s : Smooths(s, Power(d, Len(series)), series, a, d, Len(series))
  BY DEF Ewma, Smooths, Powers, Power

\* The common denominator is large enough.
LEMMA PowerIs ==
    ASSUME NEW n \in Nat, n >= 2, NEW d \in Nat \ {0}
    PROVE  Power(d, n) \in Nat /\ Power(d, n) >= d
<1> DEFINE F == [p \in (1..n) \X Int |-> d * p[2]]
<1>1. F \in [(1..n) \X Int -> Int] /\ \A i \in 1..n, v \in Int : F[<<i, v>>] = d * v
  OBVIOUS
<1> HIDE DEF F
<1>2. PICK h \in [1..n -> Int] : \A i \in 1..n : h[i] = IF i = 1 THEN 1 ELSE F[<<i, h[i - 1]>>]
  <2>1. \A x \in Int : \A G \in [(1..n) \X Int -> Int] : \E h \in [1..n -> Int] :
            \A i \in 1..n : h[i] = IF i = 1 THEN x ELSE G[<<i, h[i - 1]>>]
    BY Unfolds
  <2>2. 1 \in Int /\ F \in [(1..n) \X Int -> Int]
    BY <1>1
  <2> QED
    BY ONLY <2>1, <2>2, Zenon
<1>3. \A i \in 1..n : h[i] = IF i = 1 THEN 1 ELSE d * h[i - 1]
  <2> TAKE i \in 1..n
  <2>1. i # 1 => h[i - 1] \in Int
    OBVIOUS
  <2> QED
    BY <1>1, <1>2, <2>1
<1>4. Powers(h, d, n)
  BY <1>3 DEF Powers
<1> DEFINE f == CHOOSE f : Powers(f, d, n)
<1>5. Powers(f, d, n)
  BY <1>4
<1> HIDE DEF f
<1>6. \A k \in 1..n : f[k] = IF k = 1 THEN 1 ELSE d * f[k - 1]
  BY <1>5 DEF Powers
<1> DEFINE Bad == {k \in 1..n : ~ (f[k] \in Nat /\ f[k] >= 1 /\ (k >= 2 => f[k] >= d))}
<1>7. ASSUME Bad # {} PROVE FALSE
  <2>1. Bad \in SUBSET Nat
    OBVIOUS
  <2> HIDE DEF Bad
  <2>2. PICK k \in Bad : \A j \in Bad : k <= j
    BY <1>7, <2>1, Least
  <2>3. k \in 1..n /\ ~ (f[k] \in Nat /\ f[k] >= 1 /\ (k >= 2 => f[k] >= d))
    BY DEF Bad
  <2>4. CASE k = 1
    BY <1>6, <2>3, <2>4
  <2>5. CASE k # 1
    <3>1. k - 1 \in 1..n /\ k - 1 \notin Bad
      BY <2>1, <2>2, <2>3, <2>5
    <3>2. f[k - 1] \in Nat /\ f[k - 1] >= 1
      BY <3>1 DEF Bad
    <3>3. f[k] = d * f[k - 1]
      BY <1>6, <2>3, <2>5
    <3>4. \A v \in Nat : v >= 1 => d * v \in Nat /\ d * v >= d /\ d * v >= 1
      OBVIOUS
    <3> QED
      BY <2>3, <3>2, <3>3, <3>4
  <2> QED
    BY <2>4, <2>5
<1>8. f[n] \in Nat /\ f[n] >= d
  BY <1>7
<1> QED
  BY <1>8 DEF Power, f

\* s is the average of series: p times its true value.
Smoothed(s, p, series, a, d, n) ==
    /\ s \in [1..n -> Int]
    /\ s[1] = p * series[1]
    /\ \A i \in 2..n : s[i] = (a * p * series[i] + (d - a) * s[i - 1]) \div d

LEMMA EwmaIs ==
    ASSUME NEW series \in Seq(Nat), Len(series) >= 2, NEW d \in Nat \ {0}, NEW a \in 1..d
    PROVE  Smoothed(Ewma(series, a, d), Power(d, Len(series)), series, a, d, Len(series))
<1> DEFINE n == Len(series)
           p == Power(d, n)
           F == [q \in (1..n) \X Int |-> (a * p * series[q[1]] + (d - a) * q[2]) \div d]
<1>1. n \in Nat /\ n >= 2 /\ DOMAIN series = 1..n /\ \A i \in 1..n : series[i] \in Nat
  OBVIOUS
<1> HIDE DEF n
<1>2. p \in Nat
  BY <1>1, PowerIs
<1> HIDE DEF p
<1>3. \A i \in 1..n, v \in Int : (a * p * series[i] + (d - a) * v) \div d \in Int
  <2> TAKE i \in 1..n, v \in Int
  <2>1. a * p * series[i] + (d - a) * v \in Int
    BY <1>1, <1>2
  <2> DEFINE w == a * p * series[i] + (d - a) * v
  <2> HIDE DEF w
  <2>2. w \in Int => w \div d \in Int
    OBVIOUS
  <2> QED
    BY <2>1, <2>2 DEF w
<1>4. /\ F \in [(1..n) \X Int -> Int]
      /\ \A i \in 1..n, v \in Int : F[<<i, v>>] = (a * p * series[i] + (d - a) * v) \div d
  <2> DEFINE G(i, v) == (a * p * series[i] + (d - a) * v) \div d
  <2>1. F = [q \in (1..n) \X Int |-> G(q[1], q[2])] /\ \A i \in 1..n, v \in Int : G(i, v) \in Int
    BY <1>3
  <2> HIDE DEF F, G
  <2>2. F \in [(1..n) \X Int -> Int] /\ \A i \in 1..n, v \in Int : F[<<i, v>>] = G(i, v)
    BY <2>1
  <2> QED
    BY <2>2 DEF G
<1> HIDE DEF F
<1>5. p * series[1] \in Int
  BY <1>1, <1>2
<1>6. PICK h \in [1..n -> Int] :
          \A i \in 1..n : h[i] = IF i = 1 THEN p * series[1] ELSE F[<<i, h[i - 1]>>]
  <2>1. \A x \in Int : \A G \in [(1..n) \X Int -> Int] : \E h \in [1..n -> Int] :
            \A i \in 1..n : h[i] = IF i = 1 THEN x ELSE G[<<i, h[i - 1]>>]
    BY <1>1, Unfolds
  <2> DEFINE x == p * series[1]
  <2>2. x \in Int /\ F \in [(1..n) \X Int -> Int]
    BY <1>4, <1>5
  <2> HIDE DEF x
  <2>3. \E h \in [1..n -> Int] : \A i \in 1..n : h[i] = IF i = 1 THEN x ELSE F[<<i, h[i - 1]>>]
    BY ONLY <2>1, <2>2, Zenon
  <2> QED
    BY <2>3 DEF x
<1>7. \A i \in 1..n : h[i] = IF i = 1 THEN p * series[1]
                             ELSE (a * p * series[i] + (d - a) * h[i - 1]) \div d
  <2> TAKE i \in 1..n
  <2>1. i # 1 => i - 1 \in 1..n
    BY <1>1
  <2>2. i # 1 => h[i - 1] \in Int
    BY <2>1
  <2>3. i # 1 => F[<<i, h[i - 1]>>] = (a * p * series[i] + (d - a) * h[i - 1]) \div d
    BY <1>4, <2>2
  <2> QED
    BY <1>6, <2>3
<1>8. Smooths(h, p, series, a, d, n)
  <2>1. h = [i \in 1..n |-> h[i]]
    OBVIOUS
  <2> QED
    BY <1>7, <2>1, Zenon DEF Smooths
<1> DEFINE s == Ewma(series, a, d)
<1>9. s = CHOOSE u : Smooths(u, p, series, a, d, n)
  BY EwmaIsChoice DEF n, p
<1>10. Smooths(s, p, series, a, d, n)
  BY <1>8, <1>9
<1> HIDE DEF s
<1>11. \A i \in 1..n : s[i] = IF i = 1 THEN p * series[1]
                              ELSE (a * p * series[i] + (d - a) * s[i - 1]) \div d
  BY <1>10, Zenon DEF Smooths
<1>12. s \in [1..n -> Int]
  <2>1. DOMAIN s = 1..n /\ s = [i \in 1..n |-> s[i]]
    <3>1. \E e : s = [i \in 1..n |-> e[i]]
      BY <1>10 DEF Smooths
    <3> QED
      BY <3>1
  <2> DEFINE Bad == {k \in 1..n : s[k] \notin Int}
  <2>2. ASSUME Bad # {} PROVE FALSE
    <3>1. Bad \in SUBSET Nat
      OBVIOUS
    <3> HIDE DEF Bad
    <3>2. PICK k \in Bad : \A j \in Bad : k <= j
      BY <2>2, <3>1, Least
    <3>3. k \in 1..n /\ s[k] \notin Int
      BY DEF Bad
    <3>4. CASE k = 1
      BY <1>5, <1>11, <3>3, <3>4
    <3>5. CASE k # 1
      <4>1. k - 1 \in 1..n /\ k - 1 \notin Bad
        BY <1>1, <3>1, <3>2, <3>3, <3>5
      <4>2. s[k - 1] \in Int
        BY <4>1 DEF Bad
      <4>3. s[k] = (a * p * series[k] + (d - a) * s[k - 1]) \div d
        BY <1>11, <3>3, <3>5
      <4> QED
        BY <1>3, <3>3, <4>2, <4>3
    <3> QED
      BY <3>4, <3>5
  <2> QED
    BY <2>1, <2>2
<1> QED
  BY <1>1, <1>11, <1>12 DEF Smoothed, n, p, s

\* Division of what grew.
LEMMA Divided ==
    ASSUME NEW d \in Nat \ {0}, NEW x \in Int
    PROVE  /\ x \div d \in Int
           /\ \A y \in Int : (x + d * y) \div d = x \div d + y
           /\ \A y \in Int : y >= d => (x + y) \div d > x \div d
           /\ x >= d => x \div d > 0
<1>1. x \div d \in Int /\ d * (x \div d) <= x /\ x < d * (x \div d) + d
  OBVIOUS
<1> DEFINE q == x \div d
<1> HIDE DEF q
<1>2. q \in Int /\ d * q <= x /\ x < d * q + d
  BY <1>1 DEF q
<1>3. ASSUME NEW z \in Int, NEW r \in Int, d * r <= z, z < d * r + d
      PROVE  z \div d = r
  <2> DEFINE u == z \div d
  <2>1. u \in Int /\ d * u <= z /\ z < d * u + d
    OBVIOUS
  <2> HIDE DEF u
  <2>2. d * r < d * u + d /\ d * u < d * r + d
    BY <1>3, <2>1
  <2>3. ~ (r >= u + 1)
    <3>1. ASSUME r >= u + 1 PROVE FALSE
      <4>1. d * r >= d * (u + 1) /\ d * (u + 1) = d * u + d
        BY <2>1, <3>1
      <4> QED
        BY <2>1, <2>2, <4>1
    <3> QED
      BY <3>1
  <2>4. ~ (u >= r + 1)
    <3>1. ASSUME u >= r + 1 PROVE FALSE
      <4>1. d * u >= d * (r + 1) /\ d * (r + 1) = d * r + d
        BY <2>1, <3>1
      <4> QED
        BY <2>1, <2>2, <4>1
    <3> QED
      BY <3>1
  <2>5. u = r
    BY <2>1, <2>3, <2>4
  <2> QED
    BY <2>5 DEF u
<1>4. ASSUME NEW y \in Int PROVE (x + d * y) \div d = q + y
  <2>1. d * (q + y) = d * q + d * y /\ d * y \in Int
    BY <1>2
  <2>2. x + d * y \in Int /\ q + y \in Int /\ d * (q + y) <= x + d * y
        /\ x + d * y < d * (q + y) + d
    BY <1>2, <2>1
  <2> QED
    BY <1>3, <2>2
<1>5. ASSUME NEW y \in Int, y >= d PROVE (x + y) \div d > q
  <2> DEFINE u == (x + y) \div d
  <2>1. u \in Int /\ d * u <= x + y /\ x + y < d * u + d
    BY <1>5
  <2> HIDE DEF u
  <2>2. d * q < d * u
    BY <1>2, <1>5, <2>1
  <2>3. ~ (u <= q)
    <3>1. ASSUME u <= q PROVE FALSE
      <4>1. d * u <= d * q
        BY <1>2, <2>1, <3>1
      <4> QED
        BY <1>2, <2>1, <2>2, <4>1
    <3> QED
      BY <3>1
  <2>4. u > q
    BY <1>2, <2>1, <2>3
  <2> QED
    BY <2>4 DEF u
<1>6. ASSUME x >= d PROVE q > 0
  <2>1. ASSUME q <= 0 PROVE FALSE
    <3>1. d * q <= 0
      BY <1>2, <2>1
    <3> QED
      BY <1>2, <1>6, <3>1
  <2> QED
    BY <1>2, <2>1
<1> QED
  BY <1>2, <1>4, <1>5, <1>6 DEF q

\* y is x with c more everywhere; y differs from x in that it ends higher; x ends what
\* was silent.
Above(x, y, n, c) == \A i \in 1..n : y[i] = x[i] + c
Topped(x, y, n) == (\A i \in 1..(n - 1) : y[i] = x[i]) /\ y[n] > x[n]
Silent(x, n) == (\A i \in 1..(n - 1) : x[i] = 0) /\ x[n] > 0

\* An average lifted everywhere is lifted by as much.
LEMMA LiftedEwma ==
    ASSUME NEW n \in Nat, NEW x \in [1..n -> Nat], NEW y \in [1..n -> Nat],
           Above(x, y, n, 1),
           NEW d \in Nat \ {0}, NEW a \in 1..d, NEW p \in Nat, NEW s, NEW t,
           Smoothed(s, p, x, a, d, n), Smoothed(t, p, y, a, d, n)
    PROVE  Above(s, t, n, p)
<1>0. \A i \in 1..n : y[i] = x[i] + 1
  BY DEF Above
<1> DEFINE Bad == {i \in 1..n : t[i] # s[i] + p}
<1>1. ASSUME Bad # {} PROVE FALSE
  <2>1. Bad \in SUBSET Nat
    OBVIOUS
  <2> HIDE DEF Bad
  <2>2. PICK k \in Bad : \A j \in Bad : k <= j
    BY <1>1, <2>1, Least
  <2>3. k \in 1..n /\ t[k] # s[k] + p
    BY DEF Bad
  <2>4. CASE k = 1
    <3>1. t[1] = p * y[1] /\ s[1] = p * x[1] /\ y[1] = x[1] + 1 /\ x[1] \in Nat
      BY <1>0, <2>3, <2>4 DEF Smoothed
    <3>2. \A v \in Nat : p * (v + 1) = p * v + p
      OBVIOUS
    <3> QED
      BY <2>3, <2>4, <3>1, <3>2
  <2>5. CASE k # 1
    <3>1. k - 1 \in 1..n /\ k - 1 \notin Bad /\ k \in 2..n
      BY <2>1, <2>2, <2>3, <2>5
    <3>2. t[k - 1] = s[k - 1] + p
      BY <3>1 DEF Bad
    <3>3. /\ t[k] = (a * p * y[k] + (d - a) * t[k - 1]) \div d
          /\ s[k] = (a * p * x[k] + (d - a) * s[k - 1]) \div d
          /\ y[k] = x[k] + 1 /\ x[k] \in Nat /\ s[k - 1] \in Int
      BY <1>0, <2>3, <3>1 DEF Smoothed
    <3>4. ASSUME NEW v \in Nat, NEW w \in Int
          PROVE  (a * p * (v + 1) + (d - a) * (w + p)) \div d
                   = (a * p * v + (d - a) * w) \div d + p
      <4> DEFINE z == a * p * v + (d - a) * w
      <4>1. z \in Int
        OBVIOUS
      <4>2. a * p * (v + 1) = a * p * v + a * p
        OBVIOUS
      <4>3. (d - a) * (w + p) = (d - a) * w + (d - a) * p
        OBVIOUS
      <4>4. a * p + (d - a) * p = d * p
        OBVIOUS
      <4>5. a * p * (v + 1) + (d - a) * (w + p) = z + d * p
        <5>1. a * p * v \in Int /\ a * p \in Int /\ (d - a) * w \in Int /\ (d - a) * p \in Int
          OBVIOUS
        <5> QED
          BY <4>2, <4>3, <4>4, <5>1
      <4> HIDE DEF z
      <4>6. \A y1 \in Int : (z + d * y1) \div d = z \div d + y1
        BY <4>1, Divided
      <4>7. (z + d * p) \div d = z \div d + p
        BY <4>6
      <4> QED
        BY <4>5, <4>7 DEF z
    <3>5. t[k] = s[k] + p
      BY <3>2, <3>3, <3>4
    <3> QED
      BY <2>3, <3>5
  <2> QED
    BY <2>4, <2>5
<1> QED
  BY <1>1 DEF Above

\* A larger last value raises the last average and no other one.
LEMMA RaisedEwma ==
    ASSUME NEW n \in Nat, n >= 2, NEW x \in [1..n -> Nat], NEW y \in [1..n -> Nat],
           Topped(x, y, n), y[n] = x[n] + 1,
           NEW d \in Nat \ {0}, NEW a \in 1..d, NEW p \in Nat, p >= d, NEW s, NEW t,
           Smoothed(s, p, x, a, d, n), Smoothed(t, p, y, a, d, n)
    PROVE  Topped(s, t, n)
<1>0. \A i \in 1..(n - 1) : y[i] = x[i]
  BY DEF Topped
<1> DEFINE Bad == {i \in 1..(n - 1) : t[i] # s[i]}
<1>1. ASSUME Bad # {} PROVE FALSE
  <2>1. Bad \in SUBSET Nat
    OBVIOUS
  <2> HIDE DEF Bad
  <2>2. PICK k \in Bad : \A j \in Bad : k <= j
    BY <1>1, <2>1, Least
  <2>3. k \in 1..(n - 1) /\ t[k] # s[k]
    BY DEF Bad
  <2>4. CASE k = 1
    BY <1>0, <2>3, <2>4 DEF Smoothed
  <2>5. CASE k # 1
    <3>1. k - 1 \in 1..(n - 1) /\ k - 1 \notin Bad /\ k \in 2..n
      BY <2>1, <2>2, <2>3, <2>5
    <3>2. t[k - 1] = s[k - 1]
      BY <3>1 DEF Bad
    <3>3. /\ t[k] = (a * p * y[k] + (d - a) * t[k - 1]) \div d
          /\ s[k] = (a * p * x[k] + (d - a) * s[k - 1]) \div d
          /\ y[k] = x[k]
      BY <1>0, <2>3, <3>1 DEF Smoothed
    <3> QED
      BY <2>3, <3>2, <3>3
  <2> QED
    BY <2>4, <2>5
<1>2. \A i \in 1..(n - 1) : t[i] = s[i]
  BY <1>1
<1>3. /\ t[n] = (a * p * y[n] + (d - a) * t[n - 1]) \div d
      /\ s[n] = (a * p * x[n] + (d - a) * s[n - 1]) \div d
      /\ t[n - 1] = s[n - 1] /\ s[n - 1] \in Int /\ x[n] \in Nat
  <2>1. n \in 2..n /\ n - 1 \in 1..(n - 1) /\ n - 1 \in 1..n
    OBVIOUS
  <2> QED
    BY <1>2, <2>1 DEF Smoothed
<1>4. ASSUME NEW v \in Nat, NEW w \in Int
      PROVE  (a * p * (v + 1) + (d - a) * w) \div d > (a * p * v + (d - a) * w) \div d
  <2> DEFINE z == a * p * v + (d - a) * w
  <2>1. z \in Int /\ a * p \in Int
    OBVIOUS
  <2>2. a * p * (v + 1) = a * p * v + a * p
    OBVIOUS
  <2>3. a * p >= p
    OBVIOUS
  <2>4. a * p * (v + 1) + (d - a) * w = z + a * p
    <3>1. a * p * v \in Int /\ a * p \in Int /\ (d - a) * w \in Int
      OBVIOUS
    <3> QED
      BY <2>2, <3>1
  <2> HIDE DEF z
  <2>5. a * p >= d
    <3>1. \A u \in Int : u >= p => u >= d
      OBVIOUS
    <3>2. a * p \in Int
      OBVIOUS
    <3> QED
      BY ONLY <2>3, <3>1, <3>2, Zenon
  <2>6. (z + a * p) \div d > z \div d
    BY <2>1, <2>5, Divided
  <2> QED
    BY <2>4, <2>6 DEF z
<1>5. t[n] > s[n]
  BY <1>3, <1>4
<1> QED
  BY <1>2, <1>5 DEF Topped

\* After silence the average is 0 up to the first mentions.
LEMMA SilentEwma ==
    ASSUME NEW n \in Nat, n >= 2, NEW x \in [1..n -> Nat],
           Silent(x, n),
           NEW d \in Nat \ {0}, NEW a \in 1..d, NEW p \in Nat, p >= d, NEW s,
           Smoothed(s, p, x, a, d, n)
    PROVE  Silent(s, n)
<1>0. 0 \div d = 0
  OBVIOUS
<1>5. (\A i \in 1..(n - 1) : x[i] = 0) /\ x[n] > 0
  BY DEF Silent
<1> DEFINE Bad == {i \in 1..(n - 1) : s[i] # 0}
<1>1. ASSUME Bad # {} PROVE FALSE
  <2>1. Bad \in SUBSET Nat
    OBVIOUS
  <2> HIDE DEF Bad
  <2>2. PICK k \in Bad : \A j \in Bad : k <= j
    BY <1>1, <2>1, Least
  <2>3. k \in 1..(n - 1) /\ s[k] # 0
    BY DEF Bad
  <2>4. CASE k = 1
    <3>1. s[1] = p * x[1] /\ x[1] = 0
      BY <1>5, <2>3, <2>4 DEF Smoothed
    <3> QED
      BY <2>3, <2>4, <3>1
  <2>5. CASE k # 1
    <3>1. k - 1 \in 1..(n - 1) /\ k - 1 \notin Bad /\ k \in 2..n
      BY <2>1, <2>2, <2>3, <2>5
    <3>2. s[k - 1] = 0 /\ x[k] = 0
      BY <1>5, <2>3, <3>1 DEF Bad
    <3>3. s[k] = (a * p * 0 + (d - a) * 0) \div d
      BY <3>1, <3>2 DEF Smoothed
    <3>4. a * p * 0 + (d - a) * 0 = 0
      OBVIOUS
    <3> QED
      BY <1>0, <2>3, <3>3, <3>4
  <2> QED
    BY <2>4, <2>5
<1>2. \A i \in 1..(n - 1) : s[i] = 0
  BY <1>1
<1>3. s[n] = (a * p * x[n] + (d - a) * 0) \div d /\ x[n] \in Nat
  <2>1. n \in 2..n /\ n - 1 \in 1..(n - 1)
    OBVIOUS
  <2> QED
    BY <1>2, <2>1 DEF Smoothed
<1>4. ASSUME NEW v \in Nat, v > 0
      PROVE  (a * p * v + (d - a) * 0) \div d > 0
  <2>1. a * p \in Nat /\ a * p >= p
    OBVIOUS
  <2> DEFINE m == a * p
  <2> HIDE DEF m
  <2>2. m \in Nat /\ m >= d
    BY <2>1 DEF m
  <2>3. m * v \in Int /\ m * v >= m
    BY <1>4, <2>2
  <2>4. (d - a) * 0 = 0
    OBVIOUS
  <2>5. m * v + (d - a) * 0 = m * v /\ m * v >= d
    BY <2>2, <2>3, <2>4
  <2>6. (m * v) \div d > 0
    BY <2>3, <2>5, Divided
  <2> QED
    BY <2>5, <2>6 DEF m
<1> QED
  BY <1>2, <1>3, <1>4, <1>5 DEF Silent

\* A is the second differences of s.
Curve(A, s, n) ==
    /\ A \in Seq(Int) /\ Len(A) = n - 2
    /\ \A i \in 1..(n - 2) : A[i] = s[i + 2] - 2 * s[i + 1] + s[i]

\* The accelerations are the second differences of the averages.
LEMMA AccelerationsAre ==
    ASSUME NEW n \in Nat, n >= 3, NEW series, Len(series) = n, NEW d, NEW a,
           NEW s \in [1..n -> Int], s = Ewma(series, a, d)
    PROVE  Curve(Accelerations(series, a, d), s, n)
<1> DEFINE accel == [i \in 1..(n - 2) |-> s[i + 2] - 2 * s[i + 1] + s[i]]
<1>1. Accelerations(series, a, d) = accel
  BY DEF Accelerations
<1>2. \A i \in 1..(n - 2) : s[i + 2] - 2 * s[i + 1] + s[i] \in Int
  <2> TAKE i \in 1..(n - 2)
  <2>1. i \in 1..n /\ i + 1 \in 1..n /\ i + 2 \in 1..n
    OBVIOUS
  <2>2. s[i] \in Int /\ s[i + 1] \in Int /\ s[i + 2] \in Int
    BY <2>1
  <2> QED
    BY <2>2
<1>3. accel \in Seq(Int) /\ Len(accel) = n - 2
  BY <1>2
<1> QED
  BY <1>1, <1>3 DEF Curve

\* The variance of the baseline, times the square of its length.
Spread(accel, b) ==
    b * Sum([i \in 1..b |-> accel[i] * accel[i]], 1..b) - Sum(accel, 1..b) * Sum(accel, 1..b)

\* The score in terms of the accelerations.
LEMMA ScoreIs ==
    ASSUME NEW series, NEW a, NEW d, NEW least, NEW flat, ~ (Len(series) < least),
           NEW accel, Accelerations(series, a, d) = accel, NEW b, b = Len(accel) - 1
    PROVE  VelocityZ(series, a, d, least, flat) =
              IF Spread(accel, b) > 0
              THEN [M |-> b * accel[b + 1] - Sum(accel, 1..b), V |-> Spread(accel, b)]
              ELSE [M |-> IF accel[b + 1] = 0 THEN 0 ELSE flat, V |-> 1]
  BY DEF VelocityZ, SumTo, Sum, Spread

\* The squares of the distances to a number add up to 0 only where there is no distance.
Squares(q, f, S) == \A i \in S : f[i] \in Int /\ q[i] = f[i] * f[i]
Distances(q, f, S, x) == Sum(q, S) - 2 * (x * Sum(f, S)) + Cardinality(S) * (x * x)

LEMMA DistancesAre ==
    ASSUME NEW S, IsFiniteSet(S), NEW f, NEW q, Squares(q, f, S), NEW x \in Int
    PROVE  /\ Distances(q, f, S, x) \in Nat
           /\ Distances(q, f, S, x) = 0 <=> \A i \in S : f[i] = x
<1> DEFINE D(T) == Distances(q, f, T, x)
           Fine(T) == D(T) \in Nat /\ (D(T) = 0 <=> \A i \in T : f[i] = x)
           Bad == {T \in SUBSET S : ~ Fine(T)}
<1>1. ASSUME Bad # {} PROVE FALSE
  <2>1. PICK T \in Bad : IsFiniteSet(T) /\ \A U \in SUBSET T : U \in Bad => U = T
    <3>1. Bad \in SUBSET (SUBSET S)
      OBVIOUS
    <3> HIDE DEF Bad
    <3> QED
      BY <1>1, <3>1, Smallest
  <2>2. T \in SUBSET S /\ ~ Fine(T)
    BY <2>1
  <2>3. T # {}
    <3>1. Fine({})
      BY EmptySum, FS_EmptySet DEF Distances
    <3> HIDE DEF Fine
    <3> QED
      BY <2>2, <3>1
  <2>4. PICK y : y = Pick(T)
    OBVIOUS
  <2>5. PICK U : U = T \ {y}
    OBVIOUS
  <2>6. y \in T /\ y \in S /\ f[y] \in Int /\ q[y] = f[y] * f[y]
    <3>1. y \in T /\ y \in S
      BY <2>2, <2>3, <2>4, PickIn
    <3> QED
      BY <3>1 DEF Squares
  <2>7. IsFiniteSet(U) /\ U \in SUBSET S /\ Cardinality(T) = Cardinality(U) + 1
        /\ Cardinality(U) \in Nat
    <3>1. IsFiniteSet(U) /\ Cardinality(U) = Cardinality(T) - 1
      BY ONLY <2>1, <2>5, <2>6, FS_RemoveElement
    <3>2. Cardinality(U) \in Nat /\ Cardinality(T) \in Nat
      BY ONLY <2>1, <3>1, FS_CardinalityType
    <3> QED
      BY ONLY <2>2, <2>5, <3>1, <3>2
  <2>8. Sum(q, T) = q[y] + Sum(q, U) /\ Sum(f, T) = f[y] + Sum(f, U)
    BY <2>1, <2>3, <2>4, <2>5, SumStep
  <2>9. Sum(q, U) \in Int /\ Sum(f, U) \in Int
    <3>1. \A i \in U : f[i] \in Int /\ q[i] \in Int
      BY <2>7 DEF Squares
    <3> QED
      BY <2>7, <3>1, SumIsInt
  <2>10. Fine(U)
    <3>1. U \in SUBSET T /\ U # T
      BY <2>5, <2>6
    <3> HIDE DEF Fine
    <3> QED
      BY <2>1, <2>7, <3>1
  <2>11. D(T) = D(U) + (f[y] - x) * (f[y] - x)
    <3>1. \A c, k, m, u \in Int :
              (u * u + k) - 2 * (x * (u + m)) + (c + 1) * (x * x)
                = (k - 2 * (x * m) + c * (x * x)) + (u - x) * (u - x)
      OBVIOUS
    <3> QED
      BY ONLY <2>6, <2>7, <2>8, <2>9, <3>1, x \in Int DEF Distances
  <2>12. \A u \in Int : u * u \in Nat /\ (u * u = 0 <=> u = 0)
    <3>1. ASSUME NEW u \in Int, u > 0 PROVE u * u > 0 /\ u * u \in Int
      BY ONLY <3>1
    <3>2. ASSUME NEW u \in Int, u < 0 PROVE u * u > 0 /\ u * u \in Int
      BY ONLY <3>2
    <3> TAKE u \in Int
    <3>3. CASE u = 0
      BY ONLY <3>3
    <3>4. CASE u # 0
      <4>1. u * u > 0 /\ u * u \in Int
        BY ONLY <3>1, <3>2, <3>4, u \in Int
      <4> QED
        BY ONLY <3>4, <4>1
    <3> QED
      BY ONLY <3>3, <3>4
  <2>13. f[y] - x \in Int /\ (f[y] - x = 0 <=> f[y] = x)
    <3>1. \A u \in Int : u - x \in Int /\ (u - x = 0 <=> u = x)
      BY ONLY x \in Int
    <3> QED
      BY ONLY <2>6, <3>1
  <2>14. D(U) \in Nat /\ (D(U) = 0 <=> \A i \in U : f[i] = x)
    BY <2>10
  <2> HIDE DEF D
  <2>15. D(T) \in Nat /\ (D(T) = 0 <=> D(U) = 0 /\ f[y] = x)
    <3>1. \A u, v \in Nat : u + v \in Nat /\ (u + v = 0 <=> u = 0 /\ v = 0)
      OBVIOUS
    <3> QED
      BY ONLY <2>11, <2>12, <2>13, <2>14, <3>1
  <2>16. (\A i \in T : f[i] = x) <=> (\A i \in U : f[i] = x) /\ f[y] = x
    BY <2>5, <2>6
  <2> QED
    BY <2>2, <2>14, <2>15, <2>16
<1>2. S \notin Bad
  BY <1>1
<1>3. Fine(S)
  BY <1>2
<1> QED
  BY <1>3

\* The variance is 0 only where the numbers are one number.
Variance(q, f, S) == Cardinality(S) * Sum(q, S) - Sum(f, S) * Sum(f, S)

LEMMA VarianceIs ==
    ASSUME NEW S, IsFiniteSet(S), NEW f, NEW q, Squares(q, f, S)
    PROVE  /\ Variance(q, f, S) \in Nat
           /\ Variance(q, f, S) = 0 <=> \A i, j \in S : f[i] = f[j]
<1> DEFINE V(T) == Variance(q, f, T)
           Fine(T) == V(T) \in Nat /\ (V(T) = 0 <=> \A i, j \in T : f[i] = f[j])
           Bad == {T \in SUBSET S : ~ Fine(T)}
<1>1. ASSUME Bad # {} PROVE FALSE
  <2>1. PICK T \in Bad : IsFiniteSet(T) /\ \A U \in SUBSET T : U \in Bad => U = T
    <3>1. Bad \in SUBSET (SUBSET S)
      OBVIOUS
    <3> HIDE DEF Bad
    <3> QED
      BY <1>1, <3>1, Smallest
  <2>2. T \in SUBSET S /\ ~ Fine(T)
    BY <2>1
  <2>3. T # {}
    <3>1. Fine({})
      BY EmptySum, FS_EmptySet DEF Variance
    <3> HIDE DEF Fine
    <3> QED
      BY <2>2, <3>1
  <2>4. PICK y : y = Pick(T)
    OBVIOUS
  <2>5. PICK U : U = T \ {y}
    OBVIOUS
  <2>6. y \in T /\ y \in S /\ f[y] \in Int /\ q[y] = f[y] * f[y]
    <3>1. y \in T /\ y \in S
      BY <2>2, <2>3, <2>4, PickIn
    <3> QED
      BY <3>1 DEF Squares
  <2>7. IsFiniteSet(U) /\ U \in SUBSET S /\ Cardinality(T) = Cardinality(U) + 1
        /\ Cardinality(U) \in Nat
    <3>1. IsFiniteSet(U) /\ Cardinality(U) = Cardinality(T) - 1
      BY ONLY <2>1, <2>5, <2>6, FS_RemoveElement
    <3>2. Cardinality(U) \in Nat /\ Cardinality(T) \in Nat
      BY ONLY <2>1, <3>1, FS_CardinalityType
    <3> QED
      BY ONLY <2>2, <2>5, <3>1, <3>2
  <2>8. Sum(q, T) = q[y] + Sum(q, U) /\ Sum(f, T) = f[y] + Sum(f, U)
    BY <2>1, <2>3, <2>4, <2>5, SumStep
  <2>9. Sum(q, U) \in Int /\ Sum(f, U) \in Int /\ Squares(q, f, U)
    <3>1. \A i \in U : f[i] \in Int /\ q[i] \in Int
      BY <2>7 DEF Squares
    <3> QED
      BY <2>7, <3>1, SumIsInt DEF Squares
  <2>10. Fine(U)
    <3>1. U \in SUBSET T /\ U # T
      BY <2>5, <2>6
    <3> HIDE DEF Fine
    <3> QED
      BY <2>1, <2>7, <3>1
  <2>11. PICK d : d = Distances(q, f, U, f[y])
    OBVIOUS
  <2>12. d \in Nat /\ (d = 0 <=> \A i \in U : f[i] = f[y])
    BY <2>6, <2>7, <2>9, <2>11, DistancesAre
  <2>13. V(T) = V(U) + d
    <3>1. PICK c, k, m, u \in Int :
              c = Cardinality(U) /\ k = Sum(q, U) /\ m = Sum(f, U) /\ u = f[y]
      BY ONLY <2>6, <2>7, <2>9
    <3>2. d = k - 2 * (u * m) + c * (u * u)
      BY ONLY <2>11, <3>1 DEF Distances
    <3>3. (c + 1) * (u * u + k) - (u + m) * (u + m) = (c * k - m * m) + d
      BY ONLY <3>2, c \in Int, k \in Int, m \in Int, u \in Int
    <3>4. V(T) = (c + 1) * (u * u + k) - (u + m) * (u + m) /\ V(U) = c * k - m * m
      BY ONLY <2>6, <2>7, <2>8, <3>1 DEF Variance
    <3> QED
      BY ONLY <3>3, <3>4
  <2>14. V(U) \in Nat /\ (V(U) = 0 <=> \A i, j \in U : f[i] = f[j])
    BY <2>10
  <2> HIDE DEF V
  <2>15. V(T) \in Nat /\ (V(T) = 0 <=> V(U) = 0 /\ d = 0)
    BY ONLY <2>12, <2>13, <2>14
  <2>16. (\A i, j \in T : f[i] = f[j])
            <=> (\A i, j \in U : f[i] = f[j]) /\ (\A i \in U : f[i] = f[y])
    BY <2>5, <2>6
  <2> QED
    BY <2>2, <2>12, <2>14, <2>15, <2>16
<1>2. S \notin Bad
  BY <1>1
<1>3. Fine(S)
  BY <1>2
<1> QED
  BY <1>3

\* Two of the first b differ.
Varies(A, b) == \E i, j \in 1..b : A[i] # A[j]

\* What Spread is made of.
LEMMA SpreadIs ==
    ASSUME NEW b \in Nat, NEW accel, \A i \in 1..b : accel[i] \in Int
    PROVE  /\ Sum(accel, 1..b) \in Int /\ Spread(accel, b) \in Int
           /\ Spread(accel, b) > 0 <=> Varies(accel, b)
           /\ b = 0 => Spread(accel, b) = 0
           /\ (\A i \in 1..b : accel[i] = 0) => Spread(accel, b) = 0
           /\ \A other : (\A i \in 1..b : other[i] = accel[i]) =>
                 Sum(other, 1..b) = Sum(accel, 1..b) /\ Spread(other, b) = Spread(accel, b)
<1> DEFINE sq == [i \in 1..b |-> accel[i] * accel[i]]
<1>1. IsFiniteSet(1..b)
  BY FS_Interval
<1>2. Sum(accel, 1..b) \in Int
  BY <1>1, SumIsInt
<1>3. Sum(sq, 1..b) \in Int
  <2>1. \A i \in 1..b : sq[i] \in Int
    OBVIOUS
  <2> HIDE DEF sq
  <2> QED
    BY <1>1, <2>1, SumIsInt
<1>4. Spread(accel, b) = b * Sum(sq, 1..b) - Sum(accel, 1..b) * Sum(accel, 1..b)
  BY DEF Spread
<1>5. ASSUME \A i \in 1..b : accel[i] = 0
      PROVE  Spread(accel, b) = 0
  <2>1. \A i \in 1..b : sq[i] = 0
    BY <1>5
  <2> HIDE DEF sq
  <2>2. Sum(sq, 1..b) = 0 /\ Sum(accel, 1..b) = 0
    BY <1>1, <1>5, <2>1, SumZero
  <2> QED
    BY <1>4, <2>2
<1>6. b = 0 => Spread(accel, b) = 0
  BY <1>5
<1>7. ASSUME NEW other, \A i \in 1..b : other[i] = accel[i]
      PROVE  Sum(other, 1..b) = Sum(accel, 1..b) /\ Spread(other, b) = Spread(accel, b)
  <2> DEFINE sq2 == [i \in 1..b |-> other[i] * other[i]]
  <2>1. \A i \in 1..b : sq2[i] = sq[i]
    BY <1>7
  <2>2. Spread(other, b) = b * Sum(sq2, 1..b) - Sum(other, 1..b) * Sum(other, 1..b)
    BY DEF Spread
  <2> HIDE DEF sq, sq2
  <2>3. Sum(sq2, 1..b) = Sum(sq, 1..b) /\ Sum(other, 1..b) = Sum(accel, 1..b)
    BY <1>1, <1>7, <2>1, SumSame
  <2> QED
    BY <1>4, <2>2, <2>3
<1>8. Spread(accel, b) \in Int
  <2> HIDE DEF sq
  <2> QED
    BY <1>2, <1>3, <1>4
<1>9. Spread(accel, b) > 0 <=> Varies(accel, b)
  <2>1. Squares(sq, accel, 1..b)
    BY DEF Squares
  <2> HIDE DEF sq
  <2>2. Cardinality(1..b) = b
    BY FS_Interval
  <2>3. Spread(accel, b) = Variance(sq, accel, 1..b)
    BY ONLY <1>4, <2>2 DEF Variance
  <2>4. Spread(accel, b) \in Nat
        /\ (Spread(accel, b) = 0 <=> \A i, j \in 1..b : accel[i] = accel[j])
    BY ONLY <1>1, <2>1, <2>3, VarianceIs
  <2>5. Spread(accel, b) > 0 <=> Spread(accel, b) # 0
    BY ONLY <2>4
  <2> QED
    BY ONLY <2>4, <2>5 DEF Varies
<1> QED
  BY <1>2, <1>5, <1>6, <1>7, <1>8, <1>9

\* s, t and r are the averages of x, of x with a mention more everywhere, and of x with a
\* mention more at its end.
Averages(x, s, t, r, n) ==
    /\ s \in [1..n -> Int] /\ t \in [1..n -> Int] /\ r \in [1..n -> Int]
    /\ \E p \in Nat : Above(s, t, n, p)
    /\ Topped(s, r, n)
    /\ Silent(x, n) => Silent(s, n)

\* The averages of a series, of the same series with a mention more in every bin, and
\* of the same with a mention more in the last one.
LEMMA AveragesAre ==
    ASSUME NEW n \in Nat, n >= 2, NEW d \in Nat \ {0}, NEW a \in 1..d,
           NEW x \in Seq(Nat), Len(x) = n, NEW y \in Seq(Nat), Len(y) = n,
           NEW w \in Seq(Nat), Len(w) = n,
           Above(x, y, n, 1), Topped(x, w, n), w[n] = x[n] + 1,
           NEW s, s = Ewma(x, a, d), NEW t, t = Ewma(y, a, d), NEW r, r = Ewma(w, a, d)
    PROVE  Averages(x, s, t, r, n)
<1>1. ASSUME NEW u \in Seq(Nat), Len(u) = n
      PROVE  Smoothed(Ewma(u, a, d), Power(d, n), u, a, d, n) /\ u \in [1..n -> Nat]
  <2>1. \A v \in Seq(Nat) : Len(v) >= 2 =>
            Smoothed(Ewma(v, a, d), Power(d, Len(v)), v, a, d, Len(v))
    BY EwmaIs
  <2>2. Smoothed(Ewma(u, a, d), Power(d, Len(u)), u, a, d, Len(u))
    BY <1>1, <2>1
  <2>3. Smoothed(Ewma(u, a, d), Power(d, n), u, a, d, n)
    BY ONLY <1>1, <2>2
  <2> QED
    BY <1>1, <2>3
<1>2. PICK p : p = Power(d, n)
  OBVIOUS
<1>3. p \in Nat /\ p >= d
  BY <1>2, PowerIs
<1>4. Smoothed(s, p, x, a, d, n) /\ Smoothed(t, p, y, a, d, n) /\ Smoothed(r, p, w, a, d, n)
  BY <1>1, <1>2
<1>5. x \in [1..n -> Nat] /\ y \in [1..n -> Nat] /\ w \in [1..n -> Nat]
  BY <1>1
<1>6. Above(s, t, n, p)
  BY <1>3, <1>4, <1>5, LiftedEwma, Zenon
<1>7. Topped(s, r, n)
  BY <1>3, <1>4, <1>5, RaisedEwma, Zenon
<1>8. Silent(x, n) => Silent(s, n)
  BY <1>3, <1>4, <1>5, SilentEwma, Zenon
<1>9. s \in [1..n -> Int] /\ t \in [1..n -> Int] /\ r \in [1..n -> Int]
  BY <1>4 DEF Smoothed
<1> QED
  BY <1>3, <1>6, <1>7, <1>8, <1>9 DEF Averages

\* A, B and C are the accelerations of such averages.
Curves(A, B, C, s, n, b) ==
    /\ B = A
    /\ \A i \in 1..(b + 1) : A[i] \in Int /\ C[i] \in Int
    /\ Topped(A, C, b + 1)
    /\ Silent(s, n) => Silent(A, b + 1)

\* The accelerations of such averages.
LEMMA CurvesAre ==
    ASSUME NEW n \in Nat, n >= 3, NEW p \in Nat, NEW s \in [1..n -> Int], NEW t \in [1..n -> Int],
           NEW r \in [1..n -> Int], Above(s, t, n, p), Topped(s, r, n),
           NEW A, NEW B, NEW C, Curve(A, s, n), Curve(B, t, n), Curve(C, r, n),
           NEW b, b = n - 3
    PROVE  Curves(A, B, C, s, n, b)
<1>1. \A i \in 1..(n - 2) : i \in 1..n /\ i + 1 \in 1..n /\ i + 2 \in 1..n
                            /\ i \in 1..(n - 1) /\ i + 1 \in 1..(n - 1)
  OBVIOUS
<1>2. \A i \in 1..(n - 3) : i \in 1..(n - 2) /\ i + 2 \in 1..(n - 1)
  OBVIOUS
<1>3. A \in [1..(n - 2) -> Int] /\ B \in [1..(n - 2) -> Int] /\ C \in [1..(n - 2) -> Int]
  <2>1. \A D \in Seq(Int) : D \in [1..Len(D) -> Int]
    OBVIOUS
  <2> QED
    BY <2>1, Zenon DEF Curve
<1>4. ASSUME NEW i \in 1..(n - 2)
      PROVE  /\ A[i] = s[i + 2] - 2 * s[i + 1] + s[i]
             /\ B[i] = t[i + 2] - 2 * t[i + 1] + t[i]
             /\ C[i] = r[i + 2] - 2 * r[i + 1] + r[i]
  BY DEF Curve
<1>5. B = A
  <2>1. ASSUME NEW i \in 1..(n - 2) PROVE B[i] = A[i]
    <3>1. t[i] = s[i] + p /\ t[i + 1] = s[i + 1] + p /\ t[i + 2] = s[i + 2] + p
      BY <1>1 DEF Above
    <3>2. s[i] \in Int /\ s[i + 1] \in Int /\ s[i + 2] \in Int
      BY <1>1
    <3>3. \A u, v, q \in Int : (u + p) - 2 * (v + p) + (q + p) = u - 2 * v + q
      OBVIOUS
    <3>4. (s[i + 2] + p) - 2 * (s[i + 1] + p) + (s[i] + p) = s[i + 2] - 2 * s[i + 1] + s[i]
      BY ONLY <3>2, <3>3, Zenon
    <3> QED
      BY ONLY <1>4, <3>1, <3>4, i \in 1..(n - 2)
  <2> QED
    BY <1>3, <2>1
<1>6. ASSUME NEW i \in 1..(n - 3) PROVE C[i] = A[i]
  <2>1. i \in 1..(n - 2) /\ i \in 1..(n - 1) /\ i + 1 \in 1..(n - 1) /\ i + 2 \in 1..(n - 1)
    BY <1>1, <1>2
  <2>2. r[i] = s[i] /\ r[i + 1] = s[i + 1] /\ r[i + 2] = s[i + 2]
    BY <2>1 DEF Topped
  <2> QED
    BY <1>4, <2>1, <2>2
<1>7. n - 2 \in 1..(n - 2) /\ n - 2 \in 1..(n - 1) /\ n - 1 \in 1..(n - 1) /\ n \in 1..n
      /\ (n - 2) + 2 = n /\ (n - 2) + 1 = n - 1 /\ n - 2 \in 1..n /\ n - 1 \in 1..n
  OBVIOUS
<1>8. /\ A[n - 2] = s[n] - 2 * s[n - 1] + s[n - 2]
      /\ C[n - 2] = r[n] - 2 * r[n - 1] + r[n - 2]
  BY <1>4, <1>7
<1>9. s[n] \in Int /\ s[n - 1] \in Int /\ s[n - 2] \in Int /\ r[n] \in Int
  BY <1>7
<1>10. C[n - 2] > A[n - 2]
  <2>1. r[n - 1] = s[n - 1] /\ r[n - 2] = s[n - 2] /\ r[n] > s[n]
    BY <1>7 DEF Topped
  <2>2. \A u, v, q, k \in Int : k > u => k - 2 * v + q > u - 2 * v + q
    OBVIOUS
  <2> QED
    BY ONLY <1>8, <1>9, <2>1, <2>2
<1>11. ASSUME Silent(s, n) PROVE Silent(A, b + 1)
  <2>0. (\A i \in 1..(n - 1) : s[i] = 0) /\ s[n] > 0
    BY <1>11 DEF Silent
  <2>1. ASSUME NEW i \in 1..(n - 3) PROVE A[i] = 0
    <3>1. i \in 1..(n - 2) /\ i \in 1..(n - 1) /\ i + 1 \in 1..(n - 1) /\ i + 2 \in 1..(n - 1)
      BY <1>1, <1>2
    <3>2. s[i] = 0 /\ s[i + 1] = 0 /\ s[i + 2] = 0
      BY <2>0, <3>1
    <3>3. A[i] = s[i + 2] - 2 * s[i + 1] + s[i]
      BY <1>4, <3>1
    <3> QED
      BY ONLY <3>2, <3>3
  <2>2. s[n - 1] = 0 /\ s[n - 2] = 0
    BY <1>7, <2>0
  <2>3. A[n - 2] > 0
    BY ONLY <1>8, <1>9, <2>0, <2>2
  <2> QED
    BY <2>1, <2>3 DEF Silent
<1>12. b + 1 = n - 2 /\ b + 1 - 1 = n - 3
  OBVIOUS
<1>13. Topped(A, C, b + 1)
  BY <1>6, <1>10, <1>12 DEF Topped
<1>14. \A i \in 1..(b + 1) : A[i] \in Int /\ C[i] \in Int
  BY <1>3, <1>12
<1> QED
  BY <1>5, <1>11, <1>13, <1>14 DEF Curves

\* The score for accelerations A.
Judged(A, b, flat) ==
    IF Spread(A, b) > 0 THEN [M |-> b * A[b + 1] - Sum(A, 1..b), V |-> Spread(A, b)]
    ELSE [M |-> IF A[b + 1] = 0 THEN 0 ELSE flat, V |-> 1]

StandIn(m) == [M |-> m, V |-> 1]

\* What a higher latest acceleration makes of a score: C has it, A not.
Judges(A, C, b, flat) ==
    /\ Varies(A, b) => /\ Judged(C, b, flat).V = Judged(A, b, flat).V
                       /\ Judged(C, b, flat).M > Judged(A, b, flat).M
    /\ ~ Varies(A, b) =>
          /\ Judged(A, b, flat) \in {StandIn(0), StandIn(flat)}
          /\ Judged(C, b, flat) \in {StandIn(0), StandIn(flat)}
          /\ StandIn(flat) \in {Judged(A, b, flat), Judged(C, b, flat)}
    /\ Silent(A, b + 1) => Judged(A, b, flat) = StandIn(flat)

\* A higher latest acceleration: against a baseline that varies and against a flat one.
LEMMA JudgedIs ==
    ASSUME NEW b \in Nat, NEW A, NEW C, \A i \in 1..(b + 1) : A[i] \in Int /\ C[i] \in Int,
           Topped(A, C, b + 1), NEW flat
    PROVE  Judges(A, C, b, flat)
<1>0. (\A i \in 1..b : C[i] = A[i]) /\ C[b + 1] > A[b + 1]
  BY DEF Topped
<1>1. \A i \in 1..b : A[i] \in Int
  OBVIOUS
<1>2. /\ Sum(A, 1..b) \in Int /\ Spread(A, b) \in Int
      /\ Spread(A, b) > 0 <=> Varies(A, b)
      /\ b = 0 => Spread(A, b) = 0
      /\ (\A i \in 1..b : A[i] = 0) => Spread(A, b) = 0
      /\ Sum(C, 1..b) = Sum(A, 1..b) /\ Spread(C, b) = Spread(A, b)
  BY <1>0, <1>1, SpreadIs
<1>3. A[b + 1] \in Int /\ C[b + 1] \in Int
  <2>1. b + 1 \in 1..(b + 1)
    OBVIOUS
  <2> QED
    BY <2>1
<1>4. ASSUME Varies(A, b)
      PROVE  /\ Judged(C, b, flat).V = Judged(A, b, flat).V
             /\ Judged(C, b, flat).M > Judged(A, b, flat).M
  <2>1. Spread(A, b) > 0
    BY <1>2, <1>4
  <2>2. /\ Judged(A, b, flat) = [M |-> b * A[b + 1] - Sum(A, 1..b), V |-> Spread(A, b)]
        /\ Judged(C, b, flat) = [M |-> b * C[b + 1] - Sum(C, 1..b), V |-> Spread(C, b)]
    BY <1>2, <2>1 DEF Judged
  <2>3. b > 0
    BY <1>2, <2>1
  <2>4. \A u, v \in Int : v > u => b * v > b * u /\ b * v \in Int /\ b * u \in Int
    BY <2>3
  <2>5. b * C[b + 1] > b * A[b + 1] /\ b * C[b + 1] \in Int /\ b * A[b + 1] \in Int
    BY <1>0, <1>3, <2>4
  <2> QED
    BY <1>2, <2>2, <2>5
<1>5. ASSUME ~ Varies(A, b)
      PROVE  /\ Judged(A, b, flat) = StandIn(IF A[b + 1] = 0 THEN 0 ELSE flat)
             /\ Judged(C, b, flat) = StandIn(IF C[b + 1] = 0 THEN 0 ELSE flat)
  BY <1>2, <1>5 DEF Judged, StandIn
<1>6. A[b + 1] # 0 \/ C[b + 1] # 0
  BY ONLY <1>0, <1>3
<1>7. ASSUME Silent(A, b + 1)
      PROVE  Judged(A, b, flat) = StandIn(flat)
  <2>0. (\A i \in 1..b : A[i] = 0) /\ A[b + 1] # 0
    BY <1>3, <1>7 DEF Silent
  <2>1. ~ (Spread(A, b) > 0)
    BY <1>2, <2>0
  <2> QED
    BY <2>0, <2>1 DEF Judged, StandIn
<1>8. ASSUME ~ Varies(A, b)
      PROVE  /\ Judged(A, b, flat) \in {StandIn(0), StandIn(flat)}
             /\ Judged(C, b, flat) \in {StandIn(0), StandIn(flat)}
             /\ StandIn(flat) \in {Judged(A, b, flat), Judged(C, b, flat)}
  <2>1. \A u : StandIn(IF u = 0 THEN 0 ELSE flat) = IF u = 0 THEN StandIn(0) ELSE StandIn(flat)
    OBVIOUS
  <2> QED
    BY ONLY <1>5, <1>6, <1>8, <2>1
<1> QED
  BY ONLY <1>4, <1>7, <1>8 DEF Judges

\* What the scores of a series and of the two like it have to do with one another; A are
\* the accelerations of the series.
Scored(x, A, n, flat, z, busier, louder) ==
    /\ louder = z
    /\ Varies(A, Len(A) - 1) => busier.V = z.V /\ busier.M > z.M
    /\ ~ Varies(A, Len(A) - 1) =>
          /\ z \in {StandIn(0), StandIn(flat)} /\ busier \in {StandIn(0), StandIn(flat)}
          /\ StandIn(flat) \in {z, busier}
    /\ Silent(x, n) => z = StandIn(flat)

\* What velocity_z says of a series and of the two like it.
LEMMA ScoresAre ==
    ASSUME NEW n \in Nat, NEW d \in Nat \ {0}, NEW a \in 1..d, NEW least \in Nat, least >= 3,
           NEW flat, n >= least,
           NEW x \in Seq(Nat), Len(x) = n, NEW y \in Seq(Nat), Len(y) = n,
           NEW w \in Seq(Nat), Len(w) = n,
           Above(x, y, n, 1), Topped(x, w, n), w[n] = x[n] + 1,
           NEW z, z = VelocityZ(x, a, d, least, flat),
           NEW busier, busier = VelocityZ(w, a, d, least, flat),
           NEW louder, louder = VelocityZ(y, a, d, least, flat)
    PROVE  Scored(x, Accelerations(x, a, d), n, flat, z, busier, louder)
<1>1. n >= 3 /\ n >= 2
  OBVIOUS
<1>2. PICK s : s = Ewma(x, a, d)
  OBVIOUS
<1>3. PICK t : t = Ewma(y, a, d)
  OBVIOUS
<1>4. PICK r : r = Ewma(w, a, d)
  OBVIOUS
<1>18. Averages(x, s, t, r, n)
  BY <1>1, <1>2, <1>3, <1>4, AveragesAre, Zenon
<1>5. /\ s \in [1..n -> Int] /\ t \in [1..n -> Int] /\ r \in [1..n -> Int]
      /\ \E p \in Nat : Above(s, t, n, p)
      /\ Topped(s, r, n)
      /\ Silent(x, n) => Silent(s, n)
  BY <1>18 DEF Averages
<1>6. PICK p \in Nat : Above(s, t, n, p)
  BY <1>5
<1>7. ASSUME NEW u \in Seq(Nat), NEW e \in [1..n -> Int], Len(u) = n, e = Ewma(u, a, d)
      PROVE  Curve(Accelerations(u, a, d), e, n)
  BY <1>1, <1>7, AccelerationsAre
<1>8. PICK A : A = Accelerations(x, a, d)
  OBVIOUS
<1>9. PICK B : B = Accelerations(y, a, d)
  OBVIOUS
<1>10. PICK C : C = Accelerations(w, a, d)
  OBVIOUS
<1>11. Curve(A, s, n) /\ Curve(B, t, n) /\ Curve(C, r, n)
  BY <1>2, <1>3, <1>4, <1>5, <1>7, <1>8, <1>9, <1>10
<1>12. PICK b : b = n - 3
  OBVIOUS
<1>13. b \in Nat
  BY <1>1, <1>12
<1>19. Curves(A, B, C, s, n, b)
  BY <1>1, <1>5, <1>6, <1>11, <1>12, CurvesAre, Zenon
<1>14. /\ B = A
       /\ \A i \in 1..(b + 1) : A[i] \in Int /\ C[i] \in Int
       /\ Topped(A, C, b + 1)
       /\ Silent(s, n) => Silent(A, b + 1)
  BY <1>19 DEF Curves
<1>15. ASSUME NEW u, NEW D, ~ (Len(u) < least), D = Accelerations(u, a, d), b = Len(D) - 1
       PROVE  VelocityZ(u, a, d, least, flat) = Judged(D, b, flat)
  <2>1. VelocityZ(u, a, d, least, flat) =
              IF Spread(D, b) > 0
              THEN [M |-> b * D[b + 1] - Sum(D, 1..b), V |-> Spread(D, b)]
              ELSE [M |-> IF D[b + 1] = 0 THEN 0 ELSE flat, V |-> 1]
    BY ONLY <1>15, ScoreIs
  <2> QED
    BY <2>1 DEF Judged
<1>16. z = Judged(A, b, flat) /\ louder = Judged(B, b, flat) /\ busier = Judged(C, b, flat)
  <2>1. ~ (Len(x) < least) /\ ~ (Len(y) < least) /\ ~ (Len(w) < least)
    OBVIOUS
  <2>2. b = Len(A) - 1 /\ b = Len(B) - 1 /\ b = Len(C) - 1
    BY <1>11, <1>12 DEF Curve
  <2> QED
    BY <1>8, <1>9, <1>10, <1>15, <2>1, <2>2
<1>17. Judges(A, C, b, flat)
  <2>1. \A i \in 1..(b + 1) : A[i] \in Int /\ C[i] \in Int
    BY ONLY <1>14
  <2>2. Topped(A, C, b + 1)
    BY ONLY <1>14
  <2> QED
    BY ONLY <1>13, <2>1, <2>2, JudgedIs
<1>20. b = Len(A) - 1
  BY <1>11, <1>12 DEF Curve
<1>21. louder = z /\ (Silent(x, n) => z = StandIn(flat))
  BY ONLY <1>5, <1>14, <1>16, <1>17 DEF Judges
<1>22. Scored(x, A, n, flat, z, busier, louder)
  BY ONLY <1>16, <1>17, <1>20, <1>21 DEF Scored, Judges
<1> QED
  BY ONLY <1>8, <1>22

\* The series of a window: its tallies, and nothing where none is.
LEMMA SeriesAre ==
    ASSUME NEW n \in Nat, NEW buckets, \A t \in DOMAIN buckets : t \in 1..n /\ buckets[t] \in Nat
    PROVE  /\ FillSeries(buckets, 1, n) \in Seq(Nat) /\ Len(FillSeries(buckets, 1, n)) = n
           /\ \A k \in 1..n : FillSeries(buckets, 1, n)[k]
                                = IF k \in DOMAIN buckets THEN buckets[k] ELSE 0
<1> DEFINE At(k) == IF k \in DOMAIN buckets THEN buckets[k] ELSE 0
<1>1. \A k \in 1..n : At(k) \in Nat
  OBVIOUS
<1>2. FillSeries(buckets, 1, n) = [k \in 1..n |-> At(k)]
  <2>1. \A k \in 1..n : 1 + k - 1 = k
    OBVIOUS
  <2>2. n - 1 + 1 = n
    OBVIOUS
  <2> QED
    BY <2>1, <2>2 DEF FillSeries
<1> HIDE DEF At
<1>3. [k \in 1..n |-> At(k)] \in Seq(Nat) /\ Len([k \in 1..n |-> At(k)]) = n
      /\ \A k \in 1..n : [k1 \in 1..n |-> At(k1)][k] = At(k)
  BY <1>1
<1>4. FillSeries(buckets, 1, n) \in Seq(Nat) /\ Len(FillSeries(buckets, 1, n)) = n
      /\ \A k \in 1..n : FillSeries(buckets, 1, n)[k] = At(k)
  BY ONLY <1>2, <1>3
<1> QED
  BY ONLY <1>4 DEF At

\* What a call to velocity_z is given.
LEMMA WindowsAre ==
    ASSUME NEW c \in VelocityCalls
    PROVE  /\ c.den \in Nat \ {0} /\ c.num \in 1..c.den
           /\ c.least \in Nat /\ c.least >= 3 /\ c.until \in Nat
           /\ c.until \in DOMAIN c.buckets
           /\ \A t \in DOMAIN c.buckets : t \in 1..c.until /\ c.buckets[t] \in Nat \ {0}
<1>1. /\ c.den \in Nat /\ c.num \in 1..c.den
      /\ c.least \in Nat /\ c.least >= 3 /\ c.until \in DOMAIN c.buckets
      /\ \A t \in DOMAIN c.buckets : t \in 1..c.until /\ c.buckets[t] \in Nat \ {0}
  BY CallsAssumption
<1>2. c.until \in 1..c.until
  BY <1>1
<1>3. c.until \in Nat
  BY <1>2
<1>4. c.den # 0
  BY <1>1
<1> QED
  BY <1>1, <1>3, <1>4

\* The z-score sees acceleration and no level: a mention more in every bin changes
\* nothing.  Where the bins before the latest one vary, a mention more in it raises the
\* score against the same deviation; where they do not, the score is 0 or the bounded
\* stand-in, and of two numbers of mentions that differ by one at least one gives the
\* stand-in.  The first mentions after silence give it (services/score/velocity.py).
THEOREM VelocityIsHonest == Spec => []VelocityHonest
<1>1. Called /\ Returned => VelocityHonest
  <2> SUFFICES ASSUME Called, Returned, Answered("velocity")
               PROVE  VelocityHonest
    BY DEF VelocityHonest
  <2>1. PICK c : c = call
    OBVIOUS
  <2>2. c \in VelocityCalls
    <3>1. call \in VelocityCalls
      BY CallOf DEF Answered
    <3> QED
      BY ONLY <2>1, <3>1
  <2>3. PICK n : n = c.until
    OBVIOUS
  <2>4. /\ c.den \in Nat \ {0} /\ c.num \in 1..c.den
        /\ c.least \in Nat /\ c.least >= 3 /\ n \in Nat /\ n \in 1..n
        /\ n \in DOMAIN c.buckets
        /\ \A t \in DOMAIN c.buckets : t \in 1..n /\ c.buckets[t] \in Nat \ {0}
    BY <2>2, <2>3, WindowsAre
  <2>5. PICK x : x = FillSeries(c.buckets, 1, n)
    OBVIOUS
  <2>6. PICK w : w = FillSeries(Busier(c), 1, n)
    OBVIOUS
  <2>7. PICK y : y = FillSeries(Louder(c), 1, n)
    OBVIOUS
  <2>8. x \in Seq(Nat) /\ Len(x) = n
        /\ \A k \in 1..n : x[k] = IF k \in DOMAIN c.buckets THEN c.buckets[k] ELSE 0
    <3>1. \A t \in DOMAIN c.buckets : t \in 1..n /\ c.buckets[t] \in Nat
      BY <2>4
    <3> QED
      BY ONLY <2>4, <2>5, <3>1, SeriesAre
  <2>9. /\ DOMAIN Busier(c) = DOMAIN c.buckets
        /\ \A t \in DOMAIN c.buckets :
              Busier(c)[t] = IF t = n THEN c.buckets[t] + 1 ELSE c.buckets[t]
    BY <2>3, Zenon DEF Busier
  <2>10. w \in Seq(Nat) /\ Len(w) = n
         /\ \A k \in 1..n : w[k] = IF k \in DOMAIN Busier(c) THEN Busier(c)[k] ELSE 0
    <3>1. \A t \in DOMAIN Busier(c) : t \in 1..n /\ Busier(c)[t] \in Nat
      BY ONLY <2>4, <2>9
    <3> QED
      BY ONLY <2>4, <2>6, <3>1, SeriesAre
  <2>11. /\ DOMAIN Louder(c) = 1..n
         /\ \A t \in 1..n :
               Louder(c)[t] = 1 + IF t \in DOMAIN c.buckets THEN c.buckets[t] ELSE 0
    BY <2>3, Zenon DEF Louder
  <2>12. y \in Seq(Nat) /\ Len(y) = n
         /\ \A k \in 1..n : y[k] = IF k \in DOMAIN Louder(c) THEN Louder(c)[k] ELSE 0
    <3>1. \A t \in DOMAIN Louder(c) : t \in 1..n /\ Louder(c)[t] \in Nat
      BY ONLY <2>4, <2>11
    <3> QED
      BY ONLY <2>4, <2>7, <3>1, SeriesAre
  <2>13. \A k \in 1..n : x[k] \in Nat
    BY ONLY <2>8, <2>4
  <2>14. Above(x, y, n, 1)
    BY ONLY <2>8, <2>11, <2>12, <2>13 DEF Above
  <2>15. Topped(x, w, n) /\ w[n] = x[n] + 1
    <3>1. \A k \in 1..(n - 1) : k \in 1..n /\ k # n
      BY ONLY <2>4
    <3>2. \A k \in 1..(n - 1) : w[k] = x[k]
      BY ONLY <2>8, <2>9, <2>10, <3>1
    <3>3. w[n] = x[n] + 1
      BY ONLY <2>4, <2>8, <2>9, <2>10
    <3> QED
      BY ONLY <2>4, <2>13, <3>2, <3>3 DEF Topped
  <2>16. DOMAIN c.buckets = {n} => Silent(x, n)
    <3>1. \A k \in 1..(n - 1) : k \in 1..n /\ k # n
      BY ONLY <2>4
    <3> QED
      BY ONLY <2>4, <2>8, <3>1 DEF Silent
  <2>17. PICK z : z = VelocityZ(x, c.num, c.den, c.least, c.flat)
    OBVIOUS
  <2>18. PICK busier : busier = VelocityZ(w, c.num, c.den, c.least, c.flat)
    OBVIOUS
  <2>19. PICK louder : louder = VelocityZ(y, c.num, c.den, c.least, c.flat)
    OBVIOUS
  <2>20. answer.z = z /\ answer.busier = busier /\ answer.louder = louder
    BY <2>1, <2>3, <2>5, <2>6, <2>7, <2>17, <2>18, <2>19 DEF Returned, Score
  <2>21. PICK A : A = Accelerations(x, c.num, c.den)
    OBVIOUS
  <2>22. ASSUME n >= c.least
         PROVE  Scored(x, A, n, c.flat, z, busier, louder)
    BY ONLY <2>4, <2>8, <2>10, <2>12, <2>14, <2>15, <2>17, <2>18, <2>19, <2>21, <2>22,
            ScoresAre, Zenon
  <2>23. louder = z
    <3>1. CASE n >= c.least
      BY ONLY <2>22, <3>1 DEF Scored
    <3>2. CASE n < c.least
      <4>1. z = [M |-> 0, V |-> 1] /\ louder = [M |-> 0, V |-> 1]
        BY ONLY <2>4, <2>8, <2>12, <2>17, <2>19, <3>2 DEF VelocityZ
      <4> QED
        BY ONLY <4>1
    <3> QED
      BY ONLY <2>4, <3>1, <3>2
  <2>24. ASSUME n >= c.least
         PROVE  /\ Varies(A, Len(A) - 1) => busier.V = z.V /\ busier.M > z.M
                /\ ~ Varies(A, Len(A) - 1) =>
                      /\ {z, busier} \subseteq {StandIn(0), StandIn(c.flat)}
                      /\ StandIn(c.flat) \in {z, busier}
                /\ DOMAIN c.buckets = {n} => z = StandIn(c.flat)
    BY ONLY <2>16, <2>22, <2>24 DEF Scored
  <2>25. A = Accelerations(FillSeries(call.buckets, 1, call.until), call.num, call.den)
    BY ONLY <2>1, <2>3, <2>5, <2>21
  <2> QED
    BY ONLY <2>1, <2>3, <2>20, <2>23, <2>24, <2>25 DEF VelocityHonest, Varies, StandIn
<1> QED
  BY <1>1, CallsInit, CallsStep, PTL DEF Spec

----------------------------------------------------------------------------
(* The read API                                                            *)

\* A table of the history: its Stories have numbers.
IsTable(table) ==
    /\ DOMAIN table \subseteq Nat /\ IsFiniteSet(DOMAIN table)
    /\ \A s \in DOMAIN table : table[s].gap \in Int /\ table[s].weather \in BOOLEAN

\* A tab shows rows of its table, and weather on the weather tab only.
LEMMA QueryShows ==
    ASSUME NEW table, IsTable(table), NEW tab \in Tabs, NEW n \in Int, n >= 0
    PROVE  \A s \in ToSet(Query(table, tab, n)) :
              s \in DOMAIN table /\ table[s].weather = (tab = "weather")
<1> DEFINE shown == {s \in DOMAIN table : OnTab(table[s], tab)}
           before == {p \in shown \X shown :
                        \/ table[p[1]].gap > table[p[2]].gap
                        \/ table[p[1]].gap = table[p[2]].gap /\ p[1] > p[2]}
           m == IF Cardinality(shown) < n THEN Cardinality(shown) ELSE n
           g == [s \in shown |-> table[s].gap]
<1>1. Query(table, tab, n) = SubSeq(InOrder(shown, before), 1, m)
  BY DEF Query
<1>2. \A s \in shown : s \in DOMAIN table /\ OnTab(table[s], tab)
  OBVIOUS
<1>3. IsFiniteSet(shown)
  <2>1. shown \subseteq DOMAIN table
    OBVIOUS
  <2> HIDE DEF shown
  <2> QED
    BY <2>1, FS_Subset DEF IsTable
<1> HIDE DEF shown
<1>4. \A s \in shown : s \in Int /\ g[s] \in Int /\ g[s] = table[s].gap
  BY <1>2 DEF IsTable
<1> HIDE DEF g
<1>5. \A s, t \in shown : <<s, t>> \in before <=> g[s] > g[t] \/ (g[s] = g[t] /\ s > t)
  <2> DEFINE Earlier(s, t) == \/ table[s].gap > table[t].gap
                              \/ table[s].gap = table[t].gap /\ s > t
  <2>1. before = {p \in shown \X shown : Earlier(p[1], p[2])}
    OBVIOUS
  <2> HIDE DEF Earlier, before
  <2>2. \A s, t \in shown : <<s, t>> \in before <=> Earlier(s, t)
    BY ONLY <2>1
  <2>3. \A s, t \in shown : Earlier(s, t) <=> g[s] > g[t] \/ (g[s] = g[t] /\ s > t)
    BY ONLY <1>4, Zenon DEF Earlier
  <2> QED
    BY ONLY <2>2, <2>3, Zenon
<1> HIDE DEF before
<1>6. Orders(before, shown)
  <2>1. \A s \in shown : <<s, s>> \notin before
    BY ONLY <1>4, <1>5
  <2>2. \A s, t \in shown : s # t => <<s, t>> \in before \/ <<t, s>> \in before
    BY ONLY <1>4, <1>5
  <2>3. \A s, t, u \in shown :
            <<s, t>> \in before /\ <<t, u>> \in before => <<s, u>> \in before
    BY ONLY <1>4, <1>5
  <2> QED
    BY <2>1, <2>2, <2>3 DEF Orders
<1>7. Cardinality(shown) \in Nat /\ InOrder(shown, before) \in [1..Cardinality(shown) -> shown]
  BY <1>3, <1>6, InOrderIs
<1>8. m \in 0..Cardinality(shown)
  BY <1>7
<1>9. PICK f : f = InOrder(shown, before)
  OBVIOUS
<1>10. PICK c : c = Cardinality(shown)
  OBVIOUS
<1>11. PICK k : k = m
  OBVIOUS
<1>12. /\ c \in Nat /\ f \in [1..c -> shown] /\ k \in 0..c
       /\ Query(table, tab, n) = SubSeq(f, 1, k)
  BY ONLY <1>1, <1>7, <1>8, <1>9, <1>10, <1>11
<1>13. f \in Seq(shown) /\ Len(f) = c
  BY ONLY <1>12
<1>14. \A i \in DOMAIN SubSeq(f, 1, k) : SubSeq(f, 1, k)[i] \in shown
  BY ONLY <1>12, <1>13
<1>15. \A s \in ToSet(Query(table, tab, n)) : s \in shown
  BY ONLY <1>12, <1>14 DEF ToSet
<1>16. \A s \in shown : table[s].weather = (tab = "weather")
  <2> TAKE s \in shown
  <2>1. OnTab(table[s], tab) /\ table[s].weather \in BOOLEAN
    BY <1>2 DEF IsTable
  <2>2. CASE tab = "weather"
    BY <2>1, <2>2, Zenon DEF OnTab
  <2>3. CASE tab # "weather"
    <3>1. ~ table[s].weather
      BY <2>1, <2>3 DEF OnTab, Tabs
    <3> QED
      BY <2>1, <2>3, <3>1
  <2> QED
    BY <2>2, <2>3
<1> QED
  BY <1>2, <1>15, <1>16

\* q is answered with what its query was at one moment since it came in.
Snapshot(h, t, q) == \E v \in q.since..t : q.data = Query(h[v], q.tab, q.limit)

\* Every row of data has been in the table, as weather or not as tab has it.
ShownBy(h, t, data, tab) ==
    \A s \in ToSet(data) : \E v \in 1..t :
        s \in DOMAIN h[v] /\ h[v][s].weather = (tab = "weather")

\* A request on its way through the handler.
Asked(h, t, q) ==
    /\ DOMAIN q = DOMAIN NoRequest
    /\ q.tab \in Tabs
    /\ q.pc = "new" => q = NoRequest
    /\ q.pc # "new" => q.limit \in Int /\ q.since \in 1..t
    /\ q.kind # "none" => q.pc = "done"
    /\ q.pc = "read" \/ q.kind = "fresh" => Snapshot(h, t, q)
    /\ ShownBy(h, t, q.data, q.tab)

\* r was answered fresh, with data for tab.
Gave(r, tab, data) == req[r].kind = "fresh" /\ req[r].tab = tab /\ req[r].data = data

\* What is kept for a tab is what some request of that tab was answered.
Answering ==
    /\ history \in Histories /\ now \in 1..Len(history)
    /\ DOMAIN req = Requests
    /\ \A r \in Requests : Asked(history, now, req[r])
    /\ \A r \in Requests : req[r].kind = "degraded" =>
          \E q \in Requests \ {r} : Gave(q, req[r].tab, req[r].data)
    /\ \A tab \in DOMAIN cache : \E q \in Requests : Gave(q, tab, cache[tab])

LEMMA AnsweringTrue == Answering => AnswersTrue
<1> SUFFICES ASSUME Answering, NEW r \in Requests
             PROVE  /\ \A s \in ToSet(req[r].data) : \E v \in 1..now :
                          s \in DOMAIN history[v]
                          /\ history[v][s].weather = (req[r].tab = "weather")
                    /\ req[r].kind = "fresh" => \E v \in req[r].since..now :
                          req[r].data = Query(history[v], req[r].tab, req[r].limit)
                    /\ req[r].kind = "degraded" => \E q \in Requests \ {r} :
                          /\ req[q].kind = "fresh"
                          /\ req[q].tab = req[r].tab /\ req[q].data = req[r].data
  BY DEF AnswersTrue
<1>1. Asked(history, now, req[r])
  BY DEF Answering
<1>2. req[r].kind = "degraded" => \E q \in Requests \ {r} : Gave(q, req[r].tab, req[r].data)
  BY DEF Answering
<1> QED
  BY ONLY <1>1, <1>2, Zenon DEF Asked, ShownBy, Snapshot, Gave

LEMMA AnsweringInit == ApiInit => Answering
<1> SUFFICES ASSUME ApiInit PROVE Answering
  OBVIOUS
<1>1. history \in Histories /\ now \in 1..Len(history)
  BY HistoriesAssumption DEF ApiInit
<1>2. \A r \in Requests : req[r] = NoRequest
  BY DEF ApiInit
<1>3. Asked(history, now, NoRequest)
  BY DEF Asked, NoRequest, Tabs, ShownBy, ToSet
<1>4. DOMAIN req = Requests /\ DOMAIN cache = {}
  BY DEF ApiInit
<1> QED
  BY <1>1, <1>2, <1>3, <1>4 DEF Answering, NoRequest

\* What held of a request goes on to hold as the table changes.
LEMMA AskedLater ==
    ASSUME NEW h, NEW t \in Nat, NEW q, Asked(h, t, q)
    PROVE  Asked(h, t + 1, q)
<1>1. q.pc # "new" => q.since \in 1..(t + 1)
  BY DEF Asked
<1>2. Snapshot(h, t, q) => Snapshot(h, t + 1, q)
  <2>1. ASSUME NEW v \in q.since..t, q.since \in Int PROVE v \in q.since..(t + 1)
    BY <2>1
  <2>2. q.since \in Int => q.since..t \subseteq q.since..(t + 1)
    BY <2>1
  <2> QED
    BY <2>2 DEF Snapshot, Asked
<1>3. ShownBy(h, t + 1, q.data, q.tab)
  <2>1. 1..t \subseteq 1..(t + 1)
    OBVIOUS
  <2> QED
    BY <2>1, Zenon DEF ShownBy, Asked
<1> QED
  BY <1>1, <1>2, <1>3 DEF Asked

\* One request goes a step further and the table stays.
LEMMA OneServed ==
    ASSUME Answering, NEW r \in Requests, req[r].kind = "none", DOMAIN req' = Requests,
           \A q \in Requests \ {r} : req'[q] = req[q],
           UNCHANGED <<history, now>>, Asked(history, now, req'[r]),
           req'[r].kind = "degraded" =>
               \E q \in Requests : Gave(q, req'[r].tab, req'[r].data),
           \A tab \in DOMAIN cache' :
               \/ \E q \in Requests : Gave(q, tab, cache'[tab])
               \/ req'[r].kind = "fresh" /\ req'[r].tab = tab /\ req'[r].data = cache'[tab]
    PROVE  Answering'
<1>2. history' \in Histories /\ now' \in 1..Len(history')
  BY DEF Answering
<1>3. ASSUME NEW q \in Requests PROVE Asked(history', now', req'[q])
  BY DEF Answering
<1>4. ASSUME NEW p \in Requests, req'[p].kind = "degraded"
      PROVE  \E q \in Requests \ {p} : Gave(q, req[p].tab, req[p].data)'
  <2>1. CASE p = r
    <3>1. PICK q \in Requests : Gave(q, req'[r].tab, req'[r].data)
      BY <1>4, <2>1
    <3>2. q # r /\ req'[q] = req[q]
      BY <3>1 DEF Gave
    <3> QED
      BY <2>1, <3>1, <3>2 DEF Gave
  <2>2. CASE p # r
    <3>1. req'[p] = req[p]
      BY <2>2
    <3>2. PICK q \in Requests \ {p} : Gave(q, req[p].tab, req[p].data)
      BY <1>4, <3>1 DEF Answering
    <3>3. q # r /\ req'[q] = req[q]
      BY <3>2 DEF Gave
    <3> QED
      BY <3>1, <3>2, <3>3 DEF Gave
  <2> QED
    BY <2>1, <2>2
<1>5. ASSUME NEW tab \in DOMAIN cache' PROVE \E q \in Requests : Gave(q, tab, cache[tab])'
  <2>1. CASE \E q \in Requests : Gave(q, tab, cache'[tab])
    <3>1. PICK q \in Requests : Gave(q, tab, cache'[tab])
      BY <2>1
    <3>2. q # r /\ req'[q] = req[q]
      BY <3>1 DEF Gave
    <3> QED
      BY <3>1, <3>2 DEF Gave
  <2>2. CASE req'[r].kind = "fresh" /\ req'[r].tab = tab /\ req'[r].data = cache'[tab]
    BY <2>2 DEF Gave
  <2> QED
    BY <2>1, <2>2
<1> QED
  BY <1>2, <1>3, <1>4, <1>5 DEF Answering

LEMMA AnsweringStep == Answering /\ [Next]_<<rulevars, apivars>> => Answering'
<1> SUFFICES ASSUME Answering, [Next]_<<rulevars, apivars>> PROVE Answering'
  OBVIOUS
<1>1. /\ history \in Histories /\ now \in 1..Len(history) /\ now \in Nat /\ Len(history) \in Nat
      /\ DOMAIN req = Requests
      /\ \A v \in 1..now : v \in DOMAIN history /\ IsTable(history[v])
  <2>1. history \in Histories /\ now \in 1..Len(history) /\ DOMAIN req = Requests
    BY DEF Answering
  <2>2. Len(history) \in Nat \ {0} /\ DOMAIN history = 1..Len(history)
    BY <2>1, HistoriesAssumption
  <2>3. \A v \in DOMAIN history : IsTable(history[v])
    BY <2>1, HistoriesAssumption DEF IsTable
  <2>4. now \in Nat /\ \A v \in 1..now : v \in 1..Len(history)
    BY <2>1, <2>2
  <2> QED
    BY ONLY <2>1, <2>2, <2>3, <2>4
<1>2. \A q \in Requests : Asked(history, now, req[q])
  BY DEF Answering
<1>3. \A tab \in DOMAIN cache : \E q \in Requests : Gave(q, tab, cache[tab])
  BY DEF Answering
<1>4. CASE UNCHANGED apivars
  BY <1>4 DEF Answering, Gave, apivars
<1>5. CASE Connect
  BY <1>5 DEF Answering, Gave, Connect
<1>6. CASE Change
  <2>1. now' = now + 1 /\ UNCHANGED <<history, req, cache>> /\ now + 1 \in 1..Len(history)
    BY <1>1, <1>6 DEF Change
  <2>2. \A q \in Requests : Asked(history, now + 1, req[q])
    BY <1>1, <1>2, AskedLater
  <2> QED
    BY <2>1, <2>2 DEF Answering, Gave
<1>7. ASSUME NEW r \in Requests, NEW sort \in Sorts, NEW limit \in Limits, Ask(r, sort, limit)
      PROVE  Answering'
  <2>1. PICK tab \in Tabs : tab = IF sort \in Tabs THEN sort ELSE "gap"
    BY DEF Tabs
  <2>2. PICK n \in Int : n = IF limit > MaxLimit THEN MaxLimit ELSE limit
    BY LimitsAssumption
  <2>3. req' = [req EXCEPT ![r] = [NoRequest EXCEPT !.pc = "asked", !.since = now,
                                                    !.tab = tab, !.limit = n]]
    BY <1>7, <2>1, <2>2 DEF Ask
  <2>4. /\ UNCHANGED <<history, now, cache>> /\ req[r] = NoRequest
    BY <1>2, <1>7 DEF Ask, Asked
  <2>5. req'[r] = [pc |-> "asked", tab |-> tab, limit |-> n, since |-> now, data |-> <<>>,
                   kind |-> "none"]
    BY <1>1, <2>3 DEF NoRequest
  <2>6. Asked(history, now, req'[r])
    BY <1>1, <2>5 DEF Asked, NoRequest, ShownBy, ToSet
  <2>7. req[r].kind = "none" /\ req'[r].kind = "none"
    BY <2>4, <2>5 DEF NoRequest
  <2>8. DOMAIN req' = Requests /\ \A q \in Requests \ {r} : req'[q] = req[q]
    BY <1>1, <2>3
  <2> QED
    BY <1>3, <2>4, <2>6, <2>7, <2>8, OneServed
<1>8. ASSUME NEW r \in Requests, Read(r) PROVE Answering'
  <2> DEFINE tab == req[r].tab
             n == req[r].limit
             data == Query(history[now], tab, n)
  <2>1. /\ Asked(history, now, req[r]) /\ req[r].pc = "asked" /\ n >= 0
        /\ UNCHANGED <<history, now, cache>>
    BY <1>2, <1>8 DEF Read
  <2>2. tab \in Tabs /\ n \in Int /\ req[r].since \in 1..now /\ DOMAIN req[r] = DOMAIN NoRequest
        /\ req[r].kind = "none"
    BY <2>1 DEF Asked
  <2>3. req' = [req EXCEPT ![r].pc = "read", ![r].data = data]
    BY <1>8 DEF Read
  <2> HIDE DEF data
  <2>4. /\ req'[r].pc = "read" /\ req'[r].data = data /\ req'[r].tab = tab
        /\ req'[r].limit = n /\ req'[r].since = req[r].since /\ req'[r].kind = "none"
        /\ DOMAIN req'[r] = DOMAIN NoRequest
    BY <1>1, <2>2, <2>3 DEF NoRequest
  <2>5. DOMAIN req' = Requests /\ \A q \in Requests \ {r} : req'[q] = req[q]
    BY <1>1, <2>3
  <2>6. now \in 1..now /\ now \in req[r].since..now
    BY <1>1, <2>2
  <2>7. \A s \in ToSet(data) : s \in DOMAIN history[now]
                               /\ history[now][s].weather = (tab = "weather")
    BY <1>1, <2>1, <2>2, <2>6, QueryShows DEF data
  <2>8. Asked(history, now, req'[r])
    <3>1. ShownBy(history, now, req'[r].data, req'[r].tab)
      BY <2>4, <2>6, <2>7 DEF ShownBy
    <3>2. Snapshot(history, now, req'[r])
      BY <2>4, <2>6 DEF Snapshot, data
    <3> QED
      BY <2>2, <2>4, <3>1, <3>2 DEF Asked
  <2> QED
    BY <1>3, <2>1, <2>2, <2>4, <2>5, <2>8, OneServed
<1>9. ASSUME NEW r \in Requests, Fresh(r) PROVE Answering'
  <2>1. /\ Asked(history, now, req[r]) /\ req[r].pc = "read"
        /\ UNCHANGED <<history, now>> /\ cache' = Keep(req[r].tab, req[r].data)
    BY <1>2, <1>9 DEF Fresh
  <2>2. /\ DOMAIN req[r] = DOMAIN NoRequest /\ req[r].kind = "none"
        /\ Snapshot(history, now, req[r]) /\ ShownBy(history, now, req[r].data, req[r].tab)
    BY <2>1 DEF Asked
  <2>3. req' = [req EXCEPT ![r].pc = "done", ![r].kind = "fresh"]
    BY <1>9 DEF Fresh
  <2>4. /\ req'[r].pc = "done" /\ req'[r].data = req[r].data /\ req'[r].tab = req[r].tab
        /\ req'[r].limit = req[r].limit /\ req'[r].since = req[r].since
        /\ req'[r].kind = "fresh" /\ DOMAIN req'[r] = DOMAIN NoRequest
    BY <1>1, <2>2, <2>3 DEF NoRequest
  <2>5. DOMAIN req' = Requests /\ \A q \in Requests \ {r} : req'[q] = req[q]
    BY <1>1, <2>3
  <2>6. Asked(history, now, req'[r])
    BY <2>1, <2>2, <2>4 DEF Asked, Snapshot
  <2>7. ASSUME NEW tab \in DOMAIN cache'
        PROVE  \/ \E q \in Requests : Gave(q, tab, cache'[tab])
               \/ req'[r].kind = "fresh" /\ req'[r].tab = tab /\ req'[r].data = cache'[tab]
    <3>1. CASE tab = req[r].tab
      BY <2>1, <2>4, <3>1 DEF Keep
    <3>2. CASE tab # req[r].tab
      <4>1. tab \in DOMAIN cache /\ cache'[tab] = cache[tab]
        BY <2>1, <3>2 DEF Keep
      <4> QED
        BY <1>3, <4>1
    <3> QED
      BY <3>1, <3>2
  <2> QED
    BY <2>1, <2>2, <2>4, <2>5, <2>6, <2>7, OneServed
<1>10. ASSUME NEW r \in Requests, Degrade(r) PROVE Answering'
  <2> DEFINE tab == req[r].tab
             has == tab \in DOMAIN cache
             data == IF has THEN cache[tab] ELSE <<>>
             kind == IF has THEN "degraded" ELSE "503"
  <2>1. /\ Asked(history, now, req[r]) /\ req[r].pc \in {"asked", "read"}
        /\ UNCHANGED <<history, now, cache>>
    BY <1>2, <1>10 DEF Degrade
  <2>2. /\ DOMAIN req[r] = DOMAIN NoRequest /\ req[r].kind = "none" /\ tab \in Tabs
        /\ req[r].limit \in Int /\ req[r].since \in 1..now
    BY <2>1 DEF Asked
  <2>3. req' = [req EXCEPT ![r].pc = "done", ![r].kind = kind, ![r].data = data]
    BY <1>10 DEF Degrade
  <2>4. kind \in {"degraded", "503"} /\ (kind = "degraded" => has)
    OBVIOUS
  <2>5. ShownBy(history, now, data, tab) /\ (has => \E q \in Requests : Gave(q, tab, data))
    <3>1. CASE has
      <4>1. PICK q \in Requests : Gave(q, tab, cache[tab])
        BY <1>3, <3>1
      <4>2. ShownBy(history, now, req[q].data, req[q].tab)
        BY <1>2 DEF Asked
      <4> QED
        BY <3>1, <4>1, <4>2 DEF Gave
    <3>2. CASE ~ has
      BY <3>2 DEF ShownBy, ToSet
    <3> QED
      BY <3>1, <3>2
  <2> HIDE DEF has, data, kind
  <2>6. /\ req'[r].pc = "done" /\ req'[r].data = data /\ req'[r].tab = tab
        /\ req'[r].limit = req[r].limit /\ req'[r].since = req[r].since
        /\ req'[r].kind = kind /\ DOMAIN req'[r] = DOMAIN NoRequest
    BY <1>1, <2>2, <2>3 DEF NoRequest
  <2>7. DOMAIN req' = Requests /\ \A q \in Requests \ {r} : req'[q] = req[q]
    BY <1>1, <2>3
  <2>8. Asked(history, now, req'[r])
    BY <2>2, <2>4, <2>5, <2>6 DEF Asked
  <2>9. \A t \in DOMAIN cache' : \E q \in Requests : Gave(q, t, cache'[t])
    BY <1>3, <2>1
  <2> QED
    BY <2>1, <2>2, <2>4, <2>5, <2>6, <2>7, <2>8, <2>9, OneServed
<1>11. CASE ApiNext
  BY <1>5, <1>6, <1>7, <1>8, <1>9, <1>10, <1>11 DEF ApiNext
<1> QED
  BY <1>4, <1>11 DEF Next, apivars, Tokenize, Recognize, Tag, MergeBoth, Fingerprint, Ingest,
                     Evaluate, Measure, Call

\* A fresh answer is its tab as it was at one moment of the request; a degraded one is
\* what another request of the same tab was answered fresh; weather is on its own tab
\* only (STORY_QUERIES and _degradable, services/api/main.py).
THEOREM FeedIsTrue == Spec => []AnswersTrue
<1>1. Init => Answering
  BY AnsweringInit DEF Init
<1> QED
  BY <1>1, AnsweringStep, AnsweringTrue, PTL DEF Spec

----------------------------------------------------------------------------
(* Texts                                                                   *)

\* A set of numbers that is not empty and is bounded has a largest one.
LEMMA Largest ==
    ASSUME NEW S \in SUBSET Nat, S # {}, NEW n \in Nat, \A x \in S : x <= n
    PROVE  Max(S) \in S /\ \A x \in S : x <= Max(S)
<1> DEFINE gaps == {m \in Nat : n - m \in S}
<1>1. gaps \in SUBSET Nat /\ gaps # {}
  <2>1. PICK x \in S : TRUE
    OBVIOUS
  <2>2. n - x \in Nat /\ n - (n - x) = x
    OBVIOUS
  <2> QED
    BY <2>1, <2>2
<1> HIDE DEF gaps
<1>2. PICK g \in gaps : \A h \in gaps : g <= h
  BY <1>1, Least
<1>3. g \in Nat /\ n - g \in S
  BY DEF gaps
<1>4. ASSUME NEW y \in S PROVE n - g >= y
  <2>1. n - y \in Nat /\ n - (n - y) = y
    OBVIOUS
  <2>2. n - y \in gaps
    BY <2>1 DEF gaps
  <2>3. g <= n - y
    BY <1>2, <2>2
  <2> QED
    BY <1>3, <2>1, <2>3
<1>5. Max(S) \in S /\ \A y \in S : Max(S) >= y
  BY <1>3, <1>4 DEF Max
<1> QED
  BY <1>5

\* A function along 1..n+1 is defined when each value is that of a later place with
\* something before it.
Chained(f, n, head, next) ==
    /\ f[n + 1] = <<>>
    /\ \A i \in 1..n : f[i] = head[i] \o f[next[i]]

LEMMA ChainExists ==
    ASSUME NEW n \in Nat, NEW V, NEW head \in [1..n -> Seq(V)], NEW next \in [1..n -> 1..(n + 1)],
           \A i \in 1..n : next[i] > i
    PROVE  \E f \in [1..(n + 1) -> Seq(V)] : Chained(f, n, head, next)
<1> DEFINE Has(m) == \E f \in [(n + 1 - m)..(n + 1) -> Seq(V)] :
                        /\ f[n + 1] = <<>>
                        /\ \A i \in (n + 1 - m)..n : f[i] = head[i] \o f[next[i]]
           Bad == {m \in 0..n : ~ Has(m)}
<1>1. ASSUME Bad # {} PROVE FALSE
  <2>1. Bad \in SUBSET Nat
    <3> HIDE DEF Has
    <3> QED
      OBVIOUS
  <2> HIDE DEF Bad
  <2>2. PICK m \in Bad : \A k \in Bad : m <= k
    BY <1>1, <2>1, Least
  <2>3. m \in 0..n /\ ~ Has(m)
    BY DEF Bad
  <2>4. m # 0
    <3>1. ASSUME m = 0 PROVE FALSE
      <4> DEFINE f == [i \in (n + 1)..(n + 1) |-> <<>>]
      <4>1. f \in [(n + 1)..(n + 1) -> Seq(V)] /\ f[n + 1] = <<>>
        BY EmptySeq
      <4>2. n + 1 - 0 = n + 1 /\ (n + 1)..n = {}
        OBVIOUS
      <4> HIDE DEF f
      <4>3. Has(0)
        BY <4>1, <4>2
      <4> QED
        BY <2>3, <3>1, <4>3
    <3> QED
      BY <3>1
  <2>5. m - 1 \in 0..n /\ m - 1 \notin Bad /\ n + 1 - (m - 1) = n + 2 - m
    BY <2>1, <2>2, <2>3, <2>4
  <2>6. PICK f \in [(n + 2 - m)..(n + 1) -> Seq(V)] :
            f[n + 1] = <<>> /\ \A i \in (n + 2 - m)..n : f[i] = head[i] \o f[next[i]]
    BY <2>5 DEF Bad
  <2> DEFINE e == n + 1 - m
             first == head[e] \o f[next[e]]
             g == [i \in (n + 1 - m)..(n + 1) |-> IF i = e THEN first ELSE f[i]]
  <2>7. e \in 1..n /\ e + 1 = n + 2 - m
    BY <2>3, <2>4
  <2>8. \A i \in e..n : next[i] \in (n + 2 - m)..(n + 1)
    BY <2>7
  <2>9. first \in Seq(V)
    <3>0. next[e] \in (n + 2 - m)..(n + 1)
      BY <2>7, <2>8
    <3> HIDE DEF e
    <3>1. head[e] \in Seq(V) /\ f[next[e]] \in Seq(V)
      BY <2>6, <2>7, <3>0
    <3> QED
      BY <3>1, ConcatProperties
  <2>10. \A i \in (n + 1 - m)..(n + 1) : i = e \/ i \in (n + 2 - m)..(n + 1)
    BY <2>7
  <2> HIDE DEF first
  <2>11. /\ g \in [(n + 1 - m)..(n + 1) -> Seq(V)]
         /\ g[e] = first /\ \A i \in (n + 2 - m)..(n + 1) : g[i] = f[i]
    <3>1. \A i \in (n + 1 - m)..(n + 1) : (IF i = e THEN first ELSE f[i]) \in Seq(V)
      BY <2>6, <2>9, <2>10
    <3>2. g \in [(n + 1 - m)..(n + 1) -> Seq(V)]
      BY <3>1
    <3>3. e \in (n + 1 - m)..(n + 1) /\ \A i \in (n + 2 - m)..(n + 1) : i \in (n + 1 - m)..(n + 1) /\ i # e
      BY <2>3, <2>7
    <3> HIDE DEF e
    <3> QED
      BY <3>2, <3>3
  <2> HIDE DEF g
  <2>12. g[n + 1] = <<>>
    BY <2>6, <2>7, <2>11
  <2>13. ASSUME NEW i \in (n + 1 - m)..n PROVE g[i] = head[i] \o g[next[i]]
    <3>1. g[next[i]] = f[next[i]]
      BY <2>7, <2>8, <2>11
    <3>2. CASE i = e
      BY <2>11, <3>1, <3>2 DEF first
    <3>3. CASE i # e
      <4>1. i \in (n + 2 - m)..n /\ i \in (n + 2 - m)..(n + 1)
        BY <2>7, <3>3
      <4> QED
        BY <2>6, <2>11, <3>1, <4>1
    <3> QED
      BY <3>2, <3>3
  <2>14. Has(m)
    BY <2>11, <2>12, <2>13
  <2> QED
    BY <2>3, <2>14
<1>2. Has(n)
  <2> HIDE DEF Has
  <2> QED
    BY <1>1
<1>3. n + 1 - n = 1
  OBVIOUS
<1> QED
  BY <1>2, <1>3 DEF Chained

\* The lengths of the phrases that stand at a place.
FitsAt(tokens, phrases, longest, i) ==
    {l \in 1..AtMostOf(longest, Len(tokens) - i + 1) : SubSeq(tokens, i, i + l - 1) \in phrases}

Matches(at, tokens, phrases, longest) ==
    at = [i \in 1..(Len(tokens) + 1) |->
            IF i > Len(tokens) THEN <<>>
            ELSE IF FitsAt(tokens, phrases, longest, i) = {} THEN at[i + 1]
                 ELSE << <<i, i + Max(FitsAt(tokens, phrases, longest, i)) - 1>> >>
                        \o at[i + Max(FitsAt(tokens, phrases, longest, i))]]

LongestOf(phrases) == Max({1} \cup {Len(p) : p \in phrases})

\* The definition, with its recursive function made a bound variable.
LEMMA MatchIsChoice ==
    ASSUME NEW tokens, NEW phrases
    PROVE  Match(tokens, phrases)
             = (CHOOSE at : Matches(at, tokens, phrases, LongestOf(phrases)))[1]
  BY DEF Match, Matches, FitsAt, LongestOf

\* A finite set of numbers is bounded.
LEMMA FiniteIsBounded ==
    ASSUME NEW S, IsFiniteSet(S), S \subseteq Nat
    PROVE  \E n \in Nat : \A x \in S : x <= n
<1> DEFINE Bad == {T \in SUBSET S : ~ \E n \in Nat : \A x \in T : x <= n}
<1>1. ASSUME Bad # {} PROVE FALSE
  <2>1. Bad \in SUBSET (SUBSET S)
    OBVIOUS
  <2> HIDE DEF Bad
  <2>2. PICK T \in Bad : IsFiniteSet(T) /\ \A U \in SUBSET T : U \in Bad => U = T
    <3>1. \A R : IsFiniteSet(R) => \A B \in SUBSET (SUBSET R) : B # {} =>
             \E T \in B : IsFiniteSet(T) /\ \A U \in SUBSET T : U \in B => U = T
      BY ONLY Smallest
    <3>2. IsFiniteSet(S)
      OBVIOUS
    <3> QED
      BY ONLY <1>1, <2>1, <3>1, <3>2
  <2>3. T \in SUBSET S /\ ~ \E n \in Nat : \A x \in T : x <= n
    BY DEF Bad
  <2>4. PICK t \in T : TRUE
    <3>1. T # {}
      <4>1. \A x \in {} : x <= 0
        OBVIOUS
      <4> QED
        BY <2>3, <4>1
    <3> QED
      BY <3>1
  <2>5. T \ {t} \notin Bad
    BY <2>2
  <2>6. PICK n \in Nat : \A x \in T \ {t} : x <= n
    BY <2>3, <2>5 DEF Bad
  <2>7. t \in Nat /\ n + t \in Nat /\ \A x \in T : x \in Nat
    BY <2>3
  <2>8. \A x \in T : x <= n + t
    BY <2>6, <2>7
  <2> QED
    BY <2>3, <2>7, <2>8
<1> QED
  BY <1>1

\* No phrase is longer than the longest one.
LEMMA LongestIs ==
    ASSUME NEW phrases, IsFiniteSet(phrases), \A p \in phrases : Len(p) \in Nat
    PROVE  LongestOf(phrases) \in Nat /\ \A p \in phrases : Len(p) <= LongestOf(phrases)
<1> DEFINE lens == {Len(p) : p \in phrases}
           f == [p \in phrases |-> Len(p)]
<1>1. f \in Surjection(phrases, lens)
  BY DEF Surjection
<1>2. IsFiniteSet(lens) /\ lens \subseteq Nat
  <2> HIDE DEF f
  <2>1. \A S, T : \A g \in Surjection(S, T) : IsFiniteSet(S) => IsFiniteSet(T)
    BY FS_Surjection
  <2>2. IsFiniteSet(lens)
    <3> HIDE DEF lens
    <3> QED
      BY <1>1, <2>1
  <2> QED
    BY <2>2
<1>3. IsFiniteSet({1} \cup lens) /\ {1} \cup lens \subseteq Nat
  <2> HIDE DEF lens
  <2> QED
    BY <1>2, FS_AddElement
<1> DEFINE all == {1} \cup lens
<1>4. \E n \in Nat : \A x \in all : x <= n
  <2> HIDE DEF all
  <2>1. all \subseteq Nat /\ IsFiniteSet(all)
    BY <1>3 DEF all
  <2> QED
    BY <2>1, FiniteIsBounded
<1>5. Max(all) \in all /\ \A x \in all : x <= Max(all)
  <2>1. 1 \in all
    OBVIOUS
  <2> HIDE DEF all
  <2>2. all \in SUBSET Nat /\ all # {}
    BY <1>3, <2>1 DEF all
  <2> QED
    BY <1>4, <2>2, Largest
<1>6. LongestOf(phrases) = Max(all)
  BY DEF LongestOf
<1>7. \A p \in phrases : Len(p) \in all
  OBVIOUS
<1>8. all \subseteq Nat
  BY <1>3
<1> HIDE DEF all
<1> QED
  BY <1>5, <1>6, <1>7, <1>8

LEMMA FitsAre ==
    ASSUME NEW V, NEW tokens \in Seq(V), NEW phrases, NEW longest \in Nat,
           NEW i \in 1..Len(tokens), FitsAt(tokens, phrases, longest, i) # {}
    PROVE  /\ Max(FitsAt(tokens, phrases, longest, i)) \in FitsAt(tokens, phrases, longest, i)
           /\ \A l \in FitsAt(tokens, phrases, longest, i) :
                 l <= Max(FitsAt(tokens, phrases, longest, i))
           /\ Max(FitsAt(tokens, phrases, longest, i)) \in 1..(Len(tokens) - i + 1)
<1> DEFINE fits == FitsAt(tokens, phrases, longest, i)
<1>1. Len(tokens) \in Nat
  BY LenProperties
<1>2. \A l \in fits : l \in 1..(Len(tokens) - i + 1)
  BY <1>1 DEF FitsAt, AtMostOf
<1>3. Max(fits) \in fits /\ \A l \in fits : l <= Max(fits)
  <2>1. fits \subseteq Nat /\ fits # {} /\ Len(tokens) \in Nat /\ \A l \in fits : l <= Len(tokens)
    BY <1>1, <1>2
  <2> HIDE DEF fits
  <2>2. \A S \in SUBSET Nat, n \in Nat : S # {} /\ (\A x \in S : x <= n) =>
           Max(S) \in S /\ \A x \in S : x <= Max(S)
    BY Largest
  <2> QED
    BY ONLY <2>1, <2>2
<1> HIDE DEF fits
<1> QED
  BY <1>2, <1>3 DEF fits

\* What is found from a place on: the phrase that is there, and what is found after it.
LEMMA MatchFrom ==
    ASSUME NEW V, NEW tokens \in Seq(V), NEW phrases, NEW longest \in Nat
    PROVE  LET n == Len(tokens)
               at == CHOOSE at : Matches(at, tokens, phrases, longest)
               fits(i) == FitsAt(tokens, phrases, longest, i)
           IN  /\ at \in [1..(n + 1) -> Seq(Nat \X Nat)]
               /\ at[n + 1] = <<>>
               /\ \A i \in 1..n :
                     /\ fits(i) = {} => at[i] = at[i + 1]
                     /\ fits(i) # {} =>
                           at[i] = << <<i, i + Max(fits(i)) - 1>> >> \o at[i + Max(fits(i))]
<1> DEFINE n == Len(tokens)
           fits(i) == FitsAt(tokens, phrases, longest, i)
           head == [i \in 1..n |-> IF fits(i) = {} THEN <<>> ELSE << <<i, i + Max(fits(i)) - 1>> >>]
           next == [i \in 1..n |-> IF fits(i) = {} THEN i + 1 ELSE i + Max(fits(i))]
<1>1. n \in Nat
  BY LenProperties
<1>2. \A i \in 1..n : fits(i) # {} => Max(fits(i)) \in 1..(n - i + 1)
  BY FitsAre
<1> HIDE DEF n, fits
<1>3. head \in [1..n -> Seq(Nat \X Nat)]
  <2>1. ASSUME NEW i \in 1..n
        PROVE  (IF fits(i) = {} THEN <<>> ELSE << <<i, i + Max(fits(i)) - 1>> >>) \in Seq(Nat \X Nat)
    <3>1. CASE fits(i) = {}
      BY <3>1
    <3>2. CASE fits(i) # {}
      <4>1. i \in Nat /\ i + Max(fits(i)) - 1 \in Nat
        BY <1>1, <1>2, <3>2
      <4>2. \A x, y \in Nat : << <<x, y>> >> \in Seq(Nat \X Nat)
        OBVIOUS
      <4> QED
        BY <3>2, <4>1, <4>2
    <3> QED
      BY <3>1, <3>2
  <2> QED
    BY <2>1
<1>4. next \in [1..n -> 1..(n + 1)] /\ \A i \in 1..n : next[i] > i
  BY <1>1, <1>2
<1>5. \A i \in 1..n : /\ fits(i) = {} => head[i] = <<>> /\ next[i] = i + 1
                      /\ fits(i) # {} => /\ head[i] = << <<i, i + Max(fits(i)) - 1>> >>
                                         /\ next[i] = i + Max(fits(i))
  OBVIOUS
<1> HIDE DEF head, next
<1>6. PICK f \in [1..(n + 1) -> Seq(Nat \X Nat)] : Chained(f, n, head, next)
  BY <1>1, <1>3, <1>4, ChainExists
<1>7. ASSUME NEW i \in 1..n
      PROVE  f[i] = IF fits(i) = {} THEN f[i + 1]
                    ELSE << <<i, i + Max(fits(i)) - 1>> >> \o f[i + Max(fits(i))]
  <2>1. f[i] = head[i] \o f[next[i]]
    BY <1>6 DEF Chained
  <2>2. CASE fits(i) = {}
    <3>1. i + 1 \in 1..(n + 1)
      BY <1>1
    <3>2. f[i + 1] \in Seq(Nat \X Nat)
      BY <3>1
    <3>3. <<>> \o f[i + 1] = f[i + 1]
      BY <3>2, ConcatEmptySeq
    <3>4. head[i] = <<>> /\ next[i] = i + 1
      BY <1>5, <2>2
    <3> QED
      BY <2>1, <2>2, <3>3, <3>4
  <2>3. CASE fits(i) # {}
    BY <1>5, <2>1, <2>3
  <2> QED
    BY <2>2, <2>3
<1>8. Matches(f, tokens, phrases, longest)
  <2>1. f = [i \in 1..(n + 1) |-> IF i > n THEN <<>>
                                  ELSE IF fits(i) = {} THEN f[i + 1]
                                       ELSE << <<i, i + Max(fits(i)) - 1>> >> \o f[i + Max(fits(i))]]
    <3>1. ASSUME NEW i \in 1..(n + 1)
          PROVE  f[i] = IF i > n THEN <<>>
                        ELSE IF fits(i) = {} THEN f[i + 1]
                             ELSE << <<i, i + Max(fits(i)) - 1>> >> \o f[i + Max(fits(i))]
      <4>1. CASE i > n
        <5>1. i = n + 1
          BY <1>1, <4>1
        <5>2. f[n + 1] = <<>>
          BY <1>6 DEF Chained
        <5> QED
          BY <4>1, <5>1, <5>2
      <4>2. CASE ~ i > n
        <5>1. i \in 1..n
          BY <1>1, <4>2
        <5> QED
          BY <1>7, <4>2, <5>1
      <4> QED
        BY <4>1, <4>2
    <3> QED
      BY <3>1
  <2> QED
    BY <2>1 DEF Matches, n, fits
<1> DEFINE at == CHOOSE at : Matches(at, tokens, phrases, longest)
<1>9. Matches(at, tokens, phrases, longest)
  BY <1>8
<1> HIDE DEF at
<1>10. at = [i \in 1..(n + 1) |-> IF i > n THEN <<>>
                                  ELSE IF fits(i) = {} THEN at[i + 1]
                                       ELSE << <<i, i + Max(fits(i)) - 1>> >> \o at[i + Max(fits(i))]]
  BY <1>9 DEF Matches, n, fits
<1>11. /\ at[n + 1] = <<>>
       /\ \A i \in 1..n :
             /\ fits(i) = {} => at[i] = at[i + 1]
             /\ fits(i) # {} => at[i] = << <<i, i + Max(fits(i)) - 1>> >> \o at[i + Max(fits(i))]
  <2>1. \A i \in 1..(n + 1) : at[i] = IF i > n THEN <<>>
                                  ELSE IF fits(i) = {} THEN at[i + 1]
                                       ELSE << <<i, i + Max(fits(i)) - 1>> >> \o at[i + Max(fits(i))]
    BY <1>10
  <2>2. n + 1 \in 1..(n + 1) /\ n + 1 > n /\ \A i \in 1..n : i \in 1..(n + 1) /\ ~ i > n
    BY <1>1
  <2> QED
    BY <2>1, <2>2
<1>12. at \in [1..(n + 1) -> Seq(Nat \X Nat)]
  <2> DEFINE Bad == {m \in 0..n : at[n + 1 - m] \notin Seq(Nat \X Nat)}
  <2>1. ASSUME Bad # {} PROVE FALSE
    <3>1. Bad \in SUBSET Nat
      OBVIOUS
    <3> HIDE DEF Bad
    <3>2. PICK m \in Bad : \A k \in Bad : m <= k
      BY <2>1, <3>1, Least
    <3>3. m \in 0..n /\ at[n + 1 - m] \notin Seq(Nat \X Nat)
      BY DEF Bad
    <3> DEFINE i == n + 1 - m
    <3>4. m # 0
      <4>1. n + 1 - 0 = n + 1 /\ at[n + 1] \in Seq(Nat \X Nat)
        BY <1>1, <1>11, EmptySeq
      <4> QED
        BY <3>3, <4>1
    <3>5. i \in 1..n
      BY <1>1, <3>3, <3>4
    <3>6. \A j \in (i + 1)..(n + 1) : at[j] \in Seq(Nat \X Nat)
      <4> TAKE j \in (i + 1)..(n + 1)
      <4>1. n + 1 - j \in 0..n /\ n + 1 - j < m /\ n + 1 - (n + 1 - j) = j
        BY <1>1, <3>3
      <4>2. n + 1 - j \notin Bad
        BY <3>2, <4>1, <3>1
      <4> QED
        BY <4>1, <4>2 DEF Bad
    <3> HIDE DEF i
    <3>7. CASE fits(i) = {}
      <4>1. i + 1 \in (i + 1)..(n + 1)
        BY <1>1, <3>5
      <4> QED
        BY <1>11, <3>3, <3>5, <3>6, <3>7, <4>1 DEF i
    <3>8. CASE fits(i) # {}
      <4>1. i + Max(fits(i)) \in (i + 1)..(n + 1)
        <5>1. Max(fits(i)) \in 1..(n - i + 1)
          BY <1>2, <3>5, <3>8
        <5>2. \A l \in 1..(n - i + 1) : i + l \in (i + 1)..(n + 1)
          BY <1>1, <3>5
        <5> QED
          BY <5>1, <5>2
      <4>2. at[i] = head[i] \o at[i + Max(fits(i))]
        BY <1>5, <1>11, <3>5, <3>8
      <4>3. head[i] \in Seq(Nat \X Nat) /\ at[i + Max(fits(i))] \in Seq(Nat \X Nat)
        BY <1>3, <3>5, <3>6, <4>1
      <4>4. at[i] \in Seq(Nat \X Nat)
        BY <4>2, <4>3, ConcatProperties
      <4> QED
        BY <3>3, <4>4 DEF i
    <3> QED
      BY <3>7, <3>8
  <2>2. \A i \in 1..(n + 1) : at[i] \in Seq(Nat \X Nat)
    <3> TAKE i \in 1..(n + 1)
    <3>1. n + 1 - i \in 0..n /\ n + 1 - (n + 1 - i) = i
      BY <1>1
    <3> QED
      BY <2>1, <3>1
  <2>3. at = [i \in 1..(n + 1) |-> at[i]]
    BY <1>10
  <2> QED
    BY <2>2, <2>3
<1> QED
  BY <1>11, <1>12 DEF n, fits, at

\* What is found from a place on is what can be found there.
Finds(hits, tokens, phrases, i) ==
    /\ \A k \in DOMAIN hits :
          /\ i <= hits[k][1] /\ hits[k][1] <= hits[k][2] /\ hits[k][2] <= Len(tokens)
          /\ SubSeq(tokens, hits[k][1], hits[k][2]) \in phrases
          /\ k > 1 => hits[k - 1][2] < hits[k][1]
          /\ \A j \in (hits[k][2] + 1)..Len(tokens) : SubSeq(tokens, hits[k][1], j) \notin phrases
    /\ \A a, b \in 1..Len(tokens) :
          i <= a /\ a <= b /\ SubSeq(tokens, a, b) \in phrases =>
              \E k \in DOMAIN hits : hits[k][1] <= b /\ a <= hits[k][2]

LEMMA FitsCover ==
    ASSUME NEW V, NEW tokens \in Seq(V), NEW phrases, NEW longest \in Nat,
           \A p \in phrases : Len(p) <= longest,
           NEW a \in 1..Len(tokens), NEW b \in 1..Len(tokens), a <= b
    PROVE  SubSeq(tokens, a, b) \in phrases <=> b - a + 1 \in FitsAt(tokens, phrases, longest, a)
<1>1. Len(tokens) \in Nat /\ \A i \in 1..Len(tokens) : tokens[i] \in V
  BY LenProperties, ElementOfSeq
<1>2. Len(SubSeq(tokens, a, b)) = b - a + 1
  <2>1. a \in Int /\ b \in Int /\ \A i \in a..b : tokens[i] \in V
    BY <1>1
  <2> QED
    BY <2>1, SubSeqProperties
<1>3. a + (b - a + 1) - 1 = b /\ b - a + 1 \in 1..(Len(tokens) - a + 1)
  BY <1>1
<1>4. SubSeq(tokens, a, b) \in phrases => b - a + 1 <= longest
  BY <1>2
<1>5. SubSeq(tokens, a, b) \in phrases => b - a + 1 \in 1..AtMostOf(longest, Len(tokens) - a + 1)
  BY <1>1, <1>3, <1>4 DEF AtMostOf
<1> QED
  BY <1>3, <1>5 DEF FitsAt

\* One hit more in front.
LEMMA HitAdded ==
    ASSUME NEW x \in Nat, NEW y \in Nat, NEW rest \in Seq(Nat \X Nat)
    PROVE  LET hits == << <<x, y>> >> \o rest
           IN  /\ hits[1][1] = x /\ hits[1][2] = y
               /\ \A k \in DOMAIN rest :
                     k \in DOMAIN hits /\ k + 1 \in DOMAIN hits /\ hits[k + 1] = rest[k]
               /\ \A k \in DOMAIN hits : k \in Nat /\ (k = 1 \/ (k > 1 /\ k - 1 \in DOMAIN rest))
               /\ 1 \in DOMAIN hits
<1> DEFINE first == << <<x, y>> >>
           hits == first \o rest
<1>1. first \in Seq(Nat \X Nat) /\ Len(first) = 1 /\ first[1] = <<x, y>>
  OBVIOUS
<1>2. Len(rest) \in Nat /\ DOMAIN rest = 1..Len(rest)
  BY LenProperties
<1> HIDE DEF first
<1>3. /\ hits \in Seq(Nat \X Nat) /\ Len(hits) = 1 + Len(rest)
      /\ \A k \in 1..(1 + Len(rest)) : hits[k] = IF k <= 1 THEN first[k] ELSE rest[k - 1]
  <2>1. /\ first \o rest \in Seq(Nat \X Nat) /\ Len(first \o rest) = Len(first) + Len(rest)
        /\ \A k \in 1..(Len(first) + Len(rest)) :
              (first \o rest)[k] = IF k <= Len(first) THEN first[k] ELSE rest[k - Len(first)]
    BY <1>1, ConcatProperties
  <2> HIDE DEF hits
  <2>2. hits = first \o rest
    BY DEF hits
  <2> QED
    BY <1>1, <2>1, <2>2
<1> HIDE DEF hits
<1>4. DOMAIN hits = 1..(1 + Len(rest))
  BY <1>3, LenProperties
<1>5. hits[1] = <<x, y>>
  BY <1>1, <1>2, <1>3
<1>6. ASSUME NEW k \in DOMAIN rest
      PROVE  k \in DOMAIN hits /\ k + 1 \in DOMAIN hits /\ hits[k + 1] = rest[k]
  <2>1. k \in 1..Len(rest) /\ k + 1 \in 1..(1 + Len(rest)) /\ ~ k + 1 <= 1 /\ k + 1 - 1 = k
    BY <1>2
  <2>2. hits[k + 1] = IF k + 1 <= 1 THEN first[k + 1] ELSE rest[k + 1 - 1]
    BY <1>3, <2>1
  <2> QED
    BY <1>2, <1>4, <2>1, <2>2
<1>7. \A k \in DOMAIN hits : k \in Nat /\ (k = 1 \/ (k > 1 /\ k - 1 \in DOMAIN rest))
  BY <1>2, <1>4
<1>8. 1 \in DOMAIN hits
  BY <1>2, <1>4
<1> QED
  BY <1>5, <1>6, <1>7, <1>8 DEF hits, first

LEMMA FindsStep ==
    ASSUME NEW V, NEW tokens \in Seq(V), NEW phrases, NEW i \in 1..Len(tokens), NEW m \in i..Len(tokens),
           SubSeq(tokens, i, m) \in phrases,
           \A j \in (m + 1)..Len(tokens) : SubSeq(tokens, i, j) \notin phrases,
           NEW rest \in Seq(Nat \X Nat), Finds(rest, tokens, phrases, m + 1)
    PROVE  Finds(<< <<i, m>> >> \o rest, tokens, phrases, i)
<1> DEFINE n == Len(tokens)
           hits == << <<i, m>> >> \o rest
<1>1. n \in Nat /\ i \in Nat /\ m \in Nat /\ i <= m /\ m <= n
  BY LenProperties
<1>2. /\ hits[1][1] = i /\ hits[1][2] = m
      /\ \A k \in DOMAIN rest : k \in DOMAIN hits /\ k + 1 \in DOMAIN hits /\ hits[k + 1] = rest[k]
      /\ \A k \in DOMAIN hits : k \in Nat /\ (k = 1 \/ (k > 1 /\ k - 1 \in DOMAIN rest))
      /\ 1 \in DOMAIN hits
  BY <1>1, HitAdded
<1> HIDE DEF hits
<1>3. ASSUME NEW k \in DOMAIN hits
      PROVE  /\ i <= hits[k][1] /\ hits[k][1] <= hits[k][2] /\ hits[k][2] <= n
             /\ SubSeq(tokens, hits[k][1], hits[k][2]) \in phrases
             /\ k > 1 => hits[k - 1][2] < hits[k][1]
             /\ \A j \in (hits[k][2] + 1)..n : SubSeq(tokens, hits[k][1], j) \notin phrases
  <2>1. CASE k = 1
    BY <1>1, <1>2, <2>1
  <2>2. CASE k # 1
    <3>1. k - 1 \in DOMAIN rest /\ k \in Nat /\ k > 1 /\ k - 1 + 1 = k
      BY <1>2, <2>2
    <3>2. hits[k] = rest[k - 1]
      BY <1>2, <3>1
    <3>3. rest[k - 1] \in Nat \X Nat
      BY <3>1, LenProperties
    <3>4. /\ m + 1 <= hits[k][1] /\ hits[k][1] <= hits[k][2] /\ hits[k][2] <= n
          /\ SubSeq(tokens, hits[k][1], hits[k][2]) \in phrases
          /\ \A j \in (hits[k][2] + 1)..n : SubSeq(tokens, hits[k][1], j) \notin phrases
          /\ k - 1 > 1 => rest[k - 2][2] < hits[k][1]
      <4>1. k - 1 - 1 = k - 2
        BY <3>1
      <4> QED
        BY <3>1, <3>2, <4>1 DEF Finds
    <3>5. hits[k - 1][2] < hits[k][1]
      <4>1. CASE k = 2
        BY <1>1, <1>2, <3>2, <3>3, <3>4, <4>1
      <4>2. CASE k # 2
        <5>0. k - 1 \in DOMAIN hits
          BY <1>2, <3>1
        <5>1. k - 1 > 1 /\ k - 1 \in DOMAIN hits /\ k - 1 # 1 /\ k - 1 - 1 = k - 2 /\ k - 2 + 1 = k - 1
          <6>1. \A x \in Nat : x > 1 /\ x # 2 =>
                   x - 1 > 1 /\ x - 1 # 1 /\ x - 1 - 1 = x - 2 /\ x - 2 + 1 = x - 1
            OBVIOUS
          <6> QED
            BY ONLY <3>1, <4>2, <5>0, <6>1
        <5>2. k - 2 \in DOMAIN rest
          BY <1>2, <5>1
        <5>3. hits[k - 1] = rest[k - 2]
          BY <1>2, <5>1, <5>2
        <5> QED
          BY <3>4, <5>1, <5>3
      <4> QED
        BY <4>1, <4>2
    <3>6. i <= hits[k][1]
      BY <1>1, <3>2, <3>3, <3>4
    <3> QED
      BY <3>4, <3>5, <3>6
  <2> QED
    BY <2>1, <2>2
<1>4. ASSUME NEW a \in 1..n, NEW b \in 1..n, i <= a, a <= b, SubSeq(tokens, a, b) \in phrases
      PROVE  \E k \in DOMAIN hits : hits[k][1] <= b /\ a <= hits[k][2]
  <2>1. CASE a <= m
    <3>1. hits[1][1] <= b /\ a <= hits[1][2]
      BY <1>1, <1>2, <1>4, <2>1
    <3> QED
      BY <1>2, <3>1
  <2>2. CASE ~ a <= m
    <3>1. m + 1 <= a
      BY <1>1, <2>2
    <3>2. PICK k \in DOMAIN rest : rest[k][1] <= b /\ a <= rest[k][2]
      BY <1>4, <3>1 DEF Finds
    <3> QED
      BY <1>2, <3>2
  <2> QED
    BY <2>1, <2>2
<1> QED
  BY <1>3, <1>4 DEF Finds, hits

\* Gazetteer.match finds what it should, for any text and phrases.
LEMMA MatchIs ==
    ASSUME NEW V, NEW tokens \in Seq(V), NEW phrases, IsFiniteSet(phrases),
           \A p \in phrases : Len(p) \in Nat
    PROVE  HitsExact(tokens, phrases, Match(tokens, phrases))
<1> DEFINE n == Len(tokens)
           longest == LongestOf(phrases)
           at == CHOOSE at : Matches(at, tokens, phrases, longest)
           fits(i) == FitsAt(tokens, phrases, longest, i)
<1>1. n \in Nat
  BY LenProperties
<1>2. longest \in Nat /\ \A p \in phrases : Len(p) <= longest
  BY LongestIs
<1>3. Match(tokens, phrases) = at[1]
  BY MatchIsChoice
<1> HIDE DEF longest
<1>4. /\ at \in [1..(n + 1) -> Seq(Nat \X Nat)]
      /\ at[n + 1] = <<>>
      /\ \A i \in 1..n :
            /\ fits(i) = {} => at[i] = at[i + 1]
            /\ fits(i) # {} => at[i] = << <<i, i + Max(fits(i)) - 1>> >> \o at[i + Max(fits(i))]
  BY <1>2, MatchFrom
<1>5. ASSUME NEW i \in 1..n, fits(i) # {}
      PROVE  /\ Max(fits(i)) \in fits(i) /\ \A l \in fits(i) : l <= Max(fits(i))
             /\ Max(fits(i)) \in 1..(n - i + 1)
  BY <1>2, <1>5, FitsAre
<1>6. ASSUME NEW a \in 1..n, NEW b \in 1..n, a <= b
      PROVE  SubSeq(tokens, a, b) \in phrases <=> b - a + 1 \in fits(a)
  BY <1>2, <1>6, FitsCover
<1> HIDE DEF at, fits
<1> DEFINE Good(i) == Finds(at[i], tokens, phrases, i)
           Bad == {m \in 0..n : ~ Good(n + 1 - m)}
<1>7. ASSUME Bad # {} PROVE FALSE
  <2>1. Bad \in SUBSET Nat
    <3> HIDE DEF Good
    <3> QED
      OBVIOUS
  <2> HIDE DEF Bad
  <2>2. PICK m \in Bad : \A k \in Bad : m <= k
    BY <1>7, <2>1, Least
  <2> DEFINE i == n + 1 - m
  <2>3. m \in 0..n /\ ~ Good(i)
    BY DEF Bad
  <2>4. m # 0
    <3>1. ASSUME m = 0 PROVE FALSE
      <4>1. i = n + 1
        BY <1>1, <3>1
      <4> HIDE DEF i, n
      <4>2. at[i] = <<>>
        BY <1>4, <4>1
      <4>3. Good(i)
        BY <1>1, <4>1, <4>2 DEF Finds, n
      <4> QED
        BY <2>3, <4>3
    <3> QED
      BY <3>1
  <2>5. i \in 1..n
    BY <1>1, <2>3, <2>4
  <2>6. \A j \in (i + 1)..(n + 1) : Good(j)
    <3> TAKE j \in (i + 1)..(n + 1)
    <3>1. n + 1 - j \in 0..n /\ n + 1 - j < m /\ n + 1 - (n + 1 - j) = j
      BY <1>1, <2>3
    <3>2. n + 1 - j \notin Bad
      BY <2>1, <2>2, <3>1
    <3> HIDE DEF Good
    <3> QED
      BY <3>1, <3>2 DEF Bad
  <2> HIDE DEF i
  <2>7. CASE fits(i) = {}
    <3>1. i + 1 \in (i + 1)..(n + 1) /\ at[i] = at[i + 1]
      <4>1. at[i] = at[i + 1]
        BY <1>4, <2>5, <2>7
      <4> QED
        BY <1>1, <2>5, <4>1
    <3>2. Finds(at[i], tokens, phrases, i + 1)
      BY <2>6, <3>1
    <3>3. \A b \in 1..n : i <= b => SubSeq(tokens, i, b) \notin phrases
      BY <1>6, <2>5, <2>7
    <3>4. \A a \in 1..n : i <= a => a = i \/ i + 1 <= a
      BY <1>1, <2>5
    <3>5. ASSUME NEW k \in DOMAIN at[i] PROVE i <= at[i][k][1]
      <4>1. at[i] \in Seq(Nat \X Nat)
        BY <1>1, <1>4, <2>5
      <4>2. at[i][k] \in Nat \X Nat
        BY <4>1, LenProperties
      <4>3. i + 1 <= at[i][k][1]
        BY <3>2 DEF Finds
      <4> QED
        BY <2>5, <4>2, <4>3
    <3>6. Good(i)
      BY <3>2, <3>3, <3>4, <3>5 DEF Finds
    <3> QED
      BY <2>3, <3>6
  <2>8. CASE fits(i) # {}
    <3> DEFINE m2 == i + Max(fits(i)) - 1
    <3>1. /\ Max(fits(i)) \in fits(i) /\ \A l \in fits(i) : l <= Max(fits(i))
          /\ Max(fits(i)) \in 1..(n - i + 1)
      BY <1>5, <2>5, <2>8
    <3>2. m2 \in i..n /\ m2 + 1 = i + Max(fits(i)) /\ m2 - i + 1 = Max(fits(i))
      BY <1>1, <2>5, <3>1
    <3>3. m2 + 1 \in (i + 1)..(n + 1) /\ m2 \in 1..n /\ i <= m2
      BY <1>1, <2>5, <3>2
    <3> HIDE DEF m2
    <3>4. SubSeq(tokens, i, m2) \in phrases
      BY <1>6, <2>5, <3>1, <3>2, <3>3
    <3>5. ASSUME NEW j \in (m2 + 1)..n PROVE SubSeq(tokens, i, j) \notin phrases
      <4>1. j \in 1..n /\ i <= j /\ ~ (j - i + 1 <= m2 - i + 1)
        BY <1>1, <2>5, <3>3
      <4>2. j - i + 1 \notin fits(i)
        BY <3>1, <3>2, <4>1
      <4> QED
        BY <1>6, <2>5, <4>1, <4>2
    <3>6. at[m2 + 1] \in Seq(Nat \X Nat)
      <4>1. m2 + 1 \in 1..(n + 1)
        BY <1>1, <2>5, <3>3
      <4> QED
        BY <1>4, <4>1
    <3>7. Finds(at[m2 + 1], tokens, phrases, m2 + 1)
      BY <2>6, <3>3
    <3>8. at[i] = << <<i, m2>> >> \o at[m2 + 1]
      BY <1>4, <2>5, <2>8, <3>2 DEF m2
    <3>9. Good(i)
      BY <2>5, <3>2, <3>4, <3>5, <3>6, <3>7, <3>8, FindsStep
    <3> QED
      BY <2>3, <3>9
  <2> QED
    BY <2>7, <2>8
<1>8. Good(1)
  <2> HIDE DEF Good
  <2>1. n \in 0..n /\ n + 1 - n = 1
    BY <1>1
  <2> QED
    BY <1>7, <2>1
<1> DEFINE hits == Match(tokens, phrases)
<1>9. /\ hits \in Seq(Nat \X Nat) /\ Finds(hits, tokens, phrases, 1)
  BY <1>1, <1>3, <1>4, <1>8
<1> HIDE DEF hits
<1>10. \A i, j \in DOMAIN tokens : i <= j /\ SubSeq(tokens, i, j) \in phrases =>
          \E k \in DOMAIN hits : hits[k][1] <= j /\ i <= hits[k][2]
  <2>1. DOMAIN tokens = 1..n /\ \A i \in 1..n : 1 <= i
    BY <1>1, LenProperties
  <2> QED
    BY <1>9, <2>1 DEF Finds
<1> QED
  BY <1>9, <1>10 DEF HitsExact, Finds, hits

\* Along a fold from the left: what it does with the last element of a set of places.
FoldsTo(f, n, x, F) ==
    \A s \in SUBSET (1..n) : f[s] = IF s = {} THEN x ELSE F[<<f[s \ {Max(s)}], Max(s)>>]

LEMMA LastOf ==
    ASSUME NEW n \in Nat, NEW s \in SUBSET (1..n), s # {}
    PROVE  /\ Max(s) \in s /\ Max(s) \in 1..n
           /\ \A y \in s : y <= Max(s)
<1>1. s \in SUBSET Nat /\ \A y \in s : y <= n
  OBVIOUS
<1> QED
  BY <1>1, Largest

LEMMA LastOfPrefix ==
    ASSUME NEW k \in Nat \ {0}
    PROVE  Max(1..k) = k /\ (1..k) \ {k} = 1..(k - 1) /\ 1..k # {}
<1>1. 1..k # {} /\ k \in 1..k
  OBVIOUS
<1>2. Max(1..k) \in 1..k /\ \A y \in 1..k : y <= Max(1..k)
  BY <1>1, LastOf
<1>3. k <= Max(1..k) /\ Max(1..k) <= k
  BY <1>1, <1>2
<1>4. Max(1..k) = k
  BY <1>2, <1>3
<1> QED
  BY <1>1, <1>4

LEMMA FoldExists ==
    ASSUME NEW n \in Nat, NEW V, NEW x \in V, NEW F \in [V \X (1..n) -> V]
    PROVE  \E f \in [SUBSET (1..n) -> V] : FoldsTo(f, n, x, F)
<1> DEFINE Has(m) == \E f \in [SUBSET (1..m) -> V] : FoldsTo(f, m, x, F)
           Bad == {m \in 0..n : ~ Has(m)}
<1>1. ASSUME Bad # {} PROVE FALSE
  <2>1. Bad \in SUBSET Nat
    <3> HIDE DEF Has
    <3> QED
      OBVIOUS
  <2> HIDE DEF Bad
  <2>2. PICK m \in Bad : \A k \in Bad : m <= k
    BY <1>1, <2>1, Least
  <2>3. m \in 0..n /\ ~ Has(m)
    BY DEF Bad
  <2>4. m # 0
    <3>1. ASSUME m = 0 PROVE FALSE
      <4>1. SUBSET (1..0) = {{}}
        OBVIOUS
      <4>2. [s \in SUBSET (1..0) |-> x] \in [SUBSET (1..0) -> V]
        OBVIOUS
      <4>3. FoldsTo([s \in SUBSET (1..0) |-> x], 0, x, F)
        BY <4>1 DEF FoldsTo
      <4> QED
        BY <2>3, <3>1, <4>2, <4>3
    <3> QED
      BY <3>1
  <2>5. m - 1 \in 0..n /\ m - 1 \notin Bad
    BY <2>1, <2>2, <2>3, <2>4
  <2>6. PICK f \in [SUBSET (1..(m - 1)) -> V] : FoldsTo(f, m - 1, x, F)
    BY <2>5 DEF Bad
  <2> DEFINE val(s) == IF m \in s THEN F[<<f[s \ {m}], m>>] ELSE f[s]
             g == [s \in SUBSET (1..m) |-> val(s)]
  <2>7. \A s \in SUBSET (1..m) : /\ s \ {m} \in SUBSET (1..(m - 1))
                                 /\ m \notin s => s \in SUBSET (1..(m - 1))
    BY <2>3
  <2>8. m \in 1..n
    BY <2>3, <2>4
  <2>9. \A s \in SUBSET (1..m) : val(s) \in V
    BY <2>6, <2>7, <2>8
  <2>10. ASSUME NEW s \in SUBSET (1..m), s # {}, m \in s
         PROVE  Max(s) = m
    <3>1. Max(s) \in 1..m /\ m <= Max(s)
      BY <2>8, <2>10, LastOf
    <3> QED
      BY <2>8, <3>1
  <2>11. g \in [SUBSET (1..m) -> V] /\ \A s \in SUBSET (1..m) : g[s] = val(s)
    <3> HIDE DEF val
    <3> QED
      BY <2>9
  <2> HIDE DEF g
  <2>12. \A s \in SUBSET (1..(m - 1)) : s \in SUBSET (1..m) /\ m \notin s /\ g[s] = f[s]
    <3>1. \A s \in SUBSET (1..(m - 1)) : s \in SUBSET (1..m) /\ m \notin s
      BY <2>8
    <3> QED
      BY <2>11, <3>1
  <2>13. ASSUME NEW s \in SUBSET (1..m)
         PROVE  g[s] = IF s = {} THEN x ELSE F[<<g[s \ {Max(s)}], Max(s)>>]
    <3>1. CASE m \in s
      <4>1. Max(s) = m /\ s # {}
        BY <2>10, <3>1
      <4>2. g[s \ {m}] = f[s \ {m}]
        BY <2>7, <2>12
      <4>3. g[s] = F[<<f[s \ {m}], m>>]
        BY <2>11, <3>1
      <4> QED
        BY <4>1, <4>2, <4>3
    <3>2. CASE m \notin s
      <4>1. s \in SUBSET (1..(m - 1)) /\ s \ {Max(s)} \in SUBSET (1..(m - 1))
        BY <2>7, <3>2
      <4>2. f[s] = IF s = {} THEN x ELSE F[<<f[s \ {Max(s)}], Max(s)>>]
        BY <2>6, <4>1 DEF FoldsTo
      <4>3. g[s] = f[s] /\ g[s \ {Max(s)}] = f[s \ {Max(s)}]
        BY <2>12, <4>1
      <4> QED
        BY <4>2, <4>3
    <3> QED
      BY <3>1, <3>2
  <2>14. Has(m)
    BY <2>11, <2>13 DEF FoldsTo
  <2> QED
    BY <2>3, <2>14
<1>2. Has(n)
  <2> HIDE DEF Has
  <2> QED
    BY <1>1
<1> QED
  BY <1>2 DEF Has

Same(e, f) == e.text = f.text /\ e.type = f.type

MergeStep(it, e) ==
    IF Len(it.entities) >= MaxEntities \/ \E k \in DOMAIN it.entities : Same(it.entities[k], e)
    THEN it
    ELSE [entities |-> Append(it.entities, e), geo |-> IF it.geo = <<>> THEN e.geo ELSE it.geo]

Merging(f, item, found) ==
    f = [s \in SUBSET DOMAIN found |->
            IF s = {} THEN item ELSE MergeStep(f[s \ {Max(s)}], found[Max(s)])]

\* The definition, with the fold of the community modules made a bound variable.
LEMMA MergeIsChoice ==
    ASSUME NEW item, NEW found
    PROVE  Merge(item, found) = (CHOOSE f : Merging(f, item, found))[DOMAIN found]
  BY DEF Merge, FoldLeft, MapThenFoldSet, Merging, MergeStep, Same

LEMMA MergeStepType ==
    ASSUME NEW E, NEW G, NEW it \in [entities : Seq(E), geo : G], NEW e \in E, e.geo \in G
    PROVE  MergeStep(it, e) \in [entities : Seq(E), geo : G]
<1>1. it.entities \in Seq(E) /\ it.geo \in G
  OBVIOUS
<1>2. Append(it.entities, e) \in Seq(E)
  BY <1>1, AppendProperties
<1>3. [entities |-> Append(it.entities, e), geo |-> IF it.geo = <<>> THEN e.geo ELSE it.geo]
        \in [entities : Seq(E), geo : G]
  BY <1>1, <1>2
<1> QED
  BY <1>3 DEF MergeStep

\* h is what a merge has made of the item after each entity.
MergedBy(h, item, found, V) ==
    /\ h \in [0..Len(found) -> V]
    /\ h[0] = item /\ h[Len(found)] = Merge(item, found)
    /\ \A k \in 1..Len(found) : h[k] = MergeStep(h[k - 1], found[k])

\* A merge goes through the entities one after the other.
LEMMA MergeRuns ==
    ASSUME NEW E, NEW G, \A e \in E : e.geo \in G, NEW item \in [entities : Seq(E), geo : G],
           NEW found \in Seq(E)
    PROVE  \E h : MergedBy(h, item, found, [entities : Seq(E), geo : G])
<1> DEFINE n == Len(found)
           V == [entities : Seq(E), geo : G]
           F == [p \in V \X (1..n) |-> MergeStep(p[1], found[p[2]])]
<1>1. n \in Nat /\ DOMAIN found = 1..n /\ \A k \in 1..n : found[k] \in E
  BY LenProperties, ElementOfSeq
<1>2. item \in V /\ \A v \in V, k \in 1..n : MergeStep(v, found[k]) \in V
  BY <1>1, MergeStepType
<1> HIDE DEF n, V
<1>3. F \in [V \X (1..n) -> V] /\ \A v \in V, k \in 1..n : F[<<v, k>>] = MergeStep(v, found[k])
  BY <1>2
<1> HIDE DEF F
<1>4. PICK f \in [SUBSET (1..n) -> V] : FoldsTo(f, n, item, F)
  BY <1>1, <1>2, <1>3, FoldExists
<1>5. Merging(f, item, found)
  <2>1. ASSUME NEW s \in SUBSET (1..n)
        PROVE  f[s] = IF s = {} THEN item ELSE MergeStep(f[s \ {Max(s)}], found[Max(s)])
    <3>1. f[s] = IF s = {} THEN item ELSE F[<<f[s \ {Max(s)}], Max(s)>>]
      BY <1>4 DEF FoldsTo
    <3>2. s # {} => Max(s) \in 1..n
      BY <1>1, LastOf
    <3>3. f[s \ {Max(s)}] \in V
      BY <1>4
    <3> QED
      BY <1>3, <3>1, <3>2, <3>3
  <2> QED
    BY <1>1, <1>4, <2>1 DEF Merging
<1> DEFINE g == CHOOSE f1 : Merging(f1, item, found)
<1>6. Merging(g, item, found)
  BY <1>5
<1>7. Merge(item, found) = g[1..n]
  BY <1>1, MergeIsChoice
<1> HIDE DEF g
<1>8. \A s \in SUBSET (1..n) :
         g[s] = IF s = {} THEN item ELSE MergeStep(g[s \ {Max(s)}], found[Max(s)])
  BY <1>1, <1>6 DEF Merging
<1> DEFINE h == [k \in 0..n |-> g[1..k]]
<1>9. h[0] = item /\ h[n] = Merge(item, found)
  <2>1. 1..0 = {} /\ {} \in SUBSET (1..n) /\ 0 \in 0..n /\ n \in 0..n
    BY <1>1
  <2>2. h[0] = g[{}] /\ h[n] = g[1..n]
    BY <2>1
  <2> QED
    BY <1>7, <1>8, <2>1, <2>2
<1>10. ASSUME NEW k \in 1..n PROVE h[k] = MergeStep(h[k - 1], found[k])
  <2>1. k \in Nat \ {0} /\ k \in 0..n /\ k - 1 \in 0..n /\ 1..k \in SUBSET (1..n)
    BY <1>1
  <2>2. Max(1..k) = k /\ (1..k) \ {k} = 1..(k - 1) /\ 1..k # {}
    BY <2>1, LastOfPrefix
  <2>3. g[1..k] = MergeStep(g[(1..k) \ {Max(1..k)}], found[Max(1..k)])
    BY <1>8, <2>1, <2>2
  <2>4. g[1..k] = MergeStep(g[1..(k - 1)], found[k])
    BY <2>2, <2>3
  <2> QED
    BY <2>1, <2>4
<1>11. DOMAIN h = 0..n /\ h = [k \in 0..n |-> h[k]]
  OBVIOUS
<1> HIDE DEF h
<1>12. \A k \in 0..n : h[k] \in V
  <2> DEFINE Bad == {k \in 0..n : h[k] \notin V}
  <2>1. ASSUME Bad # {} PROVE FALSE
    <3>1. Bad \in SUBSET Nat
      OBVIOUS
    <3> HIDE DEF Bad
    <3>2. PICK k \in Bad : \A j \in Bad : k <= j
      BY <2>1, <3>1, Least
    <3>3. k \in 0..n /\ h[k] \notin V
      BY DEF Bad
    <3>4. k # 0
      BY <1>2, <1>9, <3>3
    <3>5. k \in 1..n /\ k - 1 \in 0..n /\ k - 1 \notin Bad
      BY <1>1, <3>1, <3>2, <3>3, <3>4
    <3>6. h[k - 1] \in V
      BY <3>5 DEF Bad
    <3> QED
      BY <1>2, <1>10, <3>3, <3>5, <3>6
  <2> QED
    BY <2>1
<1>13. h \in [0..n -> V]
  BY <1>11, <1>12
<1>14. MergedBy(h, item, found, V)
  BY <1>9, <1>10, <1>13 DEF MergedBy, n
<1> QED
  BY <1>14 DEF V

\* b is a after a merge of the first k that were found.
Grown(a, b, found, k) ==
    /\ Len(a.entities) <= Len(b.entities) /\ Len(b.entities) <= MaxEntities
    /\ \A j \in 1..Len(a.entities) : b.entities[j] = a.entities[j]
    /\ \A j \in (Len(a.entities) + 1)..Len(b.entities) :
          /\ \E i \in 1..k : b.entities[j] = found[i]
          /\ \A m \in 1..(j - 1) : ~ Same(b.entities[m], b.entities[j])
    /\ a.geo # <<>> => b.geo = a.geo
    /\ Len(b.entities) < MaxEntities =>
          \A i \in 1..k : \E j \in 1..Len(b.entities) : Same(b.entities[j], found[i])

LEMMA GrownStep ==
    ASSUME NEW E, NEW G, NEW a \in [entities : Seq(E), geo : G],
           NEW b \in [entities : Seq(E), geo : G], NEW found \in Seq(E),
           NEW k \in 1..Len(found), Grown(a, b, found, k - 1)
    PROVE  Grown(a, MergeStep(b, found[k]), found, k)
<1> DEFINE e == found[k]
           full == \/ Len(b.entities) >= MaxEntities
                   \/ \E j \in DOMAIN b.entities : Same(b.entities[j], e)
<1>1. /\ a.entities \in Seq(E) /\ b.entities \in Seq(E) /\ e \in E
      /\ Len(a.entities) \in Nat /\ Len(b.entities) \in Nat
      /\ DOMAIN b.entities = 1..Len(b.entities) /\ Len(found) \in Nat /\ MaxEntities \in Nat
  BY LenProperties, ElementOfSeq, EntitiesAssumption
<1>2. \A i \in 1..k : i = k \/ i \in 1..(k - 1)
  BY <1>1
<1>3. 1..(k - 1) \subseteq 1..k /\ k \in 1..k
  BY <1>1
<1>4. CASE full
  <2>1. MergeStep(b, e) = b
    BY <1>4 DEF MergeStep
  <2>2. Len(b.entities) < MaxEntities => \E j \in 1..Len(b.entities) : Same(b.entities[j], e)
    BY <1>1, <1>4
  <2>3. Grown(a, b, found, k)
    BY <1>2, <1>3, <2>2 DEF Grown
  <2> QED
    BY <2>1, <2>3
<1>5. CASE ~ full
  <2> DEFINE c == MergeStep(b, e)
             l == Len(b.entities) + 1
  <2>1. /\ c.entities = Append(b.entities, e)
        /\ c.geo = IF b.geo = <<>> THEN e.geo ELSE b.geo
    BY <1>5 DEF MergeStep
  <2>2. /\ Len(c.entities) = l /\ c.entities[l] = e
        /\ \A j \in 1..Len(b.entities) : c.entities[j] = b.entities[j]
    BY <1>1, <2>1, AppendProperties
  <2>3. Len(b.entities) < MaxEntities /\ \A j \in 1..Len(b.entities) : ~ Same(b.entities[j], e)
    BY <1>1, <1>5
  <2> HIDE DEF c, full
  <2>4. Len(a.entities) <= l /\ l <= MaxEntities
    BY <1>1, <2>3 DEF Grown
  <2>5. \A j \in 1..Len(a.entities) : c.entities[j] = a.entities[j]
    <3> TAKE j \in 1..Len(a.entities)
    <3>1. j \in 1..Len(b.entities)
      BY <1>1 DEF Grown
    <3> QED
      BY <2>2, <3>1 DEF Grown
  <2>6. ASSUME NEW j \in (Len(a.entities) + 1)..l
        PROVE  /\ \E i \in 1..k : c.entities[j] = found[i]
               /\ \A m \in 1..(j - 1) : ~ Same(c.entities[m], c.entities[j])
    <3>1. CASE j = l
      <4>1. c.entities[j] = e /\ j - 1 = Len(b.entities)
        BY <1>1, <2>2, <3>1
      <4> HIDE DEF l
      <4> QED
        BY <1>3, <2>2, <2>3, <4>1
    <3>2. CASE j # l
      <4>1. j \in (Len(a.entities) + 1)..Len(b.entities) /\ j \in 1..Len(b.entities)
        BY <1>1, <3>2
      <4>2. c.entities[j] = b.entities[j]
        BY <2>2, <4>1
      <4>3. \A m \in 1..(j - 1) : c.entities[m] = b.entities[m]
        BY <1>1, <2>2, <4>1
      <4>4. /\ \E i \in 1..(k - 1) : b.entities[j] = found[i]
            /\ \A m \in 1..(j - 1) : ~ Same(b.entities[m], b.entities[j])
        BY <4>1 DEF Grown
      <4> QED
        BY <1>3, <4>2, <4>3, <4>4
    <3> QED
      BY <3>1, <3>2
  <2>7. a.geo # <<>> => c.geo = a.geo
    BY <2>1 DEF Grown
  <2>8. \A i \in 1..k : \E j \in 1..l : Same(c.entities[j], found[i])
    <3> TAKE i \in 1..k
    <3>1. CASE i = k
      <4>1. l \in 1..l /\ found[i] = e
        BY <1>1, <3>1
      <4>2. Same(c.entities[l], found[i])
        BY <2>2, <4>1 DEF Same
      <4> QED
        BY <4>1, <4>2
    <3>2. CASE i # k
      <4>1. PICK j \in 1..Len(b.entities) : Same(b.entities[j], found[i])
        BY <1>2, <2>3, <3>2 DEF Grown
      <4>2. j \in 1..l /\ c.entities[j] = b.entities[j]
        BY <1>1, <2>2
      <4> QED
        BY <4>1, <4>2
    <3> QED
      BY <3>1, <3>2
  <2>9. Grown(a, c, found, k)
    BY <2>2, <2>4, <2>5, <2>6, <2>7, <2>8 DEF Grown
  <2> QED
    BY <2>9 DEF c
<1> QED
  BY <1>4, <1>5

\* What a merge makes of an Item.
LEMMA MergeIs ==
    ASSUME NEW E, NEW G, \A e \in E : e.geo \in G, NEW item \in [entities : Seq(E), geo : G],
           Len(item.entities) <= MaxEntities, NEW found \in Seq(E)
    PROVE  /\ Merge(item, found) \in [entities : Seq(E), geo : G]
           /\ Grown(item, Merge(item, found), found, Len(found))
<1> DEFINE V == [entities : Seq(E), geo : G]
           n == Len(found)
<1>6. \E h : MergedBy(h, item, found, V)
  BY MergeRuns
<1>1. PICK h : /\ h \in [0..n -> V]
               /\ h[0] = item /\ h[n] = Merge(item, found)
               /\ \A k \in 1..n : h[k] = MergeStep(h[k - 1], found[k])
  <2> PICK g : MergedBy(g, item, found, V)
    BY ONLY <1>6
  <2> QED
    BY DEF MergedBy
<1>2. n \in Nat
  BY LenProperties
<1>3. Grown(item, item, found, 0)
  <2>1. item.entities \in Seq(E)
    OBVIOUS
  <2>2. Len(item.entities) \in Nat
    BY <2>1, LenProperties
  <2> QED
    BY <2>2 DEF Grown
<1> HIDE DEF n, V
<1> DEFINE Bad == {k \in 0..n : ~ Grown(item, h[k], found, k)}
<1>4. ASSUME Bad # {} PROVE FALSE
  <2>1. Bad \in SUBSET Nat
    OBVIOUS
  <2> HIDE DEF Bad
  <2>2. PICK k \in Bad : \A j \in Bad : k <= j
    BY <1>4, <2>1, Least
  <2>3. k \in 0..n /\ ~ Grown(item, h[k], found, k)
    BY DEF Bad
  <2>4. k # 0
    BY <1>1, <1>3, <2>3
  <2>5. k \in 1..n /\ k - 1 \in 0..n /\ k - 1 \notin Bad
    BY <1>2, <2>1, <2>2, <2>3, <2>4
  <2>6. Grown(item, h[k - 1], found, k - 1)
    BY <2>5 DEF Bad
  <2>7. h[k - 1] \in V /\ h[k] = MergeStep(h[k - 1], found[k])
    BY <1>1, <2>5
  <2>8. Grown(item, MergeStep(h[k - 1], found[k]), found, k)
    BY <2>5, <2>6, <2>7, GrownStep DEF V, n
  <2> QED
    BY <2>3, <2>7, <2>8
<1>5. Grown(item, h[n], found, n) /\ h[n] \in V
  BY <1>1, <1>2, <1>4
<1> QED
  BY <1>1, <1>5 DEF n, V

LEMMA PrefixIs ==
    ASSUME NEW E, NEW s, NEW n \in Nat, \A j \in 1..n : s[j] \in E
    PROVE  /\ SubSeq(s, 1, n) \in Seq(E) /\ Len(SubSeq(s, 1, n)) = n
           /\ \A j \in 1..n : SubSeq(s, 1, n)[j] = s[j]
<1>1. /\ SubSeq(s, 1, n) \in Seq(E)
      /\ Len(SubSeq(s, 1, n)) = IF 1 <= n THEN n - 1 + 1 ELSE 0
      /\ \A j \in 1..(n - 1 + 1) : SubSeq(s, 1, n)[j] = s[1 + j - 1]
  <2>1. 1 \in Int /\ n \in Int
    OBVIOUS
  <2> QED
    BY <2>1, SubSeqProperties
<1>2. n - 1 + 1 = n /\ \A j \in 1..n : 1 + j - 1 = j
  OBVIOUS
<1> QED
  BY <1>1, <1>2

\* Gazetteer hits and what NER found, merged into an Item one after the other.
LEMMA MergedIs ==
    ASSUME NEW E, NEW item, DOMAIN item = {"entities", "geo"}, item = [f \in DOMAIN item |-> item[f]],
           item.entities \in Seq(E), Len(item.entities) <= MaxEntities,
           NEW hits \in Seq(E), NEW found \in Seq(E)
    PROVE  MergeExact(item, hits, found, Merge(Merge(item, hits), found))
<1> DEFINE G == {item.geo} \cup {e.geo : e \in E}
           V == [entities : Seq(E), geo : G]
           mid == Merge(item, hits)
           all == Merge(mid, found)
           own == Len(item.entities)
<1>1. item \in V
  <2>1. item.geo \in G
    OBVIOUS
  <2> HIDE DEF G
  <2> QED
    BY <2>1
<1>2. \A e \in E : e.geo \in G
  OBVIOUS
<1> HIDE DEF G
<1>3. mid \in V /\ Grown(item, mid, hits, Len(hits))
  BY <1>1, <1>2, MergeIs
<1> HIDE DEF mid
<1>4. all \in V /\ Grown(mid, all, found, Len(found))
  <2>1. Len(mid.entities) <= MaxEntities
    BY <1>3 DEF Grown
  <2> QED
    BY <1>2, <1>3, <2>1, MergeIs
<1> HIDE DEF all
<1> DEFINE a == item.entities
           m == mid.entities
           r == all.entities
<1>5. a \in Seq(E) /\ m \in Seq(E) /\ r \in Seq(E)
  BY <1>1, <1>3, <1>4
<1>6. /\ Len(a) \in Nat /\ Len(m) \in Nat /\ Len(r) \in Nat /\ Len(hits) \in Nat /\ Len(found) \in Nat
      /\ DOMAIN hits = 1..Len(hits) /\ DOMAIN found = 1..Len(found) /\ DOMAIN r = 1..Len(r)
      /\ MaxEntities \in Nat
  BY <1>5, LenProperties, EntitiesAssumption
<1>7. /\ Len(a) <= Len(m) /\ Len(m) <= MaxEntities
      /\ \A j \in 1..Len(a) : m[j] = a[j]
      /\ \A j \in (Len(a) + 1)..Len(m) :
            /\ \E i \in 1..Len(hits) : m[j] = hits[i]
            /\ \A p \in 1..(j - 1) : ~ Same(m[p], m[j])
      /\ item.geo # <<>> => mid.geo = item.geo
      /\ Len(m) < MaxEntities => \A i \in 1..Len(hits) : \E j \in 1..Len(m) : Same(m[j], hits[i])
  BY <1>3 DEF Grown
<1>8. /\ Len(m) <= Len(r) /\ Len(r) <= MaxEntities
      /\ \A j \in 1..Len(m) : r[j] = m[j]
      /\ \A j \in (Len(m) + 1)..Len(r) :
            /\ \E i \in 1..Len(found) : r[j] = found[i]
            /\ \A p \in 1..(j - 1) : ~ Same(r[p], r[j])
      /\ mid.geo # <<>> => all.geo = mid.geo
      /\ Len(r) < MaxEntities => \A i \in 1..Len(found) : \E j \in 1..Len(r) : Same(r[j], found[i])
  BY <1>4 DEF Grown
<1> HIDE DEF a, m, r
<1>9. IsPrefix(a, r)
  <2>1. \A j \in 1..Len(a) : j \in 1..Len(m) /\ r[j] = a[j]
    BY <1>6, <1>7, <1>8
  <2>2. SubSeq(a, 1, Len(a)) = SubSeq(r, 1, Len(a))
    <3>1. \A j \in 1..Len(a) : a[j] \in E /\ r[j] \in E
      BY <1>5, <2>1, ElementOfSeq
    <3>2. /\ SubSeq(a, 1, Len(a)) \in Seq(E) /\ SubSeq(r, 1, Len(a)) \in Seq(E)
          /\ Len(SubSeq(a, 1, Len(a))) = Len(a) /\ Len(SubSeq(r, 1, Len(a))) = Len(a)
          /\ \A j \in 1..Len(a) : SubSeq(a, 1, Len(a))[j] = a[j] /\ SubSeq(r, 1, Len(a))[j] = r[j]
      <4>1. \A n \in Nat : \A s : (\A j \in 1..n : s[j] \in E) =>
               /\ SubSeq(s, 1, n) \in Seq(E) /\ Len(SubSeq(s, 1, n)) = n
               /\ \A j \in 1..n : SubSeq(s, 1, n)[j] = s[j]
        BY PrefixIs
      <4>2. Len(a) \in Nat /\ (\A j \in 1..Len(a) : a[j] \in E) /\ \A j \in 1..Len(a) : r[j] \in E
        BY <1>6, <3>1
      <4> QED
        BY ONLY <4>1, <4>2
    <3> QED
      BY <2>1, <3>2, SeqEqual
  <2>3. Len(a) <= Len(r)
    BY <1>6, <1>7, <1>8
  <2> QED
    BY <2>2, <2>3 DEF IsPrefix
<1>10. ASSUME NEW j \in (Len(a) + 1)..Len(r)
       PROVE  /\ \A k \in 1..(j - 1) : ~ Same(r[k], r[j])
              /\ \A h \in ToSet(hits) : Same(h, r[j]) =>
                    \E g \in ToSet(hits) : Same(g, h) /\ g.geo = r[j].geo
  <2>1. CASE j \in (Len(a) + 1)..Len(m)
    <3>1. r[j] = m[j] /\ \A k \in 1..(j - 1) : r[k] = m[k]
      BY <1>6, <1>8, <2>1
    <3>2. PICK i \in 1..Len(hits) : m[j] = hits[i]
      BY <1>7, <2>1
    <3>3. r[j] \in ToSet(hits)
      BY <1>6, <3>1, <3>2 DEF ToSet
    <3>4. \A h : Same(h, r[j]) => Same(r[j], h)
      BY DEF Same
    <3> QED
      BY <1>7, <2>1, <3>1, <3>3, <3>4
  <2>2. CASE j \notin (Len(a) + 1)..Len(m)
    <3>1. j \in (Len(m) + 1)..Len(r)
      BY <1>6, <2>2
    <3>2. \A k \in 1..(j - 1) : ~ Same(r[k], r[j])
      BY <1>8, <3>1
    <3>3. Len(m) < MaxEntities /\ \A k \in 1..Len(m) : k \in 1..(j - 1) /\ r[k] = m[k]
      BY <1>6, <1>8, <3>1
    <3>4. ASSUME NEW h \in ToSet(hits), Same(h, r[j]) PROVE FALSE
      <4>1. PICK i \in 1..Len(hits) : h = hits[i]
        BY <1>6 DEF ToSet
      <4>2. PICK k \in 1..Len(m) : Same(m[k], h)
        BY <1>7, <3>3, <4>1
      <4>3. Same(r[k], r[j])
        BY <3>3, <3>4, <4>2 DEF Same
      <4> QED
        BY <3>2, <3>3, <4>3
    <3> QED
      BY <3>2, <3>4
  <2> QED
    BY <2>1, <2>2
<1>11. item.geo # <<>> => all.geo = item.geo
  BY <1>7, <1>8
<1>12. ASSUME Len(r) < MaxEntities, NEW e \in ToSet(hits \o found)
       PROVE  \E f \in ToSet(r) : Same(e, f)
  <2>1. Len(m) < MaxEntities
    BY <1>6, <1>8, <1>12
  <2>2. (\E i \in 1..Len(hits) : e = hits[i]) \/ (\E i \in 1..Len(found) : e = found[i])
    <3>1. /\ hits \o found \in Seq(E) /\ Len(hits \o found) = Len(hits) + Len(found)
          /\ \A i \in 1..(Len(hits) + Len(found)) :
                (hits \o found)[i] = IF i <= Len(hits) THEN hits[i] ELSE found[i - Len(hits)]
      BY ConcatProperties
    <3>2. DOMAIN (hits \o found) = 1..(Len(hits) + Len(found))
      BY <3>1, LenProperties
    <3>3. PICK i \in 1..(Len(hits) + Len(found)) : e = (hits \o found)[i]
      BY <3>2 DEF ToSet
    <3>4. CASE i <= Len(hits)
      <4>1. i \in 1..Len(hits) /\ e = hits[i]
        BY <1>6, <3>1, <3>3, <3>4
      <4> QED
        BY <4>1
    <3>5. CASE ~ i <= Len(hits)
      <4>1. i - Len(hits) \in 1..Len(found) /\ e = found[i - Len(hits)]
        BY <1>6, <3>1, <3>3, <3>5
      <4> QED
        BY <4>1
    <3> QED
      BY <3>4, <3>5
  <2>3. \E j \in 1..Len(r) : Same(r[j], e)
    <3>1. CASE \E i \in 1..Len(hits) : e = hits[i]
      <4>1. PICK j \in 1..Len(m) : Same(m[j], e)
        BY <1>7, <2>1, <3>1
      <4>2. j \in 1..Len(r) /\ r[j] = m[j]
        BY <1>6, <1>8
      <4> QED
        BY <4>1, <4>2
    <3>2. CASE \E i \in 1..Len(found) : e = found[i]
      BY <1>8, <1>12, <3>2
    <3> QED
      BY <2>2, <3>1, <3>2
  <2>4. PICK j \in 1..Len(r) : Same(r[j], e)
    BY <2>3
  <2>5. r[j] \in ToSet(r) /\ Same(e, r[j])
    BY <1>6, <2>4 DEF ToSet, Same
  <2> QED
    BY <2>5
<1>13. /\ Len(r) <= MaxEntities /\ IsPrefix(a, r)
       /\ \A j \in (Len(a) + 1)..Len(r) :
             /\ \A k \in 1..(j - 1) : ~ Same(r[k], r[j])
             /\ \A h \in ToSet(hits) : Same(h, r[j]) =>
                    \E g \in ToSet(hits) : Same(g, h) /\ g.geo = r[j].geo
       /\ item.geo # <<>> => all.geo = item.geo
       /\ Len(r) < MaxEntities => \A e \in ToSet(hits \o found) : \E f \in ToSet(r) : Same(e, f)
  BY <1>8, <1>9, <1>10, <1>11, <1>12
<1> QED
  BY <1>13 DEF MergeExact, Same, a, r, all, mid

LEMMA Power2Is ==
    /\ Power2[0] = 1
    /\ \A k \in 1..Bits : Power2[k] = 2 * Power2[k - 1]
    /\ \A k \in 0..Bits : Power2[k] \in Nat \ {0}
<1>0. Bits \in Nat \ {0}
  BY BitsAssumption
<1> DEFINE n == Bits + 1
           F == [q \in (1..n) \X Int |-> 2 * q[2]]
           Is(p) == p = [k \in 0..Bits |-> IF k = 0 THEN 1 ELSE 2 * p[k - 1]]
<1>1. F \in [(1..n) \X Int -> Int] /\ \A i \in 1..n, v \in Int : F[<<i, v>>] = 2 * v
  OBVIOUS
<1>2. n \in Nat
  BY <1>0
<1> HIDE DEF F
<1>3. PICK h \in [1..n -> Int] : \A i \in 1..n : h[i] = IF i = 1 THEN 1 ELSE F[<<i, h[i - 1]>>]
  <2>1. \A x \in Int : \A G \in [(1..n) \X Int -> Int] : \E h \in [1..n -> Int] :
            \A i \in 1..n : h[i] = IF i = 1 THEN x ELSE G[<<i, h[i - 1]>>]
    BY <1>2, Unfolds
  <2>2. 1 \in Int /\ F \in [(1..n) \X Int -> Int]
    BY <1>1
  <2> QED
    BY ONLY <2>1, <2>2, Zenon
<1> DEFINE p == [k \in 0..Bits |-> h[k + 1]]
<1>4. Is(p)
  <2>1. ASSUME NEW k \in 0..Bits PROVE p[k] = IF k = 0 THEN 1 ELSE 2 * p[k - 1]
    <3>1. k + 1 \in 1..n /\ p[k] = h[k + 1]
      BY <1>0
    <3>2. CASE k = 0
      <4>1. h[1] = 1 /\ k + 1 = 1
        <5>1. 1 \in 1..n
          BY <1>0
        <5>2. h[1] = IF 1 = 1 THEN 1 ELSE F[<<1, h[1 - 1]>>]
          BY ONLY <1>3, <5>1, Zenon
        <5>3. k + 1 = 1
          BY <3>2
        <5> QED
          BY ONLY <5>2, <5>3
      <4> QED
        BY <3>1, <3>2, <4>1
    <3>3. CASE k # 0
      <4>1. k - 1 \in 0..Bits /\ k - 1 + 1 = k /\ k \in 1..n /\ k + 1 # 1 /\ k + 1 - 1 = k
        BY <1>0, <3>3
      <4>2. h[k + 1] = F[<<k + 1, h[k]>>] /\ h[k] \in Int
        BY <1>3, <3>1, <4>1
      <4>3. p[k - 1] = h[k]
        BY <4>1
      <4> QED
        BY <1>1, <3>1, <3>3, <4>2, <4>3
    <3> QED
      BY <3>2, <3>3
  <2>2. p = [k \in 0..Bits |-> p[k]]
    OBVIOUS
  <2> HIDE DEF p
  <2> QED
    BY <2>1, <2>2
<1> HIDE DEF p
<1>5. Power2 = CHOOSE q : Is(q)
  BY DEF Power2
<1>6. Is(Power2)
  <2> HIDE DEF Is
  <2> QED
    BY <1>4, <1>5
<1>7. \A k \in 0..Bits : Power2[k] = IF k = 0 THEN 1 ELSE 2 * Power2[k - 1]
  BY <1>6
<1> HIDE DEF Is
<1>8. Power2[0] = 1 /\ \A k \in 1..Bits : Power2[k] = 2 * Power2[k - 1]
  BY <1>0, <1>7
<1> DEFINE Bad == {k \in 0..Bits : Power2[k] \notin Nat \ {0}}
<1>9. ASSUME Bad # {} PROVE FALSE
  <2>1. Bad \in SUBSET Nat
    OBVIOUS
  <2> HIDE DEF Bad
  <2>2. PICK k \in Bad : \A j \in Bad : k <= j
    BY <1>9, <2>1, Least
  <2>3. k \in 0..Bits /\ Power2[k] \notin Nat \ {0}
    BY DEF Bad
  <2>4. k # 0
    BY <1>8, <2>3
  <2>5. k \in 1..Bits /\ k - 1 \in 0..Bits /\ k - 1 \notin Bad
    BY <1>0, <2>1, <2>2, <2>3, <2>4
  <2>6. Power2[k - 1] \in Nat \ {0}
    BY <2>5 DEF Bad
  <2> QED
    BY <1>8, <2>3, <2>5, <2>6
<1> QED
  BY <1>8, <1>9

LEMMA PowerSplit ==
    ASSUME NEW S, IsFiniteSet(S), \A x \in S : Power2[x] \in Int, NEW e \in S
    PROVE  Sum(Power2, S) = Power2[e] + Sum(Power2, S \ {e})
<1>1. PICK q : q = Power2
  OBVIOUS
<1>2. \A x \in S : q[x] \in Int
  BY <1>1
<1>3. Sum(q, S) = q[e] + Sum(q, S \ {e})
  BY <1>2, SumSplit
<1> QED
  BY <1>1, <1>3

\* The bits below m, all set.
LEMMA AllOnes == \A m \in 0..Bits : Sum(Power2, 0..(m - 1)) = Power2[m] - 1
<1>0. Bits \in Nat \ {0}
  BY BitsAssumption
<1> DEFINE Bad == {m \in 0..Bits : Sum(Power2, 0..(m - 1)) # Power2[m] - 1}
<1>1. ASSUME Bad # {} PROVE FALSE
  <2>1. Bad \in SUBSET Nat
    OBVIOUS
  <2> HIDE DEF Bad
  <2>2. PICK m \in Bad : \A j \in Bad : m <= j
    BY <1>1, <2>1, Least
  <2>3. m \in 0..Bits /\ Sum(Power2, 0..(m - 1)) # Power2[m] - 1
    BY DEF Bad
  <2>4. m # 0
    <3>1. ASSUME m = 0 PROVE FALSE
      <4>1. 0..(m - 1) = {}
        BY <3>1
      <4>2. Sum(Power2, {}) = 0
        BY EmptySum
      <4> QED
        BY <2>3, <3>1, <4>1, <4>2, Power2Is
    <3> QED
      BY <3>1
  <2>5. m \in 1..Bits /\ m - 1 \in 0..Bits /\ m - 1 \notin Bad
    BY <1>0, <2>1, <2>2, <2>3, <2>4
  <2>6. Sum(Power2, 0..(m - 2)) = Power2[m - 1] - 1
    <3>1. m - 1 - 1 = m - 2
      BY <2>5
    <3>2. Sum(Power2, 0..(m - 1 - 1)) = Power2[m - 1] - 1
      BY <2>5 DEF Bad
    <3> QED
      BY <3>1, <3>2
  <2> DEFINE S == 0..(m - 1)
  <2>7. IsFiniteSet(S) /\ m - 1 \in S /\ S \ {m - 1} = 0..(m - 2) /\ S \subseteq 0..Bits
    <3>1. IsFiniteSet(0..(m - 1))
      BY <2>5, FS_Interval
    <3>2. m - 1 \in 0..(m - 1) /\ (0..(m - 1)) \ {m - 1} = 0..(m - 2) /\ 0..(m - 1) \subseteq 0..Bits
      BY <1>0, <2>5
    <3> QED
      BY <3>1, <3>2
  <2>8. \A x \in S : Power2[x] \in Int
    BY <2>7, Power2Is
  <2> HIDE DEF S
  <2>9. Sum(Power2, S) = Power2[m - 1] + Sum(Power2, S \ {m - 1})
    <3>1. \A x \in S : Power2[x] \in Int
      BY <2>8
    <3> QED
      BY ONLY <2>7, <3>1, PowerSplit
  <2>10. Power2[m] = 2 * Power2[m - 1] /\ Power2[m - 1] \in Nat
    BY <2>5, Power2Is
  <2>11. Sum(Power2, S) = Power2[m] - 1
    <3>1. Sum(Power2, S) = Power2[m - 1] + (Power2[m - 1] - 1)
      BY <2>6, <2>7, <2>9
    <3> QED
      BY <2>10, <3>1
  <2> QED
    BY <2>3, <2>11 DEF S
<1> QED
  BY <1>1

\* A fingerprint is a number of Bits bits.
LEMMA SimhashIs ==
    ASSUME NEW feats, NEW hash
    PROVE  Simhash(feats, hash) \in 0..(Power2[Bits] - 1)
<1> DEFINE S == {b \in 0..(Bits - 1) :
                    2 * Cardinality({k \in DOMAIN feats : b \in hash[feats[k]]}) > Len(feats)}
           all == 0..(Bits - 1)
<1>0. Bits \in Nat \ {0}
  BY BitsAssumption
<1>1. Simhash(feats, hash) = Sum(Power2, S)
  BY DEF Simhash, Sum
<1>2. S \in SUBSET all
  OBVIOUS
<1> HIDE DEF S
<1>3. IsFiniteSet(all) /\ all \subseteq 0..Bits
  BY <1>0, FS_Interval
<1>4. \A x \in all : Power2[x] \in Nat
  BY <1>3, Power2Is
<1>5. Sum(Power2, all) = Power2[Bits] - 1
  BY <1>0, AllOnes
<1> HIDE DEF all
<1>6. Sum(Power2, S) \in Nat /\ Sum(Power2, S) <= Sum(Power2, all) /\ Sum(Power2, all) \in Nat
  BY <1>2, <1>3, <1>4, SumBelow
<1> QED
  BY <1>1, <1>5, <1>6

\* What is stored as a bigint fits one and comes back as it was.
LEMMA SignedIs ==
    ASSUME NEW v \in 0..(Power2[Bits] - 1)
    PROVE  /\ ToSigned(v) \in (- Power2[Bits - 1])..(Power2[Bits - 1] - 1)
           /\ FromSigned(ToSigned(v)) = v
<1>1. /\ Power2[Bits] = 2 * Power2[Bits - 1] /\ Power2[Bits - 1] \in Nat /\ Power2[Bits] \in Nat
  <2>1. Bits \in 1..Bits /\ Bits - 1 \in 0..Bits /\ Bits \in 0..Bits
    BY BitsAssumption
  <2> QED
    BY <2>1, Power2Is
<1> DEFINE H == Power2[Bits - 1]
           T == Power2[Bits]
<1>2. H \in Nat /\ T = 2 * H /\ v \in 0..(T - 1)
  BY <1>1
<1> HIDE DEF H, T
<1>3. /\ (IF v >= H THEN v - T ELSE v) \in (- H)..(H - 1)
      /\ \A w : w = (IF v >= H THEN v - T ELSE v) => (IF w < 0 THEN w + T ELSE w) = v
  BY <1>2
<1> QED
  BY <1>3 DEF ToSigned, FromSigned, H, T

----------------------------------------------------------------------------
(* Words and their pieces                                                  *)

\* The characters from i to j are a whole run.
Run(text, i, j) ==
    /\ \A k \in i..j : InWord(text[k])
    /\ i = 1 \/ ~ InWord(text[i - 1])
    /\ j = Len(text) \/ ~ InWord(text[j + 1])

WordSet(text) ==
    {w \in (1..Len(text)) \X (1..Len(text)) :
        w[1] <= w[2] /\ (Run(text, w[1], w[2]) \/ (w[1] = w[2] /\ Alone(text[w[1]])))}

\* What holds of the words of a text: they are apart, in order, and cover what is no space.
Cuts(W, text) ==
    /\ W \in Seq(Nat \X Nat) /\ Len(W) \in Nat /\ DOMAIN W = 1..Len(W)
    /\ \A k \in 1..Len(W) :
          /\ W[k][1] \in 1..Len(text) /\ W[k][2] \in 1..Len(text) /\ W[k][1] <= W[k][2]
          /\ \A p \in W[k][1]..W[k][2] : Class[text[p]] # "space"
    /\ \A j, k \in 1..Len(W) : j < k => W[j][2] < W[k][1]
    /\ \A p \in 1..Len(text) :
          Class[text[p]] # "space" => \E k \in 1..Len(W) : p \in W[k][1]..W[k][2]

\* Two words do not share a character.
LEMMA WordsApart ==
    ASSUME NEW text, Len(text) \in Nat, NEW v \in WordSet(text), NEW w \in WordSet(text), v # w
    PROVE  v[2] < w[1] \/ w[2] < v[1]
<1> DEFINE n == Len(text)
<1>1. PICK a \in 1..n, b \in 1..n : v = <<a, b>> /\ a <= b /\ (Run(text, a, b) \/ (a = b /\ Alone(text[a])))
  BY DEF WordSet
<1>2. PICK c \in 1..n, d \in 1..n : w = <<c, d>> /\ c <= d /\ (Run(text, c, d) \/ (c = d /\ Alone(text[c])))
  BY DEF WordSet
<1>3. \A x : ~ (Alone(x) /\ InWord(x))
  BY DEF Alone, InWord
<1>4. ASSUME c <= b, a <= d PROVE FALSE
  <2>1. a # c \/ b # d
    BY <1>1, <1>2
  <2>2. CASE Run(text, a, b) /\ Run(text, c, d)
    <3>1. a < c => c - 1 \in a..b /\ c # 1
      BY <1>1, <1>2, <1>4
    <3>2. c < a => a - 1 \in c..d /\ a # 1
      BY <1>1, <1>2, <1>4
    <3>3. a = c
      BY <1>1, <1>2, <2>2, <3>1, <3>2 DEF Run
    <3>4. b < d => b + 1 \in c..d /\ b # n
      BY <1>1, <1>2, <1>4
    <3>5. d < b => d + 1 \in a..b /\ d # n
      BY <1>1, <1>2, <1>4
    <3> QED
      BY <1>1, <1>2, <2>1, <2>2, <3>3, <3>4, <3>5 DEF Run
  <2>3. CASE a = b /\ Alone(text[a])
    <3>1. a \in c..d /\ (c = d => a = c)
      BY <1>1, <1>2, <1>4, <2>3
    <3> QED
      BY <1>2, <1>3, <2>1, <2>3, <3>1 DEF Run
  <2>4. CASE c = d /\ Alone(text[c])
    <3>1. c \in a..b /\ (a = b => a = c)
      BY <1>1, <1>2, <1>4, <2>4
    <3> QED
      BY <1>1, <1>3, <2>1, <2>4, <3>1 DEF Run
  <2> QED
    BY <1>1, <1>2, <2>2, <2>3, <2>4
<1> QED
  BY <1>1, <1>2, <1>4

\* A character that is no space is in a word.
LEMMA WordsCover ==
    ASSUME NEW text, Len(text) \in Nat, NEW p \in 1..Len(text), InWord(text[p]) \/ Alone(text[p])
    PROVE  \E w \in WordSet(text) : p \in w[1]..w[2]
<1> DEFINE n == Len(text)
<1>0. n \in Nat /\ p \in 1..n
  OBVIOUS
<1>1. CASE Alone(text[p])
  <2>1. <<p, p>> \in WordSet(text)
    BY <1>0, <1>1 DEF WordSet
  <2> QED
    BY <2>1
<1>2. CASE InWord(text[p])
  <2> DEFINE L == {i \in 1..p : \A k \in i..p : InWord(text[k])}
             H == {j \in p..n : \A k \in p..j : InWord(text[k])}
  <2>0. p \in Nat /\ p \in 1..p /\ p \in p..n /\ \A k \in p..p : k = p
    BY <1>0
  <2>1. p \in L /\ L \in SUBSET Nat /\ L # {}
    BY <1>2, <2>0
  <2>2. p \in H /\ H \in SUBSET Nat /\ H # {} /\ \A j \in H : j <= n
    BY <1>0, <1>2
  <2>3. /\ \A i : i \in L <=> i \in 1..p /\ \A k \in i..p : InWord(text[k])
        /\ \A j : j \in H <=> j \in p..n /\ \A k \in p..j : InWord(text[k])
    OBVIOUS
  <2> HIDE DEF L, H, n
  <2>4. PICK i \in L : \A x \in L : i <= x
    BY <2>1, Least
  <2>5. PICK j \in H : \A x \in H : x <= j
    BY <1>0, <2>2, Largest
  <2>6. i \in 1..p /\ j \in p..n
    BY <2>3
  <2>7. \A k \in i..j : InWord(text[k])
    <3>1. \A k \in i..j : k \in i..p \/ k \in p..j
      BY <1>0, <2>6
    <3> QED
      BY <2>3, <3>1
  <2>8. i = 1 \/ ~ InWord(text[i - 1])
    <3>1. ASSUME i # 1, InWord(text[i - 1]) PROVE FALSE
      <4>1. i - 1 \in 1..p /\ \A k \in (i - 1)..p : k = i - 1 \/ k \in i..p
        BY <1>0, <2>6, <3>1
      <4>2. i - 1 \in L
        BY <2>3, <3>1, <4>1
      <4> QED
        BY <2>4, <2>6, <4>2
    <3> QED
      BY <3>1
  <2>9. j = n \/ ~ InWord(text[j + 1])
    <3>1. ASSUME j # n, InWord(text[j + 1]) PROVE FALSE
      <4>1. j + 1 \in p..n /\ \A k \in p..(j + 1) : k = j + 1 \/ k \in p..j
        BY <1>0, <2>6, <3>1
      <4>2. j + 1 \in H
        BY <2>3, <3>1, <4>1
      <4> QED
        BY <1>0, <2>5, <2>6, <4>2
    <3> QED
      BY <3>1
  <2>10. Run(text, i, j)
    BY <2>7, <2>8, <2>9 DEF Run, n
  <2>11. i \in 1..n /\ j \in 1..n /\ i <= j /\ p \in i..j
    BY <1>0, <2>6
  <2>12. <<i, j>> \in WordSet(text)
    BY <2>10, <2>11 DEF WordSet, n
  <2> QED
    BY <2>11, <2>12
<1> QED
  BY <1>1, <1>2

LEMMA WordsAre ==
    ASSUME NEW text \in Seq(DOMAIN Class)
    PROVE  Cuts(Words(text), text)
<1> DEFINE n == Len(text)
           S == WordSet(text)
           before == {p \in S \X S : p[1][1] < p[2][1]}
           W == Words(text)
<1>1. n \in Nat /\ \A k \in 1..n : text[k] \in DOMAIN Class
  BY LenProperties, ElementOfSeq
<1>2. W = InOrder(S, before)
  BY DEF Words, WordSet, Run
<1>3. \A s \in S : /\ s \in (1..n) \X (1..n) /\ s[1] \in Nat /\ s[2] \in Nat /\ s[1] <= s[2]
                   /\ (Run(text, s[1], s[2]) \/ (s[1] = s[2] /\ Alone(text[s[1]])))
  BY DEF WordSet
<1>4. IsFiniteSet(S)
  <2>1. IsFiniteSet(1..n)
    <3>1. \A k \in Nat : IsFiniteSet(1..k)
      BY FS_Interval
    <3> QED
      BY <1>1, <3>1
  <2>2. IsFiniteSet((1..n) \X (1..n))
    BY <2>1, FS_Product
  <2> QED
    BY <1>3, <2>2, FS_Subset
<1>5. \A v, w \in S : v # w => v[2] < w[1] \/ w[2] < v[1]
  BY <1>1, WordsApart
<1>6. \A p \in 1..n : InWord(text[p]) \/ Alone(text[p]) => \E w \in S : p \in w[1]..w[2]
  BY <1>1, WordsCover
<1> HIDE DEF S, W, n
<1>7. \A v, w : <<v, w>> \in before <=> v \in S /\ w \in S /\ v[1] < w[1]
  OBVIOUS
<1> HIDE DEF before
<1>8. Orders(before, S)
  <2>1. \A s \in S : <<s, s>> \notin before
    BY <1>3, <1>7
  <2>2. \A s, t \in S : s # t => <<s, t>> \in before \/ <<t, s>> \in before
    <3>1. ASSUME NEW s \in S, NEW t \in S, s # t PROVE s[1] < t[1] \/ t[1] < s[1]
      BY <1>3, <1>5, <3>1
    <3> QED
      BY <1>7, <3>1
  <2>3. \A s, t, u \in S : <<s, t>> \in before /\ <<t, u>> \in before => <<s, u>> \in before
    <3>1. ASSUME NEW s \in S, NEW t \in S, NEW u \in S, s[1] < t[1], t[1] < u[1] PROVE s[1] < u[1]
      BY <1>3, <3>1
    <3> QED
      BY <1>7, <3>1
  <2> QED
    BY <2>1, <2>2, <2>3 DEF Orders
<1> DEFINE m == Cardinality(S)
<1>9. /\ m \in Nat /\ W \in [1..m -> S]
      /\ \A i, j \in 1..m : i < j => <<W[i], W[j]>> \in before
      /\ \A s \in S : \E i \in 1..m : W[i] = s
  BY <1>2, <1>4, <1>8, InOrderIs
<1> HIDE DEF m
<1>10. W \in Seq(Nat \X Nat) /\ Len(W) = m /\ DOMAIN W = 1..m
  <2>1. \A s \in S : s \in Nat \X Nat
    BY <1>3
  <2>2. W \in [1..m -> Nat \X Nat]
    BY <1>9, <2>1
  <2> QED
    BY <1>9, <2>2
<1>11. ASSUME NEW k \in 1..m
       PROVE  /\ W[k][1] \in 1..n /\ W[k][2] \in 1..n /\ W[k][1] <= W[k][2]
              /\ \A p \in W[k][1]..W[k][2] : Class[text[p]] # "space"
  <2>1. W[k] \in S
    BY <1>9
  <2>2. W[k][1] \in 1..n /\ W[k][2] \in 1..n /\ W[k][1] <= W[k][2]
    BY <1>3, <2>1
  <2>3. ASSUME NEW p \in W[k][1]..W[k][2] PROVE Class[text[p]] # "space"
    <3>1. CASE Run(text, W[k][1], W[k][2])
      BY <2>3, <3>1 DEF Run, InWord
    <3>2. CASE W[k][1] = W[k][2] /\ Alone(text[W[k][1]])
      <4>1. p = W[k][1]
        BY <2>2, <2>3, <3>2
      <4> QED
        BY <3>2, <4>1 DEF Alone
    <3> QED
      BY <1>3, <2>1, <3>1, <3>2
  <2> QED
    BY <2>2, <2>3
<1>12. ASSUME NEW j \in 1..m, NEW k \in 1..m, j < k PROVE W[j][2] < W[k][1]
  <2>1. W[j] \in S /\ W[k] \in S /\ W[j][1] < W[k][1]
    BY <1>7, <1>9, <1>12
  <2>2. W[j][1] \in Nat /\ W[k][1] \in Nat /\ W[k][2] \in Nat /\ W[k][1] <= W[k][2]
    BY <1>3, <2>1
  <2>3. W[j] # W[k]
    BY <2>1, <2>2
  <2> QED
    BY <1>5, <2>1, <2>2, <2>3
<1>13. ASSUME NEW p \in 1..n, Class[text[p]] # "space"
       PROVE  \E k \in 1..m : p \in W[k][1]..W[k][2]
  <2>1. Class[text[p]] \in {"space", "punct", "cjk", "word"}
    BY <1>1, CharactersAssumption
  <2>2. PICK w \in S : p \in w[1]..w[2]
    BY <1>6, <1>13, <2>1 DEF InWord, Alone
  <2> QED
    BY <1>9, <2>2
<1>14. Cuts(W, text)
  BY <1>9, <1>10, <1>11, <1>12, <1>13 DEF Cuts, n
<1> QED
  BY <1>14 DEF W

\* h goes along 0..n, each value from the one before.
Goes(h, n, x, F) == h[0] = x /\ \A k \in 1..n : h[k] = F[<<k, h[k - 1]>>]

LEMMA StepsExist ==
    ASSUME NEW n \in Nat, NEW V, NEW x \in V, NEW F \in [(1..n) \X V -> V]
    PROVE  \E h \in [0..n -> V] : Goes(h, n, x, F)
<1> DEFINE Has(m) == \E h \in [0..m -> V] : h[0] = x /\ \A k \in 1..m : h[k] = F[<<k, h[k - 1]>>]
           Bad == {m \in 0..n : ~ Has(m)}
<1>1. ASSUME Bad # {} PROVE FALSE
  <2>1. Bad \in SUBSET Nat
    <3> HIDE DEF Has
    <3> QED
      OBVIOUS
  <2> HIDE DEF Bad
  <2>2. PICK m \in Bad : \A k \in Bad : m <= k
    BY <1>1, <2>1, Least
  <2>3. m \in 0..n /\ ~ Has(m)
    BY DEF Bad
  <2>4. m # 0
    <3>1. ASSUME m = 0 PROVE FALSE
      <4>1. PICK c : c = [k \in 0..0 |-> x]
        OBVIOUS
      <4>2. c \in [0..0 -> V] /\ c[0] = x /\ 1..0 = {}
        BY <4>1
      <4>3. Has(0)
        BY <4>2
      <4> QED
        BY <2>3, <3>1, <4>3
    <3> QED
      BY <3>1
  <2>5. m - 1 \in 0..n /\ m - 1 \notin Bad
    BY <2>1, <2>2, <2>3, <2>4
  <2>6. PICK h \in [0..(m - 1) -> V] :
            h[0] = x /\ \A k \in 1..(m - 1) : h[k] = F[<<k, h[k - 1]>>]
    BY <2>5 DEF Bad
  <2> DEFINE last == F[<<m, h[m - 1]>>]
             g == [k \in 0..m |-> IF k = m THEN last ELSE h[k]]
  <2>7. last \in V
    <3>1. m \in 1..n /\ m - 1 \in 0..(m - 1)
      BY <2>3, <2>4
    <3>2. <<m, h[m - 1]>> \in (1..n) \X V
      BY <2>6, <3>1
    <3> QED
      BY <3>2
  <2> HIDE DEF last
  <2>8. g \in [0..m -> V] /\ g[m] = last /\ \A k \in 0..(m - 1) : g[k] = h[k]
    <3>1. \A k \in 0..m : k = m \/ k \in 0..(m - 1)
      BY <2>3
    <3>2. m \in 0..m /\ \A k \in 0..(m - 1) : k \in 0..m /\ k # m
      BY <2>3, <2>4
    <3>3. \A k \in 0..m : (IF k = m THEN last ELSE h[k]) \in V
      BY <2>6, <2>7, <3>1
    <3> QED
      BY <3>2, <3>3
  <2> HIDE DEF g
  <2>9. ASSUME NEW k \in 1..m PROVE g[k] = F[<<k, g[k - 1]>>]
    <3>1. k - 1 \in 0..(m - 1)
      BY <2>3
    <3>2. g[k - 1] = h[k - 1]
      BY <2>8, <3>1
    <3>3. CASE k = m
      BY <2>8, <3>2, <3>3 DEF last
    <3>4. CASE k # m
      <4>1. k \in 1..(m - 1) /\ k \in 0..(m - 1)
        BY <2>3, <3>4
      <4> QED
        BY <2>6, <2>8, <3>2, <4>1
    <3> QED
      BY <3>3, <3>4
  <2>10. 0 \in 0..(m - 1)
    BY <2>3, <2>4
  <2>11. g[0] = x
    BY <2>6, <2>8, <2>10
  <2>12. Has(m)
    BY <2>8, <2>9, <2>11
  <2> QED
    BY <2>3, <2>12
<1>2. Has(n)
  <2> HIDE DEF Has
  <2> QED
    BY <1>1
<1> QED
  BY <1>2 DEF Goes

\* f is the recursive function that FlattenSeq declares.
Flattens(f, seqs) ==
    f = [i \in 1..Len(seqs) |-> IF i = 1 THEN seqs[i] ELSE f[i - 1] \o seqs[i]]

LEMMA FlattenIsChoice ==
    ASSUME NEW seqs
    PROVE  FlattenSeq(seqs) = IF Len(seqs) = 0 THEN seqs
                              ELSE (CHOOSE f : Flattens(f, seqs))[Len(seqs)]
  BY DEF FlattenSeq, Flattens

\* h follows seqs: it holds what the first k of them make, one after the other.
Laid(h, seqs, V) ==
    /\ h \in [0..Len(seqs) -> Seq(V)]
    /\ h[0] = <<>>
    /\ \A k \in 1..Len(seqs) : h[k] = h[k - 1] \o seqs[k]

LEMMA LaidOut ==
    ASSUME NEW V, NEW seqs \in Seq(Seq(V))
    PROVE  \E h : Laid(h, seqs, V)
<1> DEFINE n == Len(seqs)
           S == Seq(V)
           F == [p \in (1..n) \X S |-> p[2] \o seqs[p[1]]]
<1>1. n \in Nat /\ \A k \in 1..n : seqs[k] \in S
  BY LenProperties, ElementOfSeq
<1>2. <<>> \in S
  BY EmptySeq
<1>3. \A k \in 1..n, v \in S : v \o seqs[k] \in S
  BY <1>1, ConcatProperties
<1> HIDE DEF n, S
<1>4. F \in [(1..n) \X S -> S] /\ \A k \in 1..n, v \in S : F[<<k, v>>] = v \o seqs[k]
  BY <1>3
<1> HIDE DEF F
<1>5. PICK h \in [0..n -> S] : Goes(h, n, <<>>, F)
  BY <1>1, <1>2, <1>4, StepsExist
<1>6. ASSUME NEW k \in 1..n PROVE h[k] = h[k - 1] \o seqs[k]
  <2>1. k - 1 \in 0..n
    BY <1>1
  <2> QED
    BY <1>4, <1>5, <2>1 DEF Goes
<1> QED
  BY <1>5, <1>6 DEF Goes, Laid, n, S

LEMMA FlattenIs ==
    ASSUME NEW V, NEW seqs \in Seq(Seq(V)), NEW h, Laid(h, seqs, V)
    PROVE  FlattenSeq(seqs) = h[Len(seqs)]
<1> DEFINE n == Len(seqs)
           f == [i \in 1..n |-> h[i]]
           g == CHOOSE q : Flattens(q, seqs)
<1>1. n \in Nat /\ \A k \in 1..n : seqs[k] \in Seq(V)
  BY LenProperties, ElementOfSeq
<1>2. CASE n = 0
  <2>1. seqs = <<>>
    BY <1>2, EmptySeq
  <2> QED
    BY <1>2, <2>1, FlattenIsChoice DEF Laid
<1>3. CASE n # 0
  <2>1. ASSUME NEW i \in 1..n PROVE h[i] = IF i = 1 THEN seqs[i] ELSE f[i - 1] \o seqs[i]
    <3>1. h[i] = h[i - 1] \o seqs[i] /\ h[0] = <<>>
      BY DEF Laid
    <3>2. <<>> \o seqs[i] = seqs[i]
      BY <1>1, ConcatEmptySeq
    <3>3. i # 1 => f[i - 1] = h[i - 1]
      <4>1. i # 1 => i - 1 \in 1..n
        BY <1>1
      <4> HIDE DEF n
      <4> QED
        BY <4>1
    <3>4. i = 1 => i - 1 = 0
      OBVIOUS
    <3> HIDE DEF n, f
    <3> QED
      BY <3>1, <3>2, <3>3, <3>4
  <2>2. Flattens(f, seqs)
    BY <2>1 DEF Flattens
  <2>3. Flattens(g, seqs)
    BY <2>2
  <2> HIDE DEF f, g
  <2>4. \A i \in 1..n : g[i] = IF i = 1 THEN seqs[i] ELSE g[i - 1] \o seqs[i]
    BY <2>3 DEF Flattens
  <2> HIDE DEF n
  <2> DEFINE Bad == {i \in 1..n : g[i] # h[i]}
  <2>5. ASSUME Bad # {} PROVE FALSE
    <3>1. Bad \in SUBSET Nat
      OBVIOUS
    <3> HIDE DEF Bad
    <3>2. PICK i \in Bad : \A j \in Bad : i <= j
      BY <2>5, <3>1, Least
    <3>3. i \in 1..n /\ g[i] # h[i]
      BY DEF Bad
    <3>4. i # 1 => i - 1 \in 1..n /\ i - 1 \notin Bad
      BY <1>1, <3>1, <3>2, <3>3
    <3>5. i # 1 => g[i - 1] = h[i - 1]
      BY <3>4 DEF Bad
    <3>6. h[i] = IF i = 1 THEN seqs[i] ELSE h[i - 1] \o seqs[i]
      BY <2>1, <3>3, <3>4 DEF f
    <3> QED
      BY <2>4, <3>3, <3>5, <3>6
  <2>6. g[n] = h[n]
    BY <1>1, <1>3, <2>5
  <2> QED
    BY <1>3, <2>6, FlattenIsChoice DEF n, g
<1> QED
  BY <1>2, <1>3

\* What the first k sequences make is there on the way.
LEMMA FlattenPrefix ==
    ASSUME NEW V, NEW seqs \in Seq(Seq(V)), NEW h, Laid(h, seqs, V), NEW k \in 0..Len(seqs)
    PROVE  FlattenSeq(SubSeq(seqs, 1, k)) = h[k]
<1> DEFINE n == Len(seqs)
           t == SubSeq(seqs, 1, k)
           f == [i \in 0..k |-> h[i]]
<1>1. n \in Nat /\ \A j \in 1..n : seqs[j] \in Seq(V)
  BY LenProperties, ElementOfSeq
<1>2. k \in Nat /\ k \in 0..k /\ 0 \in 0..k /\ \A j \in 1..k : j \in 1..n /\ j \in 0..k /\ j - 1 \in 0..k
  BY <1>1
<1>3. t \in Seq(Seq(V)) /\ Len(t) = k /\ \A j \in 1..k : t[j] = seqs[j]
  <2>1. \A j \in 1..k : seqs[j] \in Seq(V)
    BY <1>1, <1>2
  <2> QED
    BY <1>2, <2>1, PrefixIs
<1> HIDE DEF t
<1>4. Laid(f, t, V)
  <2>1. f \in [0..k -> Seq(V)]
    <3>0. \A i \in 0..k : i \in 0..n
      BY <1>1
    <3>1. \A i \in 0..k : h[i] \in Seq(V)
      BY <3>0 DEF Laid
    <3> QED
      BY <3>1
  <2>2. \A i \in 0..k : f[i] = h[i]
    OBVIOUS
  <2> HIDE DEF f
  <2>3. f[0] = <<>> /\ \A j \in 1..k : f[j] = f[j - 1] \o t[j]
    BY <1>2, <1>3, <2>2 DEF Laid
  <2> QED
    BY <1>3, <2>1, <2>3 DEF Laid
<1>5. FlattenSeq(t) = f[k]
  <2> HIDE DEF f
  <2> QED
    BY <1>3, <1>4, FlattenIs
<1> QED
  BY <1>2, <1>5 DEF t

\* The characters of a text and those of the marks and the special tokens.
Letters == DOMAIN Class
Glyphs == Letters \cup {"##", "[UNK]", "[CLS]", "[SEP]"}

LEMMA ChainTyped ==
    ASSUME NEW n \in Nat, NEW V, NEW head \in [1..n -> Seq(V)], NEW next \in [1..n -> 1..(n + 1)],
           \A i \in 1..n : next[i] > i, NEW f, Chained(f, n, head, next)
    PROVE  \A i \in 1..(n + 1) : f[i] \in Seq(V)
<1> DEFINE Bad == {m \in 0..n : f[n + 1 - m] \notin Seq(V)}
<1>1. ASSUME Bad # {} PROVE FALSE
  <2>1. Bad \in SUBSET Nat
    OBVIOUS
  <2> HIDE DEF Bad
  <2>2. PICK m \in Bad : \A k \in Bad : m <= k
    BY <1>1, <2>1, Least
  <2>3. m \in 0..n /\ f[n + 1 - m] \notin Seq(V)
    BY DEF Bad
  <2> DEFINE i == n + 1 - m
  <2>4. m # 0
    <3>1. n + 1 - 0 = n + 1 /\ f[n + 1] \in Seq(V)
      BY EmptySeq DEF Chained
    <3> QED
      BY <2>3, <3>1
  <2>5. i \in 1..n
    BY <2>3, <2>4
  <2>6. \A j \in (i + 1)..(n + 1) : f[j] \in Seq(V)
    <3> TAKE j \in (i + 1)..(n + 1)
    <3>1. n + 1 - j \in 0..n /\ n + 1 - j < m /\ n + 1 - (n + 1 - j) = j
      BY <2>3
    <3>2. n + 1 - j \notin Bad
      BY <2>1, <2>2, <3>1
    <3> QED
      BY <3>1, <3>2 DEF Bad
  <2> HIDE DEF i
  <2>7. next[i] \in (i + 1)..(n + 1)
    BY <2>5
  <2>8. f[i] = head[i] \o f[next[i]] /\ head[i] \in Seq(V) /\ f[next[i]] \in Seq(V)
    BY <2>5, <2>6, <2>7 DEF Chained
  <2>9. f[i] \in Seq(V)
    BY <2>8, ConcatProperties
  <2> QED
    BY <2>3, <2>9 DEF i
<1>2. \A i \in 1..(n + 1) : f[i] \in Seq(V)
  <2> TAKE i \in 1..(n + 1)
  <2>1. n + 1 - i \in 0..n /\ n + 1 - (n + 1 - i) = i
    OBVIOUS
  <2> QED
    BY <1>1, <2>1
<1> QED
  BY <1>2

\* The ends of the pieces that could stand at a place of a word.
EndsAt(w, vocab, i) == {j \in i..Len(w) : Piece(w, i, j) \in vocab}

Longest(w, vocab, i) == Max(EndsAt(w, vocab, i))

Cutting(cut, w, vocab) ==
    cut = [i \in 1..(Len(w) + 1) |->
             IF i > Len(w) THEN <<>> ELSE IF EndsAt(w, vocab, i) = {} THEN <<UNK>>
             ELSE <<Piece(w, i, Longest(w, vocab, i))>> \o cut[Longest(w, vocab, i) + 1]]

Pieces(w, vocab) == (CHOOSE cut : Cutting(cut, w, vocab))[1]

LEMMA WordPieceIsChoice ==
    ASSUME NEW w, NEW vocab
    PROVE  WordPiece(w, vocab) = IF Len(w) > MaxChars \/ UNK \in ToSet(Pieces(w, vocab)) THEN <<UNK>>
                                 ELSE Pieces(w, vocab)
  BY DEF WordPiece, Cutting, EndsAt, Longest, Pieces

LEMMA PieceType ==
    ASSUME NEW w \in Seq(Letters), NEW i \in 1..Len(w), NEW j \in i..Len(w)
    PROVE  /\ Piece(w, i, j) \in Seq(Glyphs)
           /\ SubSeq(w, i, j) \in Seq(Letters)
           /\ Len(SubSeq(w, i, j)) = j - i + 1
           /\ \A k \in 1..(j - i + 1) : SubSeq(w, i, j)[k] = w[i + k - 1]
<1>1. Len(w) \in Nat /\ i \in Int /\ j \in Int /\ i <= j /\ \A k \in i..j : w[k] \in Letters
  <2>1. Len(w) \in Nat /\ \A k \in 1..Len(w) : w[k] \in Letters
    BY LenProperties, ElementOfSeq
  <2> QED
    BY <2>1
<1>2. /\ SubSeq(w, i, j) \in Seq(Letters) /\ Len(SubSeq(w, i, j)) = j - i + 1
      /\ \A k \in 1..(j - i + 1) : SubSeq(w, i, j)[k] = w[i + k - 1]
  BY <1>1, SubSeqProperties
<1>3. SubSeq(w, i, j) \in Seq(Glyphs)
  BY <1>2, SeqMonotonic DEF Glyphs
<1>4. <<>> \in Seq(Glyphs) /\ <<"##">> \in Seq(Glyphs)
  BY DEF Glyphs
<1>5. Piece(w, i, j) \in Seq(Glyphs)
  BY <1>3, <1>4, ConcatProperties DEF Piece
<1> QED
  BY <1>2, <1>5

LEMMA LongestEnd ==
    ASSUME NEW w \in Seq(Letters), NEW vocab, NEW i \in 1..Len(w), EndsAt(w, vocab, i) # {}
    PROVE  /\ Longest(w, vocab, i) \in i..Len(w)
           /\ \A j \in (Longest(w, vocab, i) + 1)..Len(w) : Piece(w, i, j) \notin vocab
<1> DEFINE S == EndsAt(w, vocab, i)
           n == Len(w)
<1>1. n \in Nat /\ S \in SUBSET Nat /\ S # {} /\ \A x \in S : x <= n
  <2>1. n \in Nat
    BY LenProperties
  <2> QED
    BY <2>1 DEF EndsAt
<1>2. \A j : j \in S <=> j \in i..n /\ Piece(w, i, j) \in vocab
  BY DEF EndsAt
<1> HIDE DEF S, n
<1>3. Max(S) \in S /\ \A x \in S : x <= Max(S)
  BY <1>1, Largest
<1>4. ASSUME NEW j \in (Max(S) + 1)..n PROVE Piece(w, i, j) \notin vocab
  <2>1. Max(S) \in i..n
    BY <1>2, <1>3
  <2>2. j \in i..n /\ ~ j <= Max(S)
    BY <1>1, <2>1 DEF n
  <2> QED
    BY <1>2, <1>3, <2>2
<1> QED
  BY <1>2, <1>3, <1>4 DEF Longest, S, n

\* What WordPiece does from a place on.
LEMMA CutFrom ==
    ASSUME NEW w \in Seq(Letters), NEW vocab
    PROVE  \E cut \in [1..(Len(w) + 1) -> Seq(Seq(Glyphs))] :
              /\ Pieces(w, vocab) = cut[1] /\ cut[Len(w) + 1] = <<>>
              /\ \A i \in 1..Len(w) :
                    cut[i] = IF EndsAt(w, vocab, i) = {} THEN <<UNK>>
                             ELSE <<Piece(w, i, Longest(w, vocab, i))>> \o cut[Longest(w, vocab, i) + 1]
<1> DEFINE n == Len(w)
           P == Seq(Glyphs)
           ends(i) == EndsAt(w, vocab, i)
           far(i) == Longest(w, vocab, i)
           piece(i) == Piece(w, i, far(i))
           head == [i \in 1..n |-> IF ends(i) = {} THEN <<UNK>> ELSE <<piece(i)>>]
           next == [i \in 1..n |-> IF ends(i) = {} THEN n + 1 ELSE far(i) + 1]
<1>1. n \in Nat /\ UNK \in P
  BY LenProperties DEF UNK, Glyphs
<1>2. \A i \in 1..n : ends(i) # {} => far(i) \in i..n /\ piece(i) \in P
  BY LongestEnd, PieceType
<1> HIDE DEF n, ends, far, piece, P
<1>3. head \in [1..n -> Seq(P)]
  <2>1. \A x \in P : <<x>> \in Seq(P)
    OBVIOUS
  <2> QED
    BY <1>1, <1>2, <2>1
<1>4. next \in [1..n -> 1..(n + 1)] /\ \A i \in 1..n : next[i] > i
  BY <1>1, <1>2
<1>5. \A i \in 1..n : /\ ends(i) = {} => head[i] = <<UNK>> /\ next[i] = n + 1
                      /\ ends(i) # {} => head[i] = <<piece(i)>> /\ next[i] = far(i) + 1
  OBVIOUS
<1> HIDE DEF head, next
<1> DEFINE Ends(f) == \A i \in 1..n : f[i] = IF ends(i) = {} THEN <<UNK>> ELSE <<piece(i)>> \o f[far(i) + 1]
<1>6. <<UNK>> \in Seq(P) /\ <<UNK>> \o <<>> = <<UNK>>
  <2>1. <<UNK>> \in Seq(P)
    BY <1>1
  <2> QED
    BY <2>1, ConcatEmptySeq
<1>7. ASSUME NEW f, f[n + 1] = <<>> PROVE Ends(f) <=> Chained(f, n, head, next)
  <2>1. ASSUME NEW i \in 1..n
        PROVE  (f[i] = head[i] \o f[next[i]])
                 <=> (f[i] = IF ends(i) = {} THEN <<UNK>> ELSE <<piece(i)>> \o f[far(i) + 1])
    <3>1. CASE ends(i) = {}
      BY <1>5, <1>6, <1>7, <3>1
    <3>2. CASE ends(i) # {}
      BY <1>5, <3>2
    <3> QED
      BY <3>1, <3>2
  <2> QED
    BY <1>7, <2>1 DEF Chained
<1>8. PICK f \in [1..(n + 1) -> Seq(P)] : Chained(f, n, head, next)
  BY <1>1, <1>3, <1>4, ChainExists
<1>9. f[n + 1] = <<>> /\ Ends(f)
  <2>1. f[n + 1] = <<>>
    BY <1>8 DEF Chained
  <2> HIDE DEF Ends
  <2> QED
    BY <1>7, <1>8, <2>1
<1>10. Cutting(f, w, vocab)
  <2>1. ASSUME NEW i \in 1..(n + 1)
        PROVE  f[i] = IF i > n THEN <<>> ELSE IF ends(i) = {} THEN <<UNK>>
                      ELSE <<piece(i)>> \o f[far(i) + 1]
    <3>1. CASE i > n
      <4>1. i = n + 1
        BY <1>1, <3>1
      <4> QED
        BY <1>9, <3>1, <4>1
    <3>2. CASE ~ i > n
      <4>1. i \in 1..n
        BY <1>1, <3>2
      <4> QED
        BY <1>9, <3>2, <4>1
    <3> QED
      BY <3>1, <3>2
  <2>2. f = [i \in 1..(n + 1) |-> IF i > n THEN <<>> ELSE IF ends(i) = {} THEN <<UNK>>
                                  ELSE <<piece(i)>> \o f[far(i) + 1]]
    BY <2>1
  <2> QED
    BY <2>2 DEF Cutting, n, ends, far, piece
<1> DEFINE cut == CHOOSE c : Cutting(c, w, vocab)
<1>11. Cutting(cut, w, vocab) /\ Pieces(w, vocab) = cut[1]
  BY <1>10 DEF Pieces
<1> HIDE DEF cut
<1>12. cut = [i \in 1..(n + 1) |-> IF i > n THEN <<>> ELSE IF ends(i) = {} THEN <<UNK>>
                                   ELSE <<piece(i)>> \o cut[far(i) + 1]]
  BY <1>11 DEF Cutting, n, ends, far, piece
<1>13. cut[n + 1] = <<>> /\ Ends(cut)
  <2>1. \A i \in 1..(n + 1) : cut[i] = IF i > n THEN <<>> ELSE IF ends(i) = {} THEN <<UNK>>
                                       ELSE <<piece(i)>> \o cut[far(i) + 1]
    BY <1>12
  <2>2. n + 1 \in 1..(n + 1) /\ n + 1 > n /\ \A i \in 1..n : i \in 1..(n + 1) /\ ~ i > n
    BY <1>1
  <2> QED
    BY <2>1, <2>2
<1>14. \A i \in 1..(n + 1) : cut[i] \in Seq(P)
  <2>1. Chained(cut, n, head, next)
    <3> HIDE DEF Ends
    <3> QED
      BY <1>7, <1>13
  <2> QED
    BY <1>1, <1>3, <1>4, <2>1, ChainTyped
<1>15. cut \in [1..(n + 1) -> Seq(P)]
  BY <1>12, <1>14
<1> QED
  BY <1>11, <1>13, <1>15 DEF n, ends, far, piece, P

LEMMA PrependIs ==
    ASSUME NEW V, NEW x \in V, NEW rest \in Seq(V)
    PROVE  /\ <<x>> \o rest \in Seq(V) /\ Len(<<x>> \o rest) = Len(rest) + 1
           /\ (<<x>> \o rest)[1] = x
           /\ \A k \in 2..(Len(rest) + 1) : (<<x>> \o rest)[k] = rest[k - 1]
<1> DEFINE first == <<x>>
<1>1. first \in Seq(V) /\ Len(first) = 1 /\ first[1] = x
  OBVIOUS
<1>2. Len(rest) \in Nat
  BY LenProperties
<1> HIDE DEF first
<1>3. /\ first \o rest \in Seq(V) /\ Len(first \o rest) = Len(first) + Len(rest)
      /\ \A k \in 1..(Len(first) + Len(rest)) :
            (first \o rest)[k] = IF k <= Len(first) THEN first[k] ELSE rest[k - Len(first)]
  BY <1>1, ConcatProperties
<1>4. Len(first) + Len(rest) = Len(rest) + 1 /\ 1 \in 1..(Len(rest) + 1) /\ 1 <= Len(first)
  BY <1>1, <1>2
<1>5. ASSUME NEW k \in 2..(Len(rest) + 1) PROVE (first \o rest)[k] = rest[k - 1]
  <2>1. k \in 1..(Len(rest) + 1) /\ ~ k <= 1
    BY <1>2
  <2> QED
    BY <1>1, <1>3, <1>4, <2>1
<1>6. (first \o rest)[1] = x
  BY <1>1, <1>3, <1>4
<1> QED
  BY <1>3, <1>4, <1>5, <1>6 DEF first

\* The pieces p cut w up from i on: the k-th ends at e[k], and none could be longer.
CutUp(e, p, w, vocab, i) ==
    /\ e \in [0..Len(p) -> 0..Len(w)]
    /\ e[0] = i - 1 /\ e[Len(p)] = Len(w)
    /\ \A k \in 1..Len(p) :
          /\ e[k - 1] < e[k] /\ p[k] = Piece(w, e[k - 1] + 1, e[k])
          /\ \A j \in (e[k] + 1)..Len(w) : Piece(w, e[k - 1] + 1, j) \notin vocab

LEMMA CutUpStep ==
    ASSUME NEW w \in Seq(Letters), NEW vocab, NEW i \in 1..Len(w), NEW m \in i..Len(w),
           \A j \in (m + 1)..Len(w) : Piece(w, i, j) \notin vocab,
           NEW rest \in Seq(Seq(Glyphs)), NEW e, CutUp(e, rest, w, vocab, m + 1)
    PROVE  \E d : CutUp(d, <<Piece(w, i, m)>> \o rest, w, vocab, i)
<1> DEFINE n == Len(w)
           l == Len(rest)
           p == <<Piece(w, i, m)>> \o rest
           d == [k \in 0..(l + 1) |-> IF k = 0 THEN i - 1 ELSE e[k - 1]]
<1>1. n \in Nat /\ l \in Nat
  BY LenProperties
<1>2. Piece(w, i, m) \in Seq(Glyphs)
  BY PieceType
<1>3. Len(p) = l + 1 /\ p[1] = Piece(w, i, m) /\ \A k \in 2..(l + 1) : p[k] = rest[k - 1]
  <2>1. \A x \in Seq(Glyphs) : /\ Len(<<x>> \o rest) = Len(rest) + 1 /\ (<<x>> \o rest)[1] = x
                               /\ \A k \in 2..(Len(rest) + 1) : (<<x>> \o rest)[k] = rest[k - 1]
    BY PrependIs
  <2> QED
    BY <1>2, <2>1
<1>4. /\ e \in [0..l -> 0..n] /\ e[0] = m /\ e[l] = n
      /\ \A k \in 1..l :
            /\ e[k - 1] < e[k] /\ rest[k] = Piece(w, e[k - 1] + 1, e[k])
            /\ \A j \in (e[k] + 1)..n : Piece(w, e[k - 1] + 1, j) \notin vocab
  <2>1. m + 1 - 1 = m
    BY <1>1
  <2> QED
    BY <2>1 DEF CutUp
<1>5. i \in Nat /\ m \in Nat /\ 1 <= i /\ i <= m /\ m <= n
  BY <1>1
<1> HIDE DEF n, l, p
<1>6. /\ \A k \in 0..(l + 1) : k = 0 \/ k - 1 \in 0..l
      /\ i - 1 \in 0..n
  BY <1>1, <1>5
<1>7. d \in [0..(l + 1) -> 0..n]
  <2>1. \A k \in 0..(l + 1) : (IF k = 0 THEN i - 1 ELSE e[k - 1]) \in 0..n
    BY <1>4, <1>6
  <2> QED
    BY <2>1
<1>8. d[0] = i - 1 /\ (\A k \in 1..(l + 1) : d[k] = e[k - 1]) /\ d[l + 1] = e[l]
  <2>1. 0 \in 0..(l + 1) /\ \A k \in 1..(l + 1) : k \in 0..(l + 1) /\ k # 0
    BY <1>1
  <2>2. l + 1 \in 0..(l + 1) /\ l + 1 # 0 /\ l + 1 - 1 = l
    BY <1>1
  <2> QED
    BY <1>1, <2>1, <2>2
<1> HIDE DEF d
<1>9. d[l + 1] = n
  BY <1>4, <1>8
<1>10. ASSUME NEW k \in 1..(l + 1)
       PROVE  /\ d[k - 1] < d[k] /\ p[k] = Piece(w, d[k - 1] + 1, d[k])
              /\ \A j \in (d[k] + 1)..n : Piece(w, d[k - 1] + 1, j) \notin vocab
  <2>1. CASE k = 1
    <3>1. d[k - 1] = i - 1 /\ d[k] = m /\ i - 1 < m /\ i - 1 + 1 = i
      BY <1>4, <1>5, <1>8, <2>1
    <3> QED
      BY <1>3, <2>1, <3>1 DEF n
  <2>2. CASE k # 1
    <3>1. k - 1 \in 1..l /\ k \in 2..(l + 1) /\ k - 1 \in 1..(l + 1)
      BY <1>1, <2>2
    <3>2. d[k - 1] = e[k - 1 - 1] /\ d[k] = e[k - 1] /\ p[k] = rest[k - 1]
      BY <1>3, <1>8, <3>1
    <3> QED
      BY <1>4, <3>1, <3>2
  <2> QED
    BY <2>1, <2>2
<1>11. CutUp(d, p, w, vocab, i)
  BY <1>3, <1>7, <1>8, <1>9, <1>10 DEF CutUp, n
<1> QED
  BY <1>11 DEF p

LEMMA InPrepend ==
    ASSUME NEW V, NEW x \in V, NEW rest \in Seq(V), NEW u, u \notin ToSet(<<x>> \o rest)
    PROVE  u # x /\ u \notin ToSet(rest)
<1> DEFINE s == <<x>> \o rest
<1>1. /\ s \in Seq(V) /\ Len(s) = Len(rest) + 1 /\ s[1] = x
      /\ \A k \in 2..(Len(rest) + 1) : s[k] = rest[k - 1]
  BY PrependIs
<1>2. u \notin ToSet(s)
  OBVIOUS
<1> HIDE DEF s
<1>3. DOMAIN s = 1..(Len(rest) + 1) /\ DOMAIN rest = 1..Len(rest) /\ Len(rest) \in Nat
  BY <1>1, LenProperties
<1>4. 1 \in DOMAIN s
  BY <1>3
<1>5. ASSUME NEW k \in DOMAIN rest PROVE rest[k] # u
  <2>1. k + 1 \in DOMAIN s /\ k + 1 \in 2..(Len(rest) + 1) /\ k + 1 - 1 = k
    BY <1>3
  <2> QED
    BY <1>1, <1>2, <2>1 DEF ToSet
<1> QED
  BY <1>1, <1>2, <1>4, <1>5 DEF ToSet

\* A word is one UNK or cut up into the longest pieces.
LEMMA WordPieceIs ==
    ASSUME NEW w \in Seq(Letters), NEW vocab
    PROVE  /\ WordPiece(w, vocab) \in Seq(Seq(Glyphs))
           /\ WordPiece(w, vocab) = <<UNK>> \/ \E e : CutUp(e, WordPiece(w, vocab), w, vocab, 1)
<1> DEFINE n == Len(w)
           P == Seq(Glyphs)
           ends(i) == EndsAt(w, vocab, i)
           far(i) == Longest(w, vocab, i)
           piece(i) == Piece(w, i, far(i))
<1>1. n \in Nat /\ UNK \in P
  BY LenProperties DEF UNK, Glyphs
<1>2. \A i \in 1..n : ends(i) # {} =>
         far(i) \in i..n /\ piece(i) \in P /\ \A j \in (far(i) + 1)..n : Piece(w, i, j) \notin vocab
  BY LongestEnd, PieceType
<1>3. PICK cut \in [1..(n + 1) -> Seq(P)] :
          /\ Pieces(w, vocab) = cut[1] /\ cut[n + 1] = <<>>
          /\ \A i \in 1..n : cut[i] = IF ends(i) = {} THEN <<UNK>> ELSE <<piece(i)>> \o cut[far(i) + 1]
  BY CutFrom
<1> DEFINE Good(i) == UNK \notin ToSet(cut[i]) => \E e : CutUp(e, cut[i], w, vocab, i)
           Bad == {m \in 0..n : ~ Good(n + 1 - m)}
<1>4. Good(n + 1)
  <2> DEFINE e == [k \in 0..0 |-> n]
  <2>1. e \in [0..0 -> 0..n] /\ e[0] = n /\ n + 1 - 1 = n
    BY <1>1
  <2>2. Len(cut[n + 1]) = 0 /\ 1..0 = {}
    BY <1>3, EmptySeq
  <2> HIDE DEF e
  <2>3. CutUp(e, cut[n + 1], w, vocab, n + 1)
    BY <2>1, <2>2 DEF CutUp
  <2> QED
    BY <2>3
<1>5. ASSUME Bad # {} PROVE FALSE
  <2>1. Bad \in SUBSET Nat
    <3> HIDE DEF Good
    <3> QED
      OBVIOUS
  <2> HIDE DEF Bad
  <2>2. PICK m \in Bad : \A k \in Bad : m <= k
    BY <1>5, <2>1, Least
  <2>3. m \in 0..n /\ ~ Good(n + 1 - m)
    BY DEF Bad
  <2> DEFINE i == n + 1 - m
  <2>4. m # 0
    <3>1. n + 1 - 0 = n + 1
      BY <1>1
    <3> HIDE DEF Good
    <3> QED
      BY <1>4, <2>3, <3>1
  <2>5. i \in 1..n
    BY <1>1, <2>3, <2>4
  <2>6. \A j \in (i + 1)..(n + 1) : Good(j)
    <3> HIDE DEF Good
    <3> TAKE j \in (i + 1)..(n + 1)
    <3>1. n + 1 - j \in 0..n /\ n + 1 - j < m /\ n + 1 - (n + 1 - j) = j
      BY <1>1, <2>3
    <3>2. n + 1 - j \notin Bad
      BY <2>1, <2>2, <3>1
    <3> QED
      BY <3>1, <3>2 DEF Bad
  <2> HIDE DEF i
  <2>7. CASE ends(i) = {}
    <3>1. cut[i] = <<UNK>>
      BY <1>3, <2>5, <2>7
    <3>2. UNK \in ToSet(<<UNK>>)
      BY DEF ToSet
    <3> QED
      BY <2>3, <3>1, <3>2 DEF i
  <2>8. CASE ends(i) # {}
    <3>1. far(i) \in i..n /\ piece(i) \in P /\ \A j \in (far(i) + 1)..n : Piece(w, i, j) \notin vocab
      BY <1>2, <2>5, <2>8
    <3>2. far(i) + 1 \in (i + 1)..(n + 1) /\ far(i) + 1 \in 1..(n + 1)
      BY <1>1, <2>5, <3>1
    <3> DEFINE rest == cut[far(i) + 1]
    <3>3. cut[i] = <<piece(i)>> \o rest /\ rest \in Seq(P)
      BY <1>3, <2>5, <2>8, <3>2
    <3>4. Good(far(i) + 1)
      <4> HIDE DEF Good, far
      <4> QED
        BY <2>6, <3>2
    <3>5. ASSUME UNK \notin ToSet(cut[i]) PROVE \E e : CutUp(e, cut[i], w, vocab, i)
      <4>1. UNK \notin ToSet(rest)
        <5> HIDE DEF rest, P, piece
        <5> QED
          BY <3>1, <3>3, <3>5, InPrepend
      <4>2. PICK e : CutUp(e, rest, w, vocab, far(i) + 1)
        BY <3>4, <4>1
      <4> HIDE DEF rest, far
      <4>3. \E d : CutUp(d, <<Piece(w, i, far(i))>> \o rest, w, vocab, i)
        BY <2>5, <3>1, <3>3, <4>2, CutUpStep
      <4> QED
        BY <3>3, <4>3
    <3> QED
      BY <2>3, <3>5 DEF i
  <2> QED
    BY <2>7, <2>8
<1>6. Good(1) /\ cut[1] \in Seq(P)
  <2>1. n \in 0..n /\ n + 1 - n = 1 /\ 1 \in 1..(n + 1)
    BY <1>1
  <2> HIDE DEF Good
  <2> QED
    BY <1>3, <1>5, <2>1
<1>7. <<UNK>> \in Seq(P)
  BY <1>1
<1> QED
  BY <1>3, <1>6, <1>7, WordPieceIsChoice

\* Where the parts of what is laid out are.
Placed(h, seqs) ==
    /\ \A k \in 0..Len(seqs) : Len(h[k]) \in Nat
    /\ Len(h[0]) = 0
    /\ \A k \in 1..Len(seqs) : Len(h[k]) = Len(h[k - 1]) + Len(seqs[k]) /\ Len(seqs[k]) \in Nat
    /\ \A i, j \in 0..Len(seqs) : i <= j => Len(h[i]) <= Len(h[j])
    /\ \A k \in 0..Len(seqs) :
          /\ \A j \in 1..k : \A q \in 1..Len(seqs[j]) : h[k][Len(h[j - 1]) + q] = seqs[j][q]
          /\ \A p \in 1..Len(h[k]) :
                \E j \in 1..k : \E q \in 1..Len(seqs[j]) : p = Len(h[j - 1]) + q

LEMMA LaidLengths ==
    ASSUME NEW V, NEW seqs \in Seq(Seq(V)), NEW h, Laid(h, seqs, V)
    PROVE  /\ \A k \in 0..Len(seqs) : Len(h[k]) \in Nat
           /\ Len(h[0]) = 0
           /\ \A k \in 1..Len(seqs) : Len(h[k]) = Len(h[k - 1]) + Len(seqs[k]) /\ Len(seqs[k]) \in Nat
           /\ \A i, j \in 0..Len(seqs) : i <= j => Len(h[i]) <= Len(h[j])
<1> DEFINE n == Len(seqs)
<1>1. n \in Nat /\ \A k \in 1..n : seqs[k] \in Seq(V)
  BY LenProperties, ElementOfSeq
<1>2. /\ \A k \in 0..n : h[k] \in Seq(V)
      /\ h[0] = <<>> /\ \A k \in 1..n : h[k] = h[k - 1] \o seqs[k]
  BY DEF Laid
<1> HIDE DEF n
<1>3. \A k \in 0..n : Len(h[k]) \in Nat
  BY <1>2, LenProperties
<1>4. Len(h[0]) = 0
  BY <1>2, EmptySeq
<1>5. ASSUME NEW k \in 1..n PROVE Len(h[k]) = Len(h[k - 1]) + Len(seqs[k]) /\ Len(seqs[k]) \in Nat
  <2>1. k - 1 \in 0..n
    BY <1>1
  <2>2. h[k - 1] \in Seq(V) /\ seqs[k] \in Seq(V) /\ h[k] = h[k - 1] \o seqs[k]
    BY <1>1, <1>2, <2>1
  <2> QED
    BY <2>2, ConcatProperties, LenProperties
<1>6. ASSUME NEW i \in 0..n PROVE \A j \in i..n : Len(h[i]) <= Len(h[j])
  <2> DEFINE Bad == {j \in i..n : ~ Len(h[i]) <= Len(h[j])}
  <2>1. ASSUME Bad # {} PROVE FALSE
    <3>1. Bad \in SUBSET Nat
      <4>1. \A j \in i..n : j \in Nat
        BY <1>1
      <4> QED
        BY <4>1
    <3> HIDE DEF Bad
    <3>2. PICK j \in Bad : \A m \in Bad : j <= m
      BY <2>1, <3>1, Least
    <3>3. j \in i..n /\ ~ Len(h[i]) <= Len(h[j])
      BY DEF Bad
    <3>4. j # i
      BY <1>3, <3>3
    <3>5. j - 1 \in i..n /\ j \in 1..n /\ j - 1 \in 0..n /\ j \in 0..n /\ j - 1 \notin Bad
      BY <1>1, <3>1, <3>2, <3>3, <3>4
    <3>6. Len(h[i]) <= Len(h[j - 1])
      BY <3>5 DEF Bad
    <3>7. Len(h[j]) = Len(h[j - 1]) + Len(seqs[j]) /\ Len(seqs[j]) \in Nat
      BY <1>5, <3>5
    <3>8. Len(h[i]) \in Nat /\ Len(h[j]) \in Nat /\ Len(h[j - 1]) \in Nat
      BY <1>3, <3>5
    <3>9. \A a, b, c, d \in Nat : a <= b /\ c = b + d => a <= c
      OBVIOUS
    <3> QED
      BY ONLY <3>3, <3>6, <3>7, <3>8, <3>9, Zenon
  <2> QED
    BY <2>1
<1>7. \A i, j \in 0..n : i <= j => Len(h[i]) <= Len(h[j])
  <2>1. \A i, j \in 0..n : i <= j => j \in i..n
    BY <1>1
  <2> QED
    BY <1>6, <2>1
<1> QED
  BY <1>3, <1>4, <1>5, <1>7 DEF n

LEMMA LaidPlaces ==
    ASSUME NEW V, NEW seqs \in Seq(Seq(V)), NEW h, Laid(h, seqs, V)
    PROVE  Placed(h, seqs)
<1> DEFINE n == Len(seqs)
           Good(k) == /\ \A j \in 1..k : \A q \in 1..Len(seqs[j]) : h[k][Len(h[j - 1]) + q] = seqs[j][q]
                      /\ \A p \in 1..Len(h[k]) :
                            \E j \in 1..k : \E q \in 1..Len(seqs[j]) : p = Len(h[j - 1]) + q
           Bad == {k \in 0..n : ~ Good(k)}
<1>1. n \in Nat /\ \A k \in 1..n : seqs[k] \in Seq(V)
  BY LenProperties, ElementOfSeq
<1>2. /\ \A k \in 0..n : h[k] \in Seq(V)
      /\ h[0] = <<>> /\ \A k \in 1..n : h[k] = h[k - 1] \o seqs[k]
  BY DEF Laid
<1>3. /\ \A k \in 0..n : Len(h[k]) \in Nat
      /\ Len(h[0]) = 0
      /\ \A k \in 1..n : Len(h[k]) = Len(h[k - 1]) + Len(seqs[k]) /\ Len(seqs[k]) \in Nat
      /\ \A i, j \in 0..n : i <= j => Len(h[i]) <= Len(h[j])
  BY LaidLengths
<1> HIDE DEF n
<1>4. Good(0)
  <2>1. 1..0 = {} /\ 1..Len(h[0]) = {}
    BY <1>3
  <2> QED
    BY <2>1
<1>5. ASSUME NEW k \in 1..n, Good(k - 1) PROVE Good(k)
  <2>1. k - 1 \in 0..n /\ k \in 0..n
    BY <1>1
  <2> DEFINE a == h[k - 1]
             b == seqs[k]
             c == h[k]
             L == Len(a)
             M == Len(b)
  <2>2. a \in Seq(V) /\ b \in Seq(V) /\ c = a \o b
    BY <1>1, <1>2, <2>1
  <2>3. L \in Nat /\ M \in Nat /\ Len(c) = L + M
    BY <1>3, <2>1
  <2>4. \A p \in 1..(L + M) : c[p] = IF p <= L THEN a[p] ELSE b[p - L]
    <3> HIDE DEF a, b, c
    <3> QED
      BY <2>2, ConcatProperties
  <2>5. ASSUME NEW j \in 1..k, NEW q \in 1..Len(seqs[j]) PROVE c[Len(h[j - 1]) + q] = seqs[j][q]
    <3>1. j \in 1..n /\ j - 1 \in 0..n /\ j \in 0..n
      BY <1>1
    <3>2. Len(seqs[j]) \in Nat /\ Len(h[j - 1]) \in Nat /\ Len(h[j]) = Len(h[j - 1]) + Len(seqs[j])
      BY <1>3, <3>1
    <3> DEFINE p == Len(h[j - 1]) + q
    <3>3. CASE j = k
      <4>1. Len(h[j - 1]) = L /\ Len(seqs[j]) = M
        BY <3>3
      <4>2. L + q \in 1..(L + M) /\ ~ (L + q <= L) /\ L + q - L = q
        <5> HIDE DEF L, M
        <5> QED
          BY <2>3, <4>1
      <4>3. c[L + q] = b[q]
        <5> HIDE DEF a, b, c, L, M
        <5>1. c[L + q] = b[L + q - L]
          BY <2>3, <2>4, <4>2
        <5> QED
          BY <4>2, <5>1
      <4> QED
        BY <3>3, <4>1, <4>3
    <3>4. CASE j # k
      <4>1. j \in 1..(k - 1) /\ j <= k - 1
        BY <1>1, <3>4
      <4>2. a[p] = seqs[j][q]
        BY <1>5, <4>1
      <4>3. Len(h[j]) <= L
        BY <1>3, <2>1, <3>1, <4>1
      <4>4. p \in 1..(L + M) /\ p <= L
        <5>1. \A x, s, y, z \in Nat : \A i \in 1..s : x + s <= y => x + i \in 1..(y + z) /\ x + i <= y
          OBVIOUS
        <5>2. Len(h[j - 1]) + Len(seqs[j]) <= L
          BY <3>2, <4>3
        <5> HIDE DEF L, M
        <5> QED
          BY <2>3, <3>2, <5>1, <5>2
      <4> HIDE DEF a, c, L, M, p
      <4>5. c[p] = seqs[j][q]
        BY <2>4, <4>2, <4>4
      <4> QED
        BY <4>5 DEF p
    <3> QED
      BY <3>3, <3>4
  <2>6. ASSUME NEW p \in 1..Len(c)
        PROVE  \E j \in 1..k : \E q \in 1..Len(seqs[j]) : p = Len(h[j - 1]) + q
    <3>1. CASE p <= L
      <4>1. p \in 1..L
        <5> HIDE DEF L
        <5> QED
          BY <2>3, <3>1
      <4>2. PICK j \in 1..(k - 1) : \E q \in 1..Len(seqs[j]) : p = Len(h[j - 1]) + q
        BY <1>5, <4>1
      <4>3. j \in 1..k
        BY <1>1
      <4> QED
        BY <4>2, <4>3
    <3>2. CASE ~ p <= L
      <4>1. p - L \in 1..M /\ p = L + (p - L)
        <5> HIDE DEF L, M
        <5> QED
          BY <2>3, <3>2
      <4>2. k \in 1..k
        BY <1>1
      <4> QED
        BY <4>1, <4>2
    <3> QED
      BY <3>1, <3>2
  <2> QED
    BY <2>5, <2>6
<1>6. ASSUME Bad # {} PROVE FALSE
  <2> HIDE DEF Good
  <2>1. Bad \in SUBSET Nat
    OBVIOUS
  <2> HIDE DEF Bad
  <2>2. PICK k \in Bad : \A j \in Bad : k <= j
    BY <1>6, <2>1, Least
  <2>3. k \in 0..n /\ ~ Good(k)
    BY DEF Bad
  <2>4. k # 0
    BY <1>4, <2>3
  <2>5. k \in 1..n /\ k - 1 \in 0..n /\ k - 1 \notin Bad
    BY <1>1, <2>1, <2>2, <2>3, <2>4
  <2>6. Good(k - 1)
    BY <2>5 DEF Bad
  <2> QED
    BY <1>5, <2>3, <2>5, <2>6
<1>7. \A k \in 0..n : Good(k)
  <2> HIDE DEF Good
  <2> QED
    BY <1>6
<1> QED
  BY <1>3, <1>7 DEF Placed, n

\* A set of numbers from 1 on without gaps is what its size says.
LEMMA NoGaps ==
    ASSUME NEW m \in Nat, NEW S \in SUBSET (1..m), \A k \in S : \A j \in 1..k : j \in S
    PROVE  Cardinality(S) \in 0..m /\ S = 1..Cardinality(S)
<1>1. CASE S = {}
  <2>1. Cardinality(S) = 0
    BY <1>1, FS_EmptySet
  <2>2. 1..0 = {}
    OBVIOUS
  <2> QED
    BY <1>1, <2>1, <2>2
<1>2. CASE S # {}
  <2> DEFINE x == Max(S)
  <2>1. x \in S /\ x \in 1..m /\ \A y \in S : y <= x
    BY <1>2, LastOf
  <2> HIDE DEF x
  <2>2. S = 1..x
    <3>1. \A k \in 1..x : k \in S
      BY <2>1
    <3>2. \A k \in S : k \in 1..m /\ k <= x
      BY <2>1
    <3>3. \A k \in S : k \in 1..x
      BY <2>1, <3>2
    <3> QED
      BY <3>1, <3>3
  <2>3. \A k \in Nat : Cardinality(1..k) = k
    BY FS_Interval
  <2>4. Cardinality(1..x) = x
    BY <2>1, <2>3
  <2> QED
    BY <2>1, <2>2, <2>4
<1> QED
  BY <1>1, <1>2

\* The k-th word of a text as it is looked up, and the pieces of every word, before any
\* is cut off.
WordAt(text, uncased, k) ==
    NormalForm(SubSeq(text, Words(text)[k][1], Words(text)[k][2]), uncased)

PiecesOf(text, vocab, uncased) ==
    [k \in DOMAIN Words(text) |-> WordPiece(WordAt(text, uncased, k), vocab)]

LEMMA NormalIs ==
    ASSUME NEW chars \in Seq(Letters), NEW uncased
    PROVE  NormalForm(chars, uncased) \in Seq(Letters)
<1> DEFINE parts == [k \in DOMAIN chars |-> Normal[chars[k]]]
           n == Len(chars)
<1>1. n \in Nat /\ DOMAIN chars = 1..n /\ \A k \in 1..n : chars[k] \in Letters
  BY LenProperties, ElementOfSeq
<1>2. \A k \in 1..n : Normal[chars[k]] \in Seq(Letters)
  BY <1>1, CharactersAssumption DEF Letters
<1> HIDE DEF n
<1>3. parts \in [1..n -> Seq(Letters)]
  BY <1>1, <1>2
<1>4. parts \in Seq(Seq(Letters)) /\ Len(parts) = n
  <2> HIDE DEF parts
  <2> QED
    BY <1>1, <1>3
<1>5. n \in 0..n
  BY <1>1
<1> HIDE DEF parts
<1>6. PICK h : Laid(h, parts, Letters)
  BY <1>4, LaidOut
<1>7. FlattenSeq(parts) = h[n]
  BY <1>4, <1>6, FlattenIs
<1>8. FlattenSeq(parts) \in Seq(Letters)
  BY <1>4, <1>5, <1>6, <1>7 DEF Laid
<1> QED
  BY <1>8 DEF NormalForm, parts

\* The words of a text as they are looked up, and what their pieces are.
LEMMA PiecesAre ==
    ASSUME NEW text \in Seq(Letters), NEW vocab, NEW uncased
    PROVE  /\ PiecesOf(text, vocab, uncased) \in Seq(Seq(Seq(Glyphs)))
           /\ Len(PiecesOf(text, vocab, uncased)) = Len(Words(text))
           /\ \A k \in 1..Len(Words(text)) :
                 /\ WordAt(text, uncased, k) \in Seq(Letters)
                 /\ PiecesOf(text, vocab, uncased)[k] = WordPiece(WordAt(text, uncased, k), vocab)
<1> DEFINE W == Words(text)
<1> DEFINE n == Len(W)
<1> DEFINE P == PiecesOf(text, vocab, uncased)
<1> DEFINE word(k) == WordAt(text, uncased, k)
<1>1. Cuts(W, text)
  BY WordsAre DEF Letters
<1> HIDE DEF W
<1>2. n \in Nat /\ DOMAIN W = 1..n
  BY <1>1 DEF Cuts
<1>3. \A k \in 1..n : W[k][1] \in 1..Len(text) /\ W[k][2] \in W[k][1]..Len(text)
  <2>1. Len(text) \in Nat
    BY LenProperties
  <2> QED
    BY <1>1, <2>1 DEF Cuts
<1>4. \A k \in 1..n : word(k) \in Seq(Letters)
  <2>1. \A i \in 1..Len(text) : \A j \in i..Len(text) : SubSeq(text, i, j) \in Seq(Letters)
    BY PieceType
  <2>2. \A chars \in Seq(Letters) : NormalForm(chars, uncased) \in Seq(Letters)
    BY NormalIs
  <2>3. ASSUME NEW k \in 1..n PROVE NormalForm(SubSeq(text, W[k][1], W[k][2]), uncased) \in Seq(Letters)
    BY <1>3, <2>1, <2>2
  <2> QED
    BY <2>3 DEF WordAt, W
<1>5. P = [k \in 1..n |-> WordPiece(word(k), vocab)]
  BY <1>2 DEF PiecesOf, W
<1> HIDE DEF word, n, P
<1>6. \A k \in 1..n : WordPiece(word(k), vocab) \in Seq(Seq(Glyphs))
  BY <1>4, WordPieceIs
<1>7. P \in [1..n -> Seq(Seq(Glyphs))]
  BY <1>5, <1>6
<1>8. P \in Seq(Seq(Seq(Glyphs))) /\ Len(P) = n
  BY <1>2, <1>7
<1>9. \A k \in 1..n : P[k] = WordPiece(word(k), vocab)
  BY <1>5
<1>10. /\ P \in Seq(Seq(Seq(Glyphs))) /\ Len(P) = n
       /\ \A k \in 1..n : word(k) \in Seq(Letters) /\ P[k] = WordPiece(word(k), vocab)
  BY <1>4, <1>8, <1>9
<1> QED
  BY <1>10 DEF W, P, n, word

\* enc is what is kept of a text that is laid out in h; the place of a piece is its place
\* in h and one for CLS.
Encoded(enc, text, h, maxLen) ==
    LET kept == Len(enc.spans) IN
    /\ kept \in 0..Len(Words(text))
    /\ enc.spans \in Seq(Nat \X Nat)
    /\ \A k \in 1..kept : enc.spans[k] = Words(text)[k]
    /\ enc.ids \in Seq(Seq(Glyphs)) /\ Len(enc.ids) = Len(h[kept]) + 2
    /\ \A p \in 1..Len(h[kept]) : enc.ids[p + 1] = h[kept][p]
    /\ DOMAIN enc.words = 1..(Len(h[kept]) + 2)
    /\ \A p \in DOMAIN enc.words, k \in 1..kept :
          enc.words[p] = k <=> p \in (Len(h[k - 1]) + 2)..(Len(h[k]) + 1)
    /\ kept > 0 => Len(h[kept]) <= maxLen - 2
    /\ kept < Len(Words(text)) => Len(h[kept + 1]) > maxLen - 2

\* The number of the n words that fit.
Fitting(kept, h, n, max) ==
    /\ kept \in 0..n
    /\ kept > 0 => Len(h[kept]) <= max
    /\ kept < n => Len(h[kept + 1]) > max

LEMMA KeptIs ==
    ASSUME NEW V, NEW seqs \in Seq(Seq(V)), NEW h, Laid(h, seqs, V), NEW max \in Int
    PROVE  Fitting(Cardinality({k \in 1..Len(seqs) : Len(h[k]) <= max}), h, Len(seqs), max)
<1> PICK kept : kept = Cardinality({k \in 1..Len(seqs) : Len(h[k]) <= max})
  OBVIOUS
<1> DEFINE n == Len(seqs)
           S == {k \in 1..n : Len(h[k]) <= max}
<1>1. n \in Nat
  BY LenProperties
<1>2. Placed(h, seqs)
  BY LaidPlaces
<1>3. /\ \A k \in 0..n : Len(h[k]) \in Nat
      /\ \A i, j \in 0..n : i <= j => Len(h[i]) <= Len(h[j])
  BY <1>2 DEF Placed
<1> HIDE DEF n
<1>4. S \in SUBSET (1..n) /\ \A k : k \in S <=> k \in 1..n /\ Len(h[k]) <= max
  OBVIOUS
<1>5. kept = Cardinality(S)
  BY DEF n
<1> HIDE DEF S
<1>6. \A k \in S : \A j \in 1..k : j \in S
  <2> TAKE k \in S
  <2> TAKE j \in 1..k
  <2>1. k \in 1..n /\ Len(h[k]) <= max /\ k \in 0..n
    BY <1>4
  <2>2. j \in 1..n /\ j \in 0..n /\ j <= k
    BY <1>1, <2>1
  <2>3. Len(h[j]) <= Len(h[k]) /\ Len(h[j]) \in Nat /\ Len(h[k]) \in Nat
    BY <1>3, <2>1, <2>2
  <2>4. Len(h[j]) <= max
    BY <2>1, <2>3
  <2> QED
    BY <1>4, <2>2, <2>4
<1>7. kept \in 0..n /\ S = 1..kept
  BY <1>1, <1>4, <1>5, <1>6, NoGaps
<1>8. kept > 0 => Len(h[kept]) <= max
  <2>1. kept > 0 => kept \in 1..kept
    BY <1>7
  <2> QED
    BY <1>4, <1>7, <2>1
<1>9. kept < n => Len(h[kept + 1]) > max
  <2>1. ASSUME kept < n PROVE Len(h[kept + 1]) > max
    <3>1. kept + 1 \in 1..n /\ kept + 1 \notin 1..kept /\ kept + 1 \in 0..n
      BY <1>1, <1>7, <2>1
    <3>2. ~ Len(h[kept + 1]) <= max /\ Len(h[kept + 1]) \in Nat
      BY <1>3, <1>4, <1>7, <3>1
    <3> QED
      BY <3>2
  <2> QED
    BY <2>1
<1> QED
  BY <1>7, <1>8, <1>9 DEF n, Fitting

\* The number of the word of each piece.
OwnersOf(seqs, kept) == FlattenSeq([k \in 1..kept |-> [p \in DOMAIN seqs[k] |-> k]])

Owned(own, h, kept) ==
    /\ own \in Seq(Nat) /\ Len(own) = Len(h[kept])
    /\ \A p \in 1..Len(own) : \A k \in 1..kept :
          own[p] = k <=> p \in (Len(h[k - 1]) + 1)..Len(h[k])

LEMMA OwnersAre ==
    ASSUME NEW V, NEW seqs \in Seq(Seq(V)), NEW h, Laid(h, seqs, V), NEW kept \in 0..Len(seqs)
    PROVE  Owned(OwnersOf(seqs, kept), h, kept)
<1> DEFINE n == Len(seqs)
           t == [k \in 1..kept |-> [p \in DOMAIN seqs[k] |-> k]]
<1>1. n \in Nat /\ kept \in Nat /\ kept <= n /\ \A k \in 1..kept : k \in 1..n
  BY LenProperties
<1>2. \A k \in 1..kept : Len(seqs[k]) \in Nat /\ DOMAIN seqs[k] = 1..Len(seqs[k])
  BY <1>1, ElementOfSeq, LenProperties
<1> HIDE DEF n
<1>3. ASSUME NEW k \in 1..kept
      PROVE  /\ t[k] \in Seq(Nat) /\ Len(t[k]) = Len(seqs[k])
             /\ \A p \in 1..Len(seqs[k]) : t[k][p] = k
  <2> DEFINE c == [p \in 1..Len(seqs[k]) |-> k]
  <2>1. t[k] = c
    BY <1>2
  <2>2. c \in Seq(Nat) /\ Len(c) = Len(seqs[k]) /\ \A p \in 1..Len(seqs[k]) : c[p] = k
    <3>1. \A l, x \in Nat : /\ [q \in 1..l |-> x] \in Seq(Nat) /\ Len([q \in 1..l |-> x]) = l
                            /\ \A p \in 1..l : [q \in 1..l |-> x][p] = x
      OBVIOUS
    <3>2. Len(seqs[k]) \in Nat /\ k \in Nat
      BY <1>1, <1>2
    <3> QED
      BY <3>1, <3>2
  <2> HIDE DEF c, t
  <2> QED
    BY <2>1, <2>2
<1>4. t \in Seq(Seq(Nat)) /\ Len(t) = kept
  <2>1. t = [k \in 1..kept |-> t[k]]
    OBVIOUS
  <2> HIDE DEF t
  <2>2. t \in [1..kept -> Seq(Nat)]
    BY <1>3, <2>1
  <2> QED
    BY <1>1, <2>2
<1> HIDE DEF t
<1>5. PICK g : Laid(g, t, Nat)
  BY <1>4, LaidOut
<1>6. Placed(g, t) /\ Placed(h, seqs)
  BY <1>4, <1>5, LaidPlaces
<1>7. FlattenSeq(t) = g[kept] /\ g[kept] \in Seq(Nat)
  <2>1. kept \in 0..kept
    BY <1>1
  <2> QED
    BY <1>4, <1>5, <2>1, FlattenIs DEF Laid
<1>8. /\ \A k \in 0..kept : Len(g[k]) \in Nat /\ Len(h[k]) \in Nat
      /\ Len(g[0]) = 0 /\ Len(h[0]) = 0
      /\ \A k \in 1..kept : /\ Len(g[k]) = Len(g[k - 1]) + Len(seqs[k])
                            /\ Len(h[k]) = Len(h[k - 1]) + Len(seqs[k])
      /\ \A i, j \in 0..kept : i <= j => Len(h[i]) <= Len(h[j])
  <2>1. \A k \in 0..kept : k \in 0..Len(seqs)
    BY <1>1 DEF n
  <2>2. \A k \in 1..kept : k \in 1..Len(seqs)
    BY <1>1 DEF n
  <2>3. /\ \A k \in 0..kept : Len(g[k]) \in Nat
        /\ Len(g[0]) = 0
        /\ \A k \in 1..kept : Len(g[k]) = Len(g[k - 1]) + Len(t[k])
    BY <1>4, <1>6 DEF Placed
  <2>4. /\ \A k \in 0..kept : Len(h[k]) \in Nat
        /\ Len(h[0]) = 0
        /\ \A k \in 1..kept : Len(h[k]) = Len(h[k - 1]) + Len(seqs[k])
        /\ \A i, j \in 0..kept : i <= j => Len(h[i]) <= Len(h[j])
    BY <1>6, <2>1, <2>2 DEF Placed
  <2> QED
    BY <1>3, <2>3, <2>4
<1> DEFINE Bad == {k \in 0..kept : Len(g[k]) # Len(h[k])}
<1>9. ASSUME Bad # {} PROVE FALSE
  <2>1. Bad \in SUBSET Nat
    OBVIOUS
  <2> HIDE DEF Bad
  <2>2. PICK k \in Bad : \A j \in Bad : k <= j
    BY <1>9, <2>1, Least
  <2>3. k \in 0..kept /\ Len(g[k]) # Len(h[k])
    BY DEF Bad
  <2>4. k # 0
    BY <1>8, <2>3
  <2>5. k \in 1..kept /\ k - 1 \in 0..kept /\ k - 1 \notin Bad
    BY <1>1, <2>1, <2>2, <2>3, <2>4
  <2>6. Len(g[k - 1]) = Len(h[k - 1])
    BY <2>5 DEF Bad
  <2> QED
    BY <1>8, <2>3, <2>5, <2>6
<1>10. \A k \in 0..kept : Len(g[k]) = Len(h[k])
  BY <1>9
<1>11. ASSUME NEW p \in 1..Len(g[kept]), NEW k \in 1..kept
       PROVE  g[kept][p] = k <=> p \in (Len(h[k - 1]) + 1)..Len(h[k])
  <2>1. kept \in 0..Len(t)
    BY <1>1, <1>4
  <2>2. PICK j \in 1..kept : \E q \in 1..Len(t[j]) : p = Len(g[j - 1]) + q
    BY <1>6, <2>1 DEF Placed
  <2>3. PICK q \in 1..Len(t[j]) : p = Len(g[j - 1]) + q
    BY <2>2
  <2>4. g[kept][p] = t[j][q]
    BY <1>6, <2>1, <2>3 DEF Placed
  <2>5. Len(t[j]) = Len(seqs[j]) /\ t[j][q] = j /\ Len(seqs[j]) \in Nat
    BY <1>2, <1>3
  <2>6. /\ j - 1 \in 0..kept /\ k - 1 \in 0..kept /\ j \in 0..kept /\ k \in 0..kept
        /\ j <= k - 1 \/ j = k \/ k <= j - 1
    BY <1>1
  <2>7. p \in (Len(h[j - 1]) + 1)..Len(h[j])
    <3>1. Len(h[j]) = Len(h[j - 1]) + Len(seqs[j]) /\ Len(h[j - 1]) \in Nat /\ Len(g[j - 1]) = Len(h[j - 1])
      BY <1>8, <1>10, <2>6
    <3>2. \A x, y, z \in Nat : z = x + y => \A i \in 1..y : x + i \in (x + 1)..z
      OBVIOUS
    <3>3. Len(h[j]) \in Nat
      BY <1>8, <2>6
    <3> QED
      BY <2>3, <2>5, <3>1, <3>2, <3>3
  <2>8. CASE j = k
    BY <2>4, <2>5, <2>7, <2>8
  <2>9. CASE j # k
    <3>1. Len(h[j]) <= Len(h[k - 1]) \/ Len(h[k]) <= Len(h[j - 1])
      BY <1>8, <2>6, <2>9
    <3>2. /\ Len(h[j]) \in Nat /\ Len(h[k]) \in Nat /\ Len(h[j - 1]) \in Nat /\ Len(h[k - 1]) \in Nat
      BY <1>8, <2>6
    <3>3. \A a, b, c, d \in Nat : (b <= c \/ d <= a) => \A i \in (a + 1)..b : i \notin (c + 1)..d
      OBVIOUS
    <3>4. p \notin (Len(h[k - 1]) + 1)..Len(h[k])
      BY <2>7, <3>1, <3>2, <3>3
    <3> QED
      BY <2>4, <2>5, <2>9, <3>4
  <2> QED
    BY <2>8, <2>9
<1>12. Len(g[kept]) = Len(h[kept])
  BY <1>1, <1>10
<1> QED
  BY <1>7, <1>11, <1>12 DEF t, OwnersOf, Owned

\* t is a sequence between two elements.
Framed(t, a, s, b, V) ==
    /\ t \in Seq(V) /\ Len(t) = Len(s) + 2
    /\ t[1] = a /\ t[Len(s) + 2] = b
    /\ \A p \in 1..Len(s) : t[p + 1] = s[p]

LEMMA FramedIs ==
    ASSUME NEW V, NEW a \in V, NEW s \in Seq(V), NEW b \in V
    PROVE  Framed(<<a>> \o s \o <<b>>, a, s, b, V)
<1> DEFINE front == <<a>> \o s
           last == <<b>>
           n == Len(s)
<1>1. last \in Seq(V) /\ Len(last) = 1 /\ last[1] = b
  OBVIOUS
<1>2. /\ front \in Seq(V) /\ Len(front) = n + 1 /\ front[1] = a
      /\ \A k \in 2..(n + 1) : front[k] = s[k - 1]
  BY PrependIs
<1>3. n \in Nat
  BY LenProperties
<1> HIDE DEF front, last, n
<1>4. /\ front \o last \in Seq(V) /\ Len(front \o last) = Len(front) + Len(last)
      /\ \A k \in 1..(Len(front) + Len(last)) :
            (front \o last)[k] = IF k <= Len(front) THEN front[k] ELSE last[k - Len(front)]
  BY <1>1, <1>2, ConcatProperties
<1>5. Len(front) + Len(last) = n + 2
  BY <1>1, <1>2, <1>3
<1>6. \A k \in 1..(n + 1) : (front \o last)[k] = front[k]
  BY <1>1, <1>2, <1>3, <1>4
<1>7. (front \o last)[n + 2] = b
  <2>1. n + 2 \in 1..(n + 2) /\ ~ n + 2 <= n + 1 /\ n + 2 - (n + 1) = 1
    BY <1>3
  <2> QED
    BY <1>1, <1>2, <1>3, <1>4, <1>5, <2>1
<1>8. (front \o last)[1] = a
  <2>1. 1 \in 1..(n + 1)
    BY <1>3
  <2> QED
    BY <1>2, <1>6, <2>1
<1>9. ASSUME NEW p \in 1..n PROVE (front \o last)[p + 1] = s[p]
  <2>1. p + 1 \in 2..(n + 1) /\ p + 1 \in 1..(n + 1) /\ p + 1 - 1 = p
    BY <1>3
  <2> QED
    BY <1>2, <1>6, <2>1
<1> QED
  BY <1>4, <1>5, <1>7, <1>8, <1>9 DEF Framed, front, last, n

KeptOf(text, vocab, uncased, maxLen) ==
    Cardinality({k \in DOMAIN Words(text) :
                    Len(FlattenSeq(SubSeq(PiecesOf(text, vocab, uncased), 1, k))) <= maxLen - 2})

\* enc is what the first kept words make.
CutOff(enc, pieces, kept, words) ==
    /\ enc.ids = <<CLS>> \o FlattenSeq(SubSeq(pieces, 1, kept)) \o <<SEP>>
    /\ enc.words = <<0>> \o OwnersOf(pieces, kept) \o <<0>>
    /\ enc.spans = SubSeq(words, 1, kept)

LEMMA OneUp ==
    ASSUME NEW x \in Nat, NEW y \in Nat, NEW p \in Int
    PROVE  p - 1 \in (x + 1)..y <=> p \in (x + 2)..(y + 1)
  OBVIOUS

\* The definition, its parts named.
LEMMA EncodeParts ==
    ASSUME NEW text, NEW vocab, NEW uncased, NEW maxLen
    PROVE  CutOff(Encode(text, vocab, uncased, maxLen), PiecesOf(text, vocab, uncased),
               KeptOf(text, vocab, uncased, maxLen), Words(text))
  BY DEF Encode, PiecesOf, KeptOf, WordAt, CutOff, OwnersOf

LEMMA EncodeIs ==
    ASSUME NEW text \in Seq(Letters), NEW vocab, NEW uncased, NEW maxLen \in Nat,
           NEW h, Laid(h, PiecesOf(text, vocab, uncased), Seq(Glyphs))
    PROVE  Encoded(Encode(text, vocab, uncased, maxLen), text, h, maxLen)
<1>1. PiecesOf(text, vocab, uncased) \in Seq(Seq(Seq(Glyphs)))
      /\ Len(PiecesOf(text, vocab, uncased)) = Len(Words(text))
  BY PiecesAre
<1>2. Cuts(Words(text), text)
  BY WordsAre DEF Letters
<1> PICK P : P = PiecesOf(text, vocab, uncased)
  OBVIOUS
<1> PICK W : W = Words(text)
  OBVIOUS
<1> PICK n : n = Len(W)
  OBVIOUS
<1> PICK G : G = Seq(Glyphs)
  OBVIOUS
<1> PICK kept : kept = KeptOf(text, vocab, uncased, maxLen)
  OBVIOUS
<1> PICK enc : enc = Encode(text, vocab, uncased, maxLen)
  OBVIOUS
<1>3. n \in Nat /\ DOMAIN W = 1..n /\ W \in Seq(Nat \X Nat)
  BY <1>2 DEF Cuts
<1>4. Laid(h, P, G) /\ P \in Seq(Seq(G)) /\ Len(P) = n
  BY <1>1
<1>5. CutOff(enc, P, kept, W)
  BY EncodeParts
<1>6. kept = Cardinality({k \in DOMAIN W : Len(FlattenSeq(SubSeq(P, 1, k))) <= maxLen - 2})
  BY DEF KeptOf
<1> PICK flat : flat = FlattenSeq(SubSeq(P, 1, kept))
  OBVIOUS
<1> PICK own : own = OwnersOf(P, kept)
  OBVIOUS
<1>7. \A k \in 0..n : FlattenSeq(SubSeq(P, 1, k)) = h[k] /\ h[k] \in Seq(G)
  <2>1. ASSUME NEW k \in 0..Len(P) PROVE FlattenSeq(SubSeq(P, 1, k)) = h[k]
    BY <1>4, FlattenPrefix
  <2> QED
    BY <1>4, <2>1 DEF Laid
<1>8. kept = Cardinality({k \in 1..n : Len(h[k]) <= maxLen - 2})
  <2>1. \A k \in 1..n : k \in 0..n
    OBVIOUS
  <2>2. {k \in DOMAIN W : Len(FlattenSeq(SubSeq(P, 1, k))) <= maxLen - 2}
          = {k \in 1..n : Len(h[k]) <= maxLen - 2}
    BY <1>3, <1>7, <2>1
  <2> QED
    BY <1>6, <2>2
<1>9. /\ kept \in 0..n
      /\ kept > 0 => Len(h[kept]) <= maxLen - 2
      /\ kept < n => Len(h[kept + 1]) > maxLen - 2
  <2>1. maxLen - 2 \in Int
    OBVIOUS
  <2>2. kept = Cardinality({k \in 1..Len(P) : Len(h[k]) <= maxLen - 2})
    BY <1>4, <1>8
  <2>3. Fitting(kept, h, Len(P), maxLen - 2)
    BY <1>4, <2>1, <2>2, KeptIs
  <2> QED
    BY ONLY <1>4, <2>3 DEF Fitting
<1>10. flat = h[kept] /\ flat \in Seq(G)
  BY <1>7, <1>9
<1>11. /\ own \in Seq(Nat) /\ Len(own) = Len(h[kept])
       /\ \A p \in 1..Len(own) : \A k \in 1..kept :
             own[p] = k <=> p \in (Len(h[k - 1]) + 1)..Len(h[k])
  <2>1. kept \in 0..Len(P)
    BY <1>4, <1>9
  <2>2. Owned(own, h, kept)
    BY <1>4, <2>1, OwnersAre
  <2> QED
    BY <2>2 DEF Owned
<1>12. /\ \A k \in 0..n : Len(h[k]) \in Nat
       /\ \A i, j \in 0..n : i <= j => Len(h[i]) <= Len(h[j])
  BY <1>4, LaidPlaces DEF Placed
<1>13. CLS \in G /\ SEP \in G
  BY DEF CLS, SEP, Glyphs
<1>14. /\ enc.ids \in Seq(G) /\ Len(enc.ids) = Len(h[kept]) + 2
       /\ \A p \in 1..Len(h[kept]) : enc.ids[p + 1] = h[kept][p]
  <2>1. Framed(<<CLS>> \o flat \o <<SEP>>, CLS, flat, SEP, G)
    BY <1>10, <1>13, FramedIs
  <2>2. enc.ids = <<CLS>> \o flat \o <<SEP>>
    BY <1>5 DEF CutOff
  <2> QED
    BY <1>10, <2>1, <2>2 DEF Framed
<1>15. /\ enc.words \in Seq(Nat) /\ Len(enc.words) = Len(own) + 2
       /\ enc.words[1] = 0 /\ enc.words[Len(own) + 2] = 0
       /\ \A p \in 1..Len(own) : enc.words[p + 1] = own[p]
  <2>1. 0 \in Nat
    OBVIOUS
  <2>2. Framed(<<0>> \o own \o <<0>>, 0, own, 0, Nat)
    BY <1>11, <2>1, FramedIs
  <2>3. enc.words = <<0>> \o own \o <<0>>
    BY <1>5 DEF CutOff
  <2> QED
    BY <2>2, <2>3 DEF Framed
<1>16. DOMAIN enc.words = 1..(Len(h[kept]) + 2)
  BY <1>11, <1>15, LenProperties
<1>17. ASSUME NEW p \in DOMAIN enc.words, NEW k \in 1..kept
       PROVE  enc.words[p] = k <=> p \in (Len(h[k - 1]) + 2)..(Len(h[k]) + 1)
  <2>1. /\ k - 1 \in 0..n /\ k \in 0..n /\ k <= kept /\ kept \in 0..n /\ k # 0
    BY <1>3, <1>9
  <2>2. /\ Len(h[k - 1]) \in Nat /\ Len(h[k]) \in Nat /\ Len(h[kept]) \in Nat
        /\ Len(h[k]) <= Len(h[kept])
    BY <1>12, <2>1
  <2>3. p \in 1..(Len(h[kept]) + 2)
    BY <1>16
  <2>4. CASE p = 1 \/ p = Len(h[kept]) + 2
    <3>1. enc.words[p] = 0
      BY <1>11, <1>15, <2>4
    <3>2. p \notin (Len(h[k - 1]) + 2)..(Len(h[k]) + 1)
      BY ONLY <2>2, <2>4
    <3> QED
      BY <2>1, <3>1, <3>2
  <2>5. CASE ~ (p = 1 \/ p = Len(h[kept]) + 2)
    <3>1. p - 1 \in 1..Len(h[kept]) /\ p - 1 + 1 = p
      BY ONLY <2>2, <2>3, <2>5
    <3>2. enc.words[p] = own[p - 1]
      <4>1. p - 1 \in 1..Len(own)
        BY <1>11, <3>1
      <4>2. enc.words[p - 1 + 1] = own[p - 1]
        BY <1>15, <4>1
      <4> QED
        BY <3>1, <4>2
    <3>3. own[p - 1] = k <=> p - 1 \in (Len(h[k - 1]) + 1)..Len(h[k])
      BY <1>11, <3>1
    <3>4. p - 1 \in (Len(h[k - 1]) + 1)..Len(h[k]) <=> p \in (Len(h[k - 1]) + 2)..(Len(h[k]) + 1)
      <4>1. p \in Int
        BY ONLY <2>2, <2>3
      <4> QED
        BY ONLY <2>2, <4>1, OneUp
    <3> QED
      BY <3>2, <3>3, <3>4
  <2> QED
    BY <2>4, <2>5
<1>18. /\ enc.spans \in Seq(Nat \X Nat) /\ Len(enc.spans) = kept
       /\ \A k \in 1..kept : enc.spans[k] = W[k]
  <2>1. kept \in Nat /\ \A k \in 1..kept : W[k] \in Nat \X Nat
    <3>1. \A k \in 1..kept : k \in 1..n
      BY <1>3, <1>9
    <3>2. \A k \in 1..n : W[k] \in Nat \X Nat
      BY <1>3, ElementOfSeq
    <3> QED
      BY <1>9, <3>1, <3>2
  <2>2. \A E : \A m \in Nat : (\A k \in 1..m : W[k] \in E) =>
           /\ SubSeq(W, 1, m) \in Seq(E) /\ Len(SubSeq(W, 1, m)) = m
           /\ \A k \in 1..m : SubSeq(W, 1, m)[k] = W[k]
    BY PrefixIs
  <2>3. enc.spans = SubSeq(W, 1, kept)
    BY <1>5 DEF CutOff
  <2> QED
    BY <2>1, <2>2, <2>3
<1>19. Encoded(enc, text, h, maxLen)
  BY <1>9, <1>14, <1>16, <1>17, <1>18 DEF Encoded
<1> QED
  BY <1>19

LEMMA EndsOf ==
    ASSUME NEW a \in Nat, NEW b \in Nat, a <= b
    PROVE  Min(a..b) = a /\ Max(a..b) = b /\ a..b # {}
<1> DEFINE S == a..b
<1>1. a \in S /\ b \in S /\ \A x \in S : a <= x /\ x <= b /\ x \in Nat
  OBVIOUS
<1> HIDE DEF S
<1>2. Min(S) \in S /\ \A y \in S : Min(S) <= y
  BY <1>1 DEF Min
<1>3. Max(S) \in S /\ \A y \in S : Max(S) >= y
  BY <1>1 DEF Max
<1>4. Min(S) = a
  <2>1. Min(S) <= a /\ a <= Min(S) /\ Min(S) \in Nat
    BY <1>1, <1>2
  <2> QED
    BY <2>1
<1>5. Max(S) = b
  <2>1. Max(S) >= b /\ b >= Max(S) /\ Max(S) \in Nat
    BY <1>1, <1>3
  <2> QED
    BY <2>1
<1> QED
  BY <1>1, <1>4, <1>5 DEF S

\* t are the l elements of s from i on.
Sliced(t, s, i, l, V) ==
    t \in Seq(V) /\ Len(t) = l /\ \A q \in 1..l : t[q] = s[i + q - 1]

LEMMA SliceIs ==
    ASSUME NEW V, NEW s \in Seq(V), NEW i \in Nat \ {0}, NEW l \in Nat, i + l - 1 <= Len(s)
    PROVE  Sliced(SubSeq(s, i, i + l - 1), s, i, l, V)
<1> PICK j : j = i + l - 1
  OBVIOUS
<1>1. j \in Int /\ i \in Int /\ Len(s) \in Nat /\ j <= Len(s) /\ j - i + 1 = l
      /\ (IF i <= j THEN j - i + 1 ELSE 0) = l
  BY LenProperties
<1>2. \A k \in i..j : s[k] \in V
  <2>1. \A k \in i..j : k \in 1..Len(s)
    BY <1>1
  <2> QED
    BY <2>1, ElementOfSeq
<1>3. /\ SubSeq(s, i, j) \in Seq(V)
      /\ Len(SubSeq(s, i, j)) = IF i <= j THEN j - i + 1 ELSE 0
      /\ \A q \in 1..(j - i + 1) : SubSeq(s, i, j)[q] = s[i + q - 1]
  BY ONLY <1>1, <1>2, SubSeqProperties
<1>4. Sliced(SubSeq(s, i, j), s, i, l, V)
  BY ONLY <1>1, <1>3 DEF Sliced
<1> QED
  BY <1>4

\* Where the pieces of a word are.
At(enc, k) == {p \in DOMAIN enc.words : enc.words[p] = k}

Settled(enc, h, pieces, k) ==
    /\ At(enc, k) = (Len(h[k - 1]) + 2)..(Len(h[k]) + 1)
    /\ Len(h[k - 1]) \in Nat /\ Len(pieces[k]) \in Nat
    /\ Len(h[k]) = Len(h[k - 1]) + Len(pieces[k])
    /\ Len(h[k]) <= Len(h[Len(enc.spans)])

LEMMA AtIs ==
    ASSUME NEW text \in Seq(Letters), NEW V, NEW P \in Seq(Seq(V)), Len(P) = Len(Words(text)),
           NEW h, Laid(h, P, V), NEW maxLen, NEW enc, Encoded(enc, text, h, maxLen),
           NEW k \in 1..Len(enc.spans)
    PROVE  Settled(enc, h, P, k)
<1> PICK n : n = Len(P)
  OBVIOUS
<1> PICK kept : kept = Len(enc.spans)
  OBVIOUS
<1>1. n \in Nat
  BY LenProperties
<1>2. /\ \A j \in 0..n : Len(h[j]) \in Nat
      /\ \A j \in 1..n : Len(h[j]) = Len(h[j - 1]) + Len(P[j]) /\ Len(P[j]) \in Nat
      /\ \A i, j \in 0..n : i <= j => Len(h[i]) <= Len(h[j])
  BY LaidPlaces DEF Placed
<1>3. /\ kept \in 0..n
      /\ DOMAIN enc.words = 1..(Len(h[kept]) + 2)
      /\ \A p \in DOMAIN enc.words, j \in 1..kept :
            enc.words[p] = j <=> p \in (Len(h[j - 1]) + 2)..(Len(h[j]) + 1)
  BY DEF Encoded
<1>4. k \in 1..n /\ k \in 0..n /\ k - 1 \in 0..n /\ k <= kept /\ kept \in 0..n /\ k \in 1..kept
  BY <1>1, <1>3
<1>5. /\ Len(h[k]) \in Nat /\ Len(h[k - 1]) \in Nat /\ Len(h[kept]) \in Nat
      /\ Len(h[k]) <= Len(h[kept])
      /\ Len(h[k]) = Len(h[k - 1]) + Len(P[k]) /\ Len(P[k]) \in Nat
  BY <1>2, <1>4
<1>6. \A p \in (Len(h[k - 1]) + 2)..(Len(h[k]) + 1) : p \in DOMAIN enc.words
  <2>1. \A x, y, z \in Nat : y <= z => \A p \in (x + 2)..(y + 1) : p \in 1..(z + 2)
    OBVIOUS
  <2> QED
    BY <1>3, <1>5, <2>1
<1>7. At(enc, k) = (Len(h[k - 1]) + 2)..(Len(h[k]) + 1)
  BY <1>3, <1>4, <1>6 DEF At
<1> QED
  BY <1>5, <1>7 DEF Settled

\* What is read back at a word are its pieces.
LEMMA SubwordsAre ==
    ASSUME NEW text \in Seq(Letters), NEW P \in Seq(Seq(Seq(Glyphs))), Len(P) = Len(Words(text)),
           NEW h, Laid(h, P, Seq(Glyphs)), NEW maxLen, NEW enc, Encoded(enc, text, h, maxLen),
           NEW k \in 1..Len(enc.spans)
    PROVE  Subwords(enc, k) = P[k]
<1> PICK kept : kept = Len(enc.spans)
  OBVIOUS
<1> PICK a : a = Len(h[k - 1])
  OBVIOUS
<1> PICK l : l = Len(P[k])
  OBVIOUS
<1>1. /\ At(enc, k) = (a + 2)..(a + l + 1)
      /\ a \in Nat /\ l \in Nat
      /\ Len(h[k]) = a + l /\ a + l <= Len(h[kept])
  <2>1. Settled(enc, h, P, k)
    BY AtIs
  <2> QED
    BY <2>1 DEF Settled
<1>2. /\ kept \in 0..Len(P)
      /\ enc.ids \in Seq(Seq(Glyphs)) /\ Len(enc.ids) = Len(h[kept]) + 2
      /\ \A p \in 1..Len(h[kept]) : enc.ids[p + 1] = h[kept][p]
  BY DEF Encoded
<1>3. Len(P) \in Nat /\ Len(h[kept]) \in Nat
  BY <1>2, LaidPlaces, LenProperties DEF Placed
<1>4. k \in 1..kept /\ k \in 1..Len(P)
  BY <1>2, <1>3
<1>5. P[k] \in Seq(Seq(Glyphs))
  BY <1>4, ElementOfSeq
<1>6. \A q \in 1..l : h[kept][a + q] = P[k][q]
  <2>1. Placed(h, P)
    BY LaidPlaces
  <2> QED
    BY <1>2, <1>4, <2>1 DEF Placed
<1>7. \A q \in 1..l : a + q \in 1..Len(h[kept])
  BY ONLY <1>1, <1>3
<1>8. \A q \in 1..l : enc.ids[a + q + 1] = P[k][q]
  BY <1>2, <1>6, <1>7
<1>9. CASE l = 0
  <2>1. At(enc, k) = {}
    BY <1>1, <1>9
  <2>2. P[k] = <<>>
    BY <1>5, <1>9, EmptySeq
  <2> QED
    BY <2>1, <2>2 DEF Subwords, At
<1>10. CASE l # 0
  <2>1. a + 2 \in Nat /\ a + l + 1 \in Nat /\ a + 2 <= a + l + 1
    BY ONLY <1>1, <1>10
  <2>2. /\ Min(At(enc, k)) = a + 2 /\ Max(At(enc, k)) = a + l + 1
        /\ At(enc, k) # {}
    BY ONLY <1>1, <2>1, EndsOf
  <2>3. Subwords(enc, k) = SubSeq(enc.ids, a + 2, a + l + 1)
    BY <2>2 DEF Subwords, At
  <2>4. Sliced(SubSeq(enc.ids, a + 2, a + l + 1), enc.ids, a + 2, l, Seq(Glyphs))
    <3>1. a + 2 \in Nat \ {0} /\ l \in Nat \ {0} /\ a + 2 + l - 1 = a + l + 1
          /\ a + l + 1 <= Len(enc.ids)
      <4>1. a \in Nat /\ l \in Nat /\ l # 0
        BY ONLY <1>1, <1>10
      <4>2. a + l <= Len(h[kept]) /\ Len(h[kept]) \in Nat /\ Len(enc.ids) = Len(h[kept]) + 2
        BY ONLY <1>1, <1>2, <1>3
      <4>3. a + 2 \in Nat \ {0} /\ a + 2 + l - 1 = a + l + 1
        BY ONLY <4>1
      <4>4. a + l + 1 <= Len(enc.ids)
        BY ONLY <4>1, <4>2
      <4> QED
        BY ONLY <4>1, <4>3, <4>4
    <3>2. Sliced(SubSeq(enc.ids, a + 2, a + 2 + l - 1), enc.ids, a + 2, l, Seq(Glyphs))
      BY <1>2, <3>1, SliceIs
    <3> QED
      BY <3>1, <3>2
  <2>5. /\ Subwords(enc, k) \in Seq(Seq(Glyphs)) /\ Len(Subwords(enc, k)) = l
        /\ \A q \in 1..l : Subwords(enc, k)[q] = enc.ids[a + 2 + q - 1]
    BY <2>3, <2>4 DEF Sliced
  <2>6. \A q \in 1..l : Subwords(enc, k)[q] = P[k][q]
    <3>1. \A q \in 1..l : a + 2 + q - 1 = a + q + 1
      BY ONLY <1>1
    <3> QED
      BY <1>8, <2>5, <3>1
  <2>7. Len(P[k]) = l
    OBVIOUS
  <2> QED
    BY ONLY <1>5, <2>5, <2>6, <2>7, SeqEqual
<1> QED
  BY <1>9, <1>10

Holding(spans, kept, p) == {k \in 1..kept : p \in spans[k][1]..spans[k][2]}

\* Up to the end of the last word, every character but a space is in exactly one word.
LEMMA WordsHold ==
    ASSUME NEW text, NEW W, Cuts(W, text), NEW kept \in 1..Len(W), Len(text) \in Nat,
           NEW spans, \A k \in 1..kept : spans[k] = W[k], NEW p \in 1..(W[kept][2])
    PROVE  Cardinality(Holding(spans, kept, p)) = IF Class[text[p]] = "space" THEN 0 ELSE 1
<1> DEFINE S == Holding(spans, kept, p)
<1>1. /\ Len(W) \in Nat
      /\ \A k \in 1..Len(W) :
            /\ W[k][1] \in 1..Len(text) /\ W[k][2] \in 1..Len(text) /\ W[k][1] <= W[k][2]
            /\ \A q \in W[k][1]..W[k][2] : Class[text[q]] # "space"
      /\ \A j, k \in 1..Len(W) : j < k => W[j][2] < W[k][1]
      /\ \A q \in 1..Len(text) :
            Class[text[q]] # "space" => \E k \in 1..Len(W) : q \in W[k][1]..W[k][2]
  BY DEF Cuts
<1>2. \A k \in 1..kept : k \in 1..Len(W)
  BY <1>1
<1>3. \A k : k \in S <=> k \in 1..kept /\ p \in W[k][1]..W[k][2]
  BY DEF Holding
<1> HIDE DEF S
<1>4. CASE Class[text[p]] = "space"
  <2>1. \A k : k \notin S
    BY <1>1, <1>2, <1>3, <1>4
  <2>2. S = {}
    BY <2>1
  <2> QED
    BY <1>4, <2>2, FS_EmptySet DEF S
<1>5. CASE Class[text[p]] # "space"
  <2>1. p \in 1..Len(text) /\ p <= W[kept][2] /\ p \in Nat
    BY <1>1
  <2>2. PICK k \in 1..Len(W) : p \in W[k][1]..W[k][2]
    BY <1>1, <1>5, <2>1
  <2>3. k <= kept
    <3>1. ASSUME kept < k PROVE FALSE
      <4>1. W[kept][2] < W[k][1] /\ W[k][1] <= p /\ W[kept][2] \in Nat /\ W[k][1] \in Nat
        BY <1>1, <2>2, <3>1
      <4> QED
        BY <2>1, <4>1
    <3> QED
      BY <1>1, <3>1
  <2>4. k \in S
    BY <1>1, <1>3, <2>2, <2>3
  <2>5. ASSUME NEW j \in S PROVE j = k
    <3>1. j \in 1..Len(W) /\ p \in W[j][1]..W[j][2]
      BY <1>2, <1>3
    <3>2. /\ W[j][1] \in Nat /\ W[j][2] \in Nat /\ W[k][1] \in Nat /\ W[k][2] \in Nat
          /\ ~ W[j][2] < W[k][1] /\ ~ W[k][2] < W[j][1]
      <4>1. /\ W[j][1] \in 1..Len(text) /\ W[j][2] \in 1..Len(text)
            /\ W[k][1] \in 1..Len(text) /\ W[k][2] \in 1..Len(text)
        BY ONLY <1>1, <2>2, <3>1
      <4>2. \A a, b, c, d : /\ a \in 1..Len(text) /\ b \in 1..Len(text) /\ c \in 1..Len(text)
                           /\ d \in 1..Len(text) /\ p \in a..b /\ p \in c..d
                           => /\ a \in Nat /\ b \in Nat /\ c \in Nat /\ d \in Nat
                              /\ ~ b < c /\ ~ d < a
        BY ONLY <2>1, Len(text) \in Nat
      <4> QED
        BY ONLY <2>2, <3>1, <4>1, <4>2
    <3>3. ~ j < k /\ ~ k < j
      <4>1. (j < k => W[j][2] < W[k][1]) /\ (k < j => W[k][2] < W[j][1])
        BY ONLY <1>1, <2>2, <3>1
      <4> QED
        BY ONLY <3>2, <4>1
    <3> QED
      BY ONLY <1>1, <2>2, <3>1, <3>3
  <2>6. S = {k}
    BY <2>4, <2>5
  <2> QED
    BY <1>5, <2>6, FS_Singleton DEF S
<1> QED
  BY <1>4, <1>5

\* A piece without its mark is a part of the word.
LEMMA UnmarkedIs ==
    ASSUME NEW w \in Seq(Letters), NEW i \in 1..Len(w), NEW j \in i..Len(w)
    PROVE  Unmarked(Piece(w, i, j)) = SubSeq(w, i, j)
<1> PICK s : s = SubSeq(w, i, j)
  OBVIOUS
<1>1. Len(w) \in Nat
  BY LenProperties
<1>2. /\ s \in Seq(Letters) /\ Len(s) = j - i + 1
      /\ \A k \in 1..(j - i + 1) : s[k] = w[i + k - 1]
  BY PieceType
<1>3. s # <<>> /\ s[1] = w[i] /\ s[1] \in Letters
  <2>1. j - i + 1 \in Nat \ {0} /\ 1 \in 1..(j - i + 1) /\ i + 1 - 1 = i
    BY ONLY <1>1
  <2>2. s # <<>>
    BY <1>2, <2>1, EmptySeq
  <2>3. s[1] = w[i]
    BY <1>2, <2>1
  <2>4. s[1] \in Letters
    BY <1>2, <2>1, ElementOfSeq
  <2> QED
    BY <2>2, <2>3, <2>4
<1>4. "##" \notin Letters
  BY CharactersAssumption DEF Letters
<1>5. CASE i = 1
  <2>1. Piece(w, i, j) = s
    <3>1. ~ i > 1
      BY <1>5
    <3>2. Piece(w, i, j) = <<>> \o s
      BY <3>1 DEF Piece
    <3> QED
      BY <1>2, <3>2, ConcatEmptySeq
  <2> QED
    BY <1>3, <1>4, <2>1 DEF Unmarked
<1>6. CASE i # 1
  <2>1. Piece(w, i, j) = <<"##">> \o s
    <3>1. i > 1
      BY ONLY <1>1, <1>6
    <3> QED
      BY <3>1 DEF Piece
  <2>2. s \in Seq(Glyphs) /\ "##" \in Glyphs
    BY <1>2, SeqMonotonic DEF Glyphs
  <2> PICK q : q = <<"##">> \o s
    OBVIOUS
  <2>3. /\ q \in Seq(Glyphs) /\ Len(q) = Len(s) + 1 /\ q[1] = "##"
        /\ \A k \in 2..(Len(s) + 1) : q[k] = s[k - 1]
    BY <2>2, PrependIs
  <2>4. Len(s) \in Nat
    BY <1>2, LenProperties
  <2>5. q # <<>>
    BY <2>3, <2>4, EmptySeq
  <2>6. Tail(q) = s
    <3>1. /\ Tail(q) \in Seq(Glyphs) /\ Len(Tail(q)) = Len(q) - 1
          /\ \A k \in 1..Len(Tail(q)) : Tail(q)[k] = q[k + 1]
      BY <2>3, <2>5, HeadTailProperties
    <3>2. Len(Tail(q)) = Len(s)
      BY ONLY <2>3, <2>4, <3>1
    <3>3. \A k \in 1..Len(s) : k + 1 \in 2..(Len(s) + 1) /\ k + 1 - 1 = k
      BY ONLY <2>4
    <3>4. \A k \in 1..Len(Tail(q)) : Tail(q)[k] = s[k]
      BY ONLY <2>3, <3>1, <3>2, <3>3
    <3> QED
      BY ONLY <2>2, <3>1, <3>2, <3>4, SeqEqual
  <2> QED
    BY <2>1, <2>3, <2>5, <2>6 DEF Unmarked
<1> QED
  BY <1>5, <1>6

UpTo(pieces, i) == Len(Spelled(SubSeq(pieces, 1, i)))

\* The pieces spell the word, the first i of them up to where the i-th ends.
SpellsUpTo(p, w, e) == Spelled(p) = w /\ \A i \in 0..Len(p) : UpTo(p, i) = e[i]

LEMMA SpelledIs ==
    ASSUME NEW w \in Seq(Letters), NEW vocab, NEW p \in Seq(Seq(Glyphs)), NEW e, CutUp(e, p, w, vocab, 1)
    PROVE  SpellsUpTo(p, w, e)
<1> DEFINE n == Len(p)
           m == Len(w)
           u == [k \in DOMAIN p |-> Unmarked(p[k])]
           h == [k \in 0..n |-> SubSeq(w, 1, e[k])]
<1>1. n \in Nat /\ m \in Nat /\ DOMAIN p = 1..n
  BY LenProperties
<1>2. /\ \A k \in 0..n : e[k] \in 0..m
      /\ e[0] = 0 /\ e[n] = m
      /\ \A k \in 1..n : e[k - 1] < e[k] /\ p[k] = Piece(w, e[k - 1] + 1, e[k])
  <2>1. /\ e \in [0..n -> 0..m]
        /\ e[0] = 1 - 1 /\ e[n] = m
        /\ \A k \in 1..n : e[k - 1] < e[k] /\ p[k] = Piece(w, e[k - 1] + 1, e[k])
    BY DEF CutUp
  <2> HIDE DEF n, m
  <2> QED
    BY ONLY <1>1, <2>1
<1> HIDE DEF n, m
<1>3. \A k \in 1..n : /\ k - 1 \in 0..n /\ k \in 0..n
                      /\ e[k - 1] \in 0..m /\ e[k] \in 0..m
                      /\ e[k - 1] + 1 \in 1..m /\ e[k] \in (e[k - 1] + 1)..m
  <2>1. \A k \in 1..n : k - 1 \in 0..n /\ k \in 0..n
    BY ONLY <1>1
  <2>2. \A k \in 1..n : e[k - 1] \in 0..m /\ e[k] \in 0..m /\ e[k - 1] < e[k]
    BY ONLY <1>2, <2>1
  <2>3. \A i, j \in 0..m : i < j => i + 1 \in 1..m /\ j \in (i + 1)..m
    BY ONLY <1>1
  <2> QED
    BY ONLY <2>1, <2>2, <2>3
<1>4. ASSUME NEW k \in 1..n
      PROVE  u[k] = SubSeq(w, e[k - 1] + 1, e[k]) /\ u[k] \in Seq(Letters)
  <2>1. u[k] = Unmarked(Piece(w, e[k - 1] + 1, e[k]))
    BY <1>1, <1>2
  <2>2. e[k - 1] + 1 \in 1..Len(w) /\ e[k] \in (e[k - 1] + 1)..Len(w)
    BY <1>3 DEF m
  <2> HIDE DEF u
  <2>3. Unmarked(Piece(w, e[k - 1] + 1, e[k])) = SubSeq(w, e[k - 1] + 1, e[k])
    BY <2>2, UnmarkedIs
  <2>4. SubSeq(w, e[k - 1] + 1, e[k]) \in Seq(Letters)
    BY <2>2, PieceType
  <2> QED
    BY ONLY <2>1, <2>3, <2>4
<1>5. u \in Seq(Seq(Letters)) /\ Len(u) = n
  <2>1. u = [k \in 1..n |-> u[k]]
    BY <1>1
  <2> HIDE DEF u
  <2>2. u \in [1..n -> Seq(Letters)]
    BY <1>4, <2>1
  <2> QED
    BY <1>1, <2>2
<1>6. \A k \in 0..n : SubSeq(w, 1, e[k]) \in Seq(Letters) /\ Len(SubSeq(w, 1, e[k])) = e[k]
  <2>1. \A l \in 0..m : SubSeq(w, 1, l) \in Seq(Letters) /\ Len(SubSeq(w, 1, l)) = l
    <3> TAKE l \in 0..m
    <3>1. \A j \in 1..l : j \in 1..Len(w)
      BY <1>1 DEF m
    <3>2. \A j \in 1..l : w[j] \in Letters
      BY <3>1, ElementOfSeq
    <3>3. l \in Nat
      BY <1>1
    <3> QED
      BY <3>2, <3>3, PrefixIs
  <2> QED
    BY <1>2, <2>1
<1>7. \A k \in 0..n : h[k] = SubSeq(w, 1, e[k])
  OBVIOUS
<1>8. h \in [0..n -> Seq(Letters)]
  BY <1>6
<1> HIDE DEF h, u
<1>9. h[0] = <<>>
  <2>1. 0 \in 0..n
    BY <1>1
  <2> QED
    BY <1>2, <1>6, <1>7, <2>1, EmptySeq
<1>10. ASSUME NEW k \in 1..n PROVE h[k] = h[k - 1] \o u[k]
  <2> PICK a : a = e[k - 1]
    OBVIOUS
  <2> PICK b : b = e[k]
    OBVIOUS
  <2>1. a \in 0..m /\ b \in 0..m /\ a + 1 \in 1..m /\ b \in (a + 1)..m
    BY <1>3
  <2>2. 1 \in 1..(Len(w) + 1) /\ a \in (1 - 1)..Len(w) /\ b \in a..Len(w)
    BY ONLY <1>1, <2>1 DEF m
  <2>3. SubSeq(w, 1, a) \o SubSeq(w, a + 1, b) = SubSeq(w, 1, b)
    BY ONLY <2>2, w \in Seq(Letters), ConcatAdjacentSubSeq
  <2>4. u[k] = SubSeq(w, a + 1, b)
    BY <1>4
  <2>5. h[k - 1] = SubSeq(w, 1, a) /\ h[k] = SubSeq(w, 1, b)
    BY <1>3, <1>7
  <2> QED
    BY ONLY <2>3, <2>4, <2>5
<1>11. Laid(h, u, Letters)
  BY <1>5, <1>8, <1>9, <1>10 DEF Laid
<1>12. Spelled(p) = w
  <2>1. FlattenSeq(u) = h[n]
    BY <1>5, <1>11, FlattenIs
  <2>2. n \in 0..n
    BY <1>1
  <2>3. h[n] = SubSeq(w, 1, m)
    BY <1>2, <1>7, <2>2
  <2>4. SubSeq(w, 1, m) = w
    BY SubSeqFull DEF m
  <2> QED
    BY <2>1, <2>3, <2>4 DEF Spelled, u
<1>13. ASSUME NEW i \in 0..n PROVE UpTo(p, i) = e[i]
  <2> PICK q : q = SubSeq(p, 1, i)
    OBVIOUS
  <2>1. i \in Nat /\ \A k \in 1..i : k \in 1..n
    BY <1>1
  <2>2. q \in Seq(Seq(Glyphs)) /\ Len(q) = i /\ \A k \in 1..i : q[k] = p[k]
    <3>1. \A k \in 1..i : p[k] \in Seq(Glyphs)
      BY <2>1, ElementOfSeq DEF n
    <3> QED
      BY <2>1, <3>1, PrefixIs
  <2>3. DOMAIN q = 1..i
    BY <2>2, LenProperties
  <2> PICK v : v = [k \in DOMAIN q |-> Unmarked(q[k])]
    OBVIOUS
  <2>4. v \in Seq(Seq(Letters)) /\ Len(v) = i /\ \A k \in 1..i : v[k] = u[k]
    <3>1. \A k \in 1..i : v[k] = Unmarked(p[k])
      BY <2>2, <2>3
    <3>2. \A k \in 1..i : u[k] = Unmarked(p[k])
      BY <1>1, <2>1 DEF u
    <3>3. \A k \in 1..i : v[k] = u[k]
      BY <3>1, <3>2
    <3>4. v = [k \in 1..i |-> v[k]]
      BY <2>3
    <3>5. \A k \in 1..i : v[k] \in Seq(Letters)
      BY <1>4, <2>1, <3>3
    <3>6. v \in [1..i -> Seq(Letters)]
      BY ONLY <3>4, <3>5
    <3>7. v \in Seq(Seq(Letters)) /\ Len(v) = i
      BY ONLY <2>1, <3>6
    <3> QED
      BY <3>3, <3>7
  <2>5. v = SubSeq(u, 1, i)
    <3>1. \A k \in 1..i : u[k] \in Seq(Letters)
      BY <1>4, <2>1
    <3>2. /\ SubSeq(u, 1, i) \in Seq(Seq(Letters)) /\ Len(SubSeq(u, 1, i)) = i
          /\ \A k \in 1..i : SubSeq(u, 1, i)[k] = u[k]
      BY <2>1, <3>1, PrefixIs
    <3> QED
      BY ONLY <2>4, <3>2, SeqEqual
  <2>6. FlattenSeq(v) = h[i]
    <3>1. i \in 0..Len(u)
      BY <1>5
    <3>2. FlattenSeq(SubSeq(u, 1, i)) = h[i]
      BY ONLY <1>5, <1>11, <3>1, FlattenPrefix
    <3> QED
      BY ONLY <2>5, <3>2
  <2>7. Spelled(q) = SubSeq(w, 1, e[i])
    BY <1>7, <2>6 DEF Spelled
  <2> QED
    BY <1>6, <2>7 DEF UpTo
<1> QED
  BY <1>12, <1>13 DEF SpellsUpTo, n

\* What EncodingExact asks of the pieces of a word.
SpellsWord(pieces, word, vocab) ==
    /\ Spelled(pieces) = word
    /\ \A i \in DOMAIN pieces :
          /\ pieces[i] = Piece(word, UpTo(pieces, i - 1) + 1, UpTo(pieces, i))
          /\ \A j \in (UpTo(pieces, i) + 1)..Len(word) :
                Piece(word, UpTo(pieces, i - 1) + 1, j) \notin vocab

LEMMA PiecesSpell ==
    ASSUME NEW w \in Seq(Letters), NEW vocab
    PROVE  WordPiece(w, vocab) = <<UNK>> \/ SpellsWord(WordPiece(w, vocab), w, vocab)
<1> PICK p : p = WordPiece(w, vocab)
  OBVIOUS
<1>1. p \in Seq(Seq(Glyphs)) /\ (p = <<UNK>> \/ \E e : CutUp(e, p, w, vocab, 1))
  BY WordPieceIs
<1>2. ASSUME NEW e, CutUp(e, p, w, vocab, 1) PROVE SpellsWord(p, w, vocab)
  <2>1. Spelled(p) = w /\ \A i \in 0..Len(p) : UpTo(p, i) = e[i]
    <3>1. SpellsUpTo(p, w, e)
      BY <1>1, <1>2, SpelledIs
    <3> QED
      BY ONLY <3>1 DEF SpellsUpTo
  <2>2. Len(p) \in Nat /\ DOMAIN p = 1..Len(p)
    BY <1>1, LenProperties
  <2>3. ASSUME NEW i \in 1..Len(p)
        PROVE  /\ p[i] = Piece(w, UpTo(p, i - 1) + 1, UpTo(p, i))
               /\ \A j \in (UpTo(p, i) + 1)..Len(w) : Piece(w, UpTo(p, i - 1) + 1, j) \notin vocab
    <3>1. i \in 0..Len(p) /\ i - 1 \in 0..Len(p)
      BY ONLY <2>2
    <3>2. UpTo(p, i) = e[i] /\ UpTo(p, i - 1) = e[i - 1]
      BY <2>1, <3>1
    <3>3. /\ p[i] = Piece(w, e[i - 1] + 1, e[i])
          /\ \A j \in (e[i] + 1)..Len(w) : Piece(w, e[i - 1] + 1, j) \notin vocab
      BY <1>2 DEF CutUp
    <3> QED
      BY ONLY <3>2, <3>3
  <2> QED
    BY <2>1, <2>2, <2>3 DEF SpellsWord
<1> QED
  BY <1>1, <1>2

\* What is kept of a text is as it should be.
LEMMA EncodingIs ==
    ASSUME NEW text \in Seq(Letters), NEW vocab, NEW uncased, NEW maxLen \in Nat, maxLen >= 2
    PROVE  EncodingExact(text, vocab, uncased, maxLen, Encode(text, vocab, uncased, maxLen))
<1>1. /\ PiecesOf(text, vocab, uncased) \in Seq(Seq(Seq(Glyphs)))
      /\ Len(PiecesOf(text, vocab, uncased)) = Len(Words(text))
      /\ \A k \in 1..Len(Words(text)) :
            /\ WordAt(text, uncased, k) \in Seq(Letters)
            /\ PiecesOf(text, vocab, uncased)[k] = WordPiece(WordAt(text, uncased, k), vocab)
  BY PiecesAre
<1>2. \E h : Laid(h, PiecesOf(text, vocab, uncased), Seq(Glyphs))
  BY <1>1, LaidOut
<1> PICK h : Laid(h, PiecesOf(text, vocab, uncased), Seq(Glyphs))
  BY <1>2
<1>3. Len(text) \in Nat /\ 3 * Len(text) + 2 \in Nat
  BY LenProperties
<1>4. /\ Encoded(Encode(text, vocab, uncased, maxLen), text, h, maxLen)
      /\ Encoded(Encode(text, vocab, uncased, 3 * Len(text) + 2), text, h, 3 * Len(text) + 2)
  BY <1>3, EncodeIs
<1>5. Cuts(Words(text), text)
  BY WordsAre DEF Letters
<1> PICK P : P = PiecesOf(text, vocab, uncased)
  OBVIOUS
<1> PICK W : W = Words(text)
  OBVIOUS
<1> PICK enc : enc = Encode(text, vocab, uncased, maxLen)
  OBVIOUS
<1> PICK all : all = Encode(text, vocab, uncased, 3 * Len(text) + 2)
  OBVIOUS
<1> PICK kept : kept = Len(enc.spans)
  OBVIOUS
<1>6. Laid(h, P, Seq(Glyphs)) /\ P \in Seq(Seq(Seq(Glyphs))) /\ Len(P) = Len(W) /\ Len(W) \in Nat
  BY <1>1, <1>5 DEF Cuts
<1>7. /\ kept \in 0..Len(W)
      /\ \A k \in 1..kept : enc.spans[k] = W[k]
      /\ Len(enc.ids) = Len(h[kept]) + 2
      /\ kept > 0 => Len(h[kept]) <= maxLen - 2
      /\ kept < Len(W) => Len(h[kept + 1]) > maxLen - 2
  BY <1>4 DEF Encoded
<1>8. /\ \A k \in 0..Len(W) : Len(h[k]) \in Nat
      /\ Len(h[0]) = 0
      /\ \A k \in 1..Len(W) : Len(h[k]) = Len(h[k - 1]) + Len(P[k]) /\ Len(P[k]) \in Nat
  <2>1. Placed(h, P)
    BY <1>6, LaidPlaces
  <2> QED
    BY ONLY <1>6, <2>1 DEF Placed
<1> DEFINE end == IF kept = 0 THEN 0 ELSE enc.spans[kept][2]
<1>9. ASSUME NEW p \in 1..end
      PROVE  Cardinality(Holding(enc.spans, kept, p)) = IF Class[text[p]] = "space" THEN 0 ELSE 1
  <2>1. kept # 0
    BY <1>9
  <2>2. kept \in 1..kept /\ kept \in 1..Len(W)
    BY ONLY <1>6, <1>7, <2>1
  <2>3. p \in 1..(W[kept][2])
    BY <1>7, <1>9, <2>1, <2>2
  <2> QED
    <3>1. Cuts(W, text) /\ \A k \in 1..kept : enc.spans[k] = W[k]
      BY <1>5, <1>7
    <3>2. Len(text) \in Nat
      BY <1>3
    <3>3. kept \in 1..Len(W)
      BY <2>2
    <3> QED
      BY ONLY <2>3, <3>1, <3>2, <3>3, WordsHold
<1>10. ASSUME NEW k \in 1..kept
       PROVE  LET word == NormalForm(SubSeq(text, enc.spans[k][1], enc.spans[k][2]), uncased)
              IN  Subwords(enc, k) = <<UNK>> \/ SpellsWord(Subwords(enc, k), word, vocab)
  <2>1. k \in 1..Len(W)
    BY ONLY <1>6, <1>7
  <2>2. Subwords(enc, k) = P[k]
    BY <1>4, <1>6, SubwordsAre
  <2>3. P[k] = WordPiece(WordAt(text, uncased, k), vocab) /\ WordAt(text, uncased, k) \in Seq(Letters)
    BY <1>1, <2>1
  <2>4. WordAt(text, uncased, k) = NormalForm(SubSeq(text, enc.spans[k][1], enc.spans[k][2]), uncased)
    BY <1>7 DEF WordAt
  <2>5. P[k] = <<UNK>> \/ SpellsWord(P[k], WordAt(text, uncased, k), vocab)
    BY <2>3, PiecesSpell
  <2> QED
    BY ONLY <2>2, <2>4, <2>5
<1>11. Len(enc.ids) <= maxLen
  <2>1. CASE kept = 0
    BY ONLY maxLen \in Nat, maxLen >= 2, <1>7, <1>8, <2>1
  <2>2. CASE kept # 0
    <3>1. kept > 0 /\ Len(h[kept]) \in Nat
      BY ONLY <1>6, <1>7, <1>8, <2>2
    <3> QED
      BY ONLY maxLen \in Nat, <1>7, <3>1
  <2> QED
    BY <2>1, <2>2
<1>12. ASSUME kept < Len(all.spans)
       PROVE  Len(enc.ids) + Len(Subwords(all, kept + 1)) > maxLen
  <2>1. Len(all.spans) \in 0..Len(W)
    BY <1>4 DEF Encoded
  <2>2. kept + 1 \in 1..Len(all.spans) /\ kept + 1 \in 1..Len(W) /\ kept < Len(W)
        /\ kept \in 0..Len(W) /\ kept + 1 - 1 = kept
    <3>1. kept \in 0..Len(W) /\ Len(W) \in Nat
      BY ONLY <1>6, <1>7
    <3> QED
      BY ONLY <1>12, <2>1, <3>1
  <2>3. Subwords(all, kept + 1) = P[kept + 1]
    BY <1>4, <1>6, <2>2, SubwordsAre
  <2>4. Len(h[kept + 1]) = Len(h[kept]) + Len(P[kept + 1]) /\ Len(P[kept + 1]) \in Nat
    <3> PICK k : k = kept + 1
      OBVIOUS
    <3>1. k \in 1..Len(W) /\ k - 1 = kept
      BY <2>2
    <3>2. Len(h[k]) = Len(h[k - 1]) + Len(P[k]) /\ Len(P[k]) \in Nat
      BY ONLY <1>8, <3>1
    <3> QED
      BY <3>1, <3>2
  <2>5. Len(h[kept + 1]) > maxLen - 2 /\ Len(enc.ids) = Len(h[kept]) + 2 /\ Len(h[kept]) \in Nat
    BY ONLY <1>7, <1>8, <2>2
  <2> QED
    <3> PICK l : l = Len(P[kept + 1])
      OBVIOUS
    <3>1. Len(Subwords(all, kept + 1)) = l
      BY ONLY <2>3, l = Len(P[kept + 1])
    <3>2. l \in Nat /\ Len(h[kept]) + l > maxLen - 2
      BY ONLY <2>4, <2>5, l = Len(P[kept + 1])
    <3>3. Len(enc.ids) = Len(h[kept]) + 2 /\ Len(h[kept]) \in Nat /\ maxLen \in Nat
      BY <2>5
    <3>4. \A a, b, x, m \in Nat : a = b + 2 /\ b + x > m - 2 => a + x > m
      OBVIOUS
    <3>5. Len(enc.ids) \in Nat
      BY ONLY <3>3
    <3> QED
      BY ONLY <3>1, <3>2, <3>3, <3>4, <3>5
<1> HIDE DEF end
<1>13. EncodingExact(text, vocab, uncased, maxLen, enc)
  BY <1>9, <1>10, <1>11, <1>12 DEF EncodingExact, SpellsWord, UpTo, Holding, end
<1> QED
  BY <1>13

----------------------------------------------------------------------------
(* Entities                                                                *)

\* The entity of the characters from i to j.
EntityOf(text, i, j, tag) ==
    [text |-> SubSeq(text, i, AtMostOf(j, i + MaxSpanText - 1)), type |-> tag]

\* One step of _decode_bio.
BioStep(text, spans, label, d, w) ==
    CASE label[w].pre = "B" \/ (label[w].pre = "I" /\ label[w].tag # d.tag) ->
            [Flush(text, d) EXCEPT !.tag = label[w].tag, !.first = spans[w][1],
                                   !.last = spans[w][2]]
      [] label[w].pre = "I" /\ label[w].tag = d.tag -> [d EXCEPT !.last = spans[w][2]]
      [] label[w].pre = "O" -> Flush(text, d)

InOrderOf(spans) == [w \in DOMAIN spans |-> w]

Decoding(f, text, spans, label) ==
    f = [s \in SUBSET DOMAIN InOrderOf(spans) |->
            IF s = {} THEN Closed
            ELSE BioStep(text, spans, label, f[s \ {Max(s)}], InOrderOf(spans)[Max(s)])]

LEMMA BioIsChoice ==
    ASSUME NEW text, NEW spans, NEW label
    PROVE  DecodeBio(text, spans, label)
             = Flush(text, (CHOOSE f : Decoding(f, text, spans, label))[DOMAIN InOrderOf(spans)]).found
  BY DEF DecodeBio, FoldLeft, MapThenFoldSet, Decoding, BioStep, InOrderOf

\* What is open and what was found; the entities a text can have.
EntitiesOf(text, T) == {EntityOf(text, p[1], p[2], p[3]) : p \in Nat \X Nat \X T}

States(text, T) == [tag : T, first : Nat, last : Nat, found : Seq(EntitiesOf(text, T))]

\* What flush does, by its parts.
Flushed(e, d, text, T) ==
    /\ e \in States(text, T)
    /\ e.tag = "" /\ e.first = d.first /\ e.last = d.last
    /\ e.found = IF d.tag = "" \/ EntityOf(text, d.first, d.last, d.tag) \in ToSet(d.found)
                 THEN d.found ELSE Append(d.found, EntityOf(text, d.first, d.last, d.tag))

LEMMA FlushIs ==
    ASSUME NEW text, NEW T, "" \in T, NEW d \in States(text, T)
    PROVE  Flushed(Flush(text, d), d, text, T)
<1> PICK E : E = EntitiesOf(text, T)
  OBVIOUS
<1> PICK x : x = EntityOf(text, d.first, d.last, d.tag)
  OBVIOUS
<1> DEFINE f == IF d.tag = "" \/ x \in ToSet(d.found) THEN d.found ELSE Append(d.found, x)
<1>1. d \in [tag : T, first : Nat, last : Nat, found : Seq(E)]
  BY DEF States
<1>2. x \in E
  <2>1. <<d.first, d.last, d.tag>> \in Nat \X Nat \X T
    BY ONLY <1>1
  <2> PICK p : p = <<d.first, d.last, d.tag>>
    OBVIOUS
  <2>2. p \in Nat \X Nat \X T /\ p[1] = d.first /\ p[2] = d.last /\ p[3] = d.tag
    BY <2>1
  <2>3. x = EntityOf(text, p[1], p[2], p[3])
    BY <2>2
  <2> QED
    BY <2>2, <2>3 DEF EntitiesOf
<1>3. f \in Seq(E)
  <2>1. d.found \in Seq(E)
    BY ONLY <1>1
  <2>2. Append(d.found, x) \in Seq(E)
    BY ONLY <1>2, <2>1, AppendProperties
  <2> QED
    BY <2>1, <2>2
<1>4. Flush(text, d) = [d EXCEPT !.tag = "", !.found = f]
  BY DEF Flush, EntityOf
<1> HIDE DEF f
<1>5. /\ [d EXCEPT !.tag = "", !.found = f] \in [tag : T, first : Nat, last : Nat, found : Seq(E)]
      /\ [d EXCEPT !.tag = "", !.found = f].tag = ""
      /\ [d EXCEPT !.tag = "", !.found = f].first = d.first
      /\ [d EXCEPT !.tag = "", !.found = f].last = d.last
      /\ [d EXCEPT !.tag = "", !.found = f].found = f
  BY ONLY <1>1, <1>3, "" \in T
<1> QED
  BY <1>4, <1>5 DEF Flushed, States, f

\* Words and their labels.
Labelled(spans, label, T) ==
    /\ spans \in Seq(Nat \X Nat)
    /\ \A w \in 1..Len(spans) :
          \/ label[w] = Outside
          \/ label[w].pre \in {"B", "I"} /\ label[w].tag \in T \ {""}

\* What a step does, by its parts.
Stepped(e, d, text, spans, label, T, w) ==
    /\ e \in States(text, T)
    /\ label[w].pre = "O" => Flushed(e, d, text, T)
    /\ label[w].pre = "I" /\ label[w].tag = d.tag =>
          e.tag = d.tag /\ e.first = d.first /\ e.last = spans[w][2] /\ e.found = d.found
    /\ label[w].pre = "B" \/ (label[w].pre = "I" /\ label[w].tag # d.tag) =>
          /\ e.tag = label[w].tag /\ e.first = spans[w][1] /\ e.last = spans[w][2]
          /\ e.found = Flush(text, d).found

LEMMA BioStepIs ==
    ASSUME NEW text, NEW T, "" \in T, NEW spans, NEW label, Labelled(spans, label, T),
           NEW w \in 1..Len(spans), NEW d \in States(text, T)
    PROVE  Stepped(BioStep(text, spans, label, d, w), d, text, spans, label, T, w)
<1> PICK E : E = EntitiesOf(text, T)
  OBVIOUS
<1> PICK f : f = Flush(text, d)
  OBVIOUS
<1> PICK i : i = spans[w][1]
  OBVIOUS
<1> PICK j : j = spans[w][2]
  OBVIOUS
<1>1. i \in Nat /\ j \in Nat
  <2>1. spans \in Seq(Nat \X Nat)
    BY DEF Labelled
  <2>2. spans[w] \in Nat \X Nat
    BY <2>1, ElementOfSeq
  <2> QED
    BY <2>2
<1>2. Flushed(f, d, text, T)
  BY FlushIs
<1>3. /\ d \in [tag : T, first : Nat, last : Nat, found : Seq(E)]
      /\ f \in [tag : T, first : Nat, last : Nat, found : Seq(E)]
  BY <1>2 DEF Flushed, States
<1> PICK pre : pre = label[w].pre
  OBVIOUS
<1> PICK tag : tag = label[w].tag
  OBVIOUS
<1> PICK e : e = BioStep(text, spans, label, d, w)
  OBVIOUS
<1>4. (pre = "O" \/ pre = "I" \/ pre = "B") /\ tag \in T
  <2>1. label[w] = Outside \/ (label[w].pre \in {"B", "I"} /\ label[w].tag \in T)
    BY DEF Labelled
  <2>2. Outside.pre = "O" /\ Outside.tag = ""
    BY DEF Outside
  <2>3. CASE label[w] = Outside
    BY <2>2, <2>3
  <2>4. CASE label[w] # Outside
    BY <2>1, <2>4
  <2> QED
    BY <2>3, <2>4
<1>5. e = CASE pre = "B" \/ (pre = "I" /\ tag # d.tag) ->
                  [f EXCEPT !.tag = tag, !.first = i, !.last = j]
            [] pre = "I" /\ tag = d.tag -> [d EXCEPT !.last = j]
            [] pre = "O" -> f
  BY DEF BioStep
<1>6. CASE pre = "O"
  <2>1. e = f
    BY ONLY <1>5, <1>6
  <2> QED
    BY <1>2, <1>3, <1>6, <2>1 DEF Stepped, States
<1>7. CASE pre = "I" /\ tag = d.tag
  <2>1. e = [d EXCEPT !.last = j]
    BY ONLY <1>5, <1>7
  <2>2. /\ e \in [tag : T, first : Nat, last : Nat, found : Seq(E)]
        /\ e.tag = d.tag /\ e.first = d.first /\ e.last = j /\ e.found = d.found
    BY ONLY <1>1, <1>3, <2>1
  <2> QED
    BY <1>7, <2>2 DEF Stepped, States
<1>8. CASE pre = "B" \/ (pre = "I" /\ tag # d.tag)
  <2>1. e = [f EXCEPT !.tag = tag, !.first = i, !.last = j]
    BY ONLY <1>5, <1>8
  <2>2. /\ e \in [tag : T, first : Nat, last : Nat, found : Seq(E)]
        /\ e.tag = tag /\ e.first = i /\ e.last = j /\ e.found = f.found
    BY ONLY <1>1, <1>3, <1>4, <2>1
  <2> QED
    BY <1>8, <2>2 DEF Stepped, States
<1> QED
  BY <1>4, <1>6, <1>7, <1>8

\* Decoding goes through the words one after the other.
Decoded(h, text, spans, label, T) ==
    /\ h[0] = Closed /\ \A k \in 0..Len(spans) : h[k] \in States(text, T)
    /\ DecodeBio(text, spans, label) = Flush(text, h[Len(spans)]).found
    /\ \A k \in 1..Len(spans) : Stepped(h[k], h[k - 1], text, spans, label, T, k)

LEMMA BioRuns ==
    ASSUME NEW text, NEW T, "" \in T, NEW spans, NEW label, Labelled(spans, label, T)
    PROVE  \E h : Decoded(h, text, spans, label, T)
<1> PICK n : n = Len(spans)
  OBVIOUS
<1> DEFINE V == States(text, T)
           F == [p \in V \X (1..n) |-> BioStep(text, spans, label, p[1], p[2])]
<1>0. spans \in Seq(Nat \X Nat)
  BY DEF Labelled
<1>1. n \in Nat /\ DOMAIN spans = 1..n
  BY <1>0, LenProperties
<1>2. /\ Closed \in V
      /\ \A v \in V, k \in 1..n : /\ BioStep(text, spans, label, v, k) \in V
                                  /\ Stepped(BioStep(text, spans, label, v, k), v, text, spans, label, T, k)
  <2>1. Closed \in V
    <3>1. <<>> \in Seq(EntitiesOf(text, T))
      BY EmptySeq
    <3> QED
      BY <3>1 DEF Closed, States
  <2>2. ASSUME NEW v \in V, NEW k \in 1..n
        PROVE  Stepped(BioStep(text, spans, label, v, k), v, text, spans, label, T, k)
    BY BioStepIs
  <2>3. ASSUME NEW v \in V, NEW k \in 1..n PROVE BioStep(text, spans, label, v, k) \in V
    BY <2>2 DEF Stepped
  <2> HIDE DEF V
  <2> QED
    BY <2>1, <2>2, <2>3
<1>3. DOMAIN InOrderOf(spans) = 1..n /\ \A k \in 1..n : InOrderOf(spans)[k] = k
  BY <1>1 DEF InOrderOf
<1> HIDE DEF V
<1>4. F \in [V \X (1..n) -> V] /\ \A v \in V, k \in 1..n : F[<<v, k>>] = BioStep(text, spans, label, v, k)
  BY <1>2
<1> HIDE DEF F
<1>5. PICK f \in [SUBSET (1..n) -> V] : FoldsTo(f, n, Closed, F)
  BY <1>1, <1>2, <1>4, FoldExists
<1>6. Decoding(f, text, spans, label)
  <2>1. ASSUME NEW s \in SUBSET (1..n)
        PROVE  f[s] = IF s = {} THEN Closed
                      ELSE BioStep(text, spans, label, f[s \ {Max(s)}], InOrderOf(spans)[Max(s)])
    <3>1. f[s] = IF s = {} THEN Closed ELSE F[<<f[s \ {Max(s)}], Max(s)>>]
      BY <1>5 DEF FoldsTo
    <3>2. s # {} => Max(s) \in 1..n
      BY <1>1, LastOf
    <3>3. f[s \ {Max(s)}] \in V
      BY <1>5
    <3> QED
      BY ONLY <1>3, <1>4, <3>1, <3>2, <3>3
  <2> QED
    BY <1>3, <1>5, <2>1 DEF Decoding
<1> DEFINE g == CHOOSE f1 : Decoding(f1, text, spans, label)
<1>7. Decoding(g, text, spans, label)
  BY <1>6
<1>8. DecodeBio(text, spans, label) = Flush(text, g[1..n]).found
  BY <1>3, BioIsChoice
<1> HIDE DEF g
<1>9. \A s \in SUBSET (1..n) :
         g[s] = IF s = {} THEN Closed
                ELSE BioStep(text, spans, label, g[s \ {Max(s)}], InOrderOf(spans)[Max(s)])
  BY <1>3, <1>7 DEF Decoding
<1> DEFINE h == [k \in 0..n |-> g[1..k]]
<1>10. h[0] = Closed /\ h[n] = g[1..n]
  <2>1. 1..0 = {} /\ {} \in SUBSET (1..n) /\ 0 \in 0..n /\ n \in 0..n
    BY ONLY <1>1
  <2>2. h[0] = g[{}] /\ h[n] = g[1..n]
    BY <2>1
  <2> QED
    BY <1>9, <2>1, <2>2
<1>11. ASSUME NEW k \in 1..n PROVE h[k] = BioStep(text, spans, label, h[k - 1], k)
  <2>1. k \in Nat \ {0} /\ k \in 0..n /\ k - 1 \in 0..n /\ 1..k \in SUBSET (1..n)
    BY ONLY <1>1
  <2>2. Max(1..k) = k /\ (1..k) \ {k} = 1..(k - 1) /\ 1..k # {}
    BY <2>1, LastOfPrefix
  <2>3. g[1..k] = BioStep(text, spans, label, g[(1..k) \ {Max(1..k)}], InOrderOf(spans)[Max(1..k)])
    BY <1>9, <2>1, <2>2
  <2>4. g[1..k] = BioStep(text, spans, label, g[1..(k - 1)], k)
    BY <1>3, <2>2, <2>3
  <2> QED
    BY <2>1, <2>4
<1> HIDE DEF h
<1>12. \A k \in 0..n : h[k] \in V
  <2> DEFINE Bad == {k \in 0..n : h[k] \notin V}
  <2>1. ASSUME Bad # {} PROVE FALSE
    <3>1. Bad \in SUBSET Nat
      BY ONLY <1>1
    <3> HIDE DEF Bad
    <3>2. PICK k \in Bad : \A j \in Bad : k <= j
      BY <2>1, <3>1, Least
    <3>3. k \in 0..n /\ h[k] \notin V
      BY DEF Bad
    <3>4. k # 0
      BY <1>2, <1>10, <3>3
    <3>5. k \in 1..n /\ k - 1 \in 0..n /\ k - 1 \notin Bad
      BY ONLY <1>1, <3>1, <3>2, <3>3, <3>4
    <3>6. h[k - 1] \in V
      BY <3>5 DEF Bad
    <3> QED
      BY <1>2, <1>11, <3>3, <3>5, <3>6
  <2> QED
    BY <2>1
<1>13. \A k \in 1..n : Stepped(h[k], h[k - 1], text, spans, label, T, k)
  <2>1. \A k \in 1..n : k - 1 \in 0..n
    BY ONLY <1>1
  <2> QED
    BY <1>2, <1>11, <1>12, <2>1
<1>14. Decoded(h, text, spans, label, T)
  BY <1>8, <1>10, <1>12, <1>13 DEF Decoded, V
<1> QED
  BY <1>14

LEMMA AddedTo ==
    ASSUME NEW V, NEW s \in Seq(V), NEW x \in V
    PROVE  /\ \A e : e \in ToSet(Append(s, x)) <=> e \in ToSet(s) \/ e = x
           /\ IsInjective(s) /\ x \notin ToSet(s) => IsInjective(Append(s, x))
<1> PICK t : t = Append(s, x)
  OBVIOUS
<1> PICK n : n = Len(s)
  OBVIOUS
<1>1. n \in Nat /\ DOMAIN s = 1..n
  BY LenProperties
<1>2. /\ t \in Seq(V) /\ Len(t) = n + 1
      /\ \A i \in 1..n : t[i] = s[i]
      /\ t[n + 1] = x
  BY AppendProperties
<1>3. DOMAIN t = 1..(n + 1)
  BY <1>2, LenProperties
<1>4. \A i : i \in 1..(n + 1) <=> i \in 1..n \/ i = n + 1
  BY ONLY <1>1
<1>5. \A e : e \in ToSet(t) <=> e \in ToSet(s) \/ e = x
  BY ONLY <1>1, <1>2, <1>3, <1>4 DEF ToSet
<1>6. ASSUME IsInjective(s), x \notin ToSet(s) PROVE IsInjective(t)
  <2>1. \A i, j \in 1..n : s[i] = s[j] => i = j
    BY ONLY <1>1, <1>6 DEF IsInjective
  <2>2. \A i \in 1..n : s[i] # x
    BY ONLY <1>1, <1>6 DEF ToSet
  <2>3. \A i, j \in 1..(n + 1) : t[i] = t[j] => i = j
    BY ONLY <1>2, <1>4, <2>1, <2>2
  <2> QED
    BY ONLY <1>3, <2>3 DEF IsInjective
<1> QED
  BY <1>5, <1>6

\* Word w extends the entity of the word before; an entity begins with w; it goes on
\* from w through v; it is all of the words from w through v.
GoesOn(label, n, w) ==
    w <= n /\ label[w].pre = "I" /\ label[w - 1].pre # "O" /\ label[w].tag = label[w - 1].tag

Starting(label, n, w) == w \in 1..n /\ label[w].pre # "O" /\ (w = 1 \/ ~ GoesOn(label, n, w))

Through(label, n, w, v) == \A u \in (w + 1)..v : GoesOn(label, n, u)

Whole(label, n, w, v) ==
    Starting(label, n, w) /\ v \in w..n /\ Through(label, n, w, v) /\ ~ GoesOn(label, n, v + 1)

Written(text, spans, label, w, v) == EntityOf(text, spans[w][1], spans[v][2], label[w].tag)

\* The entities that end before word k are found, each once.
Found(found, text, spans, label, n, k) ==
    /\ \A e : e \in ToSet(found) <=>
          \E w, v \in 1..n : /\ Whole(label, n, w, v) /\ v < k
                             /\ e = Written(text, spans, label, w, v)
    /\ IsInjective(found)

\* The entity of word k is open.
Opened(d, spans, label, n, k) ==
    /\ d.tag = "" <=> k = 0 \/ label[k].pre = "O"
    /\ d.tag # "" =>
          \E w \in 1..k :
             /\ Starting(label, n, w) /\ Through(label, n, w, k)
             /\ d.first = spans[w][1] /\ d.last = spans[k][2]
             /\ d.tag = label[w].tag /\ d.tag = label[k].tag

\* An entity has one beginning.
LEMMA OneStart ==
    ASSUME NEW label, NEW n \in Nat, NEW v \in 1..n, NEW w \in 1..v, NEW u \in 1..v,
           Starting(label, n, w), Through(label, n, w, v),
           Starting(label, n, u), Through(label, n, u, v)
    PROVE  w = u
<1>1. ASSUME NEW a \in 1..v, NEW b \in 1..v, a < b, Starting(label, n, b), Through(label, n, a, v)
      PROVE  FALSE
  <2>1. b \in (a + 1)..v /\ b # 1
    BY ONLY n \in Nat, v \in 1..n, a \in 1..v, b \in 1..v, <1>1
  <2>2. GoesOn(label, n, b)
    BY <1>1, <2>1 DEF Through
  <2> QED
    BY <1>1, <2>1, <2>2 DEF Starting
<1>2. ~ w < u /\ ~ u < w
  BY <1>1
<1> QED
  BY ONLY n \in Nat, v \in 1..n, w \in 1..v, u \in 1..v, <1>2

\* A flush finds what was open, when word k does not go on with it.
LEMMA FlushFinds ==
    ASSUME NEW text, NEW T, NEW spans, NEW label, NEW n \in Nat, NEW k \in 1..(n + 1),
           k = 1 \/ ~ GoesOn(label, n, k), NEW d \in States(text, T), NEW f,
           Flushed(f, d, text, T), Opened(d, spans, label, n, k - 1),
           Found(d.found, text, spans, label, n, k - 1)
    PROVE  Found(f.found, text, spans, label, n, k)
<1> PICK E : E = EntitiesOf(text, T)
  OBVIOUS
<1>1. d.found \in Seq(E) /\ f.found \in Seq(E)
  BY DEF Flushed, States
<1> PICK x : x = EntityOf(text, d.first, d.last, d.tag)
  OBVIOUS
<1>2. f.found = IF d.tag = "" \/ x \in ToSet(d.found) THEN d.found ELSE Append(d.found, x)
  BY DEF Flushed
<1>3. /\ \A e : e \in ToSet(d.found) <=>
            \E w, v \in 1..n : /\ Whole(label, n, w, v) /\ v < k - 1
                               /\ e = Written(text, spans, label, w, v)
      /\ IsInjective(d.found)
  BY DEF Found
<1>4. \A v \in 1..n : v < k <=> v < k - 1 \/ v = k - 1
  BY ONLY n \in Nat, k \in 1..(n + 1)
<1>5. CASE d.tag = ""
  <2>1. f.found = d.found
    BY <1>2, <1>5
  <2>2. ASSUME NEW w \in 1..n, NEW v \in 1..n, Whole(label, n, w, v), v = k - 1 PROVE FALSE
    <3>1. label[v].pre = "O"
      <4>1. k - 1 # 0
        BY <2>2
      <4> QED
        BY <1>5, <2>2, <4>1 DEF Opened
    <3>2. w = v \/ v \in (w + 1)..v
      <4>1. v \in w..n
        BY <2>2 DEF Whole
      <4> QED
        BY <4>1
    <3>3. w # v
      BY <2>2, <3>1 DEF Whole, Starting
    <3>4. GoesOn(label, n, v)
      BY <2>2, <3>2, <3>3 DEF Whole, Through
    <3> QED
      BY <3>1, <3>4 DEF GoesOn
  <2> QED
    BY ONLY <1>3, <1>4, <2>1, <2>2 DEF Found
<1>6. CASE d.tag # ""
  <2>1. PICK w \in 1..(k - 1) :
           /\ Starting(label, n, w) /\ Through(label, n, w, k - 1)
           /\ d.first = spans[w][1] /\ d.last = spans[k - 1][2]
           /\ d.tag = label[w].tag /\ d.tag = label[k - 1].tag
    BY <1>6 DEF Opened
  <2>2. k - 1 \in 1..n /\ w \in 1..n /\ k - 1 \in w..n /\ k # 1 /\ k - 1 + 1 = k
    BY ONLY n \in Nat, k \in 1..(n + 1), w \in 1..(k - 1)
  <2>3. Whole(label, n, w, k - 1)
    BY <2>1, <2>2 DEF Whole
  <2>4. x = Written(text, spans, label, w, k - 1)
    BY <2>1 DEF Written
  <2>5. ASSUME NEW u \in 1..n, NEW v \in 1..n, Whole(label, n, u, v), v = k - 1 PROVE u = w
    <3>1. Starting(label, n, u) /\ u \in 1..(k - 1) /\ Through(label, n, u, k - 1)
      BY <2>5 DEF Whole, Starting
    <3> QED
      BY <2>1, <2>2, <3>1, OneStart
  <2>6. x \in E
    <3>1. d.first \in Nat /\ d.last \in Nat /\ d.tag \in T
      BY DEF States
    <3> PICK p : p = <<d.first, d.last, d.tag>>
      OBVIOUS
    <3>2. p \in Nat \X Nat \X T /\ x = EntityOf(text, p[1], p[2], p[3])
      BY <3>1
    <3> QED
      BY <3>2 DEF EntitiesOf
  <2>7. \A e : e \in ToSet(f.found) <=> e \in ToSet(d.found) \/ e = x
    <3>1. \A e : e \in ToSet(Append(d.found, x)) <=> e \in ToSet(d.found) \/ e = x
      BY <1>1, <2>6, AddedTo
    <3> QED
      BY ONLY <1>2, <1>6, <3>1
  <2>8. IsInjective(f.found)
    <3>1. x \notin ToSet(d.found) => IsInjective(Append(d.found, x))
      BY <1>1, <1>3, <2>6, AddedTo
    <3> QED
      BY ONLY <1>2, <1>3, <1>6, <3>1
  <2> QED
    <3>1. ASSUME NEW e
          PROVE  e \in ToSet(f.found) <=>
                    \E u, v \in 1..n : /\ Whole(label, n, u, v) /\ v < k
                                       /\ e = Written(text, spans, label, u, v)
      <4>1. ASSUME e \in ToSet(f.found)
            PROVE  \E u, v \in 1..n : /\ Whole(label, n, u, v) /\ v < k
                                      /\ e = Written(text, spans, label, u, v)
        <5>1. CASE e = x
          <6>1. k - 1 < k
            BY ONLY k \in 1..(n + 1)
          <6> QED
            BY ONLY <2>2, <2>3, <2>4, <5>1, <6>1
        <5>2. CASE e # x
          BY ONLY <1>3, <1>4, <2>7, <4>1, <5>2
        <5> QED
          BY <5>1, <5>2
      <4>2. ASSUME NEW u \in 1..n, NEW v \in 1..n, Whole(label, n, u, v), v < k,
                   e = Written(text, spans, label, u, v)
            PROVE  e \in ToSet(f.found)
        <5>1. CASE v = k - 1
          BY ONLY <2>4, <2>5, <2>7, <4>2, <5>1
        <5>2. CASE v # k - 1
          BY ONLY <1>3, <1>4, <2>7, <4>2, <5>2
        <5> QED
          BY <5>1, <5>2
      <4> QED
        BY ONLY <4>1, <4>2
    <3> QED
      BY ONLY <2>8, <3>1 DEF Found
<1> QED
  BY <1>5, <1>6

\* What holds after k words.
ReadTo(d, text, spans, label, n, k) ==
    Opened(d, spans, label, n, k) /\ Found(d.found, text, spans, label, n, k)

LEMMA ReadStep ==
    ASSUME NEW text, NEW T, "" \in T, NEW spans, NEW label, Labelled(spans, label, T),
           NEW n, n = Len(spans), NEW k \in 1..n, NEW d \in States(text, T), NEW e,
           Stepped(e, d, text, spans, label, T, k), ReadTo(d, text, spans, label, n, k - 1)
    PROVE  ReadTo(e, text, spans, label, n, k)
<1>1. n \in Nat
  <2>1. spans \in Seq(Nat \X Nat)
    BY DEF Labelled
  <2> QED
    BY <2>1, LenProperties
<1>2. /\ Opened(d, spans, label, n, k - 1) /\ Found(d.found, text, spans, label, n, k - 1)
      /\ k \in 1..(n + 1) /\ k # 0 /\ k \in 1..k
  <2>1. k \in 1..(n + 1) /\ k # 0 /\ k \in 1..k
    BY ONLY <1>1, k \in 1..n
  <2> QED
    BY <2>1 DEF ReadTo
<1>3. label[k].pre = "O" \/ ((label[k].pre = "I" \/ label[k].pre = "B") /\ label[k].tag # "")
  <2>1. label[k] = Outside \/ (label[k].pre \in {"B", "I"} /\ label[k].tag \in T \ {""})
    BY DEF Labelled
  <2>2. Outside.pre = "O"
    BY DEF Outside
  <2> QED
    BY <2>1, <2>2
<1> PICK f : f = Flush(text, d)
  OBVIOUS
<1>4. Flushed(f, d, text, T)
  BY FlushIs
<1>5. \A g : Flushed(g, d, text, T) /\ (k = 1 \/ ~ GoesOn(label, n, k))
         => Found(g.found, text, spans, label, n, k)
  BY <1>1, <1>2, FlushFinds
<1>6. CASE label[k].pre = "O"
  <2>1. Flushed(e, d, text, T)
    BY <1>6 DEF Stepped
  <2>2. ~ GoesOn(label, n, k)
    BY <1>6 DEF GoesOn
  <2>3. Found(e.found, text, spans, label, n, k)
    BY <1>5, <2>1, <2>2
  <2>4. e.tag = ""
    BY <2>1 DEF Flushed
  <2> QED
    BY <1>6, <2>3, <2>4 DEF ReadTo, Opened
<1>7. CASE label[k].pre = "I" /\ label[k].tag = d.tag
  <2>1. d.tag # ""
    BY <1>3, <1>7
  <2>2. PICK w \in 1..(k - 1) :
           /\ Starting(label, n, w) /\ Through(label, n, w, k - 1)
           /\ d.first = spans[w][1] /\ d.last = spans[k - 1][2]
           /\ d.tag = label[w].tag /\ d.tag = label[k - 1].tag
    BY <1>2, <2>1 DEF Opened
  <2>3. label[k - 1].pre # "O"
    BY <1>2, <2>1 DEF Opened
  <2>4. k <= n
    BY ONLY <1>1, k \in 1..n
  <2>5. GoesOn(label, n, k)
    BY <1>7, <2>2, <2>3, <2>4 DEF GoesOn
  <2>6. Through(label, n, w, k)
    <3>1. \A u \in (w + 1)..k : u = k \/ u \in (w + 1)..(k - 1)
      BY ONLY <1>1, k \in 1..n, w \in 1..(k - 1)
    <3> QED
      BY <2>2, <2>5, <3>1 DEF Through
  <2>7. e.tag = d.tag /\ e.first = d.first /\ e.last = spans[k][2] /\ e.found = d.found
    BY <1>7 DEF Stepped
  <2>8. w \in 1..k
    BY ONLY <1>1, k \in 1..n, w \in 1..(k - 1)
  <2>9. Opened(e, spans, label, n, k)
    BY <1>2, <1>7, <2>1, <2>2, <2>6, <2>7, <2>8 DEF Opened
  <2>10. ASSUME NEW u \in 1..n, NEW v \in 1..n, Whole(label, n, u, v)
         PROVE  v < k <=> v < k - 1
    <3>1. v # k - 1
      <4>1. ASSUME v = k - 1 PROVE FALSE
        <5>1. v + 1 = k
          BY ONLY k \in 1..n, <1>1, <4>1
        <5> QED
          BY <2>5, <2>10, <5>1 DEF Whole
      <4> QED
        BY <4>1
    <3> QED
      BY ONLY <1>1, k \in 1..n, v \in 1..n, <3>1
  <2>11. Found(d.found, text, spans, label, n, k)
    BY ONLY <1>2, <2>10 DEF Found
  <2> QED
    BY <2>7, <2>9, <2>11 DEF ReadTo
<1>8. CASE label[k].pre = "B" \/ (label[k].pre = "I" /\ label[k].tag # d.tag)
  <2>1. e.tag = label[k].tag /\ e.first = spans[k][1] /\ e.last = spans[k][2] /\ e.found = f.found
    BY <1>8 DEF Stepped
  <2>2. k = 1 \/ ~ GoesOn(label, n, k)
    <3>1. ASSUME k # 1, GoesOn(label, n, k) PROVE FALSE
      <4>1. /\ label[k].pre = "I" /\ label[k - 1].pre # "O" /\ label[k].tag = label[k - 1].tag
            /\ k - 1 # 0
        <5>1. k - 1 # 0
          BY ONLY <1>1, k \in 1..n, <3>1
        <5> QED
          BY <3>1, <5>1 DEF GoesOn
      <4>2. d.tag # ""
        BY <1>2, <4>1 DEF Opened
      <4>3. d.tag = label[k - 1].tag
        BY <1>2, <4>2 DEF Opened
      <4>4. label[k].tag # d.tag
        BY <1>8, <4>1
      <4> QED
        BY <4>1, <4>3, <4>4
    <3> QED
      BY <3>1
  <2>3. Found(e.found, text, spans, label, n, k)
    BY <1>4, <1>5, <2>1, <2>2
  <2>4. label[k].pre # "O" /\ label[k].tag # ""
    BY <1>3, <1>8
  <2>5. Starting(label, n, k) /\ Through(label, n, k, k)
    <3>1. \A u \in (k + 1)..k : FALSE
      BY ONLY <1>1, k \in 1..n
    <3> QED
      BY <2>2, <2>4, <3>1 DEF Starting, Through
  <2>6. Opened(e, spans, label, n, k)
    BY <1>2, <2>1, <2>4, <2>5 DEF Opened
  <2> QED
    BY <2>3, <2>6 DEF ReadTo
<1> QED
  BY <1>3, <1>6, <1>7, <1>8

\* All entities are found, each once.
LEMMA DecodingFinds ==
    ASSUME NEW text, NEW T, "" \in T, NEW spans, NEW label, Labelled(spans, label, T),
           NEW n, n = Len(spans)
    PROVE  Found(DecodeBio(text, spans, label), text, spans, label, n, n + 1)
<1>1. n \in Nat
  <2>1. spans \in Seq(Nat \X Nat)
    BY DEF Labelled
  <2> QED
    BY <2>1, LenProperties
<1>2. PICK h : Decoded(h, text, spans, label, T)
  BY BioRuns
<1>3. /\ h[0] = Closed /\ \A k \in 0..n : h[k] \in States(text, T)
      /\ DecodeBio(text, spans, label) = Flush(text, h[n]).found
      /\ \A k \in 1..n : Stepped(h[k], h[k - 1], text, spans, label, T, k)
  BY <1>2 DEF Decoded
<1> DEFINE Bad == {k \in 0..n : ~ ReadTo(h[k], text, spans, label, n, k)}
<1>4. ReadTo(h[0], text, spans, label, n, 0)
  <2> PICK s : s = <<>>
    OBVIOUS
  <2>1. Closed.tag = "" /\ Closed.found = s
    BY DEF Closed
  <2>2. DOMAIN s = {}
    <3>1. s \in Seq(Nat) /\ Len(s) = 0
      BY EmptySeq
    <3> QED
      BY ONLY <3>1, LenProperties
  <2>3. IsInjective(s) /\ \A e : e \notin ToSet(s)
    BY ONLY <2>2 DEF IsInjective, ToSet
  <2>4. \A v \in 1..n : ~ v < 0
    BY ONLY <1>1
  <2>5. Found(s, text, spans, label, n, 0)
    BY ONLY <2>3, <2>4 DEF Found
  <2>6. Opened(Closed, spans, label, n, 0)
    BY <2>1 DEF Opened
  <2> QED
    BY <1>3, <2>1, <2>5, <2>6 DEF ReadTo
<1>5. ASSUME Bad # {} PROVE FALSE
  <2>1. Bad \in SUBSET Nat
    BY ONLY <1>1
  <2> HIDE DEF Bad
  <2>2. PICK k \in Bad : \A j \in Bad : k <= j
    BY <1>5, <2>1, Least
  <2>3. k \in 0..n /\ ~ ReadTo(h[k], text, spans, label, n, k)
    BY DEF Bad
  <2>4. k # 0
    BY <1>4, <2>3
  <2>5. k \in 1..n /\ k - 1 \in 0..n /\ k - 1 \notin Bad
    BY ONLY <1>1, <2>1, <2>2, <2>3, <2>4
  <2>6. ReadTo(h[k - 1], text, spans, label, n, k - 1)
    BY <2>5 DEF Bad
  <2>7. h[k - 1] \in States(text, T) /\ Stepped(h[k], h[k - 1], text, spans, label, T, k)
    BY <1>3, <2>5
  <2> QED
    BY <2>3, <2>5, <2>6, <2>7, ReadStep
<1>6. ReadTo(h[n], text, spans, label, n, n) /\ h[n] \in States(text, T)
  <2>1. n \in 0..n
    BY ONLY <1>1
  <2> QED
    BY <1>3, <1>5, <2>1
<1>7. Flushed(Flush(text, h[n]), h[n], text, T)
  BY <1>6, FlushIs
<1>8. n + 1 \in 1..(n + 1) /\ n + 1 - 1 = n /\ ~ n + 1 <= n
  BY ONLY <1>1
<1>9. ~ GoesOn(label, n, n + 1)
  BY <1>8 DEF GoesOn
<1>10. Found(Flush(text, h[n]).found, text, spans, label, n, n + 1)
  <2> PICK d : d = h[n]
    OBVIOUS
  <2> PICK f : f = Flush(text, d)
    OBVIOUS
  <2> PICK k : k = n + 1
    OBVIOUS
  <2>1. /\ k \in 1..(n + 1) /\ d \in States(text, T) /\ Flushed(f, d, text, T)
        /\ k = 1 \/ ~ GoesOn(label, n, k)
        /\ Opened(d, spans, label, n, k - 1) /\ Found(d.found, text, spans, label, n, k - 1)
    <3>1. k \in 1..(n + 1) /\ k - 1 = n /\ ~ GoesOn(label, n, k)
      BY ONLY <1>1, <1>8, <1>9, k = n + 1
    <3>2. ReadTo(d, text, spans, label, n, k - 1) /\ d \in States(text, T)
      BY <1>6, <3>1
    <3>3. Flushed(f, d, text, T)
      BY <1>7
    <3> QED
      BY ONLY <3>1, <3>2, <3>3 DEF ReadTo
  <2>2. Found(f.found, text, spans, label, n, k)
    BY ONLY <1>1, <2>1, FlushFinds
  <2> QED
    BY <2>2
<1> QED
  BY <1>3, <1>10

\* An entity that is too long is cut off, before or after it is taken from the text.
LEMMA CutTwice ==
    ASSUME NEW V, NEW text \in Seq(V), NEW i \in 1..Len(text), NEW j \in i..Len(text),
           NEW s, s = SubSeq(text, i, j)
    PROVE  SubSeq(s, 1, AtMostOf(Len(s), MaxSpanText)) = SubSeq(text, i, AtMostOf(j, i + MaxSpanText - 1))
<1> PICK m : m = Len(text)
  OBVIOUS
<1> PICK M : M = MaxSpanText
  OBVIOUS
<1> PICK l : l = j - i + 1
  OBVIOUS
<1> PICK q : q = AtMostOf(l, M)
  OBVIOUS
<1>1. m \in Nat /\ M \in Nat /\ i \in 1..m /\ j \in i..m
  BY LenProperties, SpanAssumption
<1>2. /\ l \in Nat /\ i \in Nat \ {0} /\ i + l - 1 <= m /\ i + l - 1 = j
      /\ q \in Nat /\ 1 + q - 1 <= l /\ 1 + q - 1 = q /\ i + q - 1 <= m
      /\ AtMostOf(j, i + M - 1) = i + q - 1
  BY ONLY <1>1, l = j - i + 1, q = AtMostOf(l, M) DEF AtMostOf
<1>3. Sliced(SubSeq(text, i, i + l - 1), text, i, l, V)
  BY <1>2, SliceIs
<1>4. s \in Seq(V) /\ Len(s) = l /\ \A k \in 1..l : s[k] = text[i + k - 1]
  BY <1>2, <1>3 DEF Sliced
<1> PICK a : a = SubSeq(s, 1, q)
  OBVIOUS
<1> PICK b : b = SubSeq(text, i, i + q - 1)
  OBVIOUS
<1>5. Sliced(a, s, 1, q, V)
  <2>1. 1 \in Nat \ {0} /\ 1 + q - 1 <= Len(s)
    BY ONLY <1>2, <1>4
  <2>2. Sliced(SubSeq(s, 1, 1 + q - 1), s, 1, q, V)
    BY ONLY <1>2, <1>4, <2>1, SliceIs
  <2> QED
    BY <1>2, <2>2
<1>6. Sliced(b, text, i, q, V)
  BY <1>2, SliceIs
<1>7. \A k \in 1..q : a[k] = b[k]
  <2>1. \A k \in 1..q : a[k] = s[1 + k - 1] /\ b[k] = text[i + k - 1]
    BY ONLY <1>5, <1>6 DEF Sliced
  <2>2. \A k \in 1..q : 1 + k - 1 = k /\ k \in 1..l
    BY ONLY <1>2
  <2> QED
    BY ONLY <1>4, <2>1, <2>2
<1>8. a = b
  <2>1. a \in Seq(V) /\ b \in Seq(V) /\ Len(a) = q /\ Len(b) = q
    BY ONLY <1>5, <1>6 DEF Sliced
  <2> QED
    BY ONLY <1>7, <2>1, SeqEqual
<1> QED
  BY <1>2, <1>4, <1>8

\* What EntitiesExact speaks of.
LabelAt(enc, pred, w) == IF At(enc, w) = {} THEN Outside ELSE pred[Min(At(enc, w))]

Extends(enc, pred, w) ==
    /\ w <= Len(enc.spans)
    /\ LabelAt(enc, pred, w).pre = "I" /\ LabelAt(enc, pred, w - 1).pre # "O"
    /\ LabelAt(enc, pred, w).tag = LabelAt(enc, pred, w - 1).tag

StartsOf(enc, pred) ==
    {w \in 1..Len(enc.spans) : LabelAt(enc, pred, w).pre # "O" /\ (w = 1 \/ ~ Extends(enc, pred, w))}

Reaches(enc, pred, w) == {v \in w..Len(enc.spans) : \A u \in (w + 1)..v : Extends(enc, pred, u)}

PartOf(text, enc, pred, w) ==
    SubSeq(text, enc.spans[w][1], enc.spans[Max(Reaches(enc, pred, w))][2])

EntityAt(text, enc, pred, w) ==
    [text |-> SubSeq(PartOf(text, enc, pred, w), 1, AtMostOf(Len(PartOf(text, enc, pred, w)), MaxSpanText)),
     type |-> LabelAt(enc, pred, w).tag]

EntitiesFound(text, enc, pred, found) ==
    /\ ToSet(found) = {EntityAt(text, enc, pred, w) : w \in StartsOf(enc, pred)}
    /\ IsInjective(found)

LEMMA EntitiesParts ==
    ASSUME NEW text, NEW enc, NEW pred, NEW found
    PROVE  EntitiesExact(text, enc, pred, found) <=> EntitiesFound(text, enc, pred, found)
  BY DEF EntitiesExact, EntitiesFound, EntityAt, StartsOf, PartOf, Reaches, Extends, LabelAt, At

\* The entity that begins with w ends with m and nowhere else.
EndsWith(label, n, w, m) ==
    m \in 1..n /\ Whole(label, n, w, m) /\ \A v \in 1..n : Whole(label, n, w, v) => v = m

LEMMA LastWord ==
    ASSUME NEW label, NEW n \in Nat, NEW w, Starting(label, n, w),
           NEW R, R = {v \in w..n : Through(label, n, w, v)}
    PROVE  EndsWith(label, n, w, Max(R))
<1>1. w \in 1..n
  BY DEF Starting
<1>2. w \in R
  <2>1. w \in w..n /\ \A u \in (w + 1)..w : FALSE
    BY ONLY <1>1, n \in Nat
  <2> QED
    BY <2>1 DEF Through
<1>3. R \in SUBSET (1..n) /\ R # {}
  <2>1. \A v \in w..n : v \in 1..n
    BY ONLY <1>1, n \in Nat
  <2> QED
    BY <1>2, <2>1
<1> PICK m : m = Max(R)
  OBVIOUS
<1>4. m \in R /\ m \in 1..n /\ \A v \in R : v <= m
  BY <1>3, LastOf
<1>5. m \in w..n /\ Through(label, n, w, m)
  BY <1>4
<1>6. ~ GoesOn(label, n, m + 1)
  <2>1. ASSUME GoesOn(label, n, m + 1) PROVE FALSE
    <3>1. m + 1 <= n
      BY <2>1 DEF GoesOn
    <3>2. m + 1 \in w..n /\ ~ m + 1 <= m /\ \A u \in (w + 1)..(m + 1) : u = m + 1 \/ u \in (w + 1)..m
      BY ONLY <1>1, <1>5, n \in Nat, <3>1
    <3>3. Through(label, n, w, m + 1)
      BY <1>5, <2>1, <3>2 DEF Through
    <3>4. m + 1 \in R
      BY <3>2, <3>3
    <3> QED
      BY <1>4, <3>2, <3>4
  <2> QED
    BY <2>1
<1>7. Whole(label, n, w, m)
  BY <1>5, <1>6 DEF Whole
<1>8. ASSUME NEW v \in 1..n, Whole(label, n, w, v) PROVE v = m
  <2>1. v \in w..n /\ Through(label, n, w, v) /\ ~ GoesOn(label, n, v + 1)
    BY <1>8 DEF Whole
  <2>2. v \in R
    BY <2>1
  <2>3. v <= m
    BY <1>4, <2>2
  <2>4. v < m => v + 1 \in (w + 1)..m
    BY ONLY <1>5, <2>1, n \in Nat, <1>1
  <2>5. ~ v < m
    BY <1>5, <2>1, <2>4 DEF Through
  <2> QED
    BY ONLY <1>4, <1>8, <2>3, <2>5
<1> QED
  BY <1>4, <1>7, <1>8 DEF EndsWith

\* The entities of a text are all found, each once, as they are written.
LEMMA EntitiesAre ==
    ASSUME NEW text \in Seq(Letters), NEW vocab, NEW uncased, NEW maxLen \in Nat, maxLen >= 2,
           NEW pred,
           \A p \in 1..maxLen :
              pred[p] = Outside \/ (pred[p].pre \in {"B", "I"} /\ pred[p].tag # "")
    PROVE  EntitiesExact(text, Encode(text, vocab, uncased, maxLen), pred,
                         Extract(text, vocab, uncased, maxLen, pred))
<1>1. /\ PiecesOf(text, vocab, uncased) \in Seq(Seq(Seq(Glyphs)))
      /\ Len(PiecesOf(text, vocab, uncased)) = Len(Words(text))
  BY PiecesAre
<1>2. \E h : Laid(h, PiecesOf(text, vocab, uncased), Seq(Glyphs))
  BY <1>1, LaidOut
<1> PICK h : Laid(h, PiecesOf(text, vocab, uncased), Seq(Glyphs))
  BY <1>2
<1>3. Encoded(Encode(text, vocab, uncased, maxLen), text, h, maxLen)
  BY EncodeIs
<1>4. Cuts(Words(text), text)
  BY WordsAre DEF Letters
<1> PICK P : P = PiecesOf(text, vocab, uncased)
  OBVIOUS
<1> PICK W : W = Words(text)
  OBVIOUS
<1> PICK enc : enc = Encode(text, vocab, uncased, maxLen)
  OBVIOUS
<1> PICK n : n = Len(enc.spans)
  OBVIOUS
<1> PICK L : L = WordLabel(enc, pred)
  OBVIOUS
<1> PICK T : T = {""} \cup {pred[p].tag : p \in 1..maxLen}
  OBVIOUS
<1>5. Laid(h, P, Seq(Glyphs)) /\ P \in Seq(Seq(Seq(Glyphs))) /\ Len(P) = Len(W) /\ Len(W) \in Nat
  BY <1>1, <1>4 DEF Cuts
<1>6. /\ n \in 0..Len(W) /\ enc.spans \in Seq(Nat \X Nat)
      /\ \A k \in 1..n : enc.spans[k] = W[k]
      /\ n > 0 => Len(h[n]) <= maxLen - 2
  BY <1>3 DEF Encoded
<1>7. n \in Nat /\ DOMAIN enc.spans = 1..n /\ \A k \in 1..n : k \in 1..Len(W)
  <2>1. n \in Nat /\ \A k \in 1..n : k \in 1..Len(W)
    BY ONLY <1>5, <1>6
  <2>2. DOMAIN enc.spans = 1..Len(enc.spans)
    BY <1>6, LenProperties
  <2> QED
    BY <2>1, <2>2
<1>8. ASSUME NEW w \in 1..n
      PROVE  At(enc, w) = {} \/ Min(At(enc, w)) \in 1..maxLen
  <2>1. Settled(enc, h, P, w)
    BY <1>3, <1>5, AtIs
  <2> PICK a : a = Len(h[w - 1])
    OBVIOUS
  <2> PICK l : l = Len(P[w])
    OBVIOUS
  <2>2. /\ At(enc, w) = (a + 2)..(a + l + 1) /\ a \in Nat /\ l \in Nat
        /\ a + l <= Len(h[n])
    BY <2>1 DEF Settled
  <2>3. n > 0 /\ Len(h[n]) <= maxLen - 2 /\ Len(h[n]) \in Nat
    <3>1. n > 0 /\ n \in 0..Len(P)
      BY ONLY <1>5, <1>6, <1>7, w \in 1..n
    <3>2. Placed(h, P)
      BY <1>5, LaidPlaces
    <3> QED
      BY ONLY <1>6, <3>1, <3>2 DEF Placed
  <2>4. CASE l = 0
    BY ONLY <2>2, <2>4
  <2>5. CASE l # 0
    <3>1. a + 2 \in Nat /\ a + l + 1 \in Nat /\ a + 2 <= a + l + 1
      BY ONLY <2>2, <2>5
    <3>2. Min(At(enc, w)) = a + 2
      BY ONLY <2>2, <3>1, EndsOf
    <3>3. a + 2 \in 1..maxLen
      BY ONLY <2>2, <2>3, <2>5, maxLen \in Nat
    <3> QED
      BY <3>2, <3>3
  <2> QED
    BY <2>4, <2>5
<1>9. \A w \in 1..n : L[w] = LabelAt(enc, pred, w)
  <2>1. L = [w \in DOMAIN enc.spans |-> LabelAt(enc, pred, w)]
    BY DEF WordLabel, LabelAt, At
  <2> QED
    BY ONLY <1>7, <2>1
<1>10. Labelled(enc.spans, L, T) /\ "" \in T
  <2>1. ASSUME NEW w \in 1..n
        PROVE  L[w] = Outside \/ (L[w].pre \in {"B", "I"} /\ L[w].tag \in T \ {""})
    <3>1. CASE At(enc, w) = {}
      BY <1>9, <3>1 DEF LabelAt
    <3>2. CASE At(enc, w) # {}
      <4> PICK p : p = Min(At(enc, w))
        OBVIOUS
      <4>1. p \in 1..maxLen /\ L[w] = pred[p]
        BY <1>8, <1>9, <3>2 DEF LabelAt
      <4> QED
        BY <4>1
    <3> QED
      BY <3>1, <3>2
  <2> QED
    BY <1>6, <2>1 DEF Labelled
<1>11. Found(DecodeBio(text, enc.spans, L), text, enc.spans, L, n, n + 1)
  BY <1>10, DecodingFinds
<1> PICK found : found = DecodeBio(text, enc.spans, L)
  OBVIOUS
<1>12. found = Extract(text, vocab, uncased, maxLen, pred)
  BY DEF Extract
<1>13. \A w \in 2..n : Extends(enc, pred, w) <=> GoesOn(L, n, w)
  <2>1. \A w \in 2..n : w \in 1..n /\ w - 1 \in 1..n
    BY ONLY <1>7
  <2> QED
    BY <1>9, <2>1 DEF Extends, GoesOn
<1>14. \A w : w \in StartsOf(enc, pred) <=> Starting(L, n, w)
  <2>1. \A w \in 1..n : w = 1 \/ w \in 2..n
    BY ONLY <1>7
  <2>2. \A w : w \in StartsOf(enc, pred) <=>
                  w \in 1..n /\ LabelAt(enc, pred, w).pre # "O" /\ (w = 1 \/ ~ Extends(enc, pred, w))
    BY DEF StartsOf
  <2> QED
    BY ONLY <1>9, <1>13, <2>1, <2>2 DEF Starting
<1>15. ASSUME NEW w \in 1..n
       PROVE  Reaches(enc, pred, w) = {v \in w..n : Through(L, n, w, v)}
  <2>1. \A v \in w..n : \A u \in (w + 1)..v : u \in 2..n
    BY ONLY <1>7, w \in 1..n
  <2>2. \A v \in w..n : (\A u \in (w + 1)..v : Extends(enc, pred, u)) <=> Through(L, n, w, v)
    BY ONLY <1>13, <2>1 DEF Through
  <2>3. Reaches(enc, pred, w) = {v \in w..n : \A u \in (w + 1)..v : Extends(enc, pred, u)}
    BY DEF Reaches
  <2> QED
    BY ONLY <2>2, <2>3
<1>16. ASSUME NEW w, Starting(L, n, w)
       PROVE  \E v \in 1..n : /\ Whole(L, n, w, v)
                              /\ \A u \in 1..n : Whole(L, n, w, u) => u = v
                              /\ EntityAt(text, enc, pred, w) = Written(text, enc.spans, L, w, v)
  <2>1. w \in 1..n
    BY <1>16 DEF Starting
  <2> PICK R : R = {v \in w..n : Through(L, n, w, v)}
    OBVIOUS
  <2> PICK v : v = Max(R)
    OBVIOUS
  <2>2. v \in 1..n /\ Whole(L, n, w, v) /\ \A u \in 1..n : Whole(L, n, w, u) => u = v
    <3>1. EndsWith(L, n, w, v)
      BY <1>7, <1>16, LastWord
    <3> QED
      BY ONLY <3>1 DEF EndsWith
  <2> PICK i : i = enc.spans[w][1]
    OBVIOUS
  <2> PICK j : j = enc.spans[v][2]
    OBVIOUS
  <2>3. i \in 1..Len(text) /\ j \in i..Len(text)
    <3>1. /\ i = W[w][1] /\ j = W[v][2] /\ w \in 1..Len(W) /\ v \in 1..Len(W)
      BY <1>6, <1>7, <2>1, <2>2
    <3>2. /\ W[w][1] \in 1..Len(text) /\ W[w][2] \in 1..Len(text) /\ W[w][1] <= W[w][2]
          /\ W[v][1] \in 1..Len(text) /\ W[v][2] \in 1..Len(text) /\ W[v][1] <= W[v][2]
          /\ w < v => W[w][2] < W[v][1]
      BY <1>4, <3>1 DEF Cuts
    <3>3. v \in w..n
      BY <2>2 DEF Whole
    <3>4. w < v \/ w = v
      BY ONLY <1>7, <2>1, <2>2, <3>3
    <3>5. Len(text) \in Nat
      BY LenProperties
    <3>6. W[w][1] <= W[v][2]
      BY ONLY <3>2, <3>4, <3>5
    <3> QED
      BY ONLY <3>1, <3>2, <3>5, <3>6
  <2>4. PartOf(text, enc, pred, w) = SubSeq(text, i, j)
    BY <1>15, <2>1 DEF PartOf
  <2> PICK s : s = SubSeq(text, i, j)
    OBVIOUS
  <2>5. SubSeq(s, 1, AtMostOf(Len(s), MaxSpanText)) = SubSeq(text, i, AtMostOf(j, i + MaxSpanText - 1))
    BY ONLY text \in Seq(Letters), <2>3, s = SubSeq(text, i, j), CutTwice
  <2>6. LabelAt(enc, pred, w).tag = L[w].tag
    BY <1>9, <2>1
  <2>7. EntityAt(text, enc, pred, w) = Written(text, enc.spans, L, w, v)
    BY <2>4, <2>5, <2>6 DEF EntityAt, Written, EntityOf
  <2> QED
    BY <2>2, <2>7
<1>17. /\ \A e : e \in ToSet(found) <=>
             \E w, v \in 1..n : /\ Whole(L, n, w, v) /\ v < n + 1
                                /\ e = Written(text, enc.spans, L, w, v)
       /\ IsInjective(found)
  <2>1. Found(found, text, enc.spans, L, n, n + 1)
    BY <1>11
  <2> QED
    BY ONLY <2>1 DEF Found
<1>18. ToSet(found) = {EntityAt(text, enc, pred, w) : w \in StartsOf(enc, pred)}
  <2>1. ASSUME NEW e \in ToSet(found) PROVE \E w \in StartsOf(enc, pred) : e = EntityAt(text, enc, pred, w)
    <3>1. PICK w \in 1..n, v \in 1..n : Whole(L, n, w, v) /\ e = Written(text, enc.spans, L, w, v)
      BY ONLY <1>17, <2>1
    <3>2. Starting(L, n, w)
      BY <3>1 DEF Whole
    <3>3. EntityAt(text, enc, pred, w) = Written(text, enc.spans, L, w, v)
      BY <1>16, <3>1, <3>2
    <3> QED
      BY <1>14, <3>1, <3>2, <3>3
  <2>2. ASSUME NEW w \in StartsOf(enc, pred) PROVE EntityAt(text, enc, pred, w) \in ToSet(found)
    <3>1. Starting(L, n, w) /\ w \in 1..n
      BY <1>14 DEF Starting
    <3>2. PICK v \in 1..n : /\ Whole(L, n, w, v)
                            /\ EntityAt(text, enc, pred, w) = Written(text, enc.spans, L, w, v)
      BY <1>16, <3>1
    <3>3. v < n + 1
      BY ONLY <1>7, v \in 1..n
    <3> QED
      BY ONLY <1>17, <3>1, <3>2, <3>3
  <2> QED
    BY ONLY <2>1, <2>2
<1>19. EntitiesFound(text, enc, pred, found)
  BY <1>17, <1>18 DEF EntitiesFound
<1> QED
  BY <1>12, <1>19, EntitiesParts

\* Every word that is not cut off is spelled by its pieces, none of which could have been
\* longer, and every character but the spaces is in one word; every run of labels becomes
\* one entity, as it is written in the text (wordpiece.py and onnx_ner.py in src/libs).
\* The gazetteer finds the longest phrase at each place and misses none that does not
\* overlap a hit; a merge keeps what was there, adds no entity twice and gives a place its
\* geo; a fingerprint fits a bigint and comes back as it was (matcher.py, item.py and
\* simhash.py in src/libs).
THEOREM TextsAreExact == Spec => []TextExact
<1>1. ASSUME Called, Returned, NEW rule \in {"encode", "ner", "match", "merge", "hash"}, Answered(rule)
      PROVE  TextExact
  <2>4. CASE rule = "encode"
    <3>1. /\ call.rule = "encode"
          /\ answer = Encode(call.text, call.vocab, call.uncased, call.maxLen)
      BY <1>1, <2>4 DEF Returned, Answered
    <3>2. call \in EncodeCalls
      BY <1>1, <3>1, CallOf
    <3>3. call.text \in Seq(Letters) /\ call.maxLen \in Nat /\ call.maxLen >= 2
      BY <3>2, CallsAssumption DEF Letters
    <3>4. EncodingExact(call.text, call.vocab, call.uncased, call.maxLen, answer)
      BY <3>1, <3>3, EncodingIs
    <3> QED
      BY <3>1, <3>4 DEF TextExact
  <2>5. CASE rule = "ner"
    <3>1. /\ call.rule = "ner"
          /\ answer = Extract(call.text, call.vocab, call.uncased, call.maxLen, call.pred)
      BY <1>1, <2>5 DEF Returned, Answered
    <3>2. call \in NerCalls
      BY <1>1, <3>1, CallOf
    <3>3. /\ call.text \in Seq(Letters) /\ call.maxLen \in Nat /\ call.maxLen >= 2
          /\ \A p \in 1..call.maxLen :
                \/ call.pred[p] = Outside
                \/ call.pred[p].pre \in {"B", "I"} /\ call.pred[p].tag # ""
      BY <3>2, CallsAssumption DEF Letters
    <3>4. EntitiesExact(call.text, Encode(call.text, call.vocab, call.uncased, call.maxLen),
                        call.pred, answer)
      BY <3>1, <3>3, EntitiesAre
    <3> QED
      BY <3>1, <3>4 DEF TextExact
  <2>1. CASE rule = "match"
    <3>1. call.rule = "match" /\ answer = Match(call.tokens, call.phrases)
      BY <1>1, <2>1 DEF Returned, Answered
    <3>2. call \in MatchCalls
      BY <1>1, <3>1, CallOf
    <3>3. /\ IsFiniteSet(call.phrases) /\ call.tokens \in Seq(ToSet(call.tokens))
          /\ \A p \in call.phrases : p \in Seq(ToSet(p))
      BY <3>2, CallsAssumption
    <3>4. \A p \in call.phrases : Len(p) \in Nat
      BY <3>3, LenProperties
    <3>5. HitsExact(call.tokens, call.phrases, answer)
      BY <3>1, <3>3, <3>4, MatchIs
    <3> QED
      BY <3>1, <3>5 DEF TextExact
  <2>2. CASE rule = "merge"
    <3>1. /\ call.rule = "merge"
          /\ answer = Merge(Merge(call.item, call.hits), call.found)
      BY <1>1, <2>2 DEF Returned, Answered
    <3>2. call \in MergeCalls
      BY <1>1, <3>1, CallOf
    <3> DEFINE it == call.item
               E == ToSet(it.entities) \cup ToSet(call.hits) \cup ToSet(call.found)
    <3>3. /\ it \in [entities : Seq(ToSet(it.entities)), geo : {it.geo}]
          /\ Len(it.entities) <= MaxEntities
          /\ call.hits \in Seq(ToSet(call.hits)) /\ call.found \in Seq(ToSet(call.found))
      BY <3>2, CallsAssumption
    <3>4. /\ DOMAIN it = {"entities", "geo"} /\ it = [f \in DOMAIN it |-> it[f]]
          /\ it.entities \in Seq(ToSet(it.entities))
      BY <3>3
    <3>5. /\ ToSet(it.entities) \subseteq E /\ ToSet(call.hits) \subseteq E
          /\ ToSet(call.found) \subseteq E
      OBVIOUS
    <3> HIDE DEF E
    <3>6. it.entities \in Seq(E) /\ call.hits \in Seq(E) /\ call.found \in Seq(E)
      BY <3>3, <3>4, <3>5, SeqMonotonic
    <3>7. MergeExact(it, call.hits, call.found, answer)
      BY <3>1, <3>3, <3>4, <3>6, MergedIs
    <3> QED
      BY <3>1, <3>7 DEF TextExact
  <2>3. CASE rule = "hash"
    <3>1. /\ call.rule = "hash"
          /\ LET v == Simhash(Features(call.tokens), call.hash)
             IN  answer = [value |-> v, stored |-> ToSigned(v), back |-> FromSigned(ToSigned(v))]
      BY <1>1, <2>3 DEF Returned, Answered
    <3> DEFINE v == Simhash(Features(call.tokens), call.hash)
    <3>2. v \in 0..(Power2[Bits] - 1)
      BY SimhashIs
    <3> HIDE DEF v
    <3>3. /\ ToSigned(v) \in (- Power2[Bits - 1])..(Power2[Bits - 1] - 1)
          /\ FromSigned(ToSigned(v)) = v
      BY <3>2, SignedIs
    <3>4. answer.value = v /\ answer.stored = ToSigned(v) /\ answer.back = FromSigned(ToSigned(v))
      BY <3>1 DEF v
    <3> QED
      BY <3>1, <3>3, <3>4 DEF TextExact
  <2> QED
    BY <1>1, <2>1, <2>2, <2>3, <2>4, <2>5
<1>2. Called /\ Returned => TextExact
  <2> SUFFICES ASSUME Called, Returned PROVE TextExact
    OBVIOUS
  <2>1. \A rule \in {"encode", "ner", "match", "merge", "hash"} : Answered(rule) => TextExact
    BY <1>1
  <2> QED
    BY <2>1 DEF TextExact, Answered
<1> QED
  BY <1>2, CallsInit, CallsStep, PTL DEF Spec
=============================================================================
