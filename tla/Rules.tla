-------------------------------- MODULE Rules --------------------------------
(***************************************************************************)
(* The pure functions of the pipeline, each called once with one of the    *)
(* inputs given for it, and, in the runs that call none of them, the read  *)
(* API.                                                                    *)
(***************************************************************************)
EXTENDS Sources, Tokens, Gate, Scoring, ReadApi

CONSTANTS EncodeCalls, NerCalls, MatchCalls, MergeCalls, HashCalls, GateCalls,
          VelocityCalls,
          RecordsOf   \* source -> its records

\* What the callers see to: a text has room for the special tokens and a prediction for
\* every token, a gazetteer is finite, an Item has no more entities than its schema
\* allows, a row is of an item of its own and has a time and a label or none, a window
\* has its latest bin, and a bin that is stored has a mention.
ASSUME CallsAssumption ==
    /\ \A c \in EncodeCalls : c.rule = "encode"
    /\ \A c \in NerCalls :
          /\ c.rule = "ner"
          /\ \A p \in 1..c.maxLen :
                \/ c.pred[p] = Outside
                \/ c.pred[p].pre \in {"B", "I"} /\ c.pred[p].tag # ""
    /\ \A c \in EncodeCalls \cup NerCalls :
          c.text \in Seq(DOMAIN Class) /\ c.maxLen \in Nat /\ c.maxLen >= 2
    /\ \A c \in HashCalls : c.rule = "hash"
    /\ \A c \in MatchCalls :
          /\ c.rule = "match"
          /\ IsFiniteSet(c.phrases)
          /\ \A s \in {c.tokens} \cup c.phrases : s \in Seq(ToSet(s))
    /\ \A c \in MergeCalls :
          /\ c.rule = "merge"
          /\ c.item \in [entities : Seq(ToSet(c.item.entities)), geo : {c.item.geo}]
          /\ Len(c.item.entities) <= MaxEntities
          /\ \A s \in {c.hits, c.found} : s \in Seq(ToSet(s))
    /\ \A c \in GateCalls :
          /\ c.rule = "gate"
          /\ c.view \in Seq([id : Int, ts : Int, label : {Unlabeled, 0, 1},
                              text : DOMAIN c.candidate])
          /\ \A j, k \in DOMAIN c.view : c.view[j].id = c.view[k].id => j = k
          /\ \A model \in {c.candidate} \cup c.current : model \in [DOMAIN c.candidate -> {0, 1}]
    /\ \A c \in VelocityCalls :
          /\ c.rule = "velocity"
          /\ c.den \in Nat /\ c.num \in 1..c.den
          /\ c.least \in Nat /\ c.least >= 3
          /\ c.flat \in Int /\ c.until \in DOMAIN c.buckets
          /\ \A t \in DOMAIN c.buckets : t \in 1..c.until /\ c.buckets[t] \in Nat \ {0}

\* Points are pairs of numbers, a part of a split text is a text, and the type of an
\* event is a short code.
ASSUME RecordsAssumption ==
    \A s \in DOMAIN RecordsOf : \A r \in RecordsOf[s].any \cup RecordsOf[s].plain :
        /\ s \in Polled \cup {"bluesky", "mastodon", "wikipedia"}
        /\ s = "noaa" => r.ring \in Seq(Int \X Int) /\ None \notin ToSet(r.area)
        /\ s = "gdacs" => r.eventtype \notin LongRefs /\ None \notin ToSet(r.country)

VARIABLES call, done, answer

rulevars == <<call, done, answer>>

Serve == [rule |-> "serve"]

Init ==
    /\ \/ call \in EncodeCalls \/ call \in NerCalls \/ call \in MatchCalls
       \/ call \in MergeCalls \/ call \in HashCalls \/ call \in GateCalls
       \/ call \in VelocityCalls
       \/ \E s \in DOMAIN RecordsOf :
             call \in [rule : {"record"}, source : {s}, a : RecordsOf[s].any, b : RecordsOf[s].plain]
       \/ call = Serve
    /\ done = FALSE /\ answer = <<>>
    /\ ApiInit
    /\ call # Serve => history = CHOOSE h \in Histories : TRUE

Call(rule, result) ==
    /\ ~done /\ call.rule = rule
    /\ done' = TRUE /\ answer' = result
    /\ UNCHANGED <<call, apivars>>

Tokenize ==
    Call("encode", Encode(call.text, call.vocab, call.uncased, call.maxLen))

Recognize ==
    Call("ner", Extract(call.text, call.vocab, call.uncased, call.maxLen, call.pred))

Tag == Call("match", Match(call.tokens, call.phrases))

\* CheapFilter.tally and the survivor's NER merge into the same Item, in this order.
MergeBoth == Call("merge", Merge(Merge(call.item, call.hits), call.found))

Fingerprint ==
    LET v == Simhash(Features(call.tokens), call.hash) IN
    Call("hash", [value |-> v, stored |-> ToSigned(v), back |-> FromSigned(ToSigned(v))])

Ingest == Call("record", << Normalize(call.source, call.a), Normalize(call.source, call.b) >>)

Evaluate ==
    LET rows == FetchLabels(call.view) IN
    Call("gate", [split |-> TimeSplit(rows),
                  promoted |-> ShouldPromote(call.candidate, call.current, rows)])

\* The latest bin with one mention more, and every bin with one more.
Busier(c) == [c.buckets EXCEPT ![c.until] = @ + 1]
Louder(c) == [t \in 1..c.until |-> 1 + IF t \in DOMAIN c.buckets THEN c.buckets[t] ELSE 0]

\* Scorer.cycle up to velocity_z, for the tallies of a window and for two like them.
Measure ==
    LET z(buckets) == VelocityZ(FillSeries(buckets, 1, call.until), call.num, call.den,
                                call.least, call.flat)
    IN  Call("velocity", [z |-> z(call.buckets), busier |-> z(Busier(call)),
                          louder |-> z(Louder(call))])

Next ==
    \/ Tokenize \/ Recognize \/ Tag \/ MergeBoth \/ Fingerprint \/ Ingest \/ Evaluate
    \/ Measure
    \/ call = Serve /\ ApiNext /\ UNCHANGED rulevars

Spec == Init /\ [][Next]_<<rulevars, apivars>>

Answered(rule) == done /\ call.rule = rule

----------------------------------------------------------------------------
(* Texts                                                                   *)

Subwords(enc, k) ==
    LET at == {p \in DOMAIN enc.words : enc.words[p] = k}
    IN  IF at = {} THEN <<>> ELSE SubSeq(enc.ids, Min(at), Max(at))

\* A piece without the mark of a continuation, and what pieces spell.
Unmarked(piece) == IF piece # <<>> /\ piece[1] = "##" THEN Tail(piece) ELSE piece
Spelled(pieces) == FlattenSeq([k \in DOMAIN pieces |-> Unmarked(pieces[k])])

\* The words that are not cut off hold every character but the spaces, each in one of
\* them; their pieces spell them and none could have been longer; what is cut off
\* begins with a word that does not fit as a whole.
EncodingExact(text, vocab, uncased, maxLen, enc) ==
    LET all == Encode(text, vocab, uncased, 3 * Len(text) + 2)
        kept == Len(enc.spans)
        end == IF kept = 0 THEN 0 ELSE enc.spans[kept][2]
    IN
    /\ \A p \in 1..end :
          Cardinality({k \in 1..kept : p \in enc.spans[k][1]..enc.spans[k][2]})
            = IF Class[text[p]] = "space" THEN 0 ELSE 1
    /\ \A k \in 1..kept :
          LET word == NormalForm(SubSeq(text, enc.spans[k][1], enc.spans[k][2]), uncased)
              pieces == Subwords(enc, k)
              upTo(i) == Len(Spelled(SubSeq(pieces, 1, i)))
          IN  \/ pieces = <<UNK>>
              \/ /\ Spelled(pieces) = word
                 /\ \A i \in DOMAIN pieces :
                       /\ pieces[i] = Piece(word, upTo(i - 1) + 1, upTo(i))
                       /\ \A j \in (upTo(i) + 1)..Len(word) :
                             Piece(word, upTo(i - 1) + 1, j) \notin vocab
    /\ Len(enc.ids) <= maxLen
    /\ kept < Len(all.spans) =>
          Len(enc.ids) + Len(Subwords(all, kept + 1)) > maxLen

\* An entity is a run of words from a B-, or an I- of another kind than the word before,
\* through the I- of its kind, as it is written in the text; every such run is found.
EntitiesExact(text, enc, pred, found) ==
    LET n == Len(enc.spans)
        label(w) == LET at == {p \in DOMAIN enc.words : enc.words[p] = w}
                    IN  IF at = {} THEN Outside ELSE pred[Min(at)]
        goesOn(w) == w <= n /\ label(w).pre = "I" /\ label(w - 1).pre # "O"
                     /\ label(w).tag = label(w - 1).tag
        starts == {w \in 1..n : label(w).pre # "O" /\ (w = 1 \/ ~goesOn(w))}
        last(w) == Max({v \in w..n : \A u \in (w + 1)..v : goesOn(u)})
        written(w) == SubSeq(text, enc.spans[w][1], enc.spans[last(w)][2])
    IN
    /\ ToSet(found) = {[text |-> SubSeq(written(w), 1, AtMostOf(Len(written(w)), MaxSpanText)),
                        type |-> label(w).tag] : w \in starts}
    /\ IsInjective(found)

\* Hits are phrases, in order and apart, none could go on, and a phrase that is no
\* hit overlaps one.
HitsExact(tokens, phrases, hits) ==
    /\ \A k \in DOMAIN hits :
          /\ SubSeq(tokens, hits[k][1], hits[k][2]) \in phrases
          /\ k > 1 => hits[k - 1][2] < hits[k][1]
          /\ \A j \in (hits[k][2] + 1)..Len(tokens) :
                SubSeq(tokens, hits[k][1], j) \notin phrases
    /\ \A i, j \in DOMAIN tokens :
          i <= j /\ SubSeq(tokens, i, j) \in phrases =>
              \E k \in DOMAIN hits : hits[k][1] <= j /\ i <= hits[k][2]

\* A place the gazetteer knows keeps its geo, whatever NER says of it; no entity is
\* there twice; what the source said stays.
MergeExact(item, hits, found, merged) ==
    LET same(e, f) == e.text = f.text /\ e.type = f.type
        own == Len(item.entities)
    IN
    /\ Len(merged.entities) <= MaxEntities
    /\ IsPrefix(item.entities, merged.entities)
    /\ \A j \in (own + 1)..Len(merged.entities) :
          /\ \A k \in 1..(j - 1) : ~same(merged.entities[k], merged.entities[j])
          /\ \A h \in ToSet(hits) :
                same(h, merged.entities[j]) =>
                    \E g \in ToSet(hits) : same(g, h) /\ g.geo = merged.entities[j].geo
    /\ item.geo # <<>> => merged.geo = item.geo
    /\ Len(merged.entities) < MaxEntities =>
          \A e \in ToSet(hits \o found) : \E f \in ToSet(merged.entities) : same(e, f)

\* Words are whole, entities are what the text says, and what is merged or stored
\* comes back as it was ("reconstructs the exact source substring", wordpiece.py).
TextExact ==
    done =>
        CASE call.rule = "encode" ->
                EncodingExact(call.text, call.vocab, call.uncased, call.maxLen, answer)
          [] call.rule = "ner" ->
                EntitiesExact(call.text, Encode(call.text, call.vocab, call.uncased, call.maxLen),
                              call.pred, answer)
          [] call.rule = "match" -> HitsExact(call.tokens, call.phrases, answer)
          [] call.rule = "merge" -> MergeExact(call.item, call.hits, call.found, answer)
          [] call.rule = "hash" ->
                /\ answer.stored \in (- Power2[Bits - 1])..(Power2[Bits - 1] - 1)
                /\ answer.back = answer.value
          [] OTHER -> TRUE

----------------------------------------------------------------------------
(* Records                                                                 *)

\* What the source would call the same event, as far as a key can hold it.
SameEvent(source, a, b) ==
    CASE source = "bluesky"   -> a.did = b.did /\ a.rkey = b.rkey
      [] source = "mastodon"  -> a.uri = b.uri
      [] source = "wikipedia" -> LET id(e) == IF Truthy(e.rev) THEN Cut(e.rev) ELSE Cut(e.id)
                                 IN  a.domain = b.domain /\ id(a) = id(b)
      [] source = "press"     -> PressRef(a) = PressRef(b)
      [] source = "usgs"      -> Cut(a.id) = Cut(b.id)
      [] source = "noaa"      -> Cut(NoaaRef(a)) = Cut(NoaaRef(b))
      [] source = "gdacs"     -> a.eventtype = b.eventtype /\ Cut(a.eventid) = Cut(b.eventid)
      [] source = "gdelt"     -> a.url = b.url

\* Sources whose key is a digest, of any length.
Hashed == {"bluesky", "mastodon", "gdelt"}

\* Two records are one to the deduper when their source says that they are one event,
\* also when two instances show it; records the poll loop takes for one are one event,
\* but for NOAA alerts without a urn; a reply names its parent by the key of the
\* parent; and every Item fits its schema ("revision id is the stable exact-dedup key",
\* "matches parent_ref linkage", normalize.py).
SourcesIdentify ==
    Answered("record") =>
        LET a == answer[1]
            b == answer[2]
        IN
        /\ a.is = "item" /\ b.is = "item" =>
              /\ a.hash = b.hash <=> SameEvent(call.source, call.a, call.b)
              /\ call.source \in Polled /\ (call.source = "noaa" => Truthy(call.a.urn))
                 /\ DedupKey(call.source, call.a) = DedupKey(call.source, call.b)
                    => a.hash = b.hash
              /\ call.source = "bluesky" /\ call.b.parent = <<call.a.did, call.a.rkey>>
                    => b.parent = a.hash
        /\ \A it \in {a, b} : it.is = "item" =>
              /\ call.source \notin Hashed => ToSet(it.hash) \cap LongRefs = {}
              /\ it.geo # <<>> => Point(it.geo[1], it.geo[2]) # <<>>
              /\ \A e \in it.entities : Truthy(e)

----------------------------------------------------------------------------
(* Velocity                                                                *)

\* The z-score is about acceleration, not about level: mentions that are there in
\* every bin change nothing.  The latest bin is judged by the bins before it: where
\* these vary, a mention more raises the score against the same deviation; where they do
\* not, the score is 0 or the bounded stand-in, for a drop as for a rise, and 0 for one
\* number of mentions only; the first mentions after silence stand out ("hiding
\* behind a short series", score/main.py).
VelocityHonest ==
    Answered("velocity") =>
        LET accel == Accelerations(FillSeries(call.buckets, 1, call.until), call.num, call.den)
            varies == \E i, j \in 1..(Len(accel) - 1) : accel[i] # accel[j]
            standIn(m) == [M |-> m, V |-> 1]
        IN
        /\ answer.louder = answer.z
        /\ call.until >= call.least =>
              /\ varies => answer.busier.V = answer.z.V /\ answer.busier.M > answer.z.M
              /\ ~varies => /\ {answer.z, answer.busier} \subseteq {standIn(0), standIn(call.flat)}
                            /\ standIn(call.flat) \in {answer.z, answer.busier}
              /\ DOMAIN call.buckets = {call.until} => answer.z = standIn(call.flat)

----------------------------------------------------------------------------
(* Promotion                                                               *)

Perfect(model, rows) == \A r \in ToSet(rows) : model[r.text] = r.label

\* The rows are the newest labelled ones; the held-out rows are the newest of these and
\* never rows the candidate was trained on; when one of them is positive, a candidate that
\* makes a mistake does not replace a model that makes none, nor one that finds no positive
\* a model that finds some ("no leakage across the time boundary", evalx.py).
GateSound ==
    Answered("gate") =>
        LET train == answer.split.train
            held == answer.split.eval
            kept == ToSet(train) \cup ToSet(held)
            labeled == {r \in ToSet(call.view) : r.label # Unlabeled}
            positive == {r \in ToSet(held) : r.label = 1}
            found(model) == {r \in positive : model[r.text] = 1}
        IN
        /\ kept \subseteq labeled /\ \A r \in labeled \ kept : \A s \in kept : r.ts <= s.ts
        /\ ToSet(train) \cap ToSet(held) = {}
        /\ \A r \in ToSet(train) : \A h \in ToSet(held) : r.ts <= h.ts
        /\ Len(train) + Len(held) >= 2 => train # <<>> /\ held # <<>>
        /\ answer.promoted =>
              /\ \A class \in {0, 1} : \E r \in ToSet(call.view) : r.label = class
              /\ positive # {} =>
                    \A incumbent \in call.current :
                        /\ Perfect(incumbent, held) => Perfect(call.candidate, held)
                        /\ found(incumbent) # {} => found(call.candidate) # {}
=============================================================================
