------------------------------- MODULE Sources -------------------------------
(***************************************************************************)
(* What the ingesters make of one record of their source: should_keep and  *)
(* normalize of services/ingest/*/normalize.py and press.py, and the keys  *)
(* under which the poll loop and the deduper know it.                      *)
(*                                                                         *)
(* A field is a value, None, Empty, or Odd: something of another type.     *)
(* Texts are opaque; of two LongRefs only the first MaxRef characters are  *)
(* the same.  A hash is the tuple of what is hashed.  A coordinate that is *)
(* not a number is treated by the code like one out of range.              *)
(***************************************************************************)
EXTENDS Integers, SequencesExt

None  == "none"
Empty == "empty"
Odd   == "odd"

LongRefs == {"long1", "long2"}

\* isinstance(v, str), and what Python takes for true.
IsStr(v)  == v \notin {None, Odd}
Truthy(v) == v \notin {None, Empty}

\* v[:256]
Cut(v) == IF v \in LongRefs THEN "long" ELSE v

Nothing == [is |-> "nothing"]   \* normalize returned None, or should_keep False
Failure == [is |-> "raise"]

\* The part of an Item that its identity and its evidence hang on.
Item(hash, author, parent, entities, geo) ==
    [is |-> "item", hash |-> hash, author |-> author, parent |-> parent,
     entities |-> entities, geo |-> geo]

\* Geo, or nothing for what is not on the globe.
Point(lon, lat) == IF lon \in -180..180 /\ lat \in -90..90 THEN <<lon, lat>> ELSE <<>>

\* Those of the first `most` parts of a list of places that are not blank.
Places(list, most) == {list[k] : k \in {j \in DOMAIN list : j <= most}} \ {Empty}

----------------------------------------------------------------------------
(* Streams and timelines                                                   *)

Langs == {"en"}

\* Mutant: a post is known by its record key, which is unique to its account only.
UriKeyOfRkey(did, rkey) == <<"bsky", rkey>>

\* _uri_key of at://did/app.bsky.feed.post/rkey
UriKey(did, rkey) == <<"bsky", did, rkey>>

KeepBluesky(e) ==
    /\ e.op = "create" /\ IsStr(e.text) /\ e.text # Empty
    /\ e.langs \cap Langs # {}

\* parent is <<>>, <<Odd>> or the account and record key of the post replied to.
Bluesky(e) ==
    IF e.commit = Odd THEN Failure
    ELSE IF e.commit = None \/ ~KeepBluesky(e) \/ ~IsStr(e.did) \/ ~Truthy(e.rkey) THEN Nothing
    ELSE IF e.parent = <<Odd>> THEN Failure
    ELSE Item(UriKey(e.did, e.rkey), <<e.did>>,
              IF e.parent = <<>> THEN <<>> ELSE UriKey(e.parent[1], e.parent[2]), {}, <<>>)

KeepMastodon(s) ==
    /\ s.reblog = None /\ s.visibility = "public"
    /\ s.language \in Langs /\ ~s.bot
    /\ IsStr(s.content) /\ s.content # Empty

\* Mutant: a status is known by the instance's own id.
MastodonByInstance(s) == <<"masto", s.instance, s.id>>

\* The key of a status is its ActivityPub uri.
MastodonKey(s) == <<"masto", s.uri>>

Mastodon(s) ==
    IF s.account = Odd /\ s.reblog = None /\ s.visibility = "public" /\ s.language \in Langs
    THEN Failure
    ELSE IF ~KeepMastodon(s) \/ ~IsStr(s.uri) \/ s.uri = Empty THEN Nothing
    ELSE Item(MastodonKey(s), IF Truthy(s.account) THEN <<s.instance, s.account>> ELSE <<>>,
              <<>>, {}, <<>>)

KeepWikipedia(e) ==
    /\ e.domain = "en.wikipedia.org" /\ e.namespace = 0
    /\ e.type \in {"edit", "new"} /\ e.bot = "no"

Wikipedia(e) ==
    LET key == IF Truthy(e.rev) THEN e.rev ELSE e.id IN
    IF e.meta = Odd THEN Failure
    ELSE IF ~KeepWikipedia(e) \/ ~Truthy(e.title) \/ (e.revision # Odd /\ ~Truthy(key)) THEN Nothing
    ELSE IF e.revision = Odd THEN Failure
    ELSE Item(<<"wiki", e.domain, Cut(key)>>, IF Truthy(e.user) THEN <<e.domain, e.user>> ELSE <<>>,
              <<>>, {}, <<>>)

----------------------------------------------------------------------------
(* Polled feeds                                                            *)

PressRef(r) == IF Truthy(r.guid) THEN r.guid ELSE r.link

\* A guid that does not fit in content_hash is not cut: the Item is not valid.
Press(r) ==
    IF ~IsStr(r.title) \/ r.title = Empty \/ ~Truthy(PressRef(r)) \/ r.age = "old" THEN Nothing
    ELSE IF PressRef(r) \in LongRefs THEN Failure
    ELSE Item(<<PressRef(r)>>, <<>>, <<>>, {}, <<>>)

\* fromtimestamp raises on a time out of range.
Usgs(f) ==
    IF f.properties = Odd THEN Failure
    ELSE IF ~Truthy(f.title) /\ ~Truthy(f.place) THEN Nothing
    ELSE IF f.time = "huge" THEN Failure
    ELSE Item(IF f.id = None THEN <<>> ELSE <<Cut(f.id)>>, <<>>, <<>>,
              IF Truthy(f.place) THEN {f.place} ELSE {}, Point(f.lon, f.lat))

MaxAreaEntities == 2   \* MAX_AREA_ENTITIES (32)

\* Mutant: points off the globe count as well.
CentroidOfAll(ring) ==
    IF ring = <<>> THEN <<>>
    ELSE << MapThenSumSet(LAMBDA k : ring[k][1], DOMAIN ring) \div Len(ring),
            MapThenSumSet(LAMBDA k : ring[k][2], DOMAIN ring) \div Len(ring) >>

\* _centroid of the exterior ring: the mean of its points that are on the globe.
Centroid(ring) ==
    LET on == {k \in DOMAIN ring : Point(ring[k][1], ring[k][2]) # <<>>}
        mean(x) == MapThenSumSet(LAMBDA k : x[k], on) \div Cardinality(on)
    IN  IF on = {} THEN <<>>
        ELSE <<mean([k \in on |-> ring[k][1]]), mean([k \in on |-> ring[k][2]])>>

NoaaRef(f) == IF Truthy(f.urn) THEN f.urn ELSE f.id

Noaa(f) ==
    IF f.properties = Odd THEN Failure
    ELSE IF f.status # "Actual" \/ (~Truthy(f.headline) /\ ~Truthy(f.event)) \/ ~Truthy(NoaaRef(f))
    THEN Nothing
    ELSE Item(<<Cut(NoaaRef(f))>>, <<>>, <<>>, Places(f.area, MaxAreaEntities), Centroid(f.ring))

MaxCountryEntities == 2   \* MAX_COUNTRY_ENTITIES (16)

\* An event type is a code of two letters, so that the cut falls into the id.
Gdacs(f) ==
    IF f.properties = Odd THEN Failure
    ELSE IF ~Truthy(f.name) \/ ~Truthy(f.eventtype) \/ ~Truthy(f.eventid) THEN Nothing
    ELSE Item(<<"gdacs", f.eventtype, Cut(f.eventid)>>, <<>>, <<>>,
              Places(f.country, MaxCountryEntities), Point(f.lon, f.lat))

Gdelt(a) ==
    IF ~IsStr(a.url) \/ a.url = Empty \/ ~Truthy(a.title) THEN Nothing
    ELSE Item(<<"gdelt", a.url>>, <<a.domain>>, <<>>, {}, <<>>)

Normalize(source, r) ==
    CASE source = "bluesky"   -> Bluesky(r)
      [] source = "mastodon"  -> Mastodon(r)
      [] source = "wikipedia" -> Wikipedia(r)
      [] source = "press"     -> Press(r)
      [] source = "usgs"      -> Usgs(r)
      [] source = "noaa"      -> Noaa(r)
      [] source = "gdacs"     -> Gdacs(r)
      [] source = "gdelt"     -> Gdelt(r)

Polled == {"press", "usgs", "noaa", "gdacs", "gdelt"}

\* Mutant: USGS events are known by the time of their last update.
DedupKeyOfUpdate(source, r) ==
    CASE source = "press" -> <<PressRef(r)>>
      [] source = "usgs"  -> <<r.updated>>
      [] source = "noaa"  -> <<r.urn, r.sent>>
      [] source = "gdacs" -> <<r.eventtype, r.eventid, r.episodeid, r.datemodified>>
      [] source = "gdelt" -> <<r.url>>

\* dedup_key, which tells the revisions of an event apart where content_hash does not.
DedupKey(source, r) ==
    CASE source = "press" -> <<PressRef(r)>>
      [] source = "usgs"  -> <<r.id, r.updated>>
      [] source = "noaa"  -> <<r.urn, r.sent>>
      [] source = "gdacs" -> <<r.eventtype, r.eventid, r.episodeid, r.datemodified>>
      [] source = "gdelt" -> <<r.url>>
=============================================================================
