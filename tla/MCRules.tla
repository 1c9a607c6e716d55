------------------------------- MODULE MCRules -------------------------------
EXTENDS Rules

\* "^" is an accent of its own, "E" an accented capital, "|" a control character.
MCClass == [c \in {"a", "b", "E", "^", ",", "#", " "} |->
               CASE c \in {"a", "b", "E", "^"} -> "word" [] c = "," -> "punct"
                 [] c = "#" -> "cjk" [] c = " " -> "space"]

MCNormal == [c \in {"a", "b", "E", "^", ",", "#", " "} |->
                CASE c = "E" -> <<"a">> [] c = "^" -> <<>> [] OTHER -> <<c>>]

Vocabs == {{<<"a">>, <<"a", "b">>, <<"##", "b">>, <<",">>, <<"##", "b", "b">>},
           {<<"a">>, <<"b">>, <<"E">>, <<"##", "a">>, <<"#">>}}

MCEncodeCalls ==
    [rule : {"encode"}, text : SeqOf({"a", "b", "E", "^", ",", " "}, 4) \cup {<<"b", "#", "a">>},
     vocab : Vocabs, uncased : BOOLEAN, maxLen : {2, 4, 9}]

Labels == {Outside} \cup [pre : {"B", "I"}, tag : {"PER", "LOC"}]

MCNerCalls ==
    [rule : {"ner"}, text : {<<"a", "b", "b", " ", "a">>, <<"a", ",", "a">>, <<"a", "^", "#">>,
                             <<"a", " ", "^", " ", "b">>},
     vocab : Vocabs, uncased : BOOLEAN, maxLen : {4, 6}, pred : {p \in [1..6 -> Labels] : p[1] = Outside /\ p[6] = Outside}]

MCMatchCalls ==
    [rule : {"match"}, tokens : SeqOf({"x", "y", "z"}, 5),
     phrases : {{<<"x">>, <<"x", "y">>, <<"y", "z", "x">>}, {<<"y">>, <<"x", "y", "z">>}}]

Entities(geos) == [text : {"tokyo", "york"}, type : {"place", "org"}, geo : geos]

MCMergeCalls ==
    [rule : {"merge"},
     item : [entities : SeqOf(Entities({<<>>, <<1, 1>>}), 1), geo : {<<>>, <<0, 0>>}],
     hits : SeqOf(Entities({<<>>, <<2, 2>>}), 2), found : SeqOf(Entities({<<>>}), 2)]

Words2 == SeqOf({"x", "y"}, 3)

MCHashCalls ==
    [rule : {"hash"}, tokens : Words2,
     hash : {[f \in Words2 |-> IF f = <<"x", "y">> THEN s ELSE t] :
                s, t \in SUBSET (0..(Bits - 1))}]

\* A record, and what differs from it in one field.
Near(r, alt) == {r} \cup UNION {{[r EXCEPT ![f] = v] : v \in alt[f]} : f \in DOMAIN alt}

Group(r, alt) ==
    [plain |-> Near(r, alt), any |-> UNION {Near(q, alt) : q \in Near(r, alt)}]

GroupOf(source) ==
    CASE source = "bluesky" ->
            Group([commit |-> "ok", op |-> "create", text |-> "t", langs |-> {"en"},
                   did |-> "d1", rkey |-> "k1", parent |-> <<>>],
                  [commit |-> {None, Odd}, op |-> {"delete"}, text |-> {None, Empty},
                   langs |-> {{"de"}}, did |-> {"d2", None}, rkey |-> {"k2", None},
                   parent |-> {<<Odd>>, <<"d1", "k1">>, <<"d2", "k1">>}])
      [] source = "mastodon" ->
            Group([reblog |-> None, visibility |-> "public", language |-> "en", bot |-> FALSE,
                   content |-> "t", uri |-> "u1", instance |-> "m1", id |-> "1", account |-> "c1"],
                  [reblog |-> {"r"}, language |-> {None, "de"}, bot |-> {TRUE}, content |-> {Empty, Odd},
                   uri |-> {"u2", None}, instance |-> {"m2"}, id |-> {"2"}, account |-> {"c2", Odd, None}])
      [] source = "wikipedia" ->
            Group([meta |-> "ok", domain |-> "en.wikipedia.org", namespace |-> 0, type |-> "edit",
                   bot |-> "no", title |-> "t", revision |-> "ok", rev |-> "1", id |-> "i1", user |-> "u"],
                  [meta |-> {Odd}, domain |-> {"de.wikipedia.org"}, namespace |-> {1}, type |-> {"log"},
                   bot |-> {"yes", None}, title |-> {None}, revision |-> {Odd},
                   rev |-> {"2", None, "long1", "long2"}, id |-> {"i2", None}, user |-> {None}])
      [] source = "press" ->
            Group([title |-> "t", guid |-> "g1", link |-> "l1", age |-> "new"],
                  [title |-> {None, Empty, Odd}, guid |-> {"g2", None, "long1", "l1"},
                   link |-> {"l2", None, "long1"}, age |-> {"old"}])
      [] source = "usgs" ->
            Group([properties |-> "ok", title |-> "t", place |-> "p", time |-> "fine", id |-> "e1",
                   updated |-> "1", lon |-> 10, lat |-> 10],
                  [properties |-> {Odd}, title |-> {None}, place |-> {None, Empty}, time |-> {"huge"},
                   id |-> {"e2", "long1", "long2"}, updated |-> {"2"}, lon |-> {180, 181, -181},
                   lat |-> {-90, -91}])
      [] source = "noaa" ->
            Group([properties |-> "ok", status |-> "Actual", headline |-> "h", event |-> "e",
                   urn |-> "u1", id |-> "f1", sent |-> "1", area |-> <<"x">>, ring |-> <<>>],
                  [properties |-> {Odd}, status |-> {"Test"}, headline |-> {None}, event |-> {None},
                   urn |-> {"u2", None, Empty, "long1", "long2"}, id |-> {"f2", None}, sent |-> {"2"},
                   area |-> {<<>>, <<"x", Empty, "y">>},
                   ring |-> {<< <<179, 1>>, <<-179, 1>> >>, << <<0, 200>>, <<4, 2>> >>}])
      [] source = "gdacs" ->
            Group([properties |-> "ok", name |-> "n", eventtype |-> "EQ", eventid |-> "1",
                   episodeid |-> "1", datemodified |-> "1", country |-> <<"x">>, lon |-> 0, lat |-> 0],
                  [properties |-> {Odd}, name |-> {None}, eventtype |-> {"FL", None},
                   eventid |-> {"2", Empty, "long1", "long2"}, episodeid |-> {"2"}, datemodified |-> {"2"},
                   country |-> {<<>>, <<Empty, "y", "z">>}, lat |-> {91}])
      [] source = "gdelt" ->
            Group([url |-> "u1", title |-> "t", domain |-> "d1"],
                  [url |-> {"u2", None, Odd, "long1", "long2"}, title |-> {None}, domain |-> {"d2"}])

MCRecordsOf == [s \in Polled \cup {"bluesky", "mastodon", "wikipedia"} |-> GroupOf(s)]

Models == [{"x", "y"} -> {0, 1}]

Times == {<<2, 1, 2, 1>>, <<1, 1, 2, 3>>, <<2, 1, 1, 1>>}
Texts == {<<"x", "y", "x", "y">>, <<"x", "x", "y", "y">>}

MCGateCalls ==
    [rule : {"gate"}, candidate : Models, current : {{}} \cup {{m} : m \in Models},
     view : {[k \in 1..4 |-> [id |-> k, ts |-> t[k], label |-> l[k], text |-> x[k]]] :
                t \in Times, l \in [1..4 -> {Unlabeled, 0, 1}], x \in Texts}]

\* Sparse tallies of four or six bins; the latest has mentions.
MCVelocityCalls ==
    UNION {[rule : {"velocity"}, until : {n}, num : {1}, den : {2}, least : {5}, flat : {10},
            buckets : UNION {[bins \cup {n} -> 1..2] : bins \in SUBSET (1..(n - 1))}] :
               n \in {4, 6}}

MCLimits == {-1, 1, 9}

Row(gap, trust, weather) == [gap |-> gap, trust |-> trust, weather |-> weather]

MCHistories ==
    { << <<Row(1, "rumor", FALSE), Row(2, "corroborated", FALSE)>>,
         <<Row(3, "corroborated", FALSE), Row(2, "corroborated", TRUE)>> >>,
      << <<Row(1, "corroborated", TRUE)>>,
         <<Row(1, "corroborated", TRUE), Row(1, "corroborated", FALSE)>> >>,
      << <<Row(0, "corroborated", FALSE), Row(0, "rumor", FALSE)>>, <<>> >> }
=============================================================================
