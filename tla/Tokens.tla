-------------------------------- MODULE Tokens --------------------------------
(***************************************************************************)
(* What the libraries make of a text: the WordPiece tokenizer with its     *)
(* offsets (libs/tokenize/wordpiece.py), the decoding of NER labels into   *)
(* entities (libs/ner/onnx_ner.py), the gazetteer (libs/gazetteer), the    *)
(* merge of both into an Item (libs/schema/item.py) and the fingerprint    *)
(* (libs/dedup/simhash.py).  A text is a sequence of characters, of which  *)
(* only the class and the normal form matter.                              *)
(***************************************************************************)
EXTENDS SequencesExt, Ordering

CONSTANTS Class,        \* [character -> "space" | "punct" | "cjk" | "word"]; controls are spaces
          Normal,       \* [character -> lower case, without its accents: a sequence]
          MaxChars,     \* _MAX_CHARS_PER_WORD
          MaxSpanText,  \* _MAX_ENTITY_TEXT
          MaxEntities,
          Bits          \* of a fingerprint

\* A character is one character, and its normal form is made of characters.
ASSUME CharactersAssumption ==
    /\ Class \in [DOMAIN Class -> {"space", "punct", "cjk", "word"}] /\ "##" \notin DOMAIN Class
    /\ Normal \in [DOMAIN Class -> Seq(DOMAIN Class)]
ASSUME SpanAssumption == MaxSpanText \in Nat
ASSUME BitsAssumption == Bits \in Nat \ {0}
ASSUME EntitiesAssumption == MaxEntities \in Nat

AtMostOf(n, limit) == IF n > limit THEN limit ELSE n

----------------------------------------------------------------------------
(* Tokenizer                                                               *)

Alone(c) == Class[c] \in {"punct", "cjk"}
InWord(c) == Class[c] = "word"

\* _basic_tokens: <<first, last>> of every word, in order.  A word is a run of word
\* characters, or one character of punctuation or CJK.
Words(text) ==
    LET n == Len(text)
        run(i, j) == /\ \A k \in i..j : InWord(text[k])
                     /\ i = 1 \/ ~InWord(text[i - 1])
                     /\ j = n \/ ~InWord(text[j + 1])
        words == {w \in (1..n) \X (1..n) :
                    w[1] <= w[2] /\ (run(w[1], w[2]) \/ (w[1] = w[2] /\ Alone(text[w[1]])))}
    IN  InOrder(words, {p \in words \X words : p[1][1] < p[2][1]})

NormalForm(chars, uncased) ==
    IF uncased THEN FlattenSeq([k \in DOMAIN chars |-> Normal[chars[k]]]) ELSE chars

UNK == <<"[UNK]">>
CLS == <<"[CLS]">>
SEP == <<"[SEP]">>

\* The piece of w from i to j, with the mark of a continuation.
Piece(w, i, j) == (IF i > 1 THEN <<"##">> ELSE <<>>) \o SubSeq(w, i, j)

\* Mutant: the shortest match is taken.
WordPieceShortest(w, vocab) ==
    LET ends(i) == {j \in i..Len(w) : Piece(w, i, j) \in vocab}
        cut[i \in 1..(Len(w) + 1)] ==
            IF i > Len(w) THEN <<>> ELSE IF ends(i) = {} THEN <<UNK>>
            ELSE <<Piece(w, i, Min(ends(i)))>> \o cut[Min(ends(i)) + 1]
    IN  IF UNK \in ToSet(cut[1]) THEN <<UNK>> ELSE cut[1]

\* Greedy, the longest match first; a word that does not go through is one UNK.
WordPiece(w, vocab) ==
    LET ends(i) == {j \in i..Len(w) : Piece(w, i, j) \in vocab}
        cut[i \in 1..(Len(w) + 1)] ==
            IF i > Len(w) THEN <<>> ELSE IF ends(i) = {} THEN <<UNK>>
            ELSE <<Piece(w, i, Max(ends(i)))>> \o cut[Max(ends(i)) + 1]
    IN  IF Len(w) > MaxChars \/ UNK \in ToSet(cut[1]) THEN <<UNK>> ELSE cut[1]

\* Truncated between words; word 0 is that of the special tokens.
Encode(text, vocab, uncased, maxLen) ==
    LET spans == Words(text)
        pieces == [k \in DOMAIN spans |->
                     WordPiece(NormalForm(SubSeq(text, spans[k][1], spans[k][2]), uncased), vocab)]
        used(k) == Len(FlattenSeq(SubSeq(pieces, 1, k)))
        kept == Cardinality({k \in DOMAIN spans : used(k) <= maxLen - 2})
    IN  [ids   |-> <<CLS>> \o FlattenSeq(SubSeq(pieces, 1, kept)) \o <<SEP>>,
         words |-> <<0>> \o FlattenSeq([k \in 1..kept |-> [p \in DOMAIN pieces[k] |-> k]]) \o <<0>>,
         spans |-> SubSeq(spans, 1, kept)]

----------------------------------------------------------------------------
(* NER                                                                     *)

Outside == [pre |-> "O", tag |-> ""]

\* Mutant: the label of a word is that of its last subword.
WordLabelOfLast(enc, pred) ==
    [w \in DOMAIN enc.spans |->
        LET at == {p \in DOMAIN enc.words : enc.words[p] = w} IN
        IF at = {} THEN Outside ELSE pred[Max(at)]]

\* The label of a word is that of its first subword; one without subwords is outside.
WordLabel(enc, pred) ==
    [w \in DOMAIN enc.spans |->
        LET at == {p \in DOMAIN enc.words : enc.words[p] = w} IN
        IF at = {} THEN Outside ELSE pred[Min(at)]]

Closed == [tag |-> "", first |-> 0, last |-> 0, found |-> <<>>]

\* flush: the text of the open span, if any, unless it was found already.
Flush(text, d) ==
    LET e == [text |-> SubSeq(text, d.first, AtMostOf(d.last, d.first + MaxSpanText - 1)),
              type |-> d.tag]
    IN  [d EXCEPT !.tag = "",
                  !.found = IF d.tag = "" \/ e \in ToSet(@) THEN @ ELSE Append(@, e)]

\* Mutant: an I- label always extends what is open.
DecodeBioExtends(text, spans, label) ==
    LET step(d, w) ==
            CASE label[w].pre = "B" \/ (label[w].pre = "I" /\ d.tag = "") ->
                    [Flush(text, d) EXCEPT !.tag = label[w].tag, !.first = spans[w][1],
                                           !.last = spans[w][2]]
              [] label[w].pre = "I" /\ d.tag # "" -> [d EXCEPT !.last = spans[w][2]]
              [] label[w].pre = "O" -> Flush(text, d)
    IN  Flush(text, FoldLeft(step, Closed, [w \in DOMAIN spans |-> w])).found

\* _decode_bio: one entity per B- or I- that does not continue the open span.
DecodeBio(text, spans, label) ==
    LET step(d, w) ==
            CASE label[w].pre = "B" \/ (label[w].pre = "I" /\ label[w].tag # d.tag) ->
                    [Flush(text, d) EXCEPT !.tag = label[w].tag, !.first = spans[w][1],
                                           !.last = spans[w][2]]
              [] label[w].pre = "I" /\ label[w].tag = d.tag -> [d EXCEPT !.last = spans[w][2]]
              [] label[w].pre = "O" -> Flush(text, d)
    IN  Flush(text, FoldLeft(step, Closed, [w \in DOMAIN spans |-> w])).found

Extract(text, vocab, uncased, maxLen, pred) ==
    LET enc == Encode(text, vocab, uncased, maxLen)
    IN  DecodeBio(text, enc.spans, WordLabel(enc, pred))

----------------------------------------------------------------------------
(* Gazetteer and merge                                                     *)

\* Gazetteer.match over tokens: <<first, last>> of every hit, the longest phrase at
\* each place, none inside another.
Match(tokens, phrases) ==
    LET n == Len(tokens)
        longest == Max({1} \cup {Len(p) : p \in phrases})
        at[i \in 1..(n + 1)] ==
            IF i > n THEN <<>>
            ELSE LET fits == {l \in 1..AtMostOf(longest, n - i + 1) :
                                SubSeq(tokens, i, i + l - 1) \in phrases}
                 IN  IF fits = {} THEN at[i + 1]
                     ELSE << <<i, i + Max(fits) - 1>> >> \o at[i + Max(fits)]
    IN  at[1]

\* merge_entities: what is not there yet, while there is room; the first geo is kept.
Merge(item, found) ==
    LET step(it, e) ==
            IF Len(it.entities) >= MaxEntities
               \/ \E k \in DOMAIN it.entities :
                    it.entities[k].text = e.text /\ it.entities[k].type = e.type
            THEN it
            ELSE [entities |-> Append(it.entities, e),
                  geo |-> IF it.geo = <<>> THEN e.geo ELSE it.geo]
    IN  FoldLeft(step, item, found)

----------------------------------------------------------------------------
(* Fingerprint                                                             *)

\* Word bigrams, or the only word.
Features(tokens) ==
    IF Len(tokens) < 2 THEN (IF tokens = <<>> THEN <<>> ELSE <<tokens>>)
    ELSE [k \in 1..(Len(tokens) - 1) |-> SubSeq(tokens, k, k + 1)]

\* 1 << k
Power2[k \in 0..Bits] == IF k = 0 THEN 1 ELSE 2 * Power2[k - 1]

\* A bit is set when more features have it than not; hash gives the bits of a feature.
Simhash(feats, hash) ==
    MapThenSumSet(LAMBDA b : Power2[b],
                  {b \in 0..(Bits - 1) :
                      2 * Cardinality({k \in DOMAIN feats : b \in hash[feats[k]]}) > Len(feats)})

\* Mutant: the sign bit is left to the positive numbers.
ToSignedLate(v) == IF v > Power2[Bits - 1] THEN v - Power2[Bits] ELSE v

\* to_signed64 and from_signed64, for a bigint
ToSigned(v) == IF v >= Power2[Bits - 1] THEN v - Power2[Bits] ELSE v
FromSigned(v) == IF v < 0 THEN v + Power2[Bits] ELSE v
=============================================================================
