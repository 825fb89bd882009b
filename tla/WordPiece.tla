----------------------------- MODULE WordPiece -------------------------------
(***************************************************************************)
(* A BERT tokenizer (engine/src/wordpiece.c): the added tokens matched as  *)
(* written, the text between them normalized, split into words, and each   *)
(* word spelled by the longest entries of the vocabulary.                  *)
(*                                                                         *)
(* The tables of wordpiece_data.h are constants, its decompositions and    *)
(* classes those of Unicode.  A tokenizer is the record that is left of    *)
(* its file; the hash map from a text to its id is a lookup.               *)
(***************************************************************************)
EXTENDS Unicode

CONSTANTS
  WP_OTHER, WP_MARK, WP_PUNCT,  \* control and unassigned, nonspacing marks, punctuation above ASCII
  WP_LOWER                      \* the lower case of what has one: one code point or two

ASSUME WordPieceAssumption ==
  /\ WP_MARK \cap (WP_OTHER \cup WP_PUNCT) = {}
  /\ \A c \in DOMAIN WP_LOWER : Len(WP_LOWER[c]) \in 1 .. 2

-----------------------------------------------------------------------------
(* Characters *)

is_control(cp) == cp \in WP_OTHER
is_mark(cp) == cp \in WP_MARK
is_punct(cp) ==
  IF Ascii(cp) THEN cp \in 33 .. 47 \cup 58 .. 64 \cup 91 .. 96 \cup 123 .. 126 ELSE cp \in WP_PUNCT
Cjk == {<<19968, 40959>>, <<13312, 19903>>, <<131072, 173791>>, <<173824, 177983>>, <<177984, 178207>>,
        <<178464, 183983>>, <<63744, 64255>>, <<194560, 195103>>}
is_cjk(cp) == \E r \in Cjk : r[1] <= cp /\ cp <= r[2]

-----------------------------------------------------------------------------
(* The normalizer: one step after another over the whole text *)

\* A control character that is also white space is dropped, not made a space.
Clean(cp) ==
  LET keep_ws == cp \in {9, 10, 13}
  IN  IF cp \in {0, 65533} \/ (~keep_ws /\ is_control(cp)) THEN <<>>
      ELSE IF keep_ws \/ vitna_uni_is_space(cp) THEN <<32>> ELSE <<cp>>

Spaced(cp) == IF is_cjk(cp) THEN <<32, cp, 32>> ELSE <<cp>>
Lower(cp) == IF cp \in DOMAIN WP_LOWER THEN WP_LOWER[cp] ELSE <<cp>>

Each(Step(_), on, cps) == IF on THEN FlattenSeq([i \in DOMAIN cps |-> Step(cps[i])]) ELSE cps

normalize_cps(t, cps) ==
  LET clean == Each(Clean, t.clean_text, cps)
      apart == Each(Spaced, t.chinese, clean)
      plain == IF t.strip_accents THEN SelectSeq(Nfd(apart), LAMBDA c : ~is_mark(c)) ELSE apart
  IN  Each(Lower, t.lowercase, plain)

vitna_wordpiece_normalize(t, s) == Bytes(normalize_cps(t, CodePoints(s)))

-----------------------------------------------------------------------------
(* Words *)

\* The id of a text, or -1.
None == -1
TextId(t, s) == IF \E id \in DOMAIN t.text : t.text[id] = s THEN CHOOSE id \in DOMAIN t.text : t.text[id] = s ELSE None

\* What is looked up for a piece: after the first, with the prefix.
Candidate(t, start, s) == IF start = 0 THEN s ELSE t.prefix \o s

\* A word that has a part no entry spells is the unknown token alone.
Unspelled(t, w, start, out) == <<t.unk>>

\* The ids of a word from an offset on, after those in out.
RECURSIVE Spell(_, _, _, _)
Spell(t, w, start, out) ==
  LET ends == {e \in start + 1 .. Len(w) : TextId(t, Candidate(t, start, Bytes(SubSeq(w, start + 1, e)))) # None}
      end == Max(ends)
  IN  IF start = Len(w) THEN out
      ELSE IF ends = {} THEN Unspelled(t, w, start, out)
      ELSE Spell(t, w, end, Append(out, TextId(t, Candidate(t, start, Bytes(SubSeq(w, start + 1, end))))))

encode_word(t, w) == IF Len(w) > t.max_word THEN <<t.unk>> ELSE Spell(t, w, 0, <<>>)

\* White space ends a word and is left out; punctuation ends one and is one.
Split(r, c) ==
  LET whole == IF r.word = <<>> THEN r.words ELSE Append(r.words, r.word)
  IN  IF vitna_uni_is_space(c) THEN [words |-> whole, word |-> <<>>]
      ELSE IF is_punct(c) THEN [words |-> Append(whole, <<c>>), word |-> <<>>]
      ELSE [r EXCEPT !.word = Append(@, c)]

Words(cps) ==
  LET r == FoldLeft(Split, [words |-> <<>>, word |-> <<>>], cps)
  IN  IF r.word = <<>> THEN r.words ELSE Append(r.words, r.word)

wp_encode_segment(t, s) ==
  LET words == Words(normalize_cps(t, CodePoints(s)))
  IN  FlattenSeq([i \in DOMAIN words |-> encode_word(t, words[i])])

-----------------------------------------------------------------------------
(* Added tokens: leftmost and longest *)

At(s, i, w) == i + Len(w) - 1 <= Len(s) /\ SubSeq(s, i, i + Len(w) - 1) = w

\* The first of the longest of some tokens that begin at s[i].
Longest(added, s, i) ==
  LET here == {k \in DOMAIN added : At(s, i, added[k].bytes)}
      most == {k \in here : \A j \in here : Len(added[j].bytes) <= Len(added[k].bytes)}
  IN  IF here = {} THEN {} ELSE {added[Min(most)]}

\* The ids of a text that has tokens among what Segment encodes.
SplitAdded(added, s, Segment(_)) ==
  LET Byte(r, i) ==
        LET best == Longest(added, s, i)
            token == CHOOSE a \in best : TRUE
        IN  IF i < r.next \/ best = {} THEN r
            ELSE [out |-> r.out \o Segment(SubSeq(s, r.seg, i - 1)) \o <<token.id>>,
                  seg |-> i + Len(token.bytes), next |-> i + Len(token.bytes)]
      r == FoldLeftDomain(Byte, [out |-> <<>>, seg |-> 1, next |-> 1], s)
  IN  r.out \o Segment(SubSeq(s, r.seg, Len(s)))

encode_text(t, s) == SplitAdded(t.added, s, LAMBDA p : wp_encode_segment(t, p))

vitna_wordpiece_encode(t, s) == t.before \o encode_text(t, s) \o t.after

-----------------------------------------------------------------------------
(* The file *)

EDGE_MAX == 8 \* WP_EDGE_MAX

Refusal == [refused |-> TRUE]

\* What a template of parts, each the text or special tokens, puts before and
\* after the text, which it holds once.
configure_post(post) ==
  LET at == {i \in DOMAIN post : post[i].text}
      Ids(from, to) == FlattenSeq([i \in 1 .. to - from + 1 |-> post[from + i - 1].ids])
      sides == CHOOSE i \in at : TRUE
  IN  IF post = <<>> THEN [before |-> <<>>, after |-> <<>>]
      ELSE IF Cardinality(at) # 1 THEN Refusal
      ELSE [before |-> Ids(1, sides - 1), after |-> Ids(sides + 1, Len(post))]

\* A vocabulary with each id and each text once, the unknown token in it, and
\* added tokens that are matched as written.
vitna_wordpiece_from_json(f) ==
  LET n == f.normalizer
      ids == {f.vocab[i].id : i \in DOMAIN f.vocab}
      more == {f.added[i].id : i \in DOMAIN f.added}
      Of(id) == IF id \in ids THEN (CHOOSE i \in DOMAIN f.vocab : f.vocab[i].id = id) ELSE (CHOOSE i \in DOMAIN f.added : f.added[i].id = id)
      post == configure_post(f.post)
      unk == {i \in DOMAIN f.vocab : f.vocab[i].content = f.unk}
      edges == IF post = Refusal THEN {} ELSE Range(post.before \o post.after)
  IN  IF \/ post = Refusal \/ f.max_word < 1 \/ unk = {}
         \/ \E i, j \in DOMAIN f.vocab : i # j /\ (f.vocab[i].id = f.vocab[j].id \/ f.vocab[i].content = f.vocab[j].content)
         \/ \E i \in DOMAIN f.added : f.added[i].normalized \/ f.added[i].content = <<>>
         \/ \E id \in edges : id > Max(ids \cup more)
         \/ Len(post.before) > EDGE_MAX \/ Len(post.after) > EDGE_MAX
      THEN Refusal
      ELSE [clean_text |-> n.clean_text, chinese |-> n.chinese, lowercase |-> n.lowercase,
            strip_accents |-> IF n.strip_accents = "null" THEN n.lowercase ELSE n.strip_accents = "true",
            text |-> [id \in ids \cup more |-> IF id \in ids THEN f.vocab[Of(id)].content ELSE f.added[Of(id)].content],
            unk |-> f.vocab[CHOOSE i \in unk : TRUE].id, prefix |-> f.prefix, max_word |-> f.max_word,
            added |-> [i \in DOMAIN f.added |-> [bytes |-> f.added[i].content, id |-> f.added[i].id]],
            special |-> {f.added[i].id : i \in {k \in DOMAIN f.added : f.added[k].special}},
            before |-> post.before, after |-> post.after]
=============================================================================
