----------------------------- MODULE Tokenizer -------------------------------
(***************************************************************************)
(* Byte-level BPE as engine/src/tokenizer.c reads it from a tokenizer.json *)
(* and runs it: the added tokens matched as written, normalization, the    *)
(* added tokens matched in normalized text, the split into pieces, and the *)
(* merges of each piece.  A WordPiece file is run by WordPiece.            *)
(*                                                                         *)
(* A file is a record of what its JSON says, and the two hash maps are     *)
(* lookups.  What is checked of a file by name alone (a type that is not   *)
(* supported) is one flag of it.  A text is typed one character at a time. *)
(***************************************************************************)
EXTENDS WordPiece

CONSTANTS
  Files,    \* the files that may be read; see the model's instance
  Typed(_)  \* bound of the model: the texts typed for a file

VARIABLES
  file, \* the one read
  tok,  \* the tokenizer that is made of it
  text  \* what is encoded

vars == <<file, tok, text>>

-----------------------------------------------------------------------------
(* The file *)

\* The byte-level alphabet: printable bytes stand for themselves, the others
\* are shifted in byte order.
Direct == 33 .. 126 \cup 161 .. 172 \cup 174 .. 255
byte_to_cp == [b \in 0 .. 255 |-> IF b \in Direct THEN b ELSE 256 + Cardinality({x \in 0 .. b - 1 : x \notin Direct})]
cp_to_byte == [cp \in Range(byte_to_cp) |-> CHOOSE b \in 0 .. 255 : byte_to_cp[b] = cp]

Spelled(cps) == \A i \in DOMAIN cps : cps[i] \in DOMAIN cp_to_byte
byte_level_decode(cps) == [i \in DOMAIN cps |-> cp_to_byte[cps[i]]]

NoSplit == [ok |-> TRUE, digits |-> 0, qwen2 |-> FALSE, prefix |-> FALSE]

\* The steps before the merges: Digits once, or Qwen2's Split alone, and
\* ByteLevel last, which splits by itself unless a Split did.
configure_pretokenizer(steps) ==
  LET n == Len(steps)
      Step(c, i) ==
        LET s == steps[i]
        IN  CASE ~c.ok -> c
              [] s.type = "Digits" /\ i < n /\ c.digits = 0 /\ ~c.qwen2 -> [c EXCEPT !.digits = IF s.individual THEN 1 ELSE 2]
              [] s.type = "Split" /\ i = 1 /\ n = 2 -> [c EXCEPT !.qwen2 = TRUE]
              [] s.type = "ByteLevel" /\ i = n ->
                   [c EXCEPT !.ok = s.use_regex # c.qwen2 /\ ~(c.qwen2 /\ s.prefix), !.prefix = s.prefix]
              [] OTHER -> [c EXCEPT !.ok = FALSE]
      c == FoldLeftDomain(Step, NoSplit, steps)
  IN  [c EXCEPT !.ok = @ /\ n > 0 /\ Last(steps).type = "ByteLevel"]

\* The bytes an added token is matched by.
MatchedBy(f, a) == IF a.normalized /\ f.nfc THEN vitna_uni_nfc(a.content) ELSE a.content

\* The bytes an added token is decoded to: as many of its content's as it is matched by.
DecodedTo(f, a) == SubSeq(a.content, 1, Len(MatchedBy(f, a)))

\* The first of some entries with an id.
First(entries, id) == entries[Min({i \in DOMAIN entries : entries[i].id = id})]

VocabBytes(e) == IF Spelled(e.key) THEN byte_level_decode(e.key) ELSE Bytes(e.key)

\* A pair listed twice keeps its first rank.
Rank(at) == Min(at)

\* What vitna_tokenizer_load makes of a file.
vitna_tokenizer_load(f) ==
  LET pre == configure_pretokenizer(f.steps)
      added == {f.added[i].id : i \in DOMAIN f.added}
      ids == added \cup {f.vocab[i].id : i \in DOMAIN f.vocab}
      bytes == [id \in ids |-> IF id \in added THEN DecodedTo(f, First(f.added, id)) ELSE VocabBytes(First(f.vocab, id))]
      IdOf(b) == LET same == {id \in ids : bytes[id] = b} IN IF b = <<>> \/ same = {} THEN None ELSE Min(same)
      pairs == [r \in DOMAIN f.merges |-> <<IdOf(byte_level_decode(f.merges[r][1])), IdOf(byte_level_decode(f.merges[r][2]))>>]
      whole == [r \in DOMAIN f.merges |-> IdOf(byte_level_decode(f.merges[r][1]) \o byte_level_decode(f.merges[r][2]))]
  IN  IF \/ ~f.supported \/ ~pre.ok
         \/ \E i \in DOMAIN f.added : f.added[i].content = <<>>
         \/ \E r \in DOMAIN f.merges : ~Spelled(f.merges[r][1]) \/ ~Spelled(f.merges[r][2])
         \/ \E r \in DOMAIN f.merges : None \in {pairs[r][1], pairs[r][2], whole[r]}
      THEN Refusal
      ELSE [digits |-> pre.digits, qwen2_split |-> pre.qwen2, add_prefix_space |-> pre.prefix,
            ignore_merges |-> f.ignore_merges, nfc |-> f.nfc, bytes |-> bytes,
            special |-> {f.added[i].id : i \in {k \in DOMAIN f.added : f.added[k].special}},
            map |-> [b \in {bytes[id] : id \in ids} \ {<<>>} |-> IdOf(b)],
            merges |-> [p \in Range(pairs) |->
                          LET r == Rank({k \in DOMAIN pairs : pairs[k] = p}) IN [rank |-> r, merged |-> whole[r]]],
            added |-> [i \in DOMAIN f.added |-> [bytes |-> MatchedBy(f, f.added[i]), id |-> f.added[i].id,
                                                 normalized |-> f.added[i].normalized]]]

map_find(t, b) == IF b \in DOMAIN t.map THEN t.map[b] ELSE None

-----------------------------------------------------------------------------
(* The merges of a piece *)

merge_find(t, left, right) ==
  IF <<left, right>> \in DOMAIN t.merges THEN {t.merges[<<left, right>>]} ELSE {}

\* The merges of the pairs that begin at some positions, as candidates.
Candidates(t, s, at) ==
  UNION {{[rank |-> m.rank, pos |-> i, merged |-> m.merged] : m \in merge_find(t, s.id[i], s.id[s.next[i]])} :
           i \in {k \in at : s.next[k] > 0}}

cand_less(a, b) == a.rank < b.rank \/ (a.rank = b.rank /\ a.pos < b.pos)

\* A candidate no merge since has made stale.
Fresh(t, s, c) ==
  c.pos \in s.alive /\ s.next[c.pos] > 0
  /\ \E m \in merge_find(t, s.id[c.pos], s.id[s.next[c.pos]]) : m.merged = c.merged

\* Mutant: the token on the right of a pair is kept.
RightKept(t, s, c) ==
  LET m == [s EXCEPT !.id[c.pos] = c.merged, !.next[c.pos] = s.next[s.next[c.pos]]]
      new == Candidates(t, m, {c.pos} \cup ({s.prev[c.pos]} \ {0}))
  IN  [m EXCEPT !.heap = @ \cup new, !.pushed = @ + Cardinality(new)]

\* The pair at i becomes one token: the pairs it is now in are candidates.
MergeAt(t, s, c) ==
  LET i == c.pos
      j == s.next[i]
      m == [s EXCEPT !.id[i] = c.merged, !.alive = @ \ {j}, !.next[i] = s.next[j],
                     !.prev = IF s.next[j] > 0 THEN [@ EXCEPT ![s.next[j]] = i] ELSE @]
      new == Candidates(t, m, {i} \cup ({s.prev[i]} \ {0}))
  IN  [m EXCEPT !.heap = @ \cup new, !.pushed = @ + Cardinality(new)]

RECURSIVE MergeAll(_, _)
MergeAll(t, s) ==
  IF s.heap = {} THEN s
  ELSE LET c == CHOOSE c \in s.heap : \A d \in s.heap \ {c} : cand_less(c, d)
           popped == [s EXCEPT !.heap = @ \ {c}]
       IN  MergeAll(t, IF Fresh(t, popped, c) THEN MergeAt(t, popped, c) ELSE popped)

\* A piece before its merges: its bytes' tokens, less those of no token.
Begun(t, piece) ==
  LET id == SelectSeq([i \in DOMAIN piece |-> map_find(t, <<piece[i]>>)], LAMBDA x : x # None)
      n == Len(id)
      s == [id |-> id, prev |-> [i \in 1 .. n |-> i - 1], next |-> [i \in 1 .. n |-> IF i < n THEN i + 1 ELSE 0],
            alive |-> 1 .. n, heap |-> {}, pushed |-> 0]
      first == Candidates(t, s, 1 .. n)
  IN  [s EXCEPT !.heap = first, !.pushed = Cardinality(first)]

Left(s) == LET at == SelectSeq([i \in DOMAIN s.id |-> i], LAMBDA i : i \in s.alive) IN [k \in DOMAIN at |-> s.id[at[k]]]

bpe_piece(t, piece) ==
  IF piece = <<>> THEN <<>>
  ELSE IF t.ignore_merges /\ map_find(t, piece) # None THEN <<map_find(t, piece)>>
  ELSE Left(MergeAll(t, Begun(t, piece)))

-----------------------------------------------------------------------------
(* The pieces of a text, as code points *)

classify(cp) ==
  CASE vitna_uni_is_space(cp) -> "space" [] vitna_uni_is_letter(cp) -> "letter"
    [] vitna_uni_is_number(cp) -> "number" [] OTHER -> "other"
is_other(cp) == classify(cp) = "other"
is_letter(cp) == vitna_uni_is_letter(cp)
is_line_break(cp) == cp \in {10, 13}

\* The last position from i on with all from i to it kept, or i - 1; and the code point there, or none.
run_while(s, i, Keep(_)) == Min({j \in i .. Len(s) : ~Keep(s[j])} \cup {Len(s) + 1}) - 1
CpAt(s, i) == IF i <= Len(s) THEN s[i] ELSE 0

Apostrophe == 39
Space == 32
\* s t m d, and re ve ll
OneLetter == {115, 116, 109, 100}
TwoLetters == {<<114, 101>>, <<118, 101>>, <<108, 108>>}

\* A code point as a contraction compares it whatever its case: the long s folds to s.
fold(cp) == IF cp \in 65 .. 90 THEN cp + 32 ELSE IF cp = 383 THEN 115 ELSE cp

\* The end of a contraction at i, or none.
Contraction(s, i, Fold(_)) ==
  LET c1 == Fold(CpAt(s, i + 1))
      c2 == Fold(CpAt(s, i + 2))
  IN  IF s[i] # Apostrophe THEN {} ELSE IF c1 \in OneLetter THEN {i + 1}
      ELSE IF <<c1, c2>> \in TwoLetters THEN {i + 2} ELSE {}

\* White space from i, less its last character when more than one and text follows.
Blank(s, i) ==
  LET end == run_while(s, i, vitna_uni_is_space)
  IN  IF end < Len(s) /\ end > i THEN end - 1 ELSE end

\* The end of the piece that begins at i: GPT-2's pattern, then Qwen2's.
GptEnd(s, i) ==
  LET after == i < Len(s) /\ s[i] = Space /\ classify(s[i + 1]) # "space"
      start == IF after THEN i + 1 ELSE i
      Same(c) == classify(c) = classify(s[start])
      Plain(c) == c
  IN  IF Contraction(s, i, Plain) # {} THEN Max(Contraction(s, i, Plain))
      ELSE IF classify(s[start]) # "space" THEN run_while(s, start, Same) ELSE Blank(s, i)

\* Mutant: line breaks end the piece they come after.
NoBreaks(s, i) == run_while(s, i, is_other)

\* A run of the rest, with the line breaks after it.
Rest(s, i) == run_while(s, run_while(s, i, is_other) + 1, is_line_break)

QwenEnd(s, i) ==
  LET k == classify(s[i])
      lead == ~is_line_break(s[i]) /\ k \notin {"letter", "number"} /\ is_letter(CpAt(s, i + 1))
      start == IF s[i] = Space /\ i < Len(s) /\ is_other(s[i + 1]) THEN i + 1 ELSE i
      breaks == {j \in i .. run_while(s, i, vitna_uni_is_space) : is_line_break(s[j])}
  IN  CASE Contraction(s, i, fold) # {} -> Max(Contraction(s, i, fold))
        [] OTHER ->
           IF lead \/ k = "letter" THEN run_while(s, i + 1, is_letter)
           ELSE IF k = "number" THEN i
           ELSE IF is_other(s[start]) THEN Rest(s, start)
           ELSE IF breaks # {} THEN Max(breaks) ELSE Blank(s, i)

\* A text cut where each piece ends.
Cut(s, End(_, _)) ==
  LET Next1(r, i) == IF i < r.next THEN r
                     ELSE [out |-> Append(r.out, SubSeq(s, i, End(s, i))), next |-> End(s, i) + 1]
  IN  FoldLeftDomain(Next1, [out |-> <<>>, next |-> 1], s).out

split_gpt2(s) == Cut(s, GptEnd)
split_qwen2(s) == Cut(s, QwenEnd)

encode_piece(t, s) ==
  IF s = <<>> THEN <<>>
  ELSE IF t.qwen2_split THEN split_qwen2(s)
  ELSE IF t.add_prefix_space /\ s[1] # Space THEN split_gpt2(<<Space>> \o s) ELSE split_gpt2(s)

\* The Digits step: each number character alone, or runs of them.
DigitEnd(t, s, i) ==
  IF vitna_uni_is_number(s[i]) THEN IF t.digits = 2 THEN run_while(s, i, vitna_uni_is_number) ELSE i
  ELSE run_while(s, i, LAMBDA c : ~vitna_uni_is_number(c))

Pieces(t, s) ==
  LET parts == IF t.digits = 0 THEN <<s>> ELSE Cut(s, LAMBDA x, i : DigitEnd(t, x, i))
  IN  FlattenSeq([i \in DOMAIN parts |-> encode_piece(t, parts[i])])

encode_segment(t, s) ==
  LET pieces == Pieces(t, CodePoints(s)) IN FlattenSeq([i \in DOMAIN pieces |-> bpe_piece(t, Bytes(pieces[i]))])

-----------------------------------------------------------------------------
(* The whole of a text *)

Normalized(t, s) == IF t.nfc THEN vitna_uni_nfc(s) ELSE s
AddedTokens(t, normalized) == SelectSeq(t.added, LAMBDA a : a.normalized = normalized)

encode_normalized(t, s) == SplitAdded(AddedTokens(t, TRUE), Normalized(t, s), LAMBDA p : encode_segment(t, p))

vitna_tokenizer_encode(t, s) == SplitAdded(AddedTokens(t, FALSE), s, LAMBDA p : encode_normalized(t, p))

-----------------------------------------------------------------------------
Load(f) == IF f.wordpiece THEN vitna_wordpiece_from_json(f) ELSE vitna_tokenizer_load(f)

\* A file that is read: one that is refused loads no model.
Init ==
  /\ file \in Files
  /\ tok = Load(file)
  /\ text = <<>>

\* The next character.
Type ==
  /\ tok # Refusal
  /\ \E c \in Typed(file) : Len(text) + Len(c) <= file.limit /\ text' = text \o c
  /\ UNCHANGED <<file, tok>>

Next == Type

Spec == Init /\ [][Next]_vars

-----------------------------------------------------------------------------
(* Properties: each compares with a definition of its own *)

Read == tok # Refusal
Bpe == Read /\ ~file.wordpiece
cps == CodePoints(text)

\* The decoder takes a longer sequence for one character exactly when it is the
\* one way to write it, so every text, whatever its bytes, is the bytes of its
\* code points again.
Utf8Exact == Bytes(cps) = text

\* NFC composes a text to the same whatever canonical form it comes in: marks of
\* different classes in another order, a composite or its parts; and what it
\* gives is one of those forms, which it leaves as it is.  The shortcut for text
\* below U+0300 gives the same.
NfcCanonical ==
  LET nfc == CodePoints(vitna_uni_nfc(text))
      Class(i) == vitna_uni_combining_class(cps[i])
      Swapped(i) == [cps EXCEPT ![i] = cps[i + 1], ![i + 1] = cps[i]]
      Split1(i) == SubSeq(cps, 1, i - 1) \o decompose(cps[i]) \o SubSeq(cps, i + 1, Len(cps))
  IN  file.nfc =>
        /\ nfc = Nfc(cps) /\ nfc = Nfc(nfc) /\ Nfd(nfc) = Nfd(cps)
        /\ \A i \in DOMAIN cps :
             /\ Nfc(Split1(i)) = nfc
             /\ i < Len(cps) =>
                  ((Class(i) > 0 /\ Class(i + 1) > 0 /\ Class(i) # Class(i + 1)) => Nfc(Swapped(i)) = nfc)

\* A pattern is alternatives of parts; a part is code points of a set, from min
\* to max of them, or that no text follows.
Part(set, min, max) == [set |-> set, min |-> min, max |-> max]
Many == 99

\* Where a match of parts from i ends: each part takes the most that lets the rest match.
RECURSIVE Match(_, _, _)
Match(s, i, parts) ==
  IF parts = <<>> THEN {i - 1}
  ELSE LET p == Head(parts)
           counts == {n \in p.min .. Len(s) - i + 1 : n <= p.max /\ (\A j \in i .. i + n - 1 : s[j] \in p.set)
                                                      /\ Match(s, i + n, Tail(parts)) # {}}
       IN  IF p.max = 0 THEN IF i > Len(s) \/ s[i] \in p.set THEN Match(s, i, Tail(parts)) ELSE {}
           ELSE IF counts = {} THEN {} ELSE Match(s, i + Max(counts), Tail(parts))

\* The first alternative that matches, again and again.
Matched(s, alternatives) ==
  LET End(x, i) == LET first == Min({a \in DOMAIN alternatives : Match(x, i, alternatives[a]) # {}})
                   IN  Max(Match(x, i, alternatives[first]))
  IN  Cut(s, End)

\* The patterns of tokenizer.c's comments, over the code points of a text.
W(s) == {c \in Range(s) : vitna_uni_is_space(c)}
L(s) == {c \in Range(s) : vitna_uni_is_letter(c)}
N(s) == {c \in Range(s) : vitna_uni_is_number(c)}
O(s) == Range(s) \ (W(s) \cup L(s) \cup N(s))
Br == {10, 13}
One(set) == Part(set, 1, 1)
Maybe(set) == Part(set, 0, 1)
Some(set) == Part(set, 1, Many)
NoneAhead(s) == Part(W(s), 0, 0)
Contractions(Cased(_)) ==
  [i \in 1 .. 4 |-> <<One({39}), One(Cased(<<115, 116, 109, 100>>[i]))>>]
  \o [i \in 1 .. 3 |-> <<One({39}), One(Cased(<<114, 118, 108>>[i])), One(Cased(<<101, 101, 108>>[i]))>>]
GPT2(s) ==
  Contractions(LAMBDA c : {c})
  \o << <<Maybe({32}), Some(L(s))>>, <<Maybe({32}), Some(N(s))>>, <<Maybe({32}), Some(O(s))>>,
        <<Some(W(s)), NoneAhead(s)>>, <<Some(W(s))>> >>
QWEN2_PATTERN(s) ==
  Contractions(LAMBDA c : {c, c - 32} \cup (IF c = 115 THEN {383} ELSE {}))
  \o << <<Maybe(Range(s) \ (Br \cup L(s) \cup N(s))), Some(L(s))>>, <<One(N(s))>>,
        <<Maybe({32}), Some(O(s)), Part(Br, 0, Many)>>, <<Part(W(s), 0, Many), Some(Br)>>,
        <<Some(W(s)), NoneAhead(s)>>, <<Some(W(s))>> >>

\* A step of the library's pre-tokenizer on one piece.
Stepped(step, s) ==
  CASE step.type = "Digits" -> Matched(s, << <<Part(N(s), 1, IF step.individual THEN 1 ELSE Many)>>, <<Some(Range(s) \ N(s))>> >>)
    [] step.type = "Split" -> Matched(s, QWEN2_PATTERN(s))
    [] OTHER -> LET p == IF step.prefix /\ s[1] # 32 THEN <<32>> \o s ELSE s IN IF step.use_regex THEN Matched(p, GPT2(p)) ELSE <<p>>

\* With every list of steps that is accepted, a text is cut into the pieces that
\* the steps give one after another, each pattern matched as a regular expression.
PiecesAsSteps == (Bpe /\ text # <<>>) =>
  Pieces(tok, cps) = FoldLeft(LAMBDA pieces, step : FlattenSeq([i \in DOMAIN pieces |-> Stepped(step, pieces[i])]),
                              <<cps>>, file.steps)

\* The pair of some parts that is listed first, leftmost, becomes one, again and again.
RECURSIVE Merged(_)
Merged(parts) ==
  LET listed(i) == {r \in DOMAIN file.merges : file.merges[r] = <<[k \in DOMAIN parts[i] |-> byte_to_cp[parts[i][k]]],
                                                                  [k \in DOMAIN parts[i + 1] |-> byte_to_cp[parts[i + 1][k]]]>>}
      at == {i \in 1 .. Len(parts) - 1 : listed(i) # {}}
      i == CHOOSE i \in at : \A j \in at \ {i} : Min(listed(i)) < Min(listed(j)) \/ (Min(listed(i)) = Min(listed(j)) /\ i < j)
  IN  IF at = {} THEN parts
      ELSE Merged(SubSeq(parts, 1, i - 1) \o <<parts[i] \o parts[i + 1]>> \o SubSeq(parts, i + 2, Len(parts)))

\* The tokens of a piece are what merging the pair listed first, leftmost, until
\* none is listed, leaves of its bytes, though the code merges by a queue of
\* candidates that later merges make stale; and the queue has room for them.
MergedByRank == Bpe =>
  LET ids == bpe_piece(tok, text)
      bytes == SelectSeq([i \in DOMAIN text |-> <<text[i]>>], LAMBDA b : b \in DOMAIN tok.map)
      whole == tok.ignore_merges /\ text \in DOMAIN tok.map
  IN  /\ [i \in DOMAIN ids |-> tok.bytes[ids[i]]] = IF whole THEN <<text>> ELSE Merged(bytes)
      /\ MergeAll(tok, Begun(tok, text)).pushed <= 3 * Len(text)

\* The tokens of a text are decoded to the text, or to a canonical form of it if
\* it is normalized, with no byte lost, added or moved but those no token has, and
\* the spaces put before pieces where the file asks for them.
DecodesToText == Bpe =>
  LET ids == vitna_tokenizer_encode(tok, text)
      decoded == FlattenSeq([i \in DOMAIN ids |-> tok.bytes[ids[i]]])
      Seen(b) == <<b>> \in DOMAIN tok.map /\ ~(tok.add_prefix_space /\ b = 32)
  IN  IF file.nfc THEN Nfd(CodePoints(decoded)) = Nfd(cps) ELSE SelectSeq(decoded, Seen) = SelectSeq(text, Seen)

\* An added token is decoded to its content: "their bytes are their content, as written".
AddedAsWritten == Bpe =>
  \A i \in DOMAIN file.added : tok.bytes[file.added[i].id] = First(file.added, file.added[i].id).content

\* The words of normalized text, and the longest entries that spell each from
\* its beginning: where they end, if they spell all of it.
WordsOf(s) ==
  SelectSeq(Matched(s, << <<Some(W(s))>>, <<One({c \in Range(s) : is_punct(c)})>>,
                          <<Some({c \in Range(s) : ~is_punct(c) /\ c \notin W(s)})>> >>), LAMBDA w : w[1] \notin W(s))
Spellings(w) ==
  LET Entry(from, to) == (IF from = 0 THEN <<>> ELSE tok.prefix) \o Bytes(SubSeq(w, from + 1, to))
      In(from, to) == \E id \in DOMAIN tok.text : tok.text[id] = Entry(from, to)
      Before(ends, e) == Max({0} \cup {d \in ends : d < e})
  IN  {ends \in {c \cup {Len(w)} : c \in SUBSET (1 .. Len(w) - 1)} :
         \A e \in ends : In(Before(ends, e), e) /\ \A more \in e + 1 .. Len(w) : ~In(Before(ends, e), more)}

\* A word is spelled by the longest entries from its beginning, whole, or is the
\* unknown token alone; with what the template puts around the text, once.
WordsSpelled == (Read /\ file.wordpiece) =>
  LET words == WordsOf(CodePoints(vitna_wordpiece_normalize(tok, text)))
      Lengths(w) == LET ends == CHOOSE e \in Spellings(w) : TRUE
                        at == SelectSeq([i \in 1 .. Len(w) + 1 |-> i - 1], LAMBDA i : i \in ends \cup {0})
                    IN  [k \in 1 .. Len(at) - 1 |-> (IF k = 1 THEN <<>> ELSE tok.prefix) \o Bytes(SubSeq(w, at[k] + 1, at[k + 1]))]
      Texts(w) == IF Len(w) > tok.max_word \/ Spellings(w) = {} THEN <<tok.text[tok.unk]>> ELSE Lengths(w)
      ids == vitna_wordpiece_encode(tok, text)
      inner == SubSeq(ids, Len(tok.before) + 1, Len(ids) - Len(tok.after))
  IN  file.added = <<>> =>
        /\ ids = tok.before \o inner \o tok.after
        /\ [i \in DOMAIN inner |-> tok.text[inner[i]]] = FlattenSeq([i \in DOMAIN words |-> Texts(words[i])])

\* Reading and normalising text loses nothing: bytes that are no UTF-8 survive,
\* and texts that are canonically the same come out as one (unicode.c:183-262).
TextExact == Utf8Exact /\ NfcCanonical

\* The tokens are what the pattern, the order of the merges and the longest
\* pieces say, whatever the shortcuts, the heap of candidates and its stale
\* entries do (tokenizer.c:600-960, wordpiece.c:286-360).
TokensExact == PiecesAsSteps /\ MergedByRank /\ WordsSpelled
=============================================================================
