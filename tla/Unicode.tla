------------------------------ MODULE Unicode --------------------------------
(***************************************************************************)
(* UTF-8 and Normalization Form C (engine/src/unicode.c) over bytes: the   *)
(* decoder the tokenizers read text with, the classes of their patterns,   *)
(* and the three steps of NFC.  A byte that begins no valid sequence is    *)
(* decoded alone, as a code point above all others.  The tables generated  *)
(* from the Unicode data are constants; finding a row in one (a binary     *)
(* search) is a lookup, and running out of memory is left out.             *)
(***************************************************************************)
EXTENDS Integers, SequencesExt, FiniteSetsExt, Functions

CONSTANTS
  UNI_LETTER, UNI_NUMBER,  \* the letters and the numbers above ASCII
  UNI_CCC,                 \* the combining classes that are not 0
  UNI_DECOMP,              \* the one-level canonical decompositions
  UNI_COMPOSE              \* the primary composites, by pair

ASSUME UnicodeAssumption ==
  /\ \A c \in DOMAIN UNI_CCC : c >= 768 /\ UNI_CCC[c] \in 1 .. 255
  /\ \A c \in DOMAIN UNI_DECOMP : Len(UNI_DECOMP[c]) \in 1 .. 2
  /\ \A p \in DOMAIN UNI_COMPOSE : UNI_COMPOSE[p] \in DOMAIN UNI_DECOMP /\ UNI_DECOMP[UNI_COMPOSE[p]] = p

INVALID == 1114112 \* 0x110000, above every code point
Ascii(c) == c < 128

vitna_uni_is_letter(cp) == IF Ascii(cp) THEN cp \in 65 .. 90 \cup 97 .. 122 ELSE cp \in UNI_LETTER
vitna_uni_is_number(cp) == IF Ascii(cp) THEN cp \in 48 .. 57 ELSE cp \in UNI_NUMBER
vitna_uni_is_space(cp) ==
  cp \in 9 .. 13 \cup {32, 133, 160, 5760, 8232, 8233, 8239, 8287, 12288} \cup 8192 .. 8202

-----------------------------------------------------------------------------
(* UTF-8 *)

\* What a first byte says: how many bytes, the bits it holds, and the least
\* code point that takes as many.
Lead(c) ==
  CASE c \in 194 .. 223 -> [n |-> 2, bits |-> c % 32, min |-> 128]
    [] c \in 224 .. 239 -> [n |-> 3, bits |-> c % 16, min |-> 2048]
    [] c \in 240 .. 244 -> [n |-> 4, bits |-> c % 8, min |-> 65536]
    [] OTHER -> [n |-> 1, bits |-> c, min |-> 0]

\* A scalar value in its shortest form.
Scalar(v, min) == v >= min /\ v <= 1114111 /\ v \notin 55296 .. 57343

\* The character that begins at s[i]: its code point and its length.
vitna_utf8_decode(s, i) ==
  LET lead == Lead(s[i])
      tail == {s[j] : j \in i + 1 .. i + lead.n - 1}
      whole == Len(s) - i + 1 >= lead.n /\ \A b \in tail : b \div 64 = 2
      v == FoldLeft(LAMBDA a, b : a * 64 + (b % 64), lead.bits, SubSeq(s, i + 1, i + lead.n - 1))
  IN  IF Ascii(s[i]) THEN [cp |-> s[i], len |-> 1]
      ELSE IF lead.n > 1 /\ whole /\ Scalar(v, lead.min) THEN [cp |-> v, len |-> lead.n]
      ELSE [cp |-> INVALID + s[i], len |-> 1]

utf8_encode(cp) ==
  CASE cp >= INVALID -> <<cp - INVALID>>
    [] cp < 128 -> <<cp>>
    [] cp \in 128 .. 2047 -> <<192 + cp \div 64, 128 + (cp % 64)>>
    [] cp \in 2048 .. 65535 -> <<224 + cp \div 4096, 128 + ((cp \div 64) % 64), 128 + (cp % 64)>>
    [] OTHER -> <<240 + cp \div 262144, 128 + ((cp \div 4096) % 64), 128 + ((cp \div 64) % 64), 128 + (cp % 64)>>

\* The code points of bytes, and their bytes again.
CodePoints(s) ==
  FoldLeftDomain(LAMBDA r, i : IF i < r.next THEN r
                               ELSE LET c == vitna_utf8_decode(s, i) IN [cps |-> Append(r.cps, c.cp), next |-> i + c.len],
                 [cps |-> <<>>, next |-> 1], s).cps
Bytes(cps) == FlattenSeq([i \in DOMAIN cps |-> utf8_encode(cps[i])])

-----------------------------------------------------------------------------
(* Normalization Form C *)

vitna_uni_combining_class(cp) == IF cp \in DOMAIN UNI_CCC THEN UNI_CCC[cp] ELSE 0

\* Hangul by formula.
S_BASE == 44032
L_BASE == 4352
V_BASE == 4449
T_BASE == 4519
L_COUNT == 19
V_COUNT == 21
T_COUNT == 28
Syllables == S_BASE .. S_BASE + L_COUNT * V_COUNT * T_COUNT - 1

RECURSIVE decompose(_)
decompose(cp) ==
  LET s == cp - S_BASE
  IN  IF cp \in Syllables
      THEN <<L_BASE + s \div (V_COUNT * T_COUNT), V_BASE + ((s % (V_COUNT * T_COUNT)) \div T_COUNT)>>
           \o (IF s % T_COUNT = 0 THEN <<>> ELSE <<T_BASE + (s % T_COUNT)>>)
      ELSE IF cp \in DOMAIN UNI_DECOMP THEN FlattenSeq([i \in DOMAIN UNI_DECOMP[cp] |-> decompose(UNI_DECOMP[cp][i])])
      ELSE <<cp>>

\* The composite of a pair, if there is one.
compose_pair(a, b) ==
  CASE a \in L_BASE .. L_BASE + L_COUNT - 1 /\ b \in V_BASE .. V_BASE + V_COUNT - 1 ->
         {S_BASE + ((a - L_BASE) * V_COUNT + (b - V_BASE)) * T_COUNT}
    [] a \in Syllables /\ (a - S_BASE) % T_COUNT = 0 /\ b \in T_BASE + 1 .. T_BASE + T_COUNT - 1 -> {a + (b - T_BASE)}
    [] <<a, b>> \in DOMAIN UNI_COMPOSE -> {UNI_COMPOSE[<<a, b>>]}
    [] OTHER -> {}

\* A mark moves before the marks of a higher class ahead of it, never past a starter.
InOrder(done, c) ==
  LET k == vitna_uni_combining_class(c)
      stays == {j \in DOMAIN done : vitna_uni_combining_class(done[j]) <= k}
      at == IF k = 0 THEN Len(done) ELSE IF stays = {} THEN 0 ELSE Max(stays)
  IN  SubSeq(done, 1, at) \o <<c>> \o SubSeq(done, at + 1, Len(done))
Ordered(cps) == FoldLeft(InOrder, <<>>, cps)

\* Mutant: a mark joins its starter past a mark of its own class.
JoinsAny(last, k) == TRUE

\* Whether nothing kept since the starter, whose last is of that class, blocks a character.
Joins(last, k) == last < 0 \/ (last > 0 /\ last < k)

Composed(r, c) ==
  LET k == vitna_uni_combining_class(c)
      whole == IF r.starter > 0 /\ Joins(r.last, k) THEN compose_pair(r.out[r.starter], c) ELSE {}
  IN  IF whole # {} THEN [r EXCEPT !.out[r.starter] = CHOOSE w \in whole : TRUE]
      ELSE [out |-> Append(r.out, c), starter |-> IF k = 0 THEN Len(r.out) + 1 ELSE r.starter, last |-> IF k = 0 THEN -1 ELSE k]

\* Text below U+0300 is its own NFC.
Simple(cps) == \A i \in DOMAIN cps : cps[i] < 768 \/ cps[i] >= INVALID

\* The steps on code points.
Nfd(cps) == Ordered(FlattenSeq([i \in DOMAIN cps |-> decompose(cps[i])]))
Nfc(cps) == FoldLeft(Composed, [out |-> <<>>, starter |-> 0, last |-> -1], Nfd(cps)).out

vitna_uni_nfc(s) == IF Simple(CodePoints(s)) THEN s ELSE Bytes(Nfc(CodePoints(s)))
=============================================================================
