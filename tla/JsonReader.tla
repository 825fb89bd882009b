----------------------------- MODULE JsonReader ------------------------------
(***************************************************************************)
(* The JSON parser (engine/src/json.c) over a sequence of bytes: where a   *)
(* value that begins at an offset ends, what it is, and how many bytes a   *)
(* string's decoded form takes of the buffer sized before decoding.        *)
(* Offsets count from 0.  A result is [ok, at, val]; which message an      *)
(* error has, running out of memory, the value of a number and the byte    *)
(* order mark a text may begin with are left out.                          *)
(***************************************************************************)
EXTENDS Integers, SequencesExt, FiniteSetsExt

CONSTANT MAX_DEPTH \* VITNA_JSON_MAX_DEPTH: 256 in the code

ReaderAssumption == MAX_DEPTH \in Nat \ {0}

White == {" ", "\t", "\n", "\r"}
Digits == {"0", "1", "2", "3", "4", "5", "6", "7", "8", "9"}
Controls == {"\t", "\n", "\r", "\f"}

hexval == [c \in Digits \cup {"a", "b", "c", "d", "e", "f", "A", "B", "C", "D", "E", "F"} |->
  CASE c \in {"a", "A"} -> 10 [] c \in {"b", "B"} -> 11 [] c \in {"c", "C"} -> 12
    [] c \in {"d", "D"} -> 13 [] c \in {"e", "E"} -> 14 [] c \in {"f", "F"} -> 15
    [] OTHER -> CHOOSE i \in 0 .. 9 : <<"0", "1", "2", "3", "4", "5", "6", "7", "8", "9">>[i + 1] = c]

Failed == [ok |-> FALSE, at |-> 0, val |-> [type |-> "none"]]
Read(at, val) == [ok |-> TRUE, at |-> at, val |-> val]

\* The byte at an offset, or the end, which no comparison matches.
ByteAt(t, i) == IF i < Len(t) THEN t[i + 1] ELSE "end"
In(t, i, set) == i < Len(t) /\ t[i + 1] \in set

\* The first offset, from i on, with a byte outside the set.
Past(t, i, set) == Min({j \in i .. Len(t) : ~In(t, j, set)})

skip_ws(t, i) == Past(t, i, White)

-----------------------------------------------------------------------------
(* Strings *)

read_hex4(t, i) ==
  IF i + 4 <= Len(t) /\ \A k \in 0 .. 3 : In(t, i + k, DOMAIN hexval)
  THEN [ok |-> TRUE, cp |-> FoldLeftDomain(LAMBDA v, k : v * 16 + hexval[t[i + k]], 0, <<1, 2, 3, 4>>)]
  ELSE [ok |-> FALSE, cp |-> 0]

\* The bytes a code point takes.
put_utf8(cp) == IF cp < 128 THEN 1 ELSE IF cp < 2048 THEN 2 ELSE IF cp < 65536 THEN 3 ELSE 4

High == 55296 .. 56319
Low == 56320 .. 57343
Replacement == 65533

\* Where the closing quote is looked for, to size the buffer.
RECURSIVE ClosingQuote(_, _)
ClosingQuote(t, q) ==
  IF q >= Len(t) \/ t[q + 1] = "\"" THEN q
  ELSE IF t[q + 1] = "\\" THEN IF Len(t) - q < 2 THEN q ELSE ClosingQuote(t, q + 2)
  ELSE ClosingQuote(t, q + 1)

Escaped == {"\"", "\\", "/", "b", "f", "n", "r", "t"}

\* The code point of \uXXXX, whose digits are at i, with the low surrogate after a high one.
CodePoint(t, i) ==
  LET h == read_hex4(t, i)
      pair == h.cp \in High /\ Len(t) - (i + 4) >= 6 /\ ByteAt(t, i + 4) = "\\" /\ ByteAt(t, i + 5) = "u"
      lo == read_hex4(t, i + 6)
  IN  IF ~h.ok \/ (pair /\ ~lo.ok) THEN [ok |-> FALSE, at |-> i, cp |-> 0]
      ELSE IF pair /\ lo.cp \in Low
           THEN [ok |-> TRUE, at |-> i + 10, cp |-> 65536 + (h.cp - 55296) * 1024 + (lo.cp - 56320)]
           ELSE [ok |-> TRUE, at |-> i + 4, cp |-> IF h.cp \in High \cup Low THEN Replacement ELSE h.cp]

\* The string from i to its closing quote, decoded after out: n bytes are written so far.
RECURSIVE Decode(_, _, _, _), DecodeFrom(_, _, _, _)
Decode(t, i, out, n) ==
  IF i >= Len(t) THEN Failed
  ELSE IF t[i + 1] = "\"" THEN Read(i + 1, [type |-> "string", text |-> out, bytes |-> n])
  ELSE IF t[i + 1] \in Controls THEN Failed
  ELSE IF t[i + 1] # "\\" THEN Decode(t, i + 1, Append(out, t[i + 1]), n + 1)
  ELSE IF In(t, i + 1, Escaped) THEN Decode(t, i + 2, Append(out, <<t[i + 2]>>), n + 1)
  ELSE IF In(t, i + 1, {"u"})
       THEN DecodeFrom(t, CodePoint(t, i + 2), out, n)
  ELSE Failed

DecodeFrom(t, u, out, n) == IF u.ok THEN Decode(t, u.at, Append(out, u.cp), n + put_utf8(u.cp)) ELSE Failed

\* A string, which fits says was written within its buffer, from i + 1 to q.
Sized(r, size) ==
  IF r.ok THEN Read(r.at, [type |-> "string", text |-> r.val.text, fits |-> r.val.bytes <= size]) ELSE Failed

parse_string(t, i) ==
  LET q == ClosingQuote(t, i + 1)
  IN  IF q >= Len(t) THEN Failed ELSE Sized(Decode(t, i + 1, <<>>, 0), q - (i + 1))

-----------------------------------------------------------------------------
(* Numbers and words *)

parse_number(t, i) ==
  LET int == IF ByteAt(t, i) = "-" THEN i + 1 ELSE i
      frac == IF ByteAt(t, int) = "0" THEN int + 1 ELSE Past(t, int, Digits)
      exp == IF ByteAt(t, frac) = "." THEN Past(t, frac + 1, Digits) ELSE frac
      sign == IF In(t, exp, {"e", "E"}) THEN exp + 1 ELSE exp
      digits == IF sign > exp /\ In(t, sign, {"+", "-"}) THEN sign + 1 ELSE sign
      end == IF sign > exp THEN Past(t, digits, Digits) ELSE exp
  IN  IF /\ In(t, int, Digits)
         /\ ByteAt(t, frac) = "." => In(t, frac + 1, Digits)
         /\ sign > exp => In(t, digits, Digits)
      THEN Read(end, [type |-> "number"]) ELSE Failed

Words == {<<"t", "r", "u", "e">>, <<"f", "a", "l", "s", "e">>, <<"n", "u", "l", "l">>}

match_literal(t, i, w) == i + Len(w) <= Len(t) /\ SubSeq(t, i + 1, i + Len(w)) = w

-----------------------------------------------------------------------------
(* Values: the parser stops at the first thing that is not JSON *)

RECURSIVE parse_value(_, _, _), parse_array(_, _, _, _), parse_object(_, _, _, _),
          NextItem(_, _, _, _), NextMember(_, _, _, _, _), MemberValue(_, _, _)

\* The items of an array after those in out; i is past its bracket or a comma.
parse_array(t, i, depth, out) == NextItem(t, parse_value(t, i, depth), depth, out)

NextItem(t, item, depth, out) ==
  LET j == skip_ws(t, item.at)
      all == Append(out, item.val)
  IN  IF ~item.ok THEN Failed
      ELSE IF ByteAt(t, j) = "," THEN parse_array(t, j + 1, depth, all)
      ELSE IF ByteAt(t, j) = "]" THEN Read(j + 1, [type |-> "array", items |-> all])
      ELSE Failed

\* The value of a member, past the colon that follows its key.
MemberValue(t, key, depth) ==
  LET colon == skip_ws(t, key.at)
  IN  IF key.ok /\ ByteAt(t, colon) = ":" THEN parse_value(t, colon + 1, depth) ELSE Failed

parse_object(t, i, depth, out) ==
  LET k == skip_ws(t, i)
  IN  IF ByteAt(t, k) # "\"" THEN Failed
      ELSE LET key == parse_string(t, k) IN NextMember(t, key, MemberValue(t, key, depth), depth, out)

NextMember(t, key, val, depth, out) ==
  LET j == skip_ws(t, val.at)
      all == Append(out, [key |-> key.val, value |-> val.val])
  IN  IF ~val.ok THEN Failed
      ELSE IF ByteAt(t, j) = "," THEN parse_object(t, j + 1, depth, all)
      ELSE IF ByteAt(t, j) = "}" THEN Read(j + 1, [type |-> "object", members |-> all])
      ELSE Failed

parse_value(t, from, above) ==
  LET i == skip_ws(t, from)
      depth == above + 1
      inside == skip_ws(t, i + 1)
  IN  CASE depth > MAX_DEPTH \/ i >= Len(t) -> Failed
        [] ByteAt(t, i) = "{" ->
             IF ByteAt(t, inside) = "}" THEN Read(inside + 1, [type |-> "object", members |-> <<>>])
             ELSE parse_object(t, inside, depth, <<>>)
        [] ByteAt(t, i) = "[" ->
             IF ByteAt(t, inside) = "]" THEN Read(inside + 1, [type |-> "array", items |-> <<>>])
             ELSE parse_array(t, inside, depth, <<>>)
        [] ByteAt(t, i) = "\"" -> parse_string(t, i)
        [] In(t, i, {"-"} \cup Digits) -> parse_number(t, i)
        [] \E w \in Words : match_literal(t, i, w) ->
             LET w == CHOOSE w \in Words : match_literal(t, i, w)
             IN  Read(i + Len(w), [type |-> "word", word |-> w])
        [] OTHER -> Failed

\* The whole text is one value, with space around it.
WholeText(t, r) == IF r.ok /\ skip_ws(t, r.at) = Len(t) THEN r ELSE Failed

vitna_json_parse(t) == WholeText(t, parse_value(t, 0, 0))

\* The first member of that name, if there is one.
vitna_json_get(v, key) ==
  IF v.type # "object" THEN {}
  ELSE LET at == {i \in DOMAIN v.members : v.members[i].key.text = key}
       IN  IF at = {} THEN {} ELSE {v.members[Min(at)].value}

\* Whether every string in a value was written within its buffer.
RECURSIVE Fits(_)
Fits(v) ==
  /\ v.type = "string" => v.fits
  /\ v.type = "array" => \A i \in DOMAIN v.items : Fits(v.items[i])
  /\ v.type = "object" => \A i \in DOMAIN v.members : v.members[i].key.fits /\ Fits(v.members[i].value)
=============================================================================
