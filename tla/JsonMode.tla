------------------------------ MODULE JsonMode -------------------------------
(***************************************************************************)
(* JSON mode: the automaton that says which bytes can continue a JSON      *)
(* object (engine/src/jsonpfx.c) and the masks over the vocabulary found   *)
(* with it, which are kept by state in a few slots that all replies share  *)
(* (engine/src/api.c, mask_json).  Each reply takes one of the tokens its  *)
(* mask leaves.                                                            *)
(*                                                                         *)
(* Bytes are characters, and the classes the automaton tells apart where   *)
(* they are not ASCII: c80, c90 and cA0 are the continuation bytes 80-8F,  *)
(* 90-9F and A0-BF; x with a lead byte stands for the bytes treated as it  *)
(* is, and "ctl" for a control character.  mask_lock is held through       *)
(* mask_json, so a mask is one step.                                       *)
(***************************************************************************)
EXTENDS JsonReader

CONSTANTS
  Replies,
  Vocabs,      \* vocabularies to choose one of: see ModeAssumption
  JSONPFX_MAX_DEPTH, JSONPFX_MAX_WS,  \* VITNA_JSONPFX_MAX_DEPTH and _MAX_WS
  MASK_CACHE   \* how many masks are kept

ModeAssumption ==
  /\ ReaderAssumption
  /\ JSONPFX_MAX_DEPTH \in 1 .. 255 /\ JSONPFX_MAX_WS \in 1 .. 254
  /\ MASK_CACHE \in Nat \ {0} /\ MAX_DEPTH > JSONPFX_MAX_DEPTH
  /\ \A v \in Vocabs :
       /\ v.special \subseteq DOMAIN v.tokens  \* their bytes are never text
       /\ v.replies \subseteq Replies
       /\ v.limit \in Nat                      \* bound of the model: tokens of a reply
       /\ v.kept \in BOOLEAN                   \* vitna_api_set_mask_cache
       /\ v.noroom \subseteq 1 .. MASK_CACHE   \* slots there is no memory for

VARIABLES
  vocab,  \* the one in use
  said,   \* each reply's text
  taken,  \* how many tokens it has taken
  json,   \* its automaton
  masks,  \* the masks kept: has, key, allowed, used
  clock   \* mask_clock

vars == <<vocab, said, taken, json, masks, clock>>

-----------------------------------------------------------------------------
(* The automaton *)

\* The parts of a number, and of a string: sub counts in either, and in a word.
MINUS == 0
ZERO == 1
INT == 2
DOT == 3
FRAC == 4
EXP == 5
EXP_SIGN == 6
EXP_DIGITS == 7
NORMAL == 0
ESCAPE == 1
U1 == 2
U4 == 5

vitna_jsonpfx_init ==
  [stack |-> <<>>, state |-> "START", sub |-> 0, lit |-> "", left |-> 0,
   next |-> {"c80", "c90", "cA0"}, ws |-> 0, in_key |-> FALSE, failed |-> FALSE]

Fail(p) == [p EXCEPT !.failed = TRUE]

\* done is kept as the state DONE, which nothing leaves.
value_done(p) == [p EXCEPT !.state = IF p.stack = <<>> THEN "DONE" ELSE "AFTER"]

push(p, kind, next) ==
  IF Len(p.stack) >= JSONPFX_MAX_DEPTH THEN Fail(p)
  ELSE [p EXCEPT !.stack = Append(@, kind), !.state = next]

close_container(p) == value_done([p EXCEPT !.stack = Front(@)])

start_string(p, key) == [p EXCEPT !.in_key = key, !.state = "STRING", !.sub = NORMAL]

start_value(p, c) ==
  CASE c = "{" -> push(p, "O", "OBJ_OPEN")
    [] c = "[" -> push(p, "A", "ARR_OPEN")
    [] c = "\"" -> start_string(p, FALSE)
    [] c = "-" -> [p EXCEPT !.state = "NUMBER", !.sub = MINUS]
    [] c = "0" -> [p EXCEPT !.state = "NUMBER", !.sub = ZERO]
    [] c \in Digits \ {"0"} -> [p EXCEPT !.state = "NUMBER", !.sub = INT]
    [] c \in {"t", "f", "n"} -> [p EXCEPT !.state = "LITERAL", !.lit = c, !.sub = 1]
    [] OTHER -> Fail(p)

\* The part of a number that c continues it with, if it does.
number_continue(sub, c) ==
  LET digit == c \in Digits
      e == c \in {"e", "E"}
  IN  CASE sub = MINUS /\ digit -> {IF c = "0" THEN ZERO ELSE INT}
        [] sub \in {ZERO, INT} /\ c = "." -> {DOT}
        [] sub \in {ZERO, INT, FRAC} /\ e -> {EXP}
        [] sub \in {INT, FRAC} /\ digit -> {sub}
        [] sub = DOT /\ digit -> {FRAC}
        [] sub = EXP /\ c \in {"+", "-"} -> {EXP_SIGN}
        [] sub \in {EXP, EXP_SIGN, EXP_DIGITS} /\ digit -> {EXP_DIGITS}
        [] OTHER -> {}

number_complete(sub) == sub \in {ZERO, INT, FRAC, EXP_DIGITS}

\* What must follow the first byte of a longer character: how many bytes, and the first of them.
Leads == [c \in {"xC2", "E0", "xE1", "ED", "F0", "xF1", "F4"} |->
  CASE c = "xC2" -> [left |-> 1, next |-> {"c80", "c90", "cA0"}]
    [] c = "E0" -> [left |-> 2, next |-> {"cA0"}]
    [] c = "xE1" -> [left |-> 2, next |-> {"c80", "c90", "cA0"}]
    [] c = "ED" -> [left |-> 2, next |-> {"c80", "c90"}]
    [] c = "F0" -> [left |-> 3, next |-> {"c90", "cA0"}]
    [] c = "xF1" -> [left |-> 3, next |-> {"c80", "c90", "cA0"}]
    [] c = "F4" -> [left |-> 3, next |-> {"c80"}]]
NotLeads == {"c80", "c90", "cA0", "xF5"} \* and the bytes no character begins with

string_byte(p, c) ==
  CASE p.left > 0 ->
         IF c \in p.next THEN [p EXCEPT !.left = @ - 1, !.next = {"c80", "c90", "cA0"}] ELSE Fail(p)
    [] p.sub = ESCAPE ->
         IF c = "u" THEN [p EXCEPT !.sub = U1]
         ELSE IF c \in Escaped THEN [p EXCEPT !.sub = NORMAL] ELSE Fail(p)
    [] p.sub \in U1 .. U4 ->
         IF c \in DOMAIN hexval THEN [p EXCEPT !.sub = IF @ = U4 THEN NORMAL ELSE @ + 1] ELSE Fail(p)
    [] c = "\"" -> IF p.in_key THEN [p EXCEPT !.state = "COLON"] ELSE value_done(p)
    [] c = "\\" -> [p EXCEPT !.sub = ESCAPE]
    [] c \in DOMAIN Leads -> [p EXCEPT !.left = Leads[c].left, !.next = Leads[c].next]
    [] c \in Controls \cup NotLeads -> Fail(p)
    [] OTHER -> p

\* A byte between values, where space counts.
Outside(p, c) ==
  LET q == [p EXCEPT !.ws = 0]
      top == IF p.stack = <<>> THEN "" ELSE Last(p.stack)
  IN  CASE c \in White -> IF p.ws + 1 > JSONPFX_MAX_WS THEN Fail([p EXCEPT !.ws = @ + 1]) ELSE [p EXCEPT !.ws = @ + 1]
        [] p.state = "START" /\ c = "{" -> push(q, "O", "OBJ_OPEN")
        [] p.state = "OBJ_OPEN" /\ c = "}" -> close_container(q)
        [] p.state \in {"OBJ_OPEN", "OBJ_KEY"} /\ c = "\"" -> start_string(q, TRUE)
        [] p.state = "COLON" /\ c = ":" -> [q EXCEPT !.state = "VALUE"]
        [] p.state = "ARR_OPEN" /\ c = "]" -> close_container(q)
        [] p.state \in {"VALUE", "ARR_OPEN"} -> start_value(q, c)
        [] p.state = "AFTER" /\ c = "," -> [q EXCEPT !.state = IF top = "O" THEN "OBJ_KEY" ELSE "VALUE"]
        [] p.state = "AFTER" /\ <<top, c>> \in {<<"O", "}">>, <<"A", "]">>} -> close_container(q)
        [] OTHER -> Fail(q)

feed_byte(p, c) ==
  CASE p.failed -> p
    [] p.state = "STRING" -> string_byte(p, c)
    [] p.state = "NUMBER" ->
         LET goes == number_continue(p.sub, c)
         IN  IF goes # {} THEN [p EXCEPT !.sub = CHOOSE s \in goes : TRUE]
             ELSE IF number_complete(p.sub) THEN Outside(value_done(p), c) ELSE Fail(p)
    [] p.state = "LITERAL" ->
         LET w == CHOOSE w \in Words : w[1] = p.lit
             q == [p EXCEPT !.sub = @ + 1]
         IN  IF c # w[p.sub + 1] THEN Fail(p)
             ELSE IF q.sub = Len(w) THEN value_done(q) ELSE q
    [] OTHER -> Outside(p, c)

vitna_jsonpfx_feed(p, bytes) == FoldLeft(feed_byte, p, bytes)
vitna_jsonpfx_accepts(p, bytes) == ~vitna_jsonpfx_feed(p, bytes).failed
vitna_jsonpfx_complete(p) == p.state = "DONE" /\ ~p.failed

-----------------------------------------------------------------------------
(* Masks *)

\* The tokens that can follow the state.
Allowed(p) ==
  {id \in DOMAIN vocab.tokens \ vocab.special :
     vocab.tokens[id] # <<>> /\ vitna_jsonpfx_accepts(p, vocab.tokens[id])}

NoMask == [has |-> FALSE, key |-> vitna_jsonpfx_init, allowed |-> {}, used |-> 0]

\* The slot a new state's mask goes to: the first empty one, else the one unused longest.
Spare ==
  LET empty == {i \in DOMAIN masks : ~masks[i].has}
  IN  IF empty # {} THEN Min(empty)
      ELSE CHOOSE i \in DOMAIN masks : \A j \in DOMAIN masks : masks[i].used <= masks[j].used

\* The slot that keeps the mask of a state; a stack is compared to its depth only.
Kept(p) == {i \in DOMAIN masks : masks[i].has /\ masks[i].key = p}

\* Mutant: the bits of the mask that was there before are not cleared.
FilledOver(i, p) ==
  [has |-> TRUE, key |-> p, allowed |-> masks[i].allowed \cup Allowed(p), used |-> clock + 1]

\* The mask of a state, written in the memory of the one that was there.
Filled(i, p) == [has |-> TRUE, key |-> p, allowed |-> Allowed(p), used |-> clock + 1]

\* mask_json and what it leaves of the vocabulary, and the masks it leaves kept.
MaskedBy(p, allowed) ==
  IF Kept(p) # {}
  THEN LET i == Min(Kept(p))
       IN  /\ allowed = masks[i].allowed
           /\ masks' = [masks EXCEPT ![i].used = clock + 1]
           /\ clock' = clock + 1
  ELSE IF ~vocab.kept \/ (~masks[Spare].has /\ Spare \in vocab.noroom)
  THEN allowed = Allowed(p) /\ UNCHANGED <<masks, clock>>
  ELSE /\ masks' = [masks EXCEPT ![Spare] = Filled(Spare, p)]
       /\ allowed = masks'[Spare].allowed
       /\ clock' = clock + 1

-----------------------------------------------------------------------------
Init ==
  /\ vocab \in Vocabs
  /\ said = [r \in vocab.replies |-> <<>>]
  /\ taken = [r \in vocab.replies |-> 0]
  /\ json = [r \in vocab.replies |-> vitna_jsonpfx_init]
  /\ masks = [i \in 1 .. MASK_CACHE |-> NoMask]
  /\ clock = 0

\* A token a reply takes in JSON mode: the mask, the choice, the bytes.  A
\* reply whose object has closed has ended.
Take(r) ==
  /\ taken[r] < vocab.limit /\ ~vitna_jsonpfx_complete(json[r])
  /\ \E allowed \in {Allowed(json[r])} \cup {masks[i].allowed : i \in DOMAIN masks}
                     \cup {Filled(i, json[r]).allowed : i \in DOMAIN masks} :
       /\ MaskedBy(json[r], allowed)
       /\ \E id \in allowed :
            /\ said' = [said EXCEPT ![r] = @ \o vocab.tokens[id]]
            /\ json' = [json EXCEPT ![r] = vitna_jsonpfx_feed(@, vocab.tokens[id])]
       /\ taken' = [taken EXCEPT ![r] = @ + 1]
  /\ UNCHANGED vocab

Next == \E r \in vocab.replies : Take(r)

Spec == Init /\ [][Next]_vars

-----------------------------------------------------------------------------
(* Properties *)

\* The rest of a token of the grammar, and then what closes all that is open.
Rest(p) ==
  CASE p.state = "START" -> <<"{", "}">>
    [] p.state = "OBJ_KEY" -> <<"\"", "\"", ":", "0">>
    [] p.state = "COLON" -> <<":", "0">>
    [] p.state = "VALUE" -> <<"0">>
    [] p.state = "STRING" ->
         (IF p.left = 0 THEN <<>> ELSE <<CHOOSE c \in p.next : TRUE>> \o [i \in 1 .. p.left - 1 |-> "c80"])
         \o (IF p.sub = ESCAPE THEN <<"n">> ELSE IF p.sub \in U1 .. U4 THEN [i \in 1 .. U4 + 1 - p.sub |-> "0"] ELSE <<>>)
         \o (IF p.in_key THEN <<"\"", ":", "0">> ELSE <<"\"">>)
    [] p.state = "NUMBER" -> IF number_complete(p.sub) THEN <<>> ELSE <<"0">>
    [] p.state = "LITERAL" -> LET w == CHOOSE w \in Words : w[1] = p.lit IN SubSeq(w, p.sub + 1, Len(w))
    [] OTHER -> <<>>
Closers(p) == [i \in DOMAIN p.stack |-> IF Reverse(p.stack)[i] = "O" THEN "}" ELSE "]"]
Completion(p) == IF p.state = "START" THEN <<"{", "}">> ELSE Rest(p) \o Closers(p)

Whole(finished, complete, reads) ==
  /\ finished.ok /\ finished.val.type = "object" /\ Fits(finished.val)
  /\ complete = reads

\* What a reply has said can be finished into an object that the program's own
\* parser reads, with every string decoded inside its buffer; and the reply is
\* ended as complete exactly when the parser reads it as it is.
OnlyJson == \A r \in DOMAIN said :
  Whole(vitna_json_parse(said[r] \o Completion(json[r])), vitna_jsonpfx_complete(json[r]), vitna_json_parse(said[r]).ok)
=============================================================================
