------------------------------- MODULE MCText -------------------------------
(* From a request to a token, each part with its own few inputs: the bytes    *)
(* of a request as they arrive (HttpRequest), the prompt a conversation gives *)
(* (ChatRequest) and its tokens (Tokenizer), and those of them that JSON mode *)
(* allows (JsonMode).  They share nothing, so one of them runs and the others *)
(* have nothing to do.                                                        *)
EXTENDS MCTokenizer, TLC

CONSTANTS
  r1, r2, MaxTurns,
  MAX_DEPTH, JSONPFX_MAX_DEPTH, JSONPFX_MAX_WS, MASK_CACHE

VARIABLES
  request, serves, len, cap, room, scan, req, left, head, got, failed, at,
  talk, opts, sent,
  vocab, said, taken, json, masks, clock

-----------------------------------------------------------------------------
(* Requests on a connection, read into a buffer of four bytes that grows to 32. *)

Get(method, path, fields, body) == [method |-> <<method>>, path |-> path, fields |-> fields, body |-> body]
Length(v) == <<"Content-Length", v>>
ChatPath == <<"/v1/chat/completions">>
Messages == <<"/v1/messages">>
MCAsks ==
  {Get("POST", ChatPath, <<Length(<<"3">>)>>, <<"a", "b", "c", "x">>),
   Get("POST", ChatPath, <<Length(<<"1", "2">>), <<"expect", <<"100-continue">>>>>>, [i \in 1 .. 12 |-> "a"]),
   Get("POST", Messages, <<<<"content-length", <<"2">>>>>>, <<"CR", "LF">>),
   Get("POST", Messages, <<Length(<<>>)>>, <<"2", "b">>),
   Get("POST", ChatPath, <<Length(<<"-", "1">>)>>, <<>>),
   Get("POST", ChatPath, <<Length(<<"9", "9">>)>>, <<"a">>),
   Get("POST", ChatPath, <<Length(<<"4">>)>>, <<"a">>),
   Get("POST", ChatPath, <<<<"transfer-encoding", <<"chunked">>>>>>, <<"a">>),
   Get("GET", <<>>, <<<<"host", <<"h">>>>>>, <<>>),
   Get("GET", <<"/">>, <<<<"host", <<"NUL">>>>>>, <<>>),
   Get("GET", Messages, <<>>, <<>>),
   Get("HEAD", <<"/health">>, <<<<"host", <<"h">>>>>>, <<>>),
   Get("GET", <<"/none">>, <<>>, <<>>),
   Get("GET", <<"/v1/models">>, <<<<"host", [i \in 1 .. 22 |-> "h"]>>>>, <<>>),
   Get("POST", <<"/v1/embeddings">>, <<<<"host", [i \in 1 .. 23 |-> "h"]>>>>, <<>>)}

Http == INSTANCE HttpRequest WITH
  ask <- request, Asks <- MCAsks, Serving <- {"nothing", "text", "embeddings"},
  FirstCap <- 4, MaxHeader <- 32, MaxBody <- 20, HttpFaults <- {"silence", "memory", "send"}

-----------------------------------------------------------------------------
(* JSON mode: vocabularies. *)
Vocab(tokens, special, replies, limit, kept, noroom) ==
  [tokens |-> tokens, special |-> special, replies |-> replies, limit |-> limit, kept |-> kept, noroom |-> noroom]

\* A byte at a time: the structure, numbers, and what is in a string.
Structure == <<<<"{">>, <<"}">>, <<"[">>, <<"]">>, <<":">>, <<",">>, <<"\"">>, <<"1">>, <<" ">>>>
Numbers == <<<<"{", "\"", "\"", ":">>, <<"-">>, <<"0">>, <<"7">>, <<".">>, <<"e">>, <<"+">>, <<"}">>, <<" ">>>>
Literals == <<<<"{", "\"", "\"", ":", "[">>, <<"t", "r">>, <<"u", "e">>, <<"f", "a", "l">>, <<"s", "e">>,
              <<"n">>, <<"u">>, <<"l">>, <<"l", "l", "}">>, <<",">>, <<"]">>, <<"}">>>>
Escapes == <<<<"{", "\"">>, <<"\\">>, <<"u">>, <<"n">>, <<"d", "8">>, <<"d", "c">>, <<"0", "0">>, <<"\\", "u", "d">>,
             <<"\"">>, <<":">>, <<"1", "}">>, <<"\t">>>>
Letters == <<<<"{", "\"">>, <<"xC2">>, <<"E0">>, <<"xE1">>, <<"ED">>, <<"F0">>, <<"xF1">>, <<"F4">>, <<"xF5">>,
             <<"c80">>, <<"c90">>, <<"cA0">>, <<"\"", ":", "1", "}">>>>
\* Tokens as a model has them, one of them special, that bring two replies to the same states.
Tokens == <<<<"{", "\"", "a">>, <<"\"", ":">>, <<"[", "0">>, <<",">>, <<"]", "}">>, <<"\"", "}">>, <<"{">>, <<>>>>

MCVocabs ==
  {Vocab(Structure, {}, {r1}, 6, TRUE, {}), Vocab(Numbers, {}, {r1}, 6, TRUE, {}),
   Vocab(Literals, {}, {r1}, 6, TRUE, {1}), Vocab(Escapes, {}, {r1}, 6, FALSE, {}),
   Vocab(Letters, {}, {r1}, 6, TRUE, {}), Vocab(Tokens, {7}, {r1, r2}, 4, TRUE, {}),
   Vocab(Tokens, {7}, {r1, r2}, 4, TRUE, {2})}

Mode == INSTANCE JsonMode WITH Replies <- {r1, r2}, Vocabs <- MCVocabs

-----------------------------------------------------------------------------
(* Conversations. *)

Turn(says, said_text, thought, calls, id) == [says |-> says, text |-> said_text, thought |-> thought, calls |-> calls, id |-> id]
Call(id, held, args) == [id |-> <<id>>, name |-> <<"f">>, json |-> held, args |-> args]
Argument == [obj |-> [a |-> [str |-> <<"1">>]]]
MCHolds == <<"compact">> :> Argument

System == {Turn("system", <<<<"s">>, <<"t">>>>, <<>>, <<>>, <<>>)}
Queries == {Turn("user", s, <<>>, <<>>, <<>>) :
              s \in {<<<<"x">>, <<"y">>>>, <<<<"image">>>>, <<<<"<tool_response>", "x", "</tool_response>">>>>}}
Answers == {Turn("assistant", s, thought, calls, <<>>) :
              s \in {<<>>, <<<<"a">>>>}, thought \in {<<>>, <<"r", "\n", "r">>},
              calls \in {<<>>, <<Call("c", <<"compact">>, Argument)>>, <<Call("c", <<"compact">>, Argument), Call("d", <<>>, [obj |-> <<>>])>>}}
Results(ids) == {Turn("result", <<<<"o">>>>, <<>>, <<>>, id) : id \in ids}

MCOpenings == {<<q>> : q \in Queries} \cup {<<s, q>> : s \in System, q \in Queries}

\* A query, its reply, the results of the calls the reply made, and so on.
MCTurns(t) ==
  LET asked == {i \in DOMAIN t : t[i].says = "assistant"}
      last == IF asked = {} THEN <<>> ELSE t[Max(asked)].calls
      answered == IF asked = {} THEN 0 ELSE Len(t) - Max(asked)
  IN  CASE Last(t).says = "user" -> Answers
        [] answered < Len(last) -> Results({last[answered + 1].id})
        [] Last(t).says = "result" -> Answers \cup Queries
        [] OTHER -> Queries

Option(tools, choice, name, thinking, only_json) ==
  [tools |-> tools, choice |-> choice, name |-> <<name>>, thinking |-> thinking, json |-> only_json, max |-> 2,
   temperature |-> 5, hosted |-> only_json, spaced |-> choice = "named", qwen3 |-> TRUE,
   model |-> IF choice = "auto" THEN <<"m">> ELSE <<>>]
F == <<<<"f">>>>
Chatml == [Option(<<>>, "auto", "f", 1, FALSE) EXCEPT !.qwen3 = FALSE]
MCOptions ==
  {Option(F, "auto", "f", thinking, FALSE) : thinking \in {-1, 0, 1}}
  \cup {Option(F, "none", "f", 1, FALSE), Option(F, "required", "f", 0, FALSE), Option(F, "required", "f", 1, FALSE)}
  \cup {Option(F, "named", "f", 0, FALSE), Option(F, "named", "g", 0, FALSE), Option(<<>>, "required", "f", 0, FALSE)}
  \cup {Option(<<>>, "auto", "f", 1, FALSE), Option(<<>>, "auto", "f", 0, TRUE)}
  \cup {Option(<<>>, "auto", "f", -1, TRUE), [Chatml EXCEPT !.model = <<"n">>]}
  \cup {Chatml, [Chatml EXCEPT !.tools = F], [Chatml EXCEPT !.temperature = -1]}

Chat == INSTANCE ChatRequest WITH
  Holds <- MCHolds, Openings <- MCOpenings, Turns <- MCTurns, Options <- MCOptions

ASSUME Assumptions == Mode!ModeAssumption /\ Http!HttpAssumption

-----------------------------------------------------------------------------
http_vars == <<request, serves, len, cap, room, scan, req, left, head, got, failed, at>>
json_vars == <<vocab, said, taken, json, masks, clock>>
chat_vars == <<talk, opts, sent>>

NoText == file = <<>> /\ tok = <<>> /\ text = <<>>
NoReplies ==
  /\ vocab = Vocab(<<>>, {}, {}, 0, FALSE, {}) /\ said = <<>> /\ taken = <<>> /\ json = <<>>
  /\ masks = <<>> /\ clock = 0
NoRequest ==
  /\ request = <<>> /\ serves = "" /\ len = 0 /\ cap = 0 /\ room = 0 /\ scan = 0 /\ req = <<>>
  /\ left = <<>> /\ head = <<>> /\ got = <<>> /\ failed = FALSE /\ at = "none"
NoTalk == talk = <<>> /\ opts = <<>> /\ sent = <<>>

MCInit ==
  \/ Http!Init /\ NoTalk /\ NoText /\ NoReplies
  \/ Chat!Init /\ NoRequest /\ NoText /\ NoReplies
  \/ Init /\ NoRequest /\ NoTalk /\ NoReplies
  \/ Mode!Init /\ NoRequest /\ NoTalk /\ NoText

MCNext ==
  \/ at # "none" /\ Http!Next /\ UNCHANGED <<chat_vars, vars, json_vars>>
  \/ talk # <<>> /\ Chat!Next /\ UNCHANGED <<http_vars, vars, json_vars>>
  \/ file # <<>> /\ Next /\ UNCHANGED <<http_vars, chat_vars, json_vars>>
  \/ Mode!Next /\ UNCHANGED <<http_vars, chat_vars, vars>>

MCSpec == MCInit /\ [][MCNext]_<<http_vars, chat_vars, vars, json_vars>>

\* Each part's properties, where it runs.
ServedAsSent == at # "none" => Http!ServedAsSent
EncodedExact == file # <<>> => TextExact /\ TokensExact
DecodedExact == file # <<>> => DecodesToText
OnlyJson == Mode!OnlyJson
ShapesAgree == talk # <<>> => Chat!ShapesAgree
PromptsReuse == talk # <<>> => Chat!PromptWhole /\ Chat!PromptsReuse
CountedAsRead == talk # <<>> => Chat!CountedAsRead
=============================================================================
