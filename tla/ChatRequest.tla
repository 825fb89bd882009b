---------------------------- MODULE ChatRequest ------------------------------
(***************************************************************************)
(* A conversation on its way to the model: a request in one of three       *)
(* shapes is rewritten in one (engine/src/convert.c), its parameters are   *)
(* read (engine/src/api.c), and it is written in the model's own template, *)
(* Qwen3's or ChatML (chat.c).  A client sends the conversation again,     *)
(* whole, with every turn that is added to it.                             *)
(*                                                                         *)
(* A JSON value is a record whose field names its type, and a JSON string  *)
(* a sequence of items: a word, a tag or a newline.  What an error says,   *)
(* the limits of lengths and running out of memory are left out; a         *)
(* converted conversation is written as JSON and read again at once, and   *)
(* here stays a value.                                                     *)
(***************************************************************************)
EXTENDS Integers, SequencesExt, FiniteSetsExt, Functions, TLC

CONSTANTS
  Holds,    \* the strings that hold a JSON object, and the object each holds
  Openings, \* the turns a conversation may begin with
  Turns(_), \* the turns that may follow a conversation
  Options,  \* what is asked beside the conversation, and the model's template
  MaxTurns  \* bound of the model

VARIABLES
  talk,  \* the conversation, as a client means it
  opts,  \* the options it is sent with
  sent   \* history: the prompt of each request, by the turns it had, in each shape

vars == <<talk, opts, sent>>

\* Whether the model's template is Qwen3's, and not ChatML (api->qwen3).
Qwen3 == opts.qwen3

-----------------------------------------------------------------------------
(* JSON values *)

Absent == [absent |-> TRUE]
Null == [null |-> TRUE]
Str(s) == [str |-> s]
Word(w) == [str |-> <<w>>]
Num(n) == [num |-> n]
Bool(b) == [bool |-> b]
Arr(s) == [arr |-> s]
Obj(f) == [obj |-> f]

is_str(v) == "str" \in DOMAIN v
is_arr(v) == "arr" \in DOMAIN v
is_obj(v) == "obj" \in DOMAIN v
given(v) == v # Absent /\ v # Null
Get(v, k) == IF is_obj(v) THEN IF k \in DOMAIN v.obj THEN v.obj[k] ELSE Absent ELSE Absent
str_eq(v, words) == is_str(v) /\ v.str \in {<<w>> : w \in words}
Items(v) == IF is_arr(v) THEN v.arr ELSE <<>>
IdOf(v) == IF is_str(v) THEN v.str ELSE <<>>

NL == <<"\n">>
join(out, any, s) == IF any THEN out \o NL \o s ELSE out \o s

\* Text from a string, or from parts of the types given.
text_of(v, types, out, any) ==
  LET parts == Items(v)
      read == [i \in DOMAIN parts |-> str_eq(Get(parts[i], "type"), types) /\ is_str(Get(parts[i], "text"))]
      Add(t, part) == [ok |-> TRUE, text |-> join(t.text, t.any, Get(part, "text").str), any |-> TRUE]
  IN  IF is_str(v) THEN [ok |-> TRUE, text |-> join(out, any, v.str), any |-> TRUE]
      ELSE IF ~is_arr(v) \/ \E i \in DOMAIN read : ~read[i] THEN [ok |-> FALSE, text |-> out, any |-> any]
      ELSE FoldLeft(Add, [ok |-> TRUE, text |-> out, any |-> any], parts)

-----------------------------------------------------------------------------
(* The conversation, a message at a time *)

NoTurn == [open |-> FALSE, content |-> <<>>, any_content |-> FALSE, reasoning |-> <<>>,
           has_reasoning |-> FALSE, any_reasoning |-> FALSE, calls |-> <<>>]
conv_init == [out |-> <<>>, turn |-> NoTurn, why |-> ""]

Refused(c, why) == [c EXCEPT !.why = why]

conv_flush(c) ==
  IF ~c.turn.open THEN c
  ELSE [c EXCEPT !.turn = NoTurn,
          !.out = Append(@, [role |-> "assistant", content |-> c.turn.content, calls |-> c.turn.calls, id |-> <<>>,
                             reasoning |-> IF c.turn.has_reasoning THEN Str(c.turn.reasoning) ELSE Absent])]

conv_message(c, role, content, id) ==
  LET d == conv_flush(c)
  IN  [d EXCEPT !.out = Append(@, [role |-> role, content |-> content, calls |-> <<>>, id |-> id, reasoning |-> Absent])]

conv_open(c) == [c EXCEPT !.turn.open = TRUE]
conv_text(c, s) ==
  [c EXCEPT !.turn.open = TRUE, !.turn.content = join(@, c.turn.any_content, s), !.turn.any_content = TRUE]
conv_reasoning(c, s) ==
  [c EXCEPT !.turn.open = TRUE, !.turn.has_reasoning = TRUE, !.turn.any_reasoning = TRUE,
            !.turn.reasoning = join(@, c.turn.any_reasoning, s)]

\* Mutant: a client's own writing of an object is kept.
AsSent(args) == IF given(args) THEN args ELSE Obj(<<>>)

\* Arguments as the template reads them: an object, also one in a string.
put_arguments(args) ==
  IF ~given(args) \/ args = Str(<<>>) THEN Obj(<<>>)
  ELSE IF is_str(args) /\ IdOf(args) \in DOMAIN Holds THEN Holds[args.str] ELSE args

conv_call(c, id, name, args) ==
  [c EXCEPT !.turn.open = TRUE,
            !.turn.calls = Append(@, [id |-> IdOf(id), name |-> name, args |-> put_arguments(args)])]

-----------------------------------------------------------------------------
(* OpenAI's chat completions *)

ChatCall(c, call) ==
  LET fn == Get(call, "function")
  IN  IF c.why # "" THEN c
      ELSE IF ~is_str(Get(fn, "name")) THEN Refused(c, "malformed")
      ELSE conv_call(c, Get(call, "id"), Get(fn, "name").str, Get(fn, "arguments"))

\* An assistant's message, whole, closes the turn before it and itself.
ChatAssistant(c, m, text) ==
  LET rc == IF is_str(Get(m, "reasoning_content")) THEN Get(m, "reasoning_content") ELSE Get(m, "reasoning")
      opened == conv_open(conv_flush(c))
      said == IF text = <<>> THEN opened ELSE conv_text(opened, text)
      thought == IF is_str(rc) THEN conv_reasoning(said, rc.str) ELSE said
      calls == Get(m, "tool_calls")
      called == FoldLeft(ChatCall, thought, Items(calls))
  IN  IF (given(calls) /\ ~is_arr(calls)) THEN Refused(c, "malformed")
      ELSE IF called.why # "" THEN called ELSE conv_flush(called)

ChatMessage(c, m) ==
  LET role == Get(m, "role")
      content == Get(m, "content")
      text == text_of(content, {"text"}, <<>>, FALSE)
      body == IF given(content) THEN text.text ELSE <<>>
  IN  CASE c.why # "" -> c
        [] ~is_str(role) -> Refused(c, "malformed")
        [] str_eq(role, {"function"}) -> Refused(c, "unsupported")
        [] ~str_eq(role, {"assistant", "tool", "system", "developer", "user"}) -> Refused(c, "malformed")
        [] given(Get(m, "name")) \/ given(Get(m, "function_call")) -> Refused(c, "unsupported")
        [] given(content) /\ ~text.ok -> Refused(c, "unsupported")
        [] ~given(content) /\ ~str_eq(role, {"assistant"}) -> Refused(c, "malformed")
        [] str_eq(role, {"assistant"}) -> ChatAssistant(c, m, body)
        [] str_eq(role, {"tool"}) -> conv_message(c, "tool", body, IdOf(Get(m, "tool_call_id")))
        [] OTHER -> conv_message(c, IF str_eq(role, {"user"}) THEN "user" ELSE "system", body, <<>>)

-----------------------------------------------------------------------------
(* Anthropic's Messages: consecutive messages of one role are one turn *)

NoUser == [open |-> FALSE, any_text |-> FALSE, any_result |-> FALSE, text |-> <<>>]

\* What ends a user's turn: its text, unless it held results alone.
UserEnds(s) ==
  IF s.user.open /\ (s.user.any_text \/ ~s.user.any_result)
  THEN [s EXCEPT !.c = conv_message(@, "user", s.user.text, <<>>), !.user.open = FALSE]
  ELSE [s EXCEPT !.user.open = FALSE]

SayText(s, user, t) ==
  IF user THEN [s EXCEPT !.user.text = join(@, s.user.any_text, t), !.user.any_text = TRUE]
  ELSE [s EXCEPT !.c = conv_text(@, t)]

\* A content block of a user's or an assistant's message.
Block(user, s, b) ==
  LET type == Get(b, "type")
      rc == Get(b, "content")
      result == IF given(rc) THEN text_of(rc, {"text"}, <<>>, FALSE) ELSE [ok |-> TRUE, text |-> <<>>, any |-> FALSE]
  IN  CASE s.c.why # "" -> s
        [] str_eq(type, {"text"}) /\ is_str(Get(b, "text")) -> SayText(s, user, Get(b, "text").str)
        [] user /\ str_eq(type, {"tool_result"}) ->
             IF result.ok
             THEN [s EXCEPT !.c = conv_message(@, "tool", result.text, IdOf(Get(b, "tool_use_id"))), !.user.any_result = TRUE]
             ELSE [s EXCEPT !.c = Refused(@, "unsupported")]
        [] ~user /\ str_eq(type, {"tool_use"}) ->
             [s EXCEPT !.c = IF is_str(Get(b, "name")) THEN conv_call(@, Get(b, "id"), Get(b, "name").str, Get(b, "input"))
                             ELSE Refused(@, "malformed")]
        [] ~user /\ str_eq(type, {"thinking"}) -> [s EXCEPT !.c = conv_reasoning(@, IdOf(Get(b, "thinking")))]
        [] ~user /\ str_eq(type, {"redacted_thinking"}) -> s
        [] OTHER -> [s EXCEPT !.c = Refused(@, "unsupported")]

TurnBlock(s, b) == Block(TRUE, s, b)
ReplyBlock(s, b) == Block(FALSE, s, b)

OneMessage(s, m) ==
  LET content == Get(m, "content")
      user == str_eq(Get(m, "role"), {"user"})
      text == text_of(content, {"text"}, <<>>, FALSE)
      begun == IF user /\ ~s.user.open THEN [c |-> conv_flush(s.c), user |-> [NoUser EXCEPT !.open = TRUE]]
               ELSE IF ~user THEN UserEnds(s) ELSE s
      opened == IF user THEN begun ELSE [begun EXCEPT !.c = conv_open(@)]
  IN  CASE s.c.why # "" -> s
        [] ~str_eq(Get(m, "role"), {"user", "assistant", "system"}) -> [s EXCEPT !.c = Refused(@, "malformed")]
        [] ~is_str(content) /\ ~is_arr(content) -> [s EXCEPT !.c = Refused(@, "malformed")]
        [] str_eq(Get(m, "role"), {"system"}) ->
             [begun EXCEPT !.c = IF text.ok THEN conv_message(@, "system", text.text, <<>>) ELSE Refused(@, "unsupported")]
        [] is_str(content) -> SayText(begun, user, content.str)
        [] user -> FoldLeft(TurnBlock, opened, content.arr)
        [] OTHER -> FoldLeft(ReplyBlock, opened, content.arr)

-----------------------------------------------------------------------------
(* OpenAI's Responses: reasoning goes with the assistant's turn after it,  *)
(* and calls with the assistant's turn before them                         *)

Parts == {"input_text", "output_text", "text"}

\* Reasoning that waits becomes the open turn's.
Attach(s) ==
  IF s.pending THEN [s EXCEPT !.c = conv_reasoning(@, s.reasoning), !.reasoning = <<>>, !.pending = FALSE, !.any = FALSE] ELSE s

Item(s, it) ==
  LET type == Get(it, "type")
      role == Get(it, "role")
      text == text_of(Get(it, "content"), Parts, <<>>, FALSE)
      out == text_of(Get(it, "output"), Parts, <<>>, FALSE)
      opened == conv_open(conv_flush(s.c))
      rc == IF Items(Get(it, "content")) # <<>> THEN Get(it, "content") ELSE Get(it, "summary")
      more == text_of(rc, {"reasoning_text", "summary_text"}, s.reasoning, s.any)
      No(why) == [s EXCEPT !.c = Refused(@, why)]
  IN  CASE s.c.why # "" -> s
        [] (~given(type) \/ str_eq(type, {"message"})) /\ is_str(role) ->
             IF ~text.ok THEN No("unsupported")
             ELSE IF str_eq(role, {"assistant"})
                  THEN Attach([s EXCEPT !.c = IF text.text = <<>> THEN opened ELSE conv_text(opened, text.text)])
             ELSE IF str_eq(role, {"user", "system", "developer"})
                  THEN [s EXCEPT !.c = conv_message(@, IF str_eq(role, {"user"}) THEN "user" ELSE "system", text.text, <<>>)]
             ELSE No("malformed")
        [] str_eq(type, {"function_call"}) ->
             IF ~is_str(Get(it, "name")) THEN No("malformed")
             ELSE LET t == Attach([s EXCEPT !.c = IF ~s.c.turn.open \/ s.pending THEN opened ELSE @])
                  IN  [t EXCEPT !.c = conv_call(@, Get(it, "call_id"), Get(it, "name").str, Get(it, "arguments"))]
        [] str_eq(type, {"function_call_output"}) ->
             IF out.ok THEN [s EXCEPT !.c = conv_message(@, "tool", out.text, IdOf(Get(it, "call_id")))] ELSE No("unsupported")
        [] str_eq(type, {"reasoning"}) ->
             IF is_arr(rc) /\ ~more.ok THEN No("malformed")
             ELSE [s EXCEPT !.pending = TRUE, !.reasoning = IF is_arr(rc) THEN more.text ELSE @,
                            !.any = IF is_arr(rc) THEN more.any ELSE @]
        [] OTHER -> No("unsupported")

-----------------------------------------------------------------------------
(* Tools, the choice of one, and thinking *)

put_tool(r, name, description, parameters) ==
  [r EXCEPT !.tools = Append(@, [name |-> name.str,
     description |-> IF is_str(description) THEN description ELSE Absent,
     parameters |-> IF given(parameters) THEN parameters ELSE Absent])]

No(r, why) == [r EXCEPT !.why = why]

ChatTool(r, t) ==
  LET fn == Get(t, "function")
  IN  CASE r.why # "" -> r
        [] ~str_eq(Get(t, "type"), {"function"}) -> No(r, "unsupported")
        [] ~is_str(Get(fn, "name")) -> No(r, "malformed")
        [] OTHER -> put_tool(r, Get(fn, "name"), Get(fn, "description"), Get(fn, "parameters"))

MessagesTool(r, t) ==
  CASE r.why # "" -> r
    [] given(Get(t, "type")) /\ ~str_eq(Get(t, "type"), {"custom"}) -> No(r, "unsupported")
    [] ~is_str(Get(t, "name")) -> No(r, "malformed")
    [] OTHER -> put_tool(r, Get(t, "name"), Get(t, "description"), Get(t, "input_schema"))

FunctionTool(r, f) ==
  CASE r.why # "" -> r
    [] ~str_eq(Get(f, "type"), {"function"}) \/ ~is_str(Get(f, "name")) -> No(r, "unsupported")
    [] OTHER -> put_tool(r, Get(f, "name"), Get(f, "description"), Get(f, "parameters"))

hosted_tool == {"web_search", "file_search", "code_interpreter", "image_generation", "mcp", "computer"}

\* A namespace's functions are offered as functions; a hosted tool is left out, and named.
ResponsesTool(r, t) ==
  LET type == Get(t, "type")
  IN  CASE r.why # "" -> r
        [] str_eq(type, {"function"}) ->
             IF is_str(Get(t, "name")) THEN put_tool(r, Get(t, "name"), Get(t, "description"), Get(t, "parameters"))
             ELSE No(r, "malformed")
        [] str_eq(type, {"namespace"}) -> FoldLeft(FunctionTool, r, Items(Get(t, "tools")))
        [] str_eq(type, hosted_tool) -> [r EXCEPT !.ignored = Append(@, type.str)]
        [] OTHER -> No(r, "unsupported")

ReadTools(r, tools, Tool(_, _)) ==
  IF r.why # "" \/ ~given(tools) THEN r
  ELSE IF ~is_arr(tools) THEN No(r, "malformed") ELSE FoldLeft(Tool, r, tools.arr)

Chosen(r, choice, name) == [r EXCEPT !.choice = choice, !.name = name]

\* OpenAI's tool_choice; name is where a named function's name is.
OpenAIChoice(r, choice, name) ==
  CASE r.why # "" -> r
    [] str_eq(choice, {"none"}) -> Chosen(r, "none", <<>>)
    [] str_eq(choice, {"required"}) -> Chosen(r, "required", <<>>)
    [] is_obj(choice) -> IF str_eq(Get(choice, "type"), {"function"}) /\ is_str(name)
                         THEN Chosen(r, "named", name.str) ELSE No(r, "malformed")
    [] given(choice) /\ ~str_eq(choice, {"auto"}) -> No(r, "malformed")
    [] OTHER -> r

AnthropicChoice(r, choice) ==
  LET type == Get(choice, "type")
      name == Get(choice, "name")
  IN  CASE r.why # "" -> r
        [] is_obj(choice) /\ str_eq(type, {"none"}) -> Chosen(r, "none", <<>>)
        [] is_obj(choice) /\ str_eq(type, {"any"}) -> Chosen(r, "required", <<>>)
        [] is_obj(choice) /\ str_eq(type, {"tool"}) -> IF is_str(name) THEN Chosen(r, "named", name.str) ELSE No(r, "malformed")
        [] given(choice) /\ ~(is_obj(choice) /\ str_eq(type, {"auto"})) -> No(r, "malformed")
        [] OTHER -> r

\* A choice that needs a tool has one, and a named one is among the tools offered.
check_choice(r) ==
  IF \/ r.why # "" \/ r.choice \notin {"required", "named"}
     \/ r.tools # <<>> /\ (r.choice = "named" => \E i \in DOMAIN r.tools : r.tools[i].name = r.name)
  THEN r ELSE No(r, "malformed")

Effort(r, effort) ==
  IF str_eq(effort, {"none", "minimal"}) THEN [r EXCEPT !.thinking = 0]
  ELSE IF is_str(effort) THEN [r EXCEPT !.thinking = 1] ELSE r

Result(why, messages, final) ==
  [why |-> why, messages |-> messages, tools |-> <<>>, choice |-> "auto", name |-> <<>>, final |-> final,
   thinking |-> -1, ignored |-> <<>>]

Switched(r, switch) == IF "bool" \in DOMAIN switch THEN [r EXCEPT !.thinking = IF switch.bool THEN 1 ELSE 0] ELSE r

vitna_convert_chat(req) ==
  LET fc == Get(req, "function_call")
      messages == Get(req, "messages")
      Read(c) == Result(IF given(Get(req, "functions")) \/ (given(fc) /\ ~str_eq(fc, {"none", "auto"})) THEN "unsupported"
                        ELSE IF Items(messages) = <<>> THEN "malformed" ELSE c.why, c.out, FALSE)
      tools == ReadTools(Read(FoldLeft(ChatMessage, conv_init, Items(messages))), Get(req, "tools"), ChatTool)
      choice == Get(req, "tool_choice")
      chosen == check_choice(OpenAIChoice(tools, choice, Get(Get(choice, "function"), "name")))
  IN  Effort(Switched(chosen, Get(Get(req, "chat_template_kwargs"), "enable_thinking")), Get(req, "reasoning_effort"))

ToldSystem(system, text) ==
  IF ~given(system) THEN conv_init
  ELSE IF text.ok THEN conv_message(conv_init, "system", text.text, <<>>) ELSE Refused(conv_init, "malformed")

Thinks(r, thinking) ==
  LET tt == Get(thinking, "type")
  IN  IF r.why = "" /\ given(thinking) /\ ~str_eq(tt, {"enabled", "disabled", "adaptive"}) THEN No(r, "malformed")
      ELSE [r EXCEPT !.thinking = IF str_eq(tt, {"enabled", "adaptive"}) THEN 1 ELSE 0]

\* A conversation that ends with the assistant asks for that reply to be continued.
vitna_convert_messages(req) ==
  LET messages == Items(Get(req, "messages"))
      final == messages # <<>> /\ str_eq(Get(Last(messages), "role"), {"assistant"})
      Read(s) == Result(IF messages = <<>> /\ s.c.why = "" THEN "malformed"
                        ELSE IF s.c.why = "" /\ final /\ s.c.turn.calls # <<>> THEN "malformed" ELSE s.c.why,
                        conv_flush(UserEnds(s).c).out, final)
      told == ToldSystem(Get(req, "system"), text_of(Get(req, "system"), {"text"}, <<>>, FALSE))
      read == FoldLeft(OneMessage, [c |-> told, user |-> NoUser], messages)
      tools == ReadTools(Read(read), Get(req, "tools"), MessagesTool)
  IN  Thinks(check_choice(AnthropicChoice(tools, Get(req, "tool_choice"))), Get(req, "thinking"))

vitna_convert_responses(req) ==
  LET instructions == Get(req, "instructions")
      input == Get(req, "input")
      told == IF is_str(instructions) THEN conv_message(conv_init, "system", instructions.str, <<>>) ELSE conv_init
      said == IF is_str(input) THEN conv_message(told, "user", input.str, <<>>)
              ELSE FoldLeft(Item, [c |-> told, reasoning |-> <<>>, pending |-> FALSE, any |-> FALSE], Items(input)).c
      Read(c) == Result(IF given(instructions) /\ ~is_str(instructions) THEN "malformed"
                        ELSE IF ~is_str(input) /\ Items(input) = <<>> THEN "malformed" ELSE c.why, conv_flush(c).out, FALSE)
      choice == Get(req, "tool_choice")
      chosen == check_choice(OpenAIChoice(ReadTools(Read(said), Get(req, "tools"), ResponsesTool), choice, Get(choice, "name")))
  IN  Effort(chosen, Get(Get(req, "reasoning"), "effort"))

-----------------------------------------------------------------------------
(* Qwen3's template *)

\* JSON as Python writes it, whatever way a client wrote it; the order of an
\* object's members is not told apart here.
RECURSIVE vitna_json_write_py(_)
vitna_json_write_py(v) ==
  CASE is_str(v) -> <<"'">> \o v.str \o <<"'">>
    [] is_arr(v) -> <<"[">> \o FlattenSeq([i \in DOMAIN v.arr |-> vitna_json_write_py(v.arr[i])]) \o <<"]">>
    [] is_obj(v) -> <<"{">> \o FoldSet(LAMBDA k, s : s \o <<k, ":">> \o vitna_json_write_py(v.obj[k]), <<>>, DOMAIN v.obj) \o <<"}">>
    [] OTHER -> <<"null">>

WriteTool(t) ==
  <<"name:">> \o t.name
  \o (IF given(t.description) THEN <<"description:">> \o t.description.str ELSE <<>>)
  \o (IF given(t.parameters) THEN <<"parameters:">> \o vitna_json_write_py(t.parameters) ELSE <<>>)

lstrip_nl(s) == LET at == {i \in DOMAIN s : s[i] # "\n"} IN IF at = {} THEN <<>> ELSE SubSeq(s, Min(at), Len(s))
rstrip_nl(s) == LET at == {i \in DOMAIN s : s[i] # "\n"} IN IF at = {} THEN <<>> ELSE SubSeq(s, 1, Max(at))

StartOf(role) == <<"<|im_start|>", role, "\n">>
EndOf == <<"<|im_end|>", "\n">>
NoThought == <<"<think>", "\n", "\n", "</think>", "\n", "\n">>

\* Reasoning that is still in the content: before the first close, after the
\* last open before it; what is left is after the last close.
SplitThought(s) ==
  LET closes == {i \in DOMAIN s : s[i] = "</think>"}
      before == rstrip_nl(SubSeq(s, 1, Min(closes) - 1))
      opens == {i \in DOMAIN before : before[i] = "<think>"}
  IN  IF closes = {} THEN [reasoning |-> <<>>, content |-> s]
      ELSE [reasoning |-> lstrip_nl(IF opens = {} THEN before ELSE SubSeq(before, Max(opens) + 1, Len(before))),
            content |-> lstrip_nl(SubSeq(s, Max(closes) + 1, Len(s)))]

\* A user's own query, not tool results handed back in a user's turn.
IsQuery(m) ==
  m.role = "user" /\ ~(m.content # <<>> /\ Head(m.content) = "<tool_response>" /\ Last(m.content) = "</tool_response>")

\* Mutant: the last user's message, whatever it holds.
LastOfUser(msg) ==
  LET at == {k \in DOMAIN msg : msg[k].role \in {"user", "tool"}} IN IF at = {} THEN Len(msg) ELSE Max(at)

last_query(msg) ==
  LET at == {k \in DOMAIN msg : IsQuery(msg[k])} IN IF at = {} THEN Len(msg) ELSE Max(at)

WriteCall(call, gap) ==
  (IF gap THEN NL ELSE <<>>) \o <<"<tool_call>", "\n", "name:">> \o call.name \o <<"arguments:">>
  \o (IF is_str(call.args) THEN call.args.str ELSE vitna_json_write_py(call.args)) \o <<"\n", "</tool_call>">>

WriteCalls(m, content) ==
  FlattenSeq([j \in DOMAIN m.calls |-> WriteCall(m.calls[j], j > 1 \/ content # <<>>)])

WriteAssistant(msg, i) ==
  LET m == msg[i]
      s == IF is_str(m.reasoning) THEN [reasoning |-> m.reasoning.str, content |-> m.content] ELSE SplitThought(m.content)
      thinks == i > last_query(msg) /\ (i = Len(msg) \/ s.reasoning # <<>>)
  IN  StartOf("assistant")
      \o (IF thinks
          THEN <<"<think>", "\n">> \o rstrip_nl(lstrip_nl(s.reasoning)) \o <<"\n", "</think>", "\n", "\n">> \o lstrip_nl(s.content)
          ELSE s.content)
      \o WriteCalls(m, s.content) \o EndOf

\* Results one after another are handed back in one user's turn.
WriteResult(msg, i) ==
  (IF i = 1 \/ msg[i - 1].role # "tool" THEN <<"<|im_start|>", "user">> ELSE <<>>)
  \o <<"\n", "<tool_response>", "\n">> \o msg[i].content \o <<"\n", "</tool_response>">>
  \o (IF i = Len(msg) \/ msg[i + 1].role # "tool" THEN EndOf ELSE <<>>)

WriteMessage(msg, i) ==
  CASE msg[i].role = "user" \/ (msg[i].role = "system" /\ i > 1) -> StartOf(msg[i].role) \o msg[i].content \o EndOf
    [] msg[i].role = "assistant" -> WriteAssistant(msg, i)
    [] msg[i].role = "tool" -> WriteResult(msg, i)
    [] OTHER -> <<>>

\* What comes before the messages: the first system message, and the tools.
WriteSystem(msg, tools) ==
  LET sys0 == IF msg[1].role = "system" THEN msg[1].content ELSE <<>>
  IN  IF tools # <<>>
      THEN StartOf("system") \o (IF msg[1].role = "system" THEN sys0 \o <<"\n", "\n">> ELSE <<>>)
           \o <<"<tools>">> \o FlattenSeq([t \in DOMAIN tools |-> NL \o WriteTool(tools[t])]) \o <<"\n", "</tools>">> \o EndOf
      ELSE IF msg[1].role = "system" THEN StartOf("system") \o sys0 \o EndOf ELSE <<>>

vitna_chat_qwen3(msg, tools, thinking, generate) ==
  WriteSystem(msg, tools) \o FlattenSeq([i \in DOMAIN msg |-> WriteMessage(msg, i)])
  \o (IF generate THEN StartOf("assistant") \o (IF thinking = 0 THEN NoThought ELSE <<>>) ELSE <<>>)

-----------------------------------------------------------------------------
(* Parameters, and the prompt a request is answered from *)

\* The keys a kind's converter reads, and those that change nothing here.
conversation_key == [k \in {"chat", "messages", "responses"} |->
  CASE k = "chat" -> {"messages", "tools", "tool_choice", "functions", "function_call", "chat_template_kwargs", "reasoning_effort"}
    [] k = "messages" -> {"messages", "system", "tools", "tool_choice", "thinking"}
    [] k = "responses" -> {"input", "instructions", "tools", "tool_choice", "reasoning"}]
bookkeeping(kind) ==
  {"user", "metadata", "store", "service_tier", "parallel_tool_calls", "prompt_cache_key", "safety_identifier"}
    \cup (IF kind = "responses" THEN {"include"} ELSE {})

Between(v, low, high) == "num" \in DOMAIN v /\ v.num \in low .. high
Strings(v, most) ==
  is_arr(v) /\ Len(v.arr) <= most /\ \A i \in DOMAIN v.arr : is_str(v.arr[i]) /\ v.arr[i].str # <<>>
OPENAI_MAX_STOPS == 4
MAX_STOPS == 16

\* One field of a request: what it sets in p, that it is refused, or its name
\* among those ignored.  Numbers are in tenths.
Field(kind, p, k, v) ==
  LET openai == kind = "chat"
      Set(ok, q) == IF ok THEN q ELSE No(p, "malformed")
      Only(ok) == IF ok THEN p ELSE No(p, "unsupported")
      format == IF kind = "responses" THEN Get(v, "format") ELSE v
  IN  CASE k = "model" \/ k \in conversation_key[kind] \/ k \in bookkeeping(kind) \/ v = Null -> p
        [] k \in (CASE kind = "responses" -> {"max_output_tokens"} [] kind = "chat" -> {"max_tokens", "max_completion_tokens"}
                    [] OTHER -> {"max_tokens"}) ->
             Set("num" \in DOMAIN v /\ v.num % 10 = 0 /\ v.num >= 10, [p EXCEPT !.max_tokens = v])
        [] k = "temperature" -> Set(Between(v, 0, IF kind = "messages" THEN 10 ELSE 20), [p EXCEPT !.temperature = v])
        [] k = "top_p" -> Set(Between(v, 1, 10), [p EXCEPT !.top_p = v])
        [] k = "top_k" -> Set("num" \in DOMAIN v /\ v.num % 10 = 0 /\ v.num >= 0, [p EXCEPT !.top_k = v])
        [] k = "seed" -> Set("num" \in DOMAIN v /\ v.num % 10 = 0, [p EXCEPT !.seed = v])
        [] openai /\ k = "stop" ->
             IF is_str(v) THEN Set(v.str # <<>>, [p EXCEPT !.stops = <<v.str>>])
             ELSE Set(Strings(v, OPENAI_MAX_STOPS), [p EXCEPT !.stops = [i \in DOMAIN v.arr |-> v.arr[i].str]])
        [] kind = "messages" /\ k = "stop_sequences" ->
             Set(Strings(v, MAX_STOPS), [p EXCEPT !.stops = [i \in DOMAIN v.arr |-> v.arr[i].str]])
        [] k = "stream" -> Set("bool" \in DOMAIN v, [p EXCEPT !.stream = v.bool])
        [] kind # "messages" /\ k = "stream_options" ->
             Set(is_obj(v), [p EXCEPT !.stream_options = openai, !.usage = openai /\ Get(v, "include_usage") = Bool(TRUE)])
        [] openai /\ k = "n" -> Only(v = Num(10))
        [] openai /\ k = "logprobs" -> Only(v = Bool(FALSE))
        [] kind # "messages" /\ k = "top_logprobs" -> Only(v = Num(0))
        [] openai /\ k \in {"presence_penalty", "frequency_penalty"} -> Only(v = Num(0))
        [] openai /\ k = "logit_bias" -> Only(is_obj(v) /\ DOMAIN v.obj = {})
        [] (openai /\ k = "response_format") \/ (kind = "responses" /\ k = "text") ->
             IF kind = "responses" /\ ~given(format) THEN p
             ELSE IF str_eq(Get(format, "type"), {"json_object"}) THEN [p EXCEPT !.json = TRUE]
             ELSE Only(str_eq(Get(format, "type"), {"text"}))
        [] kind = "responses" /\ k \in {"previous_response_id", "conversation"} -> Only(FALSE)
        [] kind = "responses" /\ k = "background" -> Only(v = Bool(FALSE))
        [] kind = "responses" /\ k = "truncation" -> Only(str_eq(v, {"disabled"}))
        [] kind = "messages" /\ k = "mcp_servers" -> Only(is_arr(v) /\ v.arr = <<>>)
        [] OTHER -> [p EXCEPT !.ignored = @ \cup {k}]

Params0 == [why |-> "", max_tokens |-> Absent, temperature |-> Num(10), top_p |-> Num(10), top_k |-> Num(0), seed |-> Absent,
            stops |-> <<>>, stream |-> FALSE, stream_options |-> FALSE, usage |-> FALSE, json |-> FALSE, ignored |-> {}]

\* The fields of a request, each there once, in whatever order they are.
parse_params(kind, req) ==
  LET Read(k, p) == IF p.why # "" THEN p ELSE Field(kind, p, k, req.obj[k])
      p == FoldSet(Read, Params0, DOMAIN req.obj)
  IN  IF p.why = "" /\ ((p.stream_options /\ ~p.stream) \/ (kind = "messages" /\ p.max_tokens = Absent))
      THEN No(p, "malformed") ELSE p

ModelId == <<"m">>
Wrong(why) == [why |-> why, prompt |-> <<>>, prefill |-> <<>>, parse |-> FALSE, think |-> FALSE, tools |-> FALSE, ban |-> FALSE]

\* ChatML has no place for tools; a reply that is continued is left open.
chatml_prompt(cr) ==
  LET n == Len(cr.messages)
      Write(i) == StartOf(cr.messages[i].role) \o cr.messages[i].content \o (IF cr.final /\ i = n THEN <<>> ELSE EndOf)
  IN  IF cr.tools # <<>> \/ \E i \in 1 .. n : cr.messages[i].role = "tool" \/ cr.messages[i].calls # <<>>
      THEN Wrong("unsupported")
      ELSE [Wrong("") EXCEPT !.prompt = FlattenSeq([i \in 1 .. n |-> Write(i)])
                                        \o (IF cr.final THEN <<>> ELSE StartOf("assistant"))]

forced_opening(cr) ==
  <<"<tool_call>", "\n", "name:">> \o (IF cr.choice = "named" THEN cr.name \o <<"arguments:">> ELSE <<>>)

Convert(kind, req) ==
  CASE kind = "chat" -> vitna_convert_chat(req)
    [] kind = "messages" -> vitna_convert_messages(req)
    [] kind = "responses" -> vitna_convert_responses(req)

\* The prompt of a converted request, cr, and how its reply is read.
Built(cr, p) ==
  LET forced == cr.choice \in {"required", "named"}
      thinking == IF p.json \/ forced THEN 0 ELSE cr.thinking
      whole == vitna_chat_qwen3(cr.messages, cr.tools, thinking, ~cr.final)
      prefill == IF forced THEN forced_opening(cr) ELSE <<>>
      has_tools == cr.tools # <<>>
  IN  IF cr.why # "" THEN Wrong(cr.why)
      ELSE IF ~Qwen3 THEN chatml_prompt(cr)
      ELSE IF p.json /\ (cr.thinking = 1 \/ forced) THEN Wrong("unsupported")
      ELSE IF (forced /\ cr.thinking = 1) \/ cr.messages = <<>> THEN Wrong("malformed")
      ELSE IF cr.final /\ ~IsSuffix(EndOf, whole) THEN Wrong("server")
      ELSE [why |-> "", prefill |-> prefill, parse |-> TRUE,
            prompt |-> (IF cr.final THEN SubSeq(whole, 1, Len(whole) - Len(EndOf)) ELSE whole) \o prefill,
            think |-> thinking # 0 /\ ~cr.final,
            tools |-> has_tools /\ cr.choice # "none" /\ ~p.json,
            ban |-> has_tools /\ cr.choice = "none"]

chat_build(kind, req, p) == IF p.why # "" THEN Wrong(p.why) ELSE Built(Convert(kind, req), p)

\* Why a body is refused before any of it is read: it is no object, or names another model.
request_root(req) ==
  IF ~is_obj(req) THEN "malformed"
  ELSE IF is_str(Get(req, "model")) /\ Get(req, "model").str # ModelId THEN "not_found" ELSE ""

\* The prompt a request is answered from, with what its parameters say.
generate_route(kind, req) ==
  IF request_root(req) # "" THEN Wrong(request_root(req)) ELSE chat_build(kind, req, parse_params(kind, req))

\* Mutant: the parameters are read for neither API.
CountUnread(kind, req) ==
  IF request_root(req) # "" THEN Wrong(request_root(req)) ELSE chat_build(kind, req, Params0)

\* The prompt a request is counted by: a Messages count has no max_tokens, so its
\* parameters are not read.
count_tokens_route(kind, req) ==
  IF request_root(req) # "" THEN Wrong(request_root(req))
  ELSE chat_build(kind, req, IF kind = "responses" THEN parse_params(kind, req) ELSE Params0)

-----------------------------------------------------------------------------
(* A client, in each shape: a turn says something, as parts of text (an     *)
(* assistant's or a result's is one part or none), and may have a thought,  *)
(* calls, or the id of the call it answers.                                 *)

Image == <<"image">>
Part(type, s) == IF s = Image THEN Obj([type |-> Word("image")]) ELSE Obj([type |-> Word(type), text |-> Str(s)])
Content(t, type) ==
  IF Len(t.text) = 1 /\ t.text # <<Image>> THEN Str(t.text[1]) ELSE Arr([i \in DOMAIN t.text |-> Part(type, t.text[i])])
Only(has, field, v) == IF has THEN [x \in {field} |-> v] ELSE <<>>
Told == IF talk[1].says = "system" THEN 1 ELSE 0
Choice(chat) ==
  IF opts.choice = "named"
  THEN IF chat THEN Obj([type |-> Word("function"), function |-> Obj([name |-> Str(opts.name)])])
       ELSE Obj([type |-> Word("function"), name |-> Str(opts.name)])
  ELSE Word(opts.choice)

ChatTurn(t) ==
  CASE t.says = "assistant" ->
         Obj([role |-> Word("assistant"), content |-> IF t.text = <<>> THEN Null ELSE Content(t, "text"),
              reasoning_content |-> IF t.thought = <<>> THEN Null ELSE Str(t.thought),
              tool_calls |-> IF t.calls = <<>> THEN Null
                             ELSE Arr([i \in DOMAIN t.calls |-> Obj([id |-> Str(t.calls[i].id), type |-> Word("function"),
                                         function |-> Obj([name |-> Str(t.calls[i].name), arguments |-> Str(t.calls[i].json)])])])])
    [] t.says = "result" -> Obj([role |-> Word("tool"), tool_call_id |-> Str(t.id), content |-> Content(t, "text")])
    [] OTHER -> Obj([role |-> Word(t.says), content |-> Content(t, "text")])

AsChat(turns) ==
  Obj([messages |-> Arr([i \in DOMAIN turns |-> ChatTurn(turns[i])]),
       tools |-> Arr([i \in DOMAIN opts.tools |-> Obj([type |-> Word("function"),
                        function |-> Obj([name |-> Str(opts.tools[i]), parameters |-> Obj(<<>>)])])]),
       tool_choice |-> Choice(TRUE),
       reasoning_effort |-> CASE opts.thinking = 1 -> Word("high") [] opts.thinking = 0 -> Word("none") [] OTHER -> Null,
       max_completion_tokens |-> Num(10 * opts.max), temperature |-> Num(opts.temperature), stop |-> Str(<<"s">>),
       response_format |-> Obj([type |-> Word(IF opts.json THEN "json_object" ELSE "text")])])

MessagesTurn(t) ==
  CASE t.says = "assistant" ->
         Obj([role |-> Word("assistant"), content |-> Arr(
           (IF t.thought = <<>> THEN <<>> ELSE <<Obj([type |-> Word("thinking"), thinking |-> Str(t.thought)])>>)
           \o [i \in DOMAIN t.text |-> Part("text", t.text[i])]
           \o [i \in DOMAIN t.calls |-> Obj([type |-> Word("tool_use"), id |-> Str(t.calls[i].id),
                                             name |-> Str(t.calls[i].name), input |-> t.calls[i].args])])])
    [] t.says = "result" ->
         Obj([role |-> Word("user"), content |-> Arr(<<Obj([type |-> Word("tool_result"), tool_use_id |-> Str(t.id),
                                                             content |-> Content(t, "text")])>>)])
    [] OTHER -> Obj([role |-> Word(t.says), content |-> Content(t, "text")])

AsMessages(turns) ==
  Obj([messages |-> Arr([i \in 1 .. Len(turns) - Told |-> MessagesTurn(turns[i + Told])]),
       system |-> IF Told = 1 THEN Content(turns[1], "text") ELSE Null,
       tools |-> Arr([i \in DOMAIN opts.tools |-> Obj([name |-> Str(opts.tools[i]), input_schema |-> Obj(<<>>)])]),
       tool_choice |-> Obj(Only(TRUE, "type", Word(CASE opts.choice = "required" -> "any" [] opts.choice = "named" -> "tool"
                                                     [] OTHER -> opts.choice))
                           @@ Only(opts.choice = "named", "name", Str(opts.name))),
       thinking |-> CASE opts.thinking = 1 -> Obj([type |-> Word("enabled")])
                      [] opts.thinking = 0 -> Obj([type |-> Word("disabled")]) [] OTHER -> Null,
       max_tokens |-> Num(10 * opts.max), temperature |-> Num(opts.temperature), stop_sequences |-> Arr(<<Str(<<"s">>)>>)])

ResponsesTurn(t) ==
  CASE t.says = "assistant" ->
         (IF t.thought = <<>> THEN <<>>
          ELSE <<Obj([type |-> Word("reasoning"), summary |-> Arr(<<>>), content |-> Arr(<<Part("reasoning_text", t.thought)>>)])>>)
         \o (IF t.text = <<>> /\ t.calls # <<>> THEN <<>>
             ELSE <<Obj([type |-> Word("message"), role |-> Word("assistant"),
                         content |-> Arr([i \in DOMAIN t.text |-> Part("output_text", t.text[i])])])>>)
         \o [i \in DOMAIN t.calls |-> Obj([type |-> Word("function_call"), call_id |-> Str(t.calls[i].id),
                                           name |-> Str(t.calls[i].name), arguments |-> Str(t.calls[i].json)])]
    [] t.says = "result" ->
         <<Obj([type |-> Word("function_call_output"), call_id |-> Str(t.id), output |-> Content(t, "input_text")])>>
    [] OTHER -> <<Obj([role |-> Word(t.says), content |-> Content(t, "input_text")])>>

\* Its tools may be in a namespace, and one that OpenAI runs among them.
AsResponses(turns) ==
  LET Function(name) == Obj([type |-> Word("function"), name |-> Str(name), parameters |-> Obj(<<>>)])
      all == [i \in DOMAIN opts.tools |-> Function(opts.tools[i])]
  IN  Obj([input |-> Arr(FlattenSeq([i \in 1 .. Len(turns) - Told |-> ResponsesTurn(turns[i + Told])])),
           instructions |-> IF Told = 1 THEN Str(FoldLeft(LAMBDA a, b : join(a, a # <<>>, b), <<>>, turns[1].text)) ELSE Null,
           tools |-> Arr((IF opts.hosted THEN <<Obj([type |-> Word("web_search")])>> ELSE <<>>)
                         \o (IF opts.spaced THEN <<Obj([type |-> Word("namespace"), name |-> Word("n"), tools |-> Arr(all)])>> ELSE all)),
           tool_choice |-> Choice(FALSE),
           reasoning |-> CASE opts.thinking = 1 -> Obj([effort |-> Word("high")])
                           [] opts.thinking = 0 -> Obj([effort |-> Word("none")]) [] OTHER -> Null,
           max_output_tokens |-> Num(10 * opts.max), temperature |-> Num(opts.temperature),
           text |-> Obj([format |-> Obj([type |-> Word(IF opts.json THEN "json_object" ELSE "text")])])])

Kinds == {"chat", "messages", "responses"}
As(kind, turns) ==
  LET req == CASE kind = "chat" -> AsChat(turns) [] kind = "messages" -> AsMessages(turns) [] kind = "responses" -> AsResponses(turns)
  IN  Obj(req.obj @@ Only(opts.model # <<>>, "model", Str(opts.model)))
Prompt(kind, turns) == generate_route(kind, As(kind, turns))

-----------------------------------------------------------------------------
Sent(turns) == Len(turns) :> [kind \in Kinds |-> Prompt(kind, turns)]

Init == opts \in Options /\ talk \in Openings /\ sent = Sent(talk)

\* The conversation is sent again with one more turn.
Say ==
  \E t \in Turns(talk) :
    /\ Len(talk) < MaxTurns
    /\ talk' = Append(talk, t) /\ sent' = sent @@ Sent(Append(talk, t))
    /\ UNCHANGED opts

Next == Say

Spec == Init /\ [][Next]_vars

-----------------------------------------------------------------------------
(* Properties *)

Now(kind) == sent[Len(talk)][kind]

Alike(a, b) ==
  /\ a.why = b.why
  /\ a.why = "" => <<a.messages, a.tools, a.choice, a.name>> = <<b.messages, b.tools, b.choice, b.name>>

\* One conversation, sent in any of the three shapes, is the same conversation:
\* the same messages, tools and choice, and with the same settings the same
\* prompt, prefill and way of reading the reply, or a refusal for the same reason.
\* (A conversation that ends with the assistant is continued in one shape only.)
ShapesAgree == Last(talk).says # "assistant" =>
  \A kind \in Kinds :
    /\ Alike(Convert("chat", AsChat(talk)), Convert(kind, As(kind, talk)))
    /\ opts.thinking # -1 /\ ~(opts.json /\ kind = "messages") => Now(kind) = Now("chat")

Starts(s) == Cardinality({i \in DOMAIN s : s[i] = "<|im_start|>"})
Ends(s) == Cardinality({i \in DOMAIN s : s[i] = "<|im_end|>"})

Whole(kind, b) ==
  LET s == b.prompt
      own == SubSeq(s, 1, Len(s) - Len(b.prefill))
      final == kind = "messages" /\ Last(talk).says = "assistant"
  IN  b.why = "" =>
        /\ \A i \in DOMAIN s : Starts(SubSeq(s, 1, i)) - Ends(SubSeq(s, 1, i)) \in {0, 1}
        /\ Starts(s) = Ends(s) + 1
        /\ \A i \in DOMAIN s : s[i] = "<tool_response>" =>
             LET at == Max({j \in 1 .. i : s[j] = "<|im_start|>"}) IN s[at + 1] = "user"
        /\ Qwen3 => IsSuffix(b.prefill, s) /\ (~final => b.think = ~IsSuffix(NoThought, own))

\* In every prompt the turns are closed one by one, the reply's alone is open,
\* tool results stand in a user's turn, and the reply's reasoning is closed before
\* it begins exactly when the reply will not be read as having any.
PromptWhole == \A kind \in Kinds : Whole(kind, Now(kind))

\* What the model writes for a turn, up to the end of it.
Written(t) ==
  <<"<think>", "\n">> \o t.thought \o <<"\n", "</think>", "\n", "\n">> \o FlattenSeq(t.text)
  \o WriteCalls([calls |-> [i \in DOMAIN t.calls |-> [name |-> t.calls[i].name, args |-> t.calls[i].args]]], FlattenSeq(t.text)) \o EndOf

Asks(t) == t.says = "user" /\ IsQuery([role |-> "user", content |-> FlattenSeq(t.text)])

\* The messages of a prompt up to the last one's end; and a prompt up to the reply.
Closed(prompt) == SubSeq(prompt, 1, Max({j \in DOMAIN prompt : prompt[j] = "<|im_end|>"}))
BeforeReply(prompt) == SubSeq(prompt, 1, Max({j \in DOMAIN prompt : prompt[j] = "<|im_start|>"}))

WithChoice(kind, c) ==
  [As(kind, talk) EXCEPT !.obj.tool_choice = IF kind = "messages" THEN Obj([type |-> Word(c)]) ELSE Word(c)]

BeginsSo(b, other) == other.why = "" => IsPrefix(BeforeReply(b.prompt), other.prompt)

GoesOn(kind, b) ==
  LET n == Len(talk)
      replied == {i \in 1 .. n - 1 : talk[i].says = "assistant" /\ \A j \in i + 1 .. n : talk[j].says = "result"}
      queries == {i \in 1 .. n - 1 : Asks(talk[i])}
      Before(i) == sent[i][kind].prompt
  IN  (b.why = "" /\ Last(talk).says # "assistant") =>
        /\ \A i \in replied : (Qwen3 /\ opts.thinking = 1 /\ talk[i].thought # <<>> /\ \E j \in 1 .. i : Asks(talk[j])) =>
             IsPrefix(Before(i - 1) \o Written(talk[i]), b.prompt)
        /\ talk[n].says = "user" /\ queries # {} => IsPrefix(Closed(Before(Max(queries))), b.prompt)
        /\ \A c \in {"none", "auto"} : BeginsSo(b, chat_build(kind, WithChoice(kind, c), Params0))

\* A conversation sent back with one more turn begins with the prompt it had
\* before, so the sequence that served it is reused: with a tool's results, up to
\* the end of the model's own reply, reasoning included; with a new query, up to the end of the
\* query before it.  The choice of a tool changes no prompt before the reply.
PromptsReuse == \A kind \in Kinds : GoesOn(kind, Now(kind))

\* The tokens counted of a request are those of the prompt it would be answered
\* from: whatever body is answered, its count, of a Messages body without its
\* max_tokens, is of the same prompt.
CountedAsRead == \A kind \in {"messages", "responses"} :
  LET req == As(kind, talk)
      counted == count_tokens_route(kind, IF kind = "messages" THEN Obj(Restrict(req.obj, DOMAIN req.obj \ {"max_tokens"})) ELSE req)
  IN  Now(kind).why = "" => counted.why = "" /\ counted.prompt = Now(kind).prompt
=============================================================================
