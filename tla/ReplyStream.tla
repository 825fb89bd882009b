----------------------------- MODULE ReplyStream ----------------------------
(***************************************************************************)
(* One reply on its way out (engine/src/api.c, chat.c, strbuf.c): the text *)
(* grows by a token at a time, is cut at a stop sequence, is read into     *)
(* reasoning, text and tool calls, and is streamed as events in the shape  *)
(* of the API asked, or written whole at the end.  What could still become *)
(* a stop sequence, a tag or the rest of a character is held back.         *)
(*                                                                         *)
(* Bytes are values and a tag, a stop sequence or a token is a sequence of *)
(* them; offsets count from 0 as in the code.  Which tokens are taken is   *)
(* free.  The events of one report are merged when only the cut between    *)
(* two deltas tells them apart; ids, usage, times and the writing of JSON  *)
(* are left out.                                                           *)
(***************************************************************************)
EXTENDS Integers, SequencesExt, FiniteSetsExt

CONSTANTS
  OpenThink, CloseThink, OpenCall, CloseCall,  \* the tags
  Newline, OtherSpace,  \* and another byte of is_space
  Needs,           \* the first bytes of longer characters, and their lengths
  Cont,            \* a continuation byte
  Calls,           \* the bodies that are a tool call's JSON
  Asks,            \* what is asked: see ReplyAssumption
  Tokens(_),       \* the bytes of the tokens a request's reply may take
  Faults           \* "step": a step fails; "memory": no part can be had

\* Bytes, or a list.
IsText(s) == s \in Seq(Range(s))

\* What the constants are; an instance assumes it.
ReplyAssumption ==
  /\ \A a \in Asks : a.max \in Nat
  /\ Faults \subseteq {"step", "memory"}
  /\ \A tag \in {OpenThink, CloseThink, OpenCall, CloseCall} : IsText(tag) /\ Len(tag) > 0
  /\ \A a \in Asks :
       /\ a.api \in {"completions", "chat", "messages", "responses"}
       /\ {a.stream, a.parse, a.think, a.tools} \subseteq BOOLEAN
       /\ a.api = "completions" => ~a.parse
       /\ IsText(a.prefill) /\ IsText(a.stops)
       /\ \A i \in DOMAIN a.stops : IsText(a.stops[i]) /\ Len(a.stops[i]) > 0
       /\ \A t \in Tokens(a) : IsText(t)

VARIABLES
  ask,     \* the request's parameters
  taken,   \* the tokens taken so far
  text,    \* the prefill and the generated bytes, cut at a stop sequence
  rp,      \* the parser: phase, at, nl, any_text
  emitted, \* the bytes streamed of a reply that is not read back
  g,       \* the reply's parts, whether one could not be kept, and what was sent
  stop,    \* which stop sequence ended the reply, or 0
  finish,  \* "length", or "stop"
  pc       \* "taking", "ended", "failed" (a step) or "done"

vars == <<ask, taken, text, rp, emitted, g, stop, finish, pc>>

-----------------------------------------------------------------------------
(* Bytes *)

First(s, n) == SubSeq(s, 1, n)
From(s, n) == SubSeq(s, n + 1, Len(s))
HasAt(s, i, t) == i + Len(t) <= Len(s) /\ SubSeq(s, i + 1, i + Len(t)) = t

\* Where t first begins in s, at from or later: at most one offset.
Found(s, from, t) ==
  LET at == {i \in from .. Len(s) - Len(t) : HasAt(s, i, t)}
  IN  IF at = {} THEN {} ELSE {Min(at)}

\* Mutant: an end as long as all but two bytes of t is not held back.
ShortGrowth(s, from, t) ==
  Max({0} \cup {k \in 1 .. Len(t) - 2 : k <= Len(s) - from /\ HasAt(s, Len(s) - k, First(t, k))})

\* The longest end of s, from there, that could still grow into t.
Growth(s, from, t) ==
  Max({0} \cup {k \in 1 .. Len(t) - 1 : k <= Len(s) - from /\ HasAt(s, Len(s) - k, First(t, k))})

stop_holdback(s) == Max({0} \cup {Growth(s, 0, ask.stops[i]) : i \in DOMAIN ask.stops})

\* The length of s up to n without a character that is started, not finished.
vitna_utf8_complete_prefix(s, n) ==
  LET back == {b \in 1 .. 3 : b <= n /\ s[n - b + 1] # Cont}
      b == Min(back)
  IN  IF back # {} /\ s[n - b + 1] \in DOMAIN Needs /\ Needs[s[n - b + 1]] > b
      THEN n - b ELSE n

\* Mutant: a stop sequence is looked for in the new bytes only.
InNewBytes(s, from, floor) ==
  {h \in (DOMAIN ask.stops) \X (0 .. Len(s)) :
     h[2] \in Found(s, IF from < floor THEN floor ELSE from, ask.stops[h[1]])}

\* Each stop sequence, and where it first begins, looking only where bytes
\* since from can complete it and never before floor.
Stopped(s, from, floor) ==
  {h \in (DOMAIN ask.stops) \X (0 .. Len(s)) :
     LET start == from - Len(ask.stops[h[1]]) + 1
     IN  h[2] \in Found(s, Max({0, floor, start}), ask.stops[h[1]])}

\* find_stop: the earliest, of two that begin together the first asked.
find_stop(hits) ==
  CHOOSE h \in hits : \A o \in hits : h[2] < o[2] \/ (h[2] = o[2] /\ h[1] <= o[1])

-----------------------------------------------------------------------------
(* The parser.  A turn reads on from at; it says parts, and goes again     *)
(* unless it must wait for more of the reply, or the reply has ended.      *)

vitna_reply_init == [phase |-> "start", at |-> 0, nl |-> 0, any_text |-> FALSE]

begin_part(p, phase, at) == [phase |-> phase, at |-> at, nl |-> 0, any_text |-> FALSE]

Says(kind, data) == IF data = <<>> THEN <<>> ELSE <<[kind |-> kind, data |-> data]>>
Newlines(n) == [i \in 1 .. n |-> Newline]

Wait(p, says) == [p |-> p, says |-> says, again |-> FALSE]
Again(p, says) == [p |-> p, says |-> says, again |-> TRUE]

\* Bytes of a part: the newlines after its last other byte are held back,
\* those before its first are dropped.
part_bytes(p, kind, s) ==
  LET other == {i \in DOMAIN s : s[i] # Newline}
      last == Max(other)
  IN  IF other = {} THEN [p |-> [p EXCEPT !.nl = @ + Len(s)], says |-> <<>>]
      ELSE [p |-> [p EXCEPT !.nl = Len(s) - last, !.any_text = TRUE],
            says |-> Says(kind, IF p.any_text THEN Newlines(p.nl) \o First(s, last)
                                ELSE SubSeq(s, Min(other), last))]

Strip(s) ==
  LET other == {i \in DOMAIN s : s[i] \notin {Newline, OtherSpace}}
  IN  IF other = {} THEN <<>> ELSE SubSeq(s, Min(other), Max(other))

\* The text's newlines at the reply's end are its own.
LastNewlines(p) == IF p.any_text THEN Says("text", Newlines(p.nl)) ELSE <<>>
Over(p, at) == [p EXCEPT !.phase = "done", !.at = at, !.nl = 0]

Start(p, s, final) ==
  LET rest == From(s, p.at) IN
  IF ask.think /\ ~final /\ Len(rest) < Len(OpenThink) /\ IsPrefix(rest, OpenThink)
  THEN Wait(p, <<>>)
  ELSE IF ask.think /\ IsPrefix(OpenThink, rest)
  THEN Again(begin_part(p, "reason", p.at + Len(OpenThink)), <<>>)
  ELSE Again(begin_part(p, "text", p.at), <<>>)

Reason(p, s, final) ==
  LET tag == Found(s, p.at, CloseThink)
      end == IF tag # {} THEN Min(tag)
             ELSE IF final THEN Len(s) ELSE Len(s) - Growth(s, p.at, CloseThink)
      b == part_bytes(p, "reasoning", SubSeq(s, p.at + 1, end))
  IN  IF tag # {} THEN Again(begin_part(b.p, "text", end + Len(CloseThink)), b.says)
      ELSE Wait([b.p EXCEPT !.at = end, !.phase = IF final THEN "done" ELSE @], b.says)

Text(p, s, final) ==
  LET tag == IF ask.tools THEN Found(s, p.at, OpenCall) ELSE {}
      end == IF tag # {} THEN Min(tag)
             ELSE IF final \/ ~ask.tools THEN Len(s) ELSE Len(s) - Growth(s, p.at, OpenCall)
      b == part_bytes(p, "text", SubSeq(s, p.at + 1, end))
  IN  CASE tag # {} -> Again([b.p EXCEPT !.nl = 0, !.at = end + Len(OpenCall), !.phase = "tool"], b.says)
        [] tag = {} /\ final -> Wait(Over(b.p, end), b.says \o LastNewlines(b.p))
        [] OTHER -> Wait([b.p EXCEPT !.at = end], b.says)

\* A call when its JSON is one; otherwise, or never closed, text.
Tool(p, s, final) ==
  LET tag == Found(s, p.at, CloseCall)
      end == Min(tag)
      body == SubSeq(s, p.at + 1, end)
      open == part_bytes(p, "text", OpenCall \o From(s, p.at))
      closed == part_bytes(p, "text", OpenCall \o body \o CloseCall)
      after(q) == [q EXCEPT !.at = end + Len(CloseCall), !.phase = "after"]
  IN  CASE tag = {} /\ ~final -> Wait(p, <<>>)
        [] tag = {} /\ final -> Wait(Over(open.p, Len(s)), open.says \o LastNewlines(open.p))
        [] tag # {} /\ Strip(body) \in Calls -> Again(after(p), <<[kind |-> "call", data |-> Strip(body)]>>)
        [] OTHER -> Again(after(closed.p), closed.says)

After(p, s, final) ==
  LET other == {i \in p.at .. Len(s) - 1 : s[i + 1] \notin {Newline, OtherSpace}}
      at == IF other = {} THEN Len(s) ELSE Min(other)
      rest == From(s, at)
  IN  CASE rest = <<>> -> Wait([p EXCEPT !.at = at, !.phase = IF final THEN "done" ELSE @], <<>>)
        [] rest # <<>> /\ ~final /\ Len(rest) < Len(OpenCall) /\ IsPrefix(rest, OpenCall) ->
             Wait([p EXCEPT !.at = at], <<>>)
        [] IsPrefix(OpenCall, rest) -> Again([p EXCEPT !.at = at + Len(OpenCall), !.phase = "tool"], <<>>)
        [] OTHER -> Again(begin_part(p, "text", at), <<>>)

Turn(p, s, final) ==
  CASE p.phase = "start" -> Start(p, s, final)
    [] p.phase = "reason" -> Reason(p, s, final)
    [] p.phase = "text" -> Text(p, s, final)
    [] p.phase = "tool" -> Tool(p, s, final)
    [] p.phase = "after" -> After(p, s, final)
    [] p.phase = "done" -> Wait(p, <<>>)

\* vitna_reply_feed: the reply so far, s, read from where the last call left
\* off; where that leaves the parser, and the parts it has become sure of.
\* It is one turn after another until one waits: a turn that goes again has read
\* on, or is one of two that lead to others, so these are enough.
SaidBefore(says, rest) == [rest EXCEPT !.says = says \o @]

FeedOn(t, s, final) == IF t.again THEN SaidBefore(t.says, Turn(t.p, s, final)) ELSE t

MaxTurns(s) == 2 * Len(s) + 3

vitna_reply_feed(p, s, final) ==
  LET turns[n \in 0 .. MaxTurns(s)] == IF n = 0 THEN Again(p, <<>>) ELSE FeedOn(turns[n - 1], s, final)
  IN  turns[MaxTurns(s)]

-----------------------------------------------------------------------------
(* The parts, and the events a stream tells them by *)

Event(type, i, kind, data) == [type |-> type, at |-> i, kind |-> kind, data |-> data]
Send(h, events) == [h EXCEPT !.sent = @ \o events]

\* A part opening: nothing in a chat, which only has deltas.
stream_open(h, i) ==
  LET kind == h.parts[i].kind
      data == IF kind = "call" THEN h.parts[i].data ELSE <<>>
  IN  CASE ask.api = "messages" -> Send(h, <<Event("content_block_start", i, kind, data)>>)
        [] ask.api = "responses" ->
             Send(h, <<Event("output_item.added", i, kind, data)>>
                       \o IF kind = "text" THEN <<Event("content_part.added", i, kind, <<>>)>> ELSE <<>>)
        [] OTHER -> h

stream_delta(h, i, data) ==
  CASE ask.api = "chat" -> Send(h, <<Event("chunk", h.parts[i].call, h.parts[i].kind, data)>>)
    [] ask.api = "messages" -> Send(h, <<Event("content_block_delta", i, h.parts[i].kind, data)>>)
    [] OTHER -> Send(h, <<Event("delta", i, h.parts[i].kind, data)>>)

\* A part closing: in Responses told again, whole.
stream_close(h, i) ==
  LET q == h.parts[i] IN
  CASE ask.api = "messages" -> Send(h, <<Event("content_block_stop", i, q.kind, <<>>)>>)
    [] ask.api = "responses" ->
         Send(h, <<Event("part.done", i, q.kind, q.data)>>
                   \o (IF q.kind = "text" THEN <<Event("content_part.done", i, q.kind, q.data)>> ELSE <<>>)
                   \o <<Event("output_item.done", i, q.kind, q.data)>>)
    [] OTHER -> h

Streamed(h, next) == IF ask.stream THEN next ELSE h

ToldClosed(shut) == Streamed(shut, stream_close(shut, Len(shut.parts)))

close_part(h) ==
  IF h.parts = <<>> \/ ~Last(h.parts).open THEN h ELSE ToldClosed([h EXCEPT !.parts[Len(h.parts)].open = FALSE])

ToldMore(h, data) == Streamed(h, stream_delta(h, Len(h.parts), data))

\* A part has been opened and told; a call is whole, and closes at once.
ToldNew(h, p) ==
  LET told == stream_delta(stream_open(h, Len(h.parts)), Len(h.parts), p.data)
  IN  Streamed(h, IF p.kind = "call" THEN stream_close(told, Len(h.parts)) ELSE told)

NewPart(h, p, short) ==
  LET calls == Len(SelectSeq(h.parts, LAMBDA q : q.kind = "call"))
      new == [kind |-> p.kind, data |-> p.data, open |-> p.kind # "call", call |-> IF p.kind = "call" THEN calls ELSE 0]
  IN  IF short THEN [h EXCEPT !.failed = TRUE] ELSE ToldNew([h EXCEPT !.parts = Append(@, new)], p)

\* on_part: reasoning or text joins the open part of its kind; anything else
\* is a part of its own, unless there is no memory for one.
on_part(h, p, short) ==
  IF p.kind # "call" /\ h.parts # <<>> /\ Last(h.parts).open /\ Last(h.parts).kind = p.kind
  THEN ToldMore([h EXCEPT !.parts[Len(h.parts)].data = @ \o p.data], p.data)
  ELSE NewPart(close_part(h), p, short)

Parts(h, says, short) ==
  LET after[n \in 0 .. Len(says)] == IF n = 0 THEN h ELSE on_part(after[n - 1], says[n], short)
  IN  after[Len(says)]

-----------------------------------------------------------------------------
(* A reply *)

\* What can be read of the reply: all of it at its end.
Safe(s, final) ==
  IF final THEN Len(s) ELSE vitna_utf8_complete_prefix(s, Len(s) - stop_holdback(s))

\* reply_ready, of a conversation: the parser's place, the bytes emitted and
\* the parts after it.
ReadOn(read, short) == [rp |-> read.p, emitted |-> emitted, g |-> Parts(g, read.says, short)]

reply_ready(s, final, short) ==
  LET safe == Safe(s, final)
      plain == Says("text", SubSeq(s, emitted + 1, safe))
  IN  IF ask.parse THEN ReadOn(vitna_reply_feed(rp, First(s, safe), final), short)
      ELSE [rp |-> rp, emitted |-> Max({emitted, safe}), g |-> Parts(g, plain, short)]

\* stream_ready, of a completion.
stream_ready(s, final) ==
  LET safe == Safe(s, final) IN
  [rp |-> rp, emitted |-> Max({emitted, safe}),
   g |-> IF safe > emitted THEN Send(g, <<Event("chunk", 0, "text", SubSeq(s, emitted + 1, safe))>>) ELSE g]

Unchanged == [rp |-> rp, emitted |-> emitted, g |-> g]
Ready(s, short) == IF ask.api = "completions" THEN stream_ready(s, FALSE) ELSE reply_ready(s, FALSE, short)

Becomes(next) == rp' = next.rp /\ emitted' = next.emitted /\ g' = next.g

Opening ==
  CASE ask.api = "chat" -> <<Event("role", 0, "", <<>>)>>
    [] ask.api = "messages" -> <<Event("message_start", 0, "", <<>>)>>
    [] ask.api = "responses" -> <<Event("response.created", 0, "", <<>>), Event("response.in_progress", 0, "", <<>>)>>
    [] OTHER -> <<>>

\* job_begin: the reply begins with the prefill, a stream with its opening.
Init ==
  /\ ask \in Asks
  /\ taken = <<>> /\ text = ask.prefill
  /\ rp = vitna_reply_init /\ emitted = 0
  /\ g = [parts |-> <<>>, failed |-> FALSE, sent |-> IF ask.stream THEN Opening ELSE <<>>]
  /\ stop = 0 /\ finish = "length" /\ pc = "taking"

\* take_token: a token of text.  A stop sequence it completes cuts the text
\* and ends the reply; otherwise a stream goes on as far as it can.
Take(t, short) ==
  LET s == text \o t
      hits == Stopped(s, Len(text), Len(ask.prefill))
  IN  /\ pc = "taking" /\ Len(taken) < ask.max
      /\ taken' = Append(taken, t)
      /\ IF hits # {}
         THEN /\ text' = First(s, find_stop(hits)[2]) /\ stop' = find_stop(hits)[1]
              /\ finish' = "stop" /\ pc' = "ended"
              /\ Becomes(Unchanged)
         ELSE /\ text' = s
              /\ Becomes(IF ask.stream THEN Ready(s, short) ELSE Unchanged)
              /\ UNCHANGED <<stop, finish, pc>>
      /\ UNCHANGED ask

\* A special token, or a JSON object closed, ends it.
TakeLast ==
  /\ pc = "taking"
  /\ finish' = "stop" /\ pc' = "ended"
  /\ UNCHANGED <<ask, taken, text, rp, emitted, g, stop>>

\* The most tokens are taken, or the context is full.
RunOut ==
  /\ pc = "taking" /\ taken # <<>>
  /\ pc' = "ended"
  /\ UNCHANGED <<ask, taken, text, rp, emitted, g, stop, finish>>

StepFails ==
  /\ "step" \in Faults /\ pc = "taking"
  /\ pc' = "failed"
  /\ UNCHANGED <<ask, taken, text, rp, emitted, g, stop, finish>>

-----------------------------------------------------------------------------
(* The end: job_end *)

HasCalls(h) == \E i \in DOMAIN h.parts : h.parts[i].kind = "call"

\* chat_finish, anthropic_stop_reason, responses_status
FinishReason(h) ==
  CASE ask.api = "chat" /\ HasCalls(h) /\ finish = "stop" -> "tool_calls"
    [] ask.api = "messages" /\ finish = "length" -> "max_tokens"
    [] ask.api = "messages" /\ finish = "stop" /\ stop # 0 -> "stop_sequence"
    [] ask.api = "messages" /\ finish = "stop" /\ stop = 0 -> IF HasCalls(h) THEN "tool_use" ELSE "end_turn"
    [] ask.api = "responses" -> IF finish = "length" THEN "incomplete" ELSE "completed"
    [] OTHER -> finish

\* parts_text
Joined(ps, kind) == FlattenSeq([i \in DOMAIN ps |-> IF ps[i].kind = kind THEN ps[i].data ELSE <<>>])
CallsOf(ps) == FlattenSeq([i \in DOMAIN ps |-> IF ps[i].kind = "call" THEN <<ps[i].data>> ELSE <<>>])
Items(ps) == [i \in DOMAIN ps |-> [kind |-> ps[i].kind, data |-> ps[i].data]]

\* What a reply says, in the shape of its API: what response_body writes, and
\* what a Responses stream repeats at its end.
Body(ps) ==
  CASE ask.api \in {"messages", "responses"} -> Items(ps)
    [] ask.api = "chat" /\ ask.parse -> <<Joined(ps, "text"), Joined(ps, "reasoning"), CallsOf(ps)>>
    [] OTHER -> <<text>>

\* stream_end
Closing(h) ==
  CASE ask.api = "messages" -> <<Event("message_delta", 0, FinishReason(h), <<>>), Event("message_stop", 0, "", <<>>)>>
    [] ask.api = "responses" -> <<Event("response.end", 0, FinishReason(h), Body(h.parts))>>
    [] OTHER -> <<Event("finish", 0, FinishReason(h), <<>>), Event("[DONE]", 0, "", <<>>)>>

\* The rest of the reply.
ReadToEnd(short) ==
  CASE ask.api # "completions" -> reply_ready(text, TRUE, short)
    [] ask.api = "completions" /\ ask.stream -> stream_ready(text, TRUE)
    [] OTHER -> Unchanged

Ended(h) ==
  Send(h, CASE h.failed -> <<Event("error", 0, "", <<>>)>>
            [] ~h.failed /\ ask.stream -> Closing(h)
            [] OTHER -> <<Event("body", 0, FinishReason(h), Body(h.parts))>>)

\* job_end: an error, the end of a stream or the whole body.
End(short) ==
  LET rest == ReadToEnd(short)
  IN  /\ pc = "ended" /\ pc' = "done"
      /\ Becomes([rest EXCEPT !.g = Ended(close_part(@))])
      /\ UNCHANGED <<ask, taken, text, stop, finish>>

EndFailed ==
  /\ pc = "failed"
  /\ g' = Send(g, <<Event("error", 0, "", <<>>)>>)
  /\ pc' = "done"
  /\ UNCHANGED <<ask, taken, text, rp, emitted, stop, finish>>

Terminated == pc = "done" /\ UNCHANGED vars

MayBeShort == IF "memory" \in Faults THEN BOOLEAN ELSE {FALSE}

Next ==
  \/ \E t \in Tokens(ask), short \in MayBeShort : Take(t, short)
  \/ TakeLast \/ RunOut \/ StepFails
  \/ \E short \in MayBeShort : End(short)
  \/ EndFailed \/ Terminated

Spec == Init /\ [][Next]_vars

-----------------------------------------------------------------------------
(* What a client reads from the events *)

OpenTypes == {"content_block_start", "output_item.added"}
DeltaTypes == {"chunk", "content_block_delta", "delta"}
CloseTypes == {"content_block_stop", "output_item.done"}
EndTypes == {"[DONE]", "message_stop", "response.end", "body", "error"}

Sent(types) == {n \in DOMAIN g.sent : g.sent[n].type \in types}
DeltasOf(kind) == {n \in Sent(DeltaTypes) : g.sent[n].kind = kind}
DeltasAt(i) == {n \in Sent(DeltaTypes) : g.sent[n].at = i}

\* What the events of W say, in their order: their data, or a call each.
Bytes(W) == FlattenSeq([n \in DOMAIN g.sent |-> IF n \in W THEN g.sent[n].data ELSE <<>>])
Each(W) == FlattenSeq([n \in DOMAIN g.sent |-> IF n \in W THEN <<g.sent[n].data>> ELSE <<>>])

Opens(i) == CHOOSE n \in Sent(OpenTypes) : g.sent[n].at = i

ReadBack ==
  CASE ask.api \in {"messages", "responses"} ->
         [i \in 1 .. Cardinality(Sent(OpenTypes)) |-> [kind |-> g.sent[Opens(i)].kind, data |-> Bytes(DeltasAt(i))]]
    [] ask.api = "chat" /\ ask.parse -> <<Bytes(DeltasOf("text")), Bytes(DeltasOf("reasoning")), Each(DeltasOf("call"))>>
    [] OTHER -> <<Bytes(DeltasOf("text"))>>

\* The parts of the text read at once, as for a body.
WholeParts ==
  LET says == IF ask.parse THEN vitna_reply_feed(vitna_reply_init, text, TRUE).says ELSE Says("text", text)
  IN  Parts([parts |-> <<>>, failed |-> FALSE, sent |-> <<>>], says, FALSE).parts

EndedWell == pc = "done" /\ Last(g.sent).type # "error"

-----------------------------------------------------------------------------
(* Properties *)

\* However the reply's bytes came in tokens, what a client puts together from
\* a stream's events is what the body would say: nothing is sent that a later
\* byte takes back, and nothing held back is lost (chat.h:95-103,
\* api.c:1292-1295).  A Responses stream says each part again when it is done,
\* and all of them at its end, and says the same (api.c:1124-1158).
StreamedAsWhole ==
  /\ EndedWell /\ ask.stream => ReadBack = Body(WholeParts)
  /\ \A n \in DOMAIN g.sent :
       LET e == g.sent[n] IN
       /\ e.type \in {"part.done", "content_part.done", "output_item.done"} =>
            e.data = Bytes({m \in DeltasAt(e.at) : m < n})
       /\ e.type = "response.end" => e.data = ReadBack

Generated(n) == ask.prefill \o FlattenSeq(First(taken, n))

StopsIn(s) ==
  {h \in (DOMAIN ask.stops) \X (Len(ask.prefill) .. Len(s)) : HasAt(s, h[2], ask.stops[h[1]])}

\* The text is what was generated up to the first place a stop sequence
\* begins in it, in what the model wrote, and no token is taken after; of
\* two that begin there, the first asked is the one named
\* (api.c:1256-1258,1441-1446).
CutAtFirstStop ==
  LET all == Generated(Len(taken))
      hits == StopsIn(all)
  IN  IF hits = {} THEN text = all /\ stop = 0
      ELSE LET at == Min({h[2] : h \in hits}) IN
           /\ text = First(all, at)
           /\ stop = Min({h[1] : h \in {k \in hits : k[2] = at}})
           /\ StopsIn(Generated(Len(taken) - 1)) = {}

\* A character that a token cuts is never cut between two events
\* (api.c:1292-1294).
EndsInside(s) ==
  \E i \in DOMAIN s :
    /\ s[i] \in DOMAIN Needs /\ Len(s) - i + 1 < Needs[s[i]]
    /\ \A j \in i + 1 .. Len(s) : s[j] = Cont

CharactersWhole ==
  \A n \in 2 .. Len(g.sent) :
    {g.sent[n - 1].type, g.sent[n].type} \subseteq DeltaTypes /\ EndsInside(g.sent[n - 1].data)
      => Head(g.sent[n].data) # Cont

\* A stream's parts open one after another, each when the one before it is
\* closed, and every delta is of the part that is open; the last event, and
\* no other, ends the stream, and after an error there is none of those that
\* would make it pass for whole (api.c:1220-1223).
EventsNest ==
  LET s == g.sent
      parted == ask.api \in {"messages", "responses"}
      opens(n) == {o \in 1 .. n : s[o].type \in OpenTypes}
      closes(n) == {c \in 1 .. n : s[c].type \in CloseTypes}
  IN  /\ \A n \in DOMAIN s :
           /\ s[n].type \in OpenTypes =>
                s[n].at = Cardinality(opens(n)) /\ Cardinality(closes(n)) = s[n].at - 1
           /\ s[n].type \in DeltaTypes \cup CloseTypes /\ parted =>
                s[n].at = Cardinality(opens(n)) /\ Cardinality(closes(n - 1)) = s[n].at - 1
           /\ s[n].type \in EndTypes <=> pc = "done" /\ n = Len(s)
           /\ s[n].type \in {"finish", "message_delta"} => n = Len(s) - 1 /\ EndedWell
      /\ EndedWell => Cardinality(opens(Len(s))) = Cardinality(closes(Len(s)))
=============================================================================
