---------------------------- MODULE HttpRequest ----------------------------
(***************************************************************************)
(* One connection of the HTTP server from the first byte it sends to the   *)
(* close: read_request and handle_client of engine/src/server.c, and the   *)
(* routes of vitna_api_handle (engine/src/api.c).  The request's bytes     *)
(* arrive in pieces of any size, the headers' end and body bytes together  *)
(* in one or a CRLF in two; the client may fall silent, memory may run out,*)
(* and the answer may stop going out.                                      *)
(*                                                                         *)
(* A symbol stands for one byte or for a word of the request.  A request   *)
(* whose first line holds a NUL is not among them: the pointer the code    *)
(* makes of strstr's NULL then has no meaning.                             *)
(***************************************************************************)
EXTENDS Integers, Sequences, FiniteSets, SequencesExt

CONSTANTS
  Asks,        \* the requests sent, as Wire writes them
  Serving,     \* what is served: some of "nothing", "text", "embeddings"
  FirstCap,    \* the buffer's first size: 8192 in the code
  MaxHeader,   \* MAX_HEADER_BYTES: FirstCap doubled three times
  MaxBody,     \* MAX_BODY_BYTES
  HttpFaults   \* some of "silence", "memory", "send"

HttpAssumption == FirstCap \in Nat \ {0} /\ MaxHeader = 8 * FirstCap /\ MaxBody \in Nat

VARIABLES
  ask,      \* the request, which the client knows
  serves,   \* what the server serves
  len, cap, \* how much of it has arrived; what the buffer holds, without its NUL
  room,     \* the bytes allocated
  scan,     \* scan_from
  req,      \* what has been read of it: [end, length, method, path]
  left,     \* the pieces of the answer still to be written
  head,     \* head_sink_t: [on, seen, body]
  got,      \* the symbols the client has been sent
  failed,   \* something failed: a recv, a send or an allocation
  at        \* where handle_client is

vars == <<ask, serves, len, cap, room, scan, req, left, head, got, failed, at>>

CRLF == <<"CR", "LF">>
Digits == <<"0", "1", "2", "3", "4", "5", "6", "7", "8", "9">>
White == {" ", "CR", "LF"}

-----------------------------------------------------------------------------
(* The client: a request is [method, path, fields, body], a field <<name, value>>. *)

HeadOf(r) ==
  r.method \o <<" ">> \o r.path \o CRLF \o FlattenSeq([i \in DOMAIN r.fields |-> <<r.fields[i][1], ":", " ">> \o r.fields[i][2] \o CRLF]) \o CRLF

Wire(r) == HeadOf(r) \o r.body

sent == Wire(ask)
buf == SubSeq(sent, 1, len)

-----------------------------------------------------------------------------
(* Reading the headers. *)

Least(S) == CHOOSE i \in S : \A j \in S : i <= j

\* The end of the headers in the bytes after the first `from`, or 0.
EndFrom(b, from) ==
  LET found == {i \in from .. Len(b) - 4 : SubSeq(b, i + 1, i + 4) = CRLF \o CRLF}
  IN  IF found = {} THEN 0 ELSE Least(found) + 4

\* Mutant: looks again only at what has just arrived.
AfterAll(n) == n

\* The blank line may have begun in the last three bytes.
ScanFrom(n) == IF n >= 3 THEN n - 3 ELSE 0

\* sscanf's words.
WordAt(b, i) == i \in DOMAIN b /\ b[i] \notin White \cup {"NUL"} /\ (i > 1 => b[i - 1] \in White)
Words(b) ==
  LET begin == {i \in DOMAIN b : WordAt(b, i) /\ \A j \in 1 .. i : b[j] # "NUL"}
  IN  IF Cardinality(begin) < 2 THEN <<>> ELSE LET f == Least(begin) IN <<b[f], b[Least(begin \ {f})]>>

\* header_is: letters of either case.
header_is(name, want) == name \in {<<want>>, <<IF want = "content-length" THEN "Content-Length" ELSE want>>}

\* strtoll, which goes past a line's end to find a digit; -1 without one.
RECURSIVE Digit(_, _, _)
Digit(b, i, n) ==
  IF i \in DOMAIN b /\ b[i] \in ToSet(Digits) THEN Digit(b, i + 1, 10 * (IF n < 0 THEN 0 ELSE n) + (CHOOSE d \in 1 .. 10 : Digits[d] = b[i]) - 1)
  ELSE n
strtoll(b, from) ==
  LET past == {i \in from .. Len(b) : b[i] \notin White}
      first == Least(past)
  IN  CASE past = {} -> -1
        [] past # {} /\ b[first] = "-" -> IF Digit(b, first + 1, -1) <= 0 THEN Digit(b, first + 1, -1) ELSE -Digit(b, first + 1, -1)
        [] OTHER -> Digit(b, first, -1)

\* The field lines from the one at `line` on: the status they are refused with, or 0.
RECURSIVE Fields(_, _, _, _)
Fields(b, line, end, h) ==
  IF line >= end - 1 THEN h
  ELSE LET ends == {i \in line .. Len(b) - 1 : b[i] = "CR" /\ b[i + 1] = "LF" /\ \A j \in line .. i : b[j] # "NUL"}
           eol == Least(ends)
           colons == {i \in line .. eol - 1 : b[i] = ":"}
           name == SubSeq(b, line, Least(colons) - 1)
           v == Least({i \in Least(colons) + 1 .. eol : i = eol \/ b[i] # " "})
           On(g) == Fields(b, eol + 2, end, g)
       IN  IF ends = {} THEN [h EXCEPT !.status = 400]
           ELSE IF colons = {} THEN On(h)
           ELSE CASE header_is(name, "content-length") ->
                       LET n == strtoll(b, v) IN IF n < 0 THEN [h EXCEPT !.status = 400] ELSE On([h EXCEPT !.length = n])
                  [] header_is(name, "transfer-encoding") -> [h EXCEPT !.status = 411]
                  [] header_is(name, "expect") -> On([h EXCEPT !.go_on = b[v] = "100-continue"])
                  [] OTHER -> On(h)

\* The head's first lines in the bytes b that have arrived.
HeadRead(b, end) ==
  LET words == Words(b)
      first == Least({i \in 1 .. end - 1 : b[i] = "CR" /\ b[i + 1] = "LF"}) + 2
      h == Fields(b, first, end, [status |-> 0, length |-> 0, go_on |-> FALSE])
  IN  IF words = <<>> THEN [status |-> 400, length |-> 0, go_on |-> FALSE]
      ELSE IF h.status = 0 /\ h.length > MaxBody THEN [h EXCEPT !.status = 413] ELSE h

-----------------------------------------------------------------------------
(* The answer: a head and a body, written one after the other. *)

Status == [s \in {200, 400, 404, 405, 408, 411, 413, 431, 500, 501} |-> ToString(s)]

\* respond_as and send_simple: a body is the shape it has, or what was asked.
Respond(status, body) == <<<<Status[status]>> \o CRLF \o <<"type">> \o CRLF \o CRLF, body>>

Openai == {"/v1/chat/completions", "/v1/completions", "/v1/responses", "/v1/responses/input_tokens"}
Anthropic == {"/v1/messages", "/v1/messages/count_tokens"}
Generates == Openai \cup Anthropic

\* error_json, and anthropic_error_json on Anthropic's routes.
ErrorAs(route) == IF route \in Anthropic THEN <<"anthropic_error">> ELSE <<"error">>

\* vitna_api_handle: a route that reads its body answers with what it read.
Answer(what, method, route, body) ==
  LET Error(status) == Respond(status, ErrorAs(route))
      takes == route \in Generates \cup {"/v1/embeddings"}
  IN  CASE method = "GET" /\ route \in {"/", "/chat"} -> Respond(200, <<"page">>)
        [] method = "GET" /\ route \in {"/health", "/v1/health"} -> Respond(200, <<"ok", what>>)
        [] method = "GET" /\ route = "/v1/models" -> Respond(200, IF what = "nothing" THEN <<"[]">> ELSE <<"[model]">>)
        [] takes /\ method # "POST" -> Error(405)
        [] takes /\ method = "POST" ->
             CASE what = "nothing" -> Error(501)
               [] route = "/v1/embeddings" /\ what # "embeddings" -> Error(404)
               [] route # "/v1/embeddings" /\ what = "embeddings" -> Error(404)
               [] OTHER -> Respond(200, <<route>> \o body)
        [] OTHER -> Error(404)

\* head_write: h and how many of p's symbols go out.
RECURSIVE head_write(_, _, _)
head_write(h, p, i) ==
  IF i = Len(p) \/ h.body THEN <<h, i>>
  ELSE LET seen == IF p[i + 1] = (CRLF \o CRLF)[h.seen + 1] THEN h.seen + 1 ELSE IF p[i + 1] = "CR" THEN 1 ELSE 0
       IN  head_write([h EXCEPT !.seen = seen, !.body = seen = 4], p, i + 1)

-----------------------------------------------------------------------------
(* Steps. *)

Init ==
  /\ ask \in Asks /\ serves \in Serving
  /\ len = 0 /\ cap = FirstCap /\ room = FirstCap + 1 /\ scan = 0
  /\ req = [end |-> 0, length |-> 0, method |-> "", path |-> ""]
  /\ left = <<>> /\ head = [on |-> FALSE, seen |-> 0, body |-> FALSE]
  /\ got = <<>> /\ failed = FALSE /\ at = "begin"

Keep == UNCHANGED <<ask, serves>>

\* send_simple, or nothing at all for a client that sent nothing.
Refuse(status) ==
  /\ left' = Respond(status, <<"error">>)
  /\ at' = "write"
  /\ UNCHANGED <<req, head>>

\* The first buffer.
Begin ==
  /\ at = "begin"
  /\ \/ at' = "head" /\ UNCHANGED <<left, req, head, failed>>
     \/ "memory" \in HttpFaults /\ failed' = TRUE /\ Refuse(500)
  /\ UNCHANGED <<len, cap, room, scan, got>> /\ Keep

\* recv: as much as there is room for and as has arrived, or nothing any more.
Receive(space, what) ==
  \/ \E n \in 1 .. Len(sent) - len : n <= space /\ len' = len + n /\ UNCHANGED <<at, left, req, head, failed>>
  \/ /\ "silence" \in HttpFaults \/ len = Len(sent)
     /\ failed' = (failed \/ len < Len(sent))
     /\ UNCHANGED len
     /\ IF what = 0 THEN at' = "close" /\ UNCHANGED <<left, req, head>> ELSE Refuse(what)

\* One turn of the loop over the headers.
ReadHead ==
  /\ at = "head"
  /\ EndFrom(buf, scan) = 0
  /\ scan' = ScanFrom(len)
  /\ \/ len >= MaxHeader /\ Refuse(431) /\ UNCHANGED <<len, cap, room, failed>>
     \/ /\ len < MaxHeader
        /\ cap' = IF len = cap THEN 2 * cap ELSE cap
        /\ room' = IF len = cap THEN cap' + 1 ELSE room
        /\ Receive(cap' - len, IF len = 0 THEN 0 ELSE 408)
     \/ /\ len < MaxHeader /\ len = cap /\ "memory" \in HttpFaults
        /\ failed' = TRUE /\ Refuse(500) /\ UNCHANGED <<len, cap, room>>
  /\ UNCHANGED got /\ Keep

\* The headers end: they are read, and the body given room.
Parse ==
  /\ at = "head"
  /\ EndFrom(buf, scan) # 0
  /\ LET end == EndFrom(buf, scan)
         h == HeadRead(buf, end)
         need == end + h.length
         grows == need + 1 > cap
     IN  \/ h.status # 0 /\ Refuse(h.status) /\ UNCHANGED <<cap, room, got, failed>>
         \/ /\ h.status = 0
            /\ got' = IF need > len /\ h.go_on THEN Append(got, "100") ELSE got
            /\ \/ /\ req' = [end |-> end, length |-> h.length, method |-> Words(buf)[1], path |-> Words(buf)[2]]
                  /\ room' = IF grows THEN need + 1 ELSE room
                  /\ cap' = IF grows THEN need ELSE cap
                  /\ at' = "body"
                  /\ UNCHANGED <<left, head, failed>>
               \/ grows /\ "memory" \in HttpFaults /\ failed' = TRUE /\ Refuse(500) /\ UNCHANGED <<cap, room>>
  /\ UNCHANGED <<len, scan>> /\ Keep

ReadBody ==
  /\ at = "body"
  /\ len < req.end + req.length
  /\ Receive(req.end + req.length - len, 408)
  /\ UNCHANGED <<cap, room, scan, got>> /\ Keep

\* vitna_api_handle with the request, a HEAD as a GET whose body is dropped.
Handle ==
  /\ at = "body"
  /\ len >= req.end + req.length
  /\ LET is_head == req.method = "HEAD"
     IN  /\ left' = Answer(serves, IF is_head THEN "GET" ELSE req.method, req.path, SubSeq(buf, req.end + 1, req.end + req.length))
         /\ head' = [head EXCEPT !.on = is_head]
  /\ at' = "write"
  /\ UNCHANGED <<len, cap, room, scan, req, got, failed>> /\ Keep

\* A piece of the answer, whole or as much of it as went out before a send failed.
Write ==
  /\ at = "write"
  /\ left # <<>>
  /\ LET w == IF head.on THEN head_write(head, left[1], 0) ELSE <<head, Len(left[1])>>
         out == SubSeq(left[1], 1, w[2])
     IN  /\ head' = w[1]
         /\ \/ got' = got \o out /\ left' = Tail(left) /\ UNCHANGED failed
            \/ /\ "send" \in HttpFaults
               /\ \E n \in 0 .. Len(out) - 1 : got' = got \o SubSeq(out, 1, n)
               /\ left' = <<>> /\ failed' = TRUE
  /\ UNCHANGED <<len, cap, room, scan, req, at>> /\ Keep

\* The buffer is freed and the connection closed.
Close ==
  \/ /\ at = "close" \/ (at = "write" /\ left = <<>>)
     /\ at' = "closed"
     /\ UNCHANGED <<len, cap, room, scan, req, left, head, got, failed>> /\ Keep
  \/ at = "closed" /\ UNCHANGED vars

Next == Begin \/ ReadHead \/ Parse \/ ReadBody \/ Handle \/ Write \/ Close

Spec == Init /\ [][Next]_vars

-----------------------------------------------------------------------------
(* Properties *)

\* What the fields named so hold, by the request the client made.
Named(r, name) == {i \in DOMAIN r.fields : header_is(<<r.fields[i][1]>>, name)}
ToNumber(v) == Digit(v, 1, -1)

\* A request that reads the same wherever it is cut: a path on its line, a
\* length with its digits, one of each field.
Plain(r) ==
  /\ r.path # <<>>
  /\ \A n \in {"content-length", "transfer-encoding", "expect"} : Cardinality(Named(r, n)) <= 1
  /\ \A i \in Named(r, "content-length") : ToNumber(r.fields[i][2]) >= 0
  /\ "NUL" \notin ToSet(HeadOf(r))

LengthOf(r) ==
  IF Named(r, "content-length") = {} THEN 0 ELSE ToNumber(r.fields[Least(Named(r, "content-length"))][2])

\* The answer the whole request calls for.
Due(r) ==
  CASE Len(HeadOf(r)) > MaxHeader -> FlattenSeq(Respond(431, <<"error">>))
    [] Named(r, "transfer-encoding") # {} -> FlattenSeq(Respond(411, <<"error">>))
    [] LengthOf(r) > MaxBody -> FlattenSeq(Respond(413, <<"error">>))
    [] LengthOf(r) > Len(r.body) -> FlattenSeq(Respond(408, <<"error">>))
    [] r.method = <<"HEAD">> -> Answer(serves, "GET", r.path[1], <<>>)[1]
    [] OTHER -> FlattenSeq(Answer(serves, r.method[1], r.path[1], SubSeq(r.body, 1, LengthOf(r))))

\* However a request's bytes are cut into pieces, the client gets one answer,
\* the one its whole request calls for: a body of the length it gave and not a
\* byte of what follows it, and to HEAD the head GET has and no body.  No byte
\* lands outside the buffer, whatever the buffer was when it arrived
\* (server.c read_request, head_write, handle_client).
ServedAsSent ==
  /\ len < room /\ cap < room
  /\ at = "closed" /\ ~failed /\ Plain(ask) => (IF got # <<>> /\ got[1] = "100" THEN Tail(got) ELSE got) = Due(ask)
=============================================================================
