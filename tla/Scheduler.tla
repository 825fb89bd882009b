----------------------------- MODULE Scheduler ------------------------------
(***************************************************************************)
(* The requests that generate (engine/src/api.c): each connection's thread *)
(* queues its request as a job and sends on what the job's out collects    *)
(* (run_job); one scheduler thread lends the queue's jobs the sequences of *)
(* the model's cache, runs their prompts and then rounds of one token, and *)
(* the tokens drafted after it, for every job, and hands each back when it *)
(* ends.  One lock guards the queue, every out, and done and gone.         *)
(*                                                                         *)
(* An action is one holding of the lock, or what the scheduler does to a   *)
(* job between two holdings.  The model's cache is kept as the tokens whose*)
(* keys and values a sequence holds; what a row of logits gives is Gives of*)
(* the tokens before it, the request's own sampling state being as far     *)
(* along as the tokens are.  Text is one item a token, with no holding back*)
(* of what could begin a stop sequence.                                    *)
(***************************************************************************)
EXTENDS Integers, SequencesExt

CONSTANTS
  Requests,      \* the connections' threads, one request each
  NSeqs,         \* the sequences of the model's cache
  Asks,          \* what is asked: a prompt, the most new tokens, streamed or not
  Ctx,           \* the tokens a sequence can hold
  Tokens,
  Gives(_),      \* the token a context's logits give; NoToken when masks leave none
  Ends,          \* the tokens a reply ends with
  NoToken,
  NoAsk,
  PrefixCache,   \* vitna_api_set_prefix_cache
  Speculate,     \* the most tokens drafted at once
  PassRows,      \* vitna_llama_exact_max: the rows of one pass
  Piece, After,  \* a prompt's piece, and the least left after one
  FullAt,        \* the lengths at which a cached list must grow: 0, 64, 128, ...
  Faults         \* what may go wrong, of AllFaults

\* A step's error; one that loses the device; a client that hangs up; an out
\* or a text that cannot grow; a cached list that cannot; no thread.
AllFaults == {"step", "device", "hangup", "memory", "push", "thread"}

\* run_job answers every other request with a 400 before it queues.
ASSUME SchedulerAssumption ==
  /\ NSeqs \in Nat \ {0} /\ Ctx \in Nat /\ Speculate \in Nat
  /\ PassRows \in Nat \ {0} /\ Piece \in Nat \ {0} /\ After \in Nat \ {0}
  /\ FullAt \subseteq Nat
  /\ PrefixCache \in BOOLEAN /\ Faults \subseteq AllFaults
  /\ NoToken \notin Tokens /\ NoAsk \notin Asks /\ Ends \subseteq Tokens
  /\ \A a \in Asks : /\ a.ids \in Seq(Tokens) /\ Len(a.ids) >= 1
                     /\ a.max \in Nat /\ Len(a.ids) + a.max <= Ctx
                     /\ a.stream \in BOOLEAN
  /\ Asks # {}
  /\ \A n \in 0 .. Ctx : \A context \in [1 .. n -> Tokens] : Gives(context) \in Tokens \cup {NoToken}

Seqs == 1 .. NSeqs
NoSeq == 0

VARIABLES
  pc, ask, chunk, sent,     \* per connection: where it is, what it asked, the
                            \* items it is sending and those it has sent
  out, outok, done, gone,   \* per job, under the lock
  queue, stopping, lost,    \* under the lock
  sched,                    \* where the scheduler is
  running,                  \* the jobs with a sequence, in the order they got one
  answering,                \* jobs being refused, or the one being handed back
  decoding,                 \* a job was taking tokens when the prompts began
  taking,                   \* the round's jobs still to take their tokens
  job, reply, sinkFailed,   \* per job: the scheduler's part, the tokens taken,
                            \* and whether a write has failed
  cached, used, busy, clock,\* seqs: the cached lists, when last lent, lent now
  held,                     \* the model's cache: past tokens of each sequence
  device_lost               \* the GPU can run nothing more

conn == <<pc, ask, chunk, sent>>
shared == <<out, outok, done, gone, queue, stopping, lost>>
list == <<running, answering, decoding, taking>>
jobs == <<job, reply, sinkFailed>>
lists == <<cached, used, busy, clock>>
model == <<held, device_lost>>
vars == <<conn, shared, sched, list, jobs, lists, model>>

-----------------------------------------------------------------------------
Blank == [seq |-> NoSeq, begun |-> FALSE, ended |-> FALSE, prompting |-> FALSE,
          at |-> 0, ok |-> FALSE, t |-> NoToken, pass |-> <<>>, fed |-> 0, row |-> 0]

Init ==
  /\ pc = [r \in Requests |-> "idle"]
  /\ ask = [r \in Requests |-> NoAsk]
  /\ chunk = [r \in Requests |-> <<>>] /\ sent = [r \in Requests |-> <<>>]
  /\ out = [r \in Requests |-> <<>>] /\ outok = [r \in Requests |-> TRUE]
  /\ done = [r \in Requests |-> FALSE] /\ gone = [r \in Requests |-> FALSE]
  /\ queue = <<>> /\ stopping = FALSE /\ lost = FALSE
  /\ sched = "unborn"
  /\ running = <<>> /\ answering = <<>> /\ decoding = FALSE /\ taking = {}
  /\ job = [r \in Requests |-> Blank]
  /\ reply = [r \in Requests |-> <<>>]
  /\ sinkFailed = [r \in Requests |-> FALSE]
  /\ cached = [s \in Seqs |-> <<>>] /\ held = [s \in Seqs |-> <<>>]
  /\ used = [s \in Seqs |-> 0] /\ busy = {} /\ clock = 0
  /\ device_lost = FALSE

\* The scheduler keeps the lock while it lends.
LockFree == sched # "lending"

Fault(f) == IF f \in Faults THEN BOOLEAN ELSE {FALSE}

\* vitna_cond_signal(&j->cv), and (&api->work)
Woken(r) == [pc EXCEPT ![r] = IF @ = "asleep" THEN "awake" ELSE @]
SchedAsleep == sched \* Mutant: the signal is not sent.
SchedWoken == IF sched = "asleep" THEN "top" ELSE sched

\* sink_out through job_write: the items go to out, unless the client has
\* gone or out cannot grow; after a write that failed nothing is written.
Write(r, items) ==
  IF items = <<>> \/ sinkFailed[r] THEN UNCHANGED <<pc, out, outok, sinkFailed>>
  ELSE IF gone[r]
  THEN /\ sinkFailed' = [sinkFailed EXCEPT ![r] = TRUE]
       /\ UNCHANGED <<pc, out, outok>>
  ELSE \E full \in Fault("memory") :
         /\ out' = IF full THEN out ELSE [out EXCEPT ![r] = @ \o items]
         /\ outok' = [outok EXCEPT ![r] = ~full]
         /\ sinkFailed' = [sinkFailed EXCEPT ![r] = full]
         /\ pc' = Woken(r)

\* vitna_token_list_push of each token, whose answer nobody looks at: a token
\* that comes when the list is full and cannot grow is not in it, and the
\* next may be.  Those in dropped are the ones that do not get in.
Without(s, tokens, dropped) ==
  LET kept == SelectSeq([k \in DOMAIN tokens |-> k], LAMBDA k : k \notin dropped)
  IN  cached[s] \o [n \in DOMAIN kept |-> tokens[kept[n]]]

MayDrop(s, dropped) ==
  \A k \in dropped : Len(cached[s]) + Cardinality((1 .. k - 1) \ dropped) \in FullAt

Pushed(s, tokens) ==
  IF "push" \notin Faults THEN {cached[s] \o tokens}
  ELSE {Without(s, tokens, dropped) : dropped \in {D \in SUBSET DOMAIN tokens : MayDrop(s, D)}}

-----------------------------------------------------------------------------
(* run_job(): the connection's thread. *)

\* Refused under the lock that queues.
Refused(r, a, why) ==
  /\ ask' = [ask EXCEPT ![r] = a]
  /\ sent' = [sent EXCEPT ![r] = <<why>>]
  /\ pc' = [pc EXCEPT ![r] = "returned"]
  /\ UNCHANGED <<chunk, shared, sched, list, jobs, lists, model>>

Queued(r, a) ==
  /\ ask' = [ask EXCEPT ![r] = a]
  /\ queue' = Append(queue, r)
  /\ sched' = IF sched = "unborn" THEN "top" ELSE SchedWoken
  /\ pc' = [pc EXCEPT ![r] = "asleep"]
  /\ UNCHANGED <<chunk, sent, out, outok, done, gone, stopping, lost, list, jobs, lists, model>>

Ask(r, a) ==
  /\ pc[r] = "idle" /\ ~stopping /\ LockFree
  /\ \/ sched = "unborn" /\ "thread" \in Faults /\ Refused(r, a, "no thread")
     \/ lost /\ Refused(r, a, "lost")
     \/ ~lost /\ Queued(r, a)

\* What is in out goes to be sent; with nothing there the thread sleeps, or
\* frees the job once the scheduler is done with it.
Look(r) ==
  /\ pc[r] = "awake" /\ LockFree
  /\ \/ /\ out[r] = <<>> /\ outok[r] /\ ~done[r]
        /\ pc' = [pc EXCEPT ![r] = "asleep"]
        /\ UNCHANGED <<chunk, gone, out, outok, job>>
     \/ /\ out[r] = <<>> /\ outok[r] /\ done[r]
        /\ pc' = [pc EXCEPT ![r] = "returned"]
        /\ job' = [job EXCEPT ![r] = Blank]
        /\ UNCHANGED <<chunk, gone, out, outok>>
     \/ /\ out[r] # <<>> /\ outok[r]
        /\ chunk' = [chunk EXCEPT ![r] = out[r]]
        /\ out' = [out EXCEPT ![r] = <<>>]
        /\ pc' = [pc EXCEPT ![r] = "sending"]
        /\ UNCHANGED <<gone, outok, job>>
     \/ /\ ~outok[r]
        /\ gone' = [gone EXCEPT ![r] = TRUE]
        /\ out' = [out EXCEPT ![r] = <<>>]
        /\ outok' = [outok EXCEPT ![r] = TRUE]
        /\ UNCHANGED <<pc, chunk, job>>
  /\ UNCHANGED <<ask, sent, done, queue, stopping, lost, sched, list, reply, sinkFailed, lists, model>>

\* The chunk is sent without the lock, or the client has hung up, which the
\* thread notes with the lock.  Once it has, nothing more is sent to it.
Send(r) ==
  /\ pc[r] = "sending" /\ LockFree
  /\ \E hangup \in Fault("hangup") :
       /\ sent' = [sent EXCEPT ![r] = IF gone[r] \/ hangup THEN @ ELSE @ \o chunk[r]]
       /\ gone' = [gone EXCEPT ![r] = @ \/ hangup]
  /\ chunk' = [chunk EXCEPT ![r] = <<>>]
  /\ pc' = [pc EXCEPT ![r] = "awake"]
  /\ UNCHANGED <<ask, out, outok, done, queue, stopping, lost, sched, list, jobs, lists, model>>

-----------------------------------------------------------------------------
(* scheduler(): sequences are lent to the queue's jobs, oldest first. *)

Top ==
  /\ sched = "top"
  /\ sched' = IF stopping THEN "exited"
              ELSE IF running = <<>> /\ queue = <<>> THEN "asleep" ELSE "lending"
  /\ UNCHANGED <<conn, shared, list, jobs, lists, model>>

\* The tokens of a prompt that sequence s holds and a request can reuse: the
\* longest prefix, the last token always being run again.
Reuse(ids, s) ==
  LET limit == Min({Len(ids) - 1, Len(cached[s])})
  IN  IF PrefixCache
      THEN Max({n \in 0 .. limit : SubSeq(ids, 1, n) = SubSeq(cached[s], 1, n)})
      ELSE 0

\* Mutant: a sequence that is lent can be lent again.
IsPickBusy(ids, s) ==
  /\ s \in Seqs
  /\ \A q \in Seqs \ {s} :
       \/ Reuse(ids, s) > Reuse(ids, q)
       \/ /\ Reuse(ids, s) = Reuse(ids, q)
          /\ used[s] < used[q] \/ (used[s] = used[q] /\ s < q)

\* pick_seq: the free sequence that holds most of the prompt, of those the
\* one lent longest ago, of those the first.
IsPick(ids, s) ==
  /\ s \in Seqs \ busy
  /\ \A q \in Seqs \ (busy \cup {s}) :
       \/ Reuse(ids, s) > Reuse(ids, q)
       \/ /\ Reuse(ids, s) = Reuse(ids, q)
          /\ used[s] < used[q] \/ (used[s] = used[q] /\ s < q)

Lend ==
  /\ sched = "lending" /\ queue # <<>>
  /\ \E s \in Seqs :
       /\ IsPick(ask[Head(queue)].ids, s)
       /\ job' = [job EXCEPT ![Head(queue)].seq = s]
       /\ busy' = busy \cup {s}
       /\ clock' = clock + 1
       /\ used' = [used EXCEPT ![s] = clock + 1]
  /\ running' = Append(running, Head(queue))
  /\ queue' = Tail(queue)
  /\ UNCHANGED <<conn, out, outok, done, gone, stopping, lost, sched, answering, decoding, taking,
                 reply, sinkFailed, cached, model>>

Lent ==
  /\ sched = "lending" /\ (queue = <<>> \/ Seqs = busy)
  /\ sched' = "begin"
  /\ UNCHANGED <<conn, shared, list, jobs, lists, model>>

-----------------------------------------------------------------------------
(* Each job lent a sequence begins, the prompts run, and then a round. *)

\* r is the first of running that is in S.
First(r, S) ==
  \E k \in 1 .. Len(running) :
    running[k] = r /\ r \in S /\ \A m \in 1 .. k - 1 : running[m] \notin S

NotBegun == {r \in Range(running) : ~job[r].begun}
Prompting == {r \in Range(running) : job[r].prompting /\ ~job[r].ended}
LiveSet == {r \in Range(running) : ~job[r].prompting /\ ~job[r].ended}
Ended == {r \in Range(running) : job[r].ended}

\* job_begin: the stream opens, and the sequence keeps what can be reused.
Begin(r) ==
  LET s == job[r].seq
      reuse == Reuse(ask[r].ids, s)
  IN  /\ sched = "begin" /\ First(r, NotBegun)
      /\ Write(r, IF ask[r].stream THEN <<"open">> ELSE <<>>)
      /\ held' = [held EXCEPT ![s] = SubSeq(@, 1, Min({reuse, Len(@)}))]
      /\ cached' = [cached EXCEPT ![s] = SubSeq(@, 1, reuse)]
      /\ job' = [job EXCEPT ![r] = [@ EXCEPT !.begun = TRUE, !.prompting = TRUE,
                                             !.at = reuse, !.ok = TRUE]]
      /\ UNCHANGED <<ask, chunk, sent, done, gone, queue, stopping, lost, sched, list, reply,
                     used, busy, clock, device_lost>>

Begun ==
  /\ sched = "begin" /\ NotBegun = {}
  /\ decoding' = (LiveSet # {})
  /\ sched' = "prompts"
  /\ UNCHANGED <<conn, shared, running, answering, taking, jobs, lists, model>>

\* take_token, from the logits a context gives.
Goes(r, u) == u \notin Ends \cup {NoToken} /\ Len(reply[r]) + 1 < ask[r].max

TakeToken(r, u) ==
  /\ reply' = [reply EXCEPT ![r] = IF u = NoToken THEN @ ELSE Append(@, u)]
  /\ Write(r, IF ask[r].stream /\ u \notin Ends \cup {NoToken} THEN <<u>> ELSE <<>>)

\* What runs of n tokens or rows: all, or those before a step that fails,
\* which may lose the device.
MayRun(n) == IF Faults \cap {"step", "device"} = {} THEN {n} ELSE 0 .. n

DeviceAfter(failed) ==
  device_lost' \in IF ~failed THEN {device_lost}
                   ELSE {b \in BOOLEAN : (b => "device" \in Faults) /\ (~b => "step" \in Faults)}

\* job_prompt: the whole prompt, or a piece of it.
PieceOf(left) == IF decoding /\ left >= Piece + After THEN Piece ELSE left

Prompt(r) ==
  LET j == job[r]
      ids == ask[r].ids
      n == PieceOf(Len(ids) - j.at)
      last == n = Len(ids) - j.at
      none == ask[r].max = 0 \/ sinkFailed[r]
  IN  /\ sched = "prompts" /\ ~device_lost /\ First(r, Prompting)
      /\ \E ran \in MayRun(n) :
           LET tokens == SubSeq(ids, j.at + 1, j.at + ran)
               context == held[j.seq] \o tokens
               u == Gives(context)
           IN  /\ held' = [held EXCEPT ![j.seq] = context]
               /\ \E kept \in Pushed(j.seq, tokens) : cached' = [cached EXCEPT ![j.seq] = kept]
               /\ DeviceAfter(ran < n)
               /\ \/ /\ ran < n
                     /\ job' = [job EXCEPT ![r] = [@ EXCEPT !.at = j.at + ran, !.ok = FALSE,
                                                            !.prompting = FALSE, !.ended = TRUE]]
                     /\ UNCHANGED <<reply, pc, out, outok, sinkFailed>>
                  \/ /\ ran = n /\ ~last
                     /\ job' = [job EXCEPT ![r].at = j.at + ran]
                     /\ UNCHANGED <<reply, pc, out, outok, sinkFailed>>
                  \/ /\ ran = n /\ last /\ none
                     /\ job' = [job EXCEPT ![r] = [@ EXCEPT !.at = j.at + ran,
                                                            !.prompting = FALSE, !.ended = TRUE]]
                     /\ UNCHANGED <<reply, pc, out, outok, sinkFailed>>
                  \/ /\ ran = n /\ last /\ ~none
                     /\ TakeToken(r, u)
                     /\ job' = [job EXCEPT ![r] = [@ EXCEPT !.at = j.at + ran, !.t = u,
                                                            !.prompting = FALSE, !.ended = ~Goes(r, u)]]
      /\ sched' = IF decoding THEN "round" ELSE "prompts"
      /\ UNCHANGED <<ask, chunk, sent, done, gone, queue, stopping, lost, list, used, busy, clock>>

Prompted ==
  /\ sched = "prompts"
  /\ device_lost \/ Prompting = {}
  /\ sched' = "round"
  /\ UNCHANGED <<conn, shared, list, jobs, lists, model>>

-----------------------------------------------------------------------------
(* run_round(): a pass for every live job, its next token and drafts. *)

Spare ==
  LET n == Cardinality(LiveSet)
  IN  IF n = 1 THEN Speculate ELSE ((n + PassRows - 1) \div PassRows) * PassRows - n

DraftMax(r) ==
  Min({Speculate, ask[r].max - Len(reply[r]) - 1, Max({0, Ctx - Len(held[job[r].seq]) - 1})})

\* What the drafter may propose: any tokens, as the text has them, or none.
Passes(r) == {<<job[r].t>> \o draft : draft \in UNION {[1 .. d -> Tokens] : d \in 0 .. DraftMax(r)}}

Rounds ==
  {pass \in [LiveSet -> UNION {Passes(r) : r \in LiveSet}] :
     /\ \A r \in LiveSet : pass[r] \in Passes(r)
     /\ MapThenSumSet(LAMBDA r : Len(pass[r]) - 1, LiveSet) <= Spare}

\* vitna_llama_step_rows: of each pass the rows before one that fails run.
Step ==
  /\ sched = "round" /\ ~device_lost /\ LiveSet # {}
  /\ \E pass \in Rounds :
     \E fed \in {f \in [LiveSet -> 0 .. Speculate + 1] : \A r \in LiveSet : f[r] \in MayRun(Len(pass[r]))} :
       /\ job' = [r \in Requests |-> IF r \in LiveSet
                                     THEN [job[r] EXCEPT !.pass = pass[r], !.fed = fed[r]]
                                     ELSE job[r]]
       /\ held' = [s \in Seqs |->
                     IF \E r \in LiveSet : job[r].seq = s
                     THEN LET r == CHOOSE r \in LiveSet : job[r].seq = s
                          IN  held[s] \o SubSeq(pass[r], 1, fed[r])
                     ELSE held[s]]
       /\ DeviceAfter(\E r \in LiveSet : fed[r] < Len(pass[r]))
  /\ taking' = LiveSet
  /\ sched' = "take"
  /\ UNCHANGED <<conn, shared, running, answering, decoding, reply, sinkFailed, lists>>

AfterRound == IF device_lost THEN "lose" ELSE "reap"

NoStep ==
  /\ sched = "round" /\ (device_lost \/ LiveSet = {})
  /\ sched' = AfterRound
  /\ UNCHANGED <<conn, shared, list, jobs, lists, model>>

-----------------------------------------------------------------------------
(* job_take(), of the round's jobs in any order: on several threads the     *)
(* pool's workers take them at once, each job's on one thread.              *)

Took(r) ==
  /\ taking' = taking \ {r}
  /\ sched' = IF taking' = {} THEN AfterRound ELSE "take"

\* Mutant: the rows of the drafts not taken stay in the model's cache.
KeepDrafts(r, keep) ==
  LET j == job[r]
  IN  /\ held' = held
      /\ \E kept \in Pushed(j.seq, SubSeq(j.pass, 1, keep)) : cached' = [cached EXCEPT ![j.seq] = kept]

\* The sequence keeps the first keep tokens of the pass.
Keep(r, keep) ==
  LET j == job[r]
  IN  /\ held' = [held EXCEPT ![j.seq] = SubSeq(@, 1, Len(@) - Len(j.pass) + keep)]
      /\ \E kept \in Pushed(j.seq, SubSeq(j.pass, 1, keep)) : cached' = [cached EXCEPT ![j.seq] = kept]

Over(j, t, ended) == [j EXCEPT !.t = t, !.ended = ended, !.pass = <<>>, !.fed = 0, !.row = 0]

TakeFails(r) ==
  LET j == job[r]
  IN  /\ j.fed < Len(j.pass)
      /\ \E kept \in Pushed(j.seq, SubSeq(j.pass, 1, j.fed)) : cached' = [cached EXCEPT ![j.seq] = kept]
      /\ job' = [job EXCEPT ![r] = [Over(j, j.t, TRUE) EXCEPT !.ok = FALSE]]
      /\ Took(r)
      /\ UNCHANGED <<pc, out, outok, reply, sinkFailed, held>>

TakeStops(r) ==
  LET j == job[r]
  IN  /\ j.fed = Len(j.pass) /\ sinkFailed[r]
      /\ Keep(r, j.row + 1)
      /\ job' = [job EXCEPT ![r] = Over(j, j.t, TRUE)]
      /\ Took(r)
      /\ UNCHANGED <<pc, out, outok, reply, sinkFailed>>

\* Mutant: the next row serves whatever was taken.
AgreesAlways(j, u) == j.row + 2 <= Len(j.pass)

\* Row j.row's logits are those after the pass's tokens up to it.  The next
\* row serves when its token is the one taken.
Agrees(j, u) == j.row + 2 <= Len(j.pass) /\ u = j.pass[j.row + 2]

TakeRow(r) ==
  LET j == job[r]
      mine == held[j.seq]
      u == Gives(SubSeq(mine, 1, Len(mine) - Len(j.pass) + j.row + 1))
  IN  /\ j.fed = Len(j.pass) /\ ~sinkFailed[r]
      /\ TakeToken(r, u)
      /\ IF Goes(r, u) /\ Agrees(j, u)
         THEN /\ job' = [job EXCEPT ![r].row = @ + 1]
              /\ UNCHANGED <<held, cached, taking, sched>>
         ELSE /\ Keep(r, j.row + 1)
              /\ job' = [job EXCEPT ![r] = Over(j, u, ~Goes(r, u) \/ (Len(j.pass) > 1 /\ sinkFailed'[r]))]
              /\ Took(r)

Take(r) ==
  /\ sched = "take" /\ r \in taking
  /\ TakeFails(r) \/ TakeStops(r) \/ TakeRow(r)
  /\ UNCHANGED <<ask, chunk, sent, done, gone, queue, stopping, lost, running, answering, decoding,
                 used, busy, clock, device_lost>>

-----------------------------------------------------------------------------
(* lose(): the device is lost, so every job ends with an error. *)

\* Mutant: the jobs still running end as they are.
LoseAsIs ==
  /\ sched = "lose"
  /\ lost' = TRUE
  /\ queue' = <<>> /\ answering' = queue
  /\ job' = [r \in Requests |-> IF r \in Range(running) /\ ~job[r].ended
                                THEN [job[r] EXCEPT !.ended = TRUE] ELSE job[r]]
  /\ sched' = IF queue = <<>> THEN "reap" ELSE "refuse"
  /\ UNCHANGED <<conn, out, outok, done, gone, stopping, running, decoding, taking,
                 reply, sinkFailed, lists, model>>

Lose ==
  /\ sched = "lose"
  /\ lost' = TRUE
  /\ queue' = <<>> /\ answering' = queue
  /\ job' = [r \in Requests |-> IF r \in Range(running) /\ ~job[r].ended
                                THEN [job[r] EXCEPT !.ok = FALSE, !.ended = TRUE] ELSE job[r]]
  /\ sched' = IF queue = <<>> THEN "reap" ELSE "refuse"
  /\ UNCHANGED <<conn, out, outok, done, gone, stopping, running, decoding, taking,
                 reply, sinkFailed, lists, model>>

Refuse(r) ==
  /\ sched = "refuse" /\ r = Head(answering)
  /\ Write(r, <<"lost">>)
  /\ sched' = "refused"
  /\ UNCHANGED <<ask, chunk, sent, done, gone, queue, stopping, lost, list, job, reply, lists, model>>

\* Mutant: nobody is told.
DoneQuietly(r) ==
  /\ done' = [done EXCEPT ![r] = TRUE]
  /\ UNCHANGED pc

Done(r) ==
  /\ done' = [done EXCEPT ![r] = TRUE]
  /\ pc' = Woken(r)

HasRefused(r) ==
  /\ sched = "refused" /\ r = Head(answering)
  /\ Done(r)
  /\ answering' = Tail(answering)
  /\ sched' = IF Len(answering) = 1 THEN "reap" ELSE "refuse"
  /\ UNCHANGED <<ask, chunk, sent, out, outok, gone, queue, stopping, lost, running, decoding, taking,
                 jobs, lists, model>>

-----------------------------------------------------------------------------
(* The jobs that ended are handed back. *)

\* A token that ends a reply is its last, and is not of its text.
Text(r) == IF reply[r] # <<>> /\ Last(reply[r]) \in Ends THEN Front(reply[r]) ELSE reply[r]

\* What follows when the reply ran to its end: a stream's text has gone out,
\* and a response sent whole has it all.
Rest(r) == IF ask[r].stream THEN <<"end">> ELSE Text(r) \o <<"end">>

\* Mutant: the connection is told with the last of the response.
EndTells(r) ==
  /\ sched = "reap" /\ First(r, Ended)
  /\ Write(r, <<"error">>)
  /\ done' = [done EXCEPT ![r] = TRUE]
  /\ running' = RemoveFirst(running, r)
  /\ answering' = <<r>>
  /\ sched' = "hand back"
  /\ UNCHANGED <<ask, chunk, sent, gone, queue, stopping, lost, decoding, taking, job, reply, lists, model>>

\* job_end: the rest of the response, or an error when a step did not run or
\* memory ran out.
End(r) ==
  /\ sched = "reap" /\ First(r, Ended)
  /\ \E short \in Fault("memory") :
       Write(r, IF ~job[r].ok \/ short THEN <<"error">> ELSE Rest(r))
  /\ running' = RemoveFirst(running, r)
  /\ answering' = <<r>>
  /\ sched' = "hand back"
  /\ UNCHANGED <<ask, chunk, sent, done, gone, queue, stopping, lost, decoding, taking, job, reply, lists, model>>

HandBack(r) ==
  /\ sched = "hand back" /\ r = Head(answering)
  /\ Done(r)
  /\ busy' = busy \ {job[r].seq}
  /\ answering' = <<>>
  /\ sched' = "reap"
  /\ UNCHANGED <<ask, chunk, sent, out, outok, gone, queue, stopping, lost, running, decoding, taking,
                 jobs, cached, used, clock, model>>

Reaped ==
  /\ sched = "reap" /\ Ended = {}
  /\ sched' = "top"
  /\ UNCHANGED <<conn, shared, list, jobs, lists, model>>

\* vitna_api_free, once the server has no connection left.
Free ==
  /\ ~stopping /\ LockFree /\ \A r \in Requests : pc[r] \in {"idle", "returned"}
  /\ stopping' = TRUE
  /\ sched' = SchedWoken
  /\ UNCHANGED <<conn, out, outok, done, gone, queue, lost, list, jobs, lists, model>>

Terminated == stopping /\ sched \in {"unborn", "exited"} /\ UNCHANGED vars

-----------------------------------------------------------------------------
JobStep(r) ==
  Begin(r) \/ Prompt(r) \/ Take(r) \/ Refuse(r) \/ HasRefused(r) \/ End(r) \/ HandBack(r)

SchedStep ==
  \/ Top \/ Lend \/ Lent \/ Begun \/ Prompted \/ Step \/ NoStep \/ Lose \/ Reaped
  \/ \E r \in Requests : JobStep(r)

Serve(r) == Look(r) \/ Send(r)

Next ==
  \/ SchedStep \/ Free \/ Terminated
  \/ \E r \in Requests : Serve(r) \/ \E a \in Asks : Ask(r, a)

Spec == Init /\ [][Next]_vars

\* The operating system runs every thread that can run; a step of the model
\* returns; a send returns, with an error once IO_TIMEOUT has passed.
Fairness == WF_vars(SchedStep) /\ \A r \in Requests : WF_vars(Serve(r))

FairSpec == Spec /\ Fairness

-----------------------------------------------------------------------------
(* Properties *)

Items == Tokens \cup {"open", "end", "error", "lost", "no thread"}

Jobs == [seq : {NoSeq} \cup Seqs, begun : BOOLEAN, ended : BOOLEAN, prompting : BOOLEAN,
         at : Nat, ok : BOOLEAN, t : Tokens \cup {NoToken}, pass : Seq(Tokens),
         fed : Nat, row : Nat]

TypeOK ==
  /\ pc \in [Requests -> {"idle", "asleep", "awake", "sending", "returned"}]
  /\ ask \in [Requests -> Asks \cup {NoAsk}]
  /\ chunk \in [Requests -> Seq(Items)] /\ sent \in [Requests -> Seq(Items)]
  /\ out \in [Requests -> Seq(Items)] /\ outok \in [Requests -> BOOLEAN]
  /\ done \in [Requests -> BOOLEAN] /\ gone \in [Requests -> BOOLEAN]
  /\ queue \in Seq(Requests) /\ stopping \in BOOLEAN /\ lost \in BOOLEAN
  /\ sched \in {"unborn", "top", "asleep", "lending", "begin", "prompts", "round", "take",
                "lose", "refuse", "refused", "reap", "hand back", "exited"}
  /\ running \in Seq(Requests) /\ answering \in Seq(Requests)
  /\ decoding \in BOOLEAN /\ taking \in SUBSET Requests
  /\ job \in [Requests -> Jobs]
  /\ reply \in [Requests -> Seq(Tokens)] /\ sinkFailed \in [Requests -> BOOLEAN]
  /\ cached \in [Seqs -> Seq(Tokens)]
  /\ held \in [Seqs -> Seq(Tokens)] /\ \A s \in Seqs : Len(held[s]) <= Ctx
  /\ used \in [Seqs -> Nat] /\ busy \in SUBSET Seqs /\ clock \in Nat
  /\ device_lost \in BOOLEAN

\* The cached list of a sequence is what the model's cache holds of it, but
\* while a round's tokens are being taken there: what the next request finds
\* in the list it can reuse, whichever way the last one ended (api.h:103-104).
CachedIsHeld ==
  \A s \in Seqs : (\A r \in taking : job[r].seq # s) => cached[s] = held[s]

\* Every token of every reply is the one the model gives after the request's
\* own prompt and the tokens before it, as it would alone: whatever was
\* reused, drafted, or run beside it (api.h:27-30,103-104,113-117).
RepliesAsAlone ==
  \A r \in Requests : \A k \in DOMAIN reply[r] :
    reply[r][k] = Gives(ask[r].ids \o SubSeq(reply[r], 1, k - 1))

\* A connection that has let its job go has left nothing of it with the
\* scheduler, which would use it after free (api.c:2168,2226-2227).
FreedIsForgotten ==
  \A r \in Requests : pc[r] = "returned" =>
    r \notin Range(queue) \cup Range(running) \cup Range(answering)

Complete(r) ==
  \/ Len(reply[r]) = ask[r].max
  \/ reply[r] # <<>> /\ Last(reply[r]) \in Ends
  \/ Gives(ask[r].ids \o reply[r]) = NoToken

Answers(r) ==
  LET open == IF ask[r].stream THEN <<"open">> ELSE <<>>
      part == IF ask[r].stream THEN Text(r) ELSE <<>>
  IN  {<<"no thread">>, <<"lost">>, open \o part \o <<"error">>}
        \cup (IF Complete(r) THEN {open \o Text(r) \o <<"end">>} ELSE {})

\* A client that stays gets one whole answer, all of it and nothing after it:
\* a reply that ran to its end, or an error; never the reply so far as if it
\* were the whole (api.h:22-25).
AnswersAreWhole ==
  \A r \in Requests : pc[r] = "returned" /\ ~gone[r] => sent[r] \in Answers(r)

\* Every request is answered, though its client hangs up, a step fails or the
\* device is lost, and the scheduler stops when it is told to.
EveryRequestReturns ==
  \A r \in Requests : (pc[r] \notin {"idle", "returned"}) ~> (pc[r] = "returned")

SchedulerStops == stopping ~> (sched \in {"unborn", "exited"})
=============================================================================
