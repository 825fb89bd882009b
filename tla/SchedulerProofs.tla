-------------------------- MODULE SchedulerProofs ---------------------------
(***************************************************************************)
(* Proofs about Scheduler, for every set of requests, of sequences, of     *)
(* prompts and of tokens, and for every model that can give them.          *)
(***************************************************************************)
EXTENDS Scheduler, SequenceTheorems, FiniteSetTheorems, WellFoundedInduction, TLAPS

-----------------------------------------------------------------------------
(* The inductive invariant, in three layers, each proved upon the last.      *)
(*                                                                           *)
(* Where a job is: in one place of one list, or the scheduler is done with it.*)

\* The connections whose jobs the scheduler may have.
Active == {"asleep", "awake", "sending"}

ListTypes ==
  /\ pc \in [Requests -> Active \cup {"idle", "returned"}]
  /\ queue \in Seq(Requests) /\ running \in Seq(Requests) /\ answering \in Seq(Requests)
  /\ done \in [Requests -> BOOLEAN]

\* No job is listed twice.
OnceOK ==
  /\ IsInjective(queue) /\ IsInjective(running) /\ IsInjective(answering)
  /\ Range(queue) \cap Range(running) = {}
  /\ Range(queue) \cap Range(answering) = {}
  /\ Range(running) \cap Range(answering) = {}

Listed == Range(queue) \cup Range(running) \cup Range(answering)

\* What is listed is some waiting connection's, which has not been told yet.
ListedOK ==
  /\ \A r \in Listed : pc[r] \in Active /\ ~done[r]
  /\ \A r \in Requests : pc[r] = "idle" => ~done[r]

AnsweringOK ==
  /\ sched \notin {"refuse", "refused", "hand back"} => answering = <<>>
  /\ sched \in {"refuse", "refused"} => answering # <<>>
  /\ sched = "hand back" => Len(answering) = 1

PlaceInv == ListTypes /\ OnceOK /\ ListedOK /\ AnsweringOK

(* What a job's sequence holds: the tokens of its prompt and of its reply     *)
(* that have run, on the list and in the model's cache alike.                 *)

\* The jobs that have a sequence.
Holding == Range(running) \cup (IF sched = "hand back" THEN Range(answering) ELSE {})

AskOK == \A r \in Requests : pc[r] # "idle" => ask[r] \in Asks

BlankOK == \A r \in Requests \ Holding : ~done[r] => job[r] = Blank /\ reply[r] = <<>>

SeqsOK ==
  /\ \A r \in Holding : job[r].seq \in busy
  /\ \A r, q \in Holding : job[r].seq = job[q].seq => r = q

StagesOK ==
  /\ sched \notin {"lending", "begin"} => NotBegun = {}
  /\ sched # "take" => taking = {}
  /\ taking \subseteq LiveSet \ NotBegun

\* A reply that goes on.
GoesOn(r) == reply[r] # <<>> /\ Last(reply[r]) \notin Ends /\ Len(reply[r]) < ask[r].max

JobOK(r) ==
  LET j == job[r]
      context == ask[r].ids \o reply[r]
  IN  /\ ~j.begun => ~j.prompting /\ ~j.ended /\ reply[r] = <<>> /\ j.row = 0
      /\ r \in Prompting =>
           /\ j.at < Len(ask[r].ids) /\ reply[r] = <<>> /\ j.ok /\ j.row = 0
           /\ cached[j.seq] = SubSeq(ask[r].ids, 1, j.at)
      /\ r \in LiveSet \ (NotBegun \cup taking) =>
           GoesOn(r) /\ j.ok /\ j.row = 0 /\ j.t \in Tokens /\ context = cached[j.seq] \o <<j.t>>
      /\ r \in taking =>
           /\ GoesOn(r) /\ j.ok /\ j.row < Len(j.pass) /\ j.fed <= Len(j.pass)
           /\ context = cached[j.seq] \o SubSeq(j.pass, 1, j.row + 1)
           /\ held[j.seq] = cached[j.seq] \o SubSeq(j.pass, 1, j.fed)

JobsOK == \A r \in Range(running) : JobOK(r)

HeldTypes ==
  /\ ask \in [Requests -> Asks \cup {NoAsk}]
  /\ job \in [Requests -> Jobs] /\ reply \in [Requests -> Seq(Tokens)]
  /\ cached \in [Seqs -> Seq(Tokens)] /\ held \in [Seqs -> Seq(Tokens)]
  /\ \A s \in Seqs : Len(held[s]) <= Ctx
  /\ busy \in SUBSET Seqs

HeldInv ==
  /\ HeldTypes /\ AskOK /\ BlankOK /\ SeqsOK /\ StagesOK
  /\ CachedIsHeld /\ JobsOK /\ RepliesAsAlone

(* What a client has been sent, is being sent and is to be sent: so far, and  *)
(* once the scheduler is done with its job, the whole answer.                 *)

Said(r) == sent[r] \o chunk[r] \o out[r]
Opened(r) == IF ask[r].stream THEN <<"open">> ELSE <<>>
SoFar(r) == Opened(r) \o (IF ask[r].stream THEN Text(r) ELSE <<>>)

\* The job that is being handed back, and the one whose refusal is written.
Handed(r) == sched = "hand back" /\ r \in Range(answering)
Refusing(r) == sched = "refused" /\ r = Head(answering)

WireTypes ==
  /\ sent \in [Requests -> Seq(Items)] /\ chunk \in [Requests -> Seq(Items)] /\ out \in [Requests -> Seq(Items)]
  /\ outok \in [Requests -> BOOLEAN] /\ gone \in [Requests -> BOOLEAN] /\ sinkFailed \in [Requests -> BOOLEAN]

SinkOK ==
  /\ \A r \in Requests : sinkFailed[r] => gone[r] \/ ~outok[r]
  /\ \A r \in Requests : ~outok[r] => sinkFailed[r] /\ pc[r] \in Active
  /\ \A r \in Requests : pc[r] # "sending" => chunk[r] = <<>>
  /\ \A r \in Requests : pc[r] \in {"idle", "returned"} => out[r] = <<>>

SaidOK(r) ==
  /\ pc[r] = "idle" => sent[r] = <<>>
  /\ pc[r] = "returned" /\ ~done[r] => sent[r] \in {<<"no thread">>, <<"lost">>}
  /\ pc[r] \in Active /\ ~done[r] /\ r \notin Range(running) /\ ~Handed(r) =>
       Said(r) = IF Refusing(r) THEN <<"lost">> ELSE <<>>
  /\ r \in Range(running) => Said(r) = IF job[r].begun THEN SoFar(r) ELSE <<>>
  /\ done[r] \/ Handed(r) => Said(r) \in Answers(r)

EndedOK == \A r \in Ended : job[r].ok /\ ~sinkFailed[r] => Complete(r)

AnswerInv ==
  /\ WireTypes /\ SinkOK /\ EndedOK
  /\ \A r \in Requests : ~gone[r] /\ ~sinkFailed[r] => SaidOK(r)

-----------------------------------------------------------------------------
(* Lists without repeats. *)

LEMMA RangeIs == ASSUME NEW S, NEW q \in Seq(S) PROVE Range(q) = {q[k] : k \in 1 .. Len(q)} /\ Range(q) \subseteq S
<1>1. DOMAIN q = 1 .. Len(q) /\ \A k \in 1 .. Len(q) : q[k] \in S
  BY LenProperties, ElementOfSeq
<1>. QED  BY <1>1 DEF Range

LEMMA EmptyList == Range(<<>>) = {} /\ IsInjective(<<>>)
<1>1. \A S : <<>> \in Seq(S) /\ Len(<<>>) = 0
  BY EmptySeq
<1>2. DOMAIN <<>> = {}
  BY <1>1, LenProperties
<1>. QED  BY <1>2 DEF Range, IsInjective

LEMMA AppendList ==
  ASSUME NEW S, NEW q \in Seq(S), NEW e \in S
  PROVE  /\ Append(q, e) \in Seq(S) /\ Range(Append(q, e)) = Range(q) \cup {e}
         /\ IsInjective(q) /\ e \notin Range(q) => IsInjective(Append(q, e))
<1>. DEFINE p == Append(q, e)  n == Len(q)
<1>1. /\ p \in Seq(S) /\ Len(p) = n + 1 /\ p[n + 1] = e /\ n \in Nat
      /\ \A k \in 1 .. n : p[k] = q[k]
  BY AppendProperties, LenProperties
<1>2. DOMAIN p = 1 .. n + 1 /\ DOMAIN q = 1 .. n
  BY <1>1, LenProperties
<1>3. Range(q) = {q[k] : k \in 1 .. n}
  BY <1>2 DEF Range
<1>. HIDE DEF p, n
<1>4. 1 .. n + 1 = (1 .. n) \cup {n + 1}
  BY <1>1
<1>5. Range(p) = Range(q) \cup {e}
  BY <1>1, <1>2, <1>3, <1>4 DEF Range
<1>6. ASSUME IsInjective(q), e \notin Range(q) PROVE IsInjective(p)
  <2>1. \A k \in 1 .. n : p[k] # e
    BY <1>1, <1>3, <1>6
  <2>2. ASSUME NEW k \in 1 .. n + 1, NEW m \in 1 .. n + 1, p[k] = p[m] PROVE k = m
    <3>1. CASE k \in 1 .. n /\ m \in 1 .. n
      BY <1>1, <1>2, <1>6, <2>2, <3>1 DEF IsInjective
    <3>. QED  BY <1>1, <1>4, <2>1, <2>2, <3>1
  <2>. QED  BY <1>2, <2>2 DEF IsInjective
<1>. QED  BY <1>1, <1>5, <1>6 DEF p

LEMMA TailList ==
  ASSUME NEW S, NEW q \in Seq(S), q # <<>>
  PROVE  /\ Tail(q) \in Seq(S) /\ Len(Tail(q)) = Len(q) - 1 /\ Head(q) \in Range(q) /\ Head(q) \in S
         /\ IsInjective(q) => /\ IsInjective(Tail(q))
                              /\ Range(Tail(q)) = Range(q) \ {Head(q)}
<1>. DEFINE p == Tail(q)  n == Len(q)
<1>1. /\ p \in Seq(S) /\ Len(p) = n - 1 /\ n \in Nat \ {0} /\ Head(q) = q[1] /\ Head(q) \in S
      /\ \A k \in 1 .. Len(p) : p[k] = q[k + 1]
  BY HeadTailProperties, EmptySeq
<1>2. DOMAIN q = 1 .. n /\ DOMAIN p = 1 .. n - 1
  BY <1>1, LenProperties
<1>. HIDE DEF p, n
<1>3. Head(q) \in Range(q)
  BY <1>1, <1>2 DEF Range
<1>4. ASSUME IsInjective(q) PROVE IsInjective(p) /\ Range(p) = Range(q) \ {Head(q)}
  <2>1. \A k \in 1 .. n - 1 : k + 1 \in 1 .. n /\ p[k] = q[k + 1]
    BY <1>1
  <2>2. \A k, m \in 1 .. n : q[k] = q[m] => k = m
    BY <1>2, <1>4 DEF IsInjective
  <2>3. \A k, m \in 1 .. n - 1 : p[k] = p[m] => k = m
    BY <1>1, <2>1, <2>2
  <2>4. ASSUME NEW x \in Range(p) PROVE x \in Range(q) \ {q[1]}
    <3>1. PICK k \in 1 .. n - 1 : x = p[k]
      BY <1>2, <2>4 DEF Range
    <3>2. x = q[k + 1] /\ k + 1 \in 1 .. n /\ k + 1 # 1 /\ 1 \in 1 .. n
      BY <1>1, <2>1, <3>1
    <3>. QED  BY <1>2, <2>2, <3>2 DEF Range
  <2>5. ASSUME NEW x \in Range(q) \ {q[1]} PROVE x \in Range(p)
    <3>1. PICK k \in 1 .. n : x = q[k]
      BY <1>2, <2>5 DEF Range
    <3>2. k # 1 /\ k - 1 \in 1 .. n - 1 /\ (k - 1) + 1 = k
      BY <1>1, <2>5, <3>1
    <3>3. x = p[k - 1]
      BY <2>1, <3>1, <3>2
    <3>. QED  BY <1>2, <3>2, <3>3 DEF Range
  <2>. QED  BY <1>1, <1>2, <2>3, <2>4, <2>5 DEF IsInjective
<1>. QED  BY <1>1, <1>3, <1>4 DEF p, n

LEMMA OneList == ASSUME NEW e PROVE Range(<<e>>) = {e} /\ IsInjective(<<e>>) /\ Len(<<e>>) = 1 /\ Head(<<e>>) = e
<1>1. DOMAIN <<e>> = {1} /\ <<e>>[1] = e
  OBVIOUS
<1>2. Range(<<e>>) = {e}
  BY <1>1 DEF Range
<1>3. IsInjective(<<e>>)
  BY <1>1 DEF IsInjective
<1>. QED  BY <1>2, <1>3

\* A list of one is its head.
LEMMA HeadOnly ==
  ASSUME NEW S, NEW q \in Seq(S), Len(q) = 1
  PROVE  q # <<>> /\ Range(q) = {Head(q)} /\ Head(q) \in S
<1>1. q # <<>>
  BY EmptySeq
<1>2. Range(q) = {q[1]}
  BY RangeIs
<1>. QED  BY <1>1, <1>2, HeadTailProperties

LEMMA LeastNatural ==
  ASSUME NEW T \in SUBSET Nat, T # {}
  PROVE  \E m \in T : \A k \in T : m <= k
<1>. DEFINE R == OpToRel(<, Nat)
<1>1. IsWellFoundedOn(R, Nat)
  BY NatLessThanWellFounded
<1>2. \A x, y \in Nat : x < y => <<x, y>> \in R
  BY DEF OpToRel
<1>. HIDE DEF R
<1>3. \E m \in T : \A k \in T : ~ (<<k, m>> \in R)
  BY <1>1, WFMin
<1>4. PICK m \in T : \A k \in T : ~ (<<k, m>> \in R)
  BY <1>3
<1>5. \A k \in T : k \in Nat /\ m \in Nat /\ ~ (k < m)
  BY <1>2, <1>4
<1>. QED  BY <1>5

\* A job leaves the list, and the others keep their order.
LEMMA RemoveList ==
  ASSUME NEW S, NEW q \in Seq(S), NEW e \in Range(q), IsInjective(q)
  PROVE  /\ RemoveFirst(q, e) \in Seq(S) /\ IsInjective(RemoveFirst(q, e))
         /\ Range(RemoveFirst(q, e)) = Range(q) \ {e}
<1>. DEFINE n == Len(q)  I == {i \in 1 .. n : q[i] = e}
<1>1. DOMAIN q = 1 .. n /\ n \in Nat /\ \A k \in 1 .. n : q[k] \in S
  BY LenProperties, ElementOfSeq
<1>2. \A k, m \in 1 .. n : q[k] = q[m] => k = m
  BY <1>1 DEF IsInjective
<1>3. PICK i \in 1 .. n : q[i] = e
  BY <1>1 DEF Range
<1>4. I = {i}
  BY <1>2, <1>3
<1>5. Min(I) = i
  BY <1>3, <1>4 DEF Min
<1>6. RemoveFirst(q, e) = SubSeq(q, 1, i - 1) \o SubSeq(q, i + 1, n)
  BY <1>3, <1>4, <1>5 DEF RemoveFirst, RemoveAt, SelectInSeq
<1>. DEFINE a == SubSeq(q, 1, i - 1)  b == SubSeq(q, i + 1, n)  p == RemoveFirst(q, e)
<1>7. /\ a \in Seq(S) /\ Len(a) = i - 1 /\ \A k \in 1 .. i - 1 : a[k] = q[k]
  <2>1. \A k \in 1 .. i - 1 : q[k] \in S
    BY <1>1, <1>3
  <2>2. /\ a \in Seq(S) /\ Len(a) = IF 1 <= i - 1 THEN (i - 1) - 1 + 1 ELSE 0
        /\ \A k \in 1 .. (i - 1) - 1 + 1 : a[k] = q[1 + k - 1]
    BY <2>1, SubSeqProperties
  <2>. QED  BY <1>3, <2>2
<1>8. /\ b \in Seq(S) /\ Len(b) = n - i /\ \A k \in 1 .. n - i : b[k] = q[i + k]
  <2>1. \A k \in i + 1 .. n : q[k] \in S
    BY <1>1, <1>3
  <2>2. /\ b \in Seq(S) /\ Len(b) = IF i + 1 <= n THEN n - (i + 1) + 1 ELSE 0
        /\ \A k \in 1 .. n - (i + 1) + 1 : b[k] = q[(i + 1) + k - 1]
    BY <1>1, <2>1, SubSeqProperties
  <2>. HIDE DEF b, n
  <2>3. n - (i + 1) + 1 = n - i /\ \A k \in 1 .. n - i : (i + 1) + k - 1 = i + k
    BY <1>1, <1>3
  <2>4. Len(b) = n - i
    BY <1>1, <1>3, <2>2
  <2>. QED  BY <2>2, <2>3, <2>4
<1>. HIDE DEF a, b, n, I
<1>9. /\ p \in Seq(S) /\ Len(p) = n - 1
      /\ \A k \in 1 .. n - 1 : p[k] = IF k < i THEN q[k] ELSE q[k + 1]
  <2>0. p = a \o b
    BY <1>6 DEF a, b, n
  <2>. HIDE DEF p
  <2>1. /\ p \in Seq(S) /\ Len(p) = Len(a) + Len(b)
        /\ \A k \in 1 .. Len(a) + Len(b) : p[k] = IF k <= Len(a) THEN a[k] ELSE b[k - Len(a)]
    BY <2>0, <1>7, <1>8, ConcatProperties
  <2>2. Len(a) + Len(b) = n - 1
    BY <1>1, <1>3, <1>7, <1>8
  <2>3. ASSUME NEW k \in 1 .. n - 1 PROVE p[k] = IF k < i THEN q[k] ELSE q[k + 1]
    <3>1. CASE k < i
      <4>1. k \in 1 .. Len(a) + Len(b) /\ k <= Len(a) /\ k \in 1 .. i - 1
        BY <1>1, <1>3, <1>7, <2>2, <3>1
      <4>2. p[k] = a[k] /\ a[k] = q[k]
        BY <1>7, <2>1, <4>1
      <4>. QED  BY <3>1, <4>2
    <3>2. CASE ~(k < i)
      <4>1. PICK x \in 1 .. n - i : x = k - (i - 1)
        BY <1>1, <1>3, <3>2
      <4>2. k \in 1 .. Len(a) + Len(b) /\ ~(k <= Len(a)) /\ k - Len(a) = x /\ i + x = k + 1
        BY <1>1, <1>3, <1>7, <2>2, <3>2, <4>1
      <4>3. p[k] = b[x] /\ b[x] = q[i + x]
        BY <1>8, <2>1, <4>2
      <4>4. p[k] = q[k + 1]
        BY <4>2, <4>3
      <4>. QED  BY <3>2, <4>4
    <3>. QED  BY <3>1, <3>2
  <2>. QED  BY <2>1, <2>2, <2>3
<1>. HIDE DEF p
<1>10. DOMAIN p = 1 .. n - 1
  BY <1>9, LenProperties
<1>11. IsInjective(p)
  <2>1. ASSUME NEW k \in 1 .. n - 1, NEW m \in 1 .. n - 1, p[k] = p[m] PROVE k = m
    <3>1. k \in 1 .. n /\ k + 1 \in 1 .. n /\ m \in 1 .. n /\ m + 1 \in 1 .. n
      BY <1>1
    <3>2. PICK x \in 1 .. n : x = (IF k < i THEN k ELSE k + 1) /\ p[k] = q[x]
      BY <1>9, <3>1
    <3>3. PICK y \in 1 .. n : y = (IF m < i THEN m ELSE m + 1) /\ p[m] = q[y]
      BY <1>9, <3>1
    <3>4. x = y
      BY <1>2, <2>1, <3>2, <3>3
    <3>. QED  BY <1>1, <1>3, <3>2, <3>3, <3>4
  <2>. QED  BY <1>10, <2>1 DEF IsInjective
<1>12. Range(p) = Range(q) \ {e}
  <2>1. ASSUME NEW x \in Range(p) PROVE x \in Range(q) \ {e}
    <3>1. PICK k \in 1 .. n - 1 : x = p[k]
      BY <1>10, <2>1 DEF Range
    <3>2. PICK m \in 1 .. n : m # i /\ x = q[m]
      <4>1. k \in 1 .. n /\ k + 1 \in 1 .. n
        BY <1>1
      <4>. QED  BY <1>3, <1>9, <3>1, <4>1
    <3>. QED  BY <1>1, <1>2, <1>3, <3>2 DEF Range
  <2>2. ASSUME NEW x \in Range(q) \ {e} PROVE x \in Range(p)
    <3>1. PICK m \in 1 .. n : x = q[m]
      BY <1>1, <2>2 DEF Range
    <3>2. m # i
      BY <1>3, <2>2, <3>1
    <3>3. CASE m < i
      <4>1. m \in 1 .. n - 1 /\ x = p[m]
        BY <1>1, <1>3, <1>9, <3>1, <3>3
      <4>. QED  BY <1>10, <4>1 DEF Range
    <3>4. CASE m > i
      <4>1. m - 1 \in 1 .. n - 1 /\ ~(m - 1 < i) /\ (m - 1) + 1 = m
        BY <1>1, <1>3, <3>4
      <4>2. x = p[m - 1]
        BY <1>9, <3>1, <4>1
      <4>. QED  BY <1>10, <4>1, <4>2 DEF Range
    <3>. QED  BY <1>3, <3>2, <3>3, <3>4
  <2>. QED  BY <2>1, <2>2
<1>. QED  BY <1>9, <1>11, <1>12 DEF p

-----------------------------------------------------------------------------
(* Where a job is: each step keeps PlaceInv. *)

PCs == Active \cup {"idle", "returned"}

\* The connections of jobs may be woken or sent to sleep.
Stirred ==
  /\ pc' \in [Requests -> PCs]
  /\ \A q \in Requests : pc'[q] = pc[q] \/ (pc[q] \in Active /\ pc'[q] \in Active)

LEMMA StillStirred == ASSUME ListTypes, UNCHANGED pc PROVE Stirred
BY DEF ListTypes, Stirred, PCs

LEMMA WokenStirs == ASSUME ListTypes, NEW r \in Requests, pc' = Woken(r) PROVE Stirred
<1>1. pc \in [Requests -> PCs] /\ "awake" \in PCs
  BY DEF ListTypes, PCs, Active
<1>2. pc' \in [Requests -> PCs] /\ \A q \in Requests : pc'[q] = IF q = r /\ pc[q] = "asleep" THEN "awake" ELSE pc[q]
  BY <1>1 DEF Woken
<1>. QED  BY <1>2 DEF Stirred, Active

LEMMA WriteStirs == ASSUME ListTypes, NEW r \in Requests, NEW items, Write(r, items) PROVE Stirred
<1>1. UNCHANGED pc \/ pc' = Woken(r)
  BY DEF Write
<1>. QED  BY <1>1, StillStirred, WokenStirs

\* A step that lists and unlists nobody.
LEMMA SamePlaces ==
  ASSUME PlaceInv, Stirred, UNCHANGED <<queue, running, answering, done>>, AnsweringOK'
  PROVE  PlaceInv'
<1>1. ListTypes'
  BY DEF PlaceInv, ListTypes, Stirred, PCs
<1>2. OnceOK' /\ Listed' = Listed
  BY DEF PlaceInv, OnceOK, Listed
<1>3. Listed \subseteq Requests
  BY RangeIs DEF PlaceInv, ListTypes, Listed
<1>4. ListedOK'
  BY <1>2, <1>3 DEF PlaceInv, ListedOK, Stirred, Active
<1>. QED  BY <1>1, <1>2, <1>4 DEF PlaceInv

LEMMA ListedRequests ==
  ASSUME ListTypes
  PROVE  /\ Range(queue) \subseteq Requests /\ Range(running) \subseteq Requests
         /\ Range(answering) \subseteq Requests /\ Listed \subseteq Requests
BY RangeIs DEF ListTypes, Listed

LEMMA RefusedPlaces ==
  ASSUME PlaceInv, NEW r \in Requests, NEW a, NEW why, pc[r] = "idle", Refused(r, a, why)
  PROVE  PlaceInv'
<1>1. /\ pc' = [pc EXCEPT ![r] = "returned"]
      /\ UNCHANGED <<queue, running, answering, done, sched>>
  BY DEF Refused, shared, list
<1>2. r \notin Listed
  BY DEF PlaceInv, ListedOK, Active
<1>3. ListTypes'
  BY <1>1 DEF PlaceInv, ListTypes
<1>4. OnceOK' /\ AnsweringOK' /\ Listed' = Listed
  BY <1>1 DEF PlaceInv, OnceOK, AnsweringOK, Listed
<1>5. ListedOK'
  BY <1>1, <1>2, <1>4, ListedRequests DEF PlaceInv, ListTypes, ListedOK
<1>. QED  BY <1>3, <1>4, <1>5 DEF PlaceInv

LEMMA QueuedPlaces ==
  ASSUME PlaceInv, NEW r \in Requests, NEW a, pc[r] = "idle", LockFree, Queued(r, a)
  PROVE  PlaceInv'
<1>1. /\ queue' = Append(queue, r) /\ pc' = [pc EXCEPT ![r] = "asleep"]
      /\ UNCHANGED <<running, answering, done>>
  BY DEF Queued, list
<1>2. sched' = sched \/ (sched \in {"unborn", "asleep"} /\ sched' = "top")
  BY DEF Queued, SchedWoken
<1>3. r \notin Listed /\ ~done[r]
  BY DEF PlaceInv, ListedOK, Active
<1>4. /\ queue' \in Seq(Requests) /\ Range(queue') = Range(queue) \cup {r} /\ IsInjective(queue')
  BY <1>1, <1>3, AppendList DEF PlaceInv, ListTypes, OnceOK, Listed
<1>5. ListTypes' /\ OnceOK'
  BY <1>1, <1>3, <1>4 DEF PlaceInv, ListTypes, OnceOK, Listed, Active
<1>6. AnsweringOK'
  BY <1>1, <1>2 DEF PlaceInv, AnsweringOK
<1>7. Listed' = Listed \cup {r}
  BY <1>1, <1>4 DEF Listed
<1>8. ListedOK'
  BY <1>1, <1>3, <1>7, ListedRequests DEF PlaceInv, ListTypes, ListedOK, Active
<1>. QED  BY <1>5, <1>6, <1>8 DEF PlaceInv

LEMMA LookPlaces ==
  ASSUME PlaceInv, NEW r \in Requests, Look(r)
  PROVE  PlaceInv'
<1>1. pc[r] = "awake" /\ UNCHANGED <<queue, running, answering, done, sched>>
  BY DEF Look, list
<1>2. AnsweringOK'
  BY <1>1 DEF PlaceInv, AnsweringOK
<1>3. pc \in [Requests -> PCs]
  BY DEF PlaceInv, ListTypes, PCs
<1>4. CASE done[r] /\ pc' = [pc EXCEPT ![r] = "returned"]
  <2>1. r \notin Listed
    BY <1>4 DEF PlaceInv, ListedOK
  <2>2. ListTypes'
    BY <1>1, <1>4 DEF PlaceInv, ListTypes
  <2>3. OnceOK' /\ Listed' = Listed
    BY <1>1 DEF PlaceInv, OnceOK, Listed
  <2>4. ListedOK'
    BY <1>1, <1>4, <2>1, <2>3, ListedRequests DEF PlaceInv, ListTypes, ListedOK
  <2>. QED  BY <1>2, <2>2, <2>3, <2>4 DEF PlaceInv
<1>5. CASE \E x \in {"asleep", "sending", "awake"} : pc' = [pc EXCEPT ![r] = x]
  <2>1. Stirred
    BY <1>1, <1>3, <1>5 DEF Stirred, PCs, Active
  <2>. QED  BY <1>1, <1>2, <2>1, SamePlaces
<1>6. CASE UNCHANGED pc
  BY <1>1, <1>2, <1>6, StillStirred, SamePlaces DEF PlaceInv
<1>. QED  BY <1>4, <1>5, <1>6 DEF Look

LEMMA SendPlaces ==
  ASSUME PlaceInv, NEW r \in Requests, Send(r)
  PROVE  PlaceInv'
<1>1. /\ pc[r] = "sending" /\ pc' = [pc EXCEPT ![r] = "awake"]
      /\ UNCHANGED <<queue, running, answering, done, sched>>
  BY DEF Send, list
<1>2. Stirred
  BY <1>1 DEF PlaceInv, ListTypes, Stirred, PCs, Active
<1>3. AnsweringOK'
  BY <1>1 DEF PlaceInv, AnsweringOK
<1>. QED  BY <1>1, <1>2, <1>3, SamePlaces

LEMMA LendPlaces ==
  ASSUME PlaceInv, Lend
  PROVE  PlaceInv'
<1>. DEFINE r == Head(queue)
<1>1. /\ queue # <<>> /\ sched = "lending" /\ queue' = Tail(queue) /\ running' = Append(running, r)
      /\ UNCHANGED <<pc, answering, done, sched>>
  BY DEF Lend, conn
<1>2. /\ queue' \in Seq(Requests) /\ r \in Range(queue) /\ r \in Requests
      /\ IsInjective(queue') /\ Range(queue') = Range(queue) \ {r}
  BY <1>1, TailList DEF PlaceInv, ListTypes, OnceOK
<1>. HIDE DEF r
<1>3. r \notin Range(running) /\ r \notin Range(answering)
  BY <1>2 DEF PlaceInv, OnceOK
<1>4. running' \in Seq(Requests) /\ IsInjective(running') /\ Range(running') = Range(running) \cup {r}
  BY <1>1, <1>2, <1>3, AppendList DEF PlaceInv, ListTypes, OnceOK
<1>5. ListTypes'
  BY <1>1, <1>2, <1>4 DEF PlaceInv, ListTypes
<1>6. OnceOK'
  BY <1>1, <1>2, <1>3, <1>4 DEF PlaceInv, OnceOK
<1>7. Listed' = Listed
  BY <1>1, <1>2, <1>4 DEF Listed
<1>8. ListedOK' /\ AnsweringOK'
  BY <1>1, <1>7 DEF PlaceInv, ListedOK, AnsweringOK
<1>. QED  BY <1>5, <1>6, <1>8 DEF PlaceInv

LEMMA LosePlaces ==
  ASSUME PlaceInv, Lose
  PROVE  PlaceInv'
<1>1. /\ queue' = <<>> /\ answering' = queue /\ sched = "lose"
      /\ sched' = IF queue = <<>> THEN "reap" ELSE "refuse"
      /\ UNCHANGED <<pc, running, done>>
  BY DEF Lose, conn
<1>2. answering = <<>>
  BY <1>1 DEF PlaceInv, AnsweringOK
<1>3. ListTypes'
  BY <1>1, EmptySeq DEF PlaceInv, ListTypes
<1>4. Range(queue') = {} /\ IsInjective(queue')
  BY <1>1, EmptyList
<1>5. OnceOK'
  BY <1>1, <1>4 DEF PlaceInv, OnceOK
<1>6. Listed' = Listed
  BY <1>1, <1>2, <1>4, EmptyList DEF Listed
<1>7. ListedOK' /\ AnsweringOK'
  BY <1>1, <1>6 DEF PlaceInv, ListedOK, AnsweringOK
<1>. QED  BY <1>3, <1>5, <1>7 DEF PlaceInv

LEMMA HasRefusedPlaces ==
  ASSUME PlaceInv, NEW r \in Requests, HasRefused(r)
  PROVE  PlaceInv'
<1>1. /\ sched = "refused" /\ r = Head(answering) /\ done' = [done EXCEPT ![r] = TRUE]
      /\ pc' = Woken(r) /\ answering' = Tail(answering)
      /\ sched' = IF Len(answering) = 1 THEN "reap" ELSE "refuse"
      /\ UNCHANGED <<queue, running>>
  BY DEF HasRefused, Done
<1>2. answering # <<>>
  BY <1>1 DEF PlaceInv, AnsweringOK
<1>3. /\ answering' \in Seq(Requests) /\ Len(answering') = Len(answering) - 1 /\ r \in Range(answering)
      /\ IsInjective(answering') /\ Range(answering') = Range(answering) \ {r}
  BY <1>1, <1>2, TailList DEF PlaceInv, ListTypes, OnceOK
<1>4. Stirred
  BY <1>1, WokenStirs DEF PlaceInv
<1>5. ListTypes'
  BY <1>1, <1>3, <1>4 DEF PlaceInv, ListTypes, Stirred, PCs
<1>6. OnceOK'
  BY <1>1, <1>3 DEF PlaceInv, OnceOK
<1>7. Listed' = Listed \ {r}
  BY <1>1, <1>3 DEF PlaceInv, OnceOK, Listed
<1>8. ListedOK'
  BY <1>1, <1>3, <1>4, <1>7, ListedRequests DEF PlaceInv, ListTypes, ListedOK, Stirred, Active, Listed
<1>9. AnsweringOK'
  <2>1. Len(answering) \in Nat /\ answering' = <<>> <=> Len(answering') = 0
    BY <1>3, EmptySeq, LenProperties DEF PlaceInv, ListTypes
  <2>. QED  BY <1>1, <1>3, <2>1 DEF AnsweringOK
<1>. QED  BY <1>5, <1>6, <1>8, <1>9 DEF PlaceInv

LEMMA EndPlaces ==
  ASSUME PlaceInv, NEW r \in Requests, End(r)
  PROVE  PlaceInv'
<1>1. /\ sched = "reap" /\ sched' = "hand back" /\ r \in Range(running)
      /\ running' = RemoveFirst(running, r) /\ answering' = <<r>>
      /\ UNCHANGED <<queue, done>>
  BY DEF End, First, Ended
<1>2. answering = <<>>
  BY <1>1 DEF PlaceInv, AnsweringOK
<1>3. /\ running' \in Seq(Requests) /\ IsInjective(running')
      /\ Range(running') = Range(running) \ {r}
  BY <1>1, RemoveList DEF PlaceInv, ListTypes, OnceOK
<1>4. /\ answering' \in Seq(Requests) /\ IsInjective(answering') /\ Range(answering') = {r}
      /\ Len(answering') = 1
  <2>1. <<r>> \in Seq(Requests)
    OBVIOUS
  <2>. QED  BY <1>1, <2>1, OneList
<1>5. Stirred
  BY WriteStirs DEF End, PlaceInv
<1>6. ListTypes'
  BY <1>1, <1>3, <1>4, <1>5 DEF PlaceInv, ListTypes, Stirred, PCs
<1>7. OnceOK'
  BY <1>1, <1>3, <1>4 DEF PlaceInv, OnceOK
<1>8. Listed' = Listed
  BY <1>1, <1>2, <1>3, <1>4, EmptyList DEF Listed
<1>9. ListedOK' /\ AnsweringOK'
  BY <1>1, <1>4, <1>5, <1>8, ListedRequests DEF PlaceInv, ListedOK, AnsweringOK, Stirred, Active
<1>. QED  BY <1>6, <1>7, <1>9 DEF PlaceInv

LEMMA HandBackPlaces ==
  ASSUME PlaceInv, NEW r \in Requests, HandBack(r)
  PROVE  PlaceInv'
<1>1. /\ sched = "hand back" /\ sched' = "reap" /\ r = Head(answering)
      /\ done' = [done EXCEPT ![r] = TRUE] /\ pc' = Woken(r) /\ answering' = <<>>
      /\ UNCHANGED <<queue, running>>
  BY DEF HandBack, Done
<1>2. Range(answering) = {r}
  BY <1>1, HeadOnly DEF PlaceInv, AnsweringOK, ListTypes
<1>3. Range(answering') = {} /\ IsInjective(answering') /\ answering' \in Seq(Requests)
  BY <1>1, EmptyList, EmptySeq
<1>4. Stirred
  BY <1>1, WokenStirs DEF PlaceInv
<1>5. ListTypes'
  BY <1>1, <1>3, <1>4 DEF PlaceInv, ListTypes, Stirred, PCs
<1>6. OnceOK'
  BY <1>1, <1>3 DEF PlaceInv, OnceOK
<1>7. Listed' = Listed \ {r}
  BY <1>1, <1>2, <1>3 DEF PlaceInv, OnceOK, Listed
<1>8. ListedOK' /\ AnsweringOK'
  BY <1>1, <1>2, <1>4, <1>7, ListedRequests DEF PlaceInv, ListTypes, ListedOK, AnsweringOK, Stirred, Active, Listed
<1>. QED  BY <1>5, <1>6, <1>8 DEF PlaceInv

\* The rest lists and unlists nobody.
LEMMA JobPlaces ==
  ASSUME PlaceInv, NEW r \in Requests, Begin(r) \/ Prompt(r) \/ Take(r) \/ Refuse(r)
  PROVE  PlaceInv'
<1>1. UNCHANGED <<queue, running, answering, done>>
  BY DEF Begin, Prompt, Take, Refuse, list
<1>2. Stirred
  <2>1. CASE Begin(r) \/ Refuse(r)
    BY <2>1, WriteStirs DEF PlaceInv, Begin, Refuse
  <2>2. CASE Prompt(r)
    <3>1. UNCHANGED pc \/ \E u : TakeToken(r, u)
      BY <2>2 DEF Prompt
    <3>. QED  BY <3>1, StillStirred, WriteStirs DEF PlaceInv, TakeToken
  <2>3. CASE Take(r)
    <3>1. UNCHANGED pc \/ \E u : TakeToken(r, u)
      BY <2>3 DEF Take, TakeFails, TakeStops, TakeRow
    <3>. QED  BY <3>1, StillStirred, WriteStirs DEF PlaceInv, TakeToken
  <2>. QED  BY <2>1, <2>2, <2>3
<1>3. AnsweringOK'
  <2>1. CASE Refuse(r)
    BY <1>1, <2>1 DEF PlaceInv, AnsweringOK, Refuse
  <2>2. CASE ~Refuse(r)
    <3>1. /\ sched \in {"begin", "prompts", "take"}
          /\ sched' \in {"begin", "prompts", "round", "take", "lose", "reap"}
      BY <2>2 DEF Begin, Prompt, Take, TakeFails, TakeStops, TakeRow, Took, AfterRound
    <3>. QED  BY <1>1, <3>1 DEF PlaceInv, AnsweringOK
  <2>. QED  BY <2>1, <2>2
<1>. QED  BY <1>1, <1>2, <1>3, SamePlaces

LEMMA QuietPlaces ==
  ASSUME PlaceInv,
         Top \/ Lent \/ Begun \/ Prompted \/ Step \/ NoStep \/ Reaped \/ Free \/ UNCHANGED vars
  PROVE  PlaceInv'
<1>1. UNCHANGED <<pc, queue, running, answering, done>>
  BY DEF Top, Lent, Begun, Prompted, Step, NoStep, Reaped, Free, conn, shared, list, vars
<1>2. AnsweringOK'
  <2>1. CASE Free \/ UNCHANGED vars
    BY <1>1, <2>1 DEF PlaceInv, AnsweringOK, Free, SchedWoken, vars
  <2>2. CASE Top \/ Lent \/ Begun \/ Prompted \/ Step \/ NoStep \/ Reaped
    <3>1. /\ sched \in {"top", "lending", "begin", "prompts", "round", "reap"}
          /\ sched' \in {"exited", "asleep", "lending", "begin", "prompts", "round", "take",
                         "lose", "reap", "top"}
      BY <2>2 DEF Top, Lent, Begun, Prompted, Step, NoStep, Reaped, AfterRound
    <3>. QED  BY <1>1, <3>1 DEF PlaceInv, AnsweringOK
  <2>. QED  BY <2>1, <2>2
<1>. QED  BY <1>1, <1>2, StillStirred, SamePlaces DEF PlaceInv

LEMMA NextPlaces ==
  ASSUME PlaceInv, [Next]_vars
  PROVE  PlaceInv'
<1>1. CASE SchedStep
  <2>1. CASE Lend \/ Lose
    BY <2>1, LendPlaces, LosePlaces
  <2>2. CASE \E r \in Requests : JobStep(r)
    BY <2>2, JobPlaces, HasRefusedPlaces, EndPlaces, HandBackPlaces DEF JobStep
  <2>. QED  BY <1>1, <2>1, <2>2, QuietPlaces DEF SchedStep
<1>2. CASE \E r \in Requests : Serve(r) \/ \E a \in Asks : Ask(r, a)
  BY <1>2, LookPlaces, SendPlaces, RefusedPlaces, QueuedPlaces DEF Serve, Ask
<1>3. CASE Free \/ Terminated \/ UNCHANGED vars
  BY <1>3, QuietPlaces DEF Terminated
<1>. QED  BY <1>1, <1>2, <1>3 DEF Next

LEMMA InitPlaces == ASSUME Init PROVE PlaceInv
<1>1. /\ queue = <<>> /\ running = <<>> /\ answering = <<>> /\ sched = "unborn"
      /\ pc = [r \in Requests |-> "idle"] /\ done = [r \in Requests |-> FALSE]
  BY DEF Init
<1>2. ListTypes
  BY <1>1, EmptySeq DEF ListTypes
<1>3. OnceOK /\ Listed = {}
  BY <1>1, EmptyList DEF OnceOK, Listed
<1>4. ListedOK /\ AnsweringOK
  BY <1>1, <1>3 DEF ListedOK, AnsweringOK
<1>. QED  BY <1>2, <1>3, <1>4 DEF PlaceInv

\* A job is in one place of one list until its connection is told.
THEOREM Places == Spec => []PlaceInv
<1>1. Init => PlaceInv
  BY InitPlaces
<1>2. PlaceInv /\ [Next]_vars => PlaceInv'
  BY NextPlaces
<1>. QED  BY <1>1, <1>2, PTL DEF Spec

\* A connection that has let its job go has left nothing of it with the
\* scheduler, whatever fails and whoever hangs up: it goes once it is told,
\* and is told once the job is in no list.
THEOREM FreedCorrect == Spec => []FreedIsForgotten
<1>1. PlaceInv => FreedIsForgotten
  BY DEF PlaceInv, ListedOK, Listed, FreedIsForgotten, Active
<1>. QED  BY <1>1, Places, PTL

-----------------------------------------------------------------------------
(* Lists of tokens. *)

\* The beginning of a list, and one token or more of it more.
LEMMA Beginning ==
  ASSUME NEW S, NEW q \in Seq(S), NEW m \in 0 .. Len(q)
  PROVE  /\ SubSeq(q, 1, m) \in Seq(S) /\ Len(SubSeq(q, 1, m)) = m
         /\ \A k \in 1 .. m : SubSeq(q, 1, m)[k] = q[k]
         /\ SubSeq(q, 1, 0) = <<>>
         /\ m < Len(q) => q[m + 1] \in S /\ SubSeq(q, 1, m + 1) = SubSeq(q, 1, m) \o <<q[m + 1]>>
         /\ \A n \in m .. Len(q) : SubSeq(q, 1, m) \o SubSeq(q, m + 1, n) = SubSeq(q, 1, n)
<1>1. Len(q) \in Nat /\ \A k \in 1 .. Len(q) : q[k] \in S
  BY LenProperties, ElementOfSeq
<1>2. /\ SubSeq(q, 1, m) \in Seq(S) /\ Len(SubSeq(q, 1, m)) = IF 1 <= m THEN m - 1 + 1 ELSE 0
      /\ \A k \in 1 .. m - 1 + 1 : SubSeq(q, 1, m)[k] = q[1 + k - 1]
  <2>1. \A k \in 1 .. m : q[k] \in S
    BY <1>1
  <2>. QED  BY <1>1, <2>1, SubSeqProperties
<1>3. /\ SubSeq(q, 1, m) \in Seq(S) /\ Len(SubSeq(q, 1, m)) = m
      /\ \A k \in 1 .. m : SubSeq(q, 1, m)[k] = q[k]
  BY <1>1, <1>2
<1>4. SubSeq(q, 1, 0) = <<>>
  BY SubSeqEmpty
<1>5. ASSUME m < Len(q)
      PROVE  q[m + 1] \in S /\ SubSeq(q, 1, m + 1) = SubSeq(q, 1, m) \o <<q[m + 1]>>
  <2>1. m + 1 \in 1 .. Len(q) /\ 1 \in 1 .. Len(q) /\ (m + 1) - 1 = m
    BY <1>1, <1>5
  <2>2. SubSeq(q, 1, m + 1) = SubSeq(q, 1, (m + 1) - 1) \o <<q[m + 1]>>
    BY <2>1, SubSeqRecursiveSecond
  <2>. QED  BY <1>1, <2>1, <2>2
<1>6. ASSUME NEW n \in m .. Len(q)
      PROVE  SubSeq(q, 1, m) \o SubSeq(q, m + 1, n) = SubSeq(q, 1, n)
  <2>1. 1 \in 1 .. Len(q) + 1 /\ m \in 1 - 1 .. Len(q)
    BY <1>1
  <2>. QED  BY <2>1, ConcatAdjacentSubSeq
<1>. QED  BY <1>3, <1>4, <1>5, <1>6

\* The beginning of a list put together, from the end of its first part on.
LEMMA Trimmed ==
  ASSUME NEW S, NEW p \in Seq(S), NEW q \in Seq(S), NEW m \in 0 .. Len(q)
  PROVE  SubSeq(p \o q, 1, Len(p) + m) = p \o SubSeq(q, 1, m)
<1>. DEFINE n == Len(p) + m  a == SubSeq(p \o q, 1, n)  b == p \o SubSeq(q, 1, m)
<1>1. Len(p) \in Nat /\ Len(q) \in Nat /\ p \o q \in Seq(S) /\ Len(p \o q) = Len(p) + Len(q)
  BY LenProperties, ConcatProperties
<1>2. n \in 0 .. Len(p \o q)
  BY <1>1
<1>3. a \in Seq(S) /\ Len(a) = n /\ \A k \in 1 .. n : a[k] = (p \o q)[k]
  <2>. HIDE DEF n
  <2>. QED  BY <1>1, <1>2, Beginning
<1>4. /\ SubSeq(q, 1, m) \in Seq(S) /\ Len(SubSeq(q, 1, m)) = m
      /\ \A k \in 1 .. m : SubSeq(q, 1, m)[k] = q[k]
  BY Beginning
<1>5. /\ b \in Seq(S) /\ Len(b) = n
      /\ \A k \in 1 .. n : b[k] = IF k <= Len(p) THEN p[k] ELSE SubSeq(q, 1, m)[k - Len(p)]
  BY <1>4, ConcatProperties
<1>6. \A k \in 1 .. Len(p) + Len(q) : (p \o q)[k] = IF k <= Len(p) THEN p[k] ELSE q[k - Len(p)]
  BY ConcatProperties
<1>7. ASSUME NEW k \in 1 .. n PROVE a[k] = b[k]
  <2>1. k \in 1 .. Len(p) + Len(q) /\ (~(k <= Len(p)) => k - Len(p) \in 1 .. m)
    BY <1>1
  <2>. HIDE DEF a, b, n
  <2>2. CASE k <= Len(p)
    BY <1>3, <1>5, <1>6, <2>1, <2>2
  <2>3. CASE ~(k <= Len(p))
    BY <1>3, <1>4, <1>5, <1>6, <2>1, <2>3
  <2>. QED  BY <2>2, <2>3
<1>. HIDE DEF a, b, n
<1>8. a = b
  BY <1>3, <1>5, <1>7, SeqEqual
<1>. QED  BY <1>8 DEF a, b, n

\* One token more.
LEMMA Longer ==
  ASSUME NEW S, NEW q \in Seq(S), NEW e \in S
  PROVE  /\ Append(q, e) \in Seq(S) /\ Append(q, e) = q \o <<e>> /\ Len(Append(q, e)) = Len(q) + 1
         /\ Append(q, e) # <<>> /\ Last(Append(q, e)) = e
         /\ \A p \in Seq(S) : p \o Append(q, e) = (p \o q) \o <<e>>
         /\ \A k \in 1 .. Len(q) : /\ Append(q, e)[k] = q[k]
                                   /\ SubSeq(Append(q, e), 1, k - 1) = SubSeq(q, 1, k - 1)
         /\ Append(q, e)[Len(q) + 1] = e /\ SubSeq(Append(q, e), 1, Len(q)) = q
<1>. DEFINE p == Append(q, e)  n == Len(q)
<1>1. /\ p \in Seq(S) /\ p # <<>> /\ Len(p) = n + 1 /\ p[n + 1] = e /\ n \in Nat
      /\ \A k \in 1 .. n : p[k] = q[k]
  BY AppendProperties, LenProperties
<1>2. p = q \o <<e>>
  BY AppendIsConcat
<1>3. <<e>> \in Seq(S)
  OBVIOUS
<1>. HIDE DEF p
<1>4. Last(p) = e
  BY <1>1 DEF Last
<1>5. \A v \in Seq(S) : v \o p = (v \o q) \o <<e>>
  BY <1>2, <1>3, ConcatAssociative
<1>6. ASSUME NEW m \in 0 .. n PROVE SubSeq(p, 1, m) = SubSeq(q, 1, m)
  <2>1. m \in 0 .. Len(p) /\ m \in 0 .. Len(q)
    BY <1>1
  <2>2. /\ SubSeq(p, 1, m) \in Seq(S) /\ Len(SubSeq(p, 1, m)) = m
        /\ \A k \in 1 .. m : SubSeq(p, 1, m)[k] = p[k]
    BY <1>1, <2>1, Beginning
  <2>3. /\ SubSeq(q, 1, m) \in Seq(S) /\ Len(SubSeq(q, 1, m)) = m
        /\ \A k \in 1 .. m : SubSeq(q, 1, m)[k] = q[k]
    BY <2>1, Beginning
  <2>4. \A k \in 1 .. m : SubSeq(p, 1, m)[k] = SubSeq(q, 1, m)[k]
    BY <1>1, <2>2, <2>3
  <2>. QED  BY <2>2, <2>3, <2>4, SeqEqual
<1>7. SubSeq(p, 1, n) = q
  <2>1. n \in 0 .. n
    BY <1>1
  <2>. QED  BY <1>6, <2>1, SubSeqFull
<1>8. \A k \in 1 .. n : k - 1 \in 0 .. n
  BY <1>1
<1>9. \A k \in 1 .. n : p[k] = q[k] /\ SubSeq(p, 1, k - 1) = SubSeq(q, 1, k - 1)
  BY <1>1, <1>6, <1>8
<1>. QED  BY <1>1, <1>2, <1>4, <1>5, <1>7, <1>9 DEF p

\* A number of the set that none is above.
LEMMA MaxIsMax ==
  ASSUME NEW n \in Nat, NEW S \in SUBSET (0 .. n), S # {}
  PROVE  Max(S) \in S /\ \A k \in S : k <= Max(S)
<1>. DEFINE U == {n - k : k \in S}
<1>1. U \in SUBSET Nat /\ U # {}
  <2>1. PICK k \in S : n - k \in U
    OBVIOUS
  <2>2. \A m \in S : n - m \in Nat
    OBVIOUS
  <2>. QED  BY <2>1, <2>2
<1>2. PICK m \in U : \A k \in U : m <= k
  <2>. HIDE DEF U
  <2>. QED  BY <1>1, LeastNatural
<1>3. PICK x \in S : m = n - x
  BY <1>2
<1>4. \A y \in S : x >= y
  BY <1>2, <1>3
<1>5. \E z \in S : \A y \in S : z >= y
  BY <1>4
<1>6. Max(S) \in S /\ \A y \in S : Max(S) >= y
  BY <1>5 DEF Max
<1>. QED  BY <1>6

LEMMA OfTwo ==
  ASSUME NEW a \in Int, NEW b \in Int
  PROVE  Min({a, b}) = (IF a <= b THEN a ELSE b) /\ Max({a, b}) = (IF a <= b THEN b ELSE a)
<1>1. \E x \in {a, b} : \A y \in {a, b} : x =< y
  OBVIOUS
<1>2. Min({a, b}) \in {a, b} /\ \A y \in {a, b} : Min({a, b}) =< y
  BY <1>1 DEF Min
<1>3. \E x \in {a, b} : \A y \in {a, b} : x >= y
  OBVIOUS
<1>4. Max({a, b}) \in {a, b} /\ \A y \in {a, b} : Max({a, b}) >= y
  BY <1>3 DEF Max
<1>. QED  BY <1>2, <1>4

LEMMA LeastOfThree ==
  ASSUME NEW a \in Int, NEW b \in Int, NEW c \in Int
  PROVE  /\ Min({a, b, c}) \in Int
         /\ Min({a, b, c}) <= a /\ Min({a, b, c}) <= b /\ Min({a, b, c}) <= c
<1>1. \E x \in {a, b, c} : \A y \in {a, b, c} : x =< y
  OBVIOUS
<1>2. Min({a, b, c}) \in {a, b, c} /\ \A y \in {a, b, c} : Min({a, b, c}) =< y
  BY <1>1 DEF Min
<1>. QED  BY <1>2

\* What is reused of a sequence is a beginning of the prompt, and not all of it.
LEMMA Reused ==
  ASSUME NEW ids \in Seq(Tokens), Len(ids) >= 1, NEW s, cached[s] \in Seq(Tokens)
  PROVE  /\ Reuse(ids, s) \in Nat /\ Reuse(ids, s) < Len(ids) /\ Reuse(ids, s) <= Len(cached[s])
         /\ SubSeq(ids, 1, Reuse(ids, s)) = SubSeq(cached[s], 1, Reuse(ids, s))
<1>. DEFINE limit == Min({Len(ids) - 1, Len(cached[s])})
            N == {n \in 0 .. limit : SubSeq(ids, 1, n) = SubSeq(cached[s], 1, n)}
<1>1. Len(ids) \in Nat /\ Len(cached[s]) \in Nat
  BY LenProperties
<1>2. limit \in Nat /\ limit <= Len(ids) - 1 /\ limit <= Len(cached[s])
  BY <1>1, OfTwo
<1>3. SubSeq(ids, 1, 0) = SubSeq(cached[s], 1, 0)
  BY SubSeqEmpty
<1>. HIDE DEF limit
<1>4. N \in SUBSET (0 .. limit) /\ N # {}
  <2>1. 0 \in 0 .. limit
    BY <1>2
  <2>2. 0 \in N
    BY <1>3, <2>1, Zenon
  <2>. QED  BY <2>2, Zenon
<1>5. Max(N) \in N
  <2>. HIDE DEF N
  <2>. QED  BY <1>2, <1>4, MaxIsMax
<1>6. Reuse(ids, s) = IF PrefixCache THEN Max(N) ELSE 0
  BY DEF Reuse, limit
<1>. HIDE DEF N
<1>7. Reuse(ids, s) \in N
  <2>1. 0 \in N
    BY <1>2, <1>3 DEF N
  <2>. QED  BY <1>5, <1>6, <2>1
<1>. QED  BY <1>1, <1>2, <1>7 DEF N

-----------------------------------------------------------------------------
(* What a job's sequence holds: each step keeps HeldInv. *)

LEMMA HoldingRequests ==
  ASSUME ListTypes
  PROVE  /\ Range(running) \subseteq Holding /\ Holding \subseteq Requests /\ Holding \subseteq Listed
         /\ taking \subseteq LiveSet => taking \subseteq Range(running)
BY ListedRequests DEF Holding, Listed, LiveSet

\* A step that runs no token and takes none: the jobs that stay with the
\* scheduler keep what they have.
LEMMA SameHeld ==
  ASSUME PlaceInv, PlaceInv', HeldInv,
         ask' \in [Requests -> Asks \cup {NoAsk}], job' \in [Requests -> Jobs], busy' \in SUBSET Seqs,
         UNCHANGED <<reply, taking, cached, held>>,
         Range(running') \subseteq Range(running), Holding' \subseteq Holding,
         \A q \in Holding : ask'[q] = ask[q] /\ job'[q] = job[q],
         \A q \in Requests \ Holding : /\ job'[q] = job[q] \/ job'[q] = Blank
                                       /\ ask'[q] = ask[q] \/ reply[q] = <<>>,
         \A q \in Requests : ~done'[q] => ~done[q] /\ (q \in Holding => q \in Holding'),
         \A q \in Holding' : job[q].seq \in busy',
         AskOK', StagesOK'
  PROVE  HeldInv'
<1>1. /\ Range(running) \subseteq Holding /\ Holding \subseteq Requests
      /\ taking \subseteq Range(running)
  BY HoldingRequests DEF PlaceInv, HeldInv, StagesOK
<1>2. HeldTypes'
  BY DEF HeldInv, HeldTypes
<1>3. BlankOK'
  BY <1>1 DEF HeldInv, BlankOK
<1>4. SeqsOK'
  BY <1>1 DEF HeldInv, SeqsOK
<1>5. CachedIsHeld'
  BY <1>1 DEF HeldInv, CachedIsHeld
<1>6. ASSUME NEW q \in Range(running') PROVE JobOK(q)'
  <2>1. q \in Range(running) /\ JobOK(q) /\ ask'[q] = ask[q] /\ job'[q] = job[q]
    BY <1>1, <1>6 DEF HeldInv, JobsOK
  <2>2. /\ (q \in Prompting' <=> q \in Prompting) /\ (q \in LiveSet' <=> q \in LiveSet)
        /\ (q \in NotBegun' <=> q \in NotBegun)
    BY <1>6, <2>1 DEF Prompting, LiveSet, NotBegun
  <2>. QED  BY <2>1, <2>2 DEF JobOK, GoesOn
<1>7. RepliesAsAlone'
  <2>1. ASSUME NEW q \in Requests PROVE ask'[q] = ask[q] \/ reply[q] = <<>>
    BY <1>1
  <2>2. DOMAIN <<>> = {}
    BY EmptySeq, LenProperties
  <2>. QED  BY <2>1, <2>2 DEF HeldInv, RepliesAsAlone
<1>. QED  BY <1>2, <1>3, <1>4, <1>5, <1>6, <1>7 DEF HeldInv, JobsOK

\* What a step makes of one job, of its sequence, and of no other.
OneJob(r, s, x) ==
  /\ r \in Range(running) /\ s = job[r].seq /\ x \in Jobs /\ x.seq = s
  /\ job' = [job EXCEPT ![r] = x]
  /\ reply' \in [Requests -> Seq(Tokens)] /\ \A q \in Requests \ {r} : reply'[q] = reply[q]
  /\ cached' \in [Seqs -> Seq(Tokens)] /\ \A z \in Seqs \ {s} : cached'[z] = cached[z]
  /\ held' \in [Seqs -> Seq(Tokens)] /\ \A z \in Seqs \ {s} : held'[z] = held[z]
  /\ Len(held'[s]) <= Ctx
  /\ taking' \in {taking, taking \ {r}}
  /\ UNCHANGED <<ask, done, running, answering, busy>>
  /\ sched \notin {"lending", "hand back"} /\ sched' \notin {"lending", "hand back"}

\* What is to be shown of that job.
LEMMA OneJobHeld ==
  ASSUME PlaceInv, PlaceInv', HeldInv, Stirred, NEW r, NEW s, NEW x, OneJob(r, s, x),
         StagesOK', JobOK(r)', r \notin taking' => cached'[s] = held'[s],
         \A k \in DOMAIN reply'[r] : reply'[r][k] = Gives(ask[r].ids \o SubSeq(reply'[r], 1, k - 1))
  PROVE  HeldInv'
<1>1. /\ Range(running) \subseteq Holding /\ Holding \subseteq Requests
      /\ taking \subseteq Range(running) /\ r \in Requests /\ r \in Holding
  BY HoldingRequests DEF PlaceInv, HeldInv, StagesOK, OneJob
<1>2. Holding' = Holding /\ job \in [Requests -> Jobs]
  BY DEF Holding, OneJob, HeldInv, HeldTypes
<1>3. \A q \in Requests : /\ q # r => job'[q] = job[q]
                          /\ q = r => job'[q] = x
                          /\ job'[q].seq = job[q].seq
  BY <1>1, <1>2 DEF OneJob
<1>4. \A q \in Holding \ {r} : job[q].seq # s
  <2>1. s = job[r].seq /\ SeqsOK
    BY DEF HeldInv, OneJob
  <2>. QED  BY <1>1, <2>1 DEF SeqsOK
<1>5. HeldTypes'
  <2>1. \A z \in Seqs : Len(held'[z]) <= Ctx
    BY DEF HeldInv, HeldTypes, OneJob
  <2>2. job' \in [Requests -> Jobs]
    BY <1>2 DEF OneJob
  <2>. QED  BY <2>1, <2>2 DEF HeldInv, HeldTypes, OneJob
<1>6. AskOK'
  BY DEF HeldInv, AskOK, OneJob, Stirred, Active
<1>7. BlankOK'
  BY <1>1, <1>2, <1>3 DEF HeldInv, BlankOK, OneJob
<1>8. SeqsOK'
  <2>1. \A q \in Holding' : q \in Holding /\ job'[q].seq = job[q].seq
    BY <1>1, <1>2, <1>3
  <2>2. SeqsOK /\ busy' = busy
    BY DEF HeldInv, OneJob
  <2>. QED  BY <2>1, <2>2 DEF SeqsOK
<1>9. CachedIsHeld'
  <2>1. ASSUME NEW z \in Seqs, \A q \in taking' : job'[q].seq # z PROVE cached'[z] = held'[z]
    <3>1. CASE z = s
      BY <1>1, <1>3, <2>1, <3>1 DEF OneJob
    <3>2. CASE z # s
      <4>1. \A q \in taking : job[q].seq # z
        BY <1>1, <1>3, <2>1, <3>2 DEF OneJob
      <4>. QED  BY <3>2, <4>1 DEF HeldInv, CachedIsHeld, OneJob
    <3>. QED  BY <3>1, <3>2
  <2>. QED  BY <2>1 DEF CachedIsHeld
<1>10. ASSUME NEW q \in Range(running), q # r PROVE JobOK(q)'
  <2>1. /\ JobOK(q) /\ job'[q] = job[q] /\ q \in Requests /\ q \in Holding
        /\ ask'[q] = ask[q] /\ reply'[q] = reply[q] /\ job[q].seq # s
        /\ (q \in taking' <=> q \in taking)
    BY <1>1, <1>3, <1>4, <1>10 DEF HeldInv, JobsOK, OneJob
  <2>2. /\ (q \in Prompting' <=> q \in Prompting) /\ (q \in LiveSet' <=> q \in LiveSet)
        /\ (q \in NotBegun' <=> q \in NotBegun)
    BY <1>10, <2>1 DEF Prompting, LiveSet, NotBegun, OneJob
  <2>3. job[q].seq \in Seqs
    BY <2>1 DEF HeldInv, SeqsOK, HeldTypes
  <2>4. cached'[job[q].seq] = cached[job[q].seq] /\ held'[job[q].seq] = held[job[q].seq]
    BY <2>1, <2>3 DEF OneJob
  <2>. QED  BY <2>1, <2>2, <2>4 DEF JobOK, GoesOn
<1>11. JobsOK'
  BY <1>10 DEF JobsOK, OneJob
<1>12. RepliesAsAlone'
  <2>1. ASSUME NEW q \in Requests, q # r
        PROVE  \A k \in DOMAIN reply'[q] : reply'[q][k] = Gives(ask'[q].ids \o SubSeq(reply'[q], 1, k - 1))
    <3>1. ask'[q] = ask[q] /\ reply'[q] = reply[q]
      BY <2>1 DEF OneJob
    <3>2. \A k \in DOMAIN reply[q] : reply[q][k] = Gives(ask[q].ids \o SubSeq(reply[q], 1, k - 1))
      BY DEF HeldInv, RepliesAsAlone
    <3>. QED  BY <3>1, <3>2
  <2>2. \A k \in DOMAIN reply'[r] : reply'[r][k] = Gives(ask'[r].ids \o SubSeq(reply'[r], 1, k - 1))
    BY DEF OneJob
  <2>. QED  BY <2>1, <2>2 DEF RepliesAsAlone
<1>. QED  BY <1>5, <1>6, <1>7, <1>8, <1>9, <1>11, <1>12 DEF HeldInv

LEMMA SameStages ==
  ASSUME HeldInv, UNCHANGED taking, Range(running') \subseteq Range(running),
         \A q \in Range(running') : job'[q] = job[q],
         taking = {} \/ Range(running') = Range(running),
         sched' \notin {"lending", "begin"} => sched \notin {"lending", "begin"} \/ NotBegun = {},
         sched' # "take" => taking = {}
  PROVE  StagesOK'
<1>1. NotBegun' \subseteq NotBegun
  BY DEF NotBegun
<1>2. ASSUME NEW q \in taking PROVE q \in LiveSet' \ NotBegun'
  BY <1>2 DEF HeldInv, StagesOK, LiveSet, NotBegun
<1>. QED  BY <1>1, <1>2 DEF HeldInv, StagesOK

\* Steps of the scheduler's that touch no job.
LEMMA QuietHeld ==
  ASSUME PlaceInv, PlaceInv', HeldInv,
         Top \/ Lent \/ Begun \/ Prompted \/ NoStep \/ Reaped \/ Free \/ UNCHANGED vars
  PROVE  HeldInv'
<1>1. UNCHANGED <<pc, ask, done, job, reply, taking, cached, held, running, answering, busy>>
  BY DEF Top, Lent, Begun, Prompted, NoStep, Reaped, Free, conn, shared, list, jobs, lists, model, vars
<1>2. /\ sched = "hand back" <=> sched' = "hand back"
      /\ sched' \notin {"lending", "begin"} => sched \notin {"lending", "begin"} \/ NotBegun = {}
      /\ sched' # "take" => sched # "take"
  <2>1. CASE Free \/ UNCHANGED vars
    BY <2>1 DEF Free, SchedWoken, vars
  <2>2. CASE Top \/ Lent \/ Begun \/ Prompted \/ NoStep \/ Reaped
    BY <2>2 DEF Top, Lent, Begun, Prompted, NoStep, Reaped, AfterRound
  <2>. QED  BY <2>1, <2>2
<1>3. Holding' = Holding
  BY <1>1, <1>2 DEF Holding
<1>4. StagesOK'
  BY <1>1, <1>2, SameStages DEF HeldInv, StagesOK
<1>5. AskOK'
  BY <1>1 DEF HeldInv, AskOK
<1>. QED  BY <1>1, <1>3, <1>4, <1>5, SameHeld DEF HeldInv, HeldTypes, SeqsOK

LEMMA BlankJob == Blank \in Jobs
<1>1. <<>> \in Seq(Tokens)
  BY EmptySeq
<1>. QED  BY <1>1 DEF Blank, Jobs

\* The connection's steps.
LEMMA ServeHeld ==
  ASSUME PlaceInv, PlaceInv', HeldInv, NEW r \in Requests, Serve(r)
  PROVE  HeldInv'
<1>1. /\ UNCHANGED <<ask, done, reply, taking, cached, held, running, answering, busy, sched>>
      /\ pc[r] \in {"awake", "sending"}
      /\ pc' = pc \/ \E x \in PCs \ {"idle"} : pc' = [pc EXCEPT ![r] = x]
      /\ job' = job \/ (done[r] /\ job' = [job EXCEPT ![r] = Blank])
  BY DEF Serve, Look, Send, list, jobs, lists, model, PCs, Active
<1>2. done[r] => r \notin Holding
  BY HoldingRequests DEF PlaceInv, ListedOK
<1>3. Holding' = Holding
  BY <1>1 DEF Holding
<1>4. Range(running) \subseteq Holding /\ Holding \subseteq Requests
  BY HoldingRequests DEF PlaceInv
<1>5. /\ job' \in [Requests -> Jobs]
      /\ \A q \in Requests : job'[q] = job[q] \/ (q \notin Holding /\ job'[q] = Blank)
  BY <1>1, <1>2, BlankJob DEF HeldInv, HeldTypes
<1>6. StagesOK'
  <2>1. \A q \in Range(running') : job'[q] = job[q]
    BY <1>1, <1>4, <1>5
  <2>. QED  BY <1>1, <2>1, SameStages DEF HeldInv, StagesOK
<1>7. AskOK'
  BY <1>1 DEF HeldInv, AskOK, PlaceInv, ListTypes
<1>8. \A q \in Holding : ask'[q] = ask[q] /\ job'[q] = job[q]
  BY <1>1, <1>4, <1>5
<1>. QED  BY <1>1, <1>3, <1>5, <1>6, <1>7, <1>8, SameHeld DEF HeldInv, HeldTypes, SeqsOK

LEMMA AskHeld ==
  ASSUME PlaceInv, PlaceInv', HeldInv, NEW r \in Requests, NEW a \in Asks, Ask(r, a)
  PROVE  HeldInv'
<1>1. /\ UNCHANGED <<done, job, reply, taking, cached, held, running, answering, busy>>
      /\ pc[r] = "idle" /\ ask' = [ask EXCEPT ![r] = a]
      /\ sched' = sched \/ (sched \in {"unborn", "asleep"} /\ sched' = "top")
      /\ \E x \in PCs : pc' = [pc EXCEPT ![r] = x]
  BY DEF Ask, Refused, Queued, SchedWoken, shared, list, jobs, lists, model, PCs, Active
<1>2. r \notin Holding /\ ~done[r]
  BY <1>1, HoldingRequests DEF PlaceInv, ListedOK, Active
<1>3. reply[r] = <<>>
  BY <1>2 DEF HeldInv, BlankOK
<1>4. Holding' = Holding
  BY <1>1 DEF Holding
<1>5. StagesOK'
  BY <1>1, SameStages DEF HeldInv, StagesOK
<1>6. ask' \in [Requests -> Asks \cup {NoAsk}] /\ \A q \in Requests \ {r} : ask'[q] = ask[q]
  BY <1>1 DEF HeldInv, HeldTypes
<1>7. AskOK'
  BY <1>1, <1>6 DEF HeldInv, HeldTypes, AskOK, PlaceInv, ListTypes
<1>8. Holding \subseteq Requests
  BY HoldingRequests DEF PlaceInv
<1>. QED  BY <1>1, <1>2, <1>3, <1>4, <1>5, <1>6, <1>7, <1>8, SameHeld DEF HeldInv, HeldTypes, SeqsOK

\* The scheduler tells a connection something, or that its job is done with.
LEMMA TellHeld ==
  ASSUME PlaceInv, PlaceInv', HeldInv, NEW r \in Requests,
         Refuse(r) \/ HasRefused(r) \/ End(r) \/ HandBack(r)
  PROVE  HeldInv'
<1>1. /\ UNCHANGED <<ask, job, reply, taking, cached, held>>
      /\ sched \notin {"lending", "begin", "take"} /\ sched' # "take"
  BY DEF Refuse, HasRefused, End, HandBack, list, jobs, lists, model
<1>2. Stirred
  <2>1. CASE Refuse(r) \/ End(r)
    BY <2>1, WriteStirs DEF PlaceInv, Refuse, End
  <2>2. CASE HasRefused(r) \/ HandBack(r)
    BY <2>2, WokenStirs DEF PlaceInv, HasRefused, HandBack, Done
  <2>. QED  BY <2>1, <2>2
<1>3. AskOK'
  BY <1>1, <1>2 DEF HeldInv, AskOK, Stirred, Active
<1>4. Range(running) \subseteq Holding /\ Holding \subseteq Requests
  BY HoldingRequests DEF PlaceInv
<1>5. taking = {}
  BY <1>1 DEF HeldInv, StagesOK
<1>6. CASE Refuse(r) \/ HasRefused(r)
  <2>1. /\ UNCHANGED <<running, busy>> /\ sched # "hand back" /\ sched' # "hand back"
        /\ done' = done \/ done' = [done EXCEPT ![r] = TRUE]
    BY <1>6 DEF Refuse, HasRefused, Done, list, lists
  <2>2. Holding' = Holding
    BY <2>1 DEF Holding
  <2>3. StagesOK'
    BY <1>1, <1>5, <2>1, SameStages
  <2>4. \A q \in Requests : ~done'[q] => ~done[q]
    BY <2>1 DEF PlaceInv, ListTypes
  <2>. QED  BY <1>1, <1>3, <2>1, <2>2, <2>3, <2>4, SameHeld DEF HeldInv, HeldTypes, SeqsOK
<1>7. CASE End(r)
  <2>1. /\ sched = "reap" /\ sched' = "hand back" /\ r \in Range(running)
        /\ running' = RemoveFirst(running, r) /\ answering' = <<r>> /\ UNCHANGED <<busy, done>>
    BY <1>7 DEF End, First, Ended, lists
  <2>2. Range(running') = Range(running) \ {r}
    BY <2>1, RemoveList DEF PlaceInv, ListTypes, OnceOK
  <2>3. Holding' = Holding
    BY <2>1, <2>2, OneList DEF Holding
  <2>4. StagesOK'
    BY <1>1, <1>5, <2>2, SameStages
  <2>. QED  BY <1>1, <1>3, <2>1, <2>2, <2>3, <2>4, SameHeld DEF HeldInv, HeldTypes, SeqsOK
<1>8. CASE HandBack(r)
  <2>1. /\ sched = "hand back" /\ sched' = "reap" /\ r = Head(answering)
        /\ busy' = busy \ {job[r].seq} /\ done' = [done EXCEPT ![r] = TRUE] /\ UNCHANGED running
    BY <1>8 DEF HandBack, Done
  <2>2. Range(answering) = {r} /\ r \notin Range(running)
    <3>1. Range(answering) = {r}
      BY <2>1, HeadOnly DEF PlaceInv, AnsweringOK, ListTypes
    <3>. QED  BY <3>1 DEF PlaceInv, OnceOK
  <2>3. Holding = Holding' \cup {r} /\ Holding' = Range(running) /\ r \notin Holding'
    BY <2>1, <2>2 DEF Holding
  <2>4. StagesOK'
    BY <1>1, <1>5, <2>1, SameStages
  <2>5. \A q \in Holding' : job[q].seq \in busy'
    BY <2>1, <2>3 DEF HeldInv, SeqsOK
  <2>6. \A q \in Requests : ~done'[q] => ~done[q] /\ (q \in Holding => q \in Holding')
    BY <2>1, <2>3 DEF PlaceInv, ListTypes
  <2>7. busy' \in SUBSET Seqs
    BY <2>1 DEF HeldInv, HeldTypes
  <2>. QED  BY <1>1, <1>3, <2>1, <2>3, <2>4, <2>5, <2>6, <2>7, SameHeld DEF HeldInv, HeldTypes
<1>. QED  BY <1>6, <1>7, <1>8

\* A job gets a sequence that no other has.
LEMMA LendHeld ==
  ASSUME PlaceInv, PlaceInv', HeldInv, Lend
  PROVE  HeldInv'
<1>. DEFINE r == Head(queue)
<1>1. PICK s \in Seqs : /\ IsPick(ask[r].ids, s) /\ busy' = busy \cup {s}
                        /\ job' = [job EXCEPT ![r].seq = s]
  BY DEF Lend
<1>2. /\ sched = "lending" /\ sched' = "lending" /\ queue # <<>> /\ running' = Append(running, r)
      /\ UNCHANGED <<pc, ask, done, reply, taking, cached, held, answering>>
  BY DEF Lend, conn, model
<1>3. r \in Range(queue) /\ r \in Requests
  BY <1>2, TailList DEF PlaceInv, ListTypes
<1>. HIDE DEF r
<1>4. Range(running') = Range(running) \cup {r} /\ r \notin Range(running)
  <2>1. r \notin Range(running)
    BY <1>3 DEF PlaceInv, OnceOK
  <2>. QED  BY <1>2, <1>3, <2>1, AppendList DEF PlaceInv, ListTypes
<1>5. Holding = Range(running) /\ Holding' = Holding \cup {r} /\ r \notin Holding
  BY <1>2, <1>4 DEF Holding
<1>6. job[r] = Blank /\ reply[r] = <<>>
  BY <1>3, <1>5 DEF PlaceInv, ListedOK, Listed, HeldInv, BlankOK
<1>7. s \notin busy
  BY <1>1 DEF IsPick
<1>8. /\ job' \in [Requests -> Jobs] /\ job'[r] = [Blank EXCEPT !.seq = s]
      /\ \A q \in Requests \ {r} : job'[q] = job[q]
  <2>1. job \in [Requests -> Jobs]
    BY DEF HeldInv, HeldTypes
  <2>2. job' = [job EXCEPT ![r] = [Blank EXCEPT !.seq = s]]
    BY <1>1, <1>3, <1>6, <2>1
  <2>3. [Blank EXCEPT !.seq = s] \in Jobs
    BY BlankJob DEF Jobs
  <2>. QED  BY <1>3, <2>1, <2>2, <2>3
<1>9. /\ job'[r].seq = s /\ ~job'[r].begun /\ ~job'[r].prompting /\ ~job'[r].ended /\ job'[r].row = 0
  BY <1>8 DEF Blank
<1>10. Holding \subseteq Requests /\ taking = {}
  BY <1>2, HoldingRequests DEF PlaceInv, HeldInv, StagesOK
<1>11. HeldTypes' /\ AskOK'
  BY <1>1, <1>2, <1>8 DEF HeldInv, HeldTypes, AskOK
<1>12. BlankOK'
  <2>1. \A q \in Requests \ Holding' : q \in Requests \ Holding /\ job'[q] = job[q] /\ reply'[q] = reply[q]
    BY <1>2, <1>5, <1>8
  <2>. QED  BY <1>2, <2>1 DEF HeldInv, BlankOK
<1>13. SeqsOK'
  <2>1. \A q \in Holding : job'[q].seq = job[q].seq /\ job[q].seq \in busy
    BY <1>5, <1>8, <1>10 DEF HeldInv, SeqsOK
  <2>2. \A q, p \in Holding : job[q].seq = job[p].seq => q = p
    BY DEF HeldInv, SeqsOK
  <2>. QED  BY <1>1, <1>5, <1>7, <1>9, <2>1, <2>2 DEF SeqsOK
<1>14. StagesOK' /\ CachedIsHeld'
  BY <1>2, <1>10 DEF HeldInv, StagesOK, CachedIsHeld
<1>15. ASSUME NEW q \in Range(running') PROVE JobOK(q)'
  <2>1. CASE q = r
    <3>1. r \notin Prompting' /\ r \in NotBegun' /\ r \notin taking'
      BY <1>2, <1>4, <1>9, <1>10 DEF Prompting, NotBegun
    <3>. QED  BY <1>2, <1>6, <1>9, <2>1, <3>1 DEF JobOK
  <2>2. CASE q # r
    <3>1. /\ q \in Range(running) /\ JobOK(q) /\ job'[q] = job[q]
      BY <1>4, <1>5, <1>8, <1>10, <1>15, <2>2 DEF HeldInv, JobsOK
    <3>2. /\ (q \in Prompting' <=> q \in Prompting) /\ (q \in LiveSet' <=> q \in LiveSet)
          /\ (q \in NotBegun' <=> q \in NotBegun)
      BY <1>15, <3>1 DEF Prompting, LiveSet, NotBegun
    <3>. QED  BY <1>2, <3>1, <3>2 DEF JobOK, GoesOn
  <2>. QED  BY <2>1, <2>2
<1>16. RepliesAsAlone'
  BY <1>2 DEF HeldInv, RepliesAsAlone
<1>. QED  BY <1>11, <1>12, <1>13, <1>14, <1>15, <1>16 DEF HeldInv, JobsOK

\* A job that ended asks nothing more of its sequence.
LEMMA OverOK == \A p : job[p].begun /\ job[p].ended /\ p \notin taking => JobOK(p)
BY DEF JobOK, Prompting, LiveSet

LEMMA OverNext == (\A p : job[p].begun /\ job[p].ended /\ p \notin taking => JobOK(p))'
BY OverOK, PTL

\* The device is lost: the jobs end as they are.
LEMMA LoseHeld ==
  ASSUME PlaceInv, PlaceInv', HeldInv, Lose
  PROVE  HeldInv'
<1>1. /\ sched = "lose" /\ sched' \in {"reap", "refuse"}
      /\ job' = [r \in Requests |-> IF r \in Range(running) /\ ~job[r].ended
                                    THEN [job[r] EXCEPT !.ok = FALSE, !.ended = TRUE] ELSE job[r]]
      /\ UNCHANGED <<pc, ask, done, reply, taking, cached, held, running, busy>>
  BY DEF Lose, conn, lists, model
<1>2. Range(running) \subseteq Requests /\ Holding = Range(running) /\ Holding' = Range(running)
  BY <1>1, ListedRequests DEF PlaceInv, Holding
<1>3. taking = {} /\ NotBegun = {}
  BY <1>1 DEF HeldInv, StagesOK
<1>4. \A q \in Requests : job[q] \in Jobs
  BY DEF HeldInv, HeldTypes
<1>5. /\ job' \in [Requests -> Jobs]
      /\ \A q \in Requests : /\ job'[q].seq = job[q].seq /\ job'[q].begun = job[q].begun
                             /\ q \notin Range(running) => job'[q] = job[q]
                             /\ q \in Range(running) => job'[q].ended
  BY <1>1, <1>4 DEF Jobs
<1>6. HeldTypes' /\ AskOK' /\ BlankOK'
  BY <1>1, <1>2, <1>5 DEF HeldInv, HeldTypes, AskOK, BlankOK
<1>7. SeqsOK'
  <2>1. \A q \in Holding' : q \in Holding /\ job'[q].seq = job[q].seq
    BY <1>2, <1>5
  <2>2. SeqsOK /\ busy' = busy
    BY <1>1 DEF HeldInv
  <2>. QED  BY <2>1, <2>2 DEF SeqsOK
<1>8. NotBegun' = {}
  BY <1>1, <1>2, <1>3, <1>5 DEF NotBegun
<1>9. StagesOK' /\ CachedIsHeld'
  BY <1>1, <1>3, <1>8 DEF HeldInv, StagesOK, CachedIsHeld
<1>10. ASSUME NEW q \in Range(running') PROVE JobOK(q)'
  <2>1. q \in Range(running) /\ job'[q].ended /\ job'[q].begun /\ q \notin taking'
    BY <1>1, <1>2, <1>3, <1>5, <1>10 DEF NotBegun
  <2>. QED  BY <2>1, OverNext
<1>11. RepliesAsAlone'
  BY <1>1 DEF HeldInv, RepliesAsAlone
<1>. QED  BY <1>6, <1>7, <1>9, <1>10, <1>11 DEF HeldInv, JobsOK

\* What a job with a sequence is known to have.
LEMMA JobFacts ==
  ASSUME PlaceInv, HeldInv, NEW r \in Range(running)
  PROVE  /\ r \in Requests /\ r \in Holding /\ ask[r] \in Asks /\ ask[r].ids \in Seq(Tokens)
         /\ Len(ask[r].ids) >= 1 /\ ask[r].max \in Nat /\ Len(ask[r].ids) + ask[r].max <= Ctx
         /\ job[r] \in Jobs /\ job[r].seq \in Seqs /\ reply[r] \in Seq(Tokens)
         /\ cached[job[r].seq] \in Seq(Tokens) /\ held[job[r].seq] \in Seq(Tokens)
         /\ Len(held[job[r].seq]) <= Ctx /\ JobOK(r)
         /\ taking = {} => cached[job[r].seq] = held[job[r].seq]
<1>1. r \in Requests /\ r \in Holding /\ pc[r] # "idle"
  BY HoldingRequests DEF PlaceInv, ListedOK, Listed, Active
<1>2. ask[r] \in Asks /\ job[r].seq \in Seqs
  BY <1>1 DEF HeldInv, AskOK, SeqsOK, HeldTypes
<1>. QED  BY <1>1, <1>2, SchedulerAssumption DEF HeldInv, HeldTypes, JobsOK, CachedIsHeld

LEMMA BeginHeld ==
  ASSUME PlaceInv, PlaceInv', HeldInv, NEW r \in Requests, Begin(r)
  PROVE  HeldInv'
<1>. DEFINE s == job[r].seq  ids == ask[r].ids  n == Reuse(ids, s)
            x == [job[r] EXCEPT !.begun = TRUE, !.prompting = TRUE, !.at = n, !.ok = TRUE]
<1>1. /\ sched = "begin" /\ sched' = "begin" /\ r \in NotBegun /\ r \in Range(running)
      /\ held' = [held EXCEPT ![s] = SubSeq(@, 1, Min({n, Len(@)}))]
      /\ cached' = [cached EXCEPT ![s] = SubSeq(@, 1, n)]
      /\ job' = [job EXCEPT ![r] = x]
      /\ UNCHANGED <<ask, done, running, answering, taking, reply, busy>>
  BY DEF Begin, First, NotBegun, list
<1>2. Stirred
  BY WriteStirs DEF PlaceInv, Begin
<1>3. taking = {}
  BY <1>1 DEF HeldInv, StagesOK
<1>4. /\ ids \in Seq(Tokens) /\ Len(ids) >= 1 /\ s \in Seqs /\ job[r] \in Jobs
      /\ cached[s] \in Seq(Tokens) /\ held[s] = cached[s] /\ Len(held[s]) <= Ctx /\ JobOK(r)
      /\ reply[r] \in Seq(Tokens)
  BY <1>1, <1>3, JobFacts
<1>5. ~job[r].begun /\ ~job[r].ended /\ reply[r] = <<>> /\ job[r].row = 0
  BY <1>1, <1>4 DEF NotBegun, JobOK
<1>6. /\ n \in Nat /\ n < Len(ids) /\ n <= Len(cached[s]) /\ Len(cached[s]) \in Nat
      /\ SubSeq(ids, 1, n) = SubSeq(cached[s], 1, n)
  BY <1>4, Reused, LenProperties
<1>7. x \in Jobs /\ x.seq = s /\ x.begun /\ x.prompting /\ ~x.ended /\ x.at = n /\ x.ok /\ x.row = 0
  BY <1>4, <1>5, <1>6 DEF Jobs
<1>. HIDE DEF n, x
<1>8. Min({n, Len(held[s])}) = n
  BY <1>4, <1>6, OfTwo
<1>9. /\ cached' \in [Seqs -> Seq(Tokens)] /\ held' \in [Seqs -> Seq(Tokens)]
      /\ \A z \in Seqs \ {s} : cached'[z] = cached[z] /\ held'[z] = held[z]
      /\ cached'[s] = SubSeq(ids, 1, n) /\ held'[s] = SubSeq(ids, 1, n) /\ Len(held'[s]) <= Ctx
  <2>1. SubSeq(cached[s], 1, n) \in Seq(Tokens) /\ Len(SubSeq(cached[s], 1, n)) = n
    BY <1>4, <1>6, Beginning
  <2>2. n <= Ctx
    BY <1>4, <1>6, SchedulerAssumption
  <2>. QED  BY <1>1, <1>4, <1>6, <1>8, <2>1, <2>2 DEF HeldInv, HeldTypes
<1>10. OneJob(r, s, x)
  BY <1>1, <1>7, <1>9 DEF OneJob, HeldInv, HeldTypes
<1>11. \A q \in Requests : /\ q # r => job'[q] = job[q]
                           /\ q = r => job'[q] = x
  BY <1>1 DEF HeldInv, HeldTypes
<1>12. StagesOK'
  BY <1>1, <1>3 DEF StagesOK
<1>13. JobOK(r)'
  <2>1. r \notin LiveSet' /\ r \notin taking' /\ job'[r] = x
    BY <1>1, <1>3, <1>7, <1>11 DEF LiveSet
  <2>. QED  BY <1>1, <1>5, <1>6, <1>7, <1>9, <2>1 DEF JobOK
<1>14. cached'[s] = held'[s]
  BY <1>9
<1>15. DOMAIN reply'[r] = {}
  BY <1>1, <1>5, EmptySeq, LenProperties
<1>. QED  BY <1>2, <1>10, <1>12, <1>13, <1>14, <1>15, OneJobHeld

LEMMA GivesToken ==
  ASSUME NEW context \in Seq(Tokens), Len(context) <= Ctx
  PROVE  Gives(context) \in Tokens \cup {NoToken}
<1>1. Len(context) \in 0 .. Ctx /\ context \in [1 .. Len(context) -> Tokens]
  BY LenProperties, SchedulerAssumption
<1>. QED  BY <1>1, SchedulerAssumption

\* The token a job takes after its prompt and its reply so far is the one it
\* would take alone.
LEMMA Taken ==
  ASSUME PlaceInv, HeldInv, NEW r \in Range(running), NEW u, TakeToken(r, u),
         u = Gives(ask[r].ids \o reply[r]), Len(ask[r].ids \o reply[r]) <= Ctx
  PROVE  /\ u \in Tokens \cup {NoToken} /\ Stirred
         /\ reply' \in [Requests -> Seq(Tokens)] /\ \A q \in Requests \ {r} : reply'[q] = reply[q]
         /\ \A k \in DOMAIN reply'[r] : reply'[r][k] = Gives(ask[r].ids \o SubSeq(reply'[r], 1, k - 1))
         /\ Goes(r, u) => /\ u \in Tokens /\ reply'[r] # <<>> /\ Last(reply'[r]) \notin Ends
                          /\ Len(reply'[r]) < ask[r].max
                          /\ ask[r].ids \o reply'[r] = (ask[r].ids \o reply[r]) \o <<u>>
<1>. DEFINE ids == ask[r].ids  w == reply[r]
<1>1. r \in Requests /\ ids \in Seq(Tokens) /\ w \in Seq(Tokens) /\ Len(w) \in Nat /\ DOMAIN w = 1 .. Len(w)
  BY JobFacts, LenProperties
<1>2. ids \o w \in Seq(Tokens)
  BY <1>1, ConcatProperties
<1>3. u \in Tokens \cup {NoToken}
  BY <1>2, GivesToken
<1>4. Stirred
  BY WriteStirs, <1>1 DEF PlaceInv, TakeToken
<1>5. reply' = [reply EXCEPT ![r] = IF u = NoToken THEN w ELSE Append(w, u)] /\ reply \in [Requests -> Seq(Tokens)]
  BY DEF TakeToken, HeldInv, HeldTypes
<1>6. \A k \in 1 .. Len(w) : w[k] = Gives(ids \o SubSeq(w, 1, k - 1))
  BY <1>1 DEF HeldInv, RepliesAsAlone
<1>7. CASE u = NoToken
  <2>1. reply' = reply
    BY <1>1, <1>5, <1>7
  <2>2. ~Goes(r, u)
    BY <1>7 DEF Goes
  <2>. QED  BY <1>1, <1>3, <1>4, <1>5, <1>6, <2>1, <2>2
<1>8. CASE u # NoToken
  <2>. DEFINE p == Append(w, u)
  <2>1. u \in Tokens
    BY <1>3, <1>8
  <2>2. /\ p \in Seq(Tokens) /\ Len(p) = Len(w) + 1 /\ p # <<>> /\ Last(p) = u
        /\ ids \o p = (ids \o w) \o <<u>>
        /\ \A k \in 1 .. Len(w) : p[k] = w[k] /\ SubSeq(p, 1, k - 1) = SubSeq(w, 1, k - 1)
        /\ p[Len(w) + 1] = u /\ SubSeq(p, 1, Len(w)) = w
    <3>. HIDE DEF ids, w
    <3>. QED  BY <1>1, <2>1, Longer
  <2>3. DOMAIN p = 1 .. Len(w) + 1
    BY <2>2, LenProperties
  <2>. HIDE DEF p
  <2>4. reply' \in [Requests -> Seq(Tokens)] /\ reply'[r] = p /\ \A q \in Requests \ {r} : reply'[q] = reply[q]
    BY <1>1, <1>5, <1>8, <2>2 DEF p
  <2>5. ASSUME NEW k \in DOMAIN p PROVE p[k] = Gives(ids \o SubSeq(p, 1, k - 1))
    <3>1. CASE k \in 1 .. Len(w)
      BY <1>6, <2>2, <3>1
    <3>2. CASE k = Len(w) + 1
      <4>1. k - 1 = Len(w)
        BY <1>1, <3>2
      <4>. QED  BY <2>2, <3>2, <4>1
    <3>. QED  BY <1>1, <2>3, <3>1, <3>2
  <2>6. Goes(r, u) => u \notin Ends /\ Len(p) < ask[r].max
    BY <2>2 DEF Goes
  <2>. QED  BY <1>3, <1>4, <2>1, <2>2, <2>4, <2>5, <2>6
<1>. QED  BY <1>7, <1>8

\* A job after k tokens of its prompt: when a step failed, when there is more
\* of it, when no token is to be taken after it, and when t is.
PieceFailed(j, k) == [j EXCEPT !.at = k, !.ok = FALSE, !.prompting = FALSE, !.ended = TRUE]
PieceRan(j, k) == [j EXCEPT !.at = k]
PromptOver(j, k) == [j EXCEPT !.at = k, !.prompting = FALSE, !.ended = TRUE]
PromptTook(j, k, t, over) == [j EXCEPT !.at = k, !.t = t, !.prompting = FALSE, !.ended = over]

LEMMA PromptedJob ==
  ASSUME NEW j \in Jobs, NEW k \in Nat
  PROVE  /\ PieceFailed(j, k) \in Jobs /\ PieceFailed(j, k).seq = j.seq
         /\ PieceFailed(j, k).begun = j.begun /\ PieceFailed(j, k).ended = TRUE
         /\ PieceRan(j, k) \in Jobs /\ PieceRan(j, k).seq = j.seq
         /\ PieceRan(j, k).begun = j.begun /\ PieceRan(j, k).ended = j.ended
         /\ PieceRan(j, k).prompting = j.prompting /\ PieceRan(j, k).at = k
         /\ PieceRan(j, k).ok = j.ok /\ PieceRan(j, k).row = j.row
         /\ PromptOver(j, k) \in Jobs /\ PromptOver(j, k).seq = j.seq
         /\ PromptOver(j, k).begun = j.begun /\ PromptOver(j, k).ended = TRUE
BY DEF Jobs, PieceFailed, PieceRan, PromptOver

LEMMA PromptHeld ==
  ASSUME PlaceInv, PlaceInv', HeldInv, "push" \notin Faults, NEW r \in Requests, Prompt(r)
  PROVE  HeldInv'
<1>. DEFINE j == job[r]  s == j.seq  ids == ask[r].ids  left == Len(ids) - j.at  n == PieceOf(left)
            tokens(ran) == SubSeq(ids, j.at + 1, j.at + ran)
            u(ran) == Gives(held[s] \o tokens(ran))
            Ran(ran) == /\ held' = [held EXCEPT ![s] = held[s] \o tokens(ran)]
                        /\ cached' = [cached EXCEPT ![s] = cached[s] \o tokens(ran)]
            failed(ran) == PieceFailed(j, j.at + ran)
            more(ran) == PieceRan(j, j.at + ran)
            none(ran) == PromptOver(j, j.at + ran)
            token(ran) == PromptTook(j, j.at + ran, u(ran), ~Goes(r, u(ran)))
<1>1. /\ sched = "prompts" /\ sched' \in {"round", "prompts"} /\ r \in Prompting /\ r \in Range(running)
      /\ UNCHANGED <<ask, done, running, answering, taking, busy>>
  BY DEF Prompt, First, Prompting, list
<1>2. taking = {} /\ NotBegun = {}
  BY <1>1 DEF HeldInv, StagesOK
<1>3. /\ ids \in Seq(Tokens) /\ Len(ids) \in Nat /\ Len(ids) <= Ctx /\ s \in Seqs /\ j \in Jobs
      /\ held[s] = cached[s] /\ reply[r] \in Seq(Tokens) /\ JobOK(r) /\ job \in [Requests -> Jobs]
  <2>1. Len(ids) + ask[r].max <= Ctx /\ ask[r].max \in Nat
    BY <1>1, JobFacts
  <2>. QED  BY <1>1, <1>2, <2>1, JobFacts, LenProperties, SchedulerAssumption DEF HeldInv, HeldTypes
<1>4. /\ j.at \in Nat /\ j.at < Len(ids) /\ reply[r] = <<>> /\ j.ok /\ j.row = 0 /\ j.begun
      /\ j.prompting /\ ~j.ended /\ cached[s] = SubSeq(ids, 1, j.at)
  BY <1>1, <1>2, <1>3 DEF JobOK, Prompting, NotBegun, Jobs
<1>5. n \in 1 .. left /\ left \in Nat
  BY <1>3, <1>4, SchedulerAssumption, SMTT(20) DEF PieceOf
<1>6. PICK ran \in 0 .. n :
        /\ Ran(ran)
        /\ \/ ran < n /\ job' = [job EXCEPT ![r] = failed(ran)] /\ UNCHANGED <<reply, pc>>
           \/ ran = n /\ n # left /\ job' = [job EXCEPT ![r] = more(ran)] /\ UNCHANGED <<reply, pc>>
           \/ ran = n /\ n = left /\ job' = [job EXCEPT ![r] = none(ran)] /\ UNCHANGED <<reply, pc>>
           \/ ran = n /\ n = left /\ job' = [job EXCEPT ![r] = token(ran)] /\ TakeToken(r, u(ran))
  <2>1. \A k \in MayRun(n) : k \in 0 .. n
    BY <1>3, <1>5 DEF MayRun
  <2>. HIDE DEF n
  <2>. QED  BY <2>1 DEF Prompt, Pushed, n, PieceFailed, PieceRan, PromptOver, PromptTook
<1>. DEFINE b == SubSeq(ids, 1, j.at + ran)
<1>7. ran \in Nat /\ j.at + ran <= Len(ids) /\ j.at + ran \in j.at .. Len(ids) /\ j.at + ran \in 0 .. Len(ids)
  <2>. DEFINE p == j.at
              N == Len(ids)
  <2>1. p \in Nat /\ N \in Nat /\ left = N - p
    BY <1>3, <1>4, Zenon
  <2>. HIDE DEF n, left, p, N
  <2>2. ran \in Nat /\ p + ran <= N /\ p + ran \in p .. N /\ p + ran \in 0 .. N
    BY <1>5, <2>1
  <2>. QED  BY <2>2, Zenon DEF p, N
<1>8. b \in Seq(Tokens) /\ Len(b) <= Ctx /\ cached[s] \o tokens(ran) = b
  <2>1. b \in Seq(Tokens) /\ Len(b) = j.at + ran
    BY <1>3, <1>7, Beginning
  <2>2. SubSeq(ids, 1, j.at) \o SubSeq(ids, j.at + 1, j.at + ran) = b
    <3>. j.at \in 0 .. Len(ids)
      BY <1>3, <1>4
    <3>. QED  BY <1>3, <1>7, Beginning
  <2>3. Len(b) <= Ctx
    <3>. HIDE DEF b, ids
    <3>. QED  BY <1>3, <1>7, <2>1, SchedulerAssumption
  <2>. QED  BY <1>4, <2>1, <2>2, <2>3
<1>9. /\ cached' \in [Seqs -> Seq(Tokens)] /\ held' \in [Seqs -> Seq(Tokens)]
      /\ \A z \in Seqs \ {s} : cached'[z] = cached[z] /\ held'[z] = held[z]
      /\ cached'[s] = b /\ held'[s] = b
  <2>. HIDE DEF b, tokens
  <2>. QED  BY <1>3, <1>6, <1>8 DEF HeldInv, HeldTypes
<1>. HIDE DEF b, n, left
<1>10. ASSUME NEW x \in Jobs, job' = [job EXCEPT ![r] = x], x.seq = s, x.begun, Stirred,
              reply' \in [Requests -> Seq(Tokens)], \A q \in Requests \ {r} : reply'[q] = reply[q],
              \A k \in DOMAIN reply'[r] : reply'[r][k] = Gives(ids \o SubSeq(reply'[r], 1, k - 1)),
              JobOK(r)'
       PROVE  HeldInv'
  <2>1. OneJob(r, s, x)
    BY <1>1, <1>8, <1>9, <1>10 DEF OneJob
  <2>2. \A q \in Requests : job'[q].begun = (IF q = r THEN TRUE ELSE job[q].begun)
    BY <1>3, <1>10 DEF Jobs
  <2>3. NotBegun' = {}
    BY <1>1, <1>2, <2>2, ListedRequests DEF NotBegun, PlaceInv
  <2>4. StagesOK'
    BY <1>1, <1>2, <2>3 DEF StagesOK
  <2>. QED  BY <1>9, <1>10, <2>1, <2>4, OneJobHeld
<1>11. ASSUME UNCHANGED <<reply, pc>>
       PROVE  /\ Stirred /\ reply' \in [Requests -> Seq(Tokens)]
              /\ \A q \in Requests \ {r} : reply'[q] = reply[q]
              /\ \A k \in DOMAIN reply'[r] : reply'[r][k] = Gives(ids \o SubSeq(reply'[r], 1, k - 1))
  <2>1. DOMAIN <<>> = {}
    BY EmptySeq, LenProperties
  <2>. QED  BY <1>4, <1>11, <2>1, StillStirred DEF PlaceInv, HeldInv, HeldTypes
<1>12. ASSUME NEW x \in Jobs, job' = [job EXCEPT ![r] = x], x.begun, x.ended PROVE JobOK(r)'
  <2>1. job'[r].begun /\ job'[r].ended /\ r \notin taking'
    BY <1>1, <1>2, <1>3, <1>12
  <2>. QED  BY <2>1, OverNext
<1>13. CASE ran < n /\ job' = [job EXCEPT ![r] = failed(ran)] /\ UNCHANGED <<reply, pc>>
  <2>1. /\ failed(ran) \in Jobs /\ failed(ran).seq = s /\ failed(ran).begun /\ failed(ran).ended
    <3>. DEFINE k == j.at + ran
    <3>1. k \in Nat /\ j \in Jobs
      BY <1>3, <1>4, <1>7
    <3>. HIDE DEF k, j
    <3>. QED  BY <1>4, <3>1, PromptedJob DEF k
  <2>. HIDE DEF failed
  <2>. QED  BY <1>10, <1>11, <1>12, <1>13, <2>1
<1>14. CASE ran = n /\ n # left /\ job' = [job EXCEPT ![r] = more(ran)] /\ UNCHANGED <<reply, pc>>
  <2>1. /\ more(ran) \in Jobs /\ more(ran).seq = s /\ more(ran).begun /\ ~more(ran).ended /\ more(ran).prompting
        /\ more(ran).at = j.at + ran /\ more(ran).ok /\ more(ran).row = 0
    <3>. DEFINE k == j.at + ran
    <3>1. k \in Nat /\ j \in Jobs
      BY <1>3, <1>4, <1>7
    <3>. HIDE DEF k, j
    <3>. QED  BY <1>4, <3>1, PromptedJob DEF k
  <2>. HIDE DEF more
  <2>2. j.at + ran < Len(ids)
    BY <1>3, <1>4, <1>5, <1>14, SMTT(20) DEF left
  <2>3. job'[r] = more(ran)
    BY <1>3, <1>14
  <2>4. r \notin LiveSet' /\ r \notin taking'
    BY <1>1, <1>2, <2>1, <2>3 DEF LiveSet
  <2>5. JobOK(r)'
    BY <1>1, <1>4, <1>9, <1>14, <2>1, <2>2, <2>3, <2>4 DEF JobOK, b
  <2>. QED  BY <1>10, <1>11, <1>14, <2>1, <2>5
<1>15. CASE ran = n /\ n = left /\ job' = [job EXCEPT ![r] = none(ran)] /\ UNCHANGED <<reply, pc>>
  <2>1. none(ran) \in Jobs /\ none(ran).seq = s /\ none(ran).begun /\ none(ran).ended
    <3>. DEFINE k == j.at + ran
    <3>1. k \in Nat /\ j \in Jobs
      BY <1>3, <1>4, <1>7
    <3>. HIDE DEF k, j
    <3>. QED  BY <1>4, <3>1, PromptedJob DEF k
  <2>. HIDE DEF none
  <2>. QED  BY <1>10, <1>11, <1>12, <1>15, <2>1
<1>16. CASE ran = n /\ n = left /\ job' = [job EXCEPT ![r] = token(ran)] /\ TakeToken(r, u(ran))
  <2>1. b = ids
    <3>1. j.at + ran = Len(ids)
      BY <1>3, <1>4, <1>16 DEF left
    <3>. QED  BY <1>3, <3>1, SubSeqFull DEF b
  <2>2. ids \o reply[r] = ids /\ u(ran) = Gives(ids \o reply[r]) /\ Len(ids \o reply[r]) <= Ctx
    BY <1>3, <1>4, <1>8, <2>1, ConcatEmptySeq
  <2>. HIDE DEF u
  <2>3. /\ u(ran) \in Tokens \cup {NoToken} /\ Stirred
        /\ reply' \in [Requests -> Seq(Tokens)] /\ \A q \in Requests \ {r} : reply'[q] = reply[q]
        /\ \A k \in DOMAIN reply'[r] : reply'[r][k] = Gives(ids \o SubSeq(reply'[r], 1, k - 1))
        /\ Goes(r, u(ran)) => /\ u(ran) \in Tokens /\ reply'[r] # <<>> /\ Last(reply'[r]) \notin Ends
                              /\ Len(reply'[r]) < ask[r].max
                              /\ ids \o reply'[r] = (ids \o reply[r]) \o <<u(ran)>>
    BY <1>1, <1>16, <2>2, Taken
  <2>4. Goes(r, u(ran)) \in BOOLEAN
    BY DEF Goes
  <2>5. /\ token(ran) \in Jobs /\ token(ran).seq = s /\ token(ran).begun /\ ~token(ran).prompting
        /\ token(ran).ended = (~Goes(r, u(ran))) /\ token(ran).t = u(ran) /\ token(ran).ok /\ token(ran).row = 0
    <3>. DEFINE k == j.at + ran  over == ~Goes(r, u(ran))  x == PromptTook(j, k, u(ran), over)
    <3>1. k \in Nat /\ j \in Jobs /\ over \in BOOLEAN
      BY <1>3, <1>4, <1>7, <2>4
    <3>2. x.seq = j.seq /\ x.begun = j.begun /\ x.prompting = FALSE /\ x.ended = over
          /\ x.t = u(ran) /\ x.ok = j.ok /\ x.row = j.row /\ x \in Jobs
      <4>. DEFINE t == u(ran)
      <4>1. x = PromptTook(j, k, t, over) /\ t \in Tokens \cup {NoToken}
        BY <2>3
      <4>. HIDE DEF k, j, over, x, t
      <4>2. /\ x \in Jobs /\ x.seq = j.seq /\ x.begun = j.begun /\ x.prompting = FALSE
            /\ x.ended = over /\ x.t = t /\ x.ok = j.ok /\ x.row = j.row
        BY <3>1, <4>1 DEF Jobs, PromptTook
      <4>. QED  BY <4>2 DEF t
    <3>3. token(ran) = x
      OBVIOUS
    <3>. HIDE DEF x, token
    <3>. QED  BY <1>4, <3>2, <3>3
  <2>. HIDE DEF token
  <2>6. job'[r] = token(ran)
    BY <1>3, <1>16
  <2>7. JobOK(r)'
    <3>1. CASE ~Goes(r, u(ran))
      BY <1>12, <1>16, <2>5, <3>1
    <3>2. CASE Goes(r, u(ran))
      <4>1. r \notin Prompting' /\ r \notin taking' /\ GoesOn(r)'
        BY <1>1, <1>2, <2>3, <2>5, <2>6, <3>2 DEF Prompting, GoesOn
      <4>2. ids \o reply'[r] = cached'[s] \o <<u(ran)>>
        BY <1>9, <2>1, <2>2, <2>3, <3>2
      <4>. QED  BY <1>1, <2>3, <2>5, <2>6, <3>2, <4>1, <4>2 DEF JobOK
    <3>. QED  BY <3>1, <3>2
  <2>. QED  BY <1>10, <1>16, <2>3, <2>5, <2>7
<1>. QED  BY <1>6, <1>13, <1>14, <1>15, <1>16

\* A pass is a job's next token and drafts after it, for which its sequence
\* has room.
LEMMA PassFacts ==
  ASSUME PlaceInv, HeldInv, sched = "round", NEW r \in LiveSet, NEW p \in Passes(r)
  PROVE  /\ p \in Seq(Tokens) /\ Len(p) \in Nat /\ Len(p) >= 1 /\ SubSeq(p, 1, 1) = <<job[r].t>>
         /\ Len(held[job[r].seq]) + Len(p) <= Ctx /\ held[job[r].seq] = cached[job[r].seq]
         /\ GoesOn(r) /\ job[r].ok /\ job[r].row = 0 /\ job[r].t \in Tokens
         /\ ask[r].ids \o reply[r] = cached[job[r].seq] \o <<job[r].t>>
<1>. DEFINE t == job[r].t  c == cached[job[r].seq]  ids == ask[r].ids
<1>1. r \in Range(running) /\ taking = {} /\ NotBegun = {}
  BY DEF LiveSet, HeldInv, StagesOK
<1>2. /\ ids \in Seq(Tokens) /\ ask[r].max \in Nat /\ Len(ids) + ask[r].max <= Ctx
      /\ reply[r] \in Seq(Tokens) /\ c \in Seq(Tokens) /\ held[job[r].seq] = c /\ JobOK(r)
  BY <1>1, JobFacts
<1>3. GoesOn(r) /\ job[r].ok /\ job[r].row = 0 /\ t \in Tokens /\ ids \o reply[r] = c \o <<t>>
  BY <1>1, <1>2 DEF JobOK
<1>4. /\ <<t>> \in Seq(Tokens) /\ Len(<<t>>) = 1 /\ Len(c) \in Nat /\ Len(ids) \in Nat /\ Len(reply[r]) \in Nat
      /\ Len(ids \o reply[r]) = Len(ids) + Len(reply[r]) /\ Len(c \o <<t>>) = Len(c) + 1
  <2>. HIDE DEF t, c, ids
  <2>1. <<t>> \in Seq(Tokens) /\ Len(<<t>>) = 1
    BY <1>3
  <2>. QED  BY <1>2, <2>1, ConcatProperties, LenProperties
<1>5. Len(c) + 1 < Ctx
  <2>1. Len(reply[r]) < ask[r].max
    BY <1>3 DEF GoesOn
  <2>2. Len(ids) + Len(reply[r]) = Len(c) + 1
    BY <1>3, <1>4
  <2>. HIDE DEF c, ids
  <2>. QED  BY <1>2, <1>4, <2>1, <2>2, SchedulerAssumption
<1>6. DraftMax(r) \in Int /\ DraftMax(r) <= Ctx - Len(c) - 1
  <2>. DEFINE room == Ctx - Len(c) - 1  more == ask[r].max - Len(reply[r]) - 1
  <2>1. room \in Int /\ more \in Int /\ Speculate \in Int /\ 0 <= room
    BY <1>2, <1>4, <1>5, SchedulerAssumption
  <2>2. Max({0, Ctx - Len(held[job[r].seq]) - 1}) = room
    <3>1. Ctx - Len(held[job[r].seq]) - 1 = room
      BY <1>2
    <3>. HIDE DEF room
    <3>2. Max({0, room}) = IF 0 <= room THEN room ELSE 0
      <4>1. 0 \in Int
        OBVIOUS
      <4>. QED  BY <2>1, <4>1, OfTwo, Zenon
    <3>3. Max({0, room}) = room
      BY <2>1, <3>2
    <3>. QED  BY <3>1, <3>3, Zenon
  <2>3. DraftMax(r) = Min({Speculate, more, room})
    BY <2>2 DEF DraftMax
  <2>. HIDE DEF room, more
  <2>4. DraftMax(r) \in Int /\ DraftMax(r) <= room
    BY <2>1, <2>3, LeastOfThree
  <2>. QED  BY <2>4 DEF room
<1>7. PICK d \in 0 .. DraftMax(r) : \E draft \in [1 .. d -> Tokens] : p = <<t>> \o draft
  BY DEF Passes
<1>8. PICK draft \in [1 .. d -> Tokens] : p = <<t>> \o draft
  BY <1>7
<1>9. d \in Nat /\ d + 1 <= Ctx - Len(c)
  <2>. HIDE DEF c
  <2>. QED  BY <1>4, <1>6, SchedulerAssumption
<1>10. draft \in Seq(Tokens) /\ Len(draft) = d
  BY <1>8, <1>9
<1>11. p \in Seq(Tokens) /\ Len(p) = d + 1 /\ p[1] = t
  <2>. HIDE DEF t
  <2>1. <<t>>[1] = t
    OBVIOUS
  <2>. QED  BY <1>4, <1>8, <1>9, <1>10, <2>1, ConcatProperties
<1>12. SubSeq(p, 1, 1) = <<t>>
  <2>. HIDE DEF t
  <2>1. 0 \in 0 .. Len(p) /\ 0 < Len(p)
    BY <1>9, <1>11
  <2>2. SubSeq(p, 1, 0 + 1) = SubSeq(p, 1, 0) \o <<p[0 + 1]>> /\ SubSeq(p, 1, 0) = <<>>
    BY <1>11, <2>1, Beginning
  <2>3. SubSeq(p, 1, 1) = <<>> \o <<t>>
    <3>1. 0 + 1 = 1
      OBVIOUS
    <3>. QED  BY <1>11, <2>2, <3>1, Zenon
  <2>. QED  BY <1>4, <2>3, ConcatEmptySeq
<1>13. Len(c) + Len(p) <= Ctx /\ Len(p) \in Nat /\ Len(p) >= 1
  <2>. HIDE DEF c
  <2>. QED  BY <1>4, <1>9, <1>11, SchedulerAssumption, SMTT(20)
<1>. QED  BY <1>2, <1>3, <1>11, <1>12, <1>13

\* What a round makes of the jobs and of their sequences: of each pass the
\* rows before one that fails run.
FedRows(pass) ==
  {f \in [LiveSet -> 0 .. Speculate + 1] : \A r \in LiveSet : f[r] \in MayRun(Len(pass[r]))}

RoundRan(pass, fed) ==
  /\ job' = [r \in Requests |-> IF r \in LiveSet
                                THEN [job[r] EXCEPT !.pass = pass[r], !.fed = fed[r]]
                                ELSE job[r]]
  /\ held' = [s \in Seqs |->
                IF \E r \in LiveSet : job[r].seq = s
                THEN LET r == CHOOSE r \in LiveSet : job[r].seq = s
                     IN  held[s] \o SubSeq(pass[r], 1, fed[r])
                ELSE held[s]]

LEMMA StepRan == ASSUME Step PROVE \E pass \in Rounds : \E fed \in FedRows(pass) : RoundRan(pass, fed)
BY DEF Step, FedRows, RoundRan

\* A round runs a pass for every live job.
LEMMA StepHeld ==
  ASSUME PlaceInv, PlaceInv', HeldInv, Step
  PROVE  HeldInv'
<1>1. /\ sched = "round" /\ sched' = "take" /\ taking' = LiveSet
      /\ UNCHANGED <<pc, ask, done, running, answering, reply, cached, busy>>
  BY DEF Step, conn, shared, lists
<1>2. taking = {} /\ NotBegun = {} /\ LiveSet \subseteq Range(running)
      /\ Range(running) \subseteq Requests /\ Holding = Range(running) /\ Holding' = Range(running)
  BY <1>1, ListedRequests DEF PlaceInv, HeldInv, StagesOK, Holding, LiveSet
<1>3. PICK pass \in Rounds : \E fed \in FedRows(pass) : RoundRan(pass, fed)
  BY StepRan
<1>4. PICK fed \in FedRows(pass) : RoundRan(pass, fed)
  BY <1>3
<1>5. \A r \in LiveSet : pass[r] \in Passes(r)
  BY DEF Rounds
<1>6. \A r \in LiveSet : fed[r] \in MayRun(Len(pass[r]))
  BY DEF FedRows
<1>7. /\ job' = [r \in Requests |-> IF r \in LiveSet
                                    THEN [job[r] EXCEPT !.pass = pass[r], !.fed = fed[r]]
                                    ELSE job[r]]
      /\ held' = [s \in Seqs |->
                    IF \E r \in LiveSet : job[r].seq = s
                    THEN LET r == CHOOSE r \in LiveSet : job[r].seq = s
                         IN  held[s] \o SubSeq(pass[r], 1, fed[r])
                    ELSE held[s]]
  BY <1>4 DEF RoundRan
<1>8. ASSUME NEW r \in LiveSet
      PROVE  /\ pass[r] \in Seq(Tokens) /\ Len(pass[r]) \in Nat /\ Len(pass[r]) >= 1
             /\ SubSeq(pass[r], 1, 1) = <<job[r].t>>
             /\ Len(held[job[r].seq]) + Len(pass[r]) <= Ctx /\ held[job[r].seq] = cached[job[r].seq]
             /\ GoesOn(r) /\ job[r].ok /\ job[r].row = 0 /\ job[r].t \in Tokens
             /\ ask[r].ids \o reply[r] = cached[job[r].seq] \o <<job[r].t>>
             /\ fed[r] \in 0 .. Len(pass[r]) /\ fed[r] \in Nat /\ fed[r] <= Len(pass[r])
  <2>1. pass[r] \in Passes(r)
    BY <1>5
  <2>2. Len(pass[r]) \in Nat
    BY <1>1, <2>1, PassFacts
  <2>3. \A m \in Nat : \A k \in MayRun(m) : k \in 0 .. m
    BY DEF MayRun
  <2>4. fed[r] \in 0 .. Len(pass[r])
    BY <1>6, <2>2, <2>3
  <2>5. fed[r] \in Nat /\ fed[r] <= Len(pass[r])
    BY <2>2, <2>4
  <2>. QED  BY <1>1, <2>1, <2>4, <2>5, PassFacts
<1>9. job \in [Requests -> Jobs]
  BY DEF HeldInv, HeldTypes
<1>10. ASSUME NEW r \in Requests
      PROVE  /\ job'[r] \in Jobs /\ job'[r].seq = job[r].seq
             /\ r \notin LiveSet => job'[r] = job[r]
             /\ r \in LiveSet => /\ job'[r].pass = pass[r] /\ job'[r].fed = fed[r]
                                 /\ job'[r].ok = job[r].ok /\ job'[r].row = job[r].row
                                 /\ job'[r].begun = job[r].begun /\ job'[r].ended = job[r].ended
                                 /\ job'[r].prompting = job[r].prompting
  <2>1. CASE r \in LiveSet
    <3>1. job'[r] = [job[r] EXCEPT !.pass = pass[r], !.fed = fed[r]]
      BY <1>7, <2>1
    <3>2. job[r] \in Jobs /\ pass[r] \in Seq(Tokens) /\ fed[r] \in Nat
      BY <1>8, <1>9, <2>1
    <3>. QED  BY <2>1, <3>1, <3>2 DEF Jobs
  <2>2. CASE r \notin LiveSet
    BY <1>7, <1>9, <2>2
  <2>. QED  BY <2>1, <2>2
<1>11. /\ NotBegun' = NotBegun /\ LiveSet' = LiveSet /\ Prompting' = Prompting
  BY <1>1, <1>2, <1>10 DEF NotBegun, LiveSet, Prompting
<1>12. ASSUME NEW r \in LiveSet
      PROVE  /\ job[r].seq \in Seqs
             /\ held'[job[r].seq] = held[job[r].seq] \o SubSeq(pass[r], 1, fed[r])
             /\ held'[job[r].seq] \in Seq(Tokens) /\ Len(held'[job[r].seq]) <= Ctx
  <2>. DEFINE s == job[r].seq  q == CHOOSE q \in LiveSet : job[q].seq = s
  <2>1. s \in Seqs /\ held[s] \in Seq(Tokens)
    BY <1>2, JobFacts
  <2>2. q \in LiveSet /\ job[q].seq = s
    OBVIOUS
  <2>3. q = r
    <3>. HIDE DEF q
    <3>. QED  BY <1>2, <2>2, SMTT(20) DEF HeldInv, SeqsOK
  <2>4. held'[s] = held[s] \o SubSeq(pass[q], 1, fed[q])
    BY <1>7, <2>1
  <2>. HIDE DEF q
  <2>5. held'[s] = held[s] \o SubSeq(pass[r], 1, fed[r])
    BY <2>3, <2>4
  <2>. HIDE DEF s
  <2>6. SubSeq(pass[r], 1, fed[r]) \in Seq(Tokens) /\ Len(SubSeq(pass[r], 1, fed[r])) = fed[r]
    <3>. DEFINE w == pass[r]
                m == fed[r]
    <3>1. w \in Seq(Tokens) /\ m \in 0 .. Len(w)
      BY <1>8, Zenon
    <3>. HIDE DEF w, m
    <3>2. SubSeq(w, 1, m) \in Seq(Tokens) /\ Len(SubSeq(w, 1, m)) = m
      BY <3>1, Beginning
    <3>. QED  BY <3>2, Zenon DEF w, m
  <2>7. held'[s] \in Seq(Tokens) /\ Len(held'[s]) = Len(held[s]) + fed[r]
    BY <2>1, <2>5, <2>6, ConcatProperties
  <2>8. Len(held'[s]) <= Ctx
    <3>. DEFINE a == Len(held[s])  m == fed[r]  n == Len(pass[r])
    <3>1. a \in Nat /\ m \in Nat /\ n \in Nat /\ m <= n
      BY <1>8, <2>1, LenProperties
    <3>2. a + n <= Ctx
      BY <1>8 DEF s
    <3>3. Len(held'[s]) = a + m /\ Ctx \in Nat
      BY <2>7, SchedulerAssumption
    <3>. HIDE DEF a, m, n
    <3>. QED  BY <3>1, <3>2, <3>3
  <2>. QED  BY <2>1, <2>5, <2>7, <2>8 DEF s
<1>13. ASSUME NEW s \in Seqs, \A r \in LiveSet : job[r].seq # s
      PROVE  held'[s] = held[s]
  BY <1>7, <1>13
<1>14. HeldTypes'
  <2>1. ASSUME NEW s \in Seqs PROVE held'[s] \in Seq(Tokens) /\ Len(held'[s]) <= Ctx
    <3>1. CASE \E r \in LiveSet : job[r].seq = s
      BY <1>12, <3>1
    <3>2. CASE \A r \in LiveSet : job[r].seq # s
      BY <1>13, <3>2 DEF HeldInv, HeldTypes
    <3>. QED  BY <3>1, <3>2
  <2>2. held' \in [Seqs -> Seq(Tokens)]
    BY <1>7, <2>1
  <2>3. job' \in [Requests -> Jobs]
    BY <1>7, <1>10
  <2>. QED  BY <1>1, <2>1, <2>2, <2>3 DEF HeldInv, HeldTypes
<1>15. AskOK' /\ RepliesAsAlone'
  BY <1>1 DEF HeldInv, AskOK, RepliesAsAlone
<1>16. BlankOK'
  BY <1>1, <1>2, <1>10 DEF HeldInv, BlankOK
<1>17. SeqsOK'
  <2>1. \A q \in Holding' : q \in Holding /\ job'[q].seq = job[q].seq
    BY <1>2, <1>10
  <2>2. SeqsOK /\ busy' = busy
    BY <1>1 DEF HeldInv
  <2>. QED  BY <2>1, <2>2 DEF SeqsOK
<1>18. StagesOK'
  BY <1>1, <1>2, <1>11 DEF StagesOK
<1>19. CachedIsHeld'
  <2>1. ASSUME NEW s \in Seqs, \A q \in taking' : job'[q].seq # s PROVE cached'[s] = held'[s]
    <3>1. \A r \in LiveSet : job[r].seq # s
      BY <1>1, <1>2, <1>10, <2>1
    <3>. QED  BY <1>1, <1>2, <1>13, <3>1 DEF HeldInv, CachedIsHeld
  <2>. QED  BY <2>1 DEF CachedIsHeld
<1>20. ASSUME NEW q \in Range(running') PROVE JobOK(q)'
  <2>1. q \in Range(running) /\ q \in Requests /\ JobOK(q)
    BY <1>1, <1>2, <1>20, SMTT(20) DEF HeldInv, JobsOK
  <2>2. CASE q \in LiveSet
    <3>1. q \in taking' /\ q \notin Prompting' /\ job'[q].begun
      BY <1>1, <1>2, <1>10, <1>11, <2>1, <2>2 DEF Prompting, LiveSet, NotBegun
    <3>2. GoesOn(q)'
      BY <1>1, <1>8, <2>2 DEF GoesOn
    <3>. DEFINE x == job'[q]  j == job[q]
    <3>3. /\ x.ok = j.ok /\ x.row = j.row /\ x.pass = pass[q] /\ x.fed = fed[q] /\ x.seq = j.seq
      BY <1>10, <2>1, <2>2
    <3>4. /\ j.ok /\ j.row = 0 /\ Len(pass[q]) \in Nat /\ Len(pass[q]) >= 1 /\ fed[q] <= Len(pass[q])
          /\ SubSeq(pass[q], 1, 1) = <<j.t>> /\ held[j.seq] = cached[j.seq]
          /\ ask[q].ids \o reply[q] = cached[j.seq] \o <<j.t>>
      BY <1>8, <2>2
    <3>5. held'[j.seq] = held[j.seq] \o SubSeq(pass[q], 1, fed[q])
      BY <1>12, <2>2
    <3>. HIDE DEF x, j
    <3>6. x.ok /\ x.row = 0 /\ 0 < Len(x.pass) /\ x.fed <= Len(x.pass)
      BY <3>3, <3>4
    <3>7. /\ ask'[q].ids \o reply'[q] = cached'[x.seq] \o SubSeq(x.pass, 1, 1)
          /\ held'[x.seq] = cached'[x.seq] \o SubSeq(x.pass, 1, x.fed)
      BY <1>1, <3>3, <3>4, <3>5
    <3>8. 0 + 1 = 1
      OBVIOUS
    <3>. QED  BY <3>1, <3>2, <3>8, <3>6, <3>7 DEF JobOK, x
  <2>3. CASE q \notin LiveSet
    <3>1. job'[q] = job[q] /\ q \notin LiveSet' /\ q \notin taking'
      BY <1>1, <1>10, <1>11, <2>1, <2>3
    <3>. QED  BY <1>1, <1>11, <2>1, <3>1 DEF JobOK
  <2>. QED  BY <2>2, <2>3
<1>. QED  BY <1>14, <1>15, <1>16, <1>17, <1>18, <1>19, <1>20 DEF HeldInv, JobsOK

\* A job that is to take the tokens of its pass.
LEMMA TakeFacts ==
  ASSUME PlaceInv, HeldInv, NEW r \in taking, NEW p, p = job[r].pass
  PROVE  /\ sched = "take" /\ r \in Range(running) /\ r \notin Prompting /\ r \notin NotBegun /\ r \in LiveSet
         /\ NotBegun = {}
         /\ p \in Seq(Tokens) /\ Len(p) \in Nat /\ job[r].row \in Nat /\ job[r].row < Len(p)
         /\ job[r].fed \in Nat /\ job[r].fed <= Len(p)
         /\ held[job[r].seq] = cached[job[r].seq] \o SubSeq(p, 1, job[r].fed)
         /\ ask[r].ids \o reply[r] = cached[job[r].seq] \o SubSeq(p, 1, job[r].row + 1)
         /\ job[r].ok /\ Len(ask[r].ids \o reply[r]) <= Ctx
<1>1. sched = "take" /\ r \in LiveSet /\ r \notin NotBegun /\ NotBegun = {}
  BY DEF HeldInv, StagesOK
<1>2. r \in Range(running) /\ r \notin Prompting
  BY <1>1 DEF LiveSet, Prompting
<1>3. /\ ask[r].ids \in Seq(Tokens) /\ ask[r].max \in Nat /\ Len(ask[r].ids) + ask[r].max <= Ctx
      /\ reply[r] \in Seq(Tokens) /\ JobOK(r) /\ job[r] \in Jobs
  BY <1>2, JobFacts, SMTT(20)
<1>4. /\ GoesOn(r) /\ job[r].ok /\ job[r].row < Len(p) /\ job[r].fed <= Len(p)
      /\ ask[r].ids \o reply[r] = cached[job[r].seq] \o SubSeq(p, 1, job[r].row + 1)
      /\ held[job[r].seq] = cached[job[r].seq] \o SubSeq(p, 1, job[r].fed)
  BY <1>3 DEF JobOK
<1>5. p \in Seq(Tokens) /\ job[r].row \in Nat /\ job[r].fed \in Nat
  BY <1>3 DEF Jobs
<1>6. Len(p) \in Nat /\ Len(ask[r].ids) \in Nat /\ Len(reply[r]) \in Nat
  BY <1>3, <1>5, LenProperties
<1>7. Len(ask[r].ids \o reply[r]) = Len(ask[r].ids) + Len(reply[r])
  BY <1>3, ConcatProperties
<1>8. Len(reply[r]) < ask[r].max
  BY <1>4 DEF GoesOn
<1>9. Len(ask[r].ids \o reply[r]) <= Ctx
  <2>. DEFINE a == Len(ask[r].ids)  b == Len(reply[r])  m == ask[r].max
  <2>1. a \in Nat /\ b \in Nat /\ m \in Nat /\ b < m /\ a + m <= Ctx /\ Len(ask[r].ids \o reply[r]) = a + b
    BY <1>3, <1>6, <1>7, <1>8
  <2>. HIDE DEF a, b, m
  <2>. QED  BY <2>1, SchedulerAssumption
<1>. QED  BY <1>1, <1>2, <1>4, <1>5, <1>6, <1>9

\* What a sequence keeps of a pass.
LEMMA Kept ==
  ASSUME NEW c \in Seq(Tokens), NEW p \in Seq(Tokens), NEW keep \in 0 .. Len(p), Len(c \o p) <= Ctx
  PROVE  /\ SubSeq(c \o p, 1, Len(c \o p) - Len(p) + keep) = c \o SubSeq(p, 1, keep)
         /\ c \o SubSeq(p, 1, keep) \in Seq(Tokens) /\ Len(c \o SubSeq(p, 1, keep)) <= Ctx
<1>1. Len(c) \in Nat /\ Len(p) \in Nat /\ Len(c \o p) = Len(c) + Len(p)
  BY ConcatProperties, LenProperties
<1>2. SubSeq(p, 1, keep) \in Seq(Tokens) /\ Len(SubSeq(p, 1, keep)) = keep
  BY Beginning
<1>3. c \o SubSeq(p, 1, keep) \in Seq(Tokens) /\ Len(c \o SubSeq(p, 1, keep)) = Len(c) + keep
  BY <1>2, ConcatProperties
<1>4. Len(c \o p) - Len(p) + keep = Len(c) + keep /\ Len(c) + keep <= Ctx
  BY <1>1, SchedulerAssumption
<1>5. SubSeq(c \o p, 1, Len(c) + keep) = c \o SubSeq(p, 1, keep)
  BY Trimmed
<1>. QED  BY <1>3, <1>4, <1>5

\* A job has taken the tokens of its pass, and its sequence keeps k.
LEMMA TookHeld ==
  ASSUME PlaceInv, PlaceInv', HeldInv, NEW r \in taking, NEW x \in Jobs, NEW k \in Seq(Tokens),
         job' = [job EXCEPT ![r] = x], x.seq = job[r].seq, x.begun,
         Took(r), Stirred, UNCHANGED <<ask, done, running, answering, busy>>,
         reply' \in [Requests -> Seq(Tokens)], \A q \in Requests \ {r} : reply'[q] = reply[q],
         \A m \in DOMAIN reply'[r] : reply'[r][m] = Gives(ask[r].ids \o SubSeq(reply'[r], 1, m - 1)),
         cached' = [cached EXCEPT ![job[r].seq] = k], held' = [held EXCEPT ![job[r].seq] = k], Len(k) <= Ctx,
         JobOK(r)'
  PROVE  HeldInv'
<1>. DEFINE s == job[r].seq
<1>1. /\ sched = "take" /\ r \in Range(running) /\ NotBegun = {} /\ r \in Requests /\ s \in Seqs
      /\ Range(running) \subseteq Requests
  BY TakeFacts, JobFacts, ListedRequests DEF PlaceInv
<1>2. taking' = taking \ {r} /\ sched' \in {"lose", "reap", "take"} /\ (sched' # "take" => taking' = {})
  BY DEF Took, AfterRound
<1>3. /\ cached' \in [Seqs -> Seq(Tokens)] /\ held' \in [Seqs -> Seq(Tokens)]
      /\ \A z \in Seqs \ {s} : cached'[z] = cached[z] /\ held'[z] = held[z]
      /\ cached'[s] = k /\ held'[s] = k
  <2>. HIDE DEF s
  <2>. QED  BY <1>1 DEF HeldInv, HeldTypes, s
<1>4. job \in [Requests -> Jobs] /\ \A q \in Requests : job'[q] = IF q = r THEN x ELSE job[q]
  BY <1>1 DEF HeldInv, HeldTypes
<1>5. OneJob(r, s, x)
  BY <1>1, <1>2, <1>3 DEF OneJob
<1>6. NotBegun' = {}
  <2>1. \A q \in Range(running) : job'[q].begun
    BY <1>1, <1>4 DEF NotBegun
  <2>. QED  BY <2>1 DEF NotBegun
<1>7. \A q \in taking' : q \in LiveSet'
  BY <1>1, <1>2, <1>4 DEF LiveSet, HeldInv, StagesOK
<1>8. StagesOK'
  BY <1>2, <1>6, <1>7 DEF StagesOK
<1>9. r \notin taking' => cached'[s] = held'[s]
  BY <1>3
<1>. QED  BY <1>5, <1>8, <1>9, OneJobHeld

\* A step of the round failed, or the client of the job has gone: it ends.
LEMMA TakeEnds ==
  ASSUME PlaceInv, PlaceInv', HeldInv, "push" \notin Faults, NEW r \in taking,
         UNCHANGED <<ask, done, running, answering, busy>>, TakeFails(r) \/ TakeStops(r)
  PROVE  HeldInv'
<1>. DEFINE j == job[r]  s == j.seq  p == j.pass  c == cached[s]
<1>1. /\ r \in Range(running) /\ p \in Seq(Tokens) /\ Len(p) \in Nat /\ j.row \in Nat /\ j.row < Len(p)
      /\ j.fed \in Nat /\ j.fed <= Len(p) /\ held[s] = c \o SubSeq(p, 1, j.fed) /\ j.begun
  BY TakeFacts DEF NotBegun
<1>2. /\ s \in Seqs /\ c \in Seq(Tokens) /\ held[s] \in Seq(Tokens) /\ Len(held[s]) <= Ctx /\ j \in Jobs
      /\ r \in Requests /\ job \in [Requests -> Jobs]
  BY <1>1, JobFacts DEF HeldInv, HeldTypes
<1>3. held \in [Seqs -> Seq(Tokens)] /\ cached \in [Seqs -> Seq(Tokens)] /\ j.t \in Tokens \cup {NoToken}
  BY <1>2 DEF HeldInv, HeldTypes, Jobs
<1>4. UNCHANGED <<pc, reply>> /\ Took(r)
  BY DEF TakeFails, TakeStops
<1>5. /\ Stirred /\ reply' \in [Requests -> Seq(Tokens)] /\ \A q \in Requests \ {r} : reply'[q] = reply[q]
      /\ \A m \in DOMAIN reply'[r] : reply'[r][m] = Gives(ask[r].ids \o SubSeq(reply'[r], 1, m - 1))
  BY <1>2, <1>4, StillStirred DEF PlaceInv, HeldInv, HeldTypes, RepliesAsAlone
<1>6. ASSUME NEW x \in Jobs, x.seq = s, x.begun, x.ended, job' = [job EXCEPT ![r] = x],
             NEW k \in Seq(Tokens), Len(k) <= Ctx,
             cached' = [cached EXCEPT ![s] = k], held' = [held EXCEPT ![s] = k]
      PROVE  HeldInv'
  <2>1. job'[r] = x /\ r \notin taking'
    BY <1>2, <1>4, <1>6 DEF Took
  <2>2. JobOK(r)'
    BY <1>6, <2>1, OverNext
  <2>. QED  BY <1>4, <1>5, <1>6, <2>2, TookHeld
<1>7. CASE TakeFails(r)
  <2>. DEFINE x == [Over(j, j.t, TRUE) EXCEPT !.ok = FALSE]
  <2>1. cached' = [cached EXCEPT ![s] = c \o SubSeq(p, 1, j.fed)] /\ job' = [job EXCEPT ![r] = x] /\ held' = held
    BY <1>7 DEF TakeFails, Pushed
  <2>2. x \in Jobs /\ x.seq = s /\ x.begun = j.begun /\ x.ended = TRUE
    <3>1. <<>> \in Seq(Tokens)
      OBVIOUS
    <3>. HIDE DEF j
    <3>. QED  BY <1>2, <1>3, <3>1 DEF Jobs, Over
  <2>. HIDE DEF x
  <2>3. held' = [held EXCEPT ![s] = held[s]] /\ cached' = [cached EXCEPT ![s] = held[s]]
    BY <1>1, <1>2, <1>3, <2>1, SMTT(20)
  <2>. QED  BY <1>1, <1>2, <1>6, <2>1, <2>2, <2>3
<1>8. CASE TakeStops(r)
  <2>. DEFINE x == Over(j, j.t, TRUE)  k == c \o SubSeq(p, 1, j.row + 1)
  <2>1. /\ cached' = [cached EXCEPT ![s] = k] /\ job' = [job EXCEPT ![r] = x] /\ j.fed = Len(p)
        /\ held' = [held EXCEPT ![s] = SubSeq(held[s], 1, Len(held[s]) - Len(p) + (j.row + 1))]
    BY <1>8 DEF TakeStops, Keep, Pushed
  <2>2. x \in Jobs /\ x.seq = s /\ x.begun = j.begun /\ x.ended = TRUE
    <3>1. <<>> \in Seq(Tokens)
      OBVIOUS
    <3>. HIDE DEF j
    <3>. QED  BY <1>2, <1>3, <3>1 DEF Jobs, Over
  <2>. HIDE DEF x
  <2>3. held[s] = c \o p
    BY <1>1, <2>1, SubSeqFull
  <2>4. j.row + 1 \in 0 .. Len(p)
    BY <1>1
  <2>5. SubSeq(held[s], 1, Len(held[s]) - Len(p) + (j.row + 1)) = k /\ k \in Seq(Tokens) /\ Len(k) <= Ctx
    <3>. DEFINE keep == j.row + 1
    <3>1. keep \in 0 .. Len(p) /\ Len(c \o p) <= Ctx /\ c \in Seq(Tokens) /\ p \in Seq(Tokens)
      BY <1>1, <1>2, <2>3, <2>4
    <3>. HIDE DEF keep, c, p
    <3>2. /\ SubSeq(c \o p, 1, Len(c \o p) - Len(p) + keep) = c \o SubSeq(p, 1, keep)
          /\ c \o SubSeq(p, 1, keep) \in Seq(Tokens) /\ Len(c \o SubSeq(p, 1, keep)) <= Ctx
      BY <3>1, Kept, SMTT(20)
    <3>. QED  BY <2>3, <3>2 DEF keep
  <2>. HIDE DEF k
  <2>. QED  BY <1>1, <1>6, <2>1, <2>2, <2>5
<1>. QED  BY <1>7, <1>8

\* A row's token is the one the reply would take alone.
LEMMA RowToken ==
  ASSUME PlaceInv, HeldInv, NEW r \in taking, job[r].fed = Len(job[r].pass)
  PROVE  LET j == job[r]
             h == held[j.seq]
             k == cached[j.seq] \o SubSeq(j.pass, 1, j.row + 1)
         IN  /\ h = cached[j.seq] \o j.pass
             /\ SubSeq(h, 1, Len(h) - Len(j.pass) + (j.row + 1)) = k /\ k \in Seq(Tokens) /\ Len(k) <= Ctx
             /\ Gives(SubSeq(h, 1, Len(h) - Len(j.pass) + j.row + 1)) = Gives(ask[r].ids \o reply[r])
<1>. DEFINE j == job[r]  s == j.seq  p == j.pass  c == cached[s]  h == held[s]
            keep == j.row + 1
            u == Gives(SubSeq(h, 1, Len(h) - Len(p) + j.row + 1))
            k == c \o SubSeq(p, 1, keep)
<1>1. /\ r \in Range(running) /\ p \in Seq(Tokens) /\ Len(p) \in Nat /\ j.row \in Nat /\ j.row < Len(p)
      /\ h = c \o SubSeq(p, 1, j.fed) /\ ask[r].ids \o reply[r] = k
  BY TakeFacts
<1>2. c \in Seq(Tokens) /\ h \in Seq(Tokens) /\ Len(h) <= Ctx
  BY <1>1, JobFacts
<1>3. h = c \o p
  BY <1>1, SubSeqFull
<1>4. keep \in 0 .. Len(p)
  BY <1>1
<1>5. SubSeq(h, 1, Len(h) - Len(p) + keep) = k /\ k \in Seq(Tokens) /\ Len(k) <= Ctx
  <2>1. Len(c \o p) <= Ctx
    BY <1>2, <1>3
  <2>. HIDE DEF keep, c, p
  <2>2. /\ SubSeq(c \o p, 1, Len(c \o p) - Len(p) + keep) = c \o SubSeq(p, 1, keep)
        /\ c \o SubSeq(p, 1, keep) \in Seq(Tokens) /\ Len(c \o SubSeq(p, 1, keep)) <= Ctx
    BY <1>1, <1>2, <1>4, <2>1, Kept
  <2>. QED  BY <1>3, <2>2
<1>6. u = Gives(ask[r].ids \o reply[r])
  <2>1. Len(h) - Len(p) + j.row + 1 = Len(h) - Len(p) + keep
    <3>1. Len(h) \in Nat
      BY <1>2, LenProperties
    <3>. DEFINE a == Len(h)  b == Len(p)  n == j.row
    <3>2. a \in Nat /\ b \in Nat /\ n \in Nat /\ keep = n + 1
      BY <1>1, <3>1
    <3>3. a - b + n + 1 = a - b + keep
      <4>. HIDE DEF a, b, n, keep
      <4>. QED  BY <3>2
    <3>. QED  BY <3>3
  <2>. HIDE DEF keep
  <2>2. u = Gives(SubSeq(h, 1, Len(h) - Len(p) + keep))
    BY <2>1
  <2>. QED  BY <1>1, <1>5, <2>2
<1>. QED  BY <1>3, <1>5, <1>6

\* A job takes the token of its row, which is the one it would take alone: the
\* next row serves when its token is that one, and otherwise the sequence keeps
\* the tokens up to the row.
LEMMA TakeRowHeld ==
  ASSUME PlaceInv, PlaceInv', HeldInv, "push" \notin Faults, NEW r \in taking,
         sched = "take", UNCHANGED <<ask, done, running, answering, busy>>, TakeRow(r)
  PROVE  HeldInv'
<1>. DEFINE j == job[r]  s == j.seq  p == j.pass  c == cached[s]  h == held[s]  ids == ask[r].ids
            keep == j.row + 1
            u == Gives(SubSeq(h, 1, Len(h) - Len(p) + j.row + 1))
            k == c \o SubSeq(p, 1, keep)
<1>1. /\ r \in Range(running) /\ p \in Seq(Tokens) /\ Len(p) \in Nat /\ j.row \in Nat /\ j.row < Len(p)
      /\ h = c \o SubSeq(p, 1, j.fed) /\ j.begun /\ j.ok /\ ~j.prompting /\ ~j.ended
      /\ ids \o reply[r] = k /\ Len(ids \o reply[r]) <= Ctx /\ NotBegun = {} /\ r \in LiveSet
  BY TakeFacts DEF NotBegun, LiveSet
<1>2. /\ s \in Seqs /\ c \in Seq(Tokens) /\ h \in Seq(Tokens) /\ Len(h) <= Ctx /\ j \in Jobs
      /\ r \in Requests /\ job \in [Requests -> Jobs] /\ ids \in Seq(Tokens) /\ reply[r] \in Seq(Tokens)
  BY <1>1, JobFacts DEF HeldInv, HeldTypes
<1>3. j.fed = Len(p) /\ ~sinkFailed[r] /\ TakeToken(r, u)
  BY DEF TakeRow
<1>4. keep \in 0 .. Len(p)
  BY <1>1
<1>5. /\ SubSeq(h, 1, Len(h) - Len(p) + keep) = k /\ k \in Seq(Tokens) /\ Len(k) <= Ctx
      /\ u = Gives(ids \o reply[r])
  BY <1>3, RowToken
<1>6. \/ /\ Goes(r, u) /\ Agrees(j, u)
         /\ job' = [job EXCEPT ![r].row = @ + 1] /\ UNCHANGED <<held, cached, taking, sched>>
      \/ /\ Keep(r, keep) /\ Took(r)
         /\ job' = [job EXCEPT ![r] = Over(j, u, ~Goes(r, u) \/ (Len(p) > 1 /\ sinkFailed'[r]))]
  BY DEF TakeRow
<1>7. held \in [Seqs -> Seq(Tokens)] /\ cached \in [Seqs -> Seq(Tokens)]
  BY DEF HeldInv, HeldTypes
<1>. HIDE DEF u, keep
<1>8. /\ u \in Tokens \cup {NoToken} /\ Stirred
      /\ reply' \in [Requests -> Seq(Tokens)] /\ \A q \in Requests \ {r} : reply'[q] = reply[q]
      /\ \A m \in DOMAIN reply'[r] : reply'[r][m] = Gives(ids \o SubSeq(reply'[r], 1, m - 1))
      /\ Goes(r, u) => /\ u \in Tokens /\ reply'[r] # <<>> /\ Last(reply'[r]) \notin Ends
                       /\ Len(reply'[r]) < ask[r].max
                       /\ ids \o reply'[r] = (ids \o reply[r]) \o <<u>>
  BY <1>1, <1>3, <1>5, Taken
<1>9. CASE /\ Goes(r, u) /\ Agrees(j, u)
           /\ job' = [job EXCEPT ![r].row = @ + 1] /\ UNCHANGED <<held, cached, taking, sched>>
  <2>. DEFINE x == [j EXCEPT !.row = keep]
  <2>1. job' = [job EXCEPT ![r] = x]
    BY <1>2, <1>9 DEF keep
  <2>2. keep + 1 <= Len(p) /\ u = p[keep + 1] /\ keep \in Nat
    <3>. DEFINE m == j.row
    <3>1. m \in Nat
      BY <1>1, Zenon
    <3>2. m + 2 <= Len(p) /\ u = p[m + 2] /\ keep = m + 1
      BY <1>9, Zenon DEF Agrees, keep
    <3>. HIDE DEF m, p
    <3>3. (m + 1) + 1 = m + 2 /\ m + 1 \in Nat
      BY <3>1
    <3>. QED  BY <3>2, <3>3, Zenon
  <2>3. /\ x \in Jobs /\ x.seq = s /\ x.begun = j.begun /\ x.ended = j.ended /\ x.prompting = j.prompting
        /\ x.ok = j.ok /\ x.row = keep /\ x.pass = p /\ x.fed = j.fed
    <3>. HIDE DEF j
    <3>. QED  BY <1>2, <2>2 DEF Jobs
  <2>. HIDE DEF x
  <2>4. \A q \in Requests : job'[q] = IF q = r THEN x ELSE job[q]
    BY <1>2, <2>1
  <2>5. /\ \A z \in Seqs \ {s} : cached'[z] = cached[z] /\ held'[z] = held[z]
        /\ cached'[s] = c /\ held'[s] = h
    BY <1>9
  <2>6. OneJob(r, s, x)
    BY <1>1, <1>2, <1>7, <1>8, <1>9, <2>1, <2>3 DEF OneJob
  <2>7. NotBegun' = {} /\ LiveSet' = LiveSet
    <3>1. Range(running) \subseteq Requests
      BY ListedRequests DEF PlaceInv
    <3>2. \A q \in Range(running) : /\ job'[q].begun = job[q].begun /\ job'[q].ended = job[q].ended
                                    /\ job'[q].prompting = job[q].prompting
      BY <2>3, <2>4, <3>1
    <3>. QED  BY <1>1, <3>2 DEF NotBegun, LiveSet
  <2>8. StagesOK'
    BY <1>9, <2>7 DEF StagesOK, HeldInv
  <2>9. ids \o reply'[r] = c \o SubSeq(p, 1, keep + 1)
    <3>1. SubSeq(p, 1, keep + 1) = SubSeq(p, 1, keep) \o <<u>> /\ SubSeq(p, 1, keep) \in Seq(Tokens)
      <4>. HIDE DEF p
      <4>1. keep < Len(p)
        BY <1>1, <2>2
      <4>. QED  BY <1>1, <1>4, <2>2, <4>1, Beginning
    <3>2. <<u>> \in Seq(Tokens)
      BY <1>8, <1>9
    <3>3. c \o (SubSeq(p, 1, keep) \o <<u>>) = (c \o SubSeq(p, 1, keep)) \o <<u>>
      <4>. DEFINE d == SubSeq(p, 1, keep)  e == <<u>>
      <4>1. c \in Seq(Tokens) /\ d \in Seq(Tokens) /\ e \in Seq(Tokens)
        BY <1>2, <3>1, <3>2
      <4>. HIDE DEF c, d, e
      <4>2. c \o (d \o e) = (c \o d) \o e
        BY <4>1, ConcatAssociative, SMTT(20)
      <4>. QED  BY <4>2 DEF d, e
    <3>. QED  BY <1>1, <1>8, <1>9, <3>1, <3>3
  <2>10. JobOK(r)'
    <3>1. GoesOn(r)' /\ job'[r] = x /\ r \in taking' /\ r \notin Prompting'
      BY <1>1, <1>2, <1>8, <1>9, <2>3, <2>4 DEF GoesOn, Prompting
    <3>2. /\ x.ok /\ x.row < Len(x.pass) /\ x.fed <= Len(x.pass)
          /\ ids \o reply'[r] = cached'[x.seq] \o SubSeq(x.pass, 1, x.row + 1)
          /\ held'[x.seq] = cached'[x.seq] \o SubSeq(x.pass, 1, x.fed)
      <4>1. /\ x.ok /\ x.row = keep /\ x.pass = p /\ x.fed = j.fed /\ x.seq = s /\ j.fed = Len(p) /\ Len(p) \in Nat
            /\ keep \in Nat /\ keep + 1 <= Len(p) /\ h = c \o SubSeq(p, 1, j.fed)
        BY <1>1, <1>3, <2>2, <2>3
      <4>. HIDE DEF j, p, c, h, s, ids
      <4>2. x.row < Len(x.pass) /\ x.fed <= Len(x.pass)
        BY <4>1
      <4>3. cached'[x.seq] = c /\ held'[x.seq] = h
        BY <2>5, <4>1
      <4>4. SubSeq(x.pass, 1, x.row + 1) = SubSeq(p, 1, keep + 1) /\ SubSeq(x.pass, 1, x.fed) = SubSeq(p, 1, j.fed)
        BY <4>1
      <4>. QED  BY <2>9, <4>1, <4>2, <4>3, <4>4
    <3>3. x.begun
      BY <1>1, <2>3, SMTT(20)
    <3>. QED  BY <3>1, <3>2, <3>3, <2>7, <1>1 DEF JobOK, NotBegun
  <2>. QED  BY <1>1, <1>8, <1>9, <2>6, <2>8, <2>10, OneJobHeld
<1>10. CASE /\ Keep(r, keep) /\ Took(r)
            /\ job' = [job EXCEPT ![r] = Over(j, u, ~Goes(r, u) \/ (Len(p) > 1 /\ sinkFailed'[r]))]
  <2>. DEFINE over == ~Goes(r, u) \/ (Len(p) > 1 /\ sinkFailed'[r])
              x == Over(j, u, over)
  <2>1. /\ held' = [held EXCEPT ![s] = SubSeq(h, 1, Len(h) - Len(p) + keep)]
        /\ cached' = [cached EXCEPT ![s] = k]
    BY <1>10 DEF Keep, Pushed
  <2>. HIDE DEF k
  <2>2. held' = [held EXCEPT ![s] = k]
    BY <1>5, <2>1
  <2>3. over \in BOOLEAN
    BY DEF Goes
  <2>4. /\ x \in Jobs /\ x.seq = s /\ x.begun = j.begun /\ x.ended = over /\ x.prompting = j.prompting
        /\ x.ok = j.ok /\ x.row = 0 /\ x.t = u
    <3>1. <<>> \in Seq(Tokens)
      OBVIOUS
    <3>. HIDE DEF j, over
    <3>. QED  BY <1>2, <1>8, <2>3, <3>1 DEF Jobs, Over
  <2>. HIDE DEF x
  <2>5. job' = [job EXCEPT ![r] = x]
    BY <1>10 DEF x
  <2>6. job'[r] = x /\ r \notin taking' /\ cached'[s] = k
    BY <1>2, <1>7, <1>10, <2>1, <2>5 DEF Took
  <2>7. JobOK(r)'
    <3>1. CASE x.ended
      BY <1>1, <2>4, <2>6, <3>1, OverNext
    <3>2. CASE ~x.ended
      <4>1. Goes(r, u)
        BY <2>4, <3>2
      <4>2. GoesOn(r)' /\ r \notin Prompting'
        BY <1>1, <1>8, <2>4, <2>6, <4>1 DEF GoesOn, Prompting
      <4>3. u \in Tokens /\ ids \o reply'[r] = k \o <<u>>
        BY <1>1, <1>8, <4>1
      <4>. QED  BY <1>1, <2>4, <2>6, <4>2, <4>3 DEF JobOK
    <3>. QED  BY <3>1, <3>2
  <2>. QED  BY <1>1, <1>5, <1>8, <1>10, <2>1, <2>2, <2>4, <2>5, <2>7, TookHeld
<1>. QED  BY <1>6, <1>9, <1>10

LEMMA InitHeld == ASSUME Init PROVE HeldInv
<1>1. /\ ask = [r \in Requests |-> NoAsk] /\ job = [r \in Requests |-> Blank]
      /\ reply = [r \in Requests |-> <<>>] /\ cached = [s \in Seqs |-> <<>>] /\ held = [s \in Seqs |-> <<>>]
      /\ pc = [r \in Requests |-> "idle"] /\ sched = "unborn" /\ running = <<>> /\ taking = {} /\ busy = {}
  BY DEF Init
<1>2. Range(running) = {} /\ Holding = {}
  BY <1>1, EmptyList DEF Holding
<1>3. HeldTypes
  <2>1. <<>> \in Seq(Tokens) /\ Len(<<>>) = 0
    BY EmptySeq
  <2>. QED  BY <1>1, <2>1, BlankJob, SchedulerAssumption DEF HeldTypes
<1>4. AskOK /\ BlankOK /\ SeqsOK /\ JobsOK /\ CachedIsHeld
  BY <1>1, <1>2 DEF AskOK, BlankOK, SeqsOK, JobsOK, CachedIsHeld
<1>5. StagesOK
  BY <1>1, <1>2 DEF StagesOK, NotBegun
<1>6. RepliesAsAlone
  <2>1. DOMAIN <<>> = {}
    BY EmptySeq, LenProperties
  <2>. QED  BY <1>1, <2>1 DEF RepliesAsAlone
<1>. QED  BY <1>3, <1>4, <1>5, <1>6 DEF HeldInv

LEMMA NextHeld == ASSUME PlaceInv, PlaceInv', HeldInv, "push" \notin Faults, [Next]_vars PROVE HeldInv'
<1>1. CASE Top \/ Lent \/ Begun \/ Prompted \/ NoStep \/ Reaped \/ Free \/ Terminated \/ UNCHANGED vars
  BY <1>1, QuietHeld DEF Terminated
<1>2. CASE Lend
  BY <1>2, LendHeld
<1>3. CASE Step
  BY <1>3, StepHeld
<1>4. CASE Lose
  BY <1>4, LoseHeld
<1>5. ASSUME NEW r \in Requests, JobStep(r) PROVE HeldInv'
  <2>1. CASE Begin(r)
    BY <2>1, BeginHeld
  <2>2. CASE Prompt(r)
    BY <2>2, PromptHeld
  <2>3. CASE Take(r)
    <3>1. /\ sched = "take" /\ r \in taking /\ UNCHANGED <<ask, done, running, answering, busy>>
          /\ TakeFails(r) \/ TakeStops(r) \/ TakeRow(r)
      BY <2>3 DEF Take
    <3>. QED  BY <3>1, TakeEnds, TakeRowHeld
  <2>4. CASE Refuse(r) \/ HasRefused(r) \/ End(r) \/ HandBack(r)
    BY <2>4, TellHeld
  <2>. QED  BY <1>5, <2>1, <2>2, <2>3, <2>4 DEF JobStep
<1>6. ASSUME NEW r \in Requests, Serve(r) PROVE HeldInv'
  BY <1>6, ServeHeld
<1>7. ASSUME NEW r \in Requests, NEW a \in Asks, Ask(r, a) PROVE HeldInv'
  BY <1>7, AskHeld
<1>. QED  BY <1>1, <1>2, <1>3, <1>4, <1>5, <1>6, <1>7 DEF Next, SchedStep

\* What each sequence holds, and how far each job is with it, in every reachable
\* state of a scheduler whose lists can grow.
THEOREM HeldInvariance == "push" \notin Faults => (Spec => []HeldInv)
<1>1. ASSUME "push" \notin Faults PROVE Spec => []HeldInv
  <2>1. Init => HeldInv
    BY InitHeld
  <2>2. PlaceInv /\ PlaceInv' /\ HeldInv /\ [Next]_vars => HeldInv'
    BY <1>1, NextHeld
  <2>3. Spec => []PlaceInv
    BY Places
  <2>. QED  BY <2>1, <2>2, <2>3, PTL DEF Spec
<1>. QED  BY <1>1

\* While the lists can grow, the cached list of a sequence is what the model's
\* cache holds of it whenever no round is taking tokens there, however many
\* requests shared it, whatever was drafted and not taken, and wherever a step
\* failed: for every number of sequences and every prompt.
THEOREM CachedCorrect == "push" \notin Faults => (Spec => []CachedIsHeld)
<1>1. ASSUME "push" \notin Faults PROVE Spec => []CachedIsHeld
  <2>1. HeldInv => CachedIsHeld
    BY DEF HeldInv
  <2>2. Spec => []HeldInv
    BY <1>1, HeldInvariance
  <2>. QED  BY <2>1, <2>2, PTL
<1>. QED  BY <1>1

\* Every reply is the one the model gives to its request alone, token by token,
\* whatever ran beside it, was reused or was drafted, for every model.
THEOREM AloneCorrect == "push" \notin Faults => (Spec => []RepliesAsAlone)
<1>1. ASSUME "push" \notin Faults PROVE Spec => []RepliesAsAlone
  <2>1. HeldInv => RepliesAsAlone
    BY DEF HeldInv
  <2>2. Spec => []HeldInv
    BY <1>1, HeldInvariance
  <2>. QED  BY <2>1, <2>2, PTL
<1>. QED  BY <1>1

-----------------------------------------------------------------------------
(* What a client is sent: each step keeps AnswerInv. *)

LEMMA Joined ==
  ASSUME NEW a \in Seq(Items), NEW b \in Seq(Items), NEW c \in Seq(Items)
  PROVE  /\ a \o b \in Seq(Items) /\ (a \o b) \o c = a \o (b \o c)
         /\ <<>> \in Seq(Items) /\ <<>> \o a = a /\ a \o <<>> = a
BY ConcatProperties, ConcatAssociative, ConcatEmptySeq, EmptySeq

LEMMA WordsAreItems ==
  /\ \A q \in Seq(Tokens) : q \in Seq(Items)
  /\ \A t \in Tokens : <<t>> \in Seq(Items)
  /\ <<"open">> \in Seq(Items) /\ <<"end">> \in Seq(Items) /\ <<"error">> \in Seq(Items)
  /\ <<"lost">> \in Seq(Items) /\ <<"no thread">> \in Seq(Items) /\ <<>> \in Seq(Items)
<1>1. Tokens \subseteq Items
  BY DEF Items
<1>2. ASSUME NEW q \in Seq(Tokens) PROVE q \in Seq(Items)
  <2>1. Len(q) \in Nat /\ q \in [1 .. Len(q) -> Tokens]
    BY LenProperties
  <2>2. q \in [1 .. Len(q) -> Items]
    BY <1>1, <2>1
  <2>. QED  BY <2>1, <2>2
<1>3. /\ "open" \in Items /\ "end" \in Items /\ "error" \in Items /\ "lost" \in Items /\ "no thread" \in Items
  BY DEF Items
<1>4. \A e \in Items : <<e>> \in Seq(Items)
  OBVIOUS
<1>. QED  BY <1>1, <1>2, <1>3, <1>4, EmptySeq

\* A reply's text so far.
LEMMA TextIsItems ==
  ASSUME NEW r, reply[r] \in Seq(Tokens)
  PROVE  Text(r) \in Seq(Items) /\ Opened(r) \in Seq(Items) /\ SoFar(r) \in Seq(Items)
<1>1. Text(r) \in Seq(Tokens)
  <2>1. CASE reply[r] # <<>> /\ Last(reply[r]) \in Ends
    <3>1. Text(r) = SubSeq(reply[r], 1, Len(reply[r]) - 1)
      BY <2>1 DEF Text, Front
    <3>2. Len(reply[r]) - 1 \in 0 .. Len(reply[r])
      BY <2>1, EmptySeq, LenProperties
    <3>. QED  BY <3>1, <3>2, Beginning
  <2>2. CASE ~(reply[r] # <<>> /\ Last(reply[r]) \in Ends)
    BY <2>2 DEF Text
  <2>. QED  BY <2>1, <2>2
<1>2. Text(r) \in Seq(Items) /\ Opened(r) \in Seq(Items) /\ <<>> \in Seq(Items)
  BY <1>1, WordsAreItems DEF Opened
<1>. QED  BY <1>2, Joined DEF SoFar

\* What is written to a job's out is next to be said, unless it cannot be.
LEMMA Wrote ==
  ASSUME ListTypes, WireTypes, SinkOK, NEW r \in Requests, pc[r] \in Active,
         NEW items \in Seq(Items), Write(r, items), UNCHANGED <<gone, sent, chunk>>
  PROVE  /\ WireTypes' /\ SinkOK' /\ Stirred
         /\ \A q \in Requests \ {r} : Said(q)' = Said(q) /\ sinkFailed'[q] = sinkFailed[q]
         /\ sinkFailed[r] => sinkFailed'[r]
         /\ ~gone[r] /\ ~sinkFailed'[r] => Said(r)' = Said(r) \o items
<1>1. Stirred
  BY WriteStirs
<1>2. \A q \in Requests : pc'[q] = pc[q] \/ (q = r /\ pc[q] = "asleep" /\ pc'[q] = "awake")
  BY DEF Write, Woken, ListTypes
<1>3. sent[r] \in Seq(Items) /\ chunk[r] \in Seq(Items) /\ out[r] \in Seq(Items)
  BY DEF WireTypes
<1>4. CASE UNCHANGED <<pc, out, outok, sinkFailed>> /\ (items = <<>> \/ sinkFailed[r])
  <2>1. WireTypes' /\ SinkOK'
    BY <1>4 DEF WireTypes, SinkOK
  <2>2. Said(r) \in Seq(Items)
    BY <1>3, Joined DEF Said
  <2>3. ~sinkFailed'[r] => Said(r)' = Said(r) \o items
    BY <1>4, <2>2, Joined DEF Said
  <2>. QED  BY <1>1, <1>4, <2>1, <2>3 DEF Said
<1>5. CASE ~sinkFailed[r] /\ gone[r] /\ sinkFailed' = [sinkFailed EXCEPT ![r] = TRUE] /\ UNCHANGED <<pc, out, outok>>
  <2>1. WireTypes' /\ SinkOK'
    BY <1>5 DEF WireTypes, SinkOK
  <2>. QED  BY <1>1, <1>5, <2>1 DEF Said, WireTypes
<1>6. ASSUME ~sinkFailed[r], ~gone[r], NEW full \in BOOLEAN,
             out' = (IF full THEN out ELSE [out EXCEPT ![r] = @ \o items]),
             outok' = [outok EXCEPT ![r] = ~full], sinkFailed' = [sinkFailed EXCEPT ![r] = full]
      PROVE  /\ WireTypes' /\ SinkOK'
             /\ \A q \in Requests \ {r} : Said(q)' = Said(q) /\ sinkFailed'[q] = sinkFailed[q]
             /\ ~sinkFailed'[r] => Said(r)' = Said(r) \o items
  <2>1. out[r] \o items \in Seq(Items)
    BY <1>3, Joined
  <2>2. /\ WireTypes' /\ \A q \in Requests \ {r} : out'[q] = out[q] /\ sinkFailed'[q] = sinkFailed[q] /\ outok'[q] = outok[q]
        /\ sinkFailed'[r] = full /\ outok'[r] = ~full /\ (~full => out'[r] = out[r] \o items)
    BY <1>6, <2>1 DEF WireTypes
  <2>3. SinkOK'
    <3>1. \A q \in Requests : pc[q] \in Active => pc'[q] \in Active
      BY <1>2 DEF Active
    <3>2. \A q \in Requests : ~outok'[q] => sinkFailed'[q] /\ pc'[q] \in Active
      BY <1>6, <2>2, <3>1 DEF SinkOK
    <3>3. \A q \in Requests : sinkFailed'[q] => gone'[q] \/ ~outok'[q]
      BY <1>6, <2>2 DEF SinkOK
    <3>4. \A q \in Requests : /\ pc'[q] # "sending" => chunk'[q] = <<>>
                              /\ pc'[q] \in {"idle", "returned"} => out'[q] = <<>>
      BY <1>2, <2>2 DEF SinkOK, Active
    <3>. QED  BY <3>2, <3>3, <3>4 DEF SinkOK
  <2>4. ~full => Said(r)' = Said(r) \o items
    <3>1. sent[r] \o chunk[r] \in Seq(Items)
      BY <1>3, Joined
    <3>2. ((sent[r] \o chunk[r]) \o out[r]) \o items = (sent[r] \o chunk[r]) \o (out[r] \o items)
      <4>. DEFINE a == sent[r] \o chunk[r]  b == out[r]
      <4>1. a \in Seq(Items) /\ b \in Seq(Items)
        BY <1>3, <3>1
      <4>. HIDE DEF a, b
      <4>2. (a \o b) \o items = a \o (b \o items)
        BY <4>1, Joined
      <4>. QED  BY <4>2 DEF a, b
    <3>. QED  BY <2>2, <3>2 DEF Said
  <2>. QED  BY <2>2, <2>3, <2>4 DEF Said
<1>7. CASE ~(items = <<>> \/ sinkFailed[r]) /\ ~gone[r]
  <2>1. PICK full \in BOOLEAN :
          /\ out' = (IF full THEN out ELSE [out EXCEPT ![r] = @ \o items])
          /\ outok' = [outok EXCEPT ![r] = ~full] /\ sinkFailed' = [sinkFailed EXCEPT ![r] = full]
    BY <1>7 DEF Write, Fault
  <2>. QED  BY <1>1, <1>6, <1>7, <2>1
<1>8. CASE ~(items = <<>> \/ sinkFailed[r]) /\ gone[r]
  BY <1>5, <1>8 DEF Write
<1>9. CASE items = <<>> \/ sinkFailed[r]
  BY <1>4, <1>9 DEF Write
<1>. QED  BY <1>7, <1>8, <1>9

\* A step that says nothing to a connection and moves its job nowhere.
Apart(q) ==
  /\ done'[q] = done[q] /\ ask'[q] = ask[q] /\ reply'[q] = reply[q]
  /\ pc'[q] = pc[q] \/ (pc[q] \in Active /\ pc'[q] \in Active)
  /\ pc[q] \notin Active => sent'[q] = sent[q]
  /\ q \in Range(running') <=> q \in Range(running)
  /\ q \in Range(running) => job'[q].begun = job[q].begun
  /\ Handed(q)' <=> Handed(q)
  /\ (Refusing(q)' <=> Refusing(q)) \/ q \in Range(running) \/ Handed(q) \/ done[q]

LEMMA SameAnswers ==
  ASSUME NEW q, ask'[q] = ask[q], reply'[q] = reply[q]
  PROVE  /\ Text(q)' = Text(q) /\ SoFar(q)' = SoFar(q) /\ Answers(q)' = Answers(q)
         /\ (Complete(q)' <=> Complete(q))
<1>1. Text(q)' = Text(q)
  BY DEF Text
<1>2. (Complete(q)' <=> Complete(q))
  BY DEF Complete
<1>3. SoFar(q)' = SoFar(q)
  BY <1>1 DEF SoFar, Opened
<1>4. Answers(q)' = Answers(q)
  BY <1>1, <1>2 DEF Answers
<1>. QED  BY <1>1, <1>2, <1>3, <1>4

LEMMA ApartSaid ==
  ASSUME NEW q, SaidOK(q), Apart(q), Said(q)' = Said(q)
  PROVE  SaidOK(q)'
<1>1. SoFar(q)' = SoFar(q) /\ Answers(q)' = Answers(q)
  BY SameAnswers DEF Apart
<1>2. "idle" \notin Active /\ "returned" \notin Active
  BY DEF Active
<1>3. (pc'[q] = "idle" <=> pc[q] = "idle") /\ (pc'[q] = "returned" <=> pc[q] = "returned")
      /\ (pc'[q] \in Active <=> pc[q] \in Active)
  BY <1>2 DEF Apart
<1>4. (pc'[q] = "idle" => sent'[q] = <<>>)
      /\ (pc'[q] = "returned" /\ ~done'[q] => sent'[q] \in {<<"no thread">>, <<"lost">>})
  BY <1>2, <1>3 DEF Apart, SaidOK
<1>5. q \in Range(running') => Said(q)' = IF job'[q].begun THEN SoFar(q)' ELSE <<>>
  BY <1>1 DEF Apart, SaidOK
<1>6. done'[q] \/ Handed(q)' => Said(q)' \in Answers(q)'
  BY <1>1 DEF Apart, SaidOK
<1>7. pc'[q] \in Active /\ ~done'[q] /\ q \notin Range(running') /\ ~Handed(q)' =>
        Said(q)' = IF Refusing(q)' THEN <<"lost">> ELSE <<>>
  BY <1>3 DEF Apart, SaidOK
<1>. QED  BY <1>4, <1>5, <1>6, <1>7 DEF SaidOK

\* Steps that send and write nothing.
LEMMA SilentAnswer ==
  ASSUME AnswerInv, UNCHANGED <<pc, sent, chunk, out, outok, gone, sinkFailed>>,
         \A q \in Requests : SaidOK(q) => Apart(q) \/ SaidOK(q)',
         \A q \in Ended' : job'[q].ok => q \in Ended /\ job[q].ok /\ ask'[q] = ask[q] /\ reply'[q] = reply[q]
  PROVE  AnswerInv'
<1>1. WireTypes' /\ SinkOK'
  BY DEF AnswerInv, WireTypes, SinkOK
<1>2. ASSUME NEW q \in Ended', job'[q].ok, ~sinkFailed'[q] PROVE Complete(q)'
  <2>1. q \in Ended /\ job[q].ok /\ ask'[q] = ask[q] /\ reply'[q] = reply[q] /\ ~sinkFailed[q]
    BY <1>2
  <2>2. Complete(q)
    BY <2>1 DEF AnswerInv, EndedOK
  <2>. QED  BY <2>1, <2>2, SameAnswers
<1>3. ASSUME NEW q \in Requests, ~gone'[q], ~sinkFailed'[q] PROVE SaidOK(q)'
  <2>1. SaidOK(q) /\ Said(q)' = Said(q)
    BY <1>3 DEF AnswerInv, Said
  <2>. QED  BY <2>1, ApartSaid
<1>4. EndedOK'
  BY <1>2 DEF EndedOK
<1>. QED  BY <1>1, <1>3, <1>4 DEF AnswerInv

LEMMA QuietAnswer ==
  ASSUME AnswerInv, PlaceInv, HeldInv,
         Top \/ Lent \/ Begun \/ Prompted \/ NoStep \/ Reaped \/ Free \/ Step \/ UNCHANGED vars
  PROVE  AnswerInv'
<1>1. /\ UNCHANGED <<pc, sent, chunk, out, outok, gone, sinkFailed, done, ask, reply, running, answering>>
      /\ (sched' = "hand back" <=> sched = "hand back") /\ (sched' = "refused" <=> sched = "refused")
  <2>1. CASE Free \/ UNCHANGED vars
    BY <2>1 DEF Free, SchedWoken, vars, conn, list, jobs, shared
  <2>2. CASE Top \/ Lent \/ Begun \/ Prompted
    BY <2>2 DEF Top, Lent, Begun, Prompted, conn, list, jobs, shared
  <2>3. CASE NoStep \/ Reaped \/ Step
    BY <2>3 DEF NoStep, Reaped, Step, AfterRound, conn, list, jobs, shared
  <2>. QED  BY <2>1, <2>2, <2>3
<1>2. \A q \in Requests : job'[q].begun = job[q].begun /\ job'[q].ended = job[q].ended /\ job'[q].ok = job[q].ok
  <2>1. CASE Step
    <3>1. PICK pass \in Rounds : \E fed \in FedRows(pass) : RoundRan(pass, fed)
      BY <2>1, StepRan
    <3>2. PICK fed \in FedRows(pass) : RoundRan(pass, fed)
      BY <3>1
    <3>3. job' = [r \in Requests |-> IF r \in LiveSet
                                    THEN [job[r] EXCEPT !.pass = pass[r], !.fed = fed[r]]
                                    ELSE job[r]]
      BY <3>2 DEF RoundRan
    <3>4. \A q \in Requests : job[q] \in Jobs
      BY DEF HeldInv, HeldTypes
    <3>. QED  BY <3>3, <3>4 DEF Jobs
  <2>2. CASE ~Step
    <3>1. UNCHANGED job
      BY <2>2 DEF Top, Lent, Begun, Prompted, NoStep, Reaped, Free, vars, jobs
    <3>. QED  BY <3>1
  <2>. QED  BY <2>1, <2>2
<1>3. Range(running) \subseteq Requests
  BY ListedRequests DEF PlaceInv
<1>4. \A q \in Requests : Apart(q)
  BY <1>1, <1>2 DEF Apart, Handed, Refusing
<1>5. \A q \in Ended' : job'[q].ok => q \in Ended /\ job[q].ok
  BY <1>1, <1>2, <1>3 DEF Ended
<1>. QED  BY <1>1, <1>4, <1>5, SilentAnswer

LEMMA LoseAnswer ==
  ASSUME AnswerInv, PlaceInv, HeldInv, Lose
  PROVE  AnswerInv'
<1>1. /\ UNCHANGED <<pc, sent, chunk, out, outok, gone, sinkFailed, done, ask, reply, running>>
      /\ sched = "lose" /\ sched' \in {"reap", "refuse"}
      /\ job' = [r \in Requests |-> IF r \in Range(running) /\ ~job[r].ended
                                    THEN [job[r] EXCEPT !.ok = FALSE, !.ended = TRUE] ELSE job[r]]
  BY DEF Lose, conn
<1>2. \A q \in Requests : job[q] \in Jobs
  BY DEF HeldInv, HeldTypes
<1>3. \A q \in Requests : job'[q].begun = job[q].begun /\ (job'[q].ended /\ job'[q].ok => job[q].ended /\ job[q].ok)
  BY <1>1, <1>2 DEF Jobs
<1>4. Range(running) \subseteq Requests
  BY ListedRequests DEF PlaceInv
<1>5. \A q \in Requests : Apart(q)
  BY <1>1, <1>3 DEF Apart, Handed, Refusing
<1>6. \A q \in Ended' : job'[q].ok => q \in Ended /\ job[q].ok
  BY <1>1, <1>3, <1>4 DEF Ended
<1>. QED  BY <1>1, <1>5, <1>6, SilentAnswer

LEMMA LendAnswer ==
  ASSUME AnswerInv, PlaceInv, HeldInv, Lend
  PROVE  AnswerInv'
<1>. PICK r : r = Head(queue)
  OBVIOUS
<1>1. PICK s \in Seqs : job' = [job EXCEPT ![r].seq = s]
  BY DEF Lend
<1>2. /\ UNCHANGED <<pc, sent, chunk, out, outok, gone, sinkFailed, done, ask, reply, answering>>
      /\ sched = "lending" /\ sched' = "lending" /\ queue # <<>> /\ running' = Append(running, r)
  BY DEF Lend, conn
<1>3. r \in Range(queue) /\ r \in Requests
  BY <1>2, TailList DEF PlaceInv, ListTypes
<1>4. Range(running') = Range(running) \cup {r} /\ r \notin Range(running)
  <2>1. r \notin Range(running)
    BY <1>3 DEF PlaceInv, OnceOK
  <2>. QED  BY <1>2, <1>3, <2>1, AppendList DEF PlaceInv, ListTypes
<1>5. /\ \A q \in Requests : job[q] \in Jobs
      /\ job[r] = Blank /\ ~done[r] /\ pc[r] \in Active
  <2>1. r \in Listed /\ r \notin Holding
    BY <1>2, <1>3, <1>4 DEF Listed, Holding
  <2>2. ~done[r] /\ pc[r] \in Active
    BY <1>3, <2>1 DEF PlaceInv, ListedOK
  <2>3. job[r] = Blank
    BY <1>3, <2>1, <2>2 DEF HeldInv, BlankOK
  <2>. QED  BY <2>2, <2>3 DEF HeldInv, HeldTypes
<1>6. /\ \A q \in Requests : /\ job'[q].begun = job[q].begun /\ job'[q].ended = job[q].ended
                             /\ job'[q].ok = job[q].ok
      /\ ~job[r].begun /\ ~job[r].ended
  <2>1. \A q \in Requests : job'[q] = IF q = r THEN [job[r] EXCEPT !.seq = s] ELSE job[q]
    BY <1>1, <1>3 DEF HeldInv, HeldTypes
  <2>2. ~Blank.begun /\ ~Blank.ended
    BY DEF Blank
  <2>. QED  BY <1>5, <2>1, <2>2 DEF Jobs
<1>7. ASSUME NEW q \in Requests, q # r PROVE Apart(q)
  BY <1>2, <1>4, <1>6, <1>7 DEF Apart, Handed, Refusing
<1>8. ASSUME SaidOK(r) PROVE SaidOK(r)'
  <2>1. ~Handed(r) /\ ~Refusing(r) /\ ~Handed(r)'
    BY <1>2 DEF Handed, Refusing
  <2>2. Said(r) = <<>>
    BY <1>4, <1>5, <1>8, <2>1 DEF SaidOK
  <2>3. Said(r)' = <<>>
    BY <1>2, <2>2 DEF Said
  <2>4. "idle" \notin Active /\ "returned" \notin Active
    BY DEF Active
  <2>5. r \in Range(running') /\ ~job'[r].begun /\ pc'[r] \in Active /\ ~done'[r]
    BY <1>2, <1>3, <1>4, <1>5, <1>6
  <2>. QED  BY <2>1, <2>3, <2>4, <2>5 DEF SaidOK
<1>9. Range(running) \subseteq Requests
  BY ListedRequests DEF PlaceInv
<1>10. \A q \in Ended' : job'[q].ok => q \in Ended /\ job[q].ok
  BY <1>3, <1>4, <1>6, <1>9 DEF Ended
<1>11. \A q \in Requests : SaidOK(q) => Apart(q) \/ SaidOK(q)'
  BY <1>7, <1>8
<1>. QED  BY <1>2, <1>10, <1>11, SilentAnswer

\* A connection's steps: what is in out moves on, or the client has gone.
LEMMA ServeAnswer ==
  ASSUME AnswerInv, PlaceInv, HeldInv, NEW r \in Requests, Serve(r)
  PROVE  AnswerInv'
<1>1. /\ UNCHANGED <<ask, done, reply, sinkFailed, sched, running, answering>>
      /\ pc[r] \in {"awake", "sending"} /\ pc[r] \in Active
  BY DEF Serve, Look, Send, list, jobs, Active
<1>2. /\ \A q \in Requests \ {r} : /\ pc'[q] = pc[q] /\ out'[q] = out[q] /\ outok'[q] = outok[q]
                                   /\ chunk'[q] = chunk[q] /\ sent'[q] = sent[q]
                                   /\ gone'[q] = gone[q] /\ job'[q] = job[q]
      /\ pc'[r] \in Active \/ (pc'[r] = "returned" /\ done[r])
      /\ job'[r] = job[r] \/ done[r]
  <2>1. /\ job \in [Requests -> Jobs] /\ pc \in [Requests -> PCs] /\ WireTypes
    BY DEF HeldInv, HeldTypes, PlaceInv, ListTypes, PCs, AnswerInv
  <2>2. CASE Look(r)
    BY <2>1, <2>2 DEF Look, WireTypes, Active
  <2>3. CASE Send(r)
    BY <2>1, <2>3 DEF Send, WireTypes, Active, jobs
  <2>. QED  BY <2>2, <2>3 DEF Serve
<1>3. sent[r] \in Seq(Items) /\ chunk[r] \in Seq(Items) /\ out[r] \in Seq(Items) /\ <<>> \in Seq(Items)
  BY WordsAreItems DEF AnswerInv, WireTypes
<1>4. done[r] => r \notin Range(running) /\ r \notin Range(answering)
  BY DEF PlaceInv, ListedOK, Listed
<1>5. \A q \in Requests \ {r} : Apart(q) /\ Said(q)' = Said(q)
  BY <1>1, <1>2 DEF Apart, Said, Handed, Refusing
<1>6. EndedOK'
  <2>1. ASSUME NEW q \in Ended', job'[q].ok, ~sinkFailed'[q] PROVE Complete(q)'
    <3>1. q \in Range(running) /\ q \in Requests
      BY <1>1, ListedRequests DEF Ended, PlaceInv
    <3>2. job'[q] = job[q]
      BY <1>2, <1>4, <3>1
    <3>3. Complete(q)
      BY <1>1, <2>1, <3>1, <3>2 DEF AnswerInv, EndedOK, Ended
    <3>. QED  BY <1>1, <3>3, SameAnswers
  <2>. QED  BY <2>1 DEF EndedOK
<1>7. ASSUME WireTypes', SinkOK', gone[r] => gone'[r],
             ~gone'[r] => Said(r)' = Said(r)
      PROVE  AnswerInv'
  <2>1. ASSUME NEW q \in Requests, ~gone'[q], ~sinkFailed'[q] PROVE SaidOK(q)'
    <3>1. SaidOK(q) /\ Said(q)' = Said(q)
      BY <1>1, <1>2, <1>5, <1>7, <2>1 DEF AnswerInv, WireTypes
    <3>2. CASE q # r
      BY <1>5, <3>1, <3>2, ApartSaid
    <3>3. CASE q = r /\ pc'[r] \in Active /\ job'[r] = job[r]
      <4>1. Apart(r)
        BY <1>1, <3>3 DEF Apart, Handed, Refusing
      <4>. QED  BY <3>1, <3>3, <4>1, ApartSaid
    <3>4. CASE q = r /\ done[r]
      <4>1. SoFar(r)' = SoFar(r) /\ Answers(r)' = Answers(r)
        BY <1>1, SameAnswers
      <4>2. r \notin Range(running') /\ done'[r] /\ pc'[r] # "idle"
        BY <1>1, <1>2, <1>4, <3>4 DEF Active
      <4>3. Said(r)' \in Answers(r)'
        BY <3>1, <3>4, <4>1 DEF SaidOK
      <4>. QED  BY <3>4, <4>2, <4>3 DEF SaidOK
    <3>. QED  BY <1>2, <3>2, <3>3, <3>4
  <2>. QED  BY <1>6, <1>7, <2>1 DEF AnswerInv
<1>8. CASE Look(r)
  <2>1. pc[r] = "awake" /\ chunk[r] = <<>>
    BY <1>8 DEF Look, AnswerInv, SinkOK
  <2>2. CASE UNCHANGED <<chunk, gone, out, outok>> /\ outok[r] /\ out[r] = <<>>
    <3>1. UNCHANGED sent
      BY <1>8 DEF Look
    <3>2. WireTypes' /\ SinkOK'
      BY <1>1, <1>2, <2>1, <2>2, <3>1 DEF AnswerInv, WireTypes, SinkOK
    <3>. QED  BY <1>7, <2>2, <3>1, <3>2 DEF Said
  <2>3. CASE /\ out[r] # <<>> /\ outok[r] /\ chunk' = [chunk EXCEPT ![r] = out[r]]
             /\ out' = [out EXCEPT ![r] = <<>>] /\ pc' = [pc EXCEPT ![r] = "sending"]
             /\ UNCHANGED <<gone, outok, job>>
    <3>1. UNCHANGED sent
      BY <1>8 DEF Look
    <3>2. chunk'[r] = out[r] /\ out'[r] = <<>> /\ pc'[r] = "sending"
      BY <2>3 DEF AnswerInv, WireTypes, PlaceInv, ListTypes
    <3>3. WireTypes' /\ SinkOK'
      BY <1>1, <1>2, <1>3, <2>3, <3>1, <3>2 DEF AnswerInv, WireTypes, SinkOK, Active
    <3>4. sent[r] \o chunk[r] \o out[r] = sent[r] \o out[r] \o <<>>
      <4>1. sent[r] \o out[r] \in Seq(Items)
        BY <1>3, Joined
      <4>. QED  BY <1>3, <2>1, <4>1, Joined
    <3>. QED  BY <1>7, <2>3, <3>1, <3>2, <3>3, <3>4 DEF Said
  <2>4. CASE /\ gone' = [gone EXCEPT ![r] = TRUE] /\ out' = [out EXCEPT ![r] = <<>>]
             /\ outok' = [outok EXCEPT ![r] = TRUE] /\ UNCHANGED <<pc, chunk, job>>
    <3>1. UNCHANGED sent /\ gone'[r]
      BY <1>8, <2>4 DEF Look, AnswerInv, WireTypes
    <3>2. WireTypes' /\ SinkOK'
      BY <1>1, <1>2, <1>3, <2>4, <3>1 DEF AnswerInv, WireTypes, SinkOK
    <3>. QED  BY <1>7, <3>1, <3>2
  <2>5. \/ UNCHANGED <<chunk, gone, out, outok>> /\ outok[r] /\ out[r] = <<>>
        \/ /\ out[r] # <<>> /\ outok[r] /\ chunk' = [chunk EXCEPT ![r] = out[r]]
           /\ out' = [out EXCEPT ![r] = <<>>] /\ pc' = [pc EXCEPT ![r] = "sending"]
           /\ UNCHANGED <<gone, outok, job>>
        \/ /\ gone' = [gone EXCEPT ![r] = TRUE] /\ out' = [out EXCEPT ![r] = <<>>]
           /\ outok' = [outok EXCEPT ![r] = TRUE] /\ UNCHANGED <<pc, chunk, job>>
    BY <1>8 DEF Look
  <2>. QED  BY <2>2, <2>3, <2>4, <2>5
<1>9. CASE Send(r)
  <2>1. PICK hangup \in BOOLEAN :
          /\ sent' = [sent EXCEPT ![r] = IF gone[r] \/ hangup THEN @ ELSE @ \o chunk[r]]
          /\ gone' = [gone EXCEPT ![r] = @ \/ hangup]
    BY <1>9 DEF Send, Fault
  <2>2. pc' = [pc EXCEPT ![r] = "awake"] /\ chunk' = [chunk EXCEPT ![r] = <<>>] /\ UNCHANGED <<out, outok>>
    BY <1>9 DEF Send
  <2>3. sent[r] \o chunk[r] \in Seq(Items)
    BY <1>3, Joined
  <2>4. /\ chunk'[r] = <<>> /\ gone'[r] = (gone[r] \/ hangup) /\ pc'[r] = "awake"
        /\ sent'[r] = (IF gone[r] \/ hangup THEN sent[r] ELSE sent[r] \o chunk[r])
    BY <2>1, <2>2 DEF AnswerInv, WireTypes, PlaceInv, ListTypes
  <2>5. WireTypes'
    BY <1>1, <1>3, <2>1, <2>2, <2>3 DEF AnswerInv, WireTypes
  <2>6. SinkOK'
    <3>1. /\ pc \in [Requests -> Active \cup {"idle", "returned"}] /\ chunk \in [Requests -> Seq(Items)]
          /\ gone \in [Requests -> BOOLEAN]
      BY DEF AnswerInv, WireTypes, PlaceInv, ListTypes
    <3>2. ASSUME NEW q \in Requests \ {r} PROVE pc'[q] = pc[q] /\ chunk'[q] = chunk[q] /\ gone'[q] = gone[q]
      BY <2>1, <2>2, <3>1
    <3>3. UNCHANGED <<out, outok, sinkFailed>>
      BY <1>1, <2>2
    <3>4. ASSUME NEW q \in Requests \ {r}
          PROVE  /\ sinkFailed'[q] => gone'[q] \/ ~outok'[q]
                 /\ ~outok'[q] => sinkFailed'[q] /\ pc'[q] \in Active
                 /\ pc'[q] # "sending" => chunk'[q] = <<>>
                 /\ pc'[q] \in {"idle", "returned"} => out'[q] = <<>>
      BY <3>2, <3>3 DEF AnswerInv, SinkOK
    <3>5. /\ sinkFailed'[r] => gone'[r] \/ ~outok'[r]
          /\ ~outok'[r] => sinkFailed'[r] /\ pc'[r] \in Active
          /\ chunk'[r] = <<>> /\ pc'[r] \notin {"idle", "returned"}
      BY <2>4, <3>3 DEF AnswerInv, SinkOK, Active
    <3>. QED  BY <3>4, <3>5 DEF SinkOK
  <2>7. ~gone'[r] => Said(r)' = Said(r)
    <3>1. (sent[r] \o chunk[r]) \o <<>> = sent[r] \o chunk[r]
      BY <2>3, Joined
    <3>. QED  BY <2>2, <2>4, <3>1 DEF Said
  <2>8. gone[r] => gone'[r]
    BY <2>4
  <2>. QED  BY <1>7, <2>5, <2>6, <2>7, <2>8
<1>. QED  BY <1>8, <1>9 DEF Serve

LEMMA AskAnswer ==
  ASSUME AnswerInv, PlaceInv, HeldInv, NEW r \in Requests, NEW a \in Asks, Ask(r, a)
  PROVE  AnswerInv'
<1>1. /\ UNCHANGED <<chunk, out, outok, done, gone, running, answering, job, reply, sinkFailed>>
      /\ pc[r] = "idle" /\ ask' = [ask EXCEPT ![r] = a]
      /\ sched' = sched \/ (sched \in {"unborn", "asleep"} /\ sched' = "top")
      /\ \/ pc' = [pc EXCEPT ![r] = "asleep"] /\ sent' = sent
         \/ /\ pc' = [pc EXCEPT ![r] = "returned"]
            /\ sent' = [sent EXCEPT ![r] = <<"no thread">>] \/ sent' = [sent EXCEPT ![r] = <<"lost">>]
  BY DEF Ask, Refused, Queued, SchedWoken, shared, list, jobs, lists, model
<1>2. r \notin Listed /\ ~done[r]
  BY <1>1 DEF PlaceInv, ListedOK, Active
<1>3. /\ \A q \in Requests \ {r} : pc'[q] = pc[q] /\ sent'[q] = sent[q] /\ ask'[q] = ask[q]
      /\ \/ pc'[r] = "asleep" /\ sent'[r] = sent[r]
         \/ pc'[r] = "returned" /\ sent'[r] \in {<<"no thread">>, <<"lost">>}
  BY <1>1 DEF AnswerInv, WireTypes, PlaceInv, ListTypes, HeldInv, HeldTypes
<1>4. WireTypes'
  BY <1>1, WordsAreItems DEF AnswerInv, WireTypes
<1>5. SinkOK'
  BY <1>1, <1>3 DEF AnswerInv, SinkOK, Active
<1>6. EndedOK'
  <2>1. ASSUME NEW q \in Ended', job'[q].ok, ~sinkFailed'[q] PROVE Complete(q)'
    <3>1. q \in Ended /\ q \in Requests /\ q # r
      BY <1>1, <1>2, ListedRequests DEF Ended, PlaceInv, Listed
    <3>2. Complete(q)
      BY <1>1, <2>1, <3>1 DEF AnswerInv, EndedOK
    <3>. QED  BY <1>1, <1>3, <3>1, <3>2, SameAnswers
  <2>. QED  BY <2>1 DEF EndedOK
<1>7. \A q \in Requests \ {r} : Apart(q) /\ Said(q)' = Said(q)
  BY <1>1, <1>3 DEF Apart, Said, Handed, Refusing
<1>8. ASSUME SaidOK(r) PROVE SaidOK(r)'
  <2>1. r \notin Range(running') /\ ~done'[r] /\ r \notin Range(answering')
    BY <1>1, <1>2 DEF Listed
  <2>2. ~Refusing(r)'
    <3>1. sched' = "refused" => answering' # <<>> /\ answering' \in Seq(Requests)
      BY <1>1 DEF PlaceInv, AnsweringOK, ListTypes
    <3>2. sched' = "refused" => Head(answering') \in Range(answering')
      BY <3>1, TailList
    <3>. QED  BY <2>1, <3>2 DEF Refusing
  <2>3. pc'[r] = "asleep" => Said(r)' = <<>>
    <3>1. sent[r] = <<>> /\ chunk[r] = <<>> /\ out[r] = <<>>
      BY <1>1, <1>8 DEF SaidOK, AnswerInv, SinkOK
    <3>2. <<>> \o <<>> = <<>>
      BY EmptySeq, ConcatEmptySeq
    <3>. QED  BY <1>1, <1>3, <3>1, <3>2 DEF Said
  <2>4. ~Handed(r)'
    BY <2>1 DEF Handed
  <2>. QED  BY <1>3, <2>1, <2>2, <2>3, <2>4 DEF SaidOK, Active
<1>9. ASSUME NEW q \in Requests, ~gone'[q], ~sinkFailed'[q] PROVE SaidOK(q)'
  BY <1>1, <1>7, <1>8, <1>9, ApartSaid DEF AnswerInv
<1>. QED  BY <1>4, <1>5, <1>6, <1>9 DEF AnswerInv

\* The scheduler writes to one job's out, or tells its connection: what is
\* left to show.
LEMMA TellAnswer ==
  ASSUME AnswerInv, PlaceInv, WireTypes', SinkOK', NEW r \in Requests,
         UNCHANGED <<job, ask, reply, gone>>,
         \A q \in Requests \ {r} : Apart(q) /\ Said(q)' = Said(q),
         \A q \in Requests : sinkFailed[q] => sinkFailed'[q],
         Range(running') \subseteq Range(running),
         SaidOK(r) /\ ~gone[r] /\ ~sinkFailed'[r] => SaidOK(r)'
  PROVE  AnswerInv'
<1>1. EndedOK'
  <2>1. ASSUME NEW q \in Ended', job'[q].ok, ~sinkFailed'[q] PROVE Complete(q)'
    <3>1. q \in Ended /\ job[q].ok /\ ~sinkFailed[q]
      BY <2>1, ListedRequests DEF Ended, PlaceInv
    <3>2. Complete(q)
      BY <3>1 DEF AnswerInv, EndedOK
    <3>. QED  BY <3>2, SameAnswers
  <2>. QED  BY <2>1 DEF EndedOK
<1>2. ASSUME NEW q \in Requests, ~gone'[q], ~sinkFailed'[q] PROVE SaidOK(q)'
  <2>1. SaidOK(q)
    BY <1>2 DEF AnswerInv
  <2>. QED  BY <1>2, <2>1, ApartSaid
<1>. QED  BY <1>1, <1>2 DEF AnswerInv

\* A refusal is said once.
LEMMA RefuseAnswer ==
  ASSUME AnswerInv, PlaceInv, NEW r \in Requests, Refuse(r)
  PROVE  AnswerInv'
<1>1. /\ sched = "refuse" /\ sched' = "refused" /\ r = Head(answering) /\ Write(r, <<"lost">>)
      /\ UNCHANGED <<ask, chunk, sent, done, gone, running, answering, job, reply>>
  BY DEF Refuse, list
<1>2. r \in Range(answering)
  BY <1>1, TailList DEF PlaceInv, ListTypes, AnsweringOK
<1>3. pc[r] \in Active /\ ~done[r] /\ r \notin Range(running)
  BY <1>2 DEF PlaceInv, ListedOK, Listed, OnceOK
<1>4. <<"lost">> \in Seq(Items)
  BY WordsAreItems
<1>5. /\ WireTypes' /\ SinkOK' /\ Stirred
      /\ \A q \in Requests \ {r} : Said(q)' = Said(q) /\ sinkFailed'[q] = sinkFailed[q]
      /\ sinkFailed[r] => sinkFailed'[r]
      /\ ~gone[r] /\ ~sinkFailed'[r] => Said(r)' = Said(r) \o <<"lost">>
  BY <1>1, <1>3, <1>4, Wrote DEF AnswerInv, PlaceInv
<1>6. \A q \in Requests \ {r} : Apart(q)
  BY <1>1, <1>5 DEF Apart, Stirred, Handed, Refusing
<1>7. ASSUME SaidOK(r), ~gone[r], ~sinkFailed'[r] PROVE SaidOK(r)'
  <2>1. Said(r) = <<>>
    BY <1>1, <1>3, <1>7 DEF SaidOK, Handed, Refusing
  <2>2. Said(r)' = <<"lost">>
    BY <1>4, <1>5, <1>7, <2>1, Joined
  <2>3. pc'[r] \in Active /\ "idle" \notin Active /\ "returned" \notin Active
    BY <1>3, <1>5 DEF Stirred, Active
  <2>. QED  BY <1>1, <1>3, <2>2, <2>3 DEF SaidOK, Handed, Refusing
<1>8. \A q \in Requests : sinkFailed[q] => sinkFailed'[q]
  BY <1>5
<1>. QED  BY <1>1, <1>5, <1>6, <1>7, <1>8, TellAnswer

\* A connection is told that the scheduler is done with its job: all has been
\* said by then.
LEMMA DoneAnswer ==
  ASSUME AnswerInv, PlaceInv, NEW r \in Requests, HasRefused(r) \/ HandBack(r)
  PROVE  AnswerInv'
<1>1. /\ UNCHANGED <<ask, chunk, sent, out, outok, gone, running, job, reply, sinkFailed>>
      /\ r = Head(answering) /\ done' = [done EXCEPT ![r] = TRUE] /\ pc' = Woken(r)
      /\ sched' \in {"reap", "refuse"} /\ sched \in {"refused", "hand back"}
  BY DEF HasRefused, HandBack, Done, jobs
<1>2. r \in Range(answering) /\ (sched = "hand back" => Range(answering) = {r})
  <2>1. answering # <<>> /\ answering \in Seq(Requests)
    <3>1. Len(<<>>) # 1
      OBVIOUS
    <3>. QED  BY <1>1, <3>1 DEF PlaceInv, ListTypes, AnsweringOK
  <2>2. sched = "hand back" => Range(answering) = {r}
    BY <1>1, HeadOnly DEF PlaceInv, ListTypes, AnsweringOK
  <2>. QED  BY <1>1, <2>1, <2>2, TailList
<1>3. pc[r] \in Active /\ ~done[r] /\ r \notin Range(running)
  BY <1>2 DEF PlaceInv, ListedOK, Listed, OnceOK
<1>4. Stirred
  BY <1>1, WokenStirs DEF PlaceInv
<1>5. /\ WireTypes' /\ \A q \in Requests : Said(q)' = Said(q)
      /\ \A q \in Requests : pc'[q] = pc[q] \/ (pc[q] = "asleep" /\ pc'[q] = "awake")
      /\ done'[r] /\ \A q \in Requests \ {r} : done'[q] = done[q]
  BY <1>1 DEF AnswerInv, WireTypes, Said, PlaceInv, ListTypes, Woken
<1>6. SinkOK'
  BY <1>1, <1>5 DEF AnswerInv, SinkOK, Active
<1>7. \A q \in Requests \ {r} : Apart(q)
  BY <1>1, <1>2, <1>4, <1>5 DEF Apart, Stirred, Handed, Refusing
<1>8. ASSUME SaidOK(r) PROVE SaidOK(r)'
  <2>1. Said(r) \in Answers(r)
    <3>1. CASE sched = "hand back"
      BY <1>2, <1>8, <3>1 DEF SaidOK, Handed
    <3>2. CASE sched = "refused"
      <4>1. Said(r) = <<"lost">>
        BY <1>1, <1>3, <1>8, <3>2 DEF SaidOK, Handed, Refusing
      <4>. QED  BY <4>1 DEF Answers
    <3>. QED  BY <1>1, <3>1, <3>2
  <2>2. Answers(r)' = Answers(r)
    BY <1>1, SameAnswers
  <2>3. pc'[r] \in Active /\ "idle" \notin Active /\ "returned" \notin Active
    BY <1>3, <1>4 DEF Stirred, Active
  <2>4. done'[r] /\ r \notin Range(running') /\ Said(r)' \in Answers(r)'
    BY <1>1, <1>3, <1>5, <2>1, <2>2
  <2>. QED  BY <2>3, <2>4 DEF SaidOK
<1>. QED  BY <1>1, <1>5, <1>6, <1>7, <1>8, TellAnswer

\* What has gone out and what follows it when the job ends make an answer.
LEMMA EndSaid ==
  ASSUME NEW r, reply[r] \in Seq(Tokens), NEW items,
         items = <<"error">> \/ (items = Rest(r) /\ Complete(r))
  PROVE  SoFar(r) \o items \in Answers(r) /\ items \in Seq(Items)
<1>1. /\ Text(r) \in Seq(Items) /\ Opened(r) \in Seq(Items) /\ SoFar(r) \in Seq(Items)
      /\ <<"end">> \in Seq(Items) /\ <<"error">> \in Seq(Items)
  BY TextIsItems, WordsAreItems
<1>2. CASE items = <<"error">>
  <2>1. SoFar(r) \o <<"error">> \in Answers(r)
    BY DEF Answers, SoFar, Opened
  <2>. QED  BY <1>1, <1>2, <2>1
<1>3. CASE items = Rest(r) /\ Complete(r)
  <2>1. Rest(r) \in Seq(Items)
    BY <1>1, Joined DEF Rest
  <2>2. (Opened(r) \o Text(r)) \o <<"end">> \in Answers(r)
    BY <1>3 DEF Answers, Opened
  <2>3. SoFar(r) \o Rest(r) = (Opened(r) \o Text(r)) \o <<"end">>
    <3>1. CASE ask[r].stream
      BY <3>1 DEF SoFar, Rest
    <3>2. CASE ~ask[r].stream
      <4>1. Opened(r) = <<>> /\ Rest(r) = Text(r) \o <<"end">> /\ SoFar(r) = Opened(r) \o <<>>
        BY <3>2 DEF Opened, Rest, SoFar
      <4>2. SoFar(r) = <<>>
        BY <1>1, <4>1, Joined
      <4>3. <<>> \o Rest(r) = Rest(r) /\ <<>> \o Text(r) = Text(r)
        BY <1>1, <2>1, Joined
      <4>. QED  BY <4>1, <4>2, <4>3
    <3>. QED  BY <3>1, <3>2
  <2>. QED  BY <1>3, <2>1, <2>2, <2>3
<1>. QED  BY <1>2, <1>3

LEMMA EndAnswer ==
  ASSUME AnswerInv, PlaceInv, HeldInv, NEW r \in Requests, End(r)
  PROVE  AnswerInv'
<1>1. /\ sched = "reap" /\ sched' = "hand back" /\ r \in Range(running) /\ job[r].ended
      /\ running' = RemoveFirst(running, r) /\ answering' = <<r>>
      /\ UNCHANGED <<ask, chunk, sent, done, gone, job, reply>>
  BY DEF End, First, Ended
<1>2. PICK items : /\ Write(r, items)
                   /\ items = <<"error">> \/ (items = Rest(r) /\ job[r].ok)
  BY DEF End
<1>3. pc[r] \in Active /\ ~done[r] /\ reply[r] \in Seq(Tokens) /\ job[r].begun
  <2>1. JobOK(r) /\ reply[r] \in Seq(Tokens)
    BY <1>1, JobFacts
  <2>. QED  BY <1>1, <2>1 DEF PlaceInv, ListedOK, Listed, JobOK
<1>4. items \in Seq(Items)
  <2>1. Text(r) \in Seq(Items) /\ <<"end">> \in Seq(Items) /\ <<"error">> \in Seq(Items)
    BY <1>3, TextIsItems, WordsAreItems
  <2>2. Rest(r) \in Seq(Items)
    BY <2>1, Joined DEF Rest
  <2>. QED  BY <1>2, <2>1, <2>2
<1>5. /\ WireTypes' /\ SinkOK' /\ Stirred
      /\ \A q \in Requests \ {r} : Said(q)' = Said(q) /\ sinkFailed'[q] = sinkFailed[q]
      /\ sinkFailed[r] => sinkFailed'[r]
      /\ ~gone[r] /\ ~sinkFailed'[r] => Said(r)' = Said(r) \o items
  BY <1>1, <1>2, <1>3, <1>4, Wrote DEF AnswerInv, PlaceInv
<1>6. Range(running') = Range(running) \ {r} /\ Range(answering') = {r}
  <2>1. running \in Seq(Requests) /\ IsInjective(running)
    BY DEF PlaceInv, ListTypes, OnceOK
  <2>2. Range(RemoveFirst(running, r)) = Range(running) \ {r}
    BY <1>1, <2>1, RemoveList
  <2>3. Range(<<r>>) = {r}
    BY OneList
  <2>. QED  BY <1>1, <2>2, <2>3
<1>7. \A q \in Requests \ {r} : Apart(q)
  BY <1>1, <1>5, <1>6 DEF Apart, Stirred, Handed, Refusing
<1>8. ASSUME SaidOK(r), ~gone[r], ~sinkFailed'[r] PROVE SaidOK(r)'
  <2>1. Said(r) = SoFar(r)
    BY <1>1, <1>3, <1>8 DEF SaidOK
  <2>2. job[r].ok => Complete(r)
    BY <1>1, <1>5, <1>8 DEF AnswerInv, EndedOK, Ended
  <2>3. Said(r)' \in Answers(r)
    BY <1>2, <1>3, <1>5, <1>8, <2>1, <2>2, EndSaid
  <2>4. Answers(r)' = Answers(r)
    BY <1>1, SameAnswers
  <2>5. pc'[r] \in Active /\ "idle" \notin Active /\ "returned" \notin Active
    BY <1>3, <1>5 DEF Stirred, Active
  <2>6. Handed(r)' /\ r \notin Range(running') /\ ~done'[r]
    BY <1>1, <1>3, <1>6 DEF Handed
  <2>. QED  BY <2>3, <2>4, <2>5, <2>6 DEF SaidOK
<1>9. \A q \in Requests : sinkFailed[q] => sinkFailed'[q]
  BY <1>5
<1>10. Range(running') \subseteq Range(running)
  BY <1>6
<1>. QED  BY <1>1, <1>5, <1>7, <1>8, <1>9, <1>10, TellAnswer

\* A step of a job's: what it adds to the reply's text is what it writes, and
\* a job that ends with its steps done has a whole reply.
LEMMA JobAnswer ==
  ASSUME AnswerInv, PlaceInv, HeldInv, NEW r \in Range(running), NEW items \in Seq(Items), Write(r, items),
         NEW x, job' = [job EXCEPT ![r] = x], x.begun,
         UNCHANGED <<ask, chunk, sent, done, gone, running, answering>>,
         sched \notin {"hand back", "refused"}, sched' \notin {"hand back", "refused"},
         \A q \in Requests \ {r} : reply'[q] = reply[q],
         (IF job[r].begun THEN SoFar(r) ELSE <<>>) \o items = SoFar(r)',
         x.ended /\ x.ok /\ ~sinkFailed'[r] => Complete(r)'
  PROVE  AnswerInv'
<1>1. r \in Requests /\ pc[r] \in Active /\ ~done[r] /\ Range(running) \subseteq Requests
  BY ListedRequests DEF PlaceInv, ListedOK, Listed
<1>2. /\ WireTypes' /\ SinkOK' /\ Stirred
      /\ \A q \in Requests \ {r} : Said(q)' = Said(q) /\ sinkFailed'[q] = sinkFailed[q]
      /\ sinkFailed[r] => sinkFailed'[r]
      /\ ~gone[r] /\ ~sinkFailed'[r] => Said(r)' = Said(r) \o items
  BY <1>1, Wrote DEF AnswerInv, PlaceInv
<1>3. \A q \in Requests : job'[q] = IF q = r THEN x ELSE job[q]
  BY <1>1 DEF HeldInv, HeldTypes
<1>4. \A q \in Requests \ {r} : Apart(q)
  BY <1>1, <1>2, <1>3 DEF Apart, Stirred, Handed, Refusing
<1>5. EndedOK'
  <2>1. ASSUME NEW q \in Ended', job'[q].ok, ~sinkFailed'[q] PROVE Complete(q)'
    <3>1. q \in Range(running) /\ q \in Requests /\ job'[q].ended
      BY <1>1 DEF Ended
    <3>2. CASE q = r
      BY <1>3, <2>1, <3>1, <3>2
    <3>3. CASE q # r
      <4>1. Complete(q)
        BY <1>2, <1>3, <2>1, <3>1, <3>3 DEF AnswerInv, EndedOK, Ended
      <4>. QED  BY <3>1, <3>3, <4>1, SameAnswers
    <3>. QED  BY <3>2, <3>3
  <2>. QED  BY <2>1 DEF EndedOK
<1>6. ASSUME SaidOK(r), ~gone[r], ~sinkFailed'[r] PROVE SaidOK(r)'
  <2>1. Said(r)' = SoFar(r)'
    BY <1>2, <1>6 DEF SaidOK
  <2>2. job'[r].begun /\ ~done'[r] /\ r \in Range(running') /\ ~Handed(r)'
    BY <1>1, <1>3 DEF Handed
  <2>3. pc'[r] \in Active /\ "idle" \notin Active /\ "returned" \notin Active
    BY <1>1, <1>2 DEF Stirred, Active
  <2>. QED  BY <2>1, <2>2, <2>3 DEF SaidOK
<1>7. ASSUME NEW q \in Requests, ~gone'[q], ~sinkFailed'[q] PROVE SaidOK(q)'
  <2>1. SaidOK(q)
    BY <1>2, <1>7 DEF AnswerInv
  <2>. QED  BY <1>2, <1>4, <1>6, <1>7, <2>1, ApartSaid
<1>. QED  BY <1>2, <1>5, <1>7 DEF AnswerInv

\* Steps of a job's that take no token.
LEMMA StillAnswer ==
  ASSUME AnswerInv, PlaceInv, HeldInv, NEW r \in Range(running),
         UNCHANGED <<pc, out, outok, sinkFailed, reply>>,
         NEW x, job' = [job EXCEPT ![r] = x], x.begun, job[r].begun,
         UNCHANGED <<ask, chunk, sent, done, gone, running, answering>>,
         sched \notin {"hand back", "refused"}, sched' \notin {"hand back", "refused"},
         x.ended /\ x.ok /\ ~sinkFailed[r] => Complete(r)
  PROVE  AnswerInv'
<1>1. Write(r, <<>>) /\ <<>> \in Seq(Items)
  BY WordsAreItems DEF Write
<1>2. SoFar(r)' = SoFar(r) /\ (Complete(r)' <=> Complete(r))
  BY SameAnswers
<1>3. SoFar(r) \o <<>> = SoFar(r)
  <2>1. reply[r] \in Seq(Tokens)
    BY JobFacts
  <2>. QED  BY <2>1, TextIsItems, Joined
<1>4. (IF job[r].begun THEN SoFar(r) ELSE <<>>) \o <<>> = SoFar(r)'
  BY <1>2, <1>3
<1>5. x.ended /\ x.ok /\ ~sinkFailed'[r] => Complete(r)'
  BY <1>2
<1>. QED  BY <1>1, <1>4, <1>5, JobAnswer

\* A token taken is the next of the reply's text, unless it ends the reply.
LEMMA TookText ==
  ASSUME HeldInv, NEW r \in Requests, NEW u \in Tokens \cup {NoToken}, TakeToken(r, u), ask'[r] = ask[r],
         reply[r] = <<>> \/ Last(reply[r]) \notin Ends
  PROVE  LET items == IF ask[r].stream /\ u \notin Ends \cup {NoToken} THEN <<u>> ELSE <<>>
         IN  Write(r, items) /\ items \in Seq(Items) /\ SoFar(r) \o items = SoFar(r)'
<1>. DEFINE items == IF ask[r].stream /\ u \notin Ends \cup {NoToken} THEN <<u>> ELSE <<>>
            w == reply[r]
<1>1. Write(r, items) /\ reply' = [reply EXCEPT ![r] = IF u = NoToken THEN w ELSE Append(w, u)]
  BY DEF TakeToken
<1>2. items \in Seq(Items)
  BY WordsAreItems
<1>3. w \in Seq(Tokens) /\ Text(r) = w /\ reply \in [Requests -> Seq(Tokens)]
  BY DEF HeldInv, HeldTypes, Text
<1>4. SoFar(r) \in Seq(Items) /\ Opened(r) \in Seq(Items) /\ w \in Seq(Items)
  BY <1>3, TextIsItems
<1>5. Opened(r)' = Opened(r) /\ SoFar(r)' = Opened(r) \o (IF ask[r].stream THEN Text(r)' ELSE <<>>)
  BY DEF Opened, SoFar
<1>6. CASE u = NoToken
  <2>1. reply'[r] = w
    BY <1>1, <1>3, <1>6
  <2>2. SoFar(r)' = SoFar(r) /\ items = <<>>
    BY <1>6, <2>1, SameAnswers
  <2>. QED  BY <1>1, <1>2, <1>4, <2>2, Joined
<1>7. CASE u # NoToken
  <2>. DEFINE p == Append(w, u)
  <2>1. u \in Tokens
    BY <1>7
  <2>2. p \in Seq(Tokens) /\ p = w \o <<u>> /\ p # <<>> /\ Last(p) = u /\ Len(p) = Len(w) + 1 /\ SubSeq(p, 1, Len(w)) = w
    <3>. HIDE DEF w
    <3>. QED  BY <1>3, <2>1, Longer
  <2>3. reply'[r] = p
    BY <1>1, <1>3, <1>7
  <2>. HIDE DEF p
  <2>4. Text(r)' = IF u \in Ends THEN w ELSE p
    <3>1. Text(r)' = IF p # <<>> /\ Last(p) \in Ends THEN SubSeq(p, 1, Len(p) - 1) ELSE p
      BY <2>3 DEF Text, Front
    <3>2. Len(p) - 1 = Len(w)
      BY <1>3, <2>2, LenProperties
    <3>. QED  BY <2>2, <3>1, <3>2
  <2>5. CASE ask[r].stream /\ u \notin Ends
    <3>1. items = <<u>> /\ <<u>> \in Seq(Items)
      BY <1>7, <2>1, <2>5, WordsAreItems
    <3>2. SoFar(r) = Opened(r) \o w /\ SoFar(r)' = Opened(r) \o (w \o <<u>>)
      BY <1>3, <1>5, <2>2, <2>4, <2>5 DEF SoFar
    <3>3. (Opened(r) \o w) \o <<u>> = Opened(r) \o (w \o <<u>>)
      <4>. DEFINE c == <<u>>
      <4>. HIDE DEF c, w
      <4>1. (Opened(r) \o w) \o c = Opened(r) \o (w \o c)
        BY <1>4, <3>1, Joined DEF c
      <4>. QED  BY <4>1 DEF c
    <3>. QED  BY <1>1, <1>2, <3>1, <3>2, <3>3
  <2>6. CASE ~(ask[r].stream /\ u \notin Ends)
    <3>1. items = <<>>
      BY <2>6
    <3>2. SoFar(r)' = SoFar(r)
      BY <1>3, <1>5, <2>4, <2>6 DEF SoFar
    <3>. QED  BY <1>1, <1>2, <1>4, <3>1, <3>2, Joined
  <2>. QED  BY <2>5, <2>6
<1>. QED  BY <1>6, <1>7

LEMMA OneMore ==
  ASSUME NEW q \in Seq(Tokens), NEW e \in Tokens
  PROVE  Append(q, e) # <<>> /\ Last(Append(q, e)) = e /\ Len(Append(q, e)) = Len(q) + 1
<1>. DEFINE p == Append(q, e)
            n == Len(q)
<1>1. n \in Nat /\ Len(p) = n + 1 /\ p[n + 1] = e
  BY AppendProperties, LenProperties
<1>. HIDE DEF p, n
<1>2. p # <<>>
  <2>1. Len(<<>>) = 0
    BY EmptySeq
  <2>. QED  BY <1>1, <2>1
<1>3. Last(p) = e
  BY <1>1 DEF Last
<1>. QED  BY <1>1, <1>2, <1>3 DEF p, n

\* A reply that does not go on after the token it would take alone is whole.
LEMMA TookWhole ==
  ASSUME HeldInv, NEW r \in Requests, NEW u \in Tokens \cup {NoToken}, TakeToken(r, u), ask'[r] = ask[r],
         u = Gives(ask[r].ids \o reply[r]), ask[r].max \in Nat, Len(reply[r]) < ask[r].max, ~Goes(r, u)
  PROVE  Complete(r)'
<1>1. reply[r] \in Seq(Tokens) /\ Len(reply[r]) \in Nat /\ reply \in [Requests -> Seq(Tokens)]
  BY LenProperties DEF HeldInv, HeldTypes
<1>2. reply' = [reply EXCEPT ![r] = IF u = NoToken THEN reply[r] ELSE Append(reply[r], u)]
  BY DEF TakeToken
<1>3. CASE u = NoToken
  <2>1. reply'[r] = reply[r]
    BY <1>1, <1>2, <1>3
  <2>. QED  BY <1>3, <2>1 DEF Complete
<1>4. CASE u # NoToken
  <2>. DEFINE w == reply[r]  p == Append(w, u)
  <2>1. p # <<>> /\ Last(p) = u /\ Len(p) = Len(w) + 1
    <3>1. u \in Tokens /\ w \in Seq(Tokens)
      BY <1>1, <1>4
    <3>. HIDE DEF w
    <3>. QED  BY <3>1, OneMore
  <2>2. reply'[r] = p
    BY <1>1, <1>2, <1>4
  <2>. HIDE DEF p
  <2>3. u \in Ends \/ Len(p) = ask[r].max
    BY <1>1, <1>4, <2>1 DEF Goes
  <2>. QED  BY <2>1, <2>2, <2>3 DEF Complete
<1>. QED  BY <1>3, <1>4

\* A stream's answer opens when its job begins.
LEMMA BeginAnswer ==
  ASSUME AnswerInv, PlaceInv, HeldInv, NEW r \in Requests, Begin(r)
  PROVE  AnswerInv'
<1>. DEFINE n == Reuse(ask[r].ids, job[r].seq)
            x == [job[r] EXCEPT !.begun = TRUE, !.prompting = TRUE, !.at = n, !.ok = TRUE]
<1>1. /\ sched = "begin" /\ sched' = "begin" /\ r \in NotBegun /\ r \in Range(running)
      /\ Write(r, Opened(r)) /\ job' = [job EXCEPT ![r] = x]
      /\ UNCHANGED <<ask, chunk, sent, done, gone, running, answering, reply>>
  BY DEF Begin, First, NotBegun, list, Opened
<1>2. job[r] \in Jobs /\ JobOK(r) /\ reply[r] \in Seq(Tokens)
  BY <1>1, JobFacts
<1>3. ~job[r].begun /\ ~job[r].ended /\ reply[r] = <<>>
  BY <1>1, <1>2 DEF NotBegun, JobOK
<1>4. x.begun /\ ~x.ended
  BY <1>2, <1>3 DEF Jobs
<1>. HIDE DEF n, x
<1>5. Opened(r) \in Seq(Items)
  BY WordsAreItems DEF Opened
<1>6. SoFar(r)' = SoFar(r)
  BY <1>1, SameAnswers
<1>7. SoFar(r) = Opened(r) /\ <<>> \o Opened(r) = Opened(r)
  <2>1. Text(r) = <<>>
    BY <1>3 DEF Text
  <2>2. SoFar(r) = Opened(r) \o <<>>
    BY <2>1 DEF SoFar
  <2>. QED  BY <1>5, <2>2, Joined
<1>8. (IF job[r].begun THEN SoFar(r) ELSE <<>>) \o Opened(r) = SoFar(r)'
  BY <1>3, <1>6, <1>7
<1>. QED  BY <1>1, <1>4, <1>5, <1>8, JobAnswer

LEMMA PromptedOver ==
  ASSUME NEW j \in Jobs, NEW k \in Nat, NEW t \in Tokens \cup {NoToken}, NEW over \in BOOLEAN
  PROVE  /\ PieceFailed(j, k).ok = FALSE
         /\ PromptTook(j, k, t, over).begun = j.begun /\ PromptTook(j, k, t, over).ended = over
BY DEF Jobs, PieceFailed, PromptTook

\* The last token of a prompt gives the first of the reply.
LEMMA PromptAnswer ==
  ASSUME AnswerInv, PlaceInv, HeldInv, NEW r \in Requests, Prompt(r)
  PROVE  AnswerInv'
<1>. DEFINE j == job[r]  s == j.seq  ids == ask[r].ids  left == Len(ids) - j.at  n == PieceOf(left)
            u(ran) == Gives(held[s] \o SubSeq(ids, j.at + 1, j.at + ran))
            failed(ran) == PieceFailed(j, j.at + ran)
            more(ran) == PieceRan(j, j.at + ran)
            none(ran) == PromptOver(j, j.at + ran)
            token(ran) == PromptTook(j, j.at + ran, u(ran), ~Goes(r, u(ran)))
<1>1. /\ sched = "prompts" /\ sched' \in {"round", "prompts"} /\ r \in Prompting /\ r \in Range(running)
      /\ UNCHANGED <<ask, chunk, sent, done, gone, running, answering>>
  BY DEF Prompt, First, Prompting, list
<1>2. taking = {} /\ NotBegun = {}
  BY <1>1 DEF HeldInv, StagesOK
<1>3. /\ ids \in Seq(Tokens) /\ Len(ids) \in Nat /\ s \in Seqs /\ j \in Jobs /\ ask[r].max \in Nat
      /\ Len(ids) + ask[r].max <= Ctx /\ held[s] = cached[s] /\ JobOK(r)
  BY <1>1, <1>2, JobFacts, LenProperties
<1>4. /\ j.at \in Nat /\ j.at < Len(ids) /\ reply[r] = <<>> /\ j.begun
      /\ ~j.ended /\ cached[s] = SubSeq(ids, 1, j.at)
  BY <1>1, <1>2, <1>3 DEF JobOK, Prompting, NotBegun, Jobs
<1>5. n \in 1 .. left /\ left \in Nat
  BY <1>3, <1>4, SchedulerAssumption, SMTT(20) DEF PieceOf
<1>6. PICK ran \in 0 .. n :
        \/ job' = [job EXCEPT ![r] = failed(ran)] /\ UNCHANGED <<reply, pc, out, outok, sinkFailed>>
        \/ job' = [job EXCEPT ![r] = more(ran)] /\ UNCHANGED <<reply, pc, out, outok, sinkFailed>>
        \/ /\ job' = [job EXCEPT ![r] = none(ran)] /\ UNCHANGED <<reply, pc, out, outok, sinkFailed>>
           /\ ask[r].max = 0 \/ sinkFailed[r]
        \/ /\ ran = left /\ job' = [job EXCEPT ![r] = token(ran)] /\ TakeToken(r, u(ran))
           /\ ask[r].max # 0
  <2>1. \A k \in MayRun(n) : k \in 0 .. n
    BY <1>3, <1>5 DEF MayRun
  <2>. HIDE DEF n
  <2>. QED  BY <2>1 DEF Prompt, n, PieceFailed, PieceRan, PromptOver, PromptTook
<1>. DEFINE k == j.at + ran
<1>7. k \in Nat
  BY <1>4, <1>5
<1>8. Len(reply[r]) = 0
  BY <1>4, EmptySeq
<1>9. CASE job' = [job EXCEPT ![r] = failed(ran)] /\ UNCHANGED <<reply, pc, out, outok, sinkFailed>>
  <2>1. failed(ran).begun /\ ~failed(ran).ok
    <3>1. failed(ran) = PieceFailed(j, k) /\ j \in Jobs /\ k \in Nat /\ j.begun /\ ~j.ended
      BY <1>3, <1>4, <1>7
    <3>. HIDE DEF k, j, failed
    <3>2. PieceFailed(j, k).begun = j.begun /\ PieceFailed(j, k).ok = FALSE
      BY <3>1, PromptedJob, PromptedOver
    <3>. QED  BY <3>1, <3>2
  <2>. HIDE DEF failed
  <2>. QED  BY <1>1, <1>4, <1>9, <2>1, StillAnswer
<1>10. CASE job' = [job EXCEPT ![r] = more(ran)] /\ UNCHANGED <<reply, pc, out, outok, sinkFailed>>
  <2>1. more(ran).begun /\ ~more(ran).ended
    <3>1. more(ran) = PieceRan(j, k) /\ j \in Jobs /\ k \in Nat /\ j.begun /\ ~j.ended
      BY <1>3, <1>4, <1>7
    <3>. HIDE DEF k, j, more
    <3>2. PieceRan(j, k).begun = j.begun /\ PieceRan(j, k).ended = j.ended
      BY <3>1, PromptedJob
    <3>. QED  BY <3>1, <3>2
  <2>. HIDE DEF more
  <2>. QED  BY <1>1, <1>4, <1>10, <2>1, StillAnswer
<1>11. CASE /\ job' = [job EXCEPT ![r] = none(ran)] /\ UNCHANGED <<reply, pc, out, outok, sinkFailed>>
            /\ ask[r].max = 0 \/ sinkFailed[r]
  <2>1. none(ran).begun
    <3>1. none(ran) = PromptOver(j, k) /\ j \in Jobs /\ k \in Nat /\ j.begun /\ ~j.ended
      BY <1>3, <1>4, <1>7
    <3>. HIDE DEF k, j, none
    <3>2. PromptOver(j, k).begun = j.begun
      BY <3>1, PromptedJob
    <3>. QED  BY <3>1, <3>2
  <2>. HIDE DEF none
  <2>2. ~sinkFailed[r] => Complete(r)
    BY <1>8, <1>11 DEF Complete
  <2>. QED  BY <1>1, <1>4, <1>11, <2>1, <2>2, StillAnswer
<1>12. CASE ran = left /\ job' = [job EXCEPT ![r] = token(ran)] /\ TakeToken(r, u(ran)) /\ ask[r].max # 0
  <2>1. SubSeq(ids, 1, j.at) \o SubSeq(ids, j.at + 1, j.at + ran) = ids
    <3>1. j.at + ran = Len(ids) /\ j.at \in 0 .. Len(ids) /\ j.at + ran \in j.at .. Len(ids)
      BY <1>3, <1>4, <1>12
    <3>2. SubSeq(ids, 1, j.at) \o SubSeq(ids, j.at + 1, j.at + ran) = SubSeq(ids, 1, j.at + ran)
      BY <1>3, <3>1, Beginning
    <3>. QED  BY <1>3, <3>1, <3>2, SubSeqFull
  <2>2. ids \o reply[r] = ids /\ u(ran) = Gives(ids \o reply[r])
    BY <1>3, <1>4, <2>1, ConcatEmptySeq
  <2>3. PICK t : t = u(ran)
    OBVIOUS
  <2>. HIDE DEF u
  <2>4. t \in Tokens \cup {NoToken}
    <3>1. Len(ids) <= Ctx
      BY <1>3, SchedulerAssumption
    <3>2. ids \in [1 .. Len(ids) -> Tokens] /\ Len(ids) \in 0 .. Ctx
      BY <1>3, <3>1, LenProperties, SchedulerAssumption
    <3>3. Gives(ids) \in Tokens \cup {NoToken}
      BY <3>2, SchedulerAssumption
    <3>. QED  BY <2>2, <2>3, <3>3
  <2>. DEFINE over == ~Goes(r, t)  x == PromptTook(j, k, t, over)
  <2>5. job' = [job EXCEPT ![r] = x] /\ TakeToken(r, t)
    BY <1>12, <2>3
  <2>6. over \in BOOLEAN
    BY DEF Goes
  <2>7. x.begun /\ (x.ended <=> ~Goes(r, t))
    <3>1. j \in Jobs /\ k \in Nat /\ j.begun /\ over \in BOOLEAN /\ t \in Tokens \cup {NoToken}
      BY <1>3, <1>4, <1>7, <2>4, <2>6
    <3>. HIDE DEF k, j, over
    <3>2. PromptTook(j, k, t, over).begun = j.begun /\ PromptTook(j, k, t, over).ended = over
      BY <3>1, PromptedOver
    <3>. QED  BY <3>1, <3>2 DEF over
  <2>. HIDE DEF x
  <2>8. PICK items \in Seq(Items) : Write(r, items) /\ SoFar(r) \o items = SoFar(r)'
    BY <1>1, <1>4, <2>4, <2>5, TookText
  <2>9. ~Goes(r, t) => Complete(r)'
    <3>1. Len(reply[r]) < ask[r].max
      BY <1>3, <1>8, <1>12
    <3>2. t = Gives(ask[r].ids \o reply[r])
      BY <2>2, <2>3
    <3>. QED  BY <1>1, <1>3, <2>4, <2>5, <3>1, <3>2, TookWhole
  <2>10. \A q \in Requests \ {r} : reply'[q] = reply[q]
    BY <2>5 DEF TakeToken, HeldInv, HeldTypes
  <2>. QED  BY <1>1, <1>4, <2>5, <2>7, <2>8, <2>9, <2>10, JobAnswer
<1>. QED  BY <1>6, <1>9, <1>10, <1>11, <1>12

LEMMA TookOver ==
  ASSUME NEW j \in Jobs, NEW t \in Tokens \cup {NoToken}, NEW over \in BOOLEAN
  PROVE  /\ Over(j, t, over).begun = j.begun /\ Over(j, t, over).ended = over /\ Over(j, t, over).ok = j.ok
BY DEF Jobs, Over

TakeFailed(j) == [Over(j, j.t, TRUE) EXCEPT !.ok = FALSE]

LEMMA FailedOver ==
  ASSUME NEW j \in Jobs
  PROVE  TakeFailed(j).begun = j.begun /\ TakeFailed(j).ok = FALSE
BY DEF Jobs, Over, TakeFailed

LEMMA NextRow ==
  ASSUME NEW j \in Jobs, NEW k \in Nat
  PROVE  [j EXCEPT !.row = k].begun = j.begun /\ [j EXCEPT !.row = k].ended = j.ended
BY DEF Jobs

\* A token taken after a pass is sent if it is of the reply, and a job that ends
\* with its steps done has a whole reply.
LEMMA TakeAnswer ==
  ASSUME AnswerInv, PlaceInv, HeldInv, NEW r \in Requests, Take(r)
  PROVE  AnswerInv'
<1>. DEFINE j == job[r]  p == j.pass  h == held[j.seq]
            u == Gives(SubSeq(h, 1, Len(h) - Len(p) + j.row + 1))
<1>1. /\ sched = "take" /\ r \in taking /\ UNCHANGED <<ask, chunk, sent, done, gone, running, answering>>
      /\ TakeFails(r) \/ TakeStops(r) \/ TakeRow(r)
  BY DEF Take
<1>2. r \in Range(running) /\ r \in LiveSet /\ r \notin NotBegun
  BY <1>1, TakeFacts
<1>3. /\ j \in Jobs /\ j.begun /\ ~j.ended /\ JobOK(r) /\ j.row + 1 \in Nat /\ ask[r].max \in Nat
      /\ j.t \in Tokens \cup {NoToken} /\ reply[r] \in Seq(Tokens)
  BY <1>2, JobFacts DEF LiveSet, NotBegun, Jobs
<1>4. GoesOn(r)
  BY <1>1, <1>3 DEF JobOK
<1>5. sched' \notin {"hand back", "refused"}
  BY <1>1 DEF TakeFails, TakeStops, TakeRow, Took, AfterRound
<1>6. CASE TakeFails(r)
  <2>. DEFINE x == TakeFailed(j)
  <2>1. job' = [job EXCEPT ![r] = x] /\ UNCHANGED <<reply, pc, out, outok, sinkFailed>>
    BY <1>6 DEF TakeFails, TakeFailed
  <2>2. x.begun /\ ~x.ok
    <3>. HIDE DEF j
    <3>. QED  BY <1>3, FailedOver
  <2>. HIDE DEF x
  <2>. QED  BY <1>1, <1>2, <1>3, <1>5, <2>1, <2>2, StillAnswer
<1>7. CASE TakeStops(r)
  <2>. DEFINE x == Over(j, j.t, TRUE)
  <2>1. job' = [job EXCEPT ![r] = x] /\ UNCHANGED <<reply, pc, out, outok, sinkFailed>> /\ sinkFailed[r]
    BY <1>7 DEF TakeStops
  <2>2. x.begun
    <3>. HIDE DEF j
    <3>. QED  BY <1>3, TookOver
  <2>. HIDE DEF x
  <2>. QED  BY <1>1, <1>2, <1>3, <1>5, <2>1, <2>2, StillAnswer
<1>8. CASE TakeRow(r)
  <2>1. TakeToken(r, u) /\ j.fed = Len(p)
    BY <1>8 DEF TakeRow
  <2>2. u = Gives(ask[r].ids \o reply[r])
    BY <1>1, <2>1, RowToken
  <2>3. \/ job' = [job EXCEPT ![r] = [j EXCEPT !.row = j.row + 1]]
        \/ job' = [job EXCEPT ![r] = Over(j, u, ~Goes(r, u) \/ (Len(p) > 1 /\ sinkFailed'[r]))]
    <3>1. job \in [Requests -> Jobs]
      BY DEF HeldInv, HeldTypes
    <3>. QED  BY <1>8, <3>1 DEF TakeRow
  <2>4. PICK t : t = u
    OBVIOUS
  <2>. HIDE DEF u
  <2>5. t \in Tokens \cup {NoToken}
    <3>1. Len(ask[r].ids \o reply[r]) <= Ctx
      BY <1>1, TakeFacts
    <3>2. ask[r].ids \o reply[r] \in Seq(Tokens)
      BY <1>2, JobFacts, ConcatProperties
    <3>. DEFINE context == ask[r].ids \o reply[r]
    <3>3. context \in [1 .. Len(context) -> Tokens] /\ Len(context) \in 0 .. Ctx
      <4>1. context \in Seq(Tokens) /\ Len(context) <= Ctx
        BY <3>1, <3>2
      <4>. HIDE DEF context
      <4>. QED  BY <4>1, LenProperties, SchedulerAssumption
    <3>4. Gives(ask[r].ids \o reply[r]) \in Tokens \cup {NoToken}
      BY <3>3, SchedulerAssumption
    <3>. QED  BY <2>2, <2>4, <3>4
  <2>6. PICK x : /\ job' = [job EXCEPT ![r] = x] /\ x.begun
                 /\ x.ended /\ ~sinkFailed'[r] => ~Goes(r, t)
    <3>1. CASE job' = [job EXCEPT ![r] = [j EXCEPT !.row = j.row + 1]]
      <4>. DEFINE x == [j EXCEPT !.row = j.row + 1]
      <4>1. x.begun /\ ~x.ended
        <5>. DEFINE k == j.row + 1
        <5>1. j \in Jobs /\ k \in Nat /\ j.begun /\ ~j.ended
          BY <1>3
        <5>. HIDE DEF j, k
        <5>2. [j EXCEPT !.row = k].begun = j.begun /\ [j EXCEPT !.row = k].ended = j.ended
          BY <5>1, NextRow
        <5>. QED  BY <5>1, <5>2 DEF k
      <4>. HIDE DEF x
      <4>. QED  BY <3>1, <4>1 DEF x
    <3>2. CASE job' = [job EXCEPT ![r] = Over(j, u, ~Goes(r, u) \/ (Len(p) > 1 /\ sinkFailed'[r]))]
      <4>. DEFINE over == ~Goes(r, t) \/ (Len(p) > 1 /\ sinkFailed'[r])  x == Over(j, t, over)
      <4>1. over \in BOOLEAN
        BY DEF Goes
      <4>2. x.begun /\ x.ended = over
        <5>. HIDE DEF j, over
        <5>. QED  BY <1>3, <2>5, <4>1, TookOver
      <4>3. job' = [job EXCEPT ![r] = x]
        BY <2>4, <3>2
      <4>. HIDE DEF x
      <4>. QED  BY <4>2, <4>3
    <3>. QED  BY <2>3, <3>1, <3>2
  <2>7. TakeToken(r, t) /\ t = Gives(ask[r].ids \o reply[r])
    BY <2>1, <2>2, <2>4
  <2>8. PICK items \in Seq(Items) : Write(r, items) /\ SoFar(r) \o items = SoFar(r)'
    BY <1>1, <1>4, <2>5, <2>7, TookText DEF GoesOn
  <2>9. ~Goes(r, t) => Complete(r)'
    BY <1>1, <1>3, <1>4, <2>5, <2>7, TookWhole DEF GoesOn
  <2>10. \A q \in Requests \ {r} : reply'[q] = reply[q]
    BY <2>7 DEF TakeToken, HeldInv, HeldTypes
  <2>. HIDE DEF j
  <2>. QED  BY <1>1, <1>2, <1>3, <1>5, <2>6, <2>8, <2>9, <2>10, JobAnswer DEF j
<1>. QED  BY <1>1, <1>6, <1>7, <1>8

LEMMA InitAnswer == ASSUME Init PROVE AnswerInv
<1>1. /\ pc = [r \in Requests |-> "idle"] /\ sent = [r \in Requests |-> <<>>] /\ chunk = [r \in Requests |-> <<>>]
      /\ out = [r \in Requests |-> <<>>] /\ outok = [r \in Requests |-> TRUE] /\ gone = [r \in Requests |-> FALSE]
      /\ done = [r \in Requests |-> FALSE] /\ sinkFailed = [r \in Requests |-> FALSE]
      /\ running = <<>> /\ sched = "unborn"
  BY DEF Init
<1>2. Range(running) = {} /\ Ended = {}
  BY <1>1, EmptyList DEF Ended
<1>3. WireTypes
  BY <1>1, WordsAreItems DEF WireTypes
<1>4. SinkOK /\ EndedOK
  BY <1>1, <1>2 DEF SinkOK, EndedOK
<1>5. ASSUME NEW r \in Requests PROVE SaidOK(r)
  <2>1. pc[r] = "idle" /\ "idle" \notin Active /\ ~Handed(r) /\ ~done[r] /\ r \notin Range(running) /\ sent[r] = <<>>
    BY <1>1, <1>2 DEF Active, Handed
  <2>. QED  BY <2>1 DEF SaidOK
<1>. QED  BY <1>3, <1>4, <1>5 DEF AnswerInv

LEMMA NextAnswer == ASSUME PlaceInv, PlaceInv', HeldInv, AnswerInv, [Next]_vars PROVE AnswerInv'
<1>1. CASE Top \/ Lent \/ Begun \/ Prompted \/ NoStep \/ Reaped \/ Free \/ Step \/ Terminated \/ UNCHANGED vars
  BY <1>1, QuietAnswer DEF Terminated
<1>2. CASE Lend
  BY <1>2, LendAnswer
<1>3. CASE Lose
  BY <1>3, LoseAnswer
<1>4. ASSUME NEW r \in Requests, JobStep(r) PROVE AnswerInv'
  <2>1. CASE Begin(r)
    BY <2>1, BeginAnswer
  <2>2. CASE Prompt(r)
    BY <2>2, PromptAnswer
  <2>3. CASE Take(r)
    BY <2>3, TakeAnswer
  <2>4. CASE Refuse(r)
    BY <2>4, RefuseAnswer
  <2>5. CASE HasRefused(r) \/ HandBack(r)
    BY <2>5, DoneAnswer
  <2>6. CASE End(r)
    BY <2>6, EndAnswer
  <2>. QED  BY <1>4, <2>1, <2>2, <2>3, <2>4, <2>5, <2>6 DEF JobStep
<1>5. ASSUME NEW r \in Requests, Serve(r) PROVE AnswerInv'
  BY <1>5, ServeAnswer
<1>6. ASSUME NEW r \in Requests, NEW a \in Asks, Ask(r, a) PROVE AnswerInv'
  BY <1>6, AskAnswer
<1>. QED  BY <1>1, <1>2, <1>3, <1>4, <1>5, <1>6 DEF Next, SchedStep

\* What every client that stays has been sent, is being sent and is to be sent,
\* in every reachable state of a scheduler whose lists can grow.
THEOREM AnswerInvariance == "push" \notin Faults => (Spec => []AnswerInv)
<1>1. ASSUME "push" \notin Faults PROVE Spec => []AnswerInv
  <2>1. Init => AnswerInv
    BY InitAnswer
  <2>2. PlaceInv /\ PlaceInv' /\ HeldInv /\ AnswerInv /\ [Next]_vars => AnswerInv'
    BY NextAnswer
  <2>3. Spec => []PlaceInv
    BY Places
  <2>4. Spec => []HeldInv
    BY <1>1, HeldInvariance
  <2>. QED  BY <2>1, <2>2, <2>3, <2>4, PTL DEF Spec
<1>. QED  BY <1>1

\* A client that stays gets one whole answer and nothing after it, whichever
\* step failed, whoever else was served, and however its thread and the
\* scheduler took turns: for every number of requests and every model.
THEOREM AnswersCorrect == "push" \notin Faults => (Spec => []AnswersAreWhole)
<1>1. ASSUME AnswerInv, PlaceInv PROVE AnswersAreWhole
  <2>1. ASSUME NEW r \in Requests, pc[r] = "returned", ~gone[r] PROVE sent[r] \in Answers(r)
    <3>1. "returned" \notin Active
      BY DEF Active
    <3>2. outok[r] /\ ~sinkFailed[r] /\ chunk[r] = <<>> /\ out[r] = <<>>
      BY <1>1, <2>1, <3>1 DEF AnswerInv, SinkOK
    <3>3. SaidOK(r)
      BY <1>1, <2>1, <3>2 DEF AnswerInv
    <3>4. Said(r) = sent[r]
      <4>1. sent[r] \in Seq(Items)
        BY <1>1, <2>1 DEF AnswerInv, WireTypes
      <4>. QED  BY <3>2, <4>1, Joined DEF Said
    <3>5. CASE done[r]
      BY <3>3, <3>4, <3>5 DEF SaidOK
    <3>6. CASE ~done[r]
      BY <2>1, <3>3, <3>6 DEF SaidOK, Answers
    <3>. QED  BY <3>5, <3>6
  <2>. QED  BY <2>1 DEF AnswersAreWhole
<1>2. ASSUME "push" \notin Faults PROVE Spec => []AnswersAreWhole
  <2>1. AnswerInv /\ PlaceInv => AnswersAreWhole
    BY <1>1
  <2>2. Spec => []AnswerInv
    BY <1>2, AnswerInvariance
  <2>3. Spec => []PlaceInv
    BY Places
  <2>. QED  BY <2>1, <2>2, <2>3, PTL
<1>. QED  BY <1>2

-----------------------------------------------------------------------------
(* The types of the rest of the state, which no other invariant speaks of.   *)

RestTypes ==
  /\ stopping \in BOOLEAN /\ lost \in BOOLEAN /\ decoding \in BOOLEAN /\ device_lost \in BOOLEAN
  /\ sched \in {"unborn", "top", "asleep", "lending", "begin", "prompts", "round", "take",
                "lose", "refuse", "refused", "reap", "hand back", "exited"}
  /\ taking \in SUBSET Requests
  /\ used \in [Seqs -> Nat] /\ clock \in Nat

LEMMA NextTypes == ASSUME PlaceInv, RestTypes, [Next]_vars PROVE RestTypes'
<1>1. CASE Top \/ Lent \/ Prompted \/ NoStep \/ Reaped \/ Free \/ Terminated \/ UNCHANGED vars
  BY <1>1 DEF RestTypes, Top, Lent, Prompted, NoStep, AfterRound, Reaped, Free, SchedWoken, Terminated,
              vars, conn, shared, list, jobs, lists, model
<1>2. CASE Begun
  BY <1>2 DEF RestTypes, Begun, conn, shared, jobs, lists, model
<1>3. CASE Lend
  BY <1>3 DEF RestTypes, Lend, conn, model
<1>4. CASE Step
  <2>1. LiveSet \subseteq Requests
    BY ListedRequests DEF PlaceInv, LiveSet
  <2>2. device_lost' \in BOOLEAN
    BY <1>4 DEF Step, DeviceAfter, RestTypes
  <2>. QED  BY <1>4, <2>1, <2>2 DEF RestTypes, Step, shared, lists
<1>5. CASE Lose
  BY <1>5 DEF RestTypes, Lose, lists, model
<1>6. ASSUME NEW r \in Requests, JobStep(r) PROVE RestTypes'
  <2>1. CASE Prompt(r)
    <3>1. device_lost' \in BOOLEAN
      BY <2>1 DEF Prompt, DeviceAfter, RestTypes
    <3>. QED  BY <2>1, <3>1 DEF RestTypes, Prompt, list
  <2>2. CASE Take(r)
    <3>1. \/ taking' = taking \ {r} /\ sched' \in {"lose", "reap", "take"}
          \/ UNCHANGED <<taking, sched>>
      BY <2>2 DEF Take, TakeFails, TakeStops, TakeRow, Took, AfterRound
    <3>. QED  BY <2>2, <3>1 DEF RestTypes, Take
  <2>3. CASE Begin(r)
    BY <2>3 DEF RestTypes, Begin, list
  <2>4. CASE Refuse(r) \/ HasRefused(r) \/ End(r) \/ HandBack(r)
    BY <2>4 DEF RestTypes, Refuse, HasRefused, End, HandBack, list, lists, model
  <2>. QED  BY <1>6, <2>1, <2>2, <2>3, <2>4 DEF JobStep
<1>7. ASSUME NEW r \in Requests, Serve(r) PROVE RestTypes'
  BY <1>7 DEF RestTypes, Serve, Look, Send, list, lists, model
<1>8. ASSUME NEW r \in Requests, NEW a \in Asks, Ask(r, a) PROVE RestTypes'
  BY <1>8 DEF RestTypes, Ask, Refused, Queued, SchedWoken, shared, list, lists, model
<1>. QED  BY <1>1, <1>2, <1>3, <1>4, <1>5, <1>6, <1>7, <1>8 DEF Next, SchedStep

\* The types the state keeps, no sequence of the model's cache ever longer than
\* its context among them.
THEOREM TypeCorrect == "push" \notin Faults => (Spec => []TypeOK)
<1>1. Init => RestTypes
  <2>1. ASSUME Init PROVE RestTypes
    <3>1. /\ stopping = FALSE /\ lost = FALSE /\ decoding = FALSE /\ device_lost = FALSE /\ sched = "unborn"
          /\ taking = {} /\ clock = 0 /\ used = [s \in Seqs |-> 0]
      BY <2>1 DEF Init
    <3>2. used \in [Seqs -> Nat] /\ clock \in Nat
      BY <3>1
    <3>. QED  BY <3>1, <3>2 DEF RestTypes
  <2>. QED  BY <2>1
<1>2. PlaceInv /\ RestTypes /\ [Next]_vars => RestTypes'
  BY NextTypes
<1>3. PlaceInv /\ HeldInv /\ AnswerInv /\ RestTypes => TypeOK
  BY DEF PlaceInv, ListTypes, Active, HeldInv, HeldTypes, AnswerInv, WireTypes, RestTypes, TypeOK
<1>4. ASSUME "push" \notin Faults PROVE Spec => []TypeOK
  <2>1. Spec => []HeldInv
    BY <1>4, HeldInvariance
  <2>2. Spec => []AnswerInv
    BY <1>4, AnswerInvariance
  <2>3. Spec => []PlaceInv
    BY Places
  <2>. QED  BY <1>1, <1>2, <1>3, <2>1, <2>2, <2>3, PTL DEF Spec
<1>. QED  BY <1>4

=============================================================================
