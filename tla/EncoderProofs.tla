--------------------------- MODULE EncoderProofs ----------------------------
(***************************************************************************)
(* Proofs about Encoder, for every number of threads, every set of callers *)
(* and whatever they ask: the stages of a pass run one after another, one  *)
(* pass at a time, and a request is answered with its own texts' vectors.  *)
(***************************************************************************)
EXTENDS Encoder, FiniteSetTheorems, SequenceTheorems, WellFoundedInduction, TLAPS

-----------------------------------------------------------------------------
(* The inductive invariant.  The tasks handed out, 0 .. next - 1, are those   *)
(* that have ended, as many as finished says, and those a thread runs.  So the*)
(* caller that finds all of them finished leaves no thread in its stage, and  *)
(* none that wakes late finds a task to take.                                 *)

\* The caller has the encoder; it has a stage; it shares the stage's tasks.
Has(c) == pc[c] \in {"pass", "stage", "alone", "runs", "waits", "checks", "over"}
AtStage(c) == pc[c] \in {"stage", "alone", "runs", "waits", "checks", "over"}
Shares(c) == pc[c] \in {"runs", "waits", "checks"}

Running(t) == pc[t] = "runs"

\* The tasks handed out that no thread runs, and those of c's stage that have ended.
Finished == {k \in 0 .. next - 1 : \A t \in Threads : Running(t) => doing[t][2] # k}
EndedAt(c) == {k \in Nat : <<stage[c], k>> \in ended[c]}

WorkerStates == {"begun", "woken", "asleep", "runs", "gone"}
CallerStates == {"begin", "locks", "pass", "stage", "alone", "runs", "waits", "checks", "over", "answered"}

Placed(p) ==
  /\ p \in [Threads -> WorkerStates \cup CallerStates]
  /\ \A w \in Workers : p[w] \in WorkerStates
  /\ \A c \in Callers : p[c] \in CallerStates

PcOK == Placed(pc)

TypeOK ==
  /\ workers \in 0 .. NWorkers
  /\ run \in (Callers \X Nat) \cup {<<>>}
  /\ tasks \in Nat /\ next \in Nat /\ finished \in Nat /\ round \in Nat /\ stop \in BOOLEAN
  /\ seen \in [Workers -> Nat]
  /\ PcOK
  /\ doing \in [Threads -> ((Callers \X Nat) \X Nat) \cup {NoTask}]
  /\ body \in Asks
  /\ owner \in SUBSET Callers
  /\ first \in [Callers -> Nat \ {0}]
  /\ plan \in [Callers -> Seq(Nat \ {0})]
  /\ stage \in [Callers -> Nat]
  /\ ended \in [Callers -> SUBSET (Nat \X Nat)]
  /\ out \in [Callers -> Seq(Callers \X Nat)]
  /\ reply \in [Callers -> {0, 200, 400, 404, 500}]

OwnOK == \A c \in Callers : Has(c) => owner = {c}

DoingOK ==
  /\ \A t \in Threads : pc[t] \notin {"runs", "alone"} => doing[t] = NoTask
  /\ \A t \in Threads : Running(t) => doing[t] = <<run, doing[t][2]>> /\ doing[t][2] \in 0 .. next - 1
  /\ \A t, u \in Threads : Running(t) /\ Running(u) /\ doing[t][2] = doing[u][2] => t = u
  /\ \A c \in Callers : pc[c] = "alone" =>
       /\ doing[c] = <<<<c, stage[c]>>, doing[c][2]>>
       /\ doing[c][2] \in 0 .. plan[c][stage[c]] - 1
       /\ EndedAt(c) = 0 .. doing[c][2] - 1

RunOK ==
  /\ next <= tasks
  /\ finished = Cardinality(Finished)
  /\ \A c \in Callers : Shares(c) =>
       run = <<c, stage[c]>> /\ tasks = plan[c][stage[c]] /\ EndedAt(c) = Finished
  /\ (\A c \in Callers : ~Shares(c)) => next = tasks /\ \A t \in Threads : ~Running(t)

PassOf(c) ==
  /\ AtStage(c) =>
       /\ stage[c] \in 1 .. Len(plan[c])
       /\ AllEnded(c, stage[c] - 1)
       /\ \A x \in ended[c] : x[1] <= stage[c]
       /\ first[c] <= Len(body[c].lens)
  /\ pc[c] = "stage" => EndedAt(c) = {}
  /\ pc[c] = "over" => AllEnded(c, stage[c])
  /\ pc[c] = "pass" => AllEnded(c, Len(plan[c]))
  /\ pc[c] \in {"begin", "locks"} => plan[c] = <<>>

PassOK == \A c \in Callers : PassOf(c)

OutOf(c) ==
  /\ first[c] <= Len(body[c].lens) + 1
  /\ out[c] = [i \in 1 .. first[c] - 1 |-> <<c, i>>]
  /\ pc[c] # "answered" => reply[c] = 0
  /\ reply[c] = 200 => first[c] = Len(body[c].lens) + 1

OutOK == \A c \in Callers : OutOf(c)

IInv == TypeOK /\ OwnOK /\ DoingOK /\ RunOK /\ PassOK /\ OutOK

-----------------------------------------------------------------------------
(* The operators the model is built from. *)

LEMMA ThreadFacts ==
  ASSUME EncoderAssumption
  PROVE  /\ Callers \subseteq Threads /\ Workers \subseteq Threads /\ Callers \cap Workers = {}
         /\ Threads = Workers \cup Callers
BY DEF EncoderAssumption, Threads

\* As many as there are have been counted, so it is all of them.
LEMMA FullCount ==
  ASSUME NEW m \in Nat, NEW n \in Nat, NEW D \in SUBSET (0 .. m - 1), m <= n, Cardinality(D) >= n
  PROVE  m = n /\ D = 0 .. n - 1
<1>1. IsFiniteSet(0 .. m - 1) /\ Cardinality(0 .. m - 1) = m
  <2>1. 0 \in Int /\ m - 1 \in Int
    OBVIOUS
  <2>2. Cardinality(0 .. m - 1) = IF 0 > m - 1 THEN 0 ELSE (m - 1) - 0 + 1
    BY <2>1, FS_Interval
  <2>. QED  BY <2>1, <2>2, FS_Interval
<1>. DEFINE I == 0 .. m - 1
<1>. HIDE DEF I
<1>2. IsFiniteSet(I) /\ Cardinality(I) = m /\ D \in SUBSET I
  BY <1>1 DEF I
<1>3. IsFiniteSet(D) /\ Cardinality(D) <= Cardinality(I) /\ (Cardinality(I) = Cardinality(D) => I = D)
  BY <1>2, FS_Subset
<1>4. Cardinality(D) \in Nat
  BY <1>3, FS_CardinalityType
<1>. QED  BY <1>2, <1>3, <1>4 DEF I

\* Of some numbers up to a bound one is the greatest: from the greatest on there
\* are the fewest.
LEMMA Greatest ==
  ASSUME NEW N \in Nat, NEW S \in SUBSET (1 .. N), S # {}
  PROVE  \E x \in S : \A y \in S : y <= x
<1>. DEFINE U == 1 .. N
            R == StrictSubsetOrdering(U)
            T == {x .. N : x \in S}
<1>1. IsFiniteSet(U) /\ \A x \in S : (x .. N) \in SUBSET U
  <2>1. 1 \in Int /\ N \in Int
    OBVIOUS
  <2>. QED  BY <2>1, FS_Interval
<1>2. T \subseteq FiniteSubsetsOf(U) /\ T # {}
  <2>1. T \subseteq SUBSET U /\ T # {}
    BY <1>1
  <2>. QED  BY <1>1, <2>1, FS_FiniteSubsetsOfFinite
<1>3. \E z \in T : \A y \in T : ~(<<y, z>> \in R)
  <2>. HIDE DEF T, R, U
  <2>1. IsWellFoundedOn(R, FiniteSubsetsOf(U))
    BY FS_StrictSubsetOrderingWellFounded DEF R
  <2>. QED  BY <1>2, <2>1, WFMin
<1>4. PICK x \in S : \A y \in S : ~(<<y .. N, x .. N>> \in R)
  BY <1>3
<1>5. ASSUME NEW y \in S, ~(y <= x)
      PROVE  FALSE
  <2>1. y \in 1 .. N /\ x \in 1 .. N /\ x < y
    BY <1>5
  <2>2. y .. N \subseteq x .. N /\ x \in x .. N /\ x \notin y .. N
    BY <2>1
  <2>3. <<y .. N, x .. N>> \in R
    BY <1>1, <2>2 DEF StrictSubsetOrdering
  <2>. QED  BY <1>4, <2>3
<1>. QED  BY <1>5

LEMMA PassEndFits ==
  ASSUME NEW lens \in Seq(Nat \ {0}), NEW t0 \in 1 .. Len(lens)
  PROVE  PassEnd(lens, t0) \in t0 + 1 .. Len(lens) + 1
<1>. DEFINE fits == {t \in t0 + 1 .. Len(lens) : Total(SubSeq(lens, t0, t)) <= PassRows}
<1>1. CASE fits = {}
  BY <1>1 DEF PassEnd
<1>2. CASE fits # {}
  <2>1. fits \in SUBSET (1 .. Len(lens)) /\ Len(lens) \in Nat
    OBVIOUS
  <2>2. \E t \in fits : \A u \in fits : u <= t
    BY <1>2, <2>1, Greatest
  <2>3. (CHOOSE t \in fits : \A u \in fits : u <= t) \in fits
    BY <2>2
  <2>4. PassEnd(lens, t0) = (CHOOSE t \in fits : \A u \in fits : u <= t) + 1
    BY <1>2 DEF PassEnd
  <2>5. \A t \in fits : t + 1 \in t0 + 1 .. Len(lens) + 1
    BY <2>1
  <2>. QED  BY <2>3, <2>4, <2>5
<1>. QED  BY <1>1, <1>2

\* A set of naturals that has 0 and every successor has them all: what it lacked
\* would have a least member.
LEMMA NatSet ==
  ASSUME NEW S, 0 \in S, \A n \in Nat : n \in S => n + 1 \in S
  PROVE  \A n \in Nat : n \in S
<1>. DEFINE Out == Nat \ S
            Below == {ss \in Nat \X Nat : ss[1] < ss[2]}
<1>1. SUFFICES ASSUME Out # {} PROVE FALSE
  OBVIOUS
<1>2. IsWellFoundedOn(Below, Nat)
  BY NatLessThanWellFounded DEF OpToRel
<1>3. PICK n \in Out : \A m \in Out : <<m, n>> \notin Below
  <2>. HIDE DEF Below
  <2>. QED  BY <1>1, <1>2, WFMin
<1>4. n - 1 \in Nat /\ n - 1 < n /\ <<n - 1, n>> \in Below
  <2>1. n \in Nat /\ n # 0
    OBVIOUS
  <2>2. n - 1 \in Nat /\ n - 1 < n
    BY <2>1
  <2>. QED  BY <2>1, <2>2
<1>5. n - 1 \in S
  <2>. HIDE DEF Below
  <2>. QED  BY <1>3, <1>4
<1>. QED  BY <1>4, <1>5

\* Texts of a token or more have as many tokens as there are texts, or more.
LEMMA TotalOfTexts ==
  ASSUME NEW s \in Seq(Nat \ {0})
  PROVE  Total(s) \in Nat /\ Total(s) >= Len(s)
<1>. DEFINE n == Len(s)
            Sums(h) == [k \in 0 .. n |-> IF k = 0 THEN 0 ELSE h[k - 1] + s[k]]
            sum == CHOOSE h : h = Sums(h)
            UpTo(m) == {g \in [0 .. m -> Nat] : g[0] = 0 /\ \A k \in 1 .. m : g[k] = g[k - 1] + s[k]}
            Ms == {m \in Nat : m <= n => UpTo(m) # {}}
            Ks == {k \in Nat : k <= n => sum[k] \in Nat /\ sum[k] >= k}
<1>1. n \in Nat /\ \A k \in 1 .. n : s[k] \in Nat /\ s[k] >= 1
  OBVIOUS
<1>2. Total(s) = sum[n]
  BY Zenon DEF Total
<1>. HIDE DEF n
<1>3. 0 \in Ms
  <2>1. [k \in 0 .. 0 |-> 0] \in UpTo(0)
    OBVIOUS
  <2>. QED  BY <2>1
<1>. HIDE DEF UpTo
<1>4. ASSUME NEW m \in Nat, m \in Ms PROVE m + 1 \in Ms
  <2>a. m + 1 \in Nat
    OBVIOUS
  <2>1. SUFFICES ASSUME m + 1 <= n PROVE UpTo(m + 1) # {}
    BY <2>a, Zenon
  <2>0. m <= n
    BY <1>1, <2>1
  <2>2. PICK g \in UpTo(m) : TRUE
    BY <1>4, <2>0
  <2>. USE DEF UpTo
  <2>3. g[m] + s[m + 1] \in Nat
    BY <1>1, <2>1
  <2>. DEFINE h == [k \in 0 .. m + 1 |-> IF k = m + 1 THEN g[m] + s[m + 1] ELSE g[k]]
  <2>4. h \in [0 .. m + 1 -> Nat] /\ h[0] = 0
    BY <2>3
  <2>5. ASSUME NEW k \in 1 .. m + 1 PROVE h[k] = h[k - 1] + s[k]
    <3>1. CASE k = m + 1
      <4>1. h[k] = g[m] + s[m + 1] /\ h[k - 1] = g[m]
        BY <3>1
      <4>. QED  BY <3>1, <4>1
    <3>2. CASE k # m + 1
      <4>1. k \in 1 .. m /\ k - 1 \in 0 .. m /\ k \in 0 .. m + 1 /\ k - 1 \in 0 .. m + 1 /\ k - 1 # m + 1
        BY <3>2
      <4>2. h[k] = g[k] /\ h[k - 1] = g[k - 1] /\ g[k] = g[k - 1] + s[k]
        BY <3>2, <4>1
      <4>. QED  BY <4>2
    <3>. QED  BY <3>1, <3>2
  <2>. HIDE DEF h
  <2>6. h \in UpTo(m + 1)
    BY <2>4, <2>5
  <2>. QED  BY <2>6
<1>5. n \in Ms
  <2>. HIDE DEF Ms
  <2>. QED  BY <1>1, <1>3, <1>4, NatSet
<1>6. \E h : h = Sums(h)
  <2>1. PICK g \in UpTo(n) : TRUE
    <3>1. n <= n
      BY <1>1
    <3>. QED  BY <1>5, <3>1
  <2>2. g \in [0 .. n -> Nat] /\ g[0] = 0 /\ \A k \in 1 .. n : g[k] = g[k - 1] + s[k]
    BY <2>1 DEF UpTo
  <2>3. ASSUME NEW k \in 0 .. n PROVE g[k] = IF k = 0 THEN 0 ELSE g[k - 1] + s[k]
    BY <1>1, <2>2
  <2>4. g = Sums(g)
    BY <2>2, <2>3, Zenon
  <2>. QED  BY <2>4
<1>7. sum = Sums(sum)
  BY <1>6
<1>. HIDE DEF sum
<1>8. 0 \in Ks
  BY <1>1, <1>7
<1>9. ASSUME NEW k \in Nat, k \in Ks PROVE k + 1 \in Ks
  <2>1. SUFFICES ASSUME k + 1 <= n PROVE sum[k + 1] \in Nat /\ sum[k + 1] >= k + 1
    OBVIOUS
  <2>2. sum[k] \in Nat /\ sum[k] >= k
    BY <1>1, <1>9, <2>1
  <2>3. k + 1 \in 0 .. n /\ k + 1 \in 1 .. n /\ k + 1 # 0 /\ (k + 1) - 1 = k
    BY <1>1, <2>1
  <2>4. sum[k + 1] = sum[k] + s[k + 1]
    BY <1>7, <2>3
  <2>. QED  BY <1>1, <2>2, <2>3, <2>4
<1>10. n \in Ks
  <2>. HIDE DEF Ks
  <2>. QED  BY <1>1, <1>8, <1>9, NatSet
<1>. QED  BY <1>1, <1>2, <1>10 DEF n

LEMMA OneAtLeast ==
  ASSUME NEW n \in Nat \ {0}, NEW m \in Nat \ {0}
  PROVE  n * m \in Nat \ {0}
OBVIOUS

LEMMA Chunks ==
  ASSUME NEW n \in Nat \ {0}, NEW m \in Nat \ {0}
  PROVE  (n + m - 1) \div m \in Nat \ {0}
<1>. DEFINE q == (n + m - 1) \div m
            r == (n + m - 1) % m
<1>1. q \in Int /\ q >= 0 /\ r \in 0 .. m - 1 /\ n + m - 1 = m * q + r
  OBVIOUS
<1>. HIDE DEF q, r
<1>2. ASSUME q = 0 PROVE FALSE
  <2>1. m * q = 0
    BY <1>2
  <2>. QED  BY <1>1, <2>1
<1>3. q \in Nat \ {0}
  BY <1>1, <1>2
<1>. QED  BY <1>3 DEF q

LEMMA TasksOfStage ==
  ASSUME EncoderAssumption, NEW lens \in Seq(Nat \ {0}), NEW t0 \in 1 .. Len(lens), NEW s \in DOMAIN Stages(lens, t0)
  PROVE  Stages(lens, t0)[s] \in Nat \ {0}
<1>. DEFINE texts == SubSeq(lens, t0, PassEnd(lens, t0) - 1)
            n == Len(texts)
            rows == Total(texts)
            layer == Layer(n, rows)
<1>1. texts \in Seq(Nat \ {0}) /\ n \in Nat \ {0}
  <2>1. PassEnd(lens, t0) \in t0 + 1 .. Len(lens) + 1
    BY PassEndFits
  <2>2. \A e \in t0 .. Len(lens) : SubSeq(lens, t0, e) \in Seq(Nat \ {0}) /\ Len(SubSeq(lens, t0, e)) = e + 1 - t0
    BY SubSeqProperties
  <2>3. PassEnd(lens, t0) - 1 \in t0 .. Len(lens)
    BY <2>1
  <2>. QED  BY <2>2, <2>3
<1>2. rows \in Nat \ {0}
  <2>1. rows \in Nat /\ rows >= n
    BY <1>1, TotalOfTexts
  <2>. HIDE DEF n, rows
  <2>. QED  BY <1>1, <2>1
<1>. HIDE DEF texts, n, rows
<1>3. /\ HiddenTasks \in Nat \ {0} /\ MlpTasks \in Nat \ {0} /\ Heads \in Nat \ {0} /\ RowChunk \in Nat \ {0}
      /\ Layers \in Nat \ {0}
  BY DEF EncoderAssumption
<1>4. n * Heads \in Nat \ {0} /\ (rows + RowChunk - 1) \div RowChunk \in Nat \ {0}
  BY <1>1, <1>2, <1>3, OneAtLeast, Chunks
<1>5. Len(layer) = 10 /\ \A k \in 1 .. 10 : layer[k] \in Nat \ {0}
  <2>. DEFINE heads == n * Heads
              chunks == (rows + RowChunk - 1) \div RowChunk
  <2>1. layer = <<HiddenTasks, HiddenTasks, HiddenTasks, heads, HiddenTasks, chunks, MlpTasks, chunks, HiddenTasks, chunks>>
    BY DEF Layer
  <2>2. heads \in Nat \ {0} /\ chunks \in Nat \ {0}
    BY <1>4
  <2>. HIDE DEF heads, chunks, layer
  <2>. QED  BY <1>3, <2>1, <2>2
<1>6. s \in 1 .. 1 + Layers * Len(layer) /\ Stages(lens, t0)[s] = IF s = 1 THEN n ELSE layer[1 + ((s - 2) % Len(layer))]
  BY DEF Stages, texts, n, rows
<1>. HIDE DEF layer
<1>7. s = 1 \/ 1 + ((s - 2) % 10) \in 1 .. 10
  <2>1. Layers * 10 \in Nat
    BY <1>3
  <2>2. s \in Nat /\ s >= 1
    <3>1. \A x \in Nat : s \in 1 .. 1 + x => s \in Nat /\ s >= 1
      OBVIOUS
    <3>. QED  BY <1>5, <1>6, <2>1, <3>1
  <2>. QED  BY <2>2
<1>. QED  BY <1>1, <1>5, <1>6, <1>7

\* Each stage of a pass has a task.
LEMMA StagesShape ==
  ASSUME EncoderAssumption, PassAssumption, NEW asked \in Asks, NEW c \in Callers,
         NEW t0 \in 1 .. Len(asked[c].lens)
  PROVE  /\ asked[c].lens \in Seq(Nat \ {0})
         /\ Stages(asked[c].lens, t0) \in Seq(Nat \ {0})
         /\ Len(Stages(asked[c].lens, t0)) >= 1
<1>. DEFINE lens == asked[c].lens
            layer == Layer(Len(SubSeq(lens, t0, PassEnd(lens, t0) - 1)), Total(SubSeq(lens, t0, PassEnd(lens, t0) - 1)))
<1>1. lens \in Seq(Nat \ {0})
  BY DEF PassAssumption
<1>2. t0 \in DOMAIN lens
  BY <1>1
<1>3. Len(layer) = 10 /\ Layers \in Nat
  BY DEF Layer, EncoderAssumption
<1>4. DOMAIN Stages(lens, t0) = 1 .. 1 + Layers * Len(layer)
  BY DEF Stages
<1>5. Layers * Len(layer) \in Nat
  BY <1>3
<1>. HIDE DEF lens, layer
<1>6. PICK n \in Nat : DOMAIN Stages(lens, t0) = 1 .. n /\ n >= 1
  BY <1>4, <1>5
<1>7. \A s \in DOMAIN Stages(lens, t0) : Stages(lens, t0)[s] \in Nat \ {0}
  BY <1>1, TasksOfStage DEF lens
<1>8. Stages(lens, t0) = [s \in DOMAIN Stages(lens, t0) |-> Stages(lens, t0)[s]]
  BY DEF Stages
<1>9. Stages(lens, t0) = [s \in 1 .. n |-> Stages(lens, t0)[s]]
  BY <1>6, <1>8
<1>10. Stages(lens, t0) \in [1 .. n -> Nat \ {0}]
  BY <1>6, <1>7, <1>9
<1>11. Stages(lens, t0) \in Seq(Nat \ {0}) /\ Len(Stages(lens, t0)) = n
  BY <1>10
<1>. QED  BY <1>1, <1>6, <1>11 DEF lens

-----------------------------------------------------------------------------
(* What the invariant says of the threads. *)

LEMMA OneOwner ==
  ASSUME IInv, NEW c \in Callers, NEW d \in Callers, Has(c), Has(d)
  PROVE  c = d
BY DEF IInv, OwnOK

LEMMA SharesHas ==
  ASSUME NEW c
  PROVE  Shares(c) => Has(c) /\ AtStage(c)
BY DEF Shares, Has, AtStage

\* Once all the tasks have been counted no thread runs one.
LEMMA AllFinished ==
  ASSUME IInv, finished >= tasks
  PROVE  next = tasks /\ Finished = 0 .. tasks - 1 /\ \A t \in Threads : ~Running(t)
<1>1. /\ next \in Nat /\ tasks \in Nat /\ finished \in Nat /\ next <= tasks
      /\ Finished \in SUBSET (0 .. next - 1) /\ finished = Cardinality(Finished)
  BY DEF IInv, TypeOK, RunOK, Finished
<1>2. next = tasks /\ Finished = 0 .. tasks - 1
  BY <1>1, FullCount
<1>3. ASSUME NEW t \in Threads, Running(t)
      PROVE  FALSE
  <2>1. doing[t][2] \in 0 .. next - 1
    BY <1>3 DEF IInv, DoingOK
  <2>2. doing[t][2] \notin Finished
    BY <1>3 DEF Finished
  <2>. QED  BY <1>2, <2>1, <2>2
<1>. QED  BY <1>2, <1>3

-----------------------------------------------------------------------------
(* Each step keeps the invariant. *)

\* Before the first request and after the last.
AtRest ==
  /\ workers \in 0 .. NWorkers
  /\ run = <<>> /\ tasks = 0 /\ next = 0 /\ finished = 0 /\ round = 0 /\ stop \in BOOLEAN
  /\ seen = [w \in Workers |-> 0]
  /\ pc \in [Threads -> {"begun", "gone", "begin", "answered"}]
  /\ \A t \in Threads : t \in Callers <=> pc[t] \in {"begin", "answered"}
  /\ doing = [t \in Threads |-> NoTask]
  /\ body \in Asks
  /\ owner = {}
  /\ first = [c \in Callers |-> 1] /\ plan = [c \in Callers |-> <<>>] /\ stage = [c \in Callers |-> 0]
  /\ ended = [c \in Callers |-> {}] /\ out = [c \in Callers |-> <<>>]
  /\ reply \in [Callers -> {0, 400, 404, 500}]
  /\ \A c \in Callers : pc[c] = "begin" => reply[c] = 0

LEMMA RestOK ==
  ASSUME EncoderAssumption, PassAssumption, AtRest
  PROVE  IInv
<1>1. \A c \in Callers : body[c].lens \in Seq(Nat \ {0}) /\ Len(body[c].lens) \in Nat
  BY DEF AtRest, PassAssumption
<1>2. /\ \A t \in Threads : pc[t] \in {"begin", "answered", "begun", "gone"}
      /\ \A t \in Threads : t \in Callers <=> pc[t] \in {"begin", "answered"}
  BY DEF AtRest
<1>3. TypeOK
  <2>1. workers \in 0 .. NWorkers /\ pc \in [Threads -> WorkerStates \cup CallerStates]
    BY DEF AtRest, EncoderAssumption, WorkerStates, CallerStates
  <2>2. \A w \in Workers : pc[w] \in WorkerStates
    BY <1>2, ThreadFacts DEF WorkerStates
  <2>3. \A c \in Callers : pc[c] \in CallerStates
    BY <1>2, ThreadFacts DEF CallerStates
  <2>4. /\ run \in (Callers \X Nat) \cup {<<>>}
        /\ tasks \in Nat /\ next \in Nat /\ finished \in Nat /\ round \in Nat /\ stop \in BOOLEAN
        /\ seen \in [Workers -> Nat] /\ body \in Asks /\ owner \in SUBSET Callers
    BY DEF AtRest
  <2>5. doing \in [Threads -> ((Callers \X Nat) \X Nat) \cup {NoTask}]
    BY DEF AtRest
  <2>6. /\ first \in [Callers -> Nat \ {0}] /\ stage \in [Callers -> Nat]
        /\ plan \in [Callers -> Seq(Nat \ {0})] /\ out \in [Callers -> Seq(Callers \X Nat)]
        /\ ended \in [Callers -> SUBSET (Nat \X Nat)] /\ reply \in [Callers -> {0, 200, 400, 404, 500}]
    BY DEF AtRest
  <2>. QED  BY <2>1, <2>2, <2>3, <2>4, <2>5, <2>6 DEF TypeOK, PcOK, Placed
<1>4. OwnOK /\ DoingOK
  BY <1>2, ThreadFacts DEF AtRest, OwnOK, DoingOK, Has, Running
<1>5. RunOK
  <2>1. Finished = {} /\ next = 0 /\ tasks = 0 /\ finished = 0
    BY DEF AtRest, Finished
  <2>2. \A c \in Callers : ~Shares(c)
    BY <1>2, ThreadFacts DEF Shares
  <2>3. \A t \in Threads : ~Running(t)
    BY <1>2 DEF Running
  <2>. QED  BY <2>1, <2>2, <2>3, FS_EmptySet DEF RunOK
<1>6. PassOK
  BY <1>2, ThreadFacts DEF AtRest, PassOK, PassOf, AtStage
<1>7. OutOK
  <2>1. \A c \in Callers : first[c] = 1 /\ out[c] = <<>> /\ reply[c] # 200 /\ (pc[c] # "answered" => reply[c] = 0)
    BY <1>2, ThreadFacts DEF AtRest
  <2>2. \A c : [i \in 1 .. 1 - 1 |-> <<c, i>>] = <<>>
    OBVIOUS
  <2>. QED  BY <1>1, <2>1, <2>2 DEF OutOK, OutOf
<1>. QED  BY <1>3, <1>4, <1>5, <1>6, <1>7 DEF IInv

LEMMA InitKeeps ==
  ASSUME EncoderAssumption, PassAssumption, Init
  PROVE  IInv
<1>1. pc \in [Threads -> {"begun", "gone", "begin", "answered"}] /\ workers \in 0 .. NWorkers
  BY DEF Init, EncoderAssumption
<1>2. \A t \in Threads : (t \in Callers <=> pc[t] \in {"begin", "answered"}) /\ (t \in Callers => reply[t] = 0)
  BY ThreadFacts DEF Init
<1>3. reply \in [Callers -> {0, 400, 404, 500}]
  BY DEF Init
<1>4. /\ run = <<>> /\ tasks = 0 /\ next = 0 /\ finished = 0 /\ round = 0 /\ stop \in BOOLEAN
      /\ seen = [w \in Workers |-> 0] /\ doing = [t \in Threads |-> NoTask] /\ body \in Asks /\ owner = {}
      /\ first = [c \in Callers |-> 1] /\ plan = [c \in Callers |-> <<>>] /\ stage = [c \in Callers |-> 0]
      /\ ended = [c \in Callers |-> {}] /\ out = [c \in Callers |-> <<>>]
  BY DEF Init
<1>5. AtRest
  BY <1>1, <1>2, <1>3, <1>4, ThreadFacts DEF AtRest
<1>. QED  BY <1>5, RestOK

\* The steps of a thread that is at no stage.
LEMMA QuietStep ==
  ASSUME EncoderAssumption, IInv, TypeOK', OwnOK', OutOK',
         UNCHANGED <<run, tasks, next, finished, doing, first, body, plan, stage, ended>>,
         \A t \in Threads : \/ pc'[t] = pc[t]
                            \/ pc[t] \in {"waits", "checks"} /\ pc'[t] \in {"waits", "checks"}
                            \/ /\ pc[t] \notin {"stage", "alone", "runs", "waits", "checks", "over"}
                               /\ pc'[t] \notin {"stage", "alone", "runs", "waits", "checks", "over"},
         \A c \in Callers : /\ pc'[c] = "pass" => pc[c] \in {"pass", "locks"}
                            /\ pc'[c] \in {"begin", "locks"} => pc[c] \in {"begin", "locks"}
  PROVE  IInv'
<1>1. /\ \A t \in Threads : Running(t)' <=> Running(t)
      /\ \A c \in Callers : Shares(c)' <=> Shares(c)
      /\ \A c \in Callers : AtStage(c)' <=> AtStage(c)
  BY ThreadFacts DEF Running, Shares, AtStage
<1>2. Finished' = Finished /\ \A c \in Callers : EndedAt(c)' = EndedAt(c)
  BY <1>1 DEF Finished, EndedAt
<1>3. DoingOK'
  BY <1>1, <1>2, ThreadFacts DEF IInv, DoingOK
<1>4. RunOK'
  BY <1>1, <1>2 DEF IInv, RunOK
<1>5. PassOK'
  <2>1. \A c \in Callers : \A k : AllEnded(c, k)' <=> AllEnded(c, k)
    BY DEF AllEnded
  <2>2. ASSUME NEW c \in Callers, pc'[c] = "pass"
        PROVE  AllEnded(c, Len(plan[c]))
    <3>1. CASE pc[c] = "pass"
      BY <3>1 DEF IInv, PassOK, PassOf
    <3>2. CASE pc[c] = "locks"
      <4>1. plan[c] = <<>>
        BY <3>2 DEF IInv, PassOK, PassOf
      <4>. QED  BY <4>1 DEF AllEnded
    <3>. QED  BY <2>2, <3>1, <3>2
  <2>. QED  BY <1>1, <1>2, <2>1, <2>2, ThreadFacts DEF IInv, PassOK, PassOf
<1>. QED  BY <1>3, <1>4, <1>5 DEF IInv

\* A thread goes on.
LEMMA GoesOn ==
  ASSUME EncoderAssumption, PcOK, NEW t \in Threads, NEW state,
         t \in Workers => state \in WorkerStates, t \in Callers => state \in CallerStates,
         pc' = [pc EXCEPT ![t] = state]
  PROVE  PcOK' /\ pc'[t] = state /\ \A u \in Threads : u # t => pc'[u] = pc[u]
BY ThreadFacts DEF PcOK, Placed

LEMMA AskKeeps ==
  ASSUME EncoderAssumption, IInv, NEW c \in Callers, Ask(c)
  PROVE  IInv'
<1>1. /\ pc[c] = "begin" /\ c \in Threads /\ c \notin Workers /\ UNCHANGED <<pool, doing, body, owner, first, plan, stage, ended, out>>
      /\ TypeOK /\ PcOK /\ reply[c] = 0
  BY ThreadFacts DEF Ask, IInv, TypeOK, OutOK, OutOf
<1>2. CASE pc' = [pc EXCEPT ![c] = "answered"] /\ \E status \in {400, 404, 500} : reply' = [reply EXCEPT ![c] = status]
  <2>1. PICK status \in {400, 404, 500} : reply' = [reply EXCEPT ![c] = status]
    BY <1>2
  <2>2. /\ reply' \in [Callers -> {0, 200, 400, 404, 500}] /\ reply'[c] # 200
        /\ \A e \in Callers : e # c => reply'[e] = reply[e]
    <3>1. reply \in [Callers -> {0, 200, 400, 404, 500}]
      BY <1>1 DEF TypeOK
    <3>. QED  BY <2>1, <3>1
  <2>3. PcOK' /\ pc'[c] = "answered" /\ \A t \in Threads : t # c => pc'[t] = pc[t]
    <3>1. pc' = [pc EXCEPT ![c] = "answered"] /\ PcOK /\ c \in Threads /\ c \notin Workers /\ "answered" \in CallerStates
      BY <1>1, <1>2 DEF CallerStates
    <3>. QED  BY <3>1, ThreadFacts DEF PcOK, Placed
  <2>4. TypeOK'
    BY <1>1, <2>2, <2>3 DEF TypeOK, pool
  <2>5. OwnOK'
    BY <1>1, <2>3, ThreadFacts DEF IInv, OwnOK, Has
  <2>6. OutOK'
    BY <1>1, <2>2, <2>3, ThreadFacts DEF IInv, OutOK, OutOf
  <2>7. /\ \A t \in Threads : \/ pc'[t] = pc[t]
                              \/ /\ pc[t] \notin {"stage", "alone", "runs", "waits", "checks", "over"}
                                 /\ pc'[t] \notin {"stage", "alone", "runs", "waits", "checks", "over"}
        /\ \A e \in Callers : /\ pc'[e] = "pass" => pc[e] \in {"pass", "locks"}
                              /\ pc'[e] \in {"begin", "locks"} => pc[e] \in {"begin", "locks"}
    BY <1>1, <2>3, ThreadFacts
  <2>8. UNCHANGED <<run, tasks, next, finished, doing, first, body, plan, stage, ended>>
    BY <1>1 DEF pool
  <2>. QED  BY <2>4, <2>5, <2>6, <2>7, <2>8, QuietStep
<1>3. CASE pc' = [pc EXCEPT ![c] = "locks"] /\ UNCHANGED reply
  <2>1. PcOK' /\ pc'[c] = "locks" /\ \A t \in Threads : t # c => pc'[t] = pc[t]
    BY <1>1, <1>3, GoesOn DEF CallerStates
  <2>2. TypeOK'
    BY <1>1, <1>3, <2>1 DEF TypeOK, pool
  <2>3. OwnOK'
    BY <1>1, <2>1, ThreadFacts DEF IInv, OwnOK, Has
  <2>4. OutOK'
    BY <1>1, <1>3, <2>1, ThreadFacts DEF IInv, OutOK, OutOf
  <2>5. /\ \A t \in Threads : \/ pc'[t] = pc[t]
                              \/ /\ pc[t] \notin {"stage", "alone", "runs", "waits", "checks", "over"}
                                 /\ pc'[t] \notin {"stage", "alone", "runs", "waits", "checks", "over"}
        /\ \A e \in Callers : /\ pc'[e] = "pass" => pc[e] \in {"pass", "locks"}
                              /\ pc'[e] \in {"begin", "locks"} => pc[e] \in {"begin", "locks"}
    BY <1>1, <2>1, ThreadFacts
  <2>6. UNCHANGED <<run, tasks, next, finished, doing, first, body, plan, stage, ended>>
    BY <1>1 DEF pool
  <2>. QED  BY <2>2, <2>3, <2>4, <2>5, <2>6, QuietStep
<1>4. Refusal(body[c]) # 0 => Refusal(body[c]) \in {400, 404, 500}
  BY DEF Refusal
<1>5. \/ Refusal(body[c]) # 0 /\ reply' = [reply EXCEPT ![c] = Refusal(body[c])] /\ pc' = [pc EXCEPT ![c] = "answered"]
      \/ reply' = [reply EXCEPT ![c] = 500] /\ pc' = [pc EXCEPT ![c] = "answered"]
      \/ pc' = [pc EXCEPT ![c] = "locks"] /\ UNCHANGED reply
  BY DEF Ask, Answer
<1>. QED  BY <1>2, <1>3, <1>4, <1>5

LEMMA LockKeeps ==
  ASSUME EncoderAssumption, IInv, NEW c \in Callers, Lock(c)
  PROVE  IInv'
<1>1. /\ pc[c] = "locks" /\ pc' = [pc EXCEPT ![c] = "pass"] /\ owner = {} /\ owner' = {c}
      /\ c \in Threads /\ c \notin Workers /\ TypeOK /\ PcOK
      /\ UNCHANGED <<pool, doing, body, first, plan, stage, ended, out, reply>>
  BY ThreadFacts DEF Lock, IInv, TypeOK
<1>2. PcOK' /\ pc'[c] = "pass" /\ \A t \in Threads : t # c => pc'[t] = pc[t]
  BY <1>1, GoesOn DEF CallerStates
<1>3. TypeOK'
  BY <1>1, <1>2 DEF TypeOK, pool
<1>4. OwnOK'
  <2>1. \A e \in Callers : ~Has(e)
    BY <1>1 DEF IInv, OwnOK
  <2>. QED  BY <1>1, <1>2, <2>1, ThreadFacts DEF OwnOK, Has
<1>5. OutOK'
  BY <1>1, <1>2, ThreadFacts DEF IInv, OutOK, OutOf
<1>. QED  BY <1>1, <1>2, <1>3, <1>4, <1>5, QuietStep DEF pool

\* Those that sleep are woken.
LEMMA WakeShape ==
  ASSUME EncoderAssumption, PcOK
  PROVE  LET p == Wake(pc, "asleep", "woken")
         IN  /\ p \in [Threads -> WorkerStates \cup CallerStates]
             /\ \A w \in Workers : p[w] \in WorkerStates
             /\ \A t \in Threads : p[t] = pc[t] \/ (pc[t] = "asleep" /\ p[t] = "woken" /\ t \notin Callers)
<1>1. \A t \in Threads : pc[t] = "asleep" => t \notin Callers
  BY DEF PcOK, Placed, CallerStates
<1>2. Wake(pc, "asleep", "woken") \in [Threads -> WorkerStates \cup CallerStates]
  BY DEF Wake, PcOK, Placed, WorkerStates
<1>3. \A t \in Threads : Wake(pc, "asleep", "woken")[t] = IF pc[t] = "asleep" THEN "woken" ELSE pc[t]
  BY DEF Wake
<1>. QED  BY <1>1, <1>2, <1>3, ThreadFacts DEF PcOK, Placed, WorkerStates

LEMMA FreeKeeps ==
  ASSUME EncoderAssumption, IInv, Free
  PROVE  IInv'
<1>1. /\ pc' = Wake(pc, "asleep", "woken") /\ TypeOK /\ PcOK /\ stop' = TRUE
      /\ UNCHANGED <<workers, run, tasks, next, finished, round, seen, doing, requests>>
  BY DEF Free, IInv, TypeOK
<1>2. /\ pc' \in [Threads -> WorkerStates \cup CallerStates] /\ \A w \in Workers : pc'[w] \in WorkerStates
      /\ \A t \in Threads : pc'[t] = pc[t] \/ (pc[t] = "asleep" /\ pc'[t] = "woken" /\ t \notin Callers)
  BY <1>1, WakeShape
<1>3. PcOK' /\ \A c \in Callers : pc'[c] = pc[c]
  BY <1>1, <1>2, ThreadFacts DEF PcOK, Placed
<1>4. TypeOK'
  BY <1>1, <1>3 DEF TypeOK, requests
<1>5. OwnOK' /\ OutOK'
  BY <1>1, <1>3 DEF IInv, OwnOK, OutOK, OutOf, requests, Has
<1>. QED  BY <1>1, <1>2, <1>3, <1>4, <1>5, QuietStep DEF requests

\* The next pass is planned.
LEMMA PlanKeeps ==
  ASSUME EncoderAssumption, PassAssumption, IInv, NEW c \in Callers, Pass(c), first[c] <= Len(body[c].lens),
         pc' = [pc EXCEPT ![c] = "stage"], plan' = [plan EXCEPT ![c] = Stages(body[c].lens, first[c])],
         stage' = [stage EXCEPT ![c] = 1], ended' = [ended EXCEPT ![c] = {}], UNCHANGED <<owner, reply>>
  PROVE  IInv'
<1>. TypeOK /\ PcOK /\ c \in Threads /\ c \notin Workers
  BY ThreadFacts DEF IInv, TypeOK
<1>1. /\ pc[c] = "pass" /\ Has(c) /\ UNCHANGED <<pool, doing, body, first, out>>
      /\ PcOK' /\ pc'[c] = "stage" /\ \A t \in Threads : t # c => pc'[t] = pc[t]
  BY GoesOn DEF Pass, Has, CallerStates
<1>2. Stages(body[c].lens, first[c]) \in Seq(Nat \ {0}) /\ Len(Stages(body[c].lens, first[c])) >= 1
  <2>1. body \in Asks /\ first[c] \in Nat \ {0} /\ body[c].lens \in Seq(Nat \ {0})
    BY DEF IInv, TypeOK, PassAssumption
  <2>2. first[c] \in 1 .. Len(body[c].lens)
    BY <2>1
  <2>. QED  BY <2>1, <2>2, StagesShape
<1>3. TypeOK'
  BY <1>1, <1>2 DEF TypeOK, pool
<1>4. /\ plan'[c] = Stages(body[c].lens, first[c]) /\ stage'[c] = 1 /\ ended'[c] = {}
      /\ \A e \in Callers : e # c => plan'[e] = plan[e] /\ stage'[e] = stage[e] /\ ended'[e] = ended[e]
  BY DEF IInv, TypeOK
<1>5. /\ \A t \in Threads : Running(t)' <=> Running(t)
      /\ \A e \in Callers : (Shares(e)' <=> Shares(e)) /\ (Shares(e) => e # c)
      /\ Finished' = Finished /\ \A e \in Callers : e # c => EndedAt(e)' = EndedAt(e)
  <2>1. /\ \A t \in Threads : Running(t)' <=> Running(t)
        /\ \A e \in Callers : (Shares(e)' <=> Shares(e)) /\ (Shares(e) => e # c)
    BY <1>1, ThreadFacts DEF Running, Shares
  <2>. QED  BY <1>1, <1>4, <2>1 DEF Finished, EndedAt, pool
<1>6. OwnOK' /\ OutOK'
  BY <1>1, ThreadFacts DEF IInv, OwnOK, OutOK, OutOf, Has
<1>7. DoingOK'
  BY <1>1, <1>4, <1>5, ThreadFacts DEF IInv, DoingOK, Running, pool
<1>8. RunOK'
  <2>1. UNCHANGED <<run, tasks, next, finished>>
    BY <1>1 DEF pool
  <2>2. \A e \in Callers : Shares(e)' => run = <<e, stage'[e]>> /\ tasks = plan'[e][stage'[e]] /\ EndedAt(e)' = Finished
    BY <1>4, <1>5 DEF IInv, RunOK
  <2>3. next <= tasks /\ finished = Cardinality(Finished)
    BY DEF IInv, RunOK
  <2>4. ASSUME \A e \in Callers : ~Shares(e)'
        PROVE  next = tasks /\ \A t \in Threads : ~Running(t)'
    <3>1. \A e \in Callers : ~Shares(e)
      BY <1>5, <2>4
    <3>2. next = tasks /\ \A t \in Threads : ~Running(t)
      BY <3>1 DEF IInv, RunOK
    <3>. QED  BY <1>5, <3>2
  <2>. QED  BY <1>5, <2>1, <2>2, <2>3, <2>4 DEF RunOK
<1>9. PassOK'
  <2>1. ASSUME NEW e \in Callers, e # c
        PROVE  /\ pc'[e] = pc[e] /\ (AtStage(e)' <=> AtStage(e)) /\ EndedAt(e)' = EndedAt(e)
               /\ \A k : AllEnded(e, k)' <=> AllEnded(e, k)
    BY <1>1, <1>4, <1>5, <2>1, ThreadFacts DEF AtStage, AllEnded
  <2>2. EndedAt(c)' = {} /\ AllEnded(c, 0)'
    BY <1>4 DEF EndedAt, AllEnded
  <2>3. stage'[c] \in 1 .. Len(plan'[c]) /\ stage'[c] - 1 = 0
    BY <1>2, <1>4
  <2>. QED  BY <1>1, <1>4, <2>1, <2>2, <2>3 DEF IInv, PassOK, PassOf
<1>. QED  BY <1>3, <1>6, <1>7, <1>8, <1>9 DEF IInv

LEMMA PassKeeps ==
  ASSUME EncoderAssumption, PassAssumption, IInv, NEW c \in Callers, Pass(c)
  PROVE  IInv'
<1>1. /\ pc[c] = "pass" /\ c \in Threads /\ c \notin Workers /\ Has(c) /\ UNCHANGED <<pool, doing, body, first, out>>
      /\ body[c].lens \in Seq(Nat \ {0}) /\ first[c] \in Nat \ {0} /\ TypeOK /\ PcOK
  <2>1. TypeOK /\ PcOK /\ body \in Asks /\ first[c] \in Nat \ {0}
    BY DEF IInv, TypeOK
  <2>2. pc[c] = "pass" /\ Has(c) /\ UNCHANGED <<pool, doing, body, first, out>>
    BY DEF Pass, Has
  <2>3. body[c].lens \in Seq(Nat \ {0})
    BY <2>1 DEF PassAssumption
  <2>. QED  BY <2>1, <2>2, <2>3, ThreadFacts
<1>2. CASE /\ ~(first[c] > Len(body[c].lens))
           /\ pc' = [pc EXCEPT ![c] = "stage"] /\ plan' = [plan EXCEPT ![c] = Stages(body[c].lens, first[c])]
           /\ stage' = [stage EXCEPT ![c] = 1] /\ ended' = [ended EXCEPT ![c] = {}] /\ UNCHANGED <<owner, reply>>
  <2>1. first[c] <= Len(body[c].lens)
    BY <1>1, <1>2
  <2>. QED  BY <1>2, <2>1, PlanKeeps
<1>3. ASSUME NEW status \in {200, 500}, status = 200 => first[c] > Len(body[c].lens),
             owner' = {}, pc' = [pc EXCEPT ![c] = "answered"], UNCHANGED <<plan, stage, ended>>,
             reply' = [reply EXCEPT ![c] = status]
      PROVE  IInv'
  <2>1. PcOK' /\ pc'[c] = "answered" /\ \A t \in Threads : t # c => pc'[t] = pc[t]
    <3>1. pc' = [pc EXCEPT ![c] = "answered"] /\ PcOK /\ c \in Threads /\ c \notin Workers /\ "answered" \in CallerStates
      BY <1>1, <1>3 DEF CallerStates
    <3>. QED  BY <3>1, ThreadFacts DEF PcOK, Placed
  <2>2. /\ reply' \in [Callers -> {0, 200, 400, 404, 500}] /\ reply'[c] = status
        /\ \A e \in Callers : e # c => reply'[e] = reply[e]
    <3>1. reply' = [reply EXCEPT ![c] = status] /\ TypeOK /\ status \in {0, 200, 400, 404, 500}
      BY <1>1, <1>3
    <3>2. reply \in [Callers -> {0, 200, 400, 404, 500}]
      BY <3>1 DEF TypeOK
    <3>. QED  BY <3>1, <3>2
  <2>3. TypeOK'
    BY <1>1, <1>3, <2>1, <2>2 DEF TypeOK, pool
  <2>4. OwnOK'
    <3>1. \A e \in Callers : e # c => ~Has(e)
      BY <1>1, OneOwner
    <3>. QED  BY <2>1, <3>1, ThreadFacts DEF OwnOK, Has
  <2>5. OutOK'
    <3>1. first[c] <= Len(body[c].lens) + 1
      BY DEF IInv, OutOK, OutOf
    <3>2. status = 200 => first[c] = Len(body[c].lens) + 1
      BY <1>1, <1>3, <3>1
    <3>. QED  BY <1>1, <2>1, <2>2, <3>2, ThreadFacts DEF IInv, OutOK, OutOf
  <2>. QED  BY <1>1, <1>3, <2>1, <2>3, <2>4, <2>5, QuietStep DEF pool
<1>4. \/ /\ ~(first[c] > Len(body[c].lens))
         /\ pc' = [pc EXCEPT ![c] = "stage"] /\ plan' = [plan EXCEPT ![c] = Stages(body[c].lens, first[c])]
         /\ stage' = [stage EXCEPT ![c] = 1] /\ ended' = [ended EXCEPT ![c] = {}] /\ UNCHANGED <<owner, reply>>
      \/ /\ owner' = {} /\ pc' = [pc EXCEPT ![c] = "answered"] /\ UNCHANGED <<plan, stage, ended>>
         /\ \/ first[c] > Len(body[c].lens) /\ reply' = [reply EXCEPT ![c] = 200]
            \/ reply' = [reply EXCEPT ![c] = 500]
  BY DEF Pass, Answer
<1>. QED  BY <1>2, <1>3, <1>4

\* What a step of another thread leaves of a caller.
LEMMA Elsewhere ==
  ASSUME NEW e, pc'[e] = pc[e], plan'[e] = plan[e], stage'[e] = stage[e], ended'[e] = ended[e],
         first'[e] = first[e], body' = body
  PROVE  /\ PassOf(e)' <=> PassOf(e)
         /\ Shares(e)' <=> Shares(e)
         /\ EndedAt(e)' = EndedAt(e)
<1>1. \A k : AllEnded(e, k)' <=> AllEnded(e, k)
  BY DEF AllEnded
<1>2. EndedAt(e)' = EndedAt(e)
  BY DEF EndedAt
<1>3. (Shares(e)' <=> Shares(e)) /\ (AtStage(e)' <=> AtStage(e))
  BY DEF Shares, AtStage
<1>. QED  BY <1>1, <1>2, <1>3 DEF PassOf

\* While a caller has the encoder and shares no task, none is left.
LEMMA NoneShares ==
  ASSUME IInv, NEW c \in Callers, Has(c), ~Shares(c)
  PROVE  /\ \A e \in Callers : ~Shares(e) /\ (e # c => ~Has(e))
         /\ next = tasks /\ \A t \in Threads : ~Running(t)
<1>1. \A e \in Callers : ~Shares(e) /\ (e # c => ~Has(e))
  BY OneOwner, SharesHas
<1>. QED  BY <1>1 DEF IInv, RunOK

\* The steps that leave the pool as it is when none of its tasks is left.
LEMMA PoolStill ==
  ASSUME IInv, UNCHANGED <<run, tasks, next, finished>>, next = tasks,
         \A e \in Callers : ~Shares(e)', \A t \in Threads : ~Running(t) /\ ~Running(t)'
  PROVE  RunOK'
<1>1. Finished' = Finished
  BY DEF Finished
<1>. QED  BY <1>1 DEF IInv, RunOK

LEMMA Joined ==
  ASSUME NEW c \in Callers, NEW f \in Nat \ {0}, NEW end \in Nat, f <= end,
         NEW p \in Seq(Callers \X Nat), Len(p) = f - 1, \A i \in 1 .. f - 1 : p[i] = <<c, i>>,
         NEW q \in Seq(Callers \X Nat), Len(q) = end - f, \A i \in 1 .. end - f : q[i] = <<c, f + i - 1>>
  PROVE  p \o q = [i \in 1 .. end - 1 |-> <<c, i>>] /\ p \o q \in Seq(Callers \X Nat)
<1>. DEFINE r == [i \in 1 .. end - 1 |-> <<c, i>>]
<1>1. r \in Seq(Callers \X Nat) /\ Len(r) = end - 1 /\ \A i \in 1 .. end - 1 : r[i] = <<c, i>>
  <2>1. end - 1 \in Nat /\ \A i \in 1 .. end - 1 : <<c, i>> \in Callers \X Nat
    OBVIOUS
  <2>2. r \in [1 .. end - 1 -> Callers \X Nat] /\ \A i \in 1 .. end - 1 : r[i] = <<c, i>>
    BY ONLY <2>1
  <2>. QED  BY <2>1, <2>2
<1>. HIDE DEF r
<1>2. /\ p \o q \in Seq(Callers \X Nat) /\ Len(p \o q) = end - 1
      /\ \A i \in 1 .. end - 1 : (p \o q)[i] = IF i <= f - 1 THEN p[i] ELSE q[i - (f - 1)]
  <2>1. /\ p \o q \in Seq(Callers \X Nat) /\ Len(p \o q) = Len(p) + Len(q)
        /\ \A i \in 1 .. Len(p) + Len(q) : (p \o q)[i] = IF i <= Len(p) THEN p[i] ELSE q[i - Len(p)]
    BY ONLY p \in Seq(Callers \X Nat), q \in Seq(Callers \X Nat), ConcatProperties
  <2>2. Len(p) + Len(q) = end - 1
    OBVIOUS
  <2>. QED  BY <2>1, <2>2
<1>3. ASSUME NEW i \in 1 .. end - 1
      PROVE  (p \o q)[i] = r[i]
  <2>. (p \o q)[i] = (IF i <= f - 1 THEN p[i] ELSE q[i - (f - 1)]) /\ r[i] = <<c, i>>
    BY <1>1, <1>2
  <2>1. CASE i <= f - 1
    <3>1. p[i] = <<c, i>>
      BY <2>1
    <3>. QED  BY <2>1, <3>1
  <2>2. CASE i > f - 1
    <3>1. i - (f - 1) \in 1 .. end - f /\ f + (i - (f - 1)) - 1 = i
      BY <2>2
    <3>2. q[i - (f - 1)] = <<c, i>>
      BY <3>1
    <3>. QED  BY <2>2, <3>2
  <2>. QED  BY <2>1, <2>2
<1>4. p \o q = r
  BY <1>1, <1>2, <1>3, SeqEqual
<1>. QED  BY <1>2, <1>4 DEF r

LEMMA OverKeeps ==
  ASSUME EncoderAssumption, PassAssumption, IInv, NEW c \in Callers, Over(c)
  PROVE  IInv'
<1>. DEFINE lens == body[c].lens
            end == PassEnd(lens, first[c])
            last == stage[c] >= Len(plan[c])
            to == IF last THEN "pass" ELSE "stage"
<1>1. /\ TypeOK /\ PcOK /\ c \in Threads /\ c \notin Workers /\ pc[c] = "over"
      /\ Has(c) /\ AtStage(c) /\ ~Shares(c) /\ PassOf(c)
      /\ UNCHANGED <<pool, doing, body, owner, plan, ended, reply>>
  BY ThreadFacts DEF IInv, TypeOK, PassOK, Over, Has, AtStage, Shares
<1>2. /\ stage[c] \in 1 .. Len(plan[c]) /\ plan[c] \in Seq(Nat \ {0}) /\ AllEnded(c, stage[c])
      /\ \A x \in ended[c] : x[1] <= stage[c] /\ x \in Nat \X Nat
      /\ first[c] \in Nat \ {0} /\ first[c] <= Len(lens) /\ out[c] = [i \in 1 .. first[c] - 1 |-> <<c, i>>]
  BY <1>1 DEF PassOf, TypeOK, IInv, OutOK, OutOf
<1>3. lens \in Seq(Nat \ {0}) /\ end \in first[c] + 1 .. Len(lens) + 1
  <2>1. body \in Asks
    BY <1>1 DEF TypeOK
  <2>2. lens \in Seq(Nat \ {0})
    BY <2>1 DEF PassAssumption
  <2>3. first[c] \in 1 .. Len(lens)
    BY <1>2, <2>2
  <2>. QED  BY <2>2, <2>3, PassEndFits
<1>4. pc' = [pc EXCEPT ![c] = to] /\ to \in CallerStates
  BY <1>2 DEF Over, CallerStates
<1>5. PcOK' /\ pc'[c] = to /\ \A t \in Threads : t # c => pc'[t] = pc[t]
  BY <1>1, <1>4, ThreadFacts DEF PcOK, Placed
<1>6. /\ stage'[c] = (IF last THEN stage[c] ELSE stage[c] + 1) /\ stage' \in [Callers -> Nat]
      /\ \A e \in Callers : e # c => stage'[e] = stage[e]
  <2>1. stage \in [Callers -> Nat]
    BY <1>1 DEF TypeOK
  <2>2. IF last THEN stage' = stage ELSE stage' = [stage EXCEPT ![c] = @ + 1]
    BY <1>2 DEF Over
  <2>. QED  BY <2>1, <2>2
<1>7. /\ first'[c] = (IF last THEN end ELSE first[c]) /\ first' \in [Callers -> Nat \ {0}]
      /\ out'[c] = [i \in 1 .. first'[c] - 1 |-> <<c, i>>] /\ out' \in [Callers -> Seq(Callers \X Nat)]
      /\ \A e \in Callers : e # c => first'[e] = first[e] /\ out'[e] = out[e]
  <2>1. first \in [Callers -> Nat \ {0}] /\ out \in [Callers -> Seq(Callers \X Nat)]
    BY <1>1 DEF TypeOK
  <2>2. CASE ~last
    <3>1. UNCHANGED <<first, out>>
      BY <1>2, <2>2 DEF Over
    <3>. QED  BY <1>2, <2>1, <2>2, <3>1
  <2>3. CASE last
    <3>. DEFINE more == [i \in 1 .. end - first[c] |-> <<c, first[c] + i - 1>>]
    <3>1. first' = [first EXCEPT ![c] = end] /\ out' = [out EXCEPT ![c] = out[c] \o more]
      <4>1. ~(stage[c] < Len(plan[c]))
        BY <1>2, <2>3
      <4>. QED  BY <4>1 DEF Over
    <3>2. end \in Nat \ {0} /\ end \in Nat /\ first[c] <= end
      BY <1>2, <1>3
    <3>3. out[c] \o more = [i \in 1 .. end - 1 |-> <<c, i>>] /\ out[c] \o more \in Seq(Callers \X Nat)
      <4>1. more \in Seq(Callers \X Nat) /\ Len(more) = end - first[c] /\ \A i \in 1 .. end - first[c] : more[i] = <<c, first[c] + i - 1>>
        <5>. HIDE DEF end
        <5>1. \A i \in 1 .. end - first[c] : first[c] + i - 1 \in Nat
          BY <1>2, <3>2
        <5>2. end - first[c] \in Nat
          BY <1>2, <3>2
        <5>. QED  BY <5>1, <5>2
      <4>2. /\ out[c] \in Seq(Callers \X Nat) /\ Len(out[c]) = first[c] - 1
            /\ \A i \in 1 .. first[c] - 1 : out[c][i] = <<c, i>>
        <5>1. first[c] - 1 \in Nat /\ \A i \in 1 .. first[c] - 1 : i \in Nat
          BY <1>2
        <5>2. out[c] = [i \in 1 .. first[c] - 1 |-> <<c, i>>]
          BY <1>2
        <5>3. out[c] \in Seq(Callers \X Nat) /\ Len(out[c]) = first[c] - 1
          BY <5>1, <5>2
        <5>. QED  BY <5>2, <5>3
      <4>3. first[c] \in Nat \ {0}
        BY <1>2
      <4>. HIDE DEF more, end
      <4>. QED  BY <3>2, <4>1, <4>2, <4>3, Joined
    <3>. HIDE DEF more
    <3>. HIDE DEF end
    <3>. QED  BY <2>1, <2>3, <3>1, <3>2, <3>3
  <2>. QED  BY <2>2, <2>3
<1>8. /\ \A e \in Callers : ~Shares(e) /\ (e # c => ~Has(e))
      /\ next = tasks /\ \A t \in Threads : ~Running(t)
  BY <1>1, NoneShares
<1>9. TypeOK'
  BY <1>1, <1>5, <1>6, <1>7 DEF TypeOK, pool
<1>10. OwnOK'
  BY <1>1, <1>5, ThreadFacts DEF IInv, OwnOK, Has
<1>11. DoingOK'
  <2>1. \A t \in Threads : (pc'[t] \in {"runs", "alone"} <=> pc[t] \in {"runs", "alone"}) /\ pc'[t] # "runs"
    BY <1>1, <1>5, <1>8 DEF Running
  <2>2. \A e \in Callers : pc'[e] # "alone"
    BY <1>5, <1>8, ThreadFacts DEF Has
  <2>. QED  BY <1>1, <2>1, <2>2 DEF IInv, DoingOK, Running
<1>12. RunOK'
  <2>1. (\A e \in Callers : ~Shares(e)') /\ \A t \in Threads : ~Running(t)'
    BY <1>1, <1>5, <1>8, ThreadFacts DEF Shares, Running
  <2>. QED  BY <1>1, <1>8, <2>1, PoolStill DEF pool
<1>13. PassOK'
  <2>1. ASSUME NEW e \in Callers, e # c
        PROVE  PassOf(e)'
    BY <1>1, <1>5, <1>6, <1>7, <2>1, Elsewhere, ThreadFacts DEF IInv, PassOK
  <2>3. CASE ~last
    <3>1. /\ stage'[c] \in 1 .. Len(plan'[c]) /\ stage'[c] - 1 = stage[c]
          /\ \A x \in ended'[c] : x[1] <= stage'[c] /\ x[1] # stage'[c]
      BY <1>1, <1>2, <1>6, <2>3
    <3>2. EndedAt(c)' = {}
      BY <3>1 DEF EndedAt
    <3>3. pc'[c] = "stage" /\ first'[c] <= Len(body'[c].lens)
      BY <1>1, <1>2, <1>5, <1>7, <2>3
    <3>4. AllEnded(c, stage[c] - 1)'
      BY <1>1, <1>2, <3>1 DEF AllEnded
    <3>. QED  BY <2>1, <3>1, <3>2, <3>3, <3>4 DEF PassOK, PassOf
  <2>4. CASE last
    <3>1. pc'[c] = "pass" /\ stage[c] = Len(plan'[c])
      BY <1>1, <1>2, <1>5, <2>4
    <3>2. AllEnded(c, Len(plan[c]))'
      BY <1>1, <1>2, <3>1 DEF AllEnded
    <3>. QED  BY <2>1, <3>1, <3>2 DEF PassOK, PassOf, AtStage
  <2>. QED  BY <2>3, <2>4
<1>14. OutOK'
  <2>1. reply'[c] = 0 /\ body' = body /\ reply' = reply
    BY <1>1 DEF IInv, OutOK, OutOf
  <2>2. first'[c] <= Len(lens) + 1
    BY <1>2, <1>3, <1>7
  <2>3. out'[c] = [i \in 1 .. first'[c] - 1 |-> <<c, i>>]
    BY <1>7
  <2>4. \A e \in Callers : e # c => pc'[e] = pc[e] /\ first'[e] = first[e] /\ out'[e] = out[e]
    BY <1>5, <1>7, ThreadFacts
  <2>5. \A e \in Callers : e # c => OutOf(e)'
    BY <2>1, <2>4 DEF IInv, OutOK, OutOf
  <2>6. OutOf(c)'
    BY <2>1, <2>2, <2>3 DEF OutOf
  <2>. QED  BY <2>5, <2>6 DEF OutOK
<1>. QED  BY <1>9, <1>10, <1>11, <1>12, <1>13, <1>14 DEF IInv

\* take_tasks, of a run of which k tasks were handed out: the thread has the
\* next, or none is left.
TakeFrom(t, p, r, k, n, f) ==
  /\ Placed(p) /\ k \in Nat /\ n \in Nat /\ f \in Nat /\ k <= n /\ (k < n => r \in Callers \X Nat)
  /\ Taken(Take(t, p, r, k, n, f)) /\ run' = r
  /\ \A u \in Threads \ {t} :
       /\ p[u] \notin {"runs", "alone"} => doing[u] = NoTask
       /\ p[u] = "runs" => doing[u] = <<r, doing[u][2]>> /\ doing[u][2] \in 0 .. k - 1
       /\ \A v \in Threads \ {t} : p[u] = "runs" /\ p[v] = "runs" /\ doing[u][2] = doing[v][2] => u = v

TakeTo(t, p, k, n, f) ==
  /\ PcOK' /\ doing' \in [Threads -> ((Callers \X Nat) \X Nat) \cup {NoTask}] /\ next' \in Nat
  /\ \A u \in Threads \ {t} : pc'[u] = p[u] /\ doing'[u] = doing[u]
  /\ k < n => pc'[t] = "runs"
  /\ k >= n => pc'[t] = IF t \in Workers THEN "asleep" ELSE IF f < n THEN "waits" ELSE "over"
  /\ next' = IF k < n THEN k + 1 ELSE k
  /\ \A u \in Threads : pc'[u] \notin {"runs", "alone"} => doing'[u] = NoTask
  /\ \A u \in Threads : Running(u)' => doing'[u] = <<run', doing'[u][2]>> /\ doing'[u][2] \in 0 .. next' - 1
  /\ \A u, v \in Threads : Running(u)' /\ Running(v)' /\ doing'[u][2] = doing'[v][2] => u = v
  /\ Finished' = {j \in 0 .. k - 1 : \A u \in Threads \ {t} : p[u] = "runs" => doing[u][2] # j}

LEMMA TakeKeeps ==
  ASSUME EncoderAssumption, TypeOK, NEW t \in Threads, NEW p, NEW r, NEW k, NEW n, NEW f, TakeFrom(t, p, r, k, n, f)
  PROVE  TakeTo(t, p, k, n, f)
<1>. USE DEF TakeFrom
<1>. DEFINE D == {j \in 0 .. k - 1 : \A u \in Threads \ {t} : p[u] = "runs" => doing[u][2] # j}
            none == IF t \in Workers THEN "asleep" ELSE IF f < n THEN "waits" ELSE "over"
<1>1. p \in [Threads -> WorkerStates \cup CallerStates] /\ doing \in [Threads -> ((Callers \X Nat) \X Nat) \cup {NoTask}]
  BY DEF Placed, TypeOK
<1>2. /\ "runs" \in WorkerStates /\ "runs" \in CallerStates
      /\ t \in Workers => none \in WorkerStates
      /\ t \in Callers => none \in CallerStates
      /\ none \notin {"runs", "alone"}
  BY ThreadFacts DEF WorkerStates, CallerStates
<1>3. CASE k < n
  <2>1. pc' = [p EXCEPT ![t] = "runs"] /\ doing' = [doing EXCEPT ![t] = <<r, k>>] /\ next' = k + 1
    BY <1>3 DEF Taken, Take
  <2>2. pc'[t] = "runs" /\ doing'[t] = <<r, k>> /\ \A u \in Threads \ {t} : pc'[u] = p[u] /\ doing'[u] = doing[u]
    BY <1>1, <2>1
  <2>3. PcOK' /\ doing' \in [Threads -> ((Callers \X Nat) \X Nat) \cup {NoTask}] /\ next' \in Nat
    <3>1. <<r, k>> \in (Callers \X Nat) \X Nat
      BY <1>3
    <3>. QED  BY <1>1, <1>2, <2>1, <3>1 DEF PcOK, Placed
  <2>4. \A u \in Threads : Running(u)' => doing'[u] = <<run', doing'[u][2]>> /\ doing'[u][2] \in 0 .. next' - 1
    BY <2>1, <2>2 DEF Running
  <2>5. \A u, v \in Threads : Running(u)' /\ Running(v)' /\ doing'[u][2] = doing'[v][2] => u = v
    <3>1. \A u \in Threads \ {t} : p[u] = "runs" => doing[u][2] # k
      OBVIOUS
    <3>2. doing'[t][2] = k
      BY <2>2
    <3>. QED  BY <2>2, <3>1, <3>2 DEF Running
  <2>6. Finished' = D
    <3>1. ASSUME NEW j
          PROVE  j \in Finished' <=> j \in D
      <4>1. j \in Finished' <=> j \in 0 .. k /\ j # k /\ \A u \in Threads \ {t} : p[u] = "runs" => doing[u][2] # j
        BY <2>1, <2>2 DEF Finished, Running
      <4>2. j \in 0 .. k /\ j # k <=> j \in 0 .. k - 1
        OBVIOUS
      <4>. QED  BY <4>1, <4>2
    <3>. QED  BY <3>1
  <2>. QED  BY <1>3, <2>1, <2>2, <2>3, <2>4, <2>5, <2>6 DEF TakeTo
<1>4. CASE k >= n
  <2>1. pc' = [p EXCEPT ![t] = none] /\ doing' = [doing EXCEPT ![t] = NoTask] /\ next' = k
    BY <1>4 DEF Taken, Take
  <2>2. pc'[t] = none /\ doing'[t] = NoTask /\ \A u \in Threads \ {t} : pc'[u] = p[u] /\ doing'[u] = doing[u]
    BY <1>1, <2>1
  <2>3. PcOK' /\ doing' \in [Threads -> ((Callers \X Nat) \X Nat) \cup {NoTask}] /\ next' \in Nat
    <3>. HIDE DEF none
    <3>. QED  BY <1>1, <1>2, <2>1, ThreadFacts DEF PcOK, Placed
  <2>. HIDE DEF none
  <2>4. \A u \in Threads : Running(u)' => doing'[u] = <<run', doing'[u][2]>> /\ doing'[u][2] \in 0 .. next' - 1
    BY <1>2, <2>1, <2>2 DEF Running
  <2>5. \A u, v \in Threads : Running(u)' /\ Running(v)' /\ doing'[u][2] = doing'[v][2] => u = v
    BY <1>2, <2>2 DEF Running
  <2>6. Finished' = D
    BY <1>2, <2>1, <2>2 DEF Finished, Running
  <2>. QED  BY <1>4, <2>1, <2>2, <2>3, <2>4, <2>5, <2>6 DEF none, TakeTo
<1>5. k < n \/ k >= n
  OBVIOUS
<1>. QED  BY <1>3, <1>4, <1>5

LEMMA LookKeeps ==
  ASSUME EncoderAssumption, IInv, NEW w \in Workers, Look(w)
  PROVE  IInv'
<1>1. /\ TypeOK /\ PcOK /\ Placed(pc) /\ w \in Threads /\ w \notin Callers /\ ~Running(w) /\ pc[w] \in {"begun", "woken"}
      /\ UNCHANGED <<workers, run, tasks, finished, round, stop, requests>>
  BY ThreadFacts DEF IInv, TypeOK, PcOK, Look, Running
<1>2. CASE UNCHANGED <<next, seen, doing>> /\ pc' = [pc EXCEPT ![w] = IF stop THEN "gone" ELSE "asleep"]
  <2>1. PcOK' /\ pc'[w] \in {"gone", "asleep"} /\ \A t \in Threads : t # w => pc'[t] = pc[t]
    BY <1>1, <1>2 DEF PcOK, Placed, WorkerStates
  <2>2. TypeOK'
    BY <1>1, <1>2, <2>1 DEF TypeOK, requests
  <2>3. OwnOK' /\ OutOK'
    BY <1>1, <2>1, ThreadFacts DEF IInv, OwnOK, Has, OutOK, OutOf, requests
  <2>4. /\ \A t \in Threads : \/ pc'[t] = pc[t]
                              \/ /\ pc[t] \notin {"stage", "alone", "runs", "waits", "checks", "over"}
                                 /\ pc'[t] \notin {"stage", "alone", "runs", "waits", "checks", "over"}
        /\ \A e \in Callers : pc'[e] = pc[e]
    BY <1>1, <2>1, ThreadFacts
  <2>5. UNCHANGED <<run, tasks, next, finished, doing, first, body, plan, stage, ended>>
    BY <1>1, <1>2 DEF requests
  <2>. QED  BY <2>2, <2>3, <2>4, <2>5, QuietStep
<1>3. CASE seen' = [seen EXCEPT ![w] = round] /\ Taken(Take(w, pc, run, next, tasks, finished))
  <2>1. next \in Nat /\ tasks \in Nat /\ finished \in Nat /\ next <= tasks /\ seen' \in [Workers -> Nat]
    BY <1>1, <1>3 DEF IInv, TypeOK, RunOK
  <2>2. next < tasks => run \in Callers \X Nat /\ \E e \in Callers : Shares(e)
    BY <1>1, <2>1 DEF IInv, RunOK, TypeOK
  <2>3. TakeTo(w, pc, next, tasks, finished) /\ Finished' = Finished
    <3>1. \A u \in Threads \ {w} :
            /\ pc[u] \notin {"runs", "alone"} => doing[u] = NoTask
            /\ pc[u] = "runs" => doing[u] = <<run, doing[u][2]>> /\ doing[u][2] \in 0 .. next - 1
            /\ \A v \in Threads \ {w} : pc[u] = "runs" /\ pc[v] = "runs" /\ doing[u][2] = doing[v][2] => u = v
      BY DEF IInv, DoingOK, Running
    <3>2. TakeFrom(w, pc, run, next, tasks, finished)
      BY <1>1, <1>3, <2>1, <2>2, <3>1 DEF TakeFrom
    <3>3. TakeTo(w, pc, next, tasks, finished)
      BY <1>1, <3>2, TakeKeeps
    <3>4. Finished = {j \in 0 .. next - 1 : \A u \in Threads \ {w} : pc[u] = "runs" => doing[u][2] # j}
      BY <1>1 DEF Finished, Running
    <3>. QED  BY <3>3, <3>4 DEF TakeTo
  <2>. USE DEF TakeTo
  <2>4. \A e \in Callers : pc'[e] = pc[e] /\ doing'[e] = doing[e]
    BY <1>1, <2>3, ThreadFacts
  <2>5. TypeOK'
    BY <1>1, <2>1, <2>3 DEF TypeOK, requests
  <2>6. OwnOK' /\ OutOK'
    BY <1>1, <2>4 DEF IInv, OwnOK, Has, OutOK, OutOf, requests
  <2>7. \A e \in Callers : PassOf(e)' /\ (Shares(e)' <=> Shares(e)) /\ EndedAt(e)' = EndedAt(e)
    BY <1>1, <2>4, Elsewhere DEF requests, IInv, PassOK
  <2>8. DoingOK'
    BY <1>1, <2>3, <2>4, <2>7 DEF requests, IInv, DoingOK
  <2>9. RunOK'
    <3>a. next' <= tasks'
      <4>1. tasks' = tasks /\ next' = IF next < tasks THEN next + 1 ELSE next
        BY <1>1, <2>3
      <4>. QED  BY ONLY <4>1, <2>1
    <3>b. finished' = finished /\ Finished' = Finished /\ finished = Cardinality(Finished)
      BY <1>1, <2>3 DEF IInv, RunOK
    <3>1. next' <= tasks' /\ finished' = Cardinality(Finished')
      BY ONLY <3>a, <3>b
    <3>2. \A e \in Callers : Shares(e)' =>
            run' = <<e, stage'[e]>> /\ tasks' = plan'[e][stage'[e]] /\ EndedAt(e)' = Finished'
      BY <1>1, <2>3, <2>7 DEF IInv, RunOK, requests
    <3>3. ASSUME \A e \in Callers : ~Shares(e)'
          PROVE  next' = tasks' /\ \A t \in Threads : ~Running(t)'
      <4>1. next = tasks /\ \A t \in Threads : ~Running(t)
        BY <2>7, <3>3 DEF IInv, RunOK
      <4>2. pc'[w] = "asleep" /\ next' = next
        BY <2>1, <2>3, <4>1
      <4>. QED  BY <1>1, <2>3, <4>1, <4>2 DEF Running
    <3>. QED  BY <3>1, <3>2, <3>3 DEF RunOK
  <2>. QED  BY <2>5, <2>6, <2>7, <2>8, <2>9 DEF IInv, PassOK
<1>. QED  BY <1>2, <1>3 DEF Look

LEMMA CheckKeeps ==
  ASSUME EncoderAssumption, IInv, NEW c \in Callers, Check(c)
  PROVE  IInv'
<1>. DEFINE to == IF finished < tasks THEN "waits" ELSE "over"
<1>1. /\ TypeOK /\ PcOK /\ c \in Threads /\ c \notin Workers /\ pc[c] = "checks" /\ Has(c) /\ Shares(c) /\ AtStage(c)
      /\ pc' = [pc EXCEPT ![c] = to] /\ UNCHANGED <<pool, doing, requests>>
  BY ThreadFacts DEF IInv, TypeOK, Check, Has, Shares, AtStage
<1>2. PcOK' /\ pc'[c] = to /\ \A t \in Threads : t # c => pc'[t] = pc[t]
  BY <1>1, ThreadFacts DEF PcOK, Placed, CallerStates
<1>3. TypeOK'
  BY <1>1, <1>2 DEF TypeOK, pool, requests
<1>4. OwnOK' /\ OutOK'
  BY <1>1, <1>2, ThreadFacts DEF IInv, OwnOK, Has, OutOK, OutOf, requests
<1>5. UNCHANGED <<run, tasks, next, finished, doing, first, body, plan, stage, ended>>
  BY <1>1 DEF pool, requests
<1>6. CASE finished < tasks
  <2>1. \A t \in Threads : pc'[t] = pc[t] \/ (pc[t] \in {"waits", "checks"} /\ pc'[t] \in {"waits", "checks"})
    BY <1>1, <1>2, <1>6
  <2>2. \A e \in Callers : /\ pc'[e] = "pass" => pc[e] \in {"pass", "locks"}
                           /\ pc'[e] \in {"begin", "locks"} => pc[e] \in {"begin", "locks"}
    BY <1>1, <1>2, <1>6, ThreadFacts
  <2>. QED  BY <1>3, <1>4, <1>5, <2>1, <2>2, QuietStep
<1>7. CASE ~(finished < tasks)
  <2>1. pc'[c] = "over" /\ finished >= tasks
    BY <1>1, <1>2, <1>7 DEF TypeOK
  <2>2. next = tasks /\ Finished = 0 .. tasks - 1 /\ \A t \in Threads : ~Running(t)
    BY <2>1, AllFinished
  <2>3. \A e \in Callers : e # c => ~Has(e)
    BY <1>1, OneOwner
  <2>4. (\A e \in Callers : ~Shares(e)') /\ \A t \in Threads : ~Running(t)'
    BY <1>2, <2>1, <2>2, <2>3, SharesHas, ThreadFacts DEF Shares, Running, Has
  <2>5. RunOK'
    BY <1>5, <2>2, <2>4, PoolStill
  <2>6. DoingOK'
    <3>1. \A t \in Threads : pc'[t] \notin {"runs", "alone"} => pc[t] \notin {"runs", "alone"}
      BY <1>1, <1>2
    <3>2. \A e \in Callers : pc'[e] # "alone"
      BY <1>2, <2>1, <2>3, ThreadFacts DEF Has
    <3>. QED  BY <1>5, <2>4, <3>1, <3>2 DEF IInv, DoingOK
  <2>7. PassOK'
    <3>1. \A e \in Callers : e # c => PassOf(e)'
      BY <1>2, <1>5, Elsewhere, ThreadFacts DEF IInv, PassOK
    <3>2. PassOf(c) /\ EndedAt(c) = 0 .. plan[c][stage[c]] - 1
      BY <1>1, <2>2 DEF IInv, PassOK, RunOK
    <3>3. /\ stage[c] \in 1 .. Len(plan[c]) /\ AllEnded(c, stage[c] - 1) /\ first[c] <= Len(body[c].lens)
          /\ \A x \in ended[c] : x[1] <= stage[c]
      BY <1>1, <3>2 DEF PassOf
    <3>4. AllEnded(c, stage[c])
      <4>1. \A i \in 0 .. plan[c][stage[c]] - 1 : <<stage[c], i>> \in ended[c]
        BY <3>2 DEF EndedAt
      <4>2. \A s \in 1 .. stage[c] : s = stage[c] \/ s \in 1 .. stage[c] - 1
        BY <3>3
      <4>. QED  BY <3>3, <4>1, <4>2 DEF AllEnded
    <3>5. PassOf(c)'
      BY <1>5, <2>1, <3>3, <3>4 DEF PassOf, AllEnded
    <3>. QED  BY <3>1, <3>5 DEF PassOK
  <2>. QED  BY <1>3, <1>4, <2>5, <2>6, <2>7 DEF IInv
<1>. QED  BY <1>6, <1>7

\* The caller runs the stage's tasks by itself.
LEMMA AloneBegins ==
  ASSUME EncoderAssumption, IInv, NEW c \in Callers, pc[c] = "stage", UNCHANGED <<pool, requests>>,
         doing' = [doing EXCEPT ![c] = <<<<c, stage[c]>>, 0>>], pc' = [pc EXCEPT ![c] = "alone"]
  PROVE  IInv'
<1>1. /\ TypeOK /\ PcOK /\ c \in Threads /\ c \notin Workers /\ Has(c) /\ ~Shares(c) /\ AtStage(c)
      /\ PassOf(c) /\ UNCHANGED <<run, tasks, next, finished, first, body, plan, stage, ended>>
  BY ThreadFacts DEF IInv, TypeOK, Has, Shares, AtStage, PassOK, pool, requests
<1>2. PcOK' /\ pc'[c] = "alone" /\ \A t \in Threads : t # c => pc'[t] = pc[t]
  BY <1>1, ThreadFacts DEF PcOK, Placed, CallerStates
<1>3. /\ stage[c] \in 1 .. Len(plan[c]) /\ plan[c][stage[c]] \in Nat \ {0} /\ EndedAt(c) = {} /\ stage[c] \in Nat
      /\ AllEnded(c, stage[c] - 1) /\ first[c] <= Len(body[c].lens) /\ \A x \in ended[c] : x[1] <= stage[c]
  BY <1>1 DEF PassOf, TypeOK
<1>4. /\ doing'[c] = <<<<c, stage[c]>>, 0>> /\ doing' \in [Threads -> ((Callers \X Nat) \X Nat) \cup {NoTask}]
      /\ \A t \in Threads : t # c => doing'[t] = doing[t]
  BY <1>1, <1>3 DEF TypeOK
<1>5. TypeOK'
  BY <1>1, <1>2, <1>4 DEF TypeOK, pool, requests
<1>6. OwnOK' /\ OutOK'
  BY <1>1, <1>2, ThreadFacts DEF IInv, OwnOK, Has, OutOK, OutOf, requests
<1>7. /\ \A e \in Callers : e # c => ~Has(e)
      /\ next = tasks /\ \A t \in Threads : ~Running(t)
  BY <1>1, NoneShares
<1>8. (\A e \in Callers : ~Shares(e)') /\ \A t \in Threads : ~Running(t)'
  BY <1>2, <1>7, SharesHas, ThreadFacts DEF Shares, Running, Has
<1>9. RunOK'
  BY <1>1, <1>7, <1>8, PoolStill
<1>10. EndedAt(c)' = {}
  BY <1>1, <1>3 DEF EndedAt
<1>11. DoingOK'
  <2>1. \A t \in Threads : pc'[t] \notin {"runs", "alone"} => doing'[t] = NoTask
    BY <1>1, <1>2, <1>4 DEF IInv, DoingOK
  <2>2. \A e \in Callers : e # c => pc'[e] # "alone"
    BY <1>2, <1>7, ThreadFacts DEF Has
  <2>3. /\ doing'[c] = <<<<c, stage'[c]>>, doing'[c][2]>>
        /\ doing'[c][2] \in 0 .. plan'[c][stage'[c]] - 1
        /\ EndedAt(c)' = 0 .. doing'[c][2] - 1
    BY <1>1, <1>3, <1>4, <1>10
  <2>. QED  BY <1>8, <2>1, <2>2, <2>3 DEF DoingOK
<1>12. PassOK'
  <2>1. \A e \in Callers : e # c => PassOf(e)'
    BY <1>1, <1>2, Elsewhere, ThreadFacts DEF IInv, PassOK
  <2>2. PassOf(c)'
    BY <1>1, <1>2, <1>3 DEF PassOf, AllEnded
  <2>. QED  BY <2>1, <2>2 DEF PassOK
<1>. QED  BY <1>5, <1>6, <1>9, <1>11, <1>12 DEF IInv

\* The stage's tasks are put before the pool's threads.
LEMMA RunBegins ==
  ASSUME EncoderAssumption, IInv, NEW c \in Callers, pc[c] = "stage", UNCHANGED <<workers, stop, seen, requests>>,
         plan[c][stage[c]] > 1, run' = <<c, stage[c]>>, tasks' = plan[c][stage[c]], finished' = 0, round' = round + 1,
         Taken(Take(c, Wake(pc, "asleep", "woken"), <<c, stage[c]>>, 0, plan[c][stage[c]], 0))
  PROVE  IInv'
<1>. DEFINE p == Wake(pc, "asleep", "woken")
            n == plan[c][stage[c]]
<1>1. /\ TypeOK /\ PcOK /\ c \in Threads /\ c \notin Workers /\ Has(c) /\ ~Shares(c) /\ AtStage(c)
      /\ PassOf(c) /\ UNCHANGED <<first, body, plan, stage, ended>>
  BY ThreadFacts DEF IInv, TypeOK, Has, Shares, AtStage, PassOK, requests
<1>2. /\ stage[c] \in 1 .. Len(plan[c]) /\ n \in Nat \ {0} /\ n > 1 /\ EndedAt(c) = {} /\ stage[c] \in Nat
      /\ AllEnded(c, stage[c] - 1) /\ first[c] <= Len(body[c].lens) /\ \A x \in ended[c] : x[1] <= stage[c]
  BY <1>1 DEF PassOf, TypeOK
<1>3. /\ Placed(p) /\ \A e \in Callers : p[e] = pc[e]
      /\ \A t \in Threads : p[t] \in {"runs", "alone"} <=> pc[t] \in {"runs", "alone"}
      /\ \A t \in Threads : p[t] = "runs" <=> Running(t)
  BY <1>1, WakeShape, ThreadFacts DEF Running, PcOK, Placed
<1>4. /\ \A e \in Callers : e # c => ~Has(e)
      /\ \A t \in Threads : ~Running(t)
  BY <1>1, NoneShares
<1>. HIDE DEF p, n
<1>5. TakeTo(c, p, 0, n, 0)
  <2>1. \A u \in Threads \ {c} : p[u] # "runs" /\ (p[u] \notin {"runs", "alone"} => doing[u] = NoTask)
    BY <1>3, <1>4 DEF IInv, DoingOK
  <2>2. Taken(Take(c, p, <<c, stage[c]>>, 0, n, 0)) /\ run' = <<c, stage[c]>> /\ <<c, stage[c]>> \in Callers \X Nat
    BY <1>2 DEF p, n
  <2>3. 0 \in Nat /\ n \in Nat /\ 0 <= n
    BY <1>2
  <2>4. TakeFrom(c, p, <<c, stage[c]>>, 0, n, 0)
    BY <1>3, <2>1, <2>2, <2>3 DEF TakeFrom
  <2>. QED  BY <1>1, <2>4, TakeKeeps
<1>6. /\ PcOK' /\ doing' \in [Threads -> ((Callers \X Nat) \X Nat) \cup {NoTask}]
      /\ pc'[c] = "runs" /\ next' = 1 /\ Finished' = {}
      /\ \A u \in Threads : u # c => pc'[u] = p[u] /\ doing'[u] = doing[u]
      /\ \A u \in Threads : pc'[u] \notin {"runs", "alone"} => doing'[u] = NoTask
      /\ \A u \in Threads : Running(u)' => doing'[u] = <<run', doing'[u][2]>> /\ doing'[u][2] \in 0 .. next' - 1
      /\ \A u, v \in Threads : Running(u)' /\ Running(v)' /\ doing'[u][2] = doing'[v][2] => u = v
  BY <1>2, <1>5 DEF TakeTo
<1>7. \A e \in Callers : e # c => pc'[e] = pc[e]
  BY <1>3, <1>6, ThreadFacts
<1>8. TypeOK'
  <2>1. run' \in Callers \X Nat /\ tasks' \in Nat /\ next' \in Nat /\ finished' \in Nat /\ round' \in Nat
    BY <1>1, <1>2, <1>6 DEF TypeOK, n
  <2>. QED  BY <1>1, <1>6, <2>1 DEF TypeOK, requests
<1>9. OwnOK' /\ OutOK'
  BY <1>1, <1>6, <1>7 DEF IInv, OwnOK, Has, OutOK, OutOf, requests
<1>10. \A e \in Callers : e # c => ~Shares(e)' /\ pc'[e] # "alone"
  BY <1>4, <1>7 DEF Has, Shares
<1>11. EndedAt(c)' = {}
  BY <1>1, <1>2 DEF EndedAt
<1>12. RunOK'
  <2>1. next' <= tasks' /\ finished' = Cardinality(Finished')
    BY <1>2, <1>6, FS_EmptySet DEF n
  <2>2. run' = <<c, stage'[c]>> /\ tasks' = plan'[c][stage'[c]] /\ EndedAt(c)' = Finished' /\ Shares(c)'
    BY <1>1, <1>6, <1>11 DEF Shares
  <2>. QED  BY <1>10, <2>1, <2>2 DEF RunOK
<1>13. DoingOK'
  <2>1. \A e \in Callers : pc'[e] # "alone"
    BY <1>6, <1>10
  <2>. QED  BY <1>6, <2>1 DEF DoingOK
<1>14. PassOK'
  <2>1. \A e \in Callers : e # c => PassOf(e)'
    BY <1>1, <1>7, Elsewhere DEF IInv, PassOK
  <2>2. PassOf(c)'
    BY <1>1, <1>2, <1>6 DEF PassOf, AllEnded
  <2>. QED  BY <2>1, <2>2 DEF PassOK
<1>. QED  BY <1>8, <1>9, <1>12, <1>13, <1>14 DEF IInv

LEMMA PoolRunKeeps ==
  ASSUME EncoderAssumption, IInv, NEW c \in Callers, PoolRun(c)
  PROVE  IInv'
<1>1. CASE /\ doing' = [doing EXCEPT ![c] = <<<<c, stage[c]>>, 0>>]
           /\ pc' = [pc EXCEPT ![c] = "alone"] /\ UNCHANGED pool
  BY <1>1, AloneBegins DEF PoolRun
<1>2. CASE /\ plan[c][stage[c]] > 1 /\ run' = <<c, stage[c]>> /\ tasks' = plan[c][stage[c]] /\ finished' = 0 /\ round' = round + 1
           /\ Taken(Take(c, Wake(pc, "asleep", "woken"), <<c, stage[c]>>, 0, plan[c][stage[c]], 0))
           /\ UNCHANGED <<workers, stop, seen>>
  BY <1>2, RunBegins DEF PoolRun
<1>. QED  BY <1>1, <1>2 DEF PoolRun

LEMMA EndAloneKeeps ==
  ASSUME EncoderAssumption, IInv, NEW c \in Callers, EndAlone(c)
  PROVE  IInv'
<1>. DEFINE n == plan[c][stage[c]]
            k == doing[c][2]
            to == IF k + 1 < n THEN "alone" ELSE "over"
            does == IF k + 1 < n THEN <<<<c, stage[c]>>, k + 1>> ELSE NoTask
<1>1. /\ TypeOK /\ PcOK /\ c \in Threads /\ c \notin Workers /\ pc[c] = "alone" /\ Has(c) /\ ~Shares(c) /\ AtStage(c)
      /\ PassOf(c) /\ UNCHANGED <<pool, body, owner, first, plan, stage, out, reply>>
  BY ThreadFacts DEF IInv, TypeOK, Has, Shares, AtStage, PassOK, EndAlone
<1>2. /\ stage[c] \in 1 .. Len(plan[c]) /\ n \in Nat \ {0} /\ stage[c] \in Nat
      /\ AllEnded(c, stage[c] - 1) /\ first[c] <= Len(body[c].lens) /\ \A x \in ended[c] : x[1] <= stage[c]
  BY <1>1 DEF PassOf, TypeOK
<1>3. doing[c] = <<<<c, stage[c]>>, k>> /\ k \in 0 .. n - 1 /\ EndedAt(c) = 0 .. k - 1
  BY <1>1 DEF IInv, DoingOK
<1>4. /\ ended' = [ended EXCEPT ![c] = ended[c] \cup {<<stage[c], k>>}]
      /\ doing' = [doing EXCEPT ![c] = does] /\ pc' = [pc EXCEPT ![c] = to]
  <2>1. doing[c][1] = <<c, stage[c]>>
    BY <1>3
  <2>2. doing' = [doing EXCEPT ![c] = IF k + 1 < n THEN <<doing[c][1], k + 1>> ELSE NoTask]
    BY DEF EndAlone
  <2>. QED  BY <2>1, <2>2 DEF EndAlone
<1>5. PcOK' /\ pc'[c] = to /\ \A t \in Threads : t # c => pc'[t] = pc[t]
  BY <1>1, <1>4, ThreadFacts DEF PcOK, Placed, CallerStates
<1>6. /\ doing'[c] = does /\ doing' \in [Threads -> ((Callers \X Nat) \X Nat) \cup {NoTask}]
      /\ \A t \in Threads : t # c => doing'[t] = doing[t]
  <2>1. <<c, stage[c]>> \in Callers \X Nat /\ k + 1 \in Nat
    BY <1>2, <1>3
  <2>2. does \in ((Callers \X Nat) \X Nat) \cup {NoTask}
    BY ONLY <2>1
  <2>3. c \in Threads /\ doing \in [Threads -> ((Callers \X Nat) \X Nat) \cup {NoTask}]
    BY <1>1 DEF TypeOK
  <2>. HIDE DEF does
  <2>. QED  BY ONLY <1>4, <2>2, <2>3
<1>7. /\ ended'[c] = ended[c] \cup {<<stage[c], k>>} /\ ended' \in [Callers -> SUBSET (Nat \X Nat)]
      /\ \A e \in Callers : e # c => ended'[e] = ended[e]
  <2>1. <<stage[c], k>> \in Nat \X Nat /\ ended \in [Callers -> SUBSET (Nat \X Nat)]
    BY <1>1, <1>2, <1>3 DEF TypeOK
  <2>. HIDE DEF k
  <2>. QED  BY ONLY c \in Callers, <1>4, <2>1
<1>8. TypeOK'
  BY <1>1, <1>5, <1>6, <1>7 DEF TypeOK, pool
<1>9. OwnOK' /\ OutOK'
  BY <1>1, <1>5, ThreadFacts DEF IInv, OwnOK, Has, OutOK, OutOf
<1>10. /\ \A e \in Callers : e # c => ~Has(e)
       /\ next = tasks /\ \A t \in Threads : ~Running(t)
  BY <1>1, NoneShares
<1>11. (\A e \in Callers : ~Shares(e)') /\ \A t \in Threads : ~Running(t)'
  BY <1>5, <1>10, SharesHas, ThreadFacts DEF Shares, Running, Has
<1>12. RunOK'
  BY <1>1, <1>10, <1>11, PoolStill DEF pool
<1>13. EndedAt(c)' = 0 .. k
  <2>1. EndedAt(c)' = EndedAt(c) \cup {k}
    BY <1>1, <1>3, <1>7 DEF EndedAt
  <2>2. (0 .. k - 1) \cup {k} = 0 .. k
    BY <1>3
  <2>. QED  BY <1>3, <2>1, <2>2
<1>14. DoingOK'
  <2>1. \A t \in Threads : pc'[t] \notin {"runs", "alone"} => doing'[t] = NoTask
    BY <1>1, <1>5, <1>6 DEF IInv, DoingOK
  <2>2. \A e \in Callers : e # c => pc'[e] # "alone"
    BY <1>5, <1>10, ThreadFacts DEF Has
  <2>3. pc'[c] = "alone" =>
          /\ doing'[c] = <<<<c, stage'[c]>>, doing'[c][2]>>
          /\ doing'[c][2] \in 0 .. plan'[c][stage'[c]] - 1
          /\ EndedAt(c)' = 0 .. doing'[c][2] - 1
    <3>1. pc'[c] = "alone" => k + 1 < n /\ doing'[c] = <<<<c, stage[c]>>, k + 1>>
      BY <1>5, <1>6
    <3>2. (k + 1) - 1 = k /\ (k + 1 < n => k + 1 \in 0 .. n - 1)
      <4>1. n \in Nat /\ k \in Nat
        BY <1>2, <1>3
      <4>. HIDE DEF n, k
      <4>. QED  BY ONLY <4>1
    <3>. QED  BY <1>1, <1>13, <3>1, <3>2
  <2>. QED  BY <1>11, <2>1, <2>2, <2>3 DEF DoingOK
<1>15. PassOK'
  <2>1. \A e \in Callers : e # c => PassOf(e)'
    BY <1>1, <1>5, <1>7, Elsewhere, ThreadFacts DEF IInv, PassOK
  <2>2. AllEnded(c, stage[c] - 1)' /\ \A x \in ended'[c] : x[1] <= stage[c]
    BY <1>1, <1>2, <1>7 DEF AllEnded
  <2>3. pc'[c] = "over" => AllEnded(c, stage[c])'
    <3>. SUFFICES ASSUME pc'[c] = "over"
                  PROVE  AllEnded(c, stage[c])'
      OBVIOUS
    <3>1. k + 1 = n
      BY <1>2, <1>3, <1>5, SMTT(20)
    <3>2. \A i \in 0 .. n - 1 : <<stage[c], i>> \in ended'[c]
      <4>1. 0 .. k = 0 .. n - 1
        BY <1>2, <1>3, <3>1
      <4>. QED  BY <1>1, <1>13, <4>1 DEF EndedAt
    <3>3. \A s \in 1 .. stage[c] : s = stage[c] \/ s \in 1 .. stage[c] - 1
      BY <1>2
    <3>. QED  BY <1>1, <2>2, <3>2, <3>3 DEF AllEnded
  <2>4. PassOf(c)'
    BY <1>1, <1>2, <1>5, <2>2, <2>3 DEF PassOf
  <2>. QED  BY <2>1, <2>4 DEF PassOK
<1>. QED  BY <1>8, <1>9, <1>12, <1>14, <1>15 DEF IInv

LEMMA EndKeeps ==
  ASSUME EncoderAssumption, IInv, NEW t \in Threads, End(t)
  PROVE  IInv'
<1>. DEFINE k == doing[t][2]
            p == IF LastEnded THEN Wake(pc, "waits", "checks") ELSE pc
            D == Finished \cup {k}
<1>1. /\ TypeOK /\ PcOK /\ Placed(pc) /\ pc[t] = "runs" /\ Running(t) /\ finished' = finished + 1
      /\ next \in Nat /\ tasks \in Nat /\ finished \in Nat /\ next <= tasks
      /\ UNCHANGED <<workers, run, tasks, round, stop, seen, body, owner, first, plan, stage, out, reply>>
  BY DEF IInv, TypeOK, PcOK, RunOK, End, Running
<1>2. PICK d \in Callers : Shares(d)
  BY <1>1 DEF IInv, RunOK
<1>3. /\ Has(d) /\ AtStage(d) /\ run = <<d, stage[d]>> /\ tasks = plan[d][stage[d]] /\ EndedAt(d) = Finished
      /\ d \in Threads /\ d \notin Workers /\ PassOf(d) /\ \A e \in Callers : e # d => ~Has(e) /\ ~Shares(e)
  BY <1>2, SharesHas, OneOwner, ThreadFacts DEF IInv, RunOK, PassOK
<1>4. /\ stage[d] \in 1 .. Len(plan[d]) /\ stage[d] \in Nat
      /\ AllEnded(d, stage[d] - 1) /\ first[d] <= Len(body[d].lens) /\ \A x \in ended[d] : x[1] <= stage[d]
  BY <1>1, <1>3 DEF PassOf, TypeOK
<1>5. t \in Callers => t = d
  BY <1>1, <1>3 DEF IInv, DoingOK, Shares
<1>6. doing[t] = <<run, k>> /\ k \in 0 .. next - 1 /\ k \notin Finished
  BY <1>1 DEF IInv, DoingOK, Finished
<1>7. /\ ended'[d] = ended[d] \cup {<<stage[d], k>>} /\ ended' \in [Callers -> SUBSET (Nat \X Nat)]
      /\ \A e \in Callers : e # d => ended'[e] = ended[e]
  <2>1. doing[t][1] = <<d, stage[d]>>
    BY <1>3, <1>6
  <2>2. ended' = [ended EXCEPT ![d] = ended[d] \cup {<<stage[d], k>>}]
    BY <2>1 DEF End
  <2>. QED  BY <1>1, <1>4, <1>6, <2>2 DEF TypeOK
<1>8. /\ Placed(p) /\ \A u \in Threads : p[u] = pc[u] \/ (pc[u] = "waits" /\ p[u] = "checks")
  <2>1. \A w \in Workers : pc[w] # "waits"
    BY <1>1 DEF Placed, WorkerStates
  <2>2. /\ Wake(pc, "waits", "checks") \in [Threads -> WorkerStates \cup CallerStates]
        /\ \A u \in Threads : Wake(pc, "waits", "checks")[u] = IF pc[u] = "waits" THEN "checks" ELSE pc[u]
    BY <1>1 DEF Placed, Wake, CallerStates
  <2>3. Placed(Wake(pc, "waits", "checks"))
    BY <1>1, <2>1, <2>2, ThreadFacts DEF Placed, CallerStates
  <2>. QED  BY <1>1, <2>2, <2>3
<1>9. /\ D = {j \in 0 .. next - 1 : \A u \in Threads \ {t} : p[u] = "runs" => doing[u][2] # j}
      /\ finished + 1 = Cardinality(D) /\ D \in SUBSET (0 .. next - 1)
  <2>1. ASSUME NEW j \in 0 .. next - 1
        PROVE  j \in D <=> \A u \in Threads \ {t} : p[u] = "runs" => doing[u][2] # j
    <3>1. \A u \in Threads : p[u] = "runs" <=> Running(u)
      BY <1>8 DEF Running
    <3>2. CASE j = k
      <4>1. \A u \in Threads \ {t} : Running(u) => doing[u][2] # k
        BY <1>1 DEF IInv, DoingOK
      <4>. QED  BY <3>1, <3>2, <4>1
    <3>3. CASE j # k
      <4>1. j \in D <=> \A u \in Threads : Running(u) => doing[u][2] # j
        BY <3>3 DEF Finished
      <4>. QED  BY <1>1, <3>1, <3>3, <4>1
    <3>. QED  BY <3>2, <3>3
  <2>2. D \in SUBSET (0 .. next - 1)
    BY <1>6 DEF Finished
  <2>3. IsFiniteSet(Finished)
    <3>1. 0 \in Int /\ next - 1 \in Int /\ Finished \in SUBSET (0 .. next - 1)
      BY <1>1 DEF Finished
    <3>. QED  BY <3>1, FS_Interval, FS_Subset
  <2>4. Cardinality(D) = Cardinality(Finished) + 1
    BY <1>6, <2>3, FS_AddElement
  <2>5. finished = Cardinality(Finished)
    BY DEF IInv, RunOK
  <2>. HIDE DEF D
  <2>. QED  BY <2>1, <2>2, <2>4, <2>5
<1>. HIDE DEF p, D
<1>10. TakeTo(t, p, next, tasks, finished + 1) /\ Finished' = D
  <2>1. \A u \in Threads \ {t} :
          /\ p[u] \notin {"runs", "alone"} => doing[u] = NoTask
          /\ p[u] = "runs" => doing[u] = <<run, doing[u][2]>> /\ doing[u][2] \in 0 .. next - 1
          /\ \A v \in Threads \ {t} : p[u] = "runs" /\ p[v] = "runs" /\ doing[u][2] = doing[v][2] => u = v
    BY <1>8 DEF IInv, DoingOK, Running
  <2>2. Taken(Take(t, p, run, next, tasks, finished + 1)) /\ run' = run
    BY <1>1 DEF End, p
  <2>3. run \in Callers \X Nat /\ finished + 1 \in Nat
    BY <1>1, <1>3, <1>4
  <2>4. TakeFrom(t, p, run, next, tasks, finished + 1)
    BY <1>1, <1>8, <2>1, <2>2, <2>3 DEF TakeFrom
  <2>5. TakeTo(t, p, next, tasks, finished + 1)
    BY <1>1, <2>4, TakeKeeps
  <2>. QED  BY <1>9, <2>5 DEF TakeTo
<1>11. /\ PcOK' /\ doing' \in [Threads -> ((Callers \X Nat) \X Nat) \cup {NoTask}] /\ next' \in Nat /\ next' <= tasks
       /\ \A u \in Threads \ {t} : pc'[u] = p[u] /\ doing'[u] = doing[u]
       /\ \A u \in Threads : pc'[u] \notin {"runs", "alone"} => doing'[u] = NoTask
       /\ \A u \in Threads : Running(u)' => doing'[u] = <<run', doing'[u][2]>> /\ doing'[u][2] \in 0 .. next' - 1
       /\ \A u, v \in Threads : Running(u)' /\ Running(v)' /\ doing'[u][2] = doing'[v][2] => u = v
  BY <1>1, <1>10 DEF TakeTo
<1>12. \A e \in Callers : e # d => pc'[e] = pc[e]
  <2>1. \A e \in Callers : e # d => e # t /\ pc[e] # "waits" /\ e \in Threads
    BY <1>1, <1>3, ThreadFacts DEF Shares
  <2>. QED  BY <1>8, <1>11, <2>1
<1>13. /\ Shares(d)' \/ pc'[d] = "over"
       /\ pc'[d] = "over" => next' = tasks /\ D = 0 .. tasks - 1
  <2>1. CASE t # d
    BY <1>2, <1>3, <1>8, <1>11, <2>1 DEF Shares
  <2>2. CASE t = d /\ next < tasks
    BY <1>1, <1>10, <2>2 DEF TakeTo, Shares
  <2>3. CASE t = d /\ next >= tasks
    <3>1. pc'[d] = (IF finished + 1 < tasks THEN "waits" ELSE "over") /\ next' = next
      BY <1>1, <1>3, <1>10, <2>3 DEF TakeTo
    <3>2. CASE finished + 1 < tasks
      BY <3>1, <3>2 DEF Shares
    <3>3. CASE ~(finished + 1 < tasks)
      <4>1. Cardinality(D) >= tasks
        BY <1>1, <1>9, <3>3
      <4>2. next = tasks /\ D = 0 .. tasks - 1
        BY <1>1, <1>9, <4>1, FullCount
      <4>. QED  BY <3>1, <3>3, <4>2
    <3>. QED  BY <3>2, <3>3
  <2>. QED  BY <1>1, <2>1, <2>2, <2>3
<1>14. TypeOK'
  BY <1>1, <1>7, <1>11 DEF TypeOK
<1>15. OwnOK' /\ OutOK'
  <2>1. pc'[d] # "answered"
    BY <1>13 DEF Shares
  <2>2. pc[d] # "answered"
    BY <1>2 DEF Shares
  <2>. QED  BY <1>1, <1>3, <1>12, <2>1, <2>2 DEF IInv, OwnOK, Has, OutOK, OutOf
<1>16. EndedAt(d)' = D
  BY <1>1, <1>3, <1>6, <1>7 DEF EndedAt, D
<1>17. \A e \in Callers : e # d => ~Shares(e)' /\ PassOf(e)' /\ pc'[e] # "alone"
  <2>1. \A e \in Callers : e # d => PassOf(e)' /\ (Shares(e)' <=> Shares(e))
    BY <1>1, <1>7, <1>12, Elsewhere DEF IInv, PassOK
  <2>. QED  BY <1>3, <1>12, <2>1 DEF Has
<1>18. DoingOK'
  <2>1. pc'[d] # "alone"
    BY <1>13 DEF Shares
  <2>. QED  BY <1>11, <1>17, <2>1 DEF DoingOK
<1>19. RunOK'
  <2>1. finished' = Cardinality(Finished')
    BY <1>1, <1>9, <1>10
  <2>2. Shares(d)' => run' = <<d, stage'[d]>> /\ tasks' = plan'[d][stage'[d]] /\ EndedAt(d)' = Finished'
    BY <1>1, <1>3, <1>10, <1>16
  <2>3. pc'[d] = "over" => next' = tasks' /\ \A u \in Threads : ~Running(u)'
    <3>. SUFFICES ASSUME pc'[d] = "over", NEW u \in Threads, Running(u)'
                  PROVE  FALSE
      BY <1>1, <1>13
    <3>1. doing'[u][2] \in 0 .. tasks - 1
      BY <1>11, <1>13
    <3>2. doing'[u][2] \notin Finished'
      BY DEF Finished
    <3>. QED  BY <1>10, <1>13, <3>1, <3>2
  <2>. QED  BY <1>1, <1>11, <1>13, <1>17, <2>1, <2>2, <2>3 DEF RunOK
<1>20. PassOf(d)'
  <2>1. AllEnded(d, stage[d] - 1)' /\ \A x \in ended'[d] : x[1] <= stage[d]
    BY <1>1, <1>4, <1>7 DEF AllEnded
  <2>2. pc'[d] = "over" => AllEnded(d, stage[d])'
    <3>. SUFFICES ASSUME pc'[d] = "over"
                  PROVE  AllEnded(d, stage[d])'
      OBVIOUS
    <3>1. \A i \in 0 .. plan[d][stage[d]] - 1 : <<stage[d], i>> \in ended'[d]
      BY <1>1, <1>3, <1>13, <1>16 DEF EndedAt
    <3>2. \A s \in 1 .. stage[d] : s = stage[d] \/ s \in 1 .. stage[d] - 1
      BY <1>4
    <3>. QED  BY <1>1, <2>1, <3>1, <3>2 DEF AllEnded
  <2>3. pc'[d] \notin {"stage", "pass", "begin", "locks"}
    BY <1>13 DEF Shares
  <2>. QED  BY <1>1, <1>4, <2>1, <2>2, <2>3 DEF PassOf
<1>. QED  BY <1>14, <1>15, <1>17, <1>18, <1>19, <1>20 DEF IInv, PassOK

LEMMA NextKeeps ==
  ASSUME EncoderAssumption, PassAssumption, IInv, [Next]_vars
  PROVE  IInv'
<1>1. ASSUME NEW c \in Callers, Request(c) PROVE IInv'
  <2>1. c \in Threads
    BY ThreadFacts
  <2>2. Ask(c) \/ Lock(c) \/ Pass(c) \/ PoolRun(c) \/ EndAlone(c) \/ End(c) \/ Check(c) \/ Over(c)
    BY <1>1 DEF Request
  <2>. QED  BY <2>1, <2>2, AskKeeps, LockKeeps, PassKeeps, PoolRunKeeps, EndAloneKeeps, EndKeeps, CheckKeeps, OverKeeps
<1>2. ASSUME NEW w \in Workers, Worker(w) PROVE IInv'
  <2>1. w \in Threads
    BY ThreadFacts
  <2>. QED  BY <1>2, <2>1, LookKeeps, EndKeeps DEF Worker
<1>3. CASE Free
  BY <1>3, FreeKeeps
<1>4. CASE UNCHANGED vars
  <2>1. UNCHANGED <<run, tasks, next, finished, doing, first, body, plan, stage, ended>> /\ UNCHANGED pc
    BY <1>4 DEF vars, pool, requests
  <2>2. TypeOK' /\ OwnOK' /\ OutOK'
    BY <1>4 DEF IInv, vars, pool, requests, TypeOK, PcOK, Placed, OwnOK, Has, OutOK, OutOf
  <2>. QED  BY <2>1, <2>2, QuietStep
<1>. QED  BY <1>1, <1>2, <1>3, <1>4 DEF Next

-----------------------------------------------------------------------------
(* The theorems.                                                            *)

\* The invariant holds throughout.
THEOREM Invariance == EncoderAssumption /\ PassAssumption => (Spec => []IInv)
<1>1. ASSUME EncoderAssumption, PassAssumption PROVE Spec => []IInv
  <2>1. Init => IInv
    BY <1>1, InitKeeps
  <2>2. IInv /\ [Next]_vars => IInv'
    BY <1>1, NextKeeps
  <2>. QED  BY <2>1, <2>2, PTL DEF Spec
<1>. QED  BY <1>1

\* Every variable keeps to its type.
THEOREM TypeCorrect == EncoderAssumption /\ PassAssumption => (Spec => []TypeOK)
<1>1. IInv => TypeOK
  BY DEF IInv
<1>. QED  BY <1>1, Invariance, PTL

LEMMA StagesFollow ==
  ASSUME EncoderAssumption, PassAssumption, IInv
  PROVE  StagesInOrder
<1>. DEFINE OwnTask(t, r) ==
              /\ AllEnded(r[1], r[2] - 1)
              /\ <<r[2], doing[t][2]>> \notin ended[r[1]]
              /\ \A u \in Threads \ {t} : doing[u] # NoTask => doing[u][1] = r /\ doing[u][2] # doing[t][2]
<1>1. \A t \in Threads : doing[t] # NoTask => Running(t) \/ (pc[t] = "alone" /\ t \in Callers)
  <2>1. ASSUME NEW t \in Threads, doing[t] # NoTask PROVE pc[t] \in {"runs", "alone"}
    BY <2>1 DEF IInv, DoingOK
  <2>2. ASSUME NEW w \in Workers PROVE pc[w] # "alone"
    <3>1. pc[w] \in WorkerStates
      BY DEF IInv, TypeOK, PcOK, Placed
    <3>. QED  BY <3>1 DEF WorkerStates
  <2>. QED  BY <2>1, <2>2, ThreadFacts DEF Running
<1>2. ASSUME NEW t \in Threads, Running(t)
      PROVE  OwnTask(t, doing[t][1])
  <2>1. PICK d \in Callers : Shares(d)
    BY <1>2 DEF IInv, RunOK
  <2>2. run = <<d, stage[d]>> /\ EndedAt(d) = Finished /\ AllEnded(d, stage[d] - 1) /\ Has(d)
    BY <2>1, SharesHas DEF IInv, RunOK, PassOK, PassOf
  <2>3. doing[t] = <<run, doing[t][2]>> /\ doing[t][2] \in 0 .. next - 1 /\ next \in Nat /\ doing[t][2] \notin Finished
    BY <1>2 DEF IInv, DoingOK, TypeOK, Finished
  <2>4. doing[t][1] = run /\ run[1] = d /\ run[2] = stage[d] /\ doing[t][2] \in Nat
    BY <2>2, <2>3
  <2>5. <<stage[d], doing[t][2]>> \notin ended[d]
    BY <2>2, <2>3, <2>4 DEF EndedAt
  <2>6. \A u \in Threads : doing[u] # NoTask => Running(u)
    <3>1. \A e \in Callers : pc[e] # "alone"
      BY <2>1, <2>2, OneOwner DEF Has, Shares
    <3>. QED  BY <1>1, <3>1
  <2>7. ASSUME NEW u \in Threads \ {t}, doing[u] # NoTask
        PROVE  doing[u][1] = run /\ doing[u][2] # doing[t][2]
    <3>1. Running(u)
      BY <2>6, <2>7
    <3>2. doing[u] = <<run, doing[u][2]>> /\ doing[u][2] # doing[t][2]
      BY <1>2, <3>1 DEF IInv, DoingOK
    <3>. QED  BY <3>2
  <2>. QED  BY <2>2, <2>4, <2>5, <2>7
<1>3. ASSUME NEW t \in Callers, pc[t] = "alone"
      PROVE  OwnTask(t, doing[t][1])
  <2>1. Has(t) /\ ~Shares(t) /\ AtStage(t)
    BY <1>3 DEF Has, Shares, AtStage
  <2>2. doing[t] = <<<<t, stage[t]>>, doing[t][2]>> /\ doing[t][2] \in Nat /\ doing[t][2] \notin EndedAt(t) /\ AllEnded(t, stage[t] - 1)
    <3>1. /\ doing[t] = <<<<t, stage[t]>>, doing[t][2]>> /\ doing[t][2] \in 0 .. plan[t][stage[t]] - 1
          /\ EndedAt(t) = 0 .. doing[t][2] - 1
      BY <1>3 DEF IInv, DoingOK
    <3>2. AllEnded(t, stage[t] - 1)
      BY <2>1 DEF IInv, PassOK, PassOf
    <3>. QED  BY <3>1, <3>2
  <2>3. doing[t][1] = <<t, stage[t]>> /\ doing[t][1][1] = t /\ doing[t][1][2] = stage[t]
    BY <2>2
  <2>4. <<stage[t], doing[t][2]>> \notin ended[t]
    BY <2>2 DEF EndedAt
  <2>5. \A u \in Threads \ {t} : doing[u] = NoTask
    <3>1. (\A u \in Threads : ~Running(u)) /\ \A e \in Callers : e # t => ~Has(e)
      BY <2>1, NoneShares
    <3>. QED  BY <1>1, <3>1 DEF Has
  <2>. QED  BY <2>2, <2>3, <2>4, <2>5
<1>4. \A t \in Threads : doing[t] # NoTask => OwnTask(t, doing[t][1])
  <2>. HIDE DEF OwnTask
  <2>. QED  BY <1>1, <1>2, <1>3
<1>5. \A c \in Callers : pc[c] = "pass" => AllEnded(c, Len(plan[c]))
  BY DEF IInv, PassOK, PassOf
<1>6. ASSUME NEW c \in Callers, reply[c] = 200
      PROVE  out[c] = [i \in DOMAIN body[c].lens |-> <<c, i>>]
  <2>1. body[c].lens \in Seq(Nat \ {0})
    BY DEF IInv, TypeOK, PassAssumption
  <2>2. first[c] - 1 = Len(body[c].lens) /\ out[c] = [i \in 1 .. first[c] - 1 |-> <<c, i>>]
    BY <1>6, <2>1 DEF IInv, OutOK, OutOf
  <2>. QED  BY <2>1, <2>2
<1>. QED  BY <1>4, <1>5, <1>6 DEF StagesInOrder

\* Whatever threads there are and whoever asks at once: a stage's tasks begin
\* when those of the stages before have all ended, each is run once, no thread
\* runs one of another pass, and a request gets its own texts' vectors in order.
THEOREM StagesCorrect == EncoderAssumption /\ PassAssumption => (Spec => []StagesInOrder)
<1>1. ASSUME EncoderAssumption, PassAssumption PROVE Spec => []StagesInOrder
  <2>1. IInv => StagesInOrder
    BY <1>1, StagesFollow
  <2>2. Spec => []IInv
    BY <1>1, Invariance
  <2>. QED  BY <2>1, <2>2, PTL
<1>. QED  BY <1>1
=============================================================================
