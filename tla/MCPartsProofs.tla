--------------------------- MODULE MCPartsProofs ----------------------------
(***************************************************************************)
(* Properties that MCParts asks of serve, of the installer, of the paged   *)
(* cache and of the cutting of a reply, as theorems of its specification:  *)
(* for any options and models, for any releases, machines, runs and        *)
(* faults, for caches of any size, and for any tokens and stop sequences;  *)
(* of the installer also that it never runs out of room, and plans no less *)
(* than it did; and of loading a model, for any files, what is left of it, *)
(* where its weights are found and that they are all there, and of an      *)
(* embedding model what it is read as.  While a part does not run, nothing *)
(* is asked of it.                                                         *)
(***************************************************************************)
EXTENDS MCParts, FiniteSetTheorems, WellFoundedInduction, TLAPS

-----------------------------------------------------------------------------
(* serve.  What is open and what is in effect follow from where it is: the    *)
(* options that the steps so far have been through are in effect if they were *)
(* asked for, and the GPU's cache is in place of the host's once "cuda" is.   *)

Openable == {"tokenizer", "encoder", "api"} \cup Command!OfModel

CommandTypes ==
  /\ asks \in Asked /\ kind \in Kinds
  /\ held \subseteq Openable /\ took \subseteq asks

LostOK == lost \in BOOLEAN /\ (rc = Command!EXIT_DEVICE_LOST <=> lost)

\* Where serve is.
AtOption == {"expert_cache", "gpu_expert_cache", "gpu_kv_layers", "fast", "cuda", "cpu_experts"}
Serving == {"api", "speculate", "runs", "free api"}

KindOK ==
  /\ pc \notin {"main", "ended"} => ~Command!Refused
  /\ pc \in {"tokenizer", "encoder", "load", "api", "speculate", "free api"} \cup AtOption => kind # "none"
  /\ pc = "encoder" => Command!Bert
  /\ pc \in {"load", "speculate"} \cup AtOption => ~Command!Bert

OpenOK ==
  /\ pc \in {"main", "tokenizer", "ended"} => held = {}
  /\ pc \in {"encoder", "load"} => held = {"tokenizer"}
  /\ pc \in AtOption \cup Serving /\ kind # "none" =>
       "tokenizer" \in held /\ (IF Command!Bert THEN "encoder" ELSE "files") \in held
  /\ pc \in Serving /\ Command!Bert => "gpu" \notin held
  /\ "encoder" \in held => Command!Bert
  /\ "api" \in held => pc \in {"speculate", "runs", "free api"}
  /\ pc \in {"speculate", "runs", "free api"} /\ kind # "none" => "api" \in held
  /\ pc = "runs" /\ kind = "none" => held = {}
  /\ pc = "close" => held \subseteq {"tokenizer"}

\* The options that have been gone through, all of the model's by "api".
Through(p) ==
  {"ctx", "parallel"} \cup
  CASE p = "expert_cache" -> {}
    [] p = "gpu_expert_cache" -> {"expert_cache"}
    [] p = "gpu_kv_layers" -> {"expert_cache", "gpu_expert_cache"}
    [] p = "fast" -> {"expert_cache", "gpu_expert_cache", "gpu_kv_layers"}
    [] p = "cuda" -> {"expert_cache", "gpu_expert_cache", "gpu_kv_layers", "fast"}
    [] p = "cpu_experts" -> {"expert_cache", "gpu_expert_cache", "gpu_kv_layers", "fast", "cuda"}
    [] OTHER -> {"expert_cache", "gpu_expert_cache", "gpu_kv_layers", "fast", "cuda", "cpu_experts"}

TookOK ==
  /\ pc \in AtOption \cup Serving /\ kind # "none" /\ ~Command!Bert =>
       /\ asks \cap Through(pc) \subseteq took
       /\ "gpu" \in held <=> "cuda" \in took
       /\ "host_kv" \in held <=> "cuda" \notin took
  /\ pc \in Serving /\ Command!Bert => asks \cap {"threads"} \subseteq took

CommandInv == CommandTypes /\ LostOK /\ KindOK /\ OpenOK /\ TookOK

LEMMA AsAsked ==
  ASSUME CommandInv
  PROVE  Command!ServesAsAsked
<1>1. asks \subseteq Command!Options /\ kind \in {"none", "bert", "bert, no WordPiece", "dense", "moe"}
  BY Assumptions DEF CommandInv, CommandTypes, Command!ServeAssumption
<1>2. ASSUME pc = "runs", kind # "none"
      PROVE  /\ asks \ {"speculate"} \subseteq took /\ took \subseteq asks
             /\ ("gpu" \in held) = ("cuda" \in asks)
             /\ ~Command!Bert => ("host_kv" \in held) = ("cuda" \notin asks)
  <2>1. ~Command!Refused
    BY <1>2 DEF CommandInv, KindOK
  <2>2. took \subseteq asks /\ pc \in Serving
    BY <1>2 DEF CommandInv, CommandTypes, Serving
  <2>3. CASE Command!Bert
    <3>1. asks \cap (Command!OfGeneration \cup {"threads 0", "parallel 0"}) = {} /\ asks \cap Command!GpuOnly = {}
      BY <2>1, <2>3 DEF Command!Refused, Command!RefusedAtOnce, Command!OfGeneration, Command!GpuOnly
    <3>2. asks \subseteq {"threads"} /\ "cuda" \notin asks
      BY <1>1, <3>1 DEF Command!Options, Command!OfExperts, Command!OfGeneration, Command!GpuOnly
    <3>3. asks \cap {"threads"} \subseteq took /\ "gpu" \notin held
      BY <2>2, <2>3 DEF CommandInv, OpenOK, TookOK
    <3>. QED  BY <2>2, <2>3, <3>2, <3>3
  <2>4. CASE ~Command!Bert
    <3>1. asks \cap {"threads", "threads 0", "parallel 0"} = {}
      BY <1>2, <2>1, <2>4 DEF Command!Refused
    <3>2. Through(pc) = {"ctx", "parallel", "expert_cache", "gpu_expert_cache", "gpu_kv_layers", "fast", "cuda", "cpu_experts"}
      BY <1>2 DEF Through
    <3>3. asks \ {"speculate"} \subseteq Through(pc)
      BY <1>1, <3>1, <3>2 DEF Command!Options, Command!OfExperts, Command!OfGeneration, Command!GpuOnly
    <3>4. /\ asks \cap Through(pc) \subseteq took
          /\ "gpu" \in held <=> "cuda" \in took
          /\ "host_kv" \in held <=> "cuda" \notin took
      BY <1>2, <2>2, <2>4 DEF CommandInv, TookOK
    <3>5. "cuda" \in asks <=> "cuda" \in took
      BY <2>2, <3>2, <3>4
    <3>. QED  BY <2>2, <2>4, <3>3, <3>4, <3>5
  <2>. QED  BY <2>3, <2>4
<1>3. "api" \in held => {"tokenizer"} \subseteq held /\ (IF Command!Bert THEN "encoder" ELSE "files") \in held
  BY DEF CommandInv, OpenOK, KindOK, Serving
<1>4. pc = "ended" => held = {} /\ (rc = Command!EXIT_DEVICE_LOST) = lost
  BY DEF CommandInv, OpenOK, LostOK
<1>. QED  BY <1>2, <1>3, <1>4 DEF Command!ServesAsAsked

LEMMA Order ==
  /\ DOMAIN Command!After \ {"load"} = AtOption
  /\ Command!After["load"] = "expert_cache" /\ Through("expert_cache") = {"ctx", "parallel"}
  /\ \A o \in AtOption : /\ Command!After[o] \in AtOption \cup {"api"}
                          /\ Through(Command!After[o]) = Through(o) \cup {o}
  /\ \A p \in Serving : Through(p) = Through("api")
<1>1. /\ DOMAIN Command!After \ {"load"} = AtOption
      /\ Command!After["load"] = "expert_cache" /\ Command!After["expert_cache"] = "gpu_expert_cache"
      /\ Command!After["gpu_expert_cache"] = "gpu_kv_layers" /\ Command!After["gpu_kv_layers"] = "fast"
      /\ Command!After["fast"] = "cuda" /\ Command!After["cuda"] = "cpu_experts" /\ Command!After["cpu_experts"] = "api"
  BY DEF Command!After, AtOption
<1>2. Through("expert_cache") = {"ctx", "parallel"}
  BY DEF Through
<1>3. \A p \in Serving : Through(p) = Through("api")
  BY DEF Through, Serving
<1>4. ASSUME NEW o \in AtOption
      PROVE  Command!After[o] \in AtOption \cup {"api"} /\ Through(Command!After[o]) = Through(o) \cup {o}
  BY <1>1 DEF AtOption, Through
<1>. QED  BY <1>1, <1>2, <1>3, <1>4

LEMMA OpensFacts ==
  ASSUME NEW o \in AtOption
  PROVE  /\ Command!Opens(o) \subseteq {"stream", "gpu", "threads"}
         /\ "gpu" \in Command!Opens(o) <=> o = "cuda"
         /\ Command!Closes(o) \subseteq {"host_kv"}
         /\ "host_kv" \in Command!Closes(o) <=> o = "cuda"
BY DEF Command!Opens, Command!Closes, AtOption

LEMMA CommandNext ==
  ASSUME CommandInv, Command!Next
  PROVE  CommandInv'
<1>. USE DEF CommandInv, CommandTypes, Openable, Command!OfModel
<1>a. kind \in {"none", "bert", "bert, no WordPiece", "dense", "moe"}
  BY Assumptions DEF Command!ServeAssumption
<1>b. UNCHANGED <<asks, kind, gpu>> /\ (Command!Bert' <=> Command!Bert) /\ (Command!Refused' <=> Command!Refused)
  <2>1. UNCHANGED <<asks, kind, gpu>>
    BY DEF Command!Next, Command!Begin, Command!Tokenizer, Command!Encoder, Command!Load, Command!Option, Command!CreateApi,
       Command!Speculate, Command!Run, Command!FreeApi, Command!CloseModel, Command!Close
  <2>. QED  BY <2>1 DEF Command!Bert, Command!Refused, Command!RefusedAtOnce
<1>c. UNCHANGED <<rc, lost>> => LostOK'
  BY DEF LostOK
<1>1. CASE Command!Begin
  <2>1. CommandTypes' /\ KindOK'
    BY <1>1, <1>a, <1>b DEF Command!Begin, KindOK, OpenOK, AtOption
  <2>2. OpenOK' /\ TookOK'
    BY <1>1, <1>a, <1>b DEF Command!Begin, OpenOK, TookOK, AtOption, Serving, Command!Bert
  <2>. QED  BY <1>1, <1>c, <2>1, <2>2 DEF Command!Begin
<1>2. CASE Command!Tokenizer
  <2>1. CommandTypes' /\ KindOK'
    BY <1>2, <1>a, <1>b DEF Command!Tokenizer, KindOK, OpenOK, AtOption
  <2>2. OpenOK' /\ TookOK'
    BY <1>2, <1>a, <1>b DEF Command!Tokenizer, OpenOK, TookOK, AtOption, Serving
  <2>. QED  BY <1>2, <1>c, <2>1, <2>2 DEF Command!Tokenizer
<1>3. CASE Command!Encoder
  <2>1. CommandTypes' /\ KindOK'
    BY <1>3, <1>a, <1>b DEF Command!Encoder, KindOK, OpenOK, AtOption
  <2>2. OpenOK' /\ TookOK'
    BY <1>3, <1>a, <1>b DEF Command!Encoder, KindOK, OpenOK, TookOK, AtOption, Serving
  <2>. QED  BY <1>3, <1>c, <2>1, <2>2 DEF Command!Encoder
<1>4. CASE Command!Load
  <2>1. CommandTypes' /\ KindOK'
    BY <1>4, <1>a, <1>b, Order DEF Command!Load, KindOK, OpenOK, AtOption
  <2>2. OpenOK' /\ TookOK'
    BY <1>4, <1>a, <1>b, Order DEF Command!Load, KindOK, OpenOK, TookOK, AtOption, Serving, Through
  <2>. QED  BY <1>4, <1>c, <2>1, <2>2 DEF Command!Load
<1>5. CASE Command!Option
  <2>1. pc \in AtOption /\ pc # "runs" /\ UNCHANGED <<rc, lost>>
    BY <1>5, Order DEF Command!Option, AtOption
  <2>2. ~Command!Refused /\ kind # "none" /\ ~Command!Bert
    BY <2>1 DEF KindOK, AtOption
  <2>3. {"tokenizer", "files"} \subseteq held /\ "api" \notin held
    BY <2>1, <2>2 DEF OpenOK, AtOption
  <2>4. /\ asks \cap Through(pc) \subseteq took
        /\ "gpu" \in held <=> "cuda" \in took
        /\ "host_kv" \in held <=> "cuda" \notin took
    BY <2>1, <2>2 DEF TookOK
  <2>5. CASE pc' = "close" /\ held' = Command!Unloaded /\ UNCHANGED took
    <3>1. held' \subseteq {"tokenizer"}
      BY <2>2, <2>3, <2>5 DEF OpenOK, Command!Unloaded
    <3>2. CommandTypes' /\ KindOK'
      BY <1>b, <2>1, <2>2, <2>5, <3>1 DEF KindOK, AtOption
    <3>3. OpenOK' /\ TookOK'
      BY <2>5, <3>1 DEF OpenOK, TookOK, AtOption, Serving
    <3>. QED  BY <1>c, <2>1, <3>2, <3>3
  <2>6. ASSUME pc' = Command!After[pc],
               \/ pc \notin asks /\ UNCHANGED <<held, took>>
               \/ /\ pc \in asks /\ took' = took \cup {pc}
                  /\ held' = (held \cup Command!Opens(pc)) \ Command!Closes(pc)
        PROVE  CommandInv'
    <3>1. pc' \in AtOption \cup {"api"} /\ Through(pc') = Through(pc) \cup {pc}
      BY <2>1, <2>6, Order
    <3>2. /\ held' \subseteq Openable /\ took' \subseteq asks /\ {"tokenizer", "files"} \subseteq held'
          /\ "api" \notin held' /\ "encoder" \notin held'
      <4>1. "encoder" \notin held /\ pc # "api" /\ pc # "encoder"
        BY <2>1, <2>2 DEF OpenOK, AtOption
      <4>2. Command!Opens(pc) \subseteq {"stream", "gpu", "threads"} /\ Command!Closes(pc) \subseteq {"host_kv"}
        BY <2>1, OpensFacts
      <4>3. CASE pc \notin asks
        BY <2>3, <2>6, <4>1, <4>3
      <4>4. CASE pc \in asks
        BY <2>3, <2>6, <4>1, <4>2, <4>4
      <4>. QED  BY <4>3, <4>4
    <3>3. /\ asks \cap Through(pc') \subseteq took'
          /\ "gpu" \in held' <=> "cuda" \in took'
          /\ "host_kv" \in held' <=> "cuda" \notin took'
      <4>1. CASE pc \notin asks
        BY <2>4, <2>6, <3>1, <4>1
      <4>2. CASE pc \in asks
        <5>1. took' = took \cup {pc} /\ held' = (held \cup Command!Opens(pc)) \ Command!Closes(pc)
          BY <2>6, <4>2
        <5>2. asks \cap Through(pc') \subseteq took' /\ ("gpu" \in held' <=> "cuda" \in took')
          BY <2>1, <2>4, <3>1, <5>1, OpensFacts
        <5>3. "host_kv" \in held' <=> "cuda" \notin took'
          BY <2>1, <2>4, <5>1, OpensFacts
        <5>. QED  BY <5>2, <5>3
      <4>. QED  BY <4>1, <4>2
    <3>4. CommandTypes' /\ KindOK'
      BY <1>b, <2>1, <2>2, <3>1, <3>2 DEF KindOK, AtOption
    <3>5. OpenOK' /\ TookOK'
      BY <1>b, <2>2, <3>1, <3>2, <3>3 DEF OpenOK, TookOK, AtOption, Serving
    <3>. QED  BY <1>c, <2>1, <3>4, <3>5
  <2>. QED  BY <1>5, <2>1, <2>5, <2>6 DEF Command!Option
<1>6. CASE Command!CreateApi
  <2>1. CommandTypes' /\ KindOK'
    BY <1>6, <1>a, <1>b DEF Command!CreateApi, KindOK, OpenOK, AtOption
  <2>2. OpenOK' /\ TookOK'
    BY <1>6, <1>a, <1>b DEF Command!CreateApi, KindOK, OpenOK, TookOK, AtOption, Serving, Through
  <2>. QED  BY <1>6, <1>c, <2>1, <2>2 DEF Command!CreateApi
<1>7. CASE Command!Speculate
  <2>1. CommandTypes' /\ KindOK'
    BY <1>7, <1>a, <1>b DEF Command!Speculate, KindOK, OpenOK, AtOption
  <2>2. OpenOK' /\ TookOK'
    BY <1>7, <1>a, <1>b DEF Command!Speculate, KindOK, OpenOK, TookOK, AtOption, Serving, Through
  <2>. QED  BY <1>7, <1>c, <2>1, <2>2 DEF Command!Speculate
<1>8. CASE Command!Run
  <2>1. pc = "runs" /\ UNCHANGED <<held, took>> /\ pc' = IF "api" \in held THEN "free api" ELSE "ended"
    BY <1>8 DEF Command!Run
  <2>2. LostOK'
    <3>1. (lost' = FALSE /\ rc' \in {0, 1}) \/ (lost' = TRUE /\ rc' = 75)
      BY <1>8 DEF Command!Run, Command!EXIT_DEVICE_LOST
    <3>2. CASE lost' = FALSE /\ rc' \in {0, 1}
      <4>1. rc' # 75
        BY <3>2
      <4>. QED  BY <3>2, <4>1, Zenon DEF LostOK, Command!EXIT_DEVICE_LOST
    <3>3. CASE lost' = TRUE /\ rc' = 75
      BY <3>3, Zenon DEF LostOK, Command!EXIT_DEVICE_LOST
    <3>. QED  BY <3>1, <3>2, <3>3, Zenon
  <2>3. CommandTypes' /\ KindOK'
    BY <1>b, <2>1 DEF KindOK, OpenOK, AtOption
  <2>4. OpenOK' /\ TookOK'
    BY <1>a, <1>b, <2>1 DEF KindOK, OpenOK, TookOK, AtOption, Serving, Through
  <2>. QED  BY <2>2, <2>3, <2>4
<1>9. CASE Command!FreeApi
  <2>1. /\ pc = "free api" /\ pc' = "close model" /\ held' = held \ {"api"}
        /\ UNCHANGED <<took, rc, lost>>
    BY <1>9 DEF Command!FreeApi
  <2>2. CommandTypes' /\ KindOK'
    BY <1>b, <2>1 DEF KindOK, AtOption
  <2>3. OpenOK' /\ TookOK'
    BY <1>b, <2>1 DEF OpenOK, TookOK, AtOption, Serving
  <2>. QED  BY <1>c, <2>1, <2>2, <2>3
<1>10. CASE Command!CloseModel
  <2>1. /\ pc = "close model" /\ pc' = "close" /\ held' \subseteq held /\ held' \subseteq {"tokenizer"}
        /\ UNCHANGED <<took, rc, lost>>
    <3>1. "api" \notin held
      BY <1>10 DEF Command!CloseModel, OpenOK
    <3>. QED  BY <1>10, <3>1 DEF Command!CloseModel, Command!Unloaded
  <2>2. CommandTypes' /\ KindOK'
    BY <1>b, <2>1 DEF KindOK, AtOption
  <2>3. OpenOK' /\ TookOK'
    BY <1>b, <2>1 DEF OpenOK, TookOK, AtOption, Serving
  <2>. QED  BY <1>c, <2>1, <2>2, <2>3
<1>11. CASE Command!Close
  <2>1. pc' = "ended" /\ held' = {} /\ UNCHANGED <<took, rc, lost>>
    BY <1>11 DEF Command!Close, OpenOK
  <2>2. CommandTypes' /\ KindOK'
    BY <1>b, <2>1 DEF KindOK, AtOption
  <2>3. OpenOK' /\ TookOK'
    BY <1>b, <2>1 DEF OpenOK, TookOK, AtOption, Serving
  <2>. QED  BY <1>c, <2>1, <2>2, <2>3
<1>. QED  BY <1>1, <1>2, <1>3, <1>4, <1>5, <1>6, <1>7, <1>8, <1>9, <1>10, <1>11 DEF Command!Next

LEMMA CommandInit ==
  ASSUME Command!Init
  PROVE  CommandInv
<1>1. pc = "main" /\ held = {} /\ took = {} /\ lost = FALSE /\ rc = 1
  BY DEF Command!Init
<1>2. LostOK
  <2>1. rc # Command!EXIT_DEVICE_LOST
    BY <1>1 DEF Command!EXIT_DEVICE_LOST
  <2>. QED  BY <1>1, <2>1, Zenon DEF LostOK
<1>3. CommandTypes
  BY <1>1 DEF Command!Init, CommandTypes
<1>4. KindOK /\ OpenOK /\ TookOK
  BY <1>1 DEF KindOK, OpenOK, TookOK, AtOption, Serving
<1>. QED  BY <1>2, <1>3, <1>4 DEF CommandInv

-----------------------------------------------------------------------------
(* Sets of naturals, and what a loop makes of a value: as ReplyProofs has them. *)

LEMMA NatLeast ==
  ASSUME NEW S, S \subseteq Nat, S # {}
  PROVE  \E n \in S : \A m \in S : n <= m
BY Reply!NatLeast

LEMMA NatSet ==
  ASSUME NEW S, 0 \in S, \A n \in Nat : n \in S => n + 1 \in S
  PROVE  \A n \in Nat : n \in S
BY Reply!NatSet

LEMMA MinIn ==
  ASSUME NEW S, S \subseteq Nat, S # {}
  PROVE  Paged!Min(S) \in S /\ \A m \in S : Paged!Min(S) <= m
BY NatLeast DEF Paged!Min

\* What n steps make of p, if each step makes a member of S of one.
Chained(S, p, n, F) ==
  \E g \in [0 .. n -> S] : g[0] = p /\ \A k \in 1 .. n : g[k] = F[<<g[k - 1], k>>]

LEMMA Iterated ==
  ASSUME NEW S, NEW p \in S, NEW n \in Nat, NEW F \in [S \X (1 .. n) -> S]
  PROVE  Chained(S, p, n, F)
BY Reply!Iterated DEF Reply!Chained, Chained

-----------------------------------------------------------------------------
(* Sums over a finite set.  The sums of a function over the parts of a set     *)
(* exist and do not depend on the order in which they are made, so that a sum *)
(* changes by as much as one of its terms.                                    *)

Pick(s) == CHOOSE x \in s : TRUE

\* The sums of f over the parts of S are g.
Sums(g, f, S) == g = [s \in SUBSET S |-> IF s = {} THEN 0 ELSE f[Pick(s)] + g[s \ {Pick(s)}]]

LEMMA Picked ==
  ASSUME NEW S, IsFiniteSet(S), NEW s \in SUBSET S, s # {}
  PROVE  /\ Pick(s) \in s /\ s \ {Pick(s)} \in SUBSET S
         /\ \A x \in s : Cardinality(s \ {x}) = Cardinality(s) - 1
         /\ Cardinality(s) \in Nat
<1>1. IsFiniteSet(s)
  BY FS_Subset
<1>2. \E x : x \in s
  OBVIOUS
<1>3. Pick(s) \in s
  BY <1>2, Zenon DEF Pick
<1>. QED  BY <1>1, <1>3, FS_RemoveElement, FS_CardinalityType

LEMMA SumsExist ==
  ASSUME NEW f, NEW S, IsFiniteSet(S)
  PROVE  \E g : Sums(g, f, S)
<1>. DEFINE UpTo(n) == {s \in SUBSET S : Cardinality(s) <= n}
            Term(g, s) == IF s = {} THEN 0 ELSE f[Pick(s)] + g[s \ {Pick(s)}]
            Has(n) == \E g : g = [s \in UpTo(n) |-> Term(g, s)]
            Ns == {n \in Nat : Has(n)}
<1>1. 0 \in Ns
  <2>1. ASSUME NEW s \in UpTo(0) PROVE s = {}
    <3>1. IsFiniteSet(s) /\ Cardinality(s) \in Nat /\ Cardinality(s) <= 0
      BY FS_Subset, FS_CardinalityType
    <3>. QED  BY <3>1, FS_EmptySet
  <2>. DEFINE g == [s \in UpTo(0) |-> 0]
  <2>2. g = [s \in UpTo(0) |-> Term(g, s)]
    BY <2>1
  <2>. HIDE DEF g
  <2>. QED  BY <2>2
<1>2. ASSUME NEW n \in Nat, n \in Ns PROVE n + 1 \in Ns
  <2>1. PICK g : g = [s \in UpTo(n) |-> Term(g, s)]
    BY <1>2
  <2>. DEFINE h == [s \in UpTo(n + 1) |-> Term(g, s)]
  <2>2. ASSUME NEW s \in UpTo(n + 1) PROVE h[s] = Term(h, s)
    <3>1. CASE s = {}
      BY <3>1
    <3>2. CASE s # {}
      <4>. DEFINE t == s \ {Pick(s)}
      <4>1. t \in UpTo(n) /\ t \in UpTo(n + 1)
        <5>1. Cardinality(t) = Cardinality(s) - 1 /\ Cardinality(s) \in Nat /\ t \in SUBSET S
          BY <3>2, Picked
        <5>. HIDE DEF t
        <5>. QED  BY <5>1
      <4>2. g[t] = Term(g, t) /\ h[t] = Term(g, t)
        <5>1. g[t] = [q \in UpTo(n) |-> Term(g, q)][t]
          BY <2>1
        <5>. HIDE DEF t, Term, UpTo
        <5>. QED  BY <4>1, <5>1
      <4>. HIDE DEF UpTo
      <4>3. h[s] = f[Pick(s)] + g[t]
        BY <3>2
      <4>4. Term(h, s) = f[Pick(s)] + h[t]
        BY <3>2
      <4>. QED  BY <4>2, <4>3, <4>4
    <3>. QED  BY <3>1, <3>2
  <2>3. h = [s \in UpTo(n + 1) |-> Term(h, s)]
    <3>1. h = [s \in UpTo(n + 1) |-> h[s]]
      OBVIOUS
    <3>. HIDE DEF h, UpTo, Term
    <3>. QED  BY <2>2, <3>1
  <2>4. Has(n + 1)
    <3>. HIDE DEF h
    <3>. QED  BY <2>3
  <2>. HIDE DEF Has
  <2>. QED  BY <2>4
<1>3. Cardinality(S) \in Nat /\ Cardinality(S) \in Ns
  <2>. HIDE DEF Ns
  <2>. QED  BY <1>1, <1>2, NatSet, FS_CardinalityType
<1>4. SUBSET S = UpTo(Cardinality(S))
  BY FS_Subset
<1>5. PICK g : g = [s \in UpTo(Cardinality(S)) |-> Term(g, s)]
  BY <1>3
<1>6. Sums(g, f, S)
  <2>. HIDE DEF UpTo
  <2>. QED  BY <1>4, <1>5 DEF Sums
<1>. QED  BY <1>6

LEMMA SumsOf ==
  ASSUME NEW S, IsFiniteSet(S), NEW f \in [S -> Nat], NEW g, Sums(g, f, S)
  PROVE  \A s \in SUBSET S : g[s] \in Nat /\ \A x \in s : g[s] = f[x] + g[s \ {x}]
<1>. DEFINE Good(s) == g[s] \in Nat /\ \A x \in s : g[s] = f[x] + g[s \ {x}]
            Ns == {n \in Nat : \A s \in SUBSET S : Cardinality(s) <= n => Good(s)}
<1>1. /\ g[{}] = 0
      /\ \A s \in SUBSET S : s # {} => g[s] = f[Pick(s)] + g[s \ {Pick(s)}]
  <2>1. \A s \in SUBSET S : g[s] = IF s = {} THEN 0 ELSE f[Pick(s)] + g[s \ {Pick(s)}]
    BY Zenon DEF Sums
  <2>. QED  BY <2>1
<1>2. Good({})
  BY <1>1
<1>3. 0 \in Ns
  <2>1. ASSUME NEW s \in SUBSET S, Cardinality(s) <= 0 PROVE s = {}
    <3>1. IsFiniteSet(s) /\ Cardinality(s) = 0
      BY <2>1, FS_Subset, FS_CardinalityType
    <3>. QED  BY <3>1, FS_EmptySet
  <2>. HIDE DEF Good
  <2>. QED  BY <1>2, <2>1
<1>4. ASSUME NEW n \in Nat, n \in Ns PROVE n + 1 \in Ns
  <2>1. SUFFICES ASSUME NEW s \in SUBSET S, Cardinality(s) <= n + 1, s # {} PROVE Good(s)
    <3>. HIDE DEF Good
    <3>. QED  BY <1>2
  <2>. DEFINE y == Pick(s)
  <2>2. y \in s /\ \A x \in s : s \ {x} \in SUBSET S /\ Cardinality(s \ {x}) <= n
    BY <2>1, Picked
  <2>3. g[s] = f[y] + g[s \ {y}]
    BY <1>1, <2>1
  <2>. HIDE DEF y
  <2>4. ASSUME NEW x \in s PROVE Good(s \ {x}) /\ g[s \ {x}] \in Nat /\ f[x] \in Nat
    <3>1. Good(s \ {x})
      <4>. HIDE DEF Good
      <4>. QED  BY <1>4, <2>2
    <3>. QED  BY <3>1
  <2>5. ASSUME NEW x \in s PROVE g[s] = f[x] + g[s \ {x}]
    <3>1. CASE x = y
      BY <2>3, <3>1
    <3>2. CASE x # y
      <4>1. x \in s \ {y} /\ y \in s \ {x} /\ (s \ {y}) \ {x} = (s \ {x}) \ {y}
        BY <2>2, <3>2
      <4>. DEFINE t == (s \ {x}) \ {y}
      <4>2. g[t] \in Nat
        <5>1. IsFiniteSet(s \ {x}) /\ Cardinality(t) <= Cardinality(s \ {x}) /\ t \in SUBSET S
          BY FS_Subset
        <5>2. Cardinality(t) \in Nat /\ Cardinality(s \ {x}) \in Nat
          BY <5>1, FS_Subset, FS_CardinalityType
        <5>3. Cardinality(t) <= n
          BY <2>2, <5>1, <5>2
        <5>4. Good(t)
          <6>. HIDE DEF Good, t
          <6>. QED  BY <1>4, <5>1, <5>3
        <5>. QED  BY <5>4
      <4>3. g[s \ {y}] = f[x] + g[t] /\ g[s \ {x}] = f[y] + g[t]
        BY <2>2, <2>4, <4>1
      <4>. HIDE DEF t
      <4>. QED  BY <2>2, <2>3, <2>4, <4>2, <4>3
    <3>. QED  BY <3>1, <3>2
  <2>6. g[s] \in Nat
    <3>1. y \in s /\ f[y] \in Nat /\ g[s \ {y}] \in Nat
      BY <2>2, <2>4
    <3>. QED  BY <2>3, <3>1
  <2>. QED  BY <2>5, <2>6
<1>5. \A n \in Nat : n \in Ns
  <2>. HIDE DEF Ns
  <2>. QED  BY <1>3, <1>4, NatSet
<1>6. ASSUME NEW s \in SUBSET S PROVE Good(s)
  <2>1. Cardinality(s) \in Nat /\ Cardinality(s) <= Cardinality(s)
    BY FS_Subset, FS_CardinalityType
  <2>. HIDE DEF Good
  <2>. QED  BY <1>5, <2>1
<1>. QED  BY <1>6

LEMMA SumsAgree ==
  ASSUME NEW S, IsFiniteSet(S), NEW f, NEW g, Sums(g, f, S), NEW e, NEW h, Sums(h, e, S),
         NEW t \in SUBSET S, \A x \in t : f[x] = e[x]
  PROVE  g[t] = h[t]
<1>. DEFINE Ns == {n \in Nat : \A s \in SUBSET t : Cardinality(s) <= n => g[s] = h[s]}
<1>1. ASSUME NEW s \in SUBSET S
      PROVE  /\ g[s] = IF s = {} THEN 0 ELSE f[Pick(s)] + g[s \ {Pick(s)}]
             /\ h[s] = IF s = {} THEN 0 ELSE e[Pick(s)] + h[s \ {Pick(s)}]
  BY Zenon DEF Sums
<1>2. g[{}] = h[{}]
  BY <1>1
<1>3. 0 \in Ns
  <2>1. ASSUME NEW s \in SUBSET t, Cardinality(s) <= 0 PROVE s = {}
    <3>1. IsFiniteSet(s) /\ Cardinality(s) = 0
      BY <2>1, FS_Subset, FS_CardinalityType
    <3>. QED  BY <3>1, FS_EmptySet
  <2>. QED  BY <1>2, <2>1
<1>4. ASSUME NEW n \in Nat, n \in Ns PROVE n + 1 \in Ns
  <2>1. SUFFICES ASSUME NEW s \in SUBSET t, Cardinality(s) <= n + 1, s # {} PROVE g[s] = h[s]
    BY <1>2
  <2>2. s \in SUBSET S
    OBVIOUS
  <2>3. Pick(s) \in s /\ s \ {Pick(s)} \in SUBSET t /\ Cardinality(s \ {Pick(s)}) <= n
    BY <2>1, <2>2, Picked
  <2>4. g[s \ {Pick(s)}] = h[s \ {Pick(s)}] /\ f[Pick(s)] = e[Pick(s)]
    BY <1>4, <2>3
  <2>. QED  BY <1>1, <2>1, <2>2, <2>4
<1>5. \A n \in Nat : n \in Ns
  <2>. HIDE DEF Ns
  <2>. QED  BY <1>3, <1>4, NatSet
<1>6. Cardinality(t) \in Nat /\ Cardinality(t) <= Cardinality(t)
  BY FS_Subset, FS_CardinalityType
<1>. QED  BY <1>5, <1>6

\* The model's sums are such sums.
LEMMA SumIs ==
  ASSUME NEW S, IsFiniteSet(S), NEW f, DOMAIN f = S
  PROVE  \E g : Sums(g, f, S) /\ Installer!SumFunction(f) = g[S]
<1>1. Sums(CHOOSE g : Sums(g, f, S), f, S)
  BY SumsExist
<1>2. Installer!SumFunction(f) = (CHOOSE g : Sums(g, f, S))[S]
  BY DEF Installer!SumFunction, Installer!SumFunctionOnSet, Installer!FoldFunctionOnSet, Installer!MapThenFoldSet, Sums, Pick
<1>. QED  BY <1>1, <1>2

LEMMA SumNat ==
  ASSUME NEW S, IsFiniteSet(S), NEW f \in [S -> Nat]
  PROVE  Installer!SumFunction(f) \in Nat /\ \A x \in S : f[x] <= Installer!SumFunction(f)
<1>1. PICK g : Sums(g, f, S) /\ Installer!SumFunction(f) = g[S]
  BY SumIs
<1>2. \A s \in SUBSET S : g[s] \in Nat /\ \A x \in s : g[s] = f[x] + g[s \ {x}]
  BY <1>1, SumsOf
<1>3. ASSUME NEW x \in S PROVE f[x] <= g[S]
  <2>1. g[S] = f[x] + g[S \ {x}] /\ g[S \ {x}] \in Nat /\ f[x] \in Nat
    BY <1>2
  <2>. QED  BY <2>1
<1>. QED  BY <1>1, <1>2, <1>3

\* What a sum is of: any one of what is added, and the rest.
Adds(g, f, S) == \A s \in SUBSET S : g[s] \in Nat /\ \A x \in s : g[s] = f[x] + g[s \ {x}]

LEMMA SumsAdd ==
  ASSUME NEW S, IsFiniteSet(S), NEW f \in [S -> Nat], NEW g, Sums(g, f, S)
  PROVE  Adds(g, f, S)
<1>1. \A s \in SUBSET S : g[s] \in Nat /\ \A x \in s : g[s] = f[x] + g[s \ {x}]
  BY SumsOf
<1>. QED  BY <1>1, Zenon DEF Adds

LEMMA SumChanges ==
  ASSUME NEW S, IsFiniteSet(S), NEW f \in [S -> Nat], NEW e \in [S -> Nat],
         NEW x \in S, \A y \in S \ {x} : f[y] = e[y]
  PROVE  Installer!SumFunction(e) + f[x] = Installer!SumFunction(f) + e[x]
<1>1. PICK g : Sums(g, f, S) /\ Installer!SumFunction(f) = g[S]
  BY SumIs
<1>2. PICK h : Sums(h, e, S) /\ Installer!SumFunction(e) = h[S]
  BY SumIs
<1>3. g[S \ {x}] = h[S \ {x}]
  BY <1>1, <1>2, SumsAgree
<1>4. g[S] = f[x] + g[S \ {x}] /\ h[S] = e[x] + h[S \ {x}] /\ g[S \ {x}] \in Nat
  <2>1. S \in SUBSET S /\ S \ {x} \in SUBSET S
    OBVIOUS
  <2>2. Adds(g, f, S)
    BY <1>1, SumsAdd
  <2>3. Adds(h, e, S)
    BY <1>2, SumsAdd
  <2>4. g[S] = f[x] + g[S \ {x}] /\ g[S \ {x}] \in Nat
    BY <2>1, <2>2, Zenon DEF Adds
  <2>5. h[S] = e[x] + h[S \ {x}]
    BY <2>1, <2>3, Zenon DEF Adds
  <2>. QED  BY <2>4, <2>5
<1>5. f[x] \in Nat /\ e[x] \in Nat
  OBVIOUS
<1>6. /\ Installer!SumFunction(f) = f[x] + g[S \ {x}]
      /\ Installer!SumFunction(e) = e[x] + g[S \ {x}] /\ g[S \ {x}] \in Nat
  <2>1. Installer!SumFunction(f) = f[x] + g[S \ {x}]
    BY <1>1, <1>4
  <2>2. Installer!SumFunction(e) = e[x] + h[S \ {x}]
    BY <1>2, <1>4
  <2>. QED  BY <1>3, <1>4, <2>1, <2>2
<1>. DEFINE r == g[S \ {x}]
            F == Installer!SumFunction(f)
            E == Installer!SumFunction(e)
            a == f[x]
            b == e[x]
<1>7. F = a + r /\ E = b + r /\ r \in Nat /\ a \in Nat /\ b \in Nat
  BY <1>5, <1>6
<1>. HIDE DEF r, F, E, a, b
<1>8. E + a = F + b
  BY <1>7
<1>. QED  BY <1>8 DEF F, E, a, b

LEMMA SumZero ==
  ASSUME NEW S, IsFiniteSet(S)
  PROVE  Installer!SumFunction([x \in S |-> 0]) = 0
<1>. DEFINE f == [x \in S |-> 0]
            h == [s \in SUBSET S |-> 0]
<1>1. PICK g : Sums(g, f, S) /\ Installer!SumFunction(f) = g[S]
  <2>1. DOMAIN f = S
    OBVIOUS
  <2>. HIDE DEF f
  <2>. QED  BY <2>1, SumIs
<1>2. Sums(h, f, S)
  <2>1. ASSUME NEW s \in SUBSET S
        PROVE  h[s] = IF s = {} THEN 0 ELSE f[Pick(s)] + h[s \ {Pick(s)}]
    BY Picked
  <2>. QED  BY <2>1 DEF Sums
<1>3. g[S] = h[S]
  <2>. HIDE DEF f, h
  <2>. QED  BY <1>1, <1>2, SumsAgree
<1>. QED  BY <1>1, <1>3

-----------------------------------------------------------------------------
(* The installer.  The release a run is of does not change, the engine that   *)
(* is moved into place has been checked against it, and the files of the plan *)
(* are left alone once they have been.  What is still to fetch of the plan    *)
(* has its room, beside the margin, and keeps it whatever happens to a file:  *)
(* what a file has more of is no longer to fetch.  So there is room for the   *)
(* engine of another release, and the plan is still one that fits.            *)

WholeEngine(r) == [of |-> r.engine, size |-> r.size]

Having == {"fetch", "verify", "remove", "script", "chmod", "serve"}
Checked == {"plan"} \cup Having

PinnedOK ==
  /\ release \in Releases
  /\ engine = Installer!NoFile \/ \E r \in Releases : engine = WholeEngine(r)
  /\ pc = "move" => part = WholeEngine(release)
  /\ pc \in Checked => engine = WholeEngine(release) /\ part = Installer!NoFile
  /\ pc \in {"script", "chmod", "serve"} => Installer!vitna_verify = {}

Sized(fs) == DOMAIN fs = Installer!Paths /\ \A p \in Installer!Paths : fs[p].size \in Nat

DiskTypes == machine \in Machines /\ Sized(files) /\ part.size \in Nat

\* The bytes of files like fs, and those that a model's are short of.
PlacedIn(fs) == Installer!SumFunction([p \in Installer!Paths |-> fs[p].size])
Short(fs, f) == IF fs[f.path].size > f.size THEN f.size ELSE f.size - fs[f.path].size
ShortIn(fs, m) == Installer!SumFunction([k \in DOMAIN m.files |-> Short(fs, m.files[k])])

\* The engine in place, of any release, may be replaced by that of any.
RoomOK == \A r, s \in Releases : PlacedIn(files) + r.size + s.size <= machine.drive

\* What the machine has of what a model needs, the drive apart.
Suits(m) ==
  /\ m.cuda => machine.cuda_built /\ machine.gpus # <<>> /\ Installer!largest_gpu >= m.gpu
  /\ machine.memory >= m.memory

AskedOf(r, w) == {k \in DOMAIN r.models : w \in {Installer!Anything, r.models[k].id}}
Eligible(r, w) == {k \in AskedOf(r, w) : w # Installer!Anything => k = Installer!Min(AskedOf(r, w))}

\* The last plan was of r's model n, which would still fit.
Fits(r, n) ==
  /\ r.engine = before.release /\ r.models[n].id = before.id /\ n \in Eligible(r, before.wish)
  /\ Suits(r.models[n])
  /\ PlacedIn(files) + r.size + ShortIn(files, r.models[n]) + DISK_MARGIN <= machine.drive
  /\ pc \in Having => release = r /\ plan.files = r.models[n].files

FitsOK == before.id # "none" \/ pc \in Having => \E r \in Releases : \E n \in DOMAIN r.models : Fits(r, n)

\* Which file is next, and which are to be removed.
NextOK ==
  /\ pc \in {"engine", "check", "move", "plan"} => nth = 1 /\ round = 1
  /\ pc \in {"verify", "remove"} => nth = 1
  /\ pc = "fetch" => nth \in DOMAIN plan.files
  /\ pc = "remove" => \A p \in bad : \E k \in DOMAIN plan.files : p = plan.files[k].path

Right(fs, f) == fs[f.path] = [of |-> f.sha, size |-> f.size]
Gone(fs, f) == fs[f.path].size = 0

\* If nothing outside has failed, every file is right after the second round.
CleanOK ==
  ~fault =>
    /\ pc # "died"
    /\ pc = "check" => part = WholeEngine(release)
    /\ pc = "fetch" /\ round = 2 => \A k \in DOMAIN plan.files : Right(files, plan.files[k]) \/ (k >= nth /\ Gone(files, plan.files[k]))
    /\ pc = "verify" /\ round = 2 => \A k \in DOMAIN plan.files : Right(files, plan.files[k])
    /\ pc = "remove" => \A k \in DOMAIN plan.files : Right(files, plan.files[k]) \/ Gone(files, plan.files[k]) \/ plan.files[k].path \in bad

InstallerInv == PinnedOK /\ DiskTypes /\ RoomOK /\ FitsOK /\ NextOK /\ CleanOK

LEMMA OfRelease ==
  ASSUME NEW r \in Releases
  PROVE  /\ r.size \in Nat /\ DISK_MARGIN \in Nat /\ IsFiniteSet(Installer!Paths)
         /\ DOMAIN r.models \subseteq Nat
         /\ \A n \in DOMAIN r.models : r.models[n] \in Installer!Models
         /\ \A s \in Releases : /\ s.size \in Nat /\ (r.engine = s.engine => r = s)
                                /\ \A m \in Machines : m.drive \in Nat /\ r.size + s.size <= m.drive
                                /\ \A t \in Releases : r.size + s.size <= t.size + DISK_MARGIN
<1>1. IsFiniteSet(Installer!Paths)
  BY Assumptions, Zenon DEF Installer!InstallAssumption, Installer!IsFiniteSet, IsFiniteSet
<1>2. r.models \in Seq(Installer!Range(r.models)) /\ r.size \in Nat
  BY Assumptions DEF Installer!InstallAssumption
<1>3. DOMAIN r.models \subseteq Nat
  BY <1>2
<1>4. \A n \in DOMAIN r.models : r.models[n] \in Installer!Models
  BY DEF Installer!Models, Installer!Range
<1>. QED  BY <1>1, <1>2, <1>3, <1>4, Assumptions DEF Installer!InstallAssumption

LEMMA OfModel ==
  ASSUME NEW m \in Installer!Models
  PROVE  /\ m.files = [k \in 1 .. Len(m.files) |-> m.files[k]] /\ Len(m.files) \in Nat \ {0}
         /\ DOMAIN m.files = 1 .. Len(m.files) /\ IsFiniteSet(DOMAIN m.files)
         /\ \A k \in DOMAIN m.files : /\ m.files[k].size \in Nat \ {0} /\ m.files[k].path \in Installer!Paths
                                      /\ \A l \in DOMAIN m.files : m.files[k].path = m.files[l].path => k = l
<1>1. m.files \in Seq(Installer!Range(m.files)) /\ m.files # <<>>
  BY Assumptions DEF Installer!InstallAssumption
<1>2. Len(m.files) \in Nat /\ DOMAIN m.files = 1 .. Len(m.files) /\ m.files = [k \in 1 .. Len(m.files) |-> m.files[k]]
  BY <1>1
<1>3. Len(m.files) # 0
  BY <1>1
<1>4. IsFiniteSet(DOMAIN m.files)
  <2>1. 1 \in Int /\ Len(m.files) \in Int
    BY <1>2
  <2>2. IsFiniteSet(1 .. Len(m.files))
    BY <2>1, FS_Interval
  <2>. QED  BY <1>2, <2>2
<1>5. \A k \in DOMAIN m.files : m.files[k].path \in Installer!Paths
  BY DEF Installer!Paths
<1>. QED  BY <1>2, <1>3, <1>4, <1>5, Assumptions DEF Installer!InstallAssumption

\* The model's sums, of the files as they are.
LEMMA AsSummed ==
  /\ Installer!Used = PlacedIn(files) + engine.size + part.size
  /\ \A m \in Installer!Models : Installer!Fetch(m) = ShortIn(files, m)
  /\ \A m : Installer!meets(m) <=> Suits(m) /\ Installer!disk_free >= Installer!Fetch(m) + DISK_MARGIN
<1>1. Installer!Used = PlacedIn(files) + engine.size + part.size
  BY DEF Installer!Used, PlacedIn
<1>2. ASSUME NEW m \in Installer!Models PROVE Installer!Fetch(m) = ShortIn(files, m)
  BY DEF Installer!Fetch, ShortIn, Short, Installer!still_to_fetch
<1>3. \A m : Installer!meets(m) <=> Suits(m) /\ Installer!disk_free >= Installer!Fetch(m) + DISK_MARGIN
  BY DEF Installer!meets, Suits
<1>. QED  BY <1>1, <1>2, <1>3

LEMMA Summed ==
  ASSUME NEW fs, Sized(fs), NEW m \in Installer!Models
  PROVE  /\ [p \in Installer!Paths |-> fs[p].size] \in [Installer!Paths -> Nat]
         /\ [k \in DOMAIN m.files |-> Short(fs, m.files[k])] \in [DOMAIN m.files -> Nat]
         /\ PlacedIn(fs) \in Nat /\ ShortIn(fs, m) \in Nat
         /\ \A k \in DOMAIN m.files : Short(fs, m.files[k]) \in Nat /\ Short(fs, m.files[k]) <= ShortIn(fs, m)
<1>1. IsFiniteSet(Installer!Paths)
  BY Assumptions, Zenon DEF Installer!InstallAssumption, Installer!IsFiniteSet, IsFiniteSet
<1>2. [p \in Installer!Paths |-> fs[p].size] \in [Installer!Paths -> Nat]
  BY DEF Sized
<1>3. ASSUME NEW k \in DOMAIN m.files PROVE Short(fs, m.files[k]) \in Nat
  <2>1. m.files[k].size \in Nat /\ fs[m.files[k].path].size \in Nat
    BY OfModel DEF Sized
  <2>. QED  BY <2>1 DEF Short
<1>. DEFINE g == [k \in DOMAIN m.files |-> Short(fs, m.files[k])]
<1>4. g \in [DOMAIN m.files -> Nat]
  BY <1>3
<1>5. PlacedIn(fs) \in Nat
  <2>1. Installer!SumFunction([p \in Installer!Paths |-> fs[p].size]) \in Nat
    BY <1>1, <1>2, SumNat
  <2>. QED  BY <2>1 DEF PlacedIn
<1>6. ShortIn(fs, m) \in Nat /\ \A k \in DOMAIN m.files : g[k] <= ShortIn(fs, m)
  <2>1. ShortIn(fs, m) = Installer!SumFunction(g)
    BY DEF ShortIn
  <2>2. IsFiniteSet(DOMAIN m.files)
    BY OfModel
  <2>. HIDE DEF g
  <2>3. Installer!SumFunction(g) \in Nat /\ \A k \in DOMAIN m.files : g[k] <= Installer!SumFunction(g)
    BY <1>4, <2>2, SumNat
  <2>. QED  BY <2>1, <2>3
<1>. QED  BY <1>2, <1>3, <1>4, <1>5, <1>6

\* What becomes of one of the model's files, no longer than it should be, takes
\* no more room than there was for it.
LEMMA Spends ==
  ASSUME NEW fs, Sized(fs), NEW m \in Installer!Models, NEW k \in DOMAIN m.files,
         NEW v, v.size \in Nat, v.size <= m.files[k].size, NEW gs, gs = [fs EXCEPT ![m.files[k].path] = v]
  PROVE  Sized(gs) /\ PlacedIn(gs) + ShortIn(gs, m) <= PlacedIn(fs) + ShortIn(fs, m)
<1>. DEFINE p == m.files[k].path
            f == [q \in Installer!Paths |-> fs[q].size]
            e == [q \in Installer!Paths |-> gs[q].size]
            a == [l \in DOMAIN m.files |-> Short(fs, m.files[l])]
            b == [l \in DOMAIN m.files |-> Short(gs, m.files[l])]
<1>1. p \in Installer!Paths /\ m.files[k].size \in Nat /\ IsFiniteSet(DOMAIN m.files) /\ IsFiniteSet(Installer!Paths)
  BY OfModel, Assumptions, Zenon DEF Installer!InstallAssumption, Installer!IsFiniteSet, IsFiniteSet
<1>2. DOMAIN gs = Installer!Paths /\ gs[p] = v /\ \A q \in Installer!Paths \ {p} : gs[q] = fs[q]
  BY <1>1 DEF Sized
<1>3. Sized(gs)
  BY <1>2 DEF Sized
<1>4. f \in [Installer!Paths -> Nat] /\ e \in [Installer!Paths -> Nat] /\ a \in [DOMAIN m.files -> Nat] /\ b \in [DOMAIN m.files -> Nat]
  BY <1>3, Summed
<1>5. PlacedIn(gs) + f[p] = PlacedIn(fs) + e[p]
  <2>1. \A q \in Installer!Paths \ {p} : f[q] = e[q]
    BY <1>2
  <2>2. PlacedIn(fs) = Installer!SumFunction(f) /\ PlacedIn(gs) = Installer!SumFunction(e)
    BY DEF PlacedIn
  <2>. HIDE DEF f, e, p
  <2>. QED  BY <1>1, <1>4, <2>1, <2>2, SumChanges
<1>6. ShortIn(gs, m) + a[k] = ShortIn(fs, m) + b[k]
  <2>1. ASSUME NEW l \in DOMAIN m.files \ {k} PROVE a[l] = b[l]
    <3>1. m.files[l].path \in Installer!Paths \ {p}
      BY OfModel
    <3>. QED  BY <1>2, <3>1 DEF Short
  <2>2. ShortIn(fs, m) = Installer!SumFunction(a) /\ ShortIn(gs, m) = Installer!SumFunction(b)
    BY DEF ShortIn
  <2>. HIDE DEF a, b
  <2>. QED  BY <1>1, <1>4, <2>1, <2>2, SumChanges
<1>7. f[p] = fs[p].size /\ e[p] = v.size /\ fs[p].size \in Nat
  BY <1>1, <1>2 DEF Sized
<1>8. /\ a[k] = IF fs[p].size > m.files[k].size THEN m.files[k].size ELSE m.files[k].size - fs[p].size
      /\ b[k] = m.files[k].size - v.size
  BY <1>1, <1>2 DEF Short
<1>9. /\ PlacedIn(fs) \in Nat /\ PlacedIn(gs) \in Nat /\ ShortIn(fs, m) \in Nat /\ ShortIn(gs, m) \in Nat
  BY <1>3, Summed
<1>. HIDE DEF f, e, a, b, p
<1>10. CASE fs[p].size > m.files[k].size
  <2>1. a[k] = m.files[k].size
    BY <1>8, <1>10
  <2>. QED  BY <1>1, <1>3, <1>5, <1>6, <1>7, <1>8, <1>9, <2>1
<1>11. CASE ~(fs[p].size > m.files[k].size)
  <2>1. a[k] = m.files[k].size - fs[p].size
    BY <1>8, <1>11
  <2>. QED  BY <1>1, <1>3, <1>5, <1>6, <1>7, <1>8, <1>9, <2>1
<1>. QED  BY <1>10, <1>11

LEMMA FirstIn ==
  ASSUME NEW S, S \subseteq Nat, S # {}
  PROVE  Installer!Min(S) \in S /\ \A m \in S : Installer!Min(S) <= m
BY NatLeast DEF Installer!Min

\* A plan is of an eligible model that fits, and of none after one that does.
LEMMA Plans ==
  ASSUME NEW r \in Releases, NEW w
  PROVE  LET p == Installer!vitna_plan(r.models, w)
         IN  /\ p # Installer!NoModel => \E n \in Eligible(r, w) :
                  p.id = r.models[n].id /\ p.files = r.models[n].files /\ Installer!meets(r.models[n])
             /\ \A n \in Eligible(r, w) : Installer!meets(r.models[n]) =>
                  \E k \in Eligible(r, w) : k <= n /\ p.id = r.models[k].id
<1>. DEFINE A == AskedOf(r, w)
            F == {n \in Eligible(r, w) : Installer!meets(r.models[n])}
            first == IF w = Installer!Anything THEN {k \in A : Installer!meets(r.models[k])}
                     ELSE {k \in {Installer!Min(A)} : Installer!meets(r.models[k])}
            p == Installer!vitna_plan(r.models, w)
            m == r.models[Installer!Min(F)]
            q == [id |-> m.id, files |-> m.files,
                  ctx |-> Installer!Afforded(m.ctx, 4096), cache |-> Installer!Afforded(m.cache, 0)]
<1>1. A \subseteq Nat /\ A \subseteq DOMAIN r.models
  BY OfRelease DEF AskedOf
<1>2. p = IF A = {} \/ first = {} THEN Installer!NoModel
          ELSE LET o == r.models[Installer!Min(first)]
               IN  [id |-> o.id, files |-> o.files,
                    ctx |-> Installer!Afforded(o.ctx, 4096), cache |-> Installer!Afforded(o.cache, 0)]
  BY DEF Installer!vitna_plan, AskedOf
<1>3. A # {} => first = F
  <2>1. CASE w = Installer!Anything
    BY <2>1 DEF Eligible
  <2>2. CASE w # Installer!Anything /\ A # {}
    <3>1. Installer!Min(A) \in A
      BY <1>1, <2>2, FirstIn
    <3>. QED  BY <2>2, <3>1 DEF Eligible
  <2>. QED  BY <2>1, <2>2
<1>4. A = {} => F = {}
  BY DEF Eligible
<1>5. p = IF F = {} THEN Installer!NoModel ELSE q
  <2>. HIDE DEF A, F, first, p
  <2>. QED  BY <1>2, <1>3, <1>4
<1>6. F \subseteq Nat
  BY <1>1 DEF Eligible
<1>7. F # {} => /\ Installer!Min(F) \in F /\ \A n \in F : Installer!Min(F) <= n
                /\ p.id = m.id /\ p.files = m.files
  <2>1. q.id = m.id /\ q.files = m.files
    OBVIOUS
  <2>. HIDE DEF F, p, q, m
  <2>. QED  BY <1>5, <1>6, <2>1, FirstIn
<1>8. p # Installer!NoModel => F # {}
  <2>. HIDE DEF F, p, q
  <2>. QED  BY <1>5
<1>. HIDE DEF p
<1>9. ASSUME p # Installer!NoModel
      PROVE  \E n \in Eligible(r, w) : p.id = r.models[n].id /\ p.files = r.models[n].files /\ Installer!meets(r.models[n])
  BY <1>7, <1>8, <1>9
<1>10. ASSUME NEW n \in Eligible(r, w), Installer!meets(r.models[n])
       PROVE  \E k \in Eligible(r, w) : k <= n /\ p.id = r.models[k].id
  BY <1>7, <1>10
<1>. QED  BY <1>9, <1>10 DEF p

\* The drive's room, as the plan's conditions have it.
LEMMA Room ==
  ASSUME InstallerInv
  PROVE  /\ machine.drive \in Nat /\ PlacedIn(files) \in Nat /\ engine.size \in Nat /\ part.size \in Nat
         /\ Installer!disk_free = machine.drive - (PlacedIn(files) + engine.size + part.size)
         /\ Installer!disk_free + part.size >= release.size
         /\ pc \in Checked => Installer!disk_free = machine.drive - (PlacedIn(files) + release.size)
<1>1. machine.drive \in Nat /\ part.size \in Nat
  BY Assumptions DEF InstallerInv, DiskTypes, Installer!InstallAssumption
<1>2. release \in Releases /\ release.size \in Nat
  BY OfRelease DEF InstallerInv, PinnedOK
<1>3. PlacedIn(files) \in Nat
  <2>1. IsFiniteSet(Installer!Paths)
    BY <1>2, OfRelease
  <2>2. [p \in Installer!Paths |-> files[p].size] \in [Installer!Paths -> Nat]
    BY DEF InstallerInv, DiskTypes, Sized
  <2>3. Installer!SumFunction([p \in Installer!Paths |-> files[p].size]) \in Nat
    BY <2>1, <2>2, SumNat
  <2>. QED  BY <2>3 DEF PlacedIn
<1>4. \E r \in Releases : engine.size \in Nat /\ engine.size <= r.size /\ r.size \in Nat
  <2>1. CASE engine = Installer!NoFile
    <3>1. engine.size = 0
      BY <2>1 DEF Installer!NoFile
    <3>. QED  BY <1>2, <3>1
  <2>2. ASSUME NEW r \in Releases, engine = WholeEngine(r)
        PROVE  engine.size \in Nat /\ engine.size <= r.size /\ r.size \in Nat
    <3>1. engine.size = r.size /\ r.size \in Nat
      BY <2>2, OfRelease DEF WholeEngine
    <3>. QED  BY <3>1
  <2>. QED  BY <2>1, <2>2 DEF InstallerInv, PinnedOK
<1>5. Installer!disk_free = machine.drive - (PlacedIn(files) + engine.size + part.size)
  BY AsSummed DEF Installer!disk_free
<1>6. Installer!disk_free + part.size >= release.size
  <2>1. PICK r \in Releases : engine.size \in Nat /\ engine.size <= r.size /\ r.size \in Nat
    BY <1>4
  <2>2. PlacedIn(files) + r.size + release.size <= machine.drive
    BY <1>2 DEF InstallerInv, RoomOK
  <2>. QED  BY <1>1, <1>2, <1>3, <1>5, <2>1, <2>2
<1>7. ASSUME pc \in Checked
      PROVE  Installer!disk_free = machine.drive - (PlacedIn(files) + release.size)
  <2>1. engine.size = release.size /\ part.size = 0
    BY <1>7 DEF InstallerInv, PinnedOK, WholeEngine, Installer!NoFile
  <2>. QED  BY <1>1, <1>2, <1>3, <1>5, <2>1
<1>. QED  BY <1>1, <1>3, <1>4, <1>5, <1>6, <1>7

\* What is placed of a model no longer than it should be leaves the room there was.
LEMMA Leaves ==
  ASSUME InstallerInv, NEW r \in Releases, NEW n \in DOMAIN r.models, Fits(r, n), NEW k \in DOMAIN r.models[n].files,
         NEW v, v.size \in Nat, v.size <= r.models[n].files[k].size,
         NEW gs, gs = [files EXCEPT ![r.models[n].files[k].path] = v]
  PROVE  /\ Sized(gs)
         /\ PlacedIn(gs) + r.size + ShortIn(gs, r.models[n]) + DISK_MARGIN <= machine.drive
         /\ \A s, t \in Releases : PlacedIn(gs) + s.size + t.size <= machine.drive
<1>. DEFINE m == r.models[n]
<1>1. m \in Installer!Models /\ r.size \in Nat /\ DISK_MARGIN \in Nat
  BY OfRelease
<1>2. Sized(files) /\ machine.drive \in Nat
  BY Room DEF InstallerInv, DiskTypes
<1>3. Sized(gs) /\ PlacedIn(gs) + ShortIn(gs, m) <= PlacedIn(files) + ShortIn(files, m)
  <2>. HIDE DEF m
  <2>1. k \in DOMAIN m.files /\ v.size <= m.files[k].size /\ gs = [files EXCEPT ![m.files[k].path] = v]
    BY DEF m
  <2>. QED  BY <1>1, <1>2, <2>1, Spends
<1>4. PlacedIn(gs) \in Nat /\ ShortIn(gs, m) \in Nat /\ PlacedIn(files) \in Nat /\ ShortIn(files, m) \in Nat
  <2>. HIDE DEF m
  <2>. QED  BY <1>1, <1>2, <1>3, Summed
<1>5. PlacedIn(files) + r.size + ShortIn(files, m) + DISK_MARGIN <= machine.drive
  BY DEF Fits
<1>6. PlacedIn(gs) + r.size + ShortIn(gs, m) + DISK_MARGIN <= machine.drive
  <2>. HIDE DEF m
  <2>. QED  BY <1>1, <1>2, <1>3, <1>4, <1>5
<1>7. ASSUME NEW s \in Releases, NEW t \in Releases PROVE PlacedIn(gs) + s.size + t.size <= machine.drive
  <2>1. s.size + t.size <= r.size + DISK_MARGIN /\ s.size \in Nat /\ t.size \in Nat
    BY OfRelease
  <2>. HIDE DEF m
  <2>. QED  BY <1>1, <1>2, <1>4, <1>6, <2>1
<1>. QED  BY <1>3, <1>6, <1>7

LEMMA InstallerInit ==
  ASSUME Installer!Init
  PROVE  InstallerInv
<1>. USE DEF Installer!Init
<1>1. PinnedOK /\ NextOK /\ CleanOK
  BY DEF PinnedOK, NextOK, CleanOK, Checked, Having
<1>2. DiskTypes
  BY DEF DiskTypes, Sized, Installer!NoFile
<1>3. RoomOK
  <2>1. [p \in Installer!Paths |-> files[p].size] = [p \in Installer!Paths |-> 0]
    BY DEF Installer!NoFile
  <2>2. PlacedIn(files) = 0
    BY <2>1, SumZero, OfRelease DEF PlacedIn
  <2>3. ASSUME NEW r \in Releases, NEW s \in Releases PROVE PlacedIn(files) + r.size + s.size <= machine.drive
    BY <2>2, <2>3, OfRelease
  <2>. QED  BY <2>3 DEF RoomOK
<1>4. FitsOK
  BY DEF FitsOK, Having
<1>. QED  BY <1>1, <1>2, <1>3, <1>4 DEF InstallerInv

\* The drive's files, the machine and the last plan are as they were.
LEMMA Untouched ==
  ASSUME InstallerInv, UNCHANGED <<machine, files, before>>, part'.size \in Nat,
         pc' \in Having => pc \in Having /\ UNCHANGED <<release, plan>>
  PROVE  DiskTypes' /\ RoomOK' /\ FitsOK'
<1>1. DiskTypes'
  BY DEF InstallerInv, DiskTypes, Sized
<1>2. RoomOK'
  BY SMTT(20) DEF InstallerInv, RoomOK, PlacedIn
<1>3. ASSUME NEW r \in Releases, NEW n \in DOMAIN r.models, Fits(r, n) PROVE Fits(r, n)'
  BY <1>3 DEF Fits, Suits, Installer!largest_gpu, PlacedIn, ShortIn, Short
<1>4. FitsOK'
  BY <1>3 DEF InstallerInv, FitsOK
<1>. QED  BY <1>1, <1>2, <1>4

\* The plan's files are those of a model that fits.
LEMMA OfPlan ==
  ASSUME InstallerInv, pc \in Having
  PROVE  /\ \E n \in DOMAIN release.models : Fits(release, n) /\ plan.files = release.models[n].files
         /\ DOMAIN plan.files = 1 .. Len(plan.files) /\ Len(plan.files) \in Nat \ {0}
         /\ \A k \in DOMAIN plan.files : /\ plan.files[k].size \in Nat \ {0} /\ plan.files[k].path \in Installer!Paths
                                         /\ \A l \in DOMAIN plan.files : plan.files[k].path = plan.files[l].path => k = l
<1>0. PICK r \in Releases : \E n \in DOMAIN r.models : Fits(r, n)
  BY DEF InstallerInv, FitsOK
<1>1. PICK n \in DOMAIN r.models : Fits(r, n)
  BY <1>0
<1>2. release = r /\ plan.files = r.models[n].files
  BY <1>1 DEF Fits
<1>3. r.models[n] \in Installer!Models
  BY OfRelease
<1>. QED  BY <1>1, <1>2, <1>3, OfModel

\* One of the plan's files becomes another, no longer than it should be.
LEMMA Replaces ==
  ASSUME InstallerInv, pc \in Having, UNCHANGED <<machine, before, release, plan, part>>,
         NEW k \in DOMAIN plan.files, NEW v, v.size \in Nat, v.size <= plan.files[k].size,
         files' = [files EXCEPT ![plan.files[k].path] = v]
  PROVE  DiskTypes' /\ RoomOK' /\ FitsOK'
<1>1. PICK n \in DOMAIN release.models : Fits(release, n) /\ plan.files = release.models[n].files
  BY OfPlan
<1>2. release \in Releases
  BY DEF InstallerInv, PinnedOK
<1>. DEFINE gs == [files EXCEPT ![release.models[n].files[k].path] = v]
<1>3. /\ Sized(gs)
      /\ PlacedIn(gs) + release.size + ShortIn(gs, release.models[n]) + DISK_MARGIN <= machine.drive
      /\ \A s, t \in Releases : PlacedIn(gs) + s.size + t.size <= machine.drive
  BY <1>1, <1>2, Leaves
<1>4. files' = gs
  BY <1>1
<1>. HIDE DEF gs
<1>5. DiskTypes'
  BY <1>3, <1>4 DEF InstallerInv, DiskTypes, Sized
<1>6. RoomOK'
  BY <1>3, <1>4 DEF RoomOK, PlacedIn
<1>7. Fits(release, n)'
  BY <1>1, <1>3, <1>4 DEF Fits, Suits, Installer!largest_gpu, PlacedIn, ShortIn, Short
<1>8. FitsOK'
  BY <1>2, <1>7 DEF FitsOK
<1>. QED  BY <1>5, <1>6, <1>8

-----------------------------------------------------------------------------
(* The file that is fetched, what of it is gone on from, and the room for it. *)

NextFile == plan.files[nth]
Have == IF files[NextFile.path].size > NextFile.size THEN Installer!NoFile ELSE files[NextFile.path]
RoomFor == Installer!disk_free + files[NextFile.path].size - Have.size

LEMMA Fetched ==
  ASSUME InstallerInv, pc = "fetch"
  PROVE  /\ nth \in DOMAIN plan.files /\ NextFile.size \in Nat \ {0}
         /\ Have.size \in 0 .. NextFile.size
         /\ \A s : s.size \in Have.size .. NextFile.size => Installer!Cut(Have, s, RoomFor) = s
<1>1. pc \in Having /\ pc \in Checked
  BY DEF Having, Checked
<1>2. PICK n \in DOMAIN release.models : Fits(release, n) /\ plan.files = release.models[n].files
  BY <1>1, OfPlan
<1>3. nth \in DOMAIN plan.files /\ NextFile.size \in Nat \ {0} /\ NextFile.path \in Installer!Paths
  BY <1>1, OfPlan DEF InstallerInv, NextOK, NextFile
<1>4. Sized(files) /\ release \in Releases
  BY DEF InstallerInv, DiskTypes, PinnedOK
<1>5. files[NextFile.path].size \in Nat
  BY <1>3, <1>4 DEF Sized
<1>6. Have.size \in 0 .. NextFile.size
  BY <1>3, <1>5 DEF Have, Installer!NoFile
<1>. DEFINE m == release.models[n]
<1>7. m \in Installer!Models /\ release.size \in Nat /\ DISK_MARGIN \in Nat
  BY <1>4, OfRelease
<1>8. Short(files, NextFile) \in Nat /\ Short(files, NextFile) <= ShortIn(files, m) /\ ShortIn(files, m) \in Nat
  <2>. HIDE DEF m
  <2>1. \A k \in DOMAIN m.files : Short(files, m.files[k]) \in Nat /\ Short(files, m.files[k]) <= ShortIn(files, m)
    BY <1>4, <1>7, Summed
  <2>2. nth \in DOMAIN m.files /\ NextFile = m.files[nth]
    BY <1>2, <1>3 DEF m, NextFile
  <2>. QED  BY <1>4, <1>7, <2>1, <2>2, Summed
<1>9. PlacedIn(files) + release.size + ShortIn(files, m) + DISK_MARGIN <= machine.drive
  BY <1>2 DEF Fits
<1>10. /\ Installer!disk_free = machine.drive - (PlacedIn(files) + release.size)
       /\ machine.drive \in Nat /\ PlacedIn(files) \in Nat
  BY <1>1, Room
<1>11. Installer!disk_free \in Int /\ Installer!disk_free >= Short(files, NextFile)
  <2>. HIDE DEF m
  <2>. QED  BY <1>7, <1>8, <1>9, <1>10
<1>12. RoomFor \in Int /\ RoomFor >= NextFile.size - Have.size
  <2>1. CASE files[NextFile.path].size > NextFile.size
    <3>1. Have.size = 0 /\ Short(files, NextFile) = NextFile.size
      BY <2>1 DEF Have, Installer!NoFile, Short
    <3>. QED  BY <1>3, <1>5, <1>11, <3>1 DEF RoomFor
  <2>2. CASE ~(files[NextFile.path].size > NextFile.size)
    <3>1. Have.size = files[NextFile.path].size /\ Short(files, NextFile) = NextFile.size - Have.size
      BY <2>2 DEF Have, Short
    <3>. QED  BY <1>3, <1>5, <1>11, <3>1 DEF RoomFor
  <2>. QED  BY <2>1, <2>2
<1>13. ASSUME NEW s, s.size \in Have.size .. NextFile.size PROVE Installer!Cut(Have, s, RoomFor) = s
  <2>1. s.size - Have.size <= RoomFor
    BY <1>3, <1>6, <1>12, <1>13
  <2>. QED  BY <2>1 DEF Installer!Cut
<1>. QED  BY <1>3, <1>6, <1>13

\* What fetching makes of a file, and that it fails only if something outside does.
Completed == IF Have.size = NextFile.size THEN Have ELSE Installer!Whole(Have, NextFile.sha, NextFile.size)

LEMMA Fetches ==
  ASSUME InstallerInv, Installer!FetchFile
  PROVE  /\ UNCHANGED <<machine, engine, part, script, release, wish, plan, round, bad, before, runs>>
         /\ \E v : /\ v.size \in Nat /\ v.size <= NextFile.size
                   /\ files' = [files EXCEPT ![NextFile.path] = v]
                   /\ fault' = TRUE \/ (fault' = fault /\ v = Completed)
         /\ Installer!Next_(nth) \/ (pc' = "died" /\ fault' = TRUE)
<1>. DEFINE f == NextFile
            got == Installer!Cut(Have, Installer!Whole(Have, f.sha, f.size), RoomFor)
            Put(v) == files' = [files EXCEPT ![f.path] = v]
            Fits_(v) == v.size \in Nat /\ v.size <= f.size
<1>1. /\ pc = "fetch"
      /\ \/ /\ Have.size = f.size \/ got.size = f.size
            /\ Put(IF Have.size = f.size THEN Have ELSE got)
            /\ Installer!Next_(nth) /\ Installer!NoFault
         \/ /\ Have.size # f.size /\ got.size # f.size
            /\ Put(got) /\ pc' = "died" /\ Installer!NoFault /\ UNCHANGED nth
         \/ /\ Have.size # f.size /\ Installer!Fault
            /\ \E s \in {Installer!Whole(Have, w.of, w.size) : w \in {u \in Installer!Served(f.size) : u.size >= Have.size}} :
                 Put(Installer!Cut(Have, s, RoomFor))
            /\ Installer!Next_(nth)
         \/ /\ Have.size # f.size /\ Installer!Fault
            /\ \E s \in Installer!Some(Have, f.sha, f.size) : Put(Installer!Cut(Have, s, RoomFor))
            /\ pc' = "died" /\ UNCHANGED nth
      /\ UNCHANGED <<machine, engine, part, script, release, wish, plan, round, bad, before, runs>>
  BY DEF Installer!FetchFile, NextFile, Have, RoomFor
<1>2. /\ f.size \in Nat \ {0} /\ Have.size \in 0 .. f.size
      /\ \A s : s.size \in Have.size .. f.size => Installer!Cut(Have, s, RoomFor) = s
  BY <1>1, Fetched
<1>3. got = Installer!Whole(Have, f.sha, f.size) /\ got.size = f.size
  <2>1. Installer!Whole(Have, f.sha, f.size).size = f.size
    BY DEF Installer!Whole
  <2>2. f.size \in Have.size .. f.size
    BY <1>2
  <2>. HIDE DEF f
  <2>. QED  BY <1>2, <2>1, <2>2
<1>4. Completed = (IF Have.size = f.size THEN Have ELSE got) /\ Fits_(Completed)
  <2>1. Completed = (IF Have.size = f.size THEN Have ELSE got)
    BY <1>3 DEF Completed
  <2>. HIDE DEF got, f
  <2>. QED  BY <1>2, <1>3, <2>1
<1>5. ASSUME NEW s, s.size \in Have.size .. f.size PROVE Installer!Cut(Have, s, RoomFor) = s /\ Fits_(s)
  <2>1. Installer!Cut(Have, s, RoomFor) = s
    BY <1>2, <1>5
  <2>. HIDE DEF f
  <2>. QED  BY <1>2, <1>5, <2>1
<1>6. ASSUME NEW w \in Installer!Served(f.size), w.size >= Have.size
      PROVE  Installer!Whole(Have, w.of, w.size).size \in Have.size .. f.size
  <2>1. w.size \in 1 .. f.size
    BY <1>6 DEF Installer!Served
  <2>2. Installer!Whole(Have, w.of, w.size).size = w.size
    BY DEF Installer!Whole
  <2>. HIDE DEF f
  <2>. QED  BY <1>2, <1>6, <2>1, <2>2
<1>7. ASSUME NEW s \in Installer!Some(Have, f.sha, f.size) PROVE s.size \in Have.size .. f.size
  BY <1>7 DEF Installer!Some
<1>. HIDE DEF f, got, Put, Fits_
<1>8. CASE /\ Have.size = f.size \/ got.size = f.size
           /\ Put(IF Have.size = f.size THEN Have ELSE got)
           /\ Installer!Next_(nth) /\ Installer!NoFault
  <2>1. Put(Completed) /\ fault' = fault
    BY <1>4, <1>8 DEF Installer!NoFault
  <2>. QED  BY <1>1, <1>4, <1>8, <2>1 DEF Put, Fits_, f
<1>9. CASE /\ Have.size # f.size /\ Installer!Fault
           /\ \E s \in {Installer!Whole(Have, w.of, w.size) : w \in {u \in Installer!Served(f.size) : u.size >= Have.size}} :
                 Put(Installer!Cut(Have, s, RoomFor))
           /\ Installer!Next_(nth)
  <2>1. PICK w \in Installer!Served(f.size) :
          w.size >= Have.size /\ Put(Installer!Cut(Have, Installer!Whole(Have, w.of, w.size), RoomFor))
    BY <1>9
  <2>. DEFINE v == Installer!Whole(Have, w.of, w.size)
  <2>2. v.size \in Have.size .. f.size
    BY <1>6, <2>1
  <2>. HIDE DEF v
  <2>3. Put(v) /\ Fits_(v)
    BY <1>5, <2>1, <2>2 DEF v
  <2>. QED  BY <1>1, <1>9, <2>3 DEF Put, Fits_, f, Installer!Fault
<1>10. CASE /\ Have.size # f.size /\ Installer!Fault
            /\ \E s \in Installer!Some(Have, f.sha, f.size) : Put(Installer!Cut(Have, s, RoomFor))
            /\ pc' = "died" /\ UNCHANGED nth
  <2>1. PICK s \in Installer!Some(Have, f.sha, f.size) : Put(Installer!Cut(Have, s, RoomFor))
    BY <1>10
  <2>2. Put(s) /\ Fits_(s)
    BY <1>5, <1>7, <2>1
  <2>. QED  BY <1>1, <1>10, <2>2 DEF Put, Fits_, f, Installer!Fault
<1>. QED  BY <1>1, <1>3, <1>8, <1>9, <1>10

-----------------------------------------------------------------------------
(* Every step keeps the invariant. *)

\* What leaves the files, the plans and the margin alone.
LEMMA StartKeeps ==
  ASSUME InstallerInv, Installer!Start
  PROVE  InstallerInv'
<1>. USE DEF Installer!Start, Installer!disk
<1>1. PinnedOK'
  BY DEF InstallerInv, PinnedOK, Checked, Having
<1>2. NextOK' /\ CleanOK'
  BY DEF NextOK, CleanOK
<1>3. part'.size \in Nat /\ pc' \notin Having /\ UNCHANGED <<machine, files, before>>
  BY DEF InstallerInv, DiskTypes, Having
<1>. QED  BY <1>1, <1>2, <1>3, Untouched DEF InstallerInv

LEMMA FetchEngineKeeps ==
  ASSUME InstallerInv, Installer!FetchEngine
  PROVE  InstallerInv'
<1>1. /\ pc = "engine" /\ release \in Releases /\ release.size \in Nat
      /\ UNCHANGED <<machine, engine, files, script, release, wish, plan, nth, round, bad, before, runs>>
  BY OfRelease DEF InstallerInv, PinnedOK, Installer!FetchEngine, Installer!run
<1>2. /\ part'.size \in Nat
      /\ pc' = "check" \/ (pc' = "died" /\ fault' = TRUE)
      /\ fault' = TRUE \/ (fault' = fault /\ part' = WholeEngine(release))
  <2>1. CASE /\ part' = Installer!Cut(Installer!NoFile, [of |-> release.engine, size |-> release.size], Installer!disk_free + part.size)
             /\ pc' = (IF part'.size = release.size THEN "check" ELSE "died")
             /\ Installer!NoFault
    <3>1. Installer!disk_free + part.size >= release.size
      BY Room
    <3>2. part' = WholeEngine(release)
      BY <1>1, <2>1, <3>1 DEF Installer!Cut, Installer!NoFile, WholeEngine
    <3>. QED  BY <1>1, <2>1, <3>2 DEF WholeEngine, Installer!NoFault
  <2>2. CASE Installer!Fault /\ part' \in Installer!Served(release.size) /\ pc' = "check"
    <3>1. part'.size \in 1 .. release.size
      BY <2>2 DEF Installer!Served
    <3>. QED  BY <1>1, <2>2, <3>1 DEF Installer!Fault
  <2>3. CASE Installer!Fault /\ part' \in Installer!Some(Installer!NoFile, release.engine, release.size) /\ pc' = "died"
    <3>1. part'.size \in 0 .. release.size
      BY <2>3 DEF Installer!Some, Installer!NoFile
    <3>. QED  BY <1>1, <2>3, <3>1 DEF Installer!Fault
  <2>. QED  BY <2>1, <2>2, <2>3 DEF Installer!FetchEngine
<1>3. PinnedOK'
  BY <1>1, <1>2 DEF InstallerInv, PinnedOK, Checked, Having
<1>4. NextOK'
  BY <1>1, <1>2 DEF InstallerInv, NextOK
<1>5. CleanOK'
  BY <1>1, <1>2 DEF CleanOK, WholeEngine
<1>6. pc' \notin Having
  BY <1>2 DEF Having
<1>. QED  BY <1>1, <1>2, <1>3, <1>4, <1>5, <1>6, Untouched DEF InstallerInv

LEMMA CheckKeeps ==
  ASSUME InstallerInv, Installer!Check
  PROVE  InstallerInv'
<1>. USE DEF Installer!Check, Installer!run
<1>1. PinnedOK'
  BY DEF InstallerInv, PinnedOK, Checked, Having, WholeEngine
<1>2. NextOK'
  BY DEF InstallerInv, NextOK
<1>3. CleanOK'
  BY DEF InstallerInv, CleanOK, WholeEngine
<1>4. part'.size \in Nat /\ pc' \notin Having /\ UNCHANGED <<machine, files, before>>
  BY DEF InstallerInv, DiskTypes, Having, Installer!NoFile
<1>. QED  BY <1>1, <1>2, <1>3, <1>4, Untouched DEF InstallerInv

LEMMA MoveKeeps ==
  ASSUME InstallerInv, Installer!Move
  PROVE  InstallerInv'
<1>. USE DEF Installer!Move, Installer!run, Installer!Fault, Installer!NoFault
<1>1. PinnedOK'
  BY DEF InstallerInv, PinnedOK, Checked, Having
<1>2. NextOK'
  BY DEF InstallerInv, NextOK
<1>3. CleanOK'
  BY DEF InstallerInv, CleanOK
<1>4. part'.size \in Nat /\ pc' \notin Having /\ UNCHANGED <<machine, files, before>>
  BY DEF InstallerInv, DiskTypes, Having, Installer!NoFile
<1>. QED  BY <1>1, <1>2, <1>3, <1>4, Untouched DEF InstallerInv

\* A model fits when what it is short of has its room, once the engine is in place.
LEMMA Meets ==
  ASSUME InstallerInv, pc = "plan", NEW n \in DOMAIN release.models
  PROVE  /\ release \in Releases /\ engine = WholeEngine(release)
         /\ Installer!meets(release.models[n]) <=>
              /\ Suits(release.models[n])
              /\ PlacedIn(files) + release.size + ShortIn(files, release.models[n]) + DISK_MARGIN <= machine.drive
<1>. DEFINE m == release.models[n]
<1>1. pc \in Checked
  BY DEF Checked
<1>2. release \in Releases /\ engine = WholeEngine(release) /\ Sized(files)
  BY <1>1 DEF InstallerInv, PinnedOK, DiskTypes
<1>3. m \in Installer!Models /\ release.size \in Nat /\ DISK_MARGIN \in Nat
  BY <1>2, OfRelease
<1>. HIDE DEF m
<1>4. /\ Installer!disk_free = machine.drive - (PlacedIn(files) + release.size)
      /\ machine.drive \in Nat /\ PlacedIn(files) \in Nat
  BY <1>1, Room
<1>5. ShortIn(files, m) \in Nat
  BY <1>2, <1>3, Summed
<1>6. /\ Installer!Fetch(m) = ShortIn(files, m)
      /\ Installer!meets(m) <=> Suits(m) /\ Installer!disk_free >= Installer!Fetch(m) + DISK_MARGIN
  BY <1>3, AsSummed
<1>7. Installer!meets(m) <=> Suits(m) /\ PlacedIn(files) + release.size + ShortIn(files, m) + DISK_MARGIN <= machine.drive
  <2>1. Installer!disk_free >= ShortIn(files, m) + DISK_MARGIN
        <=> PlacedIn(files) + release.size + ShortIn(files, m) + DISK_MARGIN <= machine.drive
    BY <1>3, <1>4, <1>5
  <2>. QED  BY <1>6, <2>1
<1>. QED  BY <1>2, <1>7 DEF m

LEMMA PlanKeeps ==
  ASSUME InstallerInv, Installer!Plan
  PROVE  InstallerInv'
<1>1. /\ pc = "plan" /\ plan' = Installer!vitna_plan(release.models, wish)
      /\ pc' = IF plan' = Installer!NoModel THEN "unfit" ELSE "fetch"
      /\ before' = [release |-> release.engine, wish |-> wish, id |-> plan'.id]
      /\ UNCHANGED <<machine, engine, part, files, script, release, wish, nth, round, bad, fault, runs, faults>>
  BY DEF Installer!Plan, Installer!disk
<1>2. release \in Releases /\ nth = 1
  BY <1>1 DEF InstallerInv, PinnedOK, NextOK
<1>3. PinnedOK'
  BY <1>1 DEF InstallerInv, PinnedOK, Checked, Having
<1>4. DiskTypes' /\ RoomOK'
  BY <1>1 DEF InstallerInv, DiskTypes, RoomOK, PlacedIn, Sized
<1>5. plan' # Installer!NoModel => \E n \in Eligible(release, wish) :
        plan'.id = release.models[n].id /\ plan'.files = release.models[n].files /\ Installer!meets(release.models[n])
  BY <1>1, <1>2, Plans
<1>6. CASE plan' = Installer!NoModel
  <2>1. pc' = "unfit" /\ before'.id = "none"
    BY <1>1, <1>6 DEF Installer!NoModel
  <2>2. FitsOK' /\ NextOK' /\ CleanOK'
    BY <2>1, <1>1 DEF FitsOK, NextOK, CleanOK, Having
  <2>. QED  BY <1>3, <1>4, <2>2 DEF InstallerInv
<1>7. CASE plan' # Installer!NoModel
  <2>1. PICK n \in Eligible(release, wish) :
          plan'.id = release.models[n].id /\ plan'.files = release.models[n].files /\ Installer!meets(release.models[n])
    BY <1>5, <1>7
  <2>2. n \in DOMAIN release.models
    BY DEF Eligible, AskedOf
  <2>3. /\ Suits(release.models[n])
        /\ PlacedIn(files) + release.size + ShortIn(files, release.models[n]) + DISK_MARGIN <= machine.drive
    BY <1>1, <2>1, <2>2, Meets, SMTT(20)
  <2>4. Fits(release, n)'
    BY <1>1, <2>1, <2>3 DEF Fits, Suits, Installer!largest_gpu, PlacedIn, ShortIn, Short, Eligible, AskedOf
  <2>5. FitsOK'
    BY <1>1, <1>2, <2>2, <2>4 DEF FitsOK
  <2>6. NextOK'
    <3>1. nth' \in DOMAIN plan'.files
      <4>1. release.models[n] \in Installer!Models
        BY <1>2, <2>2, OfRelease
      <4>. DEFINE m == release.models[n]
      <4>2. DOMAIN m.files = 1 .. Len(m.files) /\ Len(m.files) \in Nat \ {0}
        BY <4>1, OfModel
      <4>3. 1 \in DOMAIN m.files
        <5>. HIDE DEF m
        <5>. QED  BY <4>2
      <4>. QED  BY <1>1, <1>2, <2>1, <4>3
    <3>. QED  BY <1>1, <1>7, <3>1 DEF NextOK
  <2>7. CleanOK'
    <3>1. pc' = "fetch" /\ round' = 1
      BY <1>1, <1>7 DEF InstallerInv, NextOK
    <3>. QED  BY <3>1 DEF CleanOK
  <2>. QED  BY <1>3, <1>4, <2>5, <2>6, <2>7 DEF InstallerInv
<1>. QED  BY <1>6, <1>7

LEMMA FetchFileKeeps ==
  ASSUME InstallerInv, Installer!FetchFile
  PROVE  InstallerInv'
<1>1. pc = "fetch" /\ pc \in Having /\ pc \in Checked
  BY DEF Installer!FetchFile, Having, Checked
<1>2. /\ UNCHANGED <<machine, engine, part, script, release, wish, plan, round, bad, before, runs>>
      /\ Installer!Next_(nth) \/ (pc' = "died" /\ fault' = TRUE)
  BY Fetches
<1>3. PICK v : /\ v.size \in Nat /\ v.size <= NextFile.size
               /\ files' = [files EXCEPT ![NextFile.path] = v]
               /\ fault' = TRUE \/ (fault' = fault /\ v = Completed)
  BY Fetches
<1>4. nth \in DOMAIN plan.files /\ NextFile.size \in Nat \ {0}
  BY <1>1, Fetched
<1>5. /\ DOMAIN plan.files = 1 .. Len(plan.files) /\ Len(plan.files) \in Nat \ {0}
      /\ \A k \in DOMAIN plan.files : /\ plan.files[k].path \in Installer!Paths
                                      /\ \A l \in DOMAIN plan.files : plan.files[k].path = plan.files[l].path => k = l
  BY <1>1, OfPlan
<1>6. DiskTypes' /\ RoomOK' /\ FitsOK'
  BY <1>1, <1>2, <1>3, <1>4, Replaces DEF NextFile
<1>7. \/ nth < Len(plan.files) /\ nth' = nth + 1 /\ pc' = "fetch"
      \/ nth = Len(plan.files) /\ nth' = 1 /\ pc' = "verify"
      \/ pc' = "died" /\ fault' = TRUE
  BY <1>2, <1>4, <1>5 DEF Installer!Next_
<1>8. PinnedOK'
  BY <1>1, <1>2, <1>7 DEF InstallerInv, PinnedOK, Checked, Having
<1>9. NextOK'
  BY <1>2, <1>4, <1>5, <1>7 DEF NextOK
<1>10. CleanOK'
  <2>1. SUFFICES ASSUME ~fault', round = 2, pc' # "died"
                 PROVE  \A k \in DOMAIN plan.files :
                          Right(files', plan.files[k]) \/ (pc' = "fetch" /\ k >= nth' /\ Gone(files', plan.files[k]))
    BY <1>2, <1>7 DEF CleanOK
  <2>2. v = Completed /\ ~fault
    BY <1>3, <2>1
  <2>3. \A k \in DOMAIN plan.files : Right(files, plan.files[k]) \/ (k >= nth /\ Gone(files, plan.files[k]))
    BY <1>1, <2>1, <2>2 DEF InstallerInv, CleanOK
  <2>4. DOMAIN files = Installer!Paths
    BY DEF InstallerInv, DiskTypes, Sized
  <2>5. Right(files', NextFile)
    <3>1. files'[NextFile.path] = Completed
      BY <1>3, <1>4, <1>5, <2>2, <2>4 DEF NextFile
    <3>2. Completed = [of |-> NextFile.sha, size |-> NextFile.size]
      <4>1. CASE Right(files, NextFile)
        <5>1. files[NextFile.path].size = NextFile.size
          BY <4>1 DEF Right
        <5>2. Have = files[NextFile.path]
          BY <1>4, <5>1 DEF Have
        <5>. QED  BY <4>1, <5>1, <5>2 DEF Completed, Right
      <4>2. CASE Gone(files, NextFile)
        <5>1. Have.size = 0 /\ Have.size # NextFile.size
          BY <1>4, <4>2 DEF Have, Gone
        <5>. QED  BY <5>1 DEF Completed, Installer!Whole, Installer!Goes
      <4>. QED  BY <1>4, <2>3, <4>1, <4>2 DEF NextFile
    <3>. QED  BY <3>1, <3>2 DEF Right
  <2>6. ASSUME NEW k \in DOMAIN plan.files, k # nth PROVE files'[plan.files[k].path] = files[plan.files[k].path]
    <3>1. plan.files[k].path # NextFile.path
      BY <1>4, <1>5, <2>6 DEF NextFile
    <3>. QED  BY <1>3, <1>5, <2>4, <3>1
  <2>7. ASSUME NEW k \in DOMAIN plan.files
        PROVE  Right(files', plan.files[k]) \/ (pc' = "fetch" /\ k >= nth' /\ Gone(files', plan.files[k]))
    <3>1. CASE k = nth
      BY <2>5, <3>1 DEF NextFile
    <3>2. CASE k # nth /\ Right(files, plan.files[k])
      BY <2>6, <3>2 DEF Right
    <3>3. CASE k # nth /\ k >= nth /\ Gone(files, plan.files[k])
      <4>1. k > nth /\ k <= Len(plan.files) /\ nth < Len(plan.files)
        BY <1>4, <1>5, <3>3
      <4>2. nth' = nth + 1 /\ pc' = "fetch" /\ k >= nth'
        BY <1>4, <1>5, <1>7, <2>1, <4>1
      <4>. QED  BY <2>6, <3>3, <4>2 DEF Gone
    <3>. QED  BY <2>3, <3>1, <3>2, <3>3
  <2>. QED  BY <2>7
<1>. QED  BY <1>6, <1>8, <1>9, <1>10 DEF InstallerInv

LEMMA VerifyKeeps ==
  ASSUME InstallerInv, Installer!Verify
  PROVE  InstallerInv'
<1>1. /\ pc = "verify" /\ pc \in Having /\ bad' = {f.path : f \in Installer!vitna_verify}
      /\ pc' = IF bad' = {} THEN "script" ELSE IF round = 2 THEN "died" ELSE "remove"
      /\ UNCHANGED <<machine, engine, part, files, script, release, wish, plan, nth, round, fault, before, runs, faults>>
  BY DEF Installer!Verify, Installer!disk, Having
<1>2. ASSUME NEW f PROVE f \in Installer!vitna_verify <=> \E k \in DOMAIN plan.files : f = plan.files[k] /\ ~Right(files, f)
  BY DEF Installer!vitna_verify, Installer!Range, Right
<1>3. DiskTypes' /\ RoomOK' /\ FitsOK'
  <2>1. part'.size \in Nat
    BY <1>1 DEF InstallerInv, DiskTypes
  <2>. QED  BY <1>1, <2>1, Untouched
<1>4. PinnedOK'
  <2>1. pc' = "script" => Installer!vitna_verify = {}
    BY <1>1
  <2>2. Installer!vitna_verify' = Installer!vitna_verify
    BY <1>1 DEF Installer!vitna_verify
  <2>. QED  BY <1>1, <2>1, <2>2 DEF InstallerInv, PinnedOK, Checked, Having
<1>5. NextOK'
  <2>1. ASSUME NEW p \in bad' PROVE \E k \in DOMAIN plan.files : p = plan.files[k].path
    BY <1>1, <1>2
  <2>. QED  BY <1>1, <2>1 DEF InstallerInv, NextOK
<1>6. CleanOK'
  <2>1. SUFFICES ASSUME ~fault
                 PROVE  /\ pc' # "died"
                        /\ \A k \in DOMAIN plan.files : Right(files, plan.files[k]) \/ plan.files[k].path \in bad'
    BY <1>1 DEF CleanOK
  <2>2. \A k \in DOMAIN plan.files : Right(files, plan.files[k]) \/ plan.files[k].path \in bad'
    BY <1>1, <1>2
  <2>3. round = 2 => bad' = {}
    BY <1>1, <1>2, <2>1 DEF InstallerInv, CleanOK
  <2>. QED  BY <1>1, <2>2, <2>3
<1>. QED  BY <1>3, <1>4, <1>5, <1>6 DEF InstallerInv

LEMMA RemoveKeeps ==
  ASSUME InstallerInv, NEW p \in bad, Installer!RemoveOne(p)
  PROVE  InstallerInv'
<1>1. /\ pc = "remove" /\ pc \in Having /\ pc \in Checked
      /\ files' = [files EXCEPT ![p] = Installer!NoFile] /\ bad' = bad \ {p}
      /\ \/ bad' = {} /\ pc' = "fetch" /\ round' = 2
         \/ bad' # {} /\ pc' = pc /\ round' = round
      /\ UNCHANGED <<machine, engine, part, script, release, wish, plan, nth, fault, before, runs, faults>>
  BY DEF Installer!RemoveOne, Installer!RemoveBad, Having, Checked
<1>2. PICK k \in DOMAIN plan.files : p = plan.files[k].path
  BY <1>1 DEF InstallerInv, NextOK
<1>3. /\ DOMAIN plan.files = 1 .. Len(plan.files) /\ Len(plan.files) \in Nat \ {0}
      /\ \A l \in DOMAIN plan.files : plan.files[l].size \in Nat \ {0} /\ plan.files[l].path \in Installer!Paths
  BY <1>1, OfPlan
<1>4. DiskTypes' /\ RoomOK' /\ FitsOK'
  <2>1. Installer!NoFile.size \in Nat /\ Installer!NoFile.size <= plan.files[k].size
    BY <1>3 DEF Installer!NoFile
  <2>2. files' = [files EXCEPT ![plan.files[k].path] = Installer!NoFile]
    BY <1>1, <1>2
  <2>. QED  BY <1>1, <2>1, <2>2, Replaces
<1>5. PinnedOK'
  BY <1>1 DEF InstallerInv, PinnedOK, Checked, Having
<1>6. NextOK'
  BY <1>1, <1>3 DEF InstallerInv, NextOK
<1>7. CleanOK'
  <2>1. SUFFICES ASSUME ~fault
                 PROVE  \A l \in DOMAIN plan.files :
                          Right(files', plan.files[l]) \/ Gone(files', plan.files[l]) \/ plan.files[l].path \in bad'
    <3>1. nth' = 1
      BY <1>1 DEF InstallerInv, NextOK
    <3>2. \A l \in DOMAIN plan.files : l >= nth'
      BY <1>3, <3>1
    <3>. QED  BY <1>1, <2>1, <3>2 DEF CleanOK
  <2>2. ASSUME NEW l \in DOMAIN plan.files
        PROVE  Right(files', plan.files[l]) \/ Gone(files', plan.files[l]) \/ plan.files[l].path \in bad'
    <3>1. Right(files, plan.files[l]) \/ Gone(files, plan.files[l]) \/ plan.files[l].path \in bad
      BY <1>1, <2>1 DEF InstallerInv, CleanOK
    <3>2. plan.files[l].path \in DOMAIN files
      BY <1>3 DEF InstallerInv, DiskTypes, Sized
    <3>3. CASE plan.files[l].path = p
      BY <1>1, <3>2, <3>3 DEF Gone, Installer!NoFile
    <3>4. CASE plan.files[l].path # p
      <4>1. files'[plan.files[l].path] = files[plan.files[l].path]
        BY <1>1, <3>2, <3>4
      <4>. QED  BY <1>1, <3>1, <3>4, <4>1 DEF Right, Gone
    <3>. QED  BY <3>3, <3>4
  <2>. QED  BY <2>2
<1>. QED  BY <1>4, <1>5, <1>6, <1>7 DEF InstallerInv

LEMMA ScriptKeeps ==
  ASSUME InstallerInv, Installer!Write \/ Installer!Written \/ Installer!Unfit
  PROVE  InstallerInv'
<1>1. /\ pc \in {"script", "chmod", "unfit"} /\ pc' \in {"chmod", "serve", "away"}
      /\ pc \in {"script", "chmod"} <=> pc' \in {"chmod", "serve"}
      /\ UNCHANGED <<machine, engine, part, files, release, wish, plan, nth, round, bad, fault, before>>
  BY DEF Installer!Write, Installer!Written, Installer!Unfit, Installer!run, Installer!disk
<1>2. part'.size \in Nat
  BY <1>1 DEF InstallerInv, DiskTypes
<1>3. pc' \in Having => pc \in Having
  BY <1>1 DEF Having
<1>4. PinnedOK'
  BY <1>1 DEF InstallerInv, PinnedOK, Checked, Having, Installer!vitna_verify
<1>5. NextOK' /\ CleanOK'
  BY <1>1 DEF NextOK, CleanOK
<1>. QED  BY <1>1, <1>2, <1>3, <1>4, <1>5, Untouched DEF InstallerInv

LEMMA InterruptedKeeps ==
  ASSUME InstallerInv, Installer!Interrupted
  PROVE  InstallerInv'
<1>1. pc' = "away" /\ UNCHANGED <<machine, engine, part, files, release, wish, plan, nth, round, bad, before>>
  BY DEF Installer!Interrupted, Installer!run, Installer!disk
<1>2. part'.size \in Nat /\ pc' \notin Having
  BY <1>1 DEF InstallerInv, DiskTypes, Having
<1>3. PinnedOK' /\ NextOK' /\ CleanOK'
  BY <1>1 DEF InstallerInv, PinnedOK, NextOK, CleanOK, Checked, Having
<1>. QED  BY <1>1, <1>2, <1>3, Untouched DEF InstallerInv

LEMMA InstallerNext ==
  ASSUME InstallerInv, Installer!Next
  PROVE  InstallerInv'
BY StartKeeps, FetchEngineKeeps, CheckKeeps, MoveKeeps, PlanKeeps, FetchFileKeeps, VerifyKeeps, RemoveKeeps, ScriptKeeps,
   InterruptedKeeps DEF Installer!Next

-----------------------------------------------------------------------------
(* What the installer is asked for follows. *)

LEMMA Pinned ==
  ASSUME InstallerInv
  PROVE  Installer!ServesPinned /\ Installer!CleanRunInstalls
<1>1. engine = Installer!NoFile \/ \E r \in Releases : engine = [of |-> r.engine, size |-> r.size]
  BY DEF InstallerInv, PinnedOK, WholeEngine
<1>2. ASSUME pc \in {"script", "chmod", "serve"}
      PROVE  engine.of = release.engine
  BY <1>2 DEF InstallerInv, PinnedOK, Checked, Having, WholeEngine
<1>3. ASSUME pc \in {"script", "chmod", "serve"}, NEW f \in Installer!Range(plan.files)
      PROVE  files[f.path] = [of |-> f.sha, size |-> f.size]
  BY <1>3 DEF InstallerInv, PinnedOK, Installer!vitna_verify
<1>4. Installer!CleanRunInstalls
  BY DEF InstallerInv, CleanOK, Installer!CleanRunInstalls
<1>. QED  BY <1>1, <1>2, <1>3, <1>4 DEF Installer!ServesPinned

\* The model of the last plan fits at the next, which is of it or of one before it.
LEMMA NoLess ==
  ASSUME InstallerInv, Installer!Next
  PROVE  Installer!PlansNoLess
<1>1. SUFFICES ASSUME pc = "plan", pc' # "away", before.release = release.engine, before.wish = wish, before.id # "none"
               PROVE  \E k, m \in DOMAIN release.models :
                        k <= m /\ plan'.id = release.models[k].id /\ before.id = release.models[m].id
  BY DEF Installer!PlansNoLess
<1>2. plan' = Installer!vitna_plan(release.models, wish)
  BY <1>1 DEF Installer!Next, Installer!Start, Installer!FetchEngine, Installer!Check, Installer!Move, Installer!Plan,
     Installer!FetchFile, Installer!Verify, Installer!RemoveOne, Installer!Write, Installer!Written, Installer!Interrupted,
     Installer!Unfit
<1>3. PICK r \in Releases : \E m \in DOMAIN r.models : Fits(r, m)
  BY <1>1 DEF InstallerInv, FitsOK
<1>4. release \in Releases /\ release = r
  <2>1. release \in Releases /\ r.engine = release.engine
    BY <1>1, <1>3 DEF InstallerInv, PinnedOK, Fits
  <2>. QED  BY <2>1, OfRelease
<1>5. PICK m \in DOMAIN release.models : Fits(release, m)
  BY <1>3, <1>4
<1>6. m \in Eligible(release, wish) /\ before.id = release.models[m].id /\ Installer!meets(release.models[m])
  BY <1>1, <1>5, Meets DEF Fits
<1>7. PICK k \in Eligible(release, wish) : k <= m /\ plan'.id = release.models[k].id
  BY <1>2, <1>4, <1>6, Plans
<1>. QED  BY <1>6, <1>7 DEF Eligible, AskedOf

LEMMA InstallerStutter ==
  ASSUME InstallerInv, UNCHANGED <<pc, installer_vars>>
  PROVE  InstallerInv'
<1>. USE DEF installer_vars
<1>1. part'.size \in Nat
  BY DEF InstallerInv, DiskTypes
<1>2. PinnedOK' /\ NextOK' /\ CleanOK'
  BY DEF InstallerInv, PinnedOK, NextOK, CleanOK, Installer!vitna_verify
<1>. QED  BY <1>1, <1>2, Untouched DEF InstallerInv

-----------------------------------------------------------------------------
(* The paged cache.  A block that a table or a pinned prefix names is in use   *)
(* and is named for one stretch of the sequence, among those an eviction      *)
(* looks through; what evicting, giving and filling blocks makes of such a    *)
(* pool is such a pool, however often it is done.                             *)

PinNames(l, b, i) ==
  \E k \in DOMAIN pins : b \in 0 .. Paged!BlocksFor(pins[k].num_tokens) - 1 /\ pins[k].tables[l][b] = i

\* A table or a pinned prefix says that the stretch is in the block.
Names(p, l, b, i) == p.tables[l][b] = i \/ PinNames(l, b, i)

Looked == Paged!LookedAt(geometry)
Entries == Paged!Entries(geometry)
Places == Paged!Ids \cup {-1}

Pools == [num_tokens : [Paged!Ids -> Nat], free : Int, tables : [Paged!Layers -> [Entries -> Places]]]

NamedOK(p) ==
  \A l \in Paged!Layers, b \in Entries, i \in Paged!Ids : Names(p, l, b, i) => b \in Looked /\ p.num_tokens[i] > 0
OwnOK(p) ==
  \A l, m \in Paged!Layers, b, c \in Entries, i \in Paged!Ids : Names(p, l, b, i) /\ Names(p, m, c, i) => l = m /\ b = c
FreeOK(p) == p.free = Cardinality(Paged!Free(p))

GoodPools == {p \in Pools : NamedOK(p) /\ OwnOK(p) /\ FreeOK(p)}

PinTypes ==
  UNION {[hash : Hashes, num_tokens : {n}, tables : [Paged!Layers -> [0 .. Paged!BlocksFor(n) - 1 -> Places]]] :
         n \in Paged!Positions \ {0}}

Shape ==
  /\ geometry \in Geometries
  /\ DOMAIN num_tokens = 0 .. Paged!Total(geometry) - 1
  /\ pins \in Seq(PinTypes)

LEMMA DivMod ==
  ASSUME NEW a \in Int, NEW s \in Int, s > 0
  PROVE  a = s * (a \div s) + (a % s)
OBVIOUS

LEMMA DivFacts ==
  ASSUME NEW a \in Nat, NEW s \in Nat \ {0}
  PROVE  /\ a \div s \in Nat /\ a % s \in Nat /\ a % s < s /\ a \div s <= a
         /\ \A n \in Nat : a < n * s => a \div s < n
<1>1. a \div s \in Nat /\ a % s \in 0 .. s - 1 /\ a = s * (a \div s) + (a % s)
  <2>1. a \div s \in Int /\ a \div s >= 0 /\ a % s \in 0 .. s - 1
    OBVIOUS
  <2>2. a \in Int /\ s \in Int /\ s > 0
    OBVIOUS
  <2>3. a = s * (a \div s) + (a % s)
    BY <2>2, DivMod
  <2>. QED  BY <2>1, <2>3
<1>2. ASSUME NEW n \in Nat, a < n * s, n <= a \div s PROVE FALSE
  <2>1. n * s <= (a \div s) * s
    BY <1>1, <1>2
  <2>. QED  BY <1>1, <1>2, <2>1
<1>3. a \div s <= s * (a \div s)
  BY <1>1
<1>. QED  BY <1>1, <1>2, <1>3

LEMMA Within ==
  ASSUME NEW c \in Nat, NEW s \in Nat, NEW n \in 0 .. c * s - 1
  PROVE  n \in Nat /\ n < c * s
<1>1. c * s \in Nat
  OBVIOUS
<1>2. \A x \in Nat : n \in 0 .. x - 1 => n \in Nat /\ n < x
  OBVIOUS
<1>. QED  BY <1>1, <1>2

LEMMA Fills ==
  ASSUME NEW N, NEW f, NEW t, NEW i, NEW n, NEW S, N \in [S -> Nat], i \in S, N[i] = 0, n \in Nat \ {0}
  PROVE  [[num_tokens |-> N, free |-> f, tables |-> t] EXCEPT !.num_tokens[i] = IF @ > n THEN @ ELSE n]
         = [num_tokens |-> [N EXCEPT ![i] = n], free |-> f, tables |-> t]
<1>1. [[num_tokens |-> N, free |-> f, tables |-> t] EXCEPT !.num_tokens[i] = IF @ > n THEN @ ELSE n]
      = [num_tokens |-> [N EXCEPT ![i] = IF N[i] > n THEN N[i] ELSE n], free |-> f, tables |-> t]
  OBVIOUS
<1>. QED  BY <1>1

LEMMA SameCardinality ==
  ASSUME NEW S
  PROVE  Paged!Cardinality(S) = Cardinality(S)
BY Zenon DEF Paged!Cardinality, Cardinality

LEMMA Sizes ==
  ASSUME Shape
  PROVE  /\ Looked \subseteq Entries /\ Looked \subseteq Nat
         /\ Paged!Ids \subseteq Nat /\ IsFiniteSet(Paged!Ids) /\ -1 \notin Paged!Ids
         /\ \A n \in Paged!Positions : /\ n \in Nat /\ n \div BLOCK \in Looked /\ n % BLOCK \in Nat
                                       /\ 0 .. Paged!BlocksFor(n) - 1 \subseteq Looked
                                       /\ 0 .. n \subseteq Paged!Positions
         /\ Paged!Total(geometry) \in Nat
<1>. DEFINE g == geometry
            C == Paged!Total(g) \div g.layers + SPARE
<1>1. /\ BLOCK \in Nat \ {0} /\ SPARE \in Nat
      /\ g.layers \in Nat \ {0} /\ g.tokens \in Nat /\ g.tokens % BLOCK = 0
  BY Assumptions DEF Shape, Paged!PagedAssumption
<1>2. Paged!Total(g) = g.tokens \div BLOCK /\ Paged!Total(g) \in Nat
  <2>1. g.tokens \div BLOCK \in Nat /\ g.tokens = BLOCK * (g.tokens \div BLOCK)
    BY <1>1
  <2>. DEFINE q == g.tokens \div BLOCK
  <2>2. (BLOCK * q + BLOCK - 1) \div BLOCK = q
    <3>. HIDE DEF q
    <3>1. q \in Nat => (BLOCK * q + BLOCK - 1) \div BLOCK = q
      BY <1>1
    <3>. QED  BY <2>1, <3>1 DEF q
  <2>. QED  BY <2>1, <2>2 DEF Paged!Total, Paged!BlocksFor
<1>3. C \in Nat /\ Looked = 0 .. C - 1 /\ C <= g.tokens \div BLOCK + SPARE
  <2>. DEFINE t == Paged!Total(g)
              q == g.tokens \div BLOCK
  <2>2. t \in Nat /\ t = q
    BY <1>2, Zenon
  <2>. HIDE DEF t, q
  <2>3. t \div g.layers \in Nat /\ t \div g.layers <= t
    BY <1>1, <2>2, DivFacts, Zenon
  <2>. DEFINE d == t \div g.layers
              L == d + SPARE
  <2>4. C = L /\ Looked = 0 .. d + SPARE - 1
    BY Zenon DEF t, Looked, Paged!LookedAt
  <2>. HIDE DEF C, d
  <2>5. d + SPARE - 1 = L - 1 /\ L \in Nat /\ L <= q + SPARE
    BY <1>1, <2>2, <2>3 DEF d
  <2>. HIDE DEF L
  <2>. QED  BY <2>4, <2>5, Zenon DEF q
<1>4. Looked \subseteq Entries /\ Looked \subseteq Nat
  BY <1>1, <1>2, <1>3 DEF Entries, Paged!Entries
<1>5. Paged!Ids \subseteq Nat /\ IsFiniteSet(Paged!Ids) /\ -1 \notin Paged!Ids
  BY <1>2, FS_Interval DEF Shape, Paged!Ids
<1>. HIDE DEF C
<1>6. ASSUME NEW n \in Paged!Positions
      PROVE  /\ n \in Nat /\ n \div BLOCK \in Looked /\ n % BLOCK \in Nat
             /\ 0 .. Paged!BlocksFor(n) - 1 \subseteq Looked /\ 0 .. n \subseteq Paged!Positions
  <2>1. Cardinality(Looked) = C
    BY <1>3, FS_Interval
  <2>0. Paged!Positions = 0 .. C * BLOCK - 1
    BY <2>1, SameCardinality, Zenon DEF Paged!Positions, Looked
  <2>2. n \in Nat /\ n < C * BLOCK
    BY <1>1, <1>3, <2>0, Within
  <2>3. n + BLOCK - 1 \in Nat /\ n + BLOCK - 1 < (C + 1) * BLOCK
    BY <1>1, <1>3, <2>2
  <2>4. (n + BLOCK - 1) \div BLOCK < C + 1 /\ (n + BLOCK - 1) \div BLOCK \in Nat
    BY <1>1, <1>3, <2>3, DivFacts
  <2>5. n \div BLOCK < C /\ n \div BLOCK \in Nat /\ n % BLOCK \in Nat
    BY <1>1, <1>3, <2>2, DivFacts
  <2>6. 0 .. n \subseteq Paged!Positions
    <3>1. C * BLOCK \in Nat
      BY <1>1, <1>3
    <3>2. \A x \in Nat : n < x => 0 .. n \subseteq 0 .. x - 1
      BY <2>2
    <3>. QED  BY <2>0, <2>2, <3>1, <3>2
  <2>. QED  BY <1>3, <2>2, <2>4, <2>5, <2>6 DEF Paged!BlocksFor
<1>. QED  BY <1>2, <1>4, <1>5, <1>6

-----------------------------------------------------------------------------
LEMMA PinTyped ==
  ASSUME Shape, NEW k \in DOMAIN pins
  PROVE  /\ pins[k].num_tokens \in Paged!Positions \ {0}
         /\ pins[k].tables \in [Paged!Layers -> [0 .. Paged!BlocksFor(pins[k].num_tokens) - 1 -> Places]]
<1>1. pins[k] \in PinTypes
  BY DEF Shape
<1>. QED  BY <1>1 DEF PinTypes

\* A block that is taken away is nobody's any more.
LEMMA EvictGood ==
  ASSUME Shape, NEW p \in GoodPools
  PROVE  /\ Paged!EvictOne(p) \in GoodPools
         /\ \A l \in Paged!Layers, b \in Entries : p.tables[l][b] = -1 => Paged!EvictOne(p).tables[l][b] = -1
<1>. DEFINE can == {i \in Paged!Ids : p.num_tokens[i] > 0} \ Paged!Pinned
            i == Paged!Min(can)
            q == [num_tokens |-> [p.num_tokens EXCEPT ![i] = 0], free |-> p.free + 1, tables |-> Paged!Unbind(p.tables, i)]
<1>1. CASE can = {}
  BY <1>1 DEF Paged!EvictOne
<1>2. CASE can # {}
  <2>1. Paged!EvictOne(p) = q
    BY <1>2 DEF Paged!EvictOne
  <2>2. i \in Paged!Ids /\ p.num_tokens[i] > 0 /\ i \notin Paged!Pinned
    BY <1>2, MinIn, Sizes
  <2>. HIDE DEF i
  <2>3. p \in Pools /\ NamedOK(p) /\ OwnOK(p) /\ FreeOK(p)
    BY DEF GoodPools
  <2>4. /\ q.tables \in [Paged!Layers -> [Entries -> Places]]
        /\ \A l \in Paged!Layers, b \in Entries : q.tables[l][b] = IF b \in Looked /\ p.tables[l][b] = i THEN -1 ELSE p.tables[l][b]
    BY <2>3 DEF Pools, Paged!Unbind, Paged!Unbound, Looked, Places
  <2>5. /\ q.num_tokens \in [Paged!Ids -> Nat] /\ q.num_tokens[i] = 0
        /\ \A j \in Paged!Ids \ {i} : q.num_tokens[j] = p.num_tokens[j]
    BY <2>2, <2>3 DEF Pools
  <2>6. q \in Pools
    BY <2>3, <2>4, <2>5 DEF Pools
  <2>7. ASSUME NEW l \in Paged!Layers, NEW b \in Entries, NEW j \in Paged!Ids, Names(q, l, b, j)
        PROVE  Names(p, l, b, j) /\ j # i
    <3>1. CASE PinNames(l, b, j)
      <4>1. j \in Paged!Pinned
        BY <3>1, PinTyped DEF PinNames, Paged!Pinned
      <4>. QED  BY <2>2, <3>1, <4>1 DEF Names
    <3>2. CASE q.tables[l][b] = j
      <4>1. p.tables[l][b] = j /\ ~(b \in Looked /\ p.tables[l][b] = i)
        BY <2>4, <3>2, Sizes
      <4>2. Names(p, l, b, j) /\ b \in Looked
        BY <2>3, <4>1 DEF NamedOK, Names
      <4>. QED  BY <4>1, <4>2
    <3>. QED  BY <2>7, <3>1, <3>2 DEF Names
  <2>8. NamedOK(q)
    BY <2>3, <2>5, <2>7 DEF NamedOK
  <2>9. OwnOK(q)
    BY <2>3, <2>7 DEF OwnOK
  <2>10. FreeOK(q)
    <3>1. Paged!Free(q) = Paged!Free(p) \cup {i} /\ i \notin Paged!Free(p)
      BY <2>2, <2>5 DEF Paged!Free
    <3>2. IsFiniteSet(Paged!Free(p))
      BY Sizes, FS_Subset DEF Paged!Free
    <3>. QED  BY <2>3, <3>1, <3>2, FS_AddElement DEF FreeOK
  <2>. QED  BY <2>1, <2>4, <2>6, <2>8, <2>9, <2>10 DEF GoodPools
<1>. QED  BY <1>1, <1>2

\* A token's block: it is named once it is, and counted when it has a token.
LEMMA AllocGood ==
  ASSUME Shape, NEW p \in GoodPools, NEW l \in Paged!Layers, NEW b \in Looked, NEW n \in Nat \ {0}, p.tables[l][b] = -1
  PROVE  Paged!GetOrAlloc(Paged!Bind(p, l, b), l, b, n) \in GoodPools
<1>. DEFINE r == Paged!GetOrAlloc(Paged!Bind(p, l, b), l, b, n)
            i == Paged!Min(Paged!Free(p))
<1>1. p \in Pools /\ NamedOK(p) /\ OwnOK(p) /\ FreeOK(p)
  BY DEF GoodPools
<1>2. CASE Paged!Free(p) = {}
  BY <1>2 DEF Paged!Bind, Paged!GetOrAlloc, Paged!Filled, Paged!Unbound
<1>3. CASE Paged!Free(p) # {}
  <2>1. i \in Paged!Ids /\ p.num_tokens[i] = 0 /\ i # -1
    BY <1>3, MinIn, Sizes DEF Paged!Free
  <2>. DEFINE q == [num_tokens |-> p.num_tokens, free |-> p.free - 1, tables |-> [p.tables EXCEPT ![l][b] = i]]
  <2>2. Paged!Bind(p, l, b) = q
    BY <1>3 DEF Paged!Bind
  <2>. HIDE DEF i
  <2>3. q.tables[l][b] = i /\ q.num_tokens = p.num_tokens /\ q.free = p.free - 1 /\ q.tables = [p.tables EXCEPT ![l][b] = i]
    BY <1>1, Sizes DEF Pools
  <2>. HIDE DEF q
  <2>4. r = [q EXCEPT !.num_tokens[i] = IF @ > n THEN @ ELSE n]
    BY <2>1, <2>2, <2>3 DEF Paged!GetOrAlloc, Paged!Filled, Paged!Unbound
  <2>5. r = [num_tokens |-> [p.num_tokens EXCEPT ![i] = n], free |-> p.free - 1, tables |-> [p.tables EXCEPT ![l][b] = i]]
    <3>1. p.num_tokens \in [Paged!Ids -> Nat]
      BY <1>1 DEF Pools
    <3>2. r = [[num_tokens |-> p.num_tokens, free |-> p.free - 1, tables |-> [p.tables EXCEPT ![l][b] = i]]
               EXCEPT !.num_tokens[i] = IF @ > n THEN @ ELSE n]
      BY <2>4 DEF q
    <3>. HIDE DEF r
    <3>. QED  BY <2>1, <3>1, <3>2, Fills
  <2>. HIDE DEF r
  <2>6. /\ r.num_tokens \in [Paged!Ids -> Nat] /\ r.num_tokens[i] = n /\ r.free = p.free - 1
        /\ \A j \in Paged!Ids \ {i} : r.num_tokens[j] = p.num_tokens[j]
    BY <1>1, <2>1, <2>5 DEF Pools
  <2>7. /\ r.tables \in [Paged!Layers -> [Entries -> Places]]
        /\ \A m \in Paged!Layers, c \in Entries : r.tables[m][c] = IF m = l /\ c = b THEN i ELSE p.tables[m][c]
    BY <1>1, <2>1, <2>5, Sizes DEF Pools, Places
  <2>8. r \in Pools
    BY <1>1, <2>5, <2>6, <2>7 DEF Pools
  <2>9. ASSUME NEW m \in Paged!Layers, NEW c \in Entries, NEW j \in Paged!Ids, Names(r, m, c, j)
        PROVE  IF j = i THEN m = l /\ c = b ELSE Names(p, m, c, j)
    <3>1. ~Names(p, m, c, i)
      BY <1>1, <2>1 DEF NamedOK
    <3>. QED  BY <2>7, <2>9, <3>1 DEF Names
  <2>10. NamedOK(r)
    BY <1>1, <2>6, <2>9, Sizes DEF NamedOK
  <2>11. OwnOK(r)
    BY <1>1, <2>9 DEF OwnOK
  <2>12. FreeOK(r)
    <3>1. Paged!Free(r) = Paged!Free(p) \ {i} /\ i \in Paged!Free(p)
      BY <2>1, <2>6 DEF Paged!Free
    <3>2. IsFiniteSet(Paged!Free(p))
      BY Sizes, FS_Subset DEF Paged!Free
    <3>. QED  BY <1>1, <2>6, <3>1, <3>2, FS_RemoveElement DEF FreeOK
  <2>. QED  BY <2>8, <2>10, <2>11, <2>12 DEF GoodPools, r
<1>. QED  BY <1>2, <1>3

LEMMA GetGood ==
  ASSUME Shape, NEW p \in GoodPools, NEW l \in Paged!Layers, NEW pos \in Paged!Positions
  PROVE  Paged!vitna_kv_cache_get_or_alloc(p, l, pos) \in GoodPools
<1>. DEFINE b == pos \div BLOCK
            n == (pos % BLOCK) + 1
<1>1. b \in Looked /\ b \in Entries /\ n \in Nat \ {0}
  BY Sizes
<1>2. Paged!vitna_kv_cache_get_or_alloc(p, l, pos) = Paged!GetOrAlloc(Paged!Bound(p, l, b), l, b, n)
  BY DEF Paged!vitna_kv_cache_get_or_alloc
<1>. HIDE DEF b, n
<1>3. CASE p.tables[l][b] # -1
  <2>. DEFINE i == p.tables[l][b]
              r == [p EXCEPT !.num_tokens[i] = IF @ > n THEN @ ELSE n]
  <2>1. Paged!GetOrAlloc(Paged!Bound(p, l, b), l, b, n) = r
    BY <1>3 DEF Paged!Bound, Paged!GetOrAlloc, Paged!Filled, Paged!Unbound
  <2>2. p \in Pools /\ NamedOK(p) /\ OwnOK(p) /\ FreeOK(p) /\ i \in Paged!Ids
    BY <1>1, <1>3 DEF GoodPools, Pools, Places
  <2>3. p.num_tokens[i] > 0
    BY <1>1, <2>2 DEF NamedOK, Names
  <2>. HIDE DEF i
  <2>4. /\ r \in Pools /\ r.tables = p.tables /\ r.free = p.free
        /\ \A j \in Paged!Ids : r.num_tokens[j] > 0 <=> p.num_tokens[j] > 0
    BY <1>1, <2>2, <2>3 DEF Pools
  <2>. HIDE DEF r
  <2>5. NamedOK(r) /\ OwnOK(r)
    BY <2>2, <2>4 DEF NamedOK, OwnOK, Names
  <2>6. Paged!Free(r) = Paged!Free(p)
    BY <2>2, <2>4 DEF Paged!Free, Pools
  <2>. QED  BY <1>2, <2>1, <2>2, <2>4, <2>5, <2>6 DEF GoodPools, FreeOK
<1>4. CASE p.tables[l][b] = -1 /\ Paged!Free(p) # {}
  BY <1>1, <1>2, <1>4, AllocGood DEF Paged!Bound, Paged!Unbound
<1>5. CASE p.tables[l][b] = -1 /\ Paged!Free(p) = {}
  BY <1>1, <1>2, <1>5, AllocGood, EvictGood DEF Paged!Bound, Paged!Unbound
<1>. QED  BY <1>3, <1>4, <1>5

LEMMA EvictsGood ==
  ASSUME Shape, NEW p \in GoodPools, NEW n \in Nat
  PROVE  Paged!vitna_kv_cache_evict_lru(p, n) \in GoodPools
<1>. DEFINE Steps(h) == [k \in 0 .. n |-> IF k = 0 THEN p ELSE Paged!EvictOne(h[k - 1])]
            after == CHOOSE h : h = Steps(h)
            Ks == {k \in Nat : k <= n => after[k] \in GoodPools}
<1>1. \E h : h = Steps(h)
  <2>. DEFINE F == [x \in GoodPools \X (1 .. n) |-> Paged!EvictOne(x[1])]
  <2>1. F \in [GoodPools \X (1 .. n) -> GoodPools]
    BY EvictGood
  <2>2. \A x \in GoodPools, k \in 1 .. n : F[<<x, k>>] = Paged!EvictOne(x)
    OBVIOUS
  <2>. HIDE DEF F
  <2>3. PICK g \in [0 .. n -> GoodPools] : g[0] = p /\ \A k \in 1 .. n : g[k] = F[<<g[k - 1], k>>]
    <3>1. Chained(GoodPools, p, n, F)
      BY <2>1, Iterated
    <3>. QED  BY <3>1, Zenon DEF Chained
  <2>4. ASSUME NEW k \in 0 .. n PROVE g[k] = IF k = 0 THEN p ELSE Paged!EvictOne(g[k - 1])
    <3>1. CASE k = 0
      BY <2>3, <3>1
    <3>2. CASE k # 0
      <4>1. k \in 1 .. n /\ k - 1 \in 0 .. n
        BY <3>2
      <4>2. g[k] = F[<<g[k - 1], k>>] /\ g[k - 1] \in GoodPools
        BY <2>3, <4>1
      <4>. QED  BY <2>2, <3>2, <4>1, <4>2
    <3>. QED  BY <3>1, <3>2
  <2>5. g = Steps(g)
    BY <2>3, <2>4, Zenon
  <2>. QED  BY <2>5
<1>2. after = Steps(after)
  BY <1>1
<1>3. Paged!vitna_kv_cache_evict_lru(p, n) = after[n]
  BY Zenon DEF Paged!vitna_kv_cache_evict_lru
<1>. HIDE DEF after
<1>4. 0 \in Ks
  BY <1>2
<1>5. ASSUME NEW k \in Nat, k \in Ks PROVE k + 1 \in Ks
  <2>1. SUFFICES ASSUME k + 1 <= n PROVE after[k + 1] \in GoodPools
    OBVIOUS
  <2>2. after[k] \in GoodPools
    BY <1>5, <2>1
  <2>3. k + 1 \in 0 .. n /\ k + 1 # 0 /\ (k + 1) - 1 = k
    BY <2>1
  <2>4. after[k + 1] = Paged!EvictOne(after[k])
    BY <1>2, <2>3
  <2>. QED  BY <2>2, <2>4, EvictGood
<1>6. n \in Ks
  <2>. HIDE DEF Ks
  <2>. QED  BY <1>4, <1>5, NatSet
<1>. QED  BY <1>3, <1>6

LEMMA PrefilledGood ==
  ASSUME Shape, NEW p \in GoodPools, NEW d \in Nat, NEW s \in Nat \ {0}, \A r \in 0 .. s - 1 : d + r \in Paged!Positions
  PROVE  Paged!Prefilled(p, d, s) \in GoodPools
<1>. DEFINE n == geometry.layers * s
            Got(q, k) == Paged!vitna_kv_cache_get_or_alloc(q, (k - 1) \div s, d + ((k - 1) % s))
            Steps(h) == [k \in 0 .. n |-> IF k = 0 THEN p ELSE Got(h[k - 1], k)]
            after == CHOOSE h : h = Steps(h)
            Ks == {k \in Nat : k <= n => after[k] \in GoodPools}
<1>1. geometry.layers \in Nat \ {0} /\ Paged!Layers = 0 .. geometry.layers - 1
  BY Assumptions DEF Shape, Paged!PagedAssumption, Paged!Layers
<1>2. n \in Nat
  BY <1>1
<1>3. Paged!Prefilled(p, d, s) = after[n]
  BY Zenon DEF Paged!Prefilled
<1>4. ASSUME NEW q \in GoodPools, NEW k \in 1 .. n PROVE Got(q, k) \in GoodPools
  <2>1. k - 1 \in Nat /\ k - 1 < geometry.layers * s
    <3>. HIDE DEF n
    <3>1. k - 1 \in Nat /\ k - 1 < n
      BY <1>2
    <3>. QED  BY <3>1 DEF n
  <2>2. (k - 1) \div s \in Nat /\ (k - 1) \div s < geometry.layers /\ (k - 1) % s \in Nat /\ (k - 1) % s < s
    BY <1>1, <2>1, DivFacts
  <2>3. (k - 1) \div s \in Paged!Layers /\ d + ((k - 1) % s) \in Paged!Positions
    <3>1. (k - 1) % s \in 0 .. s - 1
      BY <2>2
    <3>2. (k - 1) \div s \in 0 .. geometry.layers - 1
      BY <1>1, <2>2
    <3>. QED  BY <1>1, <3>1, <3>2
  <2>. QED  BY <2>3, GetGood
<1>. HIDE DEF n, Got
<1>5. \E h : h = Steps(h)
  <2>. DEFINE F == [x \in GoodPools \X (1 .. n) |-> Got(x[1], x[2])]
  <2>1. F \in [GoodPools \X (1 .. n) -> GoodPools]
    BY <1>4
  <2>2. \A x \in GoodPools, k \in 1 .. n : F[<<x, k>>] = Got(x, k)
    OBVIOUS
  <2>. HIDE DEF F
  <2>3. PICK g \in [0 .. n -> GoodPools] : g[0] = p /\ \A k \in 1 .. n : g[k] = F[<<g[k - 1], k>>]
    <3>1. Chained(GoodPools, p, n, F)
      BY <1>2, <2>1, Iterated
    <3>. QED  BY <3>1, Zenon DEF Chained
  <2>4. ASSUME NEW k \in 0 .. n PROVE g[k] = IF k = 0 THEN p ELSE Got(g[k - 1], k)
    <3>1. CASE k = 0
      BY <2>3, <3>1
    <3>2. CASE k # 0
      <4>1. k \in 1 .. n /\ k - 1 \in 0 .. n
        BY <1>2, <3>2
      <4>2. g[k] = F[<<g[k - 1], k>>] /\ g[k - 1] \in GoodPools
        BY <2>3, <4>1
      <4>. QED  BY <2>2, <3>2, <4>1, <4>2
    <3>. QED  BY <3>1, <3>2
  <2>5. g = Steps(g)
    BY <2>3, <2>4, Zenon
  <2>. QED  BY <2>5
<1>6. after = Steps(after)
  BY <1>5
<1>. HIDE DEF after
<1>7. 0 \in Ks
  BY <1>2, <1>6
<1>8. ASSUME NEW k \in Nat, k \in Ks PROVE k + 1 \in Ks
  <2>1. SUFFICES ASSUME k + 1 <= n PROVE after[k + 1] \in GoodPools
    OBVIOUS
  <2>2. after[k] \in GoodPools
    BY <1>2, <1>8, <2>1
  <2>3. k + 1 \in 0 .. n /\ k + 1 \in 1 .. n /\ k + 1 # 0 /\ (k + 1) - 1 = k
    BY <1>2, <2>1
  <2>4. after[k + 1] = Got(after[k], k + 1)
    BY <1>6, <2>3
  <2>. QED  BY <1>4, <2>2, <2>3, <2>4
<1>9. n \in Ks
  <2>. HIDE DEF Ks
  <2>. QED  BY <1>2, <1>7, <1>8, NatSet
<1>. QED  BY <1>2, <1>3, <1>9

-----------------------------------------------------------------------------
PrefillOK ==
  /\ prefill \in [total : Paged!Positions \cup {0}, processed : Nat, chunk : Nat \ {0}, taken : Nat]
  /\ prefill.processed <= prefill.total

PagedInv == Shape /\ Paged!Pool \in GoodPools /\ PrefillOK

LEMMA PagedInit ==
  ASSUME Paged!Init
  PROVE  PagedInv
<1>1. Shape
  BY DEF Shape, Paged!Init
<1>2. /\ Paged!Ids = 0 .. Paged!Total(geometry) - 1 /\ Paged!Total(geometry) \in Nat
      /\ num_tokens = [i \in Paged!Ids |-> 0] /\ free_blocks = Paged!Total(geometry)
      /\ tables = [l \in Paged!Layers |-> [b \in Entries |-> -1]] /\ pins = <<>>
  BY <1>1, Sizes DEF Paged!Init, Paged!Ids, Entries, Paged!Unbound
<1>3. Paged!Pool \in Pools
  BY <1>2 DEF Pools, Paged!Pool, Places
<1>4. \A l \in Paged!Layers, b \in Entries, i \in Paged!Ids : ~Names(Paged!Pool, l, b, i)
  BY <1>1, <1>2, Sizes DEF Names, PinNames, Paged!Pool
<1>5. FreeOK(Paged!Pool)
  <2>1. Paged!Free(Paged!Pool) = 0 .. Paged!Total(geometry) - 1
    BY <1>2 DEF Paged!Free, Paged!Pool
  <2>2. Cardinality(0 .. Paged!Total(geometry) - 1) = Paged!Total(geometry)
    BY <1>2, FS_Interval
  <2>. QED  BY <1>2, <2>1, <2>2 DEF FreeOK, Paged!Pool
<1>6. PrefillOK
  BY Assumptions DEF Paged!Init, PrefillOK, Paged!PagedAssumption
<1>. QED  BY <1>1, <1>3, <1>4, <1>5, <1>6 DEF PagedInv, GoodPools, NamedOK, OwnOK

\* A pool that is good is good when it becomes the cache's.
LEMMA Become ==
  ASSUME Shape, NEW q \in GoodPools, Paged!Becomes(q), UNCHANGED <<geometry, pins>>
  PROVE  Shape' /\ Paged!Pool' \in GoodPools' /\ Paged!Positions' = Paged!Positions
<1>1. q \in Pools /\ NamedOK(q) /\ OwnOK(q) /\ FreeOK(q)
  BY DEF GoodPools
<1>2. Paged!Ids' = Paged!Ids
  BY <1>1 DEF Paged!Becomes, Pools, Paged!Ids
<1>3. /\ Paged!Positions' = Paged!Positions /\ Paged!Layers' = Paged!Layers /\ Entries' = Entries
      /\ Looked' = Looked /\ Places' = Places /\ PinTypes' = PinTypes /\ Pools' = Pools
  BY <1>2 DEF Paged!Positions, Paged!LookedAt, Paged!Layers, Entries, Looked, Places, PinTypes, Pools
<1>4. Shape'
  BY <1>2, <1>3 DEF Shape, Paged!Ids
<1>5. Paged!Pool' = q
  BY <1>1 DEF Paged!Becomes, Paged!Pool, Pools
<1>6. q \in GoodPools'
  BY <1>1, <1>2, <1>3 DEF GoodPools, NamedOK, OwnOK, FreeOK, Names, PinNames, Paged!Free
<1>. QED  BY <1>3, <1>4, <1>5, <1>6

LEMMA Appended ==
  ASSUME NEW S, NEW s \in Seq(S), NEW e \in S
  PROVE  /\ DOMAIN Append(s, e) = 1 .. Len(s) + 1 /\ DOMAIN s = 1 .. Len(s) /\ Len(s) \in Nat
         /\ Append(s, e)[Len(s) + 1] = e
OBVIOUS

LEMMA PinGood ==
  ASSUME PagedInv, NEW h \in Hashes, NEW n \in Paged!Positions \ {0}, Paged!vitna_kv_cache_pin_prefix(h, n)
  PROVE  PagedInv'
<1>. DEFINE q == [hash |-> h, num_tokens |-> n,
                  tables |-> [l \in Paged!Layers |-> [b \in 0 .. Paged!BlocksFor(n) - 1 |-> tables[l][b]]]]
            p == Paged!Pool
<1>1. pins' = Append(pins, q) /\ UNCHANGED <<geometry, num_tokens, free_blocks, tables, prefill>>
  BY DEF Paged!vitna_kv_cache_pin_prefix, Paged!pool
<1>2. p \in Pools /\ NamedOK(p) /\ OwnOK(p) /\ FreeOK(p) /\ pins \in Seq(PinTypes)
  BY DEF PagedInv, GoodPools, Shape
<1>3. q \in PinTypes
  <2>1. q.tables \in [Paged!Layers -> [0 .. Paged!BlocksFor(n) - 1 -> Places]]
    BY <1>2, Sizes DEF PagedInv, Pools, Paged!Pool
  <2>. QED  BY <2>1 DEF PinTypes
<1>4. /\ Paged!Positions' = Paged!Positions /\ Paged!Layers' = Paged!Layers /\ Entries' = Entries /\ Looked' = Looked
      /\ Paged!Ids' = Paged!Ids /\ Places' = Places /\ PinTypes' = PinTypes /\ Pools' = Pools /\ Paged!Pool' = p
  BY <1>1 DEF Paged!Positions, Paged!LookedAt, Paged!Layers, Entries, Looked, Places, PinTypes, Pools, Paged!Ids, Paged!Pool
<1>. HIDE DEF p
<1>5. ASSUME NEW l \in Paged!Layers, NEW b \in Entries, NEW i \in Paged!Ids, Names(p, l, b, i)'
      PROVE  Names(p, l, b, i)
  <2>1. CASE p.tables[l][b] = i
    BY <2>1 DEF Names
  <2>2. CASE PinNames(l, b, i)'
    <3>1. PICK k \in DOMAIN pins' : b \in 0 .. Paged!BlocksFor(pins'[k].num_tokens) - 1 /\ pins'[k].tables[l][b] = i
      BY <2>2 DEF PinNames
    <3>2. CASE k \in DOMAIN pins
      BY <1>1, <1>2, <3>1, <3>2 DEF Names, PinNames
    <3>3. CASE k \notin DOMAIN pins
      <4>1. pins'[k] = q
        <5>. HIDE DEF q
        <5>1. /\ DOMAIN pins' = 1 .. Len(pins) + 1 /\ DOMAIN pins = 1 .. Len(pins) /\ Len(pins) \in Nat
              /\ pins'[Len(pins) + 1] = q
          <6>1. pins \in Seq(PinTypes) /\ q \in PinTypes /\ pins' = Append(pins, q)
            BY <1>1, <1>2, <1>3
          <6>. QED  BY <6>1, Appended
        <5>2. k = Len(pins) + 1
          BY <1>2, <3>3, <5>1
        <5>. QED  BY <1>2, <5>1, <5>2
      <4>2. tables[l][b] = i
        BY <3>1, <4>1
      <4>. QED  BY <4>2 DEF Names, p, Paged!Pool
    <3>. QED  BY <3>2, <3>3
  <2>3. p' = p
    BY <1>4 DEF p
  <2>. QED  BY <1>5, <2>1, <2>2, <2>3 DEF Names
<1>6. Shape'
  BY <1>1, <1>2, <1>3, <1>4 DEF PagedInv, Shape
<1>7. p \in GoodPools'
  <2>1. NamedOK(p)' /\ OwnOK(p)'
    BY <1>2, <1>4, <1>5 DEF NamedOK, OwnOK, p
  <2>2. FreeOK(p)'
    BY <1>1, <1>2, <1>4 DEF FreeOK, Paged!Free, p
  <2>. QED  BY <1>2, <1>4, <2>1, <2>2 DEF GoodPools, p
<1>8. PrefillOK'
  BY <1>1, <1>4 DEF PagedInv, PrefillOK
<1>. QED  BY <1>4, <1>6, <1>7, <1>8 DEF PagedInv

LEMMA MatchGood ==
  ASSUME PagedInv, NEW h \in Hashes, Paged!vitna_kv_cache_match_prefix(h)
  PROVE  PagedInv'
<1>. DEFINE p == Paged!Pool
            Hits == {k \in 1 .. Len(pins) : pins[k].hash = h}
            nth_pin == Paged!SelectInSeq(pins, LAMBDA x : x.hash = h)
            of_pin(l) == pins[nth_pin].tables[l]
            t == [l \in Paged!Layers |-> [b \in DOMAIN tables[l] |-> IF b \in DOMAIN of_pin(l) THEN of_pin(l)[b] ELSE tables[l][b]]]
            q == [num_tokens |-> num_tokens, free |-> free_blocks, tables |-> t]
<1>1. nth_pin # 0 /\ tables' = t /\ UNCHANGED <<geometry, num_tokens, free_blocks, pins, prefill>>
  BY DEF Paged!vitna_kv_cache_match_prefix
<1>2. nth_pin \in DOMAIN pins
  <2>1. nth_pin = IF Hits # {} THEN Paged!Min(Hits) ELSE 0
    BY DEF Paged!SelectInSeq
  <2>2. Hits \subseteq Nat /\ Hits \subseteq DOMAIN pins
    BY DEF PagedInv, Shape
  <2>. HIDE DEF Hits, nth_pin
  <2>. QED  BY <1>1, <2>1, <2>2, MinIn
<1>. HIDE DEF nth_pin
<1>3. p \in Pools /\ NamedOK(p) /\ OwnOK(p) /\ FreeOK(p)
  BY DEF PagedInv, GoodPools
<1>4. ASSUME NEW l \in Paged!Layers
      PROVE  /\ tables[l] \in [Entries -> Places] /\ DOMAIN of_pin(l) \subseteq Entries
             /\ \A b \in DOMAIN of_pin(l) : /\ of_pin(l)[b] \in Places
                                              /\ \A i \in Paged!Ids : of_pin(l)[b] = i => PinNames(l, b, i)
  <2>1. /\ pins[nth_pin].num_tokens \in Paged!Positions \ {0}
        /\ pins[nth_pin].tables \in [Paged!Layers -> [0 .. Paged!BlocksFor(pins[nth_pin].num_tokens) - 1 -> Places]]
    BY <1>2, PinTyped DEF PagedInv
  <2>2. tables[l] \in [Entries -> Places]
    BY <1>3 DEF Pools, Paged!Pool
  <2>3. 0 .. Paged!BlocksFor(pins[nth_pin].num_tokens) - 1 \subseteq Entries
    BY <2>1, Sizes DEF PagedInv
  <2>. QED  BY <1>2, <2>1, <2>2, <2>3 DEF PinNames
<1>5. t \in [Paged!Layers -> [Entries -> Places]]
  BY <1>4
<1>6. q \in Pools
  BY <1>3, <1>5 DEF Pools, Paged!Pool
<1>7. ASSUME NEW l \in Paged!Layers, NEW b \in Entries, NEW i \in Paged!Ids, Names(q, l, b, i)
      PROVE  Names(p, l, b, i)
  <2>1. CASE t[l][b] = i
    <3>1. t[l][b] = IF b \in DOMAIN of_pin(l) THEN of_pin(l)[b] ELSE tables[l][b]
      BY <1>4
    <3>. QED  BY <1>4, <2>1, <3>1 DEF Names, Paged!Pool
  <2>. QED  BY <1>7, <2>1 DEF Names
<1>8. q \in GoodPools
  <2>. HIDE DEF t
  <2>1. NamedOK(q) /\ OwnOK(q)
    BY <1>3, <1>7 DEF NamedOK, OwnOK, Paged!Pool
  <2>2. FreeOK(q)
    BY <1>3 DEF FreeOK, Paged!Free, Paged!Pool
  <2>. QED  BY <1>6, <2>1, <2>2 DEF GoodPools
<1>. QED
  <2>1. Paged!Becomes(q)
    BY <1>1 DEF Paged!Becomes
  <2>. HIDE DEF q
  <2>. QED  BY <1>1, <1>8, <2>1, Become DEF PagedInv, PrefillOK

LEMMA PagedNext ==
  ASSUME PagedInv, Paged!Next
  PROVE  PagedInv'
<1>1. ASSUME NEW l \in Paged!Layers, NEW pos \in Paged!Positions, Paged!Append1(l, pos)
      PROVE  PagedInv'
  <2>1. Paged!vitna_kv_cache_get_or_alloc(Paged!Pool, l, pos) \in GoodPools
    BY GetGood DEF PagedInv
  <2>. QED  BY <1>1, <2>1, Become DEF Paged!Append1, PagedInv, PrefillOK
<1>2. ASSUME NEW n \in 1 .. 2, Paged!Evict(n)
      PROVE  PagedInv'
  <2>1. Paged!vitna_kv_cache_evict_lru(Paged!Pool, n) \in GoodPools
    BY EvictsGood DEF PagedInv
  <2>. QED  BY <1>2, <2>1, Become DEF Paged!Evict, PagedInv, PrefillOK
<1>3. ASSUME NEW h \in Hashes, NEW n \in Paged!Positions \cap 1 .. MaxPrompt, Paged!vitna_kv_cache_pin_prefix(h, n)
      PROVE  PagedInv'
  <2>1. n \in Paged!Positions \ {0}
    OBVIOUS
  <2>. QED  BY <1>3, <2>1, PinGood
<1>4. ASSUME NEW h \in Hashes, Paged!vitna_kv_cache_match_prefix(h)
      PROVE  PagedInv'
  BY <1>4, MatchGood
<1>5. ASSUME NEW n \in Paged!Positions \cap 1 .. MaxPrompt, NEW chunk \in 0 .. BLOCK + 1, Paged!vitna_chunked_prefill_init(n, chunk)
      PROVE  PagedInv'
  <2>. DEFINE c == IF chunk > 0 THEN chunk ELSE CHUNK
  <2>1. UNCHANGED <<geometry, num_tokens, free_blocks, tables, pins>> /\ Paged!Becomes(Paged!Pool)
    BY <1>5 DEF Paged!vitna_chunked_prefill_init, Paged!pool, Paged!Becomes, Paged!Pool
  <2>2. Shape' /\ Paged!Pool' \in GoodPools' /\ Paged!Positions' = Paged!Positions
    BY <2>1, Become DEF PagedInv
  <2>3. c \in Nat \ {0} /\ n \in Nat
    BY <1>5, Assumptions DEF Paged!PagedAssumption
  <2>4. prefill' = [prefill EXCEPT !.total = n, !.processed = 0, !.chunk = c]
    BY <1>5 DEF Paged!vitna_chunked_prefill_init
  <2>. HIDE DEF c
  <2>5. PrefillOK'
    <3>1. prefill \in [total : Paged!Positions \cup {0}, processed : Nat, chunk : Nat \ {0}, taken : Nat]
      BY DEF PagedInv, PrefillOK
    <3>2. prefill' = [total |-> n, processed |-> 0, chunk |-> c, taken |-> prefill.taken] /\ prefill.taken \in Nat
      BY <2>4, <3>1
    <3>. QED  BY <2>2, <2>3, <3>2 DEF PrefillOK
  <2>. QED  BY <2>2, <2>5 DEF PagedInv
<1>6. ASSUME Paged!vitna_chunked_prefill_step
      PROVE  PagedInv'
  <2>. DEFINE left == prefill.total - prefill.processed
              s == Paged!Min({left, prefill.chunk})
  <2>1. /\ prefill.total \in Nat /\ prefill.processed \in Nat /\ prefill.chunk \in Nat \ {0}
        /\ prefill.processed < prefill.total /\ prefill.total \in Paged!Positions
    BY <1>6, Sizes DEF PagedInv, PrefillOK, Paged!vitna_chunked_prefill_step
  <2>2. s \in Nat \ {0} /\ s <= left
    <3>1. left \in Nat \ {0}
      BY <2>1
    <3>2. {left, prefill.chunk} \subseteq Nat
      BY <2>1, <3>1
    <3>. HIDE DEF left
    <3>3. s \in {left, prefill.chunk} /\ s <= left
      BY <3>2, MinIn
    <3>. QED  BY <2>1, <3>1, <3>3
  <2>3. /\ Paged!Becomes(Paged!Prefilled(Paged!Pool, prefill.processed, s)) /\ UNCHANGED <<geometry, pins>>
        /\ prefill' = [prefill EXCEPT !.processed = @ + s, !.taken = @ + 1]
    BY <1>6 DEF Paged!vitna_chunked_prefill_step
  <2>. HIDE DEF s
  <2>4. \A r \in 0 .. s - 1 : prefill.processed + r \in Paged!Positions
    <3>1. \A r \in 0 .. s - 1 : prefill.processed + r \in 0 .. prefill.total
      BY <2>1, <2>2
    <3>. QED  BY <2>1, <3>1, Sizes DEF PagedInv
  <2>5. Paged!Prefilled(Paged!Pool, prefill.processed, s) \in GoodPools
    BY <2>1, <2>2, <2>4, PrefilledGood DEF PagedInv
  <2>6. Shape' /\ Paged!Pool' \in GoodPools' /\ Paged!Positions' = Paged!Positions
    BY <2>3, <2>5, Become DEF PagedInv
  <2>7. PrefillOK'
    <3>1. prefill \in [total : Paged!Positions \cup {0}, processed : Nat, chunk : Nat \ {0}, taken : Nat]
      BY DEF PagedInv, PrefillOK
    <3>2. prefill' = [total |-> prefill.total, processed |-> prefill.processed + s, chunk |-> prefill.chunk, taken |-> prefill.taken + 1]
      BY <2>3, <3>1
    <3>3. prefill.processed + s \in Nat /\ prefill.processed + s <= prefill.total /\ prefill.taken + 1 \in Nat
      BY <2>1, <2>2, <3>1
    <3>. QED  BY <2>1, <2>6, <3>2, <3>3 DEF PrefillOK
  <2>. QED  BY <2>6, <2>7 DEF PagedInv
<1>. QED  BY <1>1, <1>2, <1>3, <1>4, <1>5, <1>6 DEF Paged!Next

LEMMA PagedStutter ==
  ASSUME PagedInv, UNCHANGED paged_vars
  PROVE  PagedInv'
<1>1. UNCHANGED <<geometry, num_tokens, free_blocks, tables, pins, prefill>> /\ Paged!Becomes(Paged!Pool)
  BY DEF paged_vars, Paged!Becomes, Paged!Pool
<1>. QED  BY <1>1, Become DEF PagedInv, PrefillOK

\* No two stretches share a block, and the free ones are counted.
LEMMA Own ==
  ASSUME PagedInv
  PROVE  Paged!BlocksAreOwn
<1>1. Paged!Pool \in Pools /\ NamedOK(Paged!Pool) /\ OwnOK(Paged!Pool) /\ FreeOK(Paged!Pool) /\ Shape
  BY DEF PagedInv, GoodPools
<1>2. ASSUME NEW s \in Paged!Stretches, NEW t \in Paged!Stretches, tables[s[1]][s[2]] = tables[t[1]][t[2]]
      PROVE  s = t \/ tables[s[1]][s[2]] = Paged!Unbound
  <2>1. s[1] \in Paged!Layers /\ s[2] \in Entries /\ t[1] \in Paged!Layers /\ t[2] \in Entries
    BY DEF Paged!Stretches, Entries
  <2>2. s = <<s[1], s[2]>> /\ t = <<t[1], t[2]>>
    BY DEF Paged!Stretches
  <2>3. tables[s[1]][s[2]] \in Paged!Ids \cup {-1}
    BY <1>1, <2>1 DEF Pools, Paged!Pool, Places
  <2>. QED  BY <1>1, <1>2, <2>1, <2>2, <2>3 DEF OwnOK, Names, Paged!Pool, Paged!Unbound
<1>3. free_blocks = Paged!Cardinality(Paged!Free(Paged!Pool))
  BY <1>1, SameCardinality DEF FreeOK, Paged!Pool
<1>4. ASSUME NEW i \in Paged!Pinned \cap Paged!Ids
      PROVE  num_tokens[i] > 0
  <2>1. PICK k \in DOMAIN pins, l \in Paged!Layers :
          \E b \in 0 .. Paged!BlocksFor(pins[k].num_tokens) - 1 : pins[k].tables[l][b] = i
    BY DEF Paged!Pinned
  <2>0. PICK b \in 0 .. Paged!BlocksFor(pins[k].num_tokens) - 1 : pins[k].tables[l][b] = i
    BY <2>1
  <2>2. b \in Entries
    BY <1>1, PinTyped, Sizes
  <2>3. Names(Paged!Pool, l, b, i)
    BY <2>0 DEF Names, PinNames
  <2>. QED  BY <1>1, <2>2, <2>3 DEF NamedOK, Paged!Pool
<1>. QED  BY <1>2, <1>3, <1>4 DEF Paged!BlocksAreOwn

-----------------------------------------------------------------------------
(* A model's files.  What is mapped is a shard's and what is allocated is a    *)
(* shard's path or a bound weight's, so freeing those frees everything; and    *)
(* the shards a weight is looked for in are those the index was held against. *)

IsSequence(s) == s \in Seq({s[k] : k \in DOMAIN s})

LEMMA SameSequences == \A s : Reply!IsSequence(s) <=> IsSequence(s)
BY DEF Reply!IsSequence, IsSequence

LEMMA AppendedAny ==
  ASSUME NEW s, IsSequence(s), NEW e
  PROVE  /\ DOMAIN s = 1 .. Len(s) /\ Len(s) \in Nat
         /\ DOMAIN Append(s, e) = 1 .. Len(s) + 1 /\ Append(s, e)[Len(s) + 1] = e
         /\ \A k \in DOMAIN s : Append(s, e)[k] = s[k]
         /\ IsSequence(Append(s, e))
BY Reply!AppendedAny, SameSequences

HeldOK ==
  /\ mapped \subseteq DOMAIN shards
  /\ heap \subseteq {Weights!PathOf(k) : k \in DOMAIN shards} \cup {bound[k].weight.name : k \in DOMAIN bound}
  /\ pc \in {"config", "failed", "freed", "starved"} => mapped = {} /\ heap = {}

FoundOK ==
  /\ pc \in {"config", "open"} => bound = <<>>
  /\ pc = "bind" /\ Weights!Indexed => Weights!IndexTrue
  /\ \A k \in DOMAIN bound : /\ Weights!Indexed => Weights!IndexTrue
                            /\ bound[k].shard = Weights!find_tensor(shards, bound[k].weight.name)[1]

WeightsInv == IsSequence(shards) /\ IsSequence(bound) /\ HeldOK /\ FoundOK

LEMMA Emptied ==
  IsSequence(<<>>) /\ DOMAIN <<>> = {}
<1>1. <<>> \in Seq({}) /\ DOMAIN <<>> = {}
  OBVIOUS
<1>. QED  BY <1>1 DEF IsSequence

LEMMA WeightsInit ==
  ASSUME Weights!Init
  PROVE  WeightsInv
BY Emptied DEF Weights!Init, WeightsInv, HeldOK, FoundOK

LEMMA WeightsFree ==
  ASSUME WeightsInv, NEW end \in {"failed", "freed", "starved"}, Weights!Free(end), UNCHANGED dir
  PROVE  WeightsInv'
<1>1. /\ pc' = end /\ shards' = <<>> /\ bound' = <<>>
      /\ mapped' = {} /\ heap' = {}
  BY SMTT(20) DEF Weights!Free, WeightsInv, HeldOK
<1>. QED  BY <1>1, Emptied DEF WeightsInv, HeldOK, FoundOK

LEMMA WeightsNext ==
  ASSUME WeightsInv, Weights!Next
  PROVE  WeightsInv'
<1>. USE DEF WeightsInv, HeldOK, FoundOK, Weights!Indexed, Weights!IndexTrue
<1>1. CASE Weights!ReadConfig
  BY <1>1, Emptied, SMTT(20) DEF Weights!ReadConfig
<1>2. CASE Weights!NoMemory
  BY <1>2, WeightsFree DEF Weights!NoMemory
<1>3. CASE Weights!OpenShard
  <2>. DEFINE k == Len(shards) + 1
  <2>1. pc = "open" /\ bound = <<>> /\ UNCHANGED <<dir, bound>>
    BY <1>3 DEF Weights!OpenShard
  <2>2. \/ UNCHANGED <<shards, mapped, heap>> /\ pc' = "free"
        \/ /\ \E e : shards' = Append(shards, e)
           /\ mapped' = mapped \cup {k} /\ heap' = heap \cup {Weights!PathOf(k)} /\ UNCHANGED pc
    BY <1>3, Zenon DEF Weights!OpenShard, Weights!Refused
  <2>3. CASE UNCHANGED <<shards, mapped, heap>> /\ pc' = "free"
    BY <2>1, <2>3, Emptied
  <2>4. ASSUME NEW e, shards' = Append(shards, e), mapped' = mapped \cup {k}, heap' = heap \cup {Weights!PathOf(k)}, UNCHANGED pc
        PROVE  WeightsInv'
    <3>1. DOMAIN shards \subseteq DOMAIN shards' /\ k \in DOMAIN shards' /\ IsSequence(shards')
      BY <2>4, AppendedAny, SMTT(20)
    <3>. QED  BY <2>1, <2>4, <3>1, Emptied
  <2>. QED  BY <2>2, <2>3, <2>4
<1>4. CASE Weights!CheckOpened
  <2>1. pc = "open" /\ bound = <<>> /\ UNCHANGED <<dir, shards, mapped, bound, heap>>
    BY <1>4 DEF Weights!CheckOpened
  <2>2. pc' = "free" \/ (pc' = "bind" /\ (Weights!Indexed => Weights!IndexTrue))
    BY <1>4, SMTT(20) DEF Weights!CheckOpened
  <2>. QED  BY <2>1, <2>2, Emptied
<1>5. CASE Weights!Bind
  <2>. DEFINE w == Head(todo)
              at_ == Weights!find_tensor(shards, w.name)
  <2>1. pc = "bind" /\ UNCHANGED <<dir, shards, mapped>>
    BY <1>5 DEF Weights!Bind
  <2>2. \/ UNCHANGED <<bound, heap>> /\ pc' \in {"bind", "free"}
        \/ /\ \E t : bound' = Append(bound, [weight |-> w, shard |-> at_[1], tensor |-> t])
           /\ heap' \subseteq heap \cup {w.name} /\ UNCHANGED pc
    BY <1>5 DEF Weights!Bind
  <2>. HIDE DEF w, at_
  <2>3. CASE UNCHANGED <<bound, heap>> /\ pc' \in {"bind", "free"}
    BY <2>1, <2>3
  <2>4. ASSUME NEW t, bound' = Append(bound, [weight |-> w, shard |-> at_[1], tensor |-> t]),
               heap' \subseteq heap \cup {w.name}, UNCHANGED pc
        PROVE  WeightsInv'
    <3>. DEFINE b == [weight |-> w, shard |-> at_[1], tensor |-> t]
    <3>1. b.weight = w /\ b.shard = Weights!find_tensor(shards, w.name)[1]
      BY DEF at_
    <3>. HIDE DEF b
    <3>2. /\ DOMAIN bound' = DOMAIN bound \cup {Len(bound) + 1} /\ bound'[Len(bound) + 1] = b /\ IsSequence(bound')
          /\ \A k \in DOMAIN bound : bound'[k] = bound[k]
      <4>1. bound' = Append(bound, b) /\ IsSequence(bound)
        BY <2>4 DEF b
      <4>2. /\ DOMAIN bound = 1 .. Len(bound) /\ Len(bound) \in Nat
            /\ DOMAIN bound' = 1 .. Len(bound) + 1 /\ bound'[Len(bound) + 1] = b
            /\ \A k \in DOMAIN bound : bound'[k] = bound[k]
            /\ IsSequence(bound')
        BY <4>1, AppendedAny
      <4>. QED  BY <4>2
    <3>3. heap' \subseteq {Weights!PathOf(k) : k \in DOMAIN shards} \cup {bound'[k].weight.name : k \in DOMAIN bound'}
      BY <2>4, <3>1, <3>2
    <3>4. \A k \in DOMAIN bound' : bound'[k].shard = Weights!find_tensor(shards, bound'[k].weight.name)[1]
      BY <3>1, <3>2
    <3>. QED  BY <2>1, <2>4, <3>2, <3>3, <3>4
  <2>. QED  BY <2>2, <2>3, <2>4
<1>6. CASE Weights!Bound \/ Weights!Loaded
  BY <1>6 DEF Weights!Bound, Weights!Loaded
<1>7. CASE Weights!FreeFailed \/ Weights!vitna_llama_free
  BY <1>7, WeightsFree DEF Weights!FreeFailed, Weights!vitna_llama_free
<1>. QED  BY <1>1, <1>2, <1>3, <1>4, <1>5, <1>6, <1>7 DEF Weights!Next

LEMMA Kept ==
  ASSUME WeightsInv
  PROVE  Weights!NothingKept /\ \A k \in DOMAIN bound : Weights!FromListedFile(bound[k])
<1>1. Weights!NothingKept
  BY DEF WeightsInv, HeldOK, Weights!NothingKept
<1>2. ASSUME NEW k \in DOMAIN bound PROVE Weights!FromListedFile(bound[k])
  BY DEF WeightsInv, FoundOK, Weights!FromListedFile, Weights!IndexTrue
<1>. QED  BY <1>1, <1>2

-----------------------------------------------------------------------------
(* Sequences put one after another. *)

LEMMA Joined ==
  ASSUME NEW s, IsSequence(s), NEW t, IsSequence(t)
  PROVE  /\ IsSequence(s \o t) /\ Len(s \o t) = Len(s) + Len(t) /\ Len(s) \in Nat /\ Len(t) \in Nat
         /\ DOMAIN s = 1 .. Len(s) /\ DOMAIN t = 1 .. Len(t) /\ DOMAIN (s \o t) = 1 .. Len(s) + Len(t)
         /\ \A k \in 1 .. Len(s) : (s \o t)[k] = s[k]
         /\ \A k \in 1 .. Len(t) : (s \o t)[Len(s) + k] = t[k]
BY Reply!Concats, SameSequences

\* u is the m of s and then the n of t.
Joint(u, s, m, t, n) ==
  /\ IsSequence(u) /\ Len(u) = m + n
  /\ \A k \in 1 .. m : u[k] = s[k]
  /\ \A k \in 1 .. n : u[m + k] = t[k]

LEMMA Joins ==
  ASSUME NEW s, IsSequence(s), NEW t, IsSequence(t)
  PROVE  Joint(s \o t, s, Len(s), t, Len(t))
<1>. DEFINE u == s \o t
<1>1. /\ IsSequence(u) /\ Len(u) = Len(s) + Len(t)
      /\ \A k \in 1 .. Len(s) : u[k] = s[k]
      /\ \A k \in 1 .. Len(t) : u[Len(s) + k] = t[k]
  BY Joined
<1>. HIDE DEF u
<1>2. Joint(u, s, Len(s), t, Len(t))
  BY <1>1 DEF Joint
<1>. QED  BY <1>2 DEF u

LEMMA Two ==
  ASSUME NEW a, NEW b
  PROVE  IsSequence(<<a, b>>) /\ Len(<<a, b>>) = 2 /\ <<a, b>>[1] = a /\ <<a, b>>[2] = b
BY Reply!Two, SameSequences

\* What has been put together of ss after each of them.
Flat(ss, g) == /\ DOMAIN g = DOMAIN ss /\ FlattenSeq(ss) = g[Len(ss)]
               /\ g[1] = ss[1]
               /\ \A k \in 2 .. Len(ss) : g[k] = g[k - 1] \o ss[k]
               /\ \A k \in 1 .. Len(ss) : IsSequence(g[k])

LEMMA Flattened ==
  ASSUME NEW ss, IsSequence(ss), \A k \in DOMAIN ss : IsSequence(ss[k]), Len(ss) # 0
  PROVE  \E g : Flat(ss, g)
BY Reply!Flattened, SameSequences DEF Reply!Flat, Flat, Reply!FlattenSeq, FlattenSeq

-----------------------------------------------------------------------------
(* The weights of an embedding model: five of the embeddings, and sixteen of   *)
(* each layer, all of different names.                                        *)

PartAt == <<"q", "k", "v", "o", "attn_ln", "up", "down", "out_ln">>
NameIn(l, j) == <<l, PartAt[(j + 1) \div 2], IF j % 2 = 1 THEN "weight" ELSE "bias">>

EmbeddingAt == <<<<0, "word", "weight">>, <<0, "position", "weight">>, <<0, "token_type", "weight">>,
                 <<0, "emb_ln", "weight">>, <<0, "emb_ln", "bias">>>>
NameOf(k) == IF k <= 5 THEN EmbeddingAt[k] ELSE NameIn((k - 6) \div 16 + 1, ((k - 6) % 16) + 1)

PairFor(t, l, m) == IsSequence(t) /\ Len(t) = 2 /\ t[1].name = <<l, PartAt[m], "weight">> /\ t[2].name = <<l, PartAt[m], "bias">>
NamedTo(s, l, m) == IsSequence(s) /\ Len(s) = 2 * m /\ \A j \in 1 .. 2 * m : s[j].name = NameIn(l, j)

LEMMA NextPair ==
  ASSUME NEW l, NEW m \in 0 .. 7, NEW s, NamedTo(s, l, m), NEW t, PairFor(t, l, m + 1)
  PROVE  NamedTo(s \o t, l, m + 1)
<1>. USE DEF PairFor, NamedTo
<1>. DEFINE u == s \o t
<1>1. /\ IsSequence(u) /\ Len(u) = 2 * m + 2
      /\ \A k \in 1 .. 2 * m : u[k] = s[k]
      /\ \A k \in 1 .. 2 : u[2 * m + k] = t[k]
  <2>1. IsSequence(s) /\ IsSequence(t) /\ Len(s) = 2 * m /\ Len(t) = 2
    OBVIOUS
  <2>2. Joint(u, s, Len(s), t, Len(t))
    BY <2>1, Joins
  <2>. HIDE DEF u
  <2>. QED  BY <2>1, <2>2 DEF Joint
<1>. HIDE DEF u
<1>2. ASSUME NEW j \in 1 .. 2 * (m + 1) PROVE u[j].name = NameIn(l, j)
  <2>1. CASE j \in 1 .. 2 * m
    BY <1>1, <2>1
  <2>2. CASE j = 2 * m + 1
    <3>1. (j + 1) \div 2 = m + 1 /\ j % 2 = 1 /\ u[j] = t[1]
      BY <1>1, <2>2
    <3>. QED  BY <3>1 DEF NameIn
  <2>3. CASE j = 2 * m + 2
    <3>1. (j + 1) \div 2 = m + 1 /\ j % 2 = 0 /\ u[j] = t[2]
      BY <1>1, <2>3
    <3>. QED  BY <3>1 DEF NameIn
  <2>. QED  BY <2>1, <2>2, <2>3
<1>. QED  BY <1>1, <1>2 DEF u

LEMMA OfLayer ==
  ASSUME NEW l, NEW h, NEW i
  PROVE  LET s == Embedder!Layer(l, h, i)
         IN  IsSequence(s) /\ Len(s) = 16 /\ \A j \in 1 .. 16 : s[j].name = NameIn(l, j)
<1>. DEFINE Pair(t, m) == PairFor(t, l, m)
            Named(s, m) == NamedTo(s, l, m)
            q == Embedder!Dense(l, "q", h, h)
            k == Embedder!Dense(l, "k", h, h)
            v == Embedder!Dense(l, "v", h, h)
            o == Embedder!Dense(l, "o", h, h)
            a == Embedder!Norm(l, "attn_ln", h)
            up == Embedder!Dense(l, "up", i, h)
            down == Embedder!Dense(l, "down", h, i)
            out == Embedder!Norm(l, "out_ln", h)
<1>1. ASSUME NEW m \in 1 .. 8, NEW x, NEW y PROVE Pair(Embedder!Dense(l, PartAt[m], x, y), m) /\ Pair(Embedder!Norm(l, PartAt[m], x), m)
  <2>. DEFINE w == [name |-> <<l, PartAt[m], "weight">>, shape |-> <<x, y>>]
              n == [name |-> <<l, PartAt[m], "weight">>, shape |-> <<x>>]
              b == [name |-> <<l, PartAt[m], "bias">>, shape |-> <<x>>]
  <2>1. Embedder!Dense(l, PartAt[m], x, y) = <<w, b>> /\ Embedder!Norm(l, PartAt[m], x) = <<n, b>>
    BY DEF Embedder!Dense, Embedder!Norm
  <2>2. w.name = <<l, PartAt[m], "weight">> /\ n.name = <<l, PartAt[m], "weight">> /\ b.name = <<l, PartAt[m], "bias">>
    OBVIOUS
  <2>. HIDE DEF w, n, b
  <2>. QED  BY <2>1, <2>2, Two DEF PairFor
<1>2. Pair(q, 1) /\ Pair(k, 2) /\ Pair(v, 3) /\ Pair(o, 4) /\ Pair(a, 5) /\ Pair(up, 6) /\ Pair(down, 7) /\ Pair(out, 8)
  <2>1. /\ PartAt[1] = "q" /\ PartAt[2] = "k" /\ PartAt[3] = "v" /\ PartAt[4] = "o" /\ PartAt[5] = "attn_ln"
        /\ PartAt[6] = "up" /\ PartAt[7] = "down" /\ PartAt[8] = "out_ln"
    BY DEF PartAt
  <2>. HIDE DEF Pair
  <2>. QED  BY <1>1, <2>1
<1>3. ASSUME NEW m \in 0 .. 7, NEW s, Named(s, m), NEW t, Pair(t, m + 1) PROVE Named(s \o t, m + 1)
  <2>. HIDE DEF q, k, v, o, a, up, down, out
  <2>. QED  BY <1>3, NextPair
<1>. HIDE DEF q, k, v, o, a, up, down, out
<1>4. Named(q, 1)
  <2>1. NameIn(l, 1) = <<l, PartAt[1], "weight">> /\ NameIn(l, 2) = <<l, PartAt[1], "bias">>
    <3>1. (1 + 1) \div 2 = 1 /\ (2 + 1) \div 2 = 1 /\ 1 % 2 = 1 /\ 2 % 2 = 0
      OBVIOUS
    <3>. QED  BY <3>1 DEF NameIn
  <2>2. \A j \in 1 .. 2 * 1 : j = 1 \/ j = 2
    OBVIOUS
  <2>3. IsSequence(q) /\ Len(q) = 2 /\ q[1].name = <<l, PartAt[1], "weight">> /\ q[2].name = <<l, PartAt[1], "bias">>
    BY <1>2 DEF PairFor
  <2>. QED  BY <2>1, <2>2, <2>3 DEF NamedTo
<1>. HIDE DEF Pair, Named
<1>5. Named(q \o k, 2) /\ 1 \in 0 .. 7 /\ 2 \in 0 .. 7 /\ 3 \in 0 .. 7 /\ 4 \in 0 .. 7 /\ 5 \in 0 .. 7 /\ 6 \in 0 .. 7 /\ 7 \in 0 .. 7
  <2>1. Named(q \o k, 1 + 1)
    BY <1>2, <1>3, <1>4
  <2>. QED  BY <2>1
<1>6. Named(q \o k \o v, 3)
  BY <1>2, <1>3, <1>5
<1>7. Named(q \o k \o v \o o, 4)
  BY <1>2, <1>3, <1>5, <1>6
<1>8. Named(q \o k \o v \o o \o a, 5)
  BY <1>2, <1>3, <1>5, <1>7
<1>9. Named(q \o k \o v \o o \o a \o up, 6)
  BY <1>2, <1>3, <1>5, <1>8
<1>10. Named(q \o k \o v \o o \o a \o up \o down, 7)
  BY <1>2, <1>3, <1>5, <1>9
<1>11. Named(q \o k \o v \o o \o a \o up \o down \o out, 8)
  BY <1>2, <1>3, <1>5, <1>10
<1>12. Embedder!Layer(l, h, i) = q \o k \o v \o o \o a \o up \o down \o out
  BY DEF Embedder!Layer, q, k, v, o, a, up, down, out
<1>13. Named(Embedder!Layer(l, h, i), 8)
  BY <1>11, <1>12
<1>. QED  BY <1>13 DEF Named, NamedTo

LEMMA OfWeights ==
  ASSUME NEW c, c.n_layers \in Nat \ {0}
  PROVE  LET w == Embedder!Weights(c)
         IN  /\ IsSequence(w) /\ Len(w) = 5 + 16 * c.n_layers /\ w[2].shape[1] = c.max_positions
             /\ \A k \in 1 .. 5 + 16 * c.n_layers : w[k].name = NameOf(k)
<1>. DEFINE n == c.n_layers
            ss == [l \in 1 .. n |-> Embedder!Layer(l, c.hidden, c.intermediate)]
            e == Embedder!Embeddings(c)
            w == e \o FlattenSeq(ss)
            At(k) == NameIn((k - 1) \div 16 + 1, ((k - 1) % 16) + 1)
            Good(s, i) == IsSequence(s) /\ Len(s) = 16 * i /\ \A k \in 1 .. 16 * i : s[k].name = At(k)
<1>1. Embedder!Weights(c) = w
  BY DEF Embedder!Weights, Embedder!FlattenSeq, FlattenSeq
<1>2. /\ IsSequence(ss) /\ Len(ss) = n /\ DOMAIN ss = 1 .. n
      /\ \A l \in 1 .. n : IsSequence(ss[l]) /\ Len(ss[l]) = 16 /\ \A j \in 1 .. 16 : ss[l][j].name = NameIn(l, j)
  <2>1. \A l \in 1 .. n : ss[l] = Embedder!Layer(l, c.hidden, c.intermediate)
    OBVIOUS
  <2>2. IsSequence(ss) /\ Len(ss) = n /\ DOMAIN ss = 1 .. n
    <3>. DEFINE U == {ss[l] : l \in 1 .. n}
    <3>1. ss \in [1 .. n -> U] /\ DOMAIN ss = 1 .. n
      OBVIOUS
    <3>2. {ss[l] : l \in DOMAIN ss} = U
      BY <3>1
    <3>. HIDE DEF ss, U
    <3>3. ss \in Seq(U) /\ Len(ss) = n
      BY <3>1
    <3>. QED  BY <3>1, <3>2, <3>3 DEF IsSequence
  <2>. HIDE DEF ss
  <2>3. ASSUME NEW l \in 1 .. n
        PROVE  IsSequence(ss[l]) /\ Len(ss[l]) = 16 /\ \A j \in 1 .. 16 : ss[l][j].name = NameIn(l, j)
    <3>. DEFINE layer == Embedder!Layer(l, c.hidden, c.intermediate)
    <3>1. IsSequence(layer) /\ Len(layer) = 16 /\ \A j \in 1 .. 16 : layer[j].name = NameIn(l, j)
      BY OfLayer
    <3>2. ss[l] = layer
      BY <2>1
    <3>. HIDE DEF layer
    <3>. QED  BY <3>1, <3>2, Zenon
  <2>. QED  BY <2>2, <2>3, Zenon
<1>. HIDE DEF ss
<1>3. PICK g : Flat(ss, g)
  BY <1>2, Flattened
<1>4. Good(g[n], n)
  <2>. DEFINE Ks == {k \in Nat : k + 1 <= n => Good(g[k + 1], k + 1)}
  <2>1. 0 \in Ks
    <3>1. ASSUME NEW k \in 1 .. 16 PROVE ss[1][k].name = At(k)
      <4>1. (k - 1) \div 16 = 0 /\ (k - 1) % 16 = k - 1
        OBVIOUS
      <4>2. (k - 1) \div 16 + 1 = 1 /\ ((k - 1) % 16) + 1 = k
        BY <4>1
      <4>3. At(k) = NameIn(1, k)
        BY <4>2
      <4>. HIDE DEF At
      <4>4. 1 \in 1 .. n
        OBVIOUS
      <4>. QED  BY <1>2, <4>3, <4>4
    <3>2. g[1] = ss[1] /\ 1 \in 1 .. n
      BY <1>3 DEF Flat
    <3>3. IsSequence(ss[1]) /\ Len(ss[1]) = 16
      BY <1>2, <3>2
    <3>4. Good(ss[1], 1)
      <4>. HIDE DEF At
      <4>1. 16 * 1 = 16
        OBVIOUS
      <4>. QED  BY <3>1, <3>3, <4>1
    <3>. HIDE DEF Good
    <3>. QED  BY <3>2, <3>4
  <2>2. ASSUME NEW k \in Nat, k \in Ks PROVE k + 1 \in Ks
    <3>1. SUFFICES ASSUME k + 2 <= n PROVE Good(g[k + 2], k + 2)
      <4>1. (k + 1) + 1 = k + 2
        OBVIOUS
      <4>. HIDE DEF Good
      <4>. QED  BY <4>1
    <3>2. k + 2 \in 2 .. n /\ k + 2 \in 1 .. n /\ (k + 2) - 1 = k + 1 /\ k + 1 <= n
      BY <3>1
    <3>3. g[k + 2] = g[k + 1] \o ss[k + 2]
      BY <1>2, <1>3, <3>2 DEF Flat
    <3>4. Good(g[k + 1], k + 1)
      <4>. HIDE DEF Good
      <4>. QED  BY <2>2, <3>2
    <3>5. IsSequence(ss[k + 2]) /\ Len(ss[k + 2]) = 16 /\ \A j \in 1 .. 16 : ss[k + 2][j].name = NameIn(k + 2, j)
      BY <1>2, <3>2
    <3>. DEFINE s == g[k + 1]
                t == ss[k + 2]
                u == s \o t
    <3>6. /\ IsSequence(u) /\ Len(u) = 16 * (k + 2)
          /\ \A m \in 1 .. 16 * (k + 1) : u[m] = s[m]
          /\ \A m \in 1 .. 16 : u[16 * (k + 1) + m] = t[m]
      <4>. HIDE DEF s, t
      <4>1. IsSequence(s) /\ Len(s) = 16 * (k + 1) /\ IsSequence(t) /\ Len(t) = 16
        BY <3>4, <3>5 DEF s, t
      <4>2. Joint(u, s, Len(s), t, Len(t))
        BY <4>1, Joins
      <4>3. Len(s) + Len(t) = 16 * (k + 2)
        BY <4>1
      <4>. HIDE DEF u
      <4>. QED  BY <4>1, <4>2, <4>3 DEF Joint
    <3>7. ASSUME NEW m \in 1 .. 16 * (k + 2) PROVE u[m].name = At(m)
      <4>1. CASE m <= 16 * (k + 1)
        <5>1. m \in 1 .. 16 * (k + 1)
          BY <4>1
        <5>2. u[m] = s[m]
          BY <3>6, <5>1
        <5>3. s[m].name = At(m)
          BY <3>4, <5>1
        <5>. HIDE DEF At, u, s
        <5>. QED  BY <5>2, <5>3
      <4>2. CASE m > 16 * (k + 1)
        <5>. DEFINE j == m - 16 * (k + 1)
        <5>1. j \in 1 .. 16 /\ m = 16 * (k + 1) + j
          BY <4>2
        <5>2. (m - 1) \div 16 = k + 1 /\ (m - 1) % 16 = j - 1
          <6>. HIDE DEF j
          <6>1. m - 1 = 16 * (k + 1) + (j - 1)
            BY <5>1
          <6>. QED  BY <5>1, <6>1
        <5>3. (m - 1) \div 16 + 1 = k + 2 /\ ((m - 1) % 16) + 1 = j
          <6>. HIDE DEF j
          <6>. QED  BY <5>1, <5>2
        <5>4. u[m] = t[j] /\ t[j].name = NameIn(k + 2, j)
          <6>. HIDE DEF u, j, s
          <6>. QED  BY <3>5, <3>6, <5>1
        <5>. HIDE DEF u, j, t
        <5>. QED  BY <5>3, <5>4
      <4>. HIDE DEF At, u
      <4>. QED  BY <4>1, <4>2
    <3>8. Good(u, k + 2)
      <4>. HIDE DEF u, At
      <4>. QED  BY <3>6, <3>7
    <3>. HIDE DEF Good
    <3>. QED  BY <3>3, <3>8
  <2>3. \A k \in Nat : k \in Ks
    <3>. HIDE DEF Ks
    <3>. QED  BY <2>1, <2>2, NatSet
  <2>4. n - 1 \in Nat /\ (n - 1) + 1 = n /\ n <= n
    OBVIOUS
  <2>5. n - 1 \in Ks
    BY <2>3, <2>4
  <2>. HIDE DEF Good, n
  <2>. QED  BY <2>4, <2>5
<1>. DEFINE f == FlattenSeq(ss)
<1>5. Good(f, n)
  <2>1. f = g[n]
    BY <1>2, <1>3 DEF Flat
  <2>. HIDE DEF Good, f
  <2>. QED  BY <1>4, <2>1
<1>6. IsSequence(e) /\ Len(e) = 5 /\ (\A k \in 1 .. 5 : e[k].name = EmbeddingAt[k]) /\ e[2].shape[1] = c.max_positions
  <2>. DEFINE word == [name |-> <<0, "word", "weight">>, shape |-> <<c.vocab, c.hidden>>]
              position == [name |-> <<0, "position", "weight">>, shape |-> <<c.max_positions, c.hidden>>]
              type == [name |-> <<0, "token_type", "weight">>, shape |-> <<c.type_vocab, c.hidden>>]
              scale == [name |-> <<0, "emb_ln", "weight">>, shape |-> <<c.hidden>>]
              bias == [name |-> <<0, "emb_ln", "bias">>, shape |-> <<c.hidden>>]
  <2>1. e = <<word, position, type>> \o <<scale, bias>>
    BY DEF Embedder!Embeddings, Embedder!Norm
  <2>2. /\ word.name = EmbeddingAt[1] /\ position.name = EmbeddingAt[2] /\ type.name = EmbeddingAt[3]
        /\ scale.name = EmbeddingAt[4] /\ bias.name = EmbeddingAt[5] /\ position.shape[1] = c.max_positions
    BY DEF EmbeddingAt
  <2>. HIDE DEF word, position, type, scale, bias, e
  <2>. DEFINE three == <<word, position, type>>
  <2>3. IsSequence(three) /\ Len(three) = 3 /\ three[1] = word /\ three[2] = position /\ three[3] = type
    <3>1. three = Append(<<word, position>>, type)
      OBVIOUS
    <3>2. IsSequence(<<word, position>>) /\ Len(<<word, position>>) = 2
      BY Two
    <3>3. /\ three \in Seq({word, position, type}) /\ Len(three) = 3
          /\ three[1] = word /\ three[2] = position /\ three[3] = type
      OBVIOUS
    <3>. HIDE DEF three
    <3>. QED  BY <3>1, <3>2, <3>3, AppendedAny
  <2>. HIDE DEF three
  <2>4. IsSequence(<<scale, bias>>) /\ Len(<<scale, bias>>) = 2 /\ <<scale, bias>>[1] = scale /\ <<scale, bias>>[2] = bias
    BY Two
  <2>5. e = three \o <<scale, bias>>
    BY <2>1 DEF three
  <2>. DEFINE two == <<scale, bias>>
  <2>. HIDE DEF two
  <2>6. Joint(e, three, Len(three), two, Len(two))
    BY <2>3, <2>4, <2>5, Joins DEF two
  <2>7. IsSequence(e) /\ Len(e) = 5 /\ e[1] = word /\ e[2] = position /\ e[3] = type /\ e[4] = scale /\ e[5] = bias
    <3>1. Len(two) = 2 /\ two[1] = scale /\ two[2] = bias
      BY <2>4 DEF two
    <3>. QED  BY <2>3, <2>6, <3>1 DEF Joint
  <2>8. \A k \in 1 .. 5 : k \in {1, 2, 3, 4, 5}
    OBVIOUS
  <2>. QED  BY <2>2, <2>7, <2>8
<1>. HIDE DEF e, f
<1>7. w = e \o f
  BY DEF f
<1>. HIDE DEF w
<1>8. /\ IsSequence(w) /\ Len(w) = 5 + 16 * n
      /\ \A k \in 1 .. 5 : w[k] = e[k]
      /\ \A k \in 1 .. 16 * n : w[5 + k] = f[k]
  <2>1. IsSequence(f) /\ Len(f) = 16 * n
    BY <1>5
  <2>2. Joint(w, e, Len(e), f, Len(f))
    BY <1>6, <1>7, <2>1, Joins
  <2>. QED  BY <1>6, <2>1, <2>2 DEF Joint
<1>9. ASSUME NEW k \in 1 .. 5 + 16 * n PROVE w[k].name = NameOf(k)
  <2>1. CASE k <= 5
    <3>1. k \in 1 .. 5
      BY <2>1
    <3>2. w[k] = e[k]
      BY <1>8, <3>1
    <3>3. e[k].name = EmbeddingAt[k]
      BY <1>6, <3>1
    <3>. QED  BY <2>1, <3>2, <3>3 DEF NameOf
  <2>2. CASE k > 5
    <3>. DEFINE m == k - 5
    <3>1. m \in 1 .. 16 * n /\ k = 5 + m /\ m - 1 = k - 6
      BY <2>2
    <3>2. w[k] = f[m] /\ f[m].name = At(m)
      <4>. HIDE DEF m, At
      <4>. QED  BY <1>5, <1>8, <3>1
    <3>3. At(m) = NameIn((k - 6) \div 16 + 1, ((k - 6) % 16) + 1)
      <4>. HIDE DEF m
      <4>. QED  BY <3>1
    <3>. QED  BY <2>2, <3>2, <3>3 DEF NameOf
  <2>. QED  BY <2>1, <2>2
<1>10. w[2].shape[1] = c.max_positions
  <2>1. w[2] = e[2]
    BY <1>8
  <2>. QED  BY <1>6, <2>1
<1>. QED  BY <1>1, <1>8, <1>9, <1>10

LEMMA NamesDiffer ==
  ASSUME NEW k \in Nat \ {0}, NEW m \in Nat \ {0}, NameOf(k) = NameOf(m)
  PROVE  k = m
<1>1. \A a, b \in 1 .. 8 : PartAt[a] = PartAt[b] => a = b
  BY DEF PartAt
<1>2. \A a \in 1 .. 5 : EmbeddingAt[a][1] = 0
  BY DEF EmbeddingAt
<1>3. \A a, b \in 1 .. 5 : EmbeddingAt[a] = EmbeddingAt[b] => a = b
  BY DEF EmbeddingAt
<1>4. ASSUME NEW a \in Nat, a > 5
      PROVE  /\ (a - 6) \div 16 \in Nat /\ (a - 6) % 16 \in 0 .. 15 /\ a - 6 = 16 * ((a - 6) \div 16) + ((a - 6) % 16)
             /\ NameOf(a) = NameIn((a - 6) \div 16 + 1, ((a - 6) % 16) + 1)
             /\ NameOf(a)[1] = (a - 6) \div 16 + 1 /\ NameOf(a)[1] # 0
  <2>1. a - 6 \in Nat
    BY <1>4
  <2>. DEFINE b == a - 6
  <2>2. b \div 16 \in Nat /\ b % 16 \in 0 .. 15 /\ b = 16 * (b \div 16) + (b % 16)
    <3>. HIDE DEF b
    <3>1. \A x \in Nat : x \div 16 \in Nat /\ x % 16 \in 0 .. 15 /\ x = 16 * (x \div 16) + (x % 16)
      OBVIOUS
    <3>. QED  BY <2>1, <3>1 DEF b
  <2>3. NameOf(a) = NameIn(b \div 16 + 1, (b % 16) + 1)
    BY <1>4 DEF NameOf
  <2>4. NameIn(b \div 16 + 1, (b % 16) + 1)[1] = b \div 16 + 1
    BY DEF NameIn
  <2>. QED  BY <2>2, <2>3, <2>4
<1>5. CASE k <= 5 /\ m <= 5
  <2>1. k \in 1 .. 5 /\ m \in 1 .. 5 /\ NameOf(k) = EmbeddingAt[k] /\ NameOf(m) = EmbeddingAt[m]
    BY <1>5 DEF NameOf
  <2>. QED  BY <1>3, <2>1
<1>6. CASE k <= 5 /\ m > 5
  <2>1. k \in 1 .. 5 /\ NameOf(k) = EmbeddingAt[k]
    BY <1>6 DEF NameOf
  <2>. QED  BY <1>2, <1>4, <1>6, <2>1
<1>7. CASE m <= 5 /\ k > 5
  <2>1. m \in 1 .. 5 /\ NameOf(m) = EmbeddingAt[m]
    BY <1>7 DEF NameOf
  <2>. QED  BY <1>2, <1>4, <1>7, <2>1
<1>8. CASE k > 5 /\ m > 5
  <2>. DEFINE d == (k - 6) \div 16
              e == (m - 6) \div 16
              x == (k - 6) % 16
              y == (m - 6) % 16
  <2>1. /\ d \in Nat /\ e \in Nat /\ x \in 0 .. 15 /\ y \in 0 .. 15
        /\ k - 6 = 16 * d + x /\ m - 6 = 16 * e + y
        /\ NameIn(d + 1, x + 1) = NameIn(e + 1, y + 1)
    BY <1>4, <1>8
  <2>. HIDE DEF d, e, x, y
  <2>2. /\ d = e /\ PartAt[(x + 1 + 1) \div 2] = PartAt[(y + 1 + 1) \div 2]
        /\ (IF (x + 1) % 2 = 1 THEN "weight" ELSE "bias") = (IF (y + 1) % 2 = 1 THEN "weight" ELSE "bias")
    BY <2>1 DEF NameIn
  <2>3. (x + 1 + 1) \div 2 \in 1 .. 8 /\ (y + 1 + 1) \div 2 \in 1 .. 8
    BY <2>1
  <2>4. (x + 1 + 1) \div 2 = (y + 1 + 1) \div 2 /\ ((x + 1) % 2 = 1 <=> (y + 1) % 2 = 1)
    <3>1. (x + 1 + 1) \div 2 = (y + 1 + 1) \div 2
      BY <1>1, <2>2, <2>3
    <3>2. "weight" # "bias"
      OBVIOUS
    <3>. QED  BY <2>2, <3>1, <3>2
  <2>5. x = y
    <3>1. (x + 1) % 2 \in {0, 1} /\ (y + 1) % 2 \in {0, 1}
      BY <2>1
    <3>. QED  BY <2>1, <2>4, <3>1
  <2>. QED  BY <2>1, <2>2, <2>5
<1>. QED  BY <1>5, <1>6, <1>7, <1>8

LEMMA Numbered ==
  ASSUME NEW n \in Nat, NEW f, \A k, m \in 1 .. n : f[k] = f[m] => k = m
  PROVE  Cardinality({f[k] : k \in 1 .. n}) = n
<1>. DEFINE T == {f[k] : k \in 1 .. n}
            b == [k \in 1 .. n |-> f[k]]
<1>1. b \in Bijection(1 .. n, T)
  BY DEF Bijection, Injection, Surjection, IsInjective
<1>2. IsFiniteSet(1 .. n) /\ Cardinality(1 .. n) = n
  BY FS_Interval
<1>. HIDE DEF b, T
<1>3. ExistsBijection(1 .. n, T)
  BY <1>1 DEF ExistsBijection
<1>4. Cardinality(T) = Cardinality(1 .. n)
  BY <1>2, <1>3, FS_Bijection
<1>. QED  BY <1>2, <1>4 DEF T

-----------------------------------------------------------------------------
(* An embedding model's files.  What has been read is what the files say, the  *)
(* modules are those that pool as they are run, and every weight that has     *)
(* been bound is the tensor of its name and shape; what is open or copied is  *)
(* given back where the model cannot be loaded.                               *)

Later == {"limit", "open", "bind", "pool", "loaded"}
Fields == {"n_layers", "hidden", "n_heads", "intermediate", "vocab", "max_positions", "type_vocab", "max_tokens", "pooling", "normalize"}

ConfigOK ==
  pc \in {"modules"} \cup Later =>
    /\ DOMAIN cfg = Fields
    /\ cfg.n_layers \in Nat \ {0} /\ cfg.max_positions = disk.config.max_positions
    /\ cfg.max_tokens \in Int /\ cfg.max_tokens <= cfg.max_positions
    /\ pc \in {"open", "bind", "pool", "loaded"} /\ disk.limit > 1 => cfg.max_tokens <= disk.limit

\* The modules before at are a transformer, its pooling and Normalize, in turn.
ModulesOK ==
  /\ pc = "config" => at = 1 /\ path = Embedder!Nothing
  /\ pc \in {"modules"} \cup Later =>
       /\ at \in 1 .. 4 /\ at <= Len(disk.modules) + 1
       /\ cfg.normalize <=> at = 4
       /\ path = IF at <= 2 THEN Embedder!Nothing ELSE disk.modules[2].path
       /\ at > 1 => disk.modules[1].type = "Transformer"
       /\ at > 2 => disk.modules[2].type = "Pooling" /\ path # Embedder!Nothing
       /\ at > 3 => disk.modules[3].type = "Normalize"
  /\ pc \in Later => at = Len(disk.modules) + 1 /\ at > 2

PoolingOK ==
  pc \in Later => LET p == disk.poolings[path]
                  IN  p.others = {} /\ p.cls = (cfg.pooling = "cls") /\ p.mean = (cfg.pooling = "mean")

Prefixed(b, w) ==
  /\ b.name = w.name /\ b.from = <<Embedder!prefix, w.name>>
  /\ disk.tensors[b.from].shape = w.shape

BoundOK ==
  /\ IsSequence(bound)
  /\ pc \in {"config", "modules", "limit", "open"} => bound = <<>>
  /\ pc \in {"bind", "pool", "loaded"} =>
       /\ Len(bound) <= Len(Embedder!Weights(cfg))
       /\ \A k \in DOMAIN bound : Prefixed(bound[k], Embedder!Weights(cfg)[k])
  /\ pc \in {"pool", "loaded"} => Len(bound) = Len(Embedder!Weights(cfg))

NoneOpen == owned = {} /\ ~open /\ pool = 0

GivenOK ==
  /\ pc \in {"config", "modules", "limit", "open", "refused", "failed", "freed"} => NoneOpen
  /\ pc = "loaded" => pool \in 1 .. 256

EmbedderInv == disk \in Checkpoints /\ ConfigOK /\ ModulesOK /\ PoolingOK /\ BoundOK /\ GivenOK

LEMMA OfCheckpoint ==
  ASSUME NEW d \in Checkpoints
  PROVE  /\ \A s \in Embedder!Sizes : d.config[s] \in Int
         /\ d.limit \in Int /\ IsSequence(d.modules)
         /\ \A p \in DOMAIN d.poolings : p # Embedder!Nothing /\ d.poolings[p].cls \in BOOLEAN /\ d.poolings[p].mean \in BOOLEAN
BY Assumptions DEF Embedder!EncoderFilesAssumption, IsSequence, Embedder!Range

LEMMA EmbedderInit ==
  ASSUME Embedder!Init
  PROVE  EmbedderInv
BY Emptied DEF Embedder!Init, EmbedderInv, ConfigOK, ModulesOK, PoolingOK, BoundOK, GivenOK, NoneOpen, Later

LEMMA ReadConfigKeeps ==
  ASSUME EmbedderInv, Embedder!read_config
  PROVE  EmbedderInv'
<1>1. pc = "config" /\ UNCHANGED <<disk, at, path, bound, owned, open, pool>>
  BY DEF Embedder!read_config
<1>2. CASE pc' = "refused"
  BY <1>1, <1>2 DEF EmbedderInv, ConfigOK, ModulesOK, PoolingOK, BoundOK, GivenOK, NoneOpen, Later
<1>3. CASE pc' # "refused"
  <2>. DEFINE c == disk.config
  <2>1. /\ pc' = "modules" /\ Embedder!ConfigRight(c)
        /\ cfg' = [n_layers |-> c.n_layers, hidden |-> c.hidden, n_heads |-> c.n_heads, intermediate |-> c.intermediate,
                   vocab |-> c.vocab, max_positions |-> c.max_positions,
                   type_vocab |-> IF c.type_vocab = Embedder!LeftOut THEN 2 ELSE c.type_vocab,
                   max_tokens |-> c.max_positions, pooling |-> Embedder!Nothing, normalize |-> FALSE]
    BY <1>3 DEF Embedder!read_config
  <2>2. c.n_layers \in Int /\ c.max_positions \in Int /\ c.n_layers > 0
    <3>1. \A s \in Embedder!Sizes : c[s] \in Int /\ c[s] > 0
      BY <2>1, OfCheckpoint DEF EmbedderInv, Embedder!ConfigRight
    <3>. QED  BY <3>1 DEF Embedder!Sizes
  <2>. HIDE DEF c
  <2>3. ConfigOK'
    <3>1. /\ DOMAIN cfg' = Fields /\ cfg'.n_layers = c.n_layers /\ cfg'.max_positions = c.max_positions
          /\ cfg'.max_tokens = c.max_positions /\ c.max_positions = disk'.config.max_positions
      BY <1>1, <2>1 DEF Fields, c
    <3>. QED  BY <2>1, <2>2, <3>1 DEF ConfigOK, Later
  <2>4. ModulesOK'
    <3>1. cfg'.normalize = FALSE /\ at' = 1 /\ path' = Embedder!Nothing /\ Len(disk'.modules) \in Nat
      BY <1>1, <2>1, OfCheckpoint DEF EmbedderInv, ModulesOK, IsSequence
    <3>. QED  BY <2>1, <3>1 DEF ModulesOK, Later
  <2>5. PoolingOK' /\ BoundOK' /\ GivenOK' /\ disk' \in Checkpoints
    BY <1>1, <2>1 DEF EmbedderInv, PoolingOK, BoundOK, GivenOK, NoneOpen, Later
  <2>. QED  BY <2>3, <2>4, <2>5 DEF EmbedderInv
<1>. QED  BY <1>2, <1>3

LEMMA ReadModuleKeeps ==
  ASSUME EmbedderInv, Embedder!read_module
  PROVE  EmbedderInv'
<1>. DEFINE m == disk.modules[at]
<1>1. /\ pc = "modules" /\ at <= Len(disk.modules) /\ Len(disk.modules) \in Nat
      /\ UNCHANGED <<disk, bound, owned, open, pool>>
  BY OfCheckpoint DEF Embedder!read_module, EmbedderInv, IsSequence
<1>2. \/ at = 1 /\ m.type = "Transformer" /\ at' = at + 1 /\ UNCHANGED <<pc, cfg, path>>
      \/ /\ at > 1 /\ m.type = "Pooling" /\ path = Embedder!Nothing /\ m.path # Embedder!Nothing
         /\ at' = at + 1 /\ path' = m.path /\ UNCHANGED <<pc, cfg>>
      \/ /\ at > 1 /\ m.type = "Normalize" /\ path # Embedder!Nothing /\ ~cfg.normalize
         /\ at' = at + 1 /\ cfg' = [cfg EXCEPT !.normalize = TRUE] /\ UNCHANGED <<pc, path>>
      \/ pc' = "refused" /\ UNCHANGED <<at, cfg, path>>
  BY DEF Embedder!read_module, Embedder!IsNormalize
<1>3. CASE pc' = "refused" /\ UNCHANGED <<at, cfg, path>>
  BY <1>1, <1>3 DEF EmbedderInv, ConfigOK, ModulesOK, PoolingOK, BoundOK, GivenOK, NoneOpen, Later
<1>4. CASE at' = at + 1 /\ UNCHANGED pc
  <2>1. /\ at \in 1 .. 4 /\ (cfg.normalize <=> at = 4) /\ path = (IF at <= 2 THEN Embedder!Nothing ELSE disk.modules[2].path)
        /\ at > 1 => disk.modules[1].type = "Transformer"
        /\ at > 2 => disk.modules[2].type = "Pooling" /\ path # Embedder!Nothing
    BY <1>1 DEF EmbedderInv, ModulesOK
  <2>2. \/ at = 1 /\ m.type = "Transformer" /\ UNCHANGED <<cfg, path>>
        \/ at = 2 /\ m.type = "Pooling" /\ m.path # Embedder!Nothing /\ path' = m.path /\ UNCHANGED cfg
        \/ at = 3 /\ m.type = "Normalize" /\ cfg' = [cfg EXCEPT !.normalize = TRUE] /\ UNCHANGED path
    BY <1>1, <1>2, <1>4, <2>1
  <2>3. cfg' = IF at = 3 THEN [cfg EXCEPT !.normalize = TRUE] ELSE cfg
    BY <2>2
  <2>4. /\ DOMAIN cfg' = Fields /\ cfg'.n_layers = cfg.n_layers /\ cfg'.max_positions = cfg.max_positions /\ cfg'.max_tokens = cfg.max_tokens
        /\ cfg'.normalize = IF at = 3 THEN TRUE ELSE cfg.normalize
    BY <1>1, <2>3 DEF EmbedderInv, ConfigOK, Fields
  <2>5. ConfigOK'
    BY <1>1, <1>4, <2>4 DEF EmbedderInv, ConfigOK, Later
  <2>6. ModulesOK'
    <3>1. CASE at = 1
      BY <1>1, <1>4, <2>1, <2>2, <2>4, <3>1 DEF ModulesOK, Later
    <3>2. CASE at = 2
      BY <1>1, <1>4, <2>1, <2>2, <2>4, <3>2 DEF ModulesOK, Later
    <3>3. CASE at = 3
      BY <1>1, <1>4, <2>1, <2>2, <2>4, <3>3 DEF ModulesOK, Later
    <3>. QED  BY <2>2, <3>1, <3>2, <3>3
  <2>7. PoolingOK' /\ BoundOK' /\ GivenOK' /\ disk' \in Checkpoints
    BY <1>1, <1>4 DEF EmbedderInv, PoolingOK, BoundOK, GivenOK, NoneOpen, Later
  <2>. QED  BY <2>5, <2>6, <2>7 DEF EmbedderInv
<1>. QED  BY <1>2, <1>3, <1>4

LEMMA ReadPoolingKeeps ==
  ASSUME EmbedderInv, Embedder!read_pooling
  PROVE  EmbedderInv'
<1>1. /\ pc = "modules" /\ UNCHANGED <<disk, at, path, bound, owned, open, pool>>
      /\ Len(disk.modules) < 2 \/ at > Len(disk.modules)
  BY DEF Embedder!read_pooling
<1>2. CASE pc' = "refused"
  BY <1>1, <1>2 DEF EmbedderInv, ConfigOK, ModulesOK, PoolingOK, BoundOK, GivenOK, NoneOpen, Later
<1>3. CASE pc' # "refused"
  <2>. DEFINE p == disk.poolings[path]
  <2>1. /\ pc' = "limit" /\ at > 1 /\ path \in DOMAIN disk.poolings /\ p.others = {} /\ p.cls # p.mean
        /\ cfg' = [cfg EXCEPT !.pooling = IF p.cls THEN "cls" ELSE "mean"]
    BY <1>3 DEF Embedder!read_pooling, Embedder!PoolingRight
  <2>2. path # Embedder!Nothing /\ p.cls \in BOOLEAN /\ p.mean \in BOOLEAN /\ Len(disk.modules) \in Nat
    <3>1. disk \in Checkpoints
      BY DEF EmbedderInv
    <3>2. /\ IsSequence(disk.modules)
          /\ \A q \in DOMAIN disk.poolings : q # Embedder!Nothing /\ disk.poolings[q].cls \in BOOLEAN /\ disk.poolings[q].mean \in BOOLEAN
      BY <3>1, OfCheckpoint
    <3>. QED  BY <2>1, <3>2 DEF IsSequence
  <2>3. at \in 3 .. 4 /\ at = Len(disk.modules) + 1
    BY <1>1, <2>1, <2>2 DEF EmbedderInv, ModulesOK
  <2>4. /\ DOMAIN cfg' = Fields /\ cfg'.n_layers = cfg.n_layers /\ cfg'.max_positions = cfg.max_positions /\ cfg'.max_tokens = cfg.max_tokens
        /\ cfg'.normalize = cfg.normalize /\ cfg'.pooling = IF p.cls THEN "cls" ELSE "mean"
    BY <1>1, <2>1 DEF EmbedderInv, ConfigOK, Fields
  <2>. HIDE DEF p
  <2>5. ConfigOK'
    BY <1>1, <2>1, <2>4 DEF EmbedderInv, ConfigOK, Later
  <2>6. ModulesOK'
    BY <1>1, <2>1, <2>3, <2>4 DEF EmbedderInv, ModulesOK, Later
  <2>7. PoolingOK'
    BY <1>1, <2>1, <2>2, <2>4 DEF PoolingOK, p
  <2>8. BoundOK' /\ GivenOK' /\ disk' \in Checkpoints
    BY <1>1, <2>1 DEF EmbedderInv, BoundOK, GivenOK, NoneOpen, Later
  <2>. QED  BY <2>5, <2>6, <2>7, <2>8 DEF EmbedderInv
<1>. QED  BY <1>2, <1>3

LEMMA ReadLimitKeeps ==
  ASSUME EmbedderInv, Embedder!read_limit
  PROVE  EmbedderInv'
<1>1. pc = "limit" /\ pc' = "open" /\ UNCHANGED <<disk, at, path, bound, owned, open, pool>>
  BY DEF Embedder!read_limit
<1>2. cfg' = IF disk.limit >= 2 /\ disk.limit < cfg.max_tokens THEN [cfg EXCEPT !.max_tokens = disk.limit] ELSE cfg
  BY DEF Embedder!read_limit
<1>3. disk.limit \in Int /\ cfg.max_tokens \in Int /\ DOMAIN cfg = Fields
  BY <1>1, OfCheckpoint DEF EmbedderInv, ConfigOK, Later
<1>4. /\ DOMAIN cfg' = Fields /\ cfg'.n_layers = cfg.n_layers /\ cfg'.max_positions = cfg.max_positions
      /\ cfg'.normalize = cfg.normalize /\ cfg'.pooling = cfg.pooling
      /\ cfg'.max_tokens = IF disk.limit >= 2 /\ disk.limit < cfg.max_tokens THEN disk.limit ELSE cfg.max_tokens
  BY <1>2, <1>3 DEF Fields
<1>5. ConfigOK'
  <2>1. /\ cfg.n_layers \in Nat \ {0} /\ cfg.max_positions = disk.config.max_positions
        /\ cfg.max_tokens <= cfg.max_positions
    BY <1>1 DEF EmbedderInv, ConfigOK, Later
  <2>2. cfg.max_positions \in Int
    BY <2>1, OfCheckpoint DEF EmbedderInv, Embedder!Sizes
  <2>3. cfg'.max_tokens \in Int /\ cfg'.max_tokens <= cfg.max_positions /\ (disk.limit > 1 => cfg'.max_tokens <= disk.limit)
    BY <1>3, <1>4, <2>1, <2>2
  <2>. QED  BY <1>1, <1>4, <2>1, <2>3 DEF ConfigOK, Later
<1>6. ModulesOK' /\ PoolingOK'
  BY <1>1, <1>4 DEF EmbedderInv, ModulesOK, PoolingOK, Later
<1>7. BoundOK' /\ GivenOK' /\ disk' \in Checkpoints
  BY <1>1 DEF EmbedderInv, BoundOK, GivenOK, NoneOpen, Later
<1>. QED  BY <1>5, <1>6, <1>7 DEF EmbedderInv

LEMMA OpenKeeps ==
  ASSUME EmbedderInv, Embedder!Open
  PROVE  EmbedderInv'
<1>1. pc = "open" /\ pc' \in {"bind", "refused"} /\ UNCHANGED <<disk, cfg, at, path, bound, owned, pool>> /\ (pc' = "refused" => UNCHANGED open)
  BY DEF Embedder!Open
<1>2. ConfigOK' /\ ModulesOK' /\ PoolingOK' /\ GivenOK' /\ disk' \in Checkpoints
  BY <1>1 DEF EmbedderInv, ConfigOK, ModulesOK, PoolingOK, GivenOK, NoneOpen, Later
<1>3. BoundOK'
  <2>1. Len(bound) = 0 /\ DOMAIN bound = {} /\ IsSequence(bound) /\ bound' = bound
    BY <1>1, Emptied DEF EmbedderInv, BoundOK
  <2>2. pc' = "bind" => Len(Embedder!Weights(cfg)) \in Nat
    BY <1>1, OfWeights DEF EmbedderInv, ConfigOK, Later, IsSequence
  <2>. QED  BY <1>1, <2>1, <2>2 DEF BoundOK
<1>. QED  BY <1>2, <1>3 DEF EmbedderInv

LEMMA BindKeeps ==
  ASSUME EmbedderInv, Embedder!Bind
  PROVE  EmbedderInv'
<1>. DEFINE ws == Embedder!Weights(cfg)
            w == ws[Len(bound) + 1]
            full == <<Embedder!prefix, w.name>>
            b == [name |-> w.name, from |-> full]
<1>1. pc = "bind" /\ UNCHANGED <<disk, cfg, at, path, open, pool>>
  BY DEF Embedder!Bind
<1>2. \/ /\ Len(bound) < Len(ws) /\ disk.tensors[full].shape = w.shape
         /\ bound' = Append(bound, b) /\ UNCHANGED pc
      \/ pc' = "free" /\ UNCHANGED bound
      \/ Len(bound) >= Len(ws) /\ pc' = "pool" /\ UNCHANGED bound
  <2>1. CASE Len(bound) < Len(ws)
    <3>1. Embedder!bind(w)
      BY <2>1, Zenon DEF Embedder!Bind
    <3>. QED  BY <2>1, <3>1, Zenon DEF Embedder!bind
  <2>2. CASE ~(Len(bound) < Len(ws))
    <3>1. pc' = "pool" /\ UNCHANGED bound
      BY <2>2, Zenon DEF Embedder!Bind
    <3>2. Len(bound) \in Nat /\ Len(ws) \in Nat
      BY <1>1, OfWeights DEF EmbedderInv, ConfigOK, BoundOK, Later, IsSequence
    <3>. QED  BY <2>2, <3>1, <3>2
  <2>. QED  BY <2>1, <2>2
<1>3. IsSequence(bound) /\ Len(bound) <= Len(ws) /\ Len(ws) \in Nat /\ \A k \in DOMAIN bound : Prefixed(bound[k], ws[k])
  BY <1>1, OfWeights DEF EmbedderInv, ConfigOK, BoundOK, Later, IsSequence
<1>4. ConfigOK' /\ ModulesOK' /\ PoolingOK' /\ GivenOK' /\ disk' \in Checkpoints
  <2>1. pc' \in {"bind", "free", "pool"}
    BY <1>1, <1>2
  <2>. QED  BY <1>1, <2>1 DEF EmbedderInv, ConfigOK, ModulesOK, PoolingOK, GivenOK, NoneOpen, Later
<1>5. BoundOK'
  <2>1. Embedder!Weights(cfg)' = ws
    BY <1>1
  <2>2. CASE pc' = "free" /\ UNCHANGED bound
    BY <1>3, <2>2 DEF BoundOK
  <2>3. CASE Len(bound) >= Len(ws) /\ pc' = "pool" /\ UNCHANGED bound
    <3>. HIDE DEF ws
    <3>1. Len(bound) = Len(ws)
      <4>1. Len(bound) \in Nat
        BY <1>3 DEF IsSequence
      <4>. QED  BY <1>3, <2>3, <4>1
    <3>2. disk' = disk /\ Embedder!prefix' = Embedder!prefix
      BY <1>1 DEF Embedder!prefix
    <3>3. \A k \in DOMAIN bound : /\ bound[k].name = ws[k].name /\ bound[k].from = <<Embedder!prefix, ws[k].name>>
                                  /\ disk.tensors[bound[k].from].shape = ws[k].shape
      BY <1>3 DEF Prefixed
    <3>. QED  BY <1>3, <2>1, <2>3, <3>1, <3>2, <3>3 DEF BoundOK, Prefixed
  <2>4. CASE Len(bound) < Len(ws) /\ disk.tensors[full].shape = w.shape /\ bound' = Append(bound, b) /\ UNCHANGED pc
    <3>1. Prefixed(b, w)
      BY <2>4 DEF Prefixed
    <3>. HIDE DEF b
    <3>2. /\ DOMAIN bound' = 1 .. Len(bound) + 1 /\ bound'[Len(bound) + 1] = b /\ IsSequence(bound')
          /\ DOMAIN bound = 1 .. Len(bound) /\ Len(bound) \in Nat
          /\ \A k \in DOMAIN bound : bound'[k] = bound[k]
      BY <1>3, <2>4, AppendedAny
    <3>3. Len(bound') = Len(bound) + 1
      BY <3>2 DEF IsSequence
    <3>4. ASSUME NEW k \in DOMAIN bound' PROVE Prefixed(bound'[k], ws[k])
      <4>1. k \in DOMAIN bound \/ k = Len(bound) + 1
        BY <3>2
      <4>. HIDE DEF ws
      <4>. QED  BY <1>3, <3>1, <3>2, <4>1
    <3>. HIDE DEF ws
    <3>5. Len(bound') <= Len(ws)
      BY <1>3, <2>4, <3>2, <3>3
    <3>6. /\ pc' = "bind" /\ disk' = disk /\ Embedder!prefix' = Embedder!prefix
      BY <1>1, <2>4 DEF Embedder!prefix
    <3>7. \A k \in DOMAIN bound' : /\ bound'[k].name = ws[k].name /\ bound'[k].from = <<Embedder!prefix, ws[k].name>>
                                   /\ disk.tensors[bound'[k].from].shape = ws[k].shape
      BY <3>4 DEF Prefixed
    <3>. QED  BY <2>1, <3>2, <3>5, <3>6, <3>7 DEF BoundOK, Prefixed
  <2>. QED  BY <1>2, <2>2, <2>3, <2>4
<1>. QED  BY <1>4, <1>5 DEF EmbedderInv

LEMMA CreatePoolKeeps ==
  ASSUME EmbedderInv, Embedder!CreatePool
  PROVE  EmbedderInv'
<1>1. pc = "pool" /\ pc' \in {"loaded", "free"} /\ UNCHANGED <<disk, cfg, at, path, bound, owned, open>>
  BY DEF Embedder!CreatePool
<1>2. pc' = "loaded" => pool' \in 1 .. 256
  <2>. DEFINE S == {256, IF 0 > 0 THEN 0 ELSE 300}
  <2>1. S = {256, 300}
    OBVIOUS
  <2>2. Embedder!Min(S) \in S /\ \A m \in S : Embedder!Min(S) <= m
    <3>1. S \subseteq Nat /\ S # {}
      BY <2>1
    <3>. HIDE DEF S
    <3>. QED  BY <3>1, NatLeast DEF Embedder!Min
  <2>3. pc' = "loaded" => pool' = Embedder!Min(S)
    BY <1>1 DEF Embedder!CreatePool
  <2>. HIDE DEF S
  <2>. QED  BY <2>1, <2>2, <2>3
<1>3. ConfigOK' /\ ModulesOK' /\ PoolingOK'
  BY <1>1 DEF EmbedderInv, ConfigOK, ModulesOK, PoolingOK, Later
<1>4. GivenOK' /\ disk' \in Checkpoints
  BY <1>1, <1>2 DEF EmbedderInv, GivenOK, NoneOpen
<1>5. BoundOK'
  BY <1>1 DEF EmbedderInv, BoundOK, Prefixed, Embedder!prefix
<1>. QED  BY <1>3, <1>4, <1>5 DEF EmbedderInv

LEMMA EmbedderNext ==
  ASSUME EmbedderInv, Embedder!Next
  PROVE  EmbedderInv'
<1>1. CASE Embedder!Fail \/ Embedder!Free
  <2>1. pc' \in {"failed", "freed"} /\ owned' = {} /\ open' = FALSE /\ pool' = 0 /\ bound' = <<>> /\ UNCHANGED disk
    BY <1>1 DEF Embedder!Fail, Embedder!Free, Embedder!vitna_encoder_free
  <2>2. IsSequence(<<>>)
    BY Emptied
  <2>3. ConfigOK' /\ ModulesOK' /\ PoolingOK' /\ disk' \in Checkpoints
    BY <2>1 DEF EmbedderInv, ConfigOK, ModulesOK, PoolingOK, Later
  <2>4. BoundOK' /\ GivenOK'
    BY <2>1, <2>2 DEF BoundOK, GivenOK, NoneOpen
  <2>. QED  BY <2>3, <2>4 DEF EmbedderInv
<1>. QED  BY <1>1, ReadConfigKeeps, ReadModuleKeeps, ReadPoolingKeeps, ReadLimitKeeps, OpenKeeps, BindKeeps, CreatePoolKeeps DEF Embedder!Next

LEMMA EmbedderStutter ==
  ASSUME EmbedderInv, UNCHANGED <<pc, bound, embedder_vars>>
  PROVE  EmbedderInv'
<1>1. UNCHANGED <<pc, disk, cfg, at, path, bound, owned, open, pool>>
  BY DEF embedder_vars
<1>2. ConfigOK' /\ ModulesOK' /\ PoolingOK' /\ GivenOK' /\ disk' \in Checkpoints
  BY <1>1 DEF EmbedderInv, ConfigOK, ModulesOK, PoolingOK, GivenOK, NoneOpen
<1>3. BoundOK'
  BY <1>1 DEF EmbedderInv, BoundOK, Prefixed, Embedder!prefix
<1>. QED  BY <1>2, <1>3 DEF EmbedderInv

LEMMA AsStated ==
  ASSUME EmbedderInv
  PROVE  Embedder!LoadedAsStated
<1>1. ASSUME pc \in {"refused", "failed", "freed"} PROVE owned = {} /\ ~open /\ pool = 0
  BY <1>1 DEF EmbedderInv, GivenOK, NoneOpen
<1>2. ASSUME pc = "loaded"
      PROVE  /\ Embedder!AsListed
             /\ LET p == disk.poolings[disk.modules[2].path]
                IN  p.others = {} /\ p.cls = (cfg.pooling = "cls") /\ p.mean = (cfg.pooling = "mean")
             /\ cfg.max_tokens <= disk.tensors[bound[2].from].shape[1]
             /\ disk.limit > 1 => cfg.max_tokens <= disk.limit
             /\ \A k \in DOMAIN bound : bound[k].from[1] = bound[1].from[1] /\ bound[k].from[2] = Embedder!Weights(cfg)[k].name
             /\ Cardinality({bound[k].name : k \in DOMAIN bound}) = 5 + 16 * cfg.n_layers
             /\ pool \in 1 .. 256
  <2>. DEFINE ms == disk.modules
              ws == Embedder!Weights(cfg)
              N == 5 + 16 * cfg.n_layers
  <2>1. /\ at \in 3 .. 4 /\ at = Len(ms) + 1 /\ (cfg.normalize <=> at = 4) /\ path = ms[2].path
        /\ ms[1].type = "Transformer" /\ ms[2].type = "Pooling" /\ (at = 4 => ms[3].type = "Normalize")
    BY <1>2 DEF EmbedderInv, ModulesOK, Later
  <2>2. Embedder!AsListed
    <3>1. IsSequence(ms)
      BY OfCheckpoint DEF EmbedderInv
    <3>2. Len(ms) \in Nat /\ DOMAIN ms = 1 .. Len(ms)
      BY <3>1 DEF IsSequence
    <3>3. CASE at = 3
      <4>1. DOMAIN ms = 1 .. 2 /\ ~cfg.normalize
        BY <2>1, <3>2, <3>3
      <4>2. [k \in 1 .. 2 |-> ms[k].type] = <<"Transformer", "Pooling">>
        BY <2>1
      <4>. QED  BY <4>1, <4>2 DEF Embedder!AsListed, Embedder!Types
    <3>4. CASE at = 4
      <4>1. DOMAIN ms = 1 .. 3 /\ cfg.normalize
        BY <2>1, <3>2, <3>4
      <4>2. [k \in 1 .. 3 |-> ms[k].type] = <<"Transformer", "Pooling", "Normalize">>
        BY <2>1, <3>4
      <4>. QED  BY <4>1, <4>2 DEF Embedder!AsListed, Embedder!Types
    <3>. QED  BY <2>1, <3>3, <3>4
  <2>3. LET p == disk.poolings[ms[2].path]
        IN  p.others = {} /\ p.cls = (cfg.pooling = "cls") /\ p.mean = (cfg.pooling = "mean")
    BY <1>2, <2>1, Zenon DEF EmbedderInv, PoolingOK, Later
  <2>4. /\ cfg.n_layers \in Nat \ {0} /\ cfg.max_tokens <= cfg.max_positions
        /\ disk.limit > 1 => cfg.max_tokens <= disk.limit
    BY <1>2 DEF EmbedderInv, ConfigOK, Later
  <2>5. Len(ws) = N /\ ws[2].shape[1] = cfg.max_positions /\ \A k \in 1 .. N : ws[k].name = NameOf(k)
    BY <2>4, OfWeights
  <2>6. N \in Nat /\ 2 \in 1 .. N /\ 1 \in 1 .. N
    BY <2>4
  <2>. HIDE DEF ws, N
  <2>7. DOMAIN bound = 1 .. N /\ \A k \in 1 .. N : Prefixed(bound[k], ws[k])
    BY <1>2, <2>5 DEF EmbedderInv, BoundOK, IsSequence, ws
  <2>8. \A k \in 1 .. N : /\ bound[k].name = ws[k].name /\ bound[k].from[1] = Embedder!prefix /\ bound[k].from[2] = ws[k].name
                          /\ disk.tensors[bound[k].from].shape = ws[k].shape
    BY <2>7 DEF Prefixed
  <2>9. cfg.max_tokens <= disk.tensors[bound[2].from].shape[1]
    BY <2>4, <2>5, <2>6, <2>8
  <2>10. \A k \in DOMAIN bound : bound[k].from[1] = bound[1].from[1] /\ bound[k].from[2] = ws[k].name
    BY <2>6, <2>7, <2>8
  <2>11. Cardinality({bound[k].name : k \in DOMAIN bound}) = N
    <3>. DEFINE f == [k \in 1 .. N |-> NameOf(k)]
    <3>1. \A k, m \in 1 .. N : f[k] = f[m] => k = m
      <4>1. ASSUME NEW k \in 1 .. N, NEW m \in 1 .. N, f[k] = f[m] PROVE k = m
        <5>1. k \in Nat \ {0} /\ m \in Nat \ {0} /\ NameOf(k) = NameOf(m)
          BY <2>6, <4>1
        <5>. QED  BY <5>1, NamesDiffer
      <4>. QED  BY <4>1
    <3>2. {bound[k].name : k \in DOMAIN bound} = {f[k] : k \in 1 .. N}
      <4>1. \A k \in 1 .. N : bound[k].name = f[k]
        BY <2>5, <2>8
      <4>. HIDE DEF f
      <4>. QED  BY <2>7, <4>1
    <3>. HIDE DEF f
    <3>3. Cardinality({f[k] : k \in 1 .. N}) = N
      BY <2>6, <3>1, Numbered
    <3>. QED  BY <3>2, <3>3
  <2>12. pool \in 1 .. 256
    BY <1>2 DEF EmbedderInv, GivenOK
  <2>. QED  BY <2>2, <2>3, <2>4, <2>9, <2>10, <2>11, <2>12 DEF ws, N
<1>3. \A S : Embedder!Cardinality(S) = Cardinality(S)
  BY Zenon DEF Embedder!Cardinality, Cardinality
<1>. QED  BY <1>1, <1>2, <1>3, Zenon DEF Embedder!LoadedAsStated

-----------------------------------------------------------------------------
(* Where a file's tensors lie.  What the check of a directory lets through     *)
(* lies inside the file's data, and is as long as its shape and type say if    *)
(* that many bytes do not wrap.                                               *)

LEMMA Product1 ==
  ASSUME NEW a \in Nat
  PROVE  Weights!Product(<<a>>) = a
<1>. DEFINE s == <<a>>
            p == [d \in 0 .. 1 |-> IF d = 0 THEN 1 ELSE a]
            Eq(f) == f = [d \in 0 .. Len(s) |-> IF d = 0 THEN 1 ELSE f[d - 1] * s[d]]
            q == CHOOSE f : Eq(f)
<1>1. Eq(p)
  <2>1. Len(s) = 1 /\ s[1] = a
    OBVIOUS
  <2>. HIDE DEF s
  <2>2. \A d \in 0 .. 1 : p[d] = IF d = 0 THEN 1 ELSE p[d - 1] * s[d]
    BY <2>1
  <2>3. p = [d \in 0 .. 1 |-> IF d = 0 THEN 1 ELSE p[d - 1] * s[d]]
    BY <2>2
  <2>. QED  BY <2>1, <2>3
<1>2. Len(s) = 1 /\ s[1] = a
  OBVIOUS
<1>3. Weights!Product(s) = q[Len(s)]
  BY DEF Weights!Product
<1>. HIDE DEF s, p
<1>4. Eq(q)
  <2>. HIDE DEF Eq
  <2>. QED  BY <1>1
<1>. HIDE DEF q
<1>5. q[0] = 1 /\ q[1] = q[0] * s[1]
  <2>1. \A d \in 0 .. 1 : q[d] = IF d = 0 THEN 1 ELSE q[d - 1] * s[d]
    BY <1>2, <1>4
  <2>. QED  BY <2>1
<1>6. Weights!Product(s) = a
  BY <1>2, <1>3, <1>5
<1>. QED  BY <1>6 DEF s

LEMMA Product2 ==
  ASSUME NEW a \in Nat, NEW b \in Nat
  PROVE  Weights!Product(<<a, b>>) = a * b
<1>. DEFINE s == <<a, b>>
            p == [d \in 0 .. 2 |-> IF d = 0 THEN 1 ELSE IF d = 1 THEN a ELSE a * b]
            Eq(f) == f = [d \in 0 .. Len(s) |-> IF d = 0 THEN 1 ELSE f[d - 1] * s[d]]
            q == CHOOSE f : Eq(f)
<1>1. Eq(p)
  <2>1. Len(s) = 2 /\ s[1] = a /\ s[2] = b
    OBVIOUS
  <2>. HIDE DEF s
  <2>2. \A d \in 0 .. 2 : p[d] = IF d = 0 THEN 1 ELSE p[d - 1] * s[d]
    BY <2>1
  <2>3. p = [d \in 0 .. 2 |-> IF d = 0 THEN 1 ELSE p[d - 1] * s[d]]
    BY <2>2
  <2>. QED  BY <2>1, <2>3
<1>2. Len(s) = 2 /\ s[1] = a /\ s[2] = b
  OBVIOUS
<1>3. Weights!Product(s) = q[Len(s)]
  BY DEF Weights!Product
<1>. HIDE DEF s, p
<1>4. Eq(q)
  <2>. HIDE DEF Eq
  <2>. QED  BY <1>1
<1>. HIDE DEF q
<1>5. q[0] = 1 /\ q[1] = q[0] * s[1] /\ q[2] = q[1] * s[2]
  <2>1. \A d \in 0 .. 2 : q[d] = IF d = 0 THEN 1 ELSE q[d - 1] * s[d]
    BY <1>2, <1>4
  <2>. QED  BY <2>1
<1>6. Weights!Product(s) = a * b
  BY <1>2, <1>3, <1>5
<1>. QED  BY <1>6 DEF s

\* What an entry of a concatenation is an entry of.
LEMMA InFlat ==
  ASSUME NEW ss, IsSequence(ss), \A k \in DOMAIN ss : IsSequence(ss[k]),
         NEW j \in 1 .. Len(FlattenSeq(ss))
  PROVE  \E k \in DOMAIN ss : \E i \in DOMAIN ss[k] : FlattenSeq(ss)[j] = ss[k][i]
<1>. DEFINE n == Len(ss)
            Of(e) == \E k \in DOMAIN ss : \E i \in DOMAIN ss[k] : e = ss[k][i]
<1>1. n \in Nat /\ DOMAIN ss = 1 .. n
  BY DEF IsSequence
<1>2. n # 0
  <2>1. SUFFICES ASSUME n = 0 PROVE FALSE
    OBVIOUS
  <2>2. FlattenSeq(ss) = ss
    BY <2>1 DEF FlattenSeq
  <2>. QED  BY <2>1, <2>2
<1>3. PICK g : Flat(ss, g)
  BY <1>2, Flattened
<1>. HIDE DEF n
<1>4. /\ FlattenSeq(ss) = g[n] /\ g[1] = ss[1] /\ \A k \in 2 .. n : g[k] = g[k - 1] \o ss[k]
      /\ \A k \in 1 .. n : IsSequence(g[k])
  BY <1>3 DEF Flat, n
<1>5. \A k \in Nat : k + 1 \in 1 .. n => \A i \in DOMAIN g[k + 1] : Of(g[k + 1][i])
  <2>. DEFINE Good(k) == k + 1 \in 1 .. n => \A i \in DOMAIN g[k + 1] : Of(g[k + 1][i])
              S == {k \in Nat : Good(k)}
  <2>1. 0 \in S
    BY <1>1, <1>4
  <2>2. ASSUME NEW k \in Nat, k \in S PROVE k + 1 \in S
    <3>1. SUFFICES ASSUME k + 2 \in 1 .. n, NEW i \in DOMAIN g[k + 2] PROVE Of(g[k + 2][i])
      <4>1. (k + 1) + 1 = k + 2 /\ k + 1 \in Nat
        OBVIOUS
      <4>. HIDE DEF Of
      <4>. QED  BY <4>1
    <3>. DEFINE a == g[k + 1]
                b == ss[k + 2]
    <3>2. k + 1 \in 1 .. n /\ k + 2 \in 2 .. n /\ (k + 2) - 1 = k + 1 /\ k + 2 \in DOMAIN ss
      BY <1>1, <3>1
    <3>3. g[k + 2] = a \o b /\ IsSequence(a) /\ IsSequence(b)
      BY <1>4, <3>2
    <3>4. \A m \in DOMAIN a : Of(a[m])
      BY <2>2, <3>2
    <3>5. \A m \in DOMAIN b : Of(b[m])
      BY <3>2
    <3>. HIDE DEF a, b, Of
    <3>6. /\ DOMAIN a = 1 .. Len(a) /\ DOMAIN b = 1 .. Len(b) /\ DOMAIN (a \o b) = 1 .. Len(a) + Len(b)
          /\ Len(a) \in Nat /\ Len(b) \in Nat
          /\ \A m \in 1 .. Len(a) : (a \o b)[m] = a[m]
          /\ \A m \in 1 .. Len(b) : (a \o b)[Len(a) + m] = b[m]
      BY <3>3, Joined
    <3>7. i \in 1 .. Len(a) + Len(b)
      BY <3>3, <3>6
    <3>8. CASE i <= Len(a)
      BY <3>3, <3>4, <3>6, <3>7, <3>8
    <3>9. CASE i > Len(a)
      <4>1. i - Len(a) \in 1 .. Len(b) /\ Len(a) + (i - Len(a)) = i
        BY <3>6, <3>7, <3>9
      <4>2. (a \o b)[i] = b[i - Len(a)]
        BY <3>6, <4>1
      <4>. QED  BY <3>3, <3>5, <3>6, <4>1, <4>2
    <3>. QED  BY <3>6, <3>7, <3>8, <3>9
  <2>. HIDE DEF Good
  <2>3. \A k \in Nat : k \in S
    <3>. HIDE DEF S
    <3>. QED  BY <2>1, <2>2, NatSet
  <2>. QED  BY <2>3 DEF Good
<1>6. n - 1 \in Nat /\ (n - 1) + 1 = n /\ n \in 1 .. n
  BY <1>1, <1>2
<1>7. \A i \in DOMAIN g[n] : Of(g[n][i])
  BY <1>5, <1>6
<1>8. DOMAIN g[n] = 1 .. Len(g[n])
  BY <1>4, <1>6 DEF IsSequence
<1>. QED  BY <1>4, <1>7, <1>8

\* A tensor in a file's data, as long as b bytes.
Lies(t, f, b) == t.begin \in Nat /\ t.end \in Nat /\ t.end <= Weights!DataSize(f) /\ b \in Nat /\ t.end = t.begin + b

LEMMA EntryLies ==
  ASSUME NEW f, Weights!FileTypes(f), f.kind = "safetensors", Weights!SafeTensorsFits(f),
         NEW j \in DOMAIN Weights!parse_directory(f)
  PROVE  LET t == Weights!parse_directory(f)[j]
         IN  /\ t.shape \in Seq(Nat) /\ t.dtype \in {"F32", "BF16", "I64"}
             /\ Lies(t, f, t.end - t.begin)
             /\ t.end - t.begin = Weights!Wrapped(Weights!Product(t.shape) * Weights!block_bytes(t.dtype))
<1>. DEFINE e == f.entries[j]
            t == Weights!parse_directory(f)[j]
<1>1. /\ j \in DOMAIN f.entries
      /\ t.dtype = e.dtype /\ t.shape = e.shape /\ t.begin = e.begin /\ t.end = e.end
  BY DEF Weights!parse_directory
<1>2. e.begin \in Nat /\ e.end \in Nat /\ e.shape \in Seq(Nat)
  BY <1>1 DEF Weights!FileTypes, Weights!Range
<1>3. f.size \in Nat /\ f.header \in Nat
  BY DEF Weights!FileTypes
<1>4. Weights!EntryFits(e, f.size - Weights!data_base(f))
  BY <1>1 DEF Weights!SafeTensorsFits
<1>5. Weights!DataSize(f) = f.size - Weights!data_base(f)
  BY DEF Weights!DataSize
<1>6. /\ e.dtype \in {"F32", "BF16", "I64"} /\ e.begin <= e.end /\ e.end <= Weights!DataSize(f)
      /\ e.end - e.begin = Weights!Wrapped(Weights!Product(e.shape) * Weights!block_bytes(e.dtype))
  BY <1>4, <1>5 DEF Weights!EntryFits, Weights!Dtypes
<1>. HIDE DEF e, t
<1>. QED  BY <1>1, <1>2, <1>6 DEF Lies, t

LEMMA Aligned ==
  ASSUME NEW a \in Weights!PowersOfTwo
  PROVE  a \in Nat \ {0}
<1>1. PICK k \in 0 .. 7 : a = 2 ^ k
  BY DEF Weights!PowersOfTwo
<1>2. k = 0 \/ k = 1 \/ k = 2 \/ k = 3 \/ k = 4 \/ k = 5 \/ k = 6 \/ k = 7
  OBVIOUS
<1>3. /\ 2 ^ 0 = 1 /\ 2 ^ 1 = 2 /\ 2 ^ 2 = 4 /\ 2 ^ 3 = 8
      /\ 2 ^ 4 = 16 /\ 2 ^ 5 = 32 /\ 2 ^ 6 = 64 /\ 2 ^ 7 = 128
  OBVIOUS
<1>4. a \in {2 ^ 0, 2 ^ 1, 2 ^ 2, 2 ^ 3, 2 ^ 4, 2 ^ 5, 2 ^ 6, 2 ^ 7}
  BY <1>1, <1>2, Zenon
<1>. QED  BY <1>3, <1>4

LEMMA DataStart ==
  ASSUME NEW f, Weights!FileTypes(f), f.kind = "gguf", Weights!GgufFits(f)
  PROVE  Weights!data_start(f) \in Nat
<1>1. f.others \in Nat /\ Weights!IsFiniteSet(DOMAIN f.numbers) /\ Len(f.tensors) \in Nat
  BY DEF Weights!FileTypes, Weights!IsList
<1>2. Weights!Cardinality(DOMAIN f.numbers) \in Nat
  <2>1. IsFiniteSet(DOMAIN f.numbers)
    BY <1>1, Zenon DEF Weights!IsFiniteSet, IsFiniteSet
  <2>2. Cardinality(DOMAIN f.numbers) \in Nat
    BY <2>1, FS_CardinalityType
  <2>3. Weights!Cardinality(DOMAIN f.numbers) = Cardinality(DOMAIN f.numbers)
    BY Zenon DEF Weights!Cardinality, Cardinality
  <2>. QED  BY <2>2, <2>3
<1>3. f.alignment \in Nat \ {0}
  BY Aligned DEF Weights!GgufFits
<1>4. Weights!dir_end(f) \in Nat
  BY <1>1, <1>2 DEF Weights!dir_end
<1>5. Weights!dir_end(f) + f.alignment - 1 \in Nat
  BY <1>3, <1>4
<1>6. (Weights!dir_end(f) + f.alignment - 1) \div f.alignment \in Nat
  BY <1>3, <1>5, DivFacts
<1>. QED  BY <1>3, <1>6 DEF Weights!data_start

LEMMA SliceLies ==
  ASSUME NEW f, Weights!FileTypes(f), f.kind = "gguf", Weights!GgufFits(f),
         NEW g \in DOMAIN f.tensors, NEW i \in DOMAIN Weights!Listed(f.tensors[g])
  PROVE  LET x == f.tensors[g]
             t == Weights!Listed(x)[i]
         IN  /\ Lies(t, f, Weights!rows(x) * Weights!row_bytes(x.type, x.ne[1]))
             /\ t.dtype = x.type /\ x.type \in {"F32", "BF16", "Q8_0"}
             /\ x.ne[1] \in Nat /\ Weights!rows(x) \in Nat \ {0} /\ Weights!row_bytes(x.type, x.ne[1]) # 0
             /\ t.shape = IF Len(x.ne) = 1 THEN <<x.ne[1]>> ELSE <<Weights!rows(x), x.ne[1]>>
             /\ Len(x.ne) = 1 => Weights!rows(x) = 1
<1>. DEFINE x == f.tensors[g]
            t == Weights!Listed(x)[i]
            r == Weights!rows(x)
            b == Weights!row_bytes(x.type, x.ne[1])
            n == Weights!count(x)
            start == Weights!data_start(f)
<1>1. /\ i \in 1 .. n
      /\ t.dtype = x.type /\ t.shape = IF Len(x.ne) = 1 THEN <<x.ne[1]>> ELSE <<r, x.ne[1]>>
      /\ t.begin = Weights!SliceOf(x, i - 1) /\ t.end = Weights!SliceOf(x, i - 1) + Weights!slice(x)
  BY DEF Weights!Listed
<1>2. x.offset \in Nat /\ x.ne \in Seq(Nat) /\ f.size \in Nat /\ Len(x.ne) \in 1 .. 3 /\ Weights!StackFits(x, f)
  BY DEF Weights!FileTypes, Weights!Range, Weights!GgufFits
<1>3. start \in Nat
  BY DataStart
<1>4. x.ne[1] \in Nat /\ r \in Nat /\ n \in Nat /\ (Len(x.ne) = 1 => r = 1)
  BY <1>2 DEF Weights!rows, Weights!count
<1>5. /\ x.type \in {"F32", "BF16", "Q8_0"} /\ b # 0 /\ r # 0 /\ n \in 1 .. 20
      /\ r <= Weights!MAX \div b /\ Weights!slice(x) <= Weights!MAX \div n
      /\ x.offset <= f.size - start
      /\ Weights!Wrapped(Weights!slice(x) * n) <= f.size - start - x.offset
  BY <1>2 DEF Weights!StackFits, Weights!Dtypes
<1>6. b \in 0 .. 255
  <2>. DEFINE c == x.ne[1]
  <2>. HIDE DEF c
  <2>1. c \in Nat => (c \div Weights!elems(x.type)) \in Nat
    <3>1. Weights!elems(x.type) \in {1, 2}
      BY DEF Weights!elems
    <3>. QED  BY <3>1
  <2>2. Weights!block_bytes(x.type) \in Nat
    BY <1>5 DEF Weights!block_bytes
  <2>3. c \in Nat => (c \div Weights!elems(x.type)) * Weights!block_bytes(x.type) \in Nat
    BY <2>1, <2>2
  <2>4. \A m \in Nat : Weights!Wrapped(m) \in 0 .. 255
    BY DEF Weights!Wrapped
  <2>5. c \in Nat
    BY <1>4 DEF c
  <2>6. Weights!Wrapped((c \div Weights!elems(x.type)) * Weights!block_bytes(x.type)) \in 0 .. 255
    <3>. DEFINE m == (c \div Weights!elems(x.type)) * Weights!block_bytes(x.type)
    <3>1. m \in Nat
      BY <2>3, <2>5
    <3>. HIDE DEF m
    <3>. QED  BY <2>4, <3>1, Zenon DEF m
  <2>7. Weights!row_bytes(x.type, c) \in 0 .. 255
    <3>1. 0 \in 0 .. 255
      OBVIOUS
    <3>. QED  BY <2>6, <3>1, Zenon DEF Weights!row_bytes
  <2>. QED  BY <2>7, Zenon DEF c
<1>7. Weights!slice(x) = r * b
  BY DEF Weights!slice
<1>8. Weights!SliceOf(x, i - 1) = x.offset + (i - 1) * Weights!slice(x)
  BY DEF Weights!SliceOf
<1>9. Weights!MAX = 255
  BY DEF Weights!MAX
<1>10. Weights!DataSize(f) = f.size - start
  BY DEF Weights!DataSize
<1>. DEFINE z == Weights!slice(x)
<1>11. z \in Nat /\ z * n \in 0 .. 255
  <2>1. z \in Nat
    <3>. HIDE DEF r, b, z
    <3>0. r \in Nat /\ b \in 0 .. 255
      BY <1>4, <1>6, Zenon DEF r, b
    <3>1. r \in Nat /\ b \in Nat
      BY <3>0
    <3>2. r * b \in Nat
      BY <3>1
    <3>. QED  BY <1>7, <3>2, Zenon DEF z, r, b
  <2>. DEFINE m == 255 \div n
  <2>. HIDE DEF z, n
  <2>2. z <= m /\ n \in 1 .. 20
    BY <1>5, <1>9, Zenon DEF z, n
  <2>3. m \in Nat /\ m * n <= 255
    <3>1. 255 = n * m + (255 % n) /\ 255 % n \in Nat
      BY <2>2, DivMod, DivFacts
    <3>. QED  BY <2>2, <3>1
  <2>. HIDE DEF m
  <2>4. z * n <= m * n /\ z * n \in Nat
    BY <2>1, <2>2, <2>3
  <2>. DEFINE u == z * n
              v == m * n
  <2>5. v \in Nat /\ v <= 255 /\ u <= v /\ u \in Nat
    <3>1. m * n \in Nat
      BY <2>2, <2>3
    <3>. QED  BY <2>3, <2>4, <3>1
  <2>. HIDE DEF u, v
  <2>6. u \in 0 .. 255
    BY <2>5
  <2>. QED  BY <2>1, <2>6 DEF u
<1>12. Weights!Wrapped(z * n) = z * n
  <2>. HIDE DEF z, n
  <2>. QED  BY <1>11 DEF Weights!Wrapped
<1>13. i * z <= n * z /\ (i - 1) * z \in Nat /\ (i - 1) * z + z = i * z /\ n * z = z * n
  <2>1. i \in Nat \ {0} /\ i <= n /\ n \in Nat /\ z \in Nat
    BY <1>1, <1>4, <1>11
  <2>. HIDE DEF z, n
  <2>2. (i - 1) * z \in Nat /\ (i - 1) * z + z = i * z /\ n * z = z * n
    BY <2>1
  <2>3. i * z <= n * z
    BY <2>1
  <2>. QED  BY <2>2, <2>3
<1>14. /\ t.begin = x.offset + (i - 1) * z /\ t.end = x.offset + (i - 1) * z + z
  BY <1>1, <1>8
<1>15. x.offset + i * z <= f.size - start
  <2>. DEFINE u == i * z
              v == z * n
              o == x.offset
  <2>1. u <= v /\ u \in Int /\ v \in Int
    <3>1. i \in Nat /\ z \in Nat /\ i * z <= z * n
      BY <1>1, <1>4, <1>11, <1>13
    <3>. HIDE DEF z, n
    <3>. QED  BY <1>11, <3>1
  <2>2. v <= f.size - start - o
    BY <1>5, <1>12
  <2>3. f.size \in Nat /\ start \in Nat /\ o \in Nat
    BY <1>2, <1>3
  <2>. HIDE DEF u, v, o, start
  <2>4. o + u <= f.size - start
    BY <2>1, <2>2, <2>3
  <2>. QED  BY <2>4 DEF u, o
<1>16. Lies(t, f, z)
  <2>. HIDE DEF z, n, start, x, t
  <2>. QED  BY <1>2, <1>3, <1>10, <1>11, <1>13, <1>14, <1>15 DEF Lies
<1>. QED  BY <1>1, <1>4, <1>5, <1>7, <1>16

\* A weight no wider than a size_t as the widest type has it.
Unwrapped(w) == w.rows * (IF w.cols = 0 THEN 1 ELSE w.cols) * Weights!block_bytes("F32") <= Weights!MAX

LEMMA RowsFit ==
  ASSUME NEW r \in Nat, NEW c \in Nat, NEW t \in {"F32", "BF16", "Q8_0"},
         r * c * 2 <= 255, t = "Q8_0" => r # 0 /\ c % 2 = 0
  PROVE  /\ t # "Q8_0" => Weights!Wrapped((r * c) * Weights!block_bytes(t)) = (r * c) * Weights!block_bytes(t)
         /\ r # 0 => r * Weights!Wrapped((c \div Weights!elems(t)) * Weights!block_bytes(t))
                     = ((r * c) \div Weights!elems(t)) * Weights!block_bytes(t)
<1>. USE DEF Weights!Wrapped
<1>1. r * c \in Nat
  OBVIOUS
<1>2. \A k \in 1 .. 2 : ((r * c) * k) % 256 = (r * c) * k
  <2>. DEFINE p == r * c
  <2>. HIDE DEF p
  <2>1. p \in Nat /\ p * 2 <= 255
    BY <1>1 DEF p
  <2>2. \A k \in 1 .. 2 : (p * k) % 256 = p * k
    <3>1. (p * 1) % 256 = p * 1 /\ (p * 2) % 256 = p * 2
      BY <2>1
    <3>. QED  BY <3>1
  <2>. QED  BY <2>2 DEF p
<1>3. CASE t \in {"F32", "BF16"}
  <2>1. Weights!elems(t) = 1 /\ Weights!block_bytes(t) \in 1 .. 2
    BY <1>3 DEF Weights!elems, Weights!block_bytes
  <2>2. ASSUME r # 0, NEW k \in 1 .. 2 PROVE r * ((c * k) % 256) = (r * c) * k
    <3>1. c * k <= 255
      <4>1. c <= r * c
        BY <2>2
      <4>2. c * 2 <= (r * c) * 2
        BY <4>1, <1>1
      <4>3. c * k <= c * 2
        OBVIOUS
      <4>4. c * k \in Nat /\ c * 2 \in Nat /\ (r * c) * 2 \in Nat
        BY <1>1
      <4>. QED  BY <4>2, <4>3, <4>4
    <3>2. (c * k) % 256 = c * k
      BY <3>1
    <3>. QED  BY <3>2
  <2>3. c \div 1 = c /\ (r * c) \div 1 = r * c
    BY <1>1
  <2>. DEFINE k == Weights!block_bytes(t)
  <2>4. ((r * c) * k) % 256 = (r * c) * k /\ (r # 0 => r * ((c * k) % 256) = (r * c) * k)
    BY <1>2, <2>1, <2>2
  <2>. HIDE DEF k
  <2>. QED  BY <2>1, <2>3, <2>4 DEF k
<1>4. CASE t = "Q8_0"
  <2>1. Weights!elems(t) = 2 /\ Weights!block_bytes(t) = 3
    BY <1>4 DEF Weights!elems, Weights!block_bytes
  <2>. DEFINE q == c \div 2
  <2>2. q \in Nat /\ c = 2 * q
    BY <1>4
  <2>. HIDE DEF q
  <2>3. r * c = 2 * (r * q) /\ r * q \in Nat
    BY <2>2
  <2>4. (r * c) \div 2 = r * q
    BY <2>3
  <2>5. q <= r * q
    BY <1>4, <2>2
  <2>. DEFINE m == r * q
  <2>6. m \in Nat /\ 4 * m <= 255 /\ q <= m
    BY <2>3, <2>5
  <2>. HIDE DEF m
  <2>7. (q * 3) % 256 = q * 3
    BY <2>2, <2>6
  <2>8. r * (q * 3) = (r * q) * 3
    BY <2>2
  <2>. QED  BY <1>4, <2>1, <2>3, <2>4, <2>7, <2>8 DEF q, m
<1>. QED  BY <1>3, <1>4

LEMMA EntryWhole ==
  ASSUME NEW f, Weights!FileTypes(f), f.kind = "safetensors", Weights!SafeTensorsFits(f),
         NEW j \in DOMAIN Weights!parse_directory(f), NEW w, Unwrapped(w),
         Weights!shape_ok(w, Weights!parse_directory(f)[j]), Weights!DtypeRight(w, Weights!parse_directory(f)[j])
  PROVE  LET t == Weights!parse_directory(f)[j]
         IN  t.end = t.begin + Weights!ByteSize(t) /\ t.end <= Weights!DataSize(f)
<1>. DEFINE t == Weights!parse_directory(f)[j]
            p == Weights!Product(t.shape)
            k == Weights!block_bytes(t.dtype)
<1>1. /\ t.shape \in Seq(Nat) /\ t.dtype \in {"F32", "BF16", "I64"}
      /\ Lies(t, f, t.end - t.begin) /\ t.end - t.begin = Weights!Wrapped(p * k)
  BY EntryLies
<1>2. /\ t.shape = IF w.cols = 0 THEN <<w.rows>> ELSE <<w.rows, w.cols>>
      /\ Weights!DtypeRight(w, t)
  BY DEF Weights!shape_ok
<1>. HIDE DEF t
<1>3. t.dtype \in {"F32", "BF16"} /\ Weights!elems(t.dtype) = 1
  <2>1. ~Weights!is_block("I64")
    BY DEF Weights!is_block, Weights!elems
  <2>2. t.dtype \in {"F32", "BF16"}
    BY <1>1, <1>2, <2>1 DEF Weights!DtypeRight
  <2>. QED  BY <2>2 DEF Weights!elems
<1>4. w.rows * (IF w.cols = 0 THEN 1 ELSE w.cols) * 2 <= 255
  BY DEF Unwrapped, Weights!block_bytes, Weights!MAX
<1>5. p \in Nat /\ Weights!Wrapped(p * k) = p * k
  <2>1. CASE w.cols = 0
    <3>. DEFINE r == w.rows
    <3>1. r \in Nat
      <4>1. t.shape = <<w.rows>>
        BY <1>2, <2>1
      <4>2. t.shape[1] = w.rows /\ Len(t.shape) = 1
        BY <4>1
      <4>. QED  BY <1>1, <4>2
    <3>2. p = r
      BY <1>2, <2>1, <3>1, Product1
    <3>3. r * 1 * 2 <= 255
      BY <1>4, <2>1
    <3>. HIDE DEF r
    <3>4. Weights!Wrapped((r * 1) * k) = (r * 1) * k
      BY <1>3, <3>1, <3>3, RowsFit
    <3>5. r * 1 = r
      BY <3>1
    <3>. QED  BY <3>1, <3>2, <3>4, <3>5, SMTT(20)
  <2>2. CASE w.cols # 0
    <3>. DEFINE r == w.rows
                c == w.cols
    <3>1. r \in Nat /\ c \in Nat
      <4>1. t.shape = <<w.rows, w.cols>>
        BY <1>2, <2>2
      <4>2. t.shape[1] = w.rows /\ t.shape[2] = w.cols /\ Len(t.shape) = 2
        BY <4>1
      <4>. QED  BY <1>1, <4>2
    <3>2. p = r * c
      BY <1>2, <2>2, <3>1, Product2
    <3>3. r * c * 2 <= 255
      BY <1>4, <2>2
    <3>. HIDE DEF r, c
    <3>4. Weights!Wrapped((r * c) * k) = (r * c) * k
      BY <1>3, <3>1, <3>3, RowsFit
    <3>. QED  BY <3>1, <3>2, <3>4
  <2>. QED  BY <2>1, <2>2
<1>6. Weights!ByteSize(t) = p * k
  <2>1. p \div 1 = p
    BY <1>5
  <2>. QED  BY <1>3, <2>1 DEF Weights!ByteSize
<1>7. t.end = t.begin + (t.end - t.begin) /\ t.end <= Weights!DataSize(f)
  BY <1>1 DEF Lies
<1>. HIDE DEF p, k
<1>8. t.end = t.begin + Weights!ByteSize(t) /\ t.end <= Weights!DataSize(f)
  BY <1>1, <1>5, <1>6, <1>7
<1>. QED  BY <1>8 DEF t

LEMMA SliceWhole ==
  ASSUME NEW f, Weights!FileTypes(f), f.kind = "gguf", Weights!GgufFits(f),
         NEW g \in DOMAIN f.tensors, NEW i \in DOMAIN Weights!Listed(f.tensors[g]), NEW w, Unwrapped(w),
         Weights!shape_ok(w, Weights!Listed(f.tensors[g])[i]), Weights!DtypeRight(w, Weights!Listed(f.tensors[g])[i])
  PROVE  LET t == Weights!Listed(f.tensors[g])[i]
         IN  t.end = t.begin + Weights!ByteSize(t) /\ t.end <= Weights!DataSize(f)
<1>. DEFINE x == f.tensors[g]
            t == Weights!Listed(x)[i]
            r == Weights!rows(x)
            c == x.ne[1]
            b == Weights!row_bytes(x.type, c)
<1>1. /\ Lies(t, f, r * b)
      /\ t.dtype = x.type /\ x.type \in {"F32", "BF16", "Q8_0"}
      /\ c \in Nat /\ r \in Nat \ {0} /\ b # 0
      /\ t.shape = IF Len(x.ne) = 1 THEN <<c>> ELSE <<r, c>>
      /\ Len(x.ne) = 1 => r = 1
  BY SliceLies
<1>2. /\ t.shape = IF w.cols = 0 THEN <<w.rows>> ELSE <<w.rows, w.cols>>
      /\ Weights!DtypeRight(w, t)
  BY DEF Weights!shape_ok
<1>3. w.rows * (IF w.cols = 0 THEN 1 ELSE w.cols) * 2 <= 255
  BY DEF Unwrapped, Weights!block_bytes, Weights!MAX
<1>. HIDE DEF t, r, c
<1>4. r * c * 2 <= 255 /\ Weights!Product(t.shape) = r * c
  <2>1. CASE w.cols = 0
    <3>1. Len(<<w.rows>>) = 1 /\ Len(<<r, c>>) = 2
      OBVIOUS
    <3>2. Len(x.ne) = 1 /\ <<w.rows>> = <<c>>
      BY <1>1, <1>2, <2>1, <3>1
    <3>3. w.rows = c /\ r = 1
      BY <1>1, <3>2
    <3>4. Weights!Product(t.shape) = c
      BY <1>1, <3>2, Product1
    <3>5. c * 1 * 2 <= 255
      BY <1>3, <2>1, <3>3
    <3>6. 1 * c * 2 = c * 1 * 2 /\ 1 * c = c
      BY <1>1
    <3>. QED  BY <3>3, <3>4, <3>5, <3>6
  <2>2. CASE w.cols # 0
    <3>1. Len(<<w.rows, w.cols>>) = 2 /\ Len(<<c>>) = 1
      OBVIOUS
    <3>2. <<w.rows, w.cols>> = <<r, c>> /\ t.shape = <<r, c>>
      BY <1>1, <1>2, <2>2, <3>1
    <3>3. w.rows = r /\ w.cols = c
      BY <3>2
    <3>. QED  BY <1>1, <1>3, <2>2, <3>2, <3>3, Product2
  <2>. QED  BY <2>1, <2>2
<1>5. b = Weights!Wrapped((c \div Weights!elems(x.type)) * Weights!block_bytes(x.type)) /\ c % Weights!elems(x.type) = 0
  BY <1>1 DEF Weights!row_bytes
<1>6. x.type = "Q8_0" => c % 2 = 0
  BY <1>5 DEF Weights!elems
<1>. HIDE DEF b, x
<1>7. r * b = ((r * c) \div Weights!elems(x.type)) * Weights!block_bytes(x.type)
  BY <1>1, <1>4, <1>5, <1>6, RowsFit
<1>8. Weights!ByteSize(t) = r * b
  BY <1>1, <1>4, <1>7 DEF Weights!ByteSize
<1>9. t.end = t.begin + Weights!ByteSize(t) /\ t.end <= Weights!DataSize(f)
  BY <1>1, <1>8 DEF Lies
<1>. QED  BY <1>9 DEF t, x

LEMMA ListIs ==
  ASSUME NEW s, Weights!IsList(s)
  PROVE  IsSequence(s) /\ DOMAIN s = 1 .. Len(s)
<1>1. Len(s) \in Nat /\ s \in [1 .. Len(s) -> {s[k] : k \in DOMAIN s}]
  BY DEF Weights!IsList, Weights!Range
<1>. DEFINE R == {s[k] : k \in DOMAIN s}
            n == Len(s)
<1>2. s \in [1 .. n -> R] /\ n \in Nat
  BY <1>1
<1>. HIDE DEF R, n
<1>3. s \in Seq(R) /\ DOMAIN s = 1 .. n
  BY <1>2
<1>. QED  BY <1>3 DEF IsSequence, R, n

\* A sequence by its entries.
LEMMA FromEntries ==
  ASSUME NEW n \in Nat, NEW s, s = [k \in 1 .. n |-> s[k]]
  PROVE  IsSequence(s) /\ DOMAIN s = 1 .. n /\ Len(s) = n
<1>. DEFINE R == {s[k] : k \in DOMAIN s}
<1>1. DOMAIN s = 1 .. n
  OBVIOUS
<1>2. s \in [1 .. n -> R]
  BY <1>1
<1>. HIDE DEF R
<1>3. s \in Seq(R) /\ Len(s) = n
  BY <1>2
<1>. QED  BY <1>1, <1>3 DEF IsSequence, R

LEMMA WholeIn ==
  ASSUME NEW f, Weights!FileTypes(f), Weights!Fits(f), NEW j \in 1 .. Len(Weights!Tensors(f)),
         NEW w, Unwrapped(w), Weights!shape_ok(w, Weights!Tensors(f)[j]), Weights!DtypeRight(w, Weights!Tensors(f)[j])
  PROVE  LET t == Weights!Tensors(f)[j]
         IN  t.end = t.begin + Weights!ByteSize(t) /\ t.end <= Weights!DataSize(f)
<1>1. CASE f.kind = "safetensors"
  <2>1. Weights!SafeTensorsFits(f) /\ Weights!Tensors(f) = Weights!parse_directory(f)
    BY <1>1 DEF Weights!Fits, Weights!Tensors
  <2>2. j \in DOMAIN Weights!parse_directory(f)
    <3>. DEFINE s == Weights!parse_directory(f)
    <3>1. Len(f.entries) \in Nat /\ DOMAIN f.entries = 1 .. Len(f.entries)
      <4>1. Weights!IsList(f.entries)
        BY <1>1 DEF Weights!FileTypes
      <4>. QED  BY <4>1, ListIs DEF IsSequence
    <3>2. s = [k \in 1 .. Len(f.entries) |-> s[k]]
      BY <3>1 DEF Weights!parse_directory
    <3>. HIDE DEF s
    <3>3. DOMAIN s = 1 .. Len(f.entries) /\ Len(s) = Len(f.entries)
      BY <3>1, <3>2, FromEntries
    <3>. QED  BY <2>1, <3>3 DEF s
  <2>. QED  BY <1>1, <2>1, <2>2, EntryWhole
<1>2. CASE f.kind = "gguf"
  <2>1. Weights!GgufFits(f) /\ Weights!Tensors(f) = Weights!vitna_gguf_open(f)
    BY <1>2 DEF Weights!Fits, Weights!Tensors
  <2>. DEFINE ss == [k \in DOMAIN f.tensors |-> Weights!Listed(f.tensors[k])]
  <2>2. Weights!vitna_gguf_open(f) = FlattenSeq(ss)
    BY DEF Weights!vitna_gguf_open, Weights!FlattenSeq, FlattenSeq
  <2>3. IsSequence(ss) /\ DOMAIN ss = DOMAIN f.tensors
    <3>1. Len(f.tensors) \in Nat /\ DOMAIN f.tensors = 1 .. Len(f.tensors)
      <4>1. Weights!IsList(f.tensors)
        BY <1>2 DEF Weights!FileTypes
      <4>. QED  BY <4>1, ListIs DEF IsSequence
    <3>2. ss = [k \in 1 .. Len(f.tensors) |-> ss[k]]
      BY <3>1
    <3>. HIDE DEF ss
    <3>. QED  BY <3>1, <3>2, FromEntries
  <2>4. ASSUME NEW k \in DOMAIN ss PROVE IsSequence(ss[k])
    <3>. DEFINE x == f.tensors[k]
                s == Weights!Listed(x)
    <3>1. Weights!count(x) \in Nat
      <4>1. x.ne \in Seq(Nat) /\ Len(x.ne) \in 1 .. 3
        BY <1>2, <2>1 DEF Weights!FileTypes, Weights!Range, Weights!GgufFits
      <4>. HIDE DEF x
      <4>2. Len(x.ne) = 3 => x.ne[3] \in Nat
        BY <4>1
      <4>. QED  BY <4>2 DEF Weights!count
    <3>2. s = [n \in 1 .. Weights!count(x) |-> s[n]]
      BY DEF Weights!Listed
    <3>3. ss[k] = s
      OBVIOUS
    <3>. HIDE DEF s, x, ss
    <3>. QED  BY <3>1, <3>2, <3>3, FromEntries
  <2>5. PICK k \in DOMAIN ss : \E i \in DOMAIN ss[k] : FlattenSeq(ss)[j] = ss[k][i]
    <3>. HIDE DEF ss
    <3>. QED  BY <2>1, <2>2, <2>3, <2>4, InFlat
  <2>6. PICK i \in DOMAIN ss[k] : FlattenSeq(ss)[j] = ss[k][i]
    BY <2>5
  <2>7. k \in DOMAIN f.tensors /\ ss[k] = Weights!Listed(f.tensors[k])
    OBVIOUS
  <2>8. Weights!Tensors(f)[j] = Weights!Listed(f.tensors[k])[i] /\ i \in DOMAIN Weights!Listed(f.tensors[k])
    BY <2>1, <2>2, <2>6, <2>7
  <2>. DEFINE t == Weights!Listed(f.tensors[k])[i]
  <2>9. Weights!shape_ok(w, t) /\ Weights!DtypeRight(w, t)
    BY <2>8
  <2>10. t.end = t.begin + Weights!ByteSize(t) /\ t.end <= Weights!DataSize(f)
    BY <1>2, <2>1, <2>7, <2>8, <2>9, SliceWhole
  <2>. HIDE DEF t
  <2>11. Weights!Tensors(f)[j] = t
    BY <2>8 DEF t
  <2>. QED  BY <2>10, <2>11
<1>. QED  BY <1>1, <1>2 DEF Weights!FileTypes

LEMMA FoundIn ==
  ASSUME NEW opened, IsSequence(opened), NEW name, Weights!find_tensor(opened, name)[1] # 0
  PROVE  LET at_ == Weights!find_tensor(opened, name)
         IN  at_[1] \in DOMAIN opened /\ at_[2] \in 1 .. Len(opened[at_[1]].tensors)
<1>. DEFINE F == Weights!Found(opened, name)
            k == Weights!Min(F)
            at_ == Weights!find_tensor(opened, name)
<1>1. F # {} /\ at_ = <<k, Weights!vitna_safetensors_find(opened[k].tensors, name)>>
  BY DEF Weights!find_tensor
<1>2. F \subseteq DOMAIN opened /\ DOMAIN opened \subseteq Nat
  BY DEF Weights!Found, IsSequence
<1>3. k \in F
  <2>. HIDE DEF F
  <2>. QED  BY <1>1, <1>2, NatLeast DEF Weights!Min
<1>. HIDE DEF k
<1>4. Weights!vitna_safetensors_find(opened[k].tensors, name) # 0
  BY <1>3 DEF Weights!Found
<1>5. Weights!vitna_safetensors_find(opened[k].tensors, name) \in 1 .. Len(opened[k].tensors)
  <2>. DEFINE s == opened[k].tensors
              I == {i \in 1 .. Len(s) : s[i].name = name}
  <2>1. Weights!vitna_safetensors_find(s, name) = IF I # {} THEN Weights!Min(I) ELSE 0
    BY DEF Weights!vitna_safetensors_find, Weights!SelectInSeq
  <2>2. I \subseteq Nat /\ I \subseteq 1 .. Len(s)
    OBVIOUS
  <2>. HIDE DEF I
  <2>3. I # {} /\ Weights!Min(I) \in I
    <3>1. I # {}
      BY <1>4, <2>1
    <3>. QED  BY <2>2, <3>1, NatLeast DEF Weights!Min
  <2>. QED  BY <2>1, <2>2, <2>3
<1>. HIDE DEF F
<1>6. at_[1] = k /\ at_[2] = Weights!vitna_safetensors_find(opened[k].tensors, name)
  BY <1>1
<1>. QED  BY <1>2, <1>3, <1>5, <1>6

-----------------------------------------------------------------------------
(* What a weight is bound to: a tensor of its shape, of a shard that is open  *)
(* and whose file has been checked.                                           *)

OpenedOK ==
  \A k \in DOMAIN shards : /\ shards[k].path \in DOMAIN dir.files /\ Weights!Fits(dir.files[shards[k].path])
                           /\ shards[k].tensors = Weights!Tensors(dir.files[shards[k].path])

Placed(b) ==
  /\ b.shard \in DOMAIN shards
  /\ \E j \in 1 .. Len(shards[b.shard].tensors) : b.tensor = shards[b.shard].tensors[j]
  /\ Weights!shape_ok(b.weight, b.tensor) /\ Weights!DtypeRight(b.weight, b.tensor)

PlacedOK == \A k \in DOMAIN bound : Placed(bound[k])

PlacesInv == dir \in Directories /\ OpenedOK /\ PlacedOK

LEMMA PlacesInit ==
  ASSUME Weights!Init
  PROVE  PlacesInv
BY Emptied DEF Weights!Init, PlacesInv, OpenedOK, PlacedOK

LEMMA PlacesFree ==
  ASSUME PlacesInv, NEW end, Weights!Free(end), UNCHANGED dir
  PROVE  PlacesInv'
BY Emptied DEF Weights!Free, PlacesInv, OpenedOK, PlacedOK

LEMMA PlacesKept ==
  ASSUME PlacesInv, UNCHANGED <<dir, shards, bound>>
  PROVE  PlacesInv'
<1>1. OpenedOK'
  BY DEF PlacesInv, OpenedOK, Weights!Fits
<1>2. PlacedOK'
  BY DEF PlacesInv, PlacedOK, Placed
<1>. QED  BY <1>1, <1>2 DEF PlacesInv

LEMMA PlacesNext ==
  ASSUME WeightsInv, PlacesInv, Weights!Next
  PROVE  PlacesInv'
<1>1. CASE Weights!ReadConfig \/ Weights!CheckOpened \/ Weights!Bound \/ Weights!Loaded
  BY <1>1, PlacesKept DEF Weights!ReadConfig, Weights!CheckOpened, Weights!Bound, Weights!Loaded
<1>2. CASE Weights!NoMemory \/ Weights!FreeFailed \/ Weights!vitna_llama_free
  BY <1>2, PlacesFree DEF Weights!NoMemory, Weights!FreeFailed, Weights!vitna_llama_free
<1>3. CASE Weights!OpenShard
  <2>. DEFINE name_ == Weights!Paths[Len(shards) + 1]
              f == dir.files[name_]
              s == [path |-> name_, tensors |-> Weights!Tensors(f)]
  <2>1. /\ UNCHANGED <<dir, bound>> /\ pc = "open"
        /\ \/ UNCHANGED shards
           \/ shards' = Append(shards, s) /\ name_ \in DOMAIN dir.files /\ Weights!Fits(f)
    BY <1>3, Zenon DEF Weights!OpenShard
  <2>2. CASE UNCHANGED shards
    BY <2>1, <2>2, PlacesKept
  <2>3. CASE shards' = Append(shards, s) /\ name_ \in DOMAIN dir.files /\ Weights!Fits(f)
    <3>1. s.path = name_ /\ s.tensors = Weights!Tensors(f)
      OBVIOUS
    <3>. HIDE DEF s
    <3>2. /\ DOMAIN shards' = DOMAIN shards \cup {Len(shards) + 1} /\ shards'[Len(shards) + 1] = s
          /\ \A k \in DOMAIN shards : shards'[k] = shards[k]
      <4>1. IsSequence(shards)
        BY DEF WeightsInv
      <4>. QED  BY <2>3, <4>1, AppendedAny
    <3>. HIDE DEF name_
    <3>3. \A k \in DOMAIN shards' :
            /\ shards'[k].path \in DOMAIN dir.files /\ Weights!Fits(dir.files[shards'[k].path])
            /\ shards'[k].tensors = Weights!Tensors(dir.files[shards'[k].path])
      BY <2>3, <3>1, <3>2 DEF PlacesInv, OpenedOK
    <3>4. OpenedOK'
      BY <2>1, <3>3 DEF OpenedOK, Weights!Fits
    <3>5. DOMAIN bound' = {}
      BY <2>1, Emptied DEF WeightsInv, FoundOK
    <3>. QED  BY <2>1, <3>4, <3>5 DEF PlacesInv, PlacedOK
  <2>. QED  BY <2>1, <2>2, <2>3
<1>4. CASE Weights!Bind
  <2>. DEFINE w == Head(todo)
              at_ == Weights!find_tensor(shards, w.name)
              t == shards[at_[1]].tensors[at_[2]]
              b == [weight |-> w, shard |-> at_[1], tensor |-> t]
  <2>1. /\ UNCHANGED <<dir, shards>>
        /\ \/ UNCHANGED bound
           \/ at_[1] # 0 /\ Weights!shape_ok(w, t) /\ Weights!DtypeRight(w, t) /\ bound' = Append(bound, b)
    BY <1>4, Zenon DEF Weights!Bind
  <2>2. CASE UNCHANGED bound
    BY <2>1, <2>2, PlacesKept
  <2>3. CASE at_[1] # 0 /\ Weights!shape_ok(w, t) /\ Weights!DtypeRight(w, t) /\ bound' = Append(bound, b)
    <3>1. b.weight = w /\ b.shard = at_[1] /\ b.tensor = t
      OBVIOUS
    <3>2. IsSequence(shards) /\ IsSequence(bound)
      BY DEF WeightsInv
    <3>3. at_[1] \in DOMAIN shards /\ at_[2] \in 1 .. Len(shards[at_[1]].tensors)
      <4>. HIDE DEF w
      <4>. QED  BY <2>3, <3>2, FoundIn
    <3>. HIDE DEF w, at_
    <3>4. Placed(b)
      <4>. HIDE DEF b
      <4>. QED  BY <2>3, <3>1, <3>3 DEF Placed
    <3>. HIDE DEF t, b
    <3>5. /\ DOMAIN bound' = DOMAIN bound \cup {Len(bound) + 1} /\ bound'[Len(bound) + 1] = b
          /\ \A k \in DOMAIN bound : bound'[k] = bound[k]
      BY <2>3, <3>2, AppendedAny
    <3>6. \A k \in DOMAIN bound' : Placed(bound'[k])
      BY <3>4, <3>5 DEF PlacesInv, PlacedOK
    <3>7. PlacedOK'
      BY <2>1, <3>6 DEF PlacedOK, Placed
    <3>8. OpenedOK'
      BY <2>1 DEF PlacesInv, OpenedOK, Weights!Fits
    <3>. QED  BY <2>1, <3>7, <3>8 DEF PlacesInv
  <2>. QED  BY <2>1, <2>2, <2>3
<1>. QED  BY <1>1, <1>2, <1>3, <1>4 DEF Weights!Next

LEMMA WholeBound ==
  ASSUME PlacesInv, NEW k \in DOMAIN bound, Unwrapped(bound[k].weight)
  PROVE  Weights!Inside(bound[k])
<1>. DEFINE b == bound[k]
            f == dir.files[shards[b.shard].path]
<1>1. /\ b.shard \in DOMAIN shards /\ Weights!shape_ok(b.weight, b.tensor) /\ Weights!DtypeRight(b.weight, b.tensor)
      /\ \E j \in 1 .. Len(shards[b.shard].tensors) : b.tensor = shards[b.shard].tensors[j]
  BY DEF PlacesInv, PlacedOK, Placed
<1>2. /\ shards[b.shard].path \in DOMAIN dir.files /\ Weights!Fits(f)
      /\ shards[b.shard].tensors = Weights!Tensors(f)
  BY <1>1 DEF PlacesInv, OpenedOK
<1>3. Weights!FileTypes(f)
  BY <1>2, Assumptions, SMTT(20) DEF PlacesInv, Weights!WeightFilesAssumption
<1>4. PICK j \in 1 .. Len(Weights!Tensors(f)) : b.tensor = Weights!Tensors(f)[j]
  BY <1>1, <1>2
<1>. HIDE DEF f
<1>5. b.tensor.end = b.tensor.begin + Weights!ByteSize(b.tensor) /\ b.tensor.end <= Weights!DataSize(f)
  BY <1>1, <1>2, <1>3, <1>4, WholeIn
<1>. QED  BY <1>5 DEF Weights!Inside, f

-----------------------------------------------------------------------------
(* The theorems. *)

PartsInv ==
  /\ running = "weights" => WeightsInv /\ PlacesInv
  /\ running = "embedder" => EmbedderInv
  /\ running = "command" => CommandInv
  /\ running = "installer" => InstallerInv
  /\ running = "paged" => PagedInv
  /\ running = "reply" => Reply!CutInv

\* Each part keeps its invariant while it runs.
THEOREM PartsInvariance == MCSpec => []PartsInv
<1>1. MCInit => PartsInv
  <2>. SUFFICES ASSUME MCInit PROVE PartsInv
    OBVIOUS
  <2>1. /\ running = "weights" => Weights!Init
        /\ running = "embedder" => Embedder!Init
        /\ running = "command" => Command!Init
        /\ running = "installer" => Installer!Init
        /\ running = "paged" => Paged!Init
        /\ running = "reply" => Reply!Init
    BY DEF MCInit
  <2>. QED  BY <2>1, Assumptions, EmbedderInit, WeightsInit, PlacesInit, CommandInit, InstallerInit, PagedInit, Reply!CutInit DEF PartsInv
<1>2. PartsInv /\ [MCNext]_MCvars => PartsInv'
  <2>. SUFFICES ASSUME PartsInv, [MCNext]_MCvars PROVE PartsInv'
    OBVIOUS
  <2>1. UNCHANGED running
    BY DEF MCNext, MCvars
  <2>2. ASSUME running = "command" PROVE CommandInv'
    <3>1. CASE UNCHANGED MCvars
      <4>1. UNCHANGED <<pc, command_vars>> /\ CommandInv
        BY <2>2, <3>1 DEF PartsInv, MCvars
      <4>2. UNCHANGED <<Command!Refused, Command!Bert>>
        BY <4>1 DEF command_vars, Command!Refused, Command!RefusedAtOnce, Command!Bert
      <4>3. CommandTypes' /\ LostOK' /\ KindOK'
        BY <4>1, <4>2 DEF command_vars, CommandInv, CommandTypes, LostOK, KindOK
      <4>4. OpenOK' /\ TookOK'
        BY <4>1, <4>2 DEF command_vars, CommandInv, OpenOK, TookOK
      <4>. QED  BY <4>3, <4>4 DEF CommandInv
    <3>2. CASE MCNext
      BY <2>2, <3>2, CommandNext DEF PartsInv, MCNext, Parts
    <3>. QED  BY <3>1, <3>2
  <2>3. ASSUME running = "installer" PROVE InstallerInv'
    <3>1. CASE UNCHANGED MCvars
      <4>1. UNCHANGED <<pc, installer_vars>> /\ InstallerInv
        BY <2>3, <3>1 DEF PartsInv, MCvars
      <4>. QED  BY <4>1, InstallerStutter
    <3>2. CASE MCNext
      BY <2>3, <3>2, InstallerNext DEF PartsInv, MCNext, Parts
    <3>. QED  BY <3>1, <3>2
  <2>4. ASSUME running = "paged" PROVE PagedInv'
    <3>1. CASE UNCHANGED MCvars
      <4>1. UNCHANGED paged_vars /\ PagedInv
        BY <2>4, <3>1 DEF PartsInv, MCvars
      <4>. QED  BY <4>1, PagedStutter
    <3>2. CASE MCNext
      BY <2>4, <3>2, PagedNext DEF PartsInv, MCNext, Parts
    <3>. QED  BY <3>1, <3>2
  <2>5. ASSUME running = "weights" PROVE WeightsInv' /\ PlacesInv'
    <3>1. WeightsInv /\ PlacesInv
      BY <2>5 DEF PartsInv
    <3>2. CASE UNCHANGED MCvars
      <4>1. UNCHANGED <<pc, bound, weights_vars>>
        BY <3>2 DEF MCvars
      <4>2. WeightsInv'
        BY <3>1, <4>1 DEF weights_vars, WeightsInv, HeldOK, FoundOK, IsSequence, Weights!Indexed, Weights!IndexTrue
      <4>3. PlacesInv'
        BY <3>1, <4>1, PlacesKept DEF weights_vars
      <4>. QED  BY <4>2, <4>3
    <3>3. CASE MCNext
      <4>1. Weights!Next
        BY <2>5, <3>3 DEF MCNext, Parts
      <4>. QED  BY <3>1, <4>1, WeightsNext, PlacesNext
    <3>. QED  BY <3>2, <3>3
  <2>6. ASSUME running = "embedder" PROVE EmbedderInv'
    <3>1. CASE UNCHANGED MCvars
      <4>1. UNCHANGED <<pc, bound, embedder_vars>> /\ EmbedderInv
        BY <2>6, <3>1 DEF PartsInv, MCvars
      <4>. QED  BY <4>1, EmbedderStutter
    <3>2. CASE MCNext
      BY <2>6, <3>2, EmbedderNext DEF PartsInv, MCNext, Parts
    <3>. QED  BY <3>1, <3>2
  <2>7. ASSUME running = "reply" PROVE Reply!CutInv'
    <3>1. CASE UNCHANGED MCvars
      <4>1. UNCHANGED <<pc, reply_vars>> /\ Reply!CutInv
        BY <2>7, <3>1 DEF PartsInv, MCvars
      <4>. QED  BY <4>1, Reply!CutStutter DEF reply_vars
    <3>2. CASE MCNext
      BY <2>7, <3>2, Assumptions, Reply!CutNext DEF PartsInv, MCNext, Parts
    <3>. QED  BY <3>1, <3>2
  <2>. QED  BY <2>1, <2>2, <2>3, <2>4, <2>5, <2>6, <2>7 DEF PartsInv
<1>. QED  BY <1>1, <1>2, PTL DEF MCSpec

\* serve does all that was asked for or does not serve, with the GPU only if it
\* was asked for; the scheduler is freed before what it uses, nothing is held at
\* the end, and the status says whether the device was lost (main.c).
THEOREM ServesCorrect == MCSpec => []ServesAsAsked
<1>1. PartsInv => ServesAsAsked
  BY AsAsked DEF PartsInv, ServesAsAsked
<1>. QED  BY <1>1, PartsInvariance, PTL

\* Wherever the installer was cut short and by whatever release it is run again,
\* the engine in place is a release's and what it starts is what that release
\* pins, to the last byte (install.sh:5-13).
THEOREM PinnedCorrect == MCSpec => []ServesPinned
<1>1. PartsInv => ServesPinned
  BY Pinned DEF PartsInv, ServesPinned
<1>. QED  BY <1>1, PartsInvariance, PTL

\* A run in which nothing outside fails installs, whatever the runs before it have
\* left: it does not run out of room, for the engine or for what it has planned,
\* and what is wrong is right the second time (install.sh:114-133).
THEOREM CleanCorrect == MCSpec => []CleanRunInstalls
<1>1. PartsInv => CleanRunInstalls
  BY Pinned DEF PartsInv, CleanRunInstalls
<1>. QED  BY <1>1, PartsInvariance, PTL

\* However often it is cut short and run again, it plans the model it had planned
\* or one that the catalogue prefers: what it has placed takes no more room than
\* what it no longer has to fetch (install.c:234-275).
THEOREM PlansCorrect == MCSpec => PlansAgain
<1>1. PartsInv /\ [MCNext]_MCvars => [running = "installer" => Installer!PlansNoLess]_MCvars
  <2>. SUFFICES ASSUME PartsInv, MCNext, running = "installer" PROVE Installer!PlansNoLess
    OBVIOUS
  <2>1. InstallerInv /\ Installer!Next
    BY DEF PartsInv, MCNext, Parts
  <2>. QED  BY <2>1, NoLess
<1>. QED  BY <1>1, PartsInvariance, PTL DEF MCSpec, PlansAgain

\* Whatever is appended, evicted, pinned and matched, in caches of any size, no
\* two stretches of tokens share a block, the free blocks are counted right, and
\* what is pinned is not free to be given to another (kv_cache.c:213-260).
THEOREM BlocksCorrect == MCSpec => []BlocksAreOwn
<1>1. PartsInv => BlocksAreOwn
  BY Own DEF PartsInv, BlocksAreOwn
<1>. QED  BY <1>1, PartsInvariance, PTL

\* Whatever a model's files say and wherever loading it fails, no mapping, copy,
\* open file or thread is left when it has failed or is freed (model.c,
\* vitna_llama_free; encoder.c, vitna_encoder_load).
NothingLeft ==
  /\ running = "weights" => Weights!NothingKept
  /\ running = "embedder" /\ pc \in {"refused", "failed", "freed"} => NoneOpen

THEOREM LeftCorrect == MCSpec => []NothingLeft
<1>1. PartsInv => NothingLeft
  BY Kept DEF PartsInv, NothingLeft, EmbedderInv, GivenOK
<1>. QED  BY <1>1, PartsInvariance, PTL

\* A weight that an index lists is bound in the file it lists, of any files
\* (model.c:206-209).
ListedFiles == running = "weights" => \A k \in DOMAIN bound : Weights!FromListedFile(bound[k])

THEOREM ListedCorrect == MCSpec => []ListedFiles
<1>1. PartsInv => ListedFiles
  BY Kept DEF PartsInv, ListedFiles
<1>. QED  BY <1>1, PartsInvariance, PTL

\* A weight that is bound, of any files, is all there: its bytes, as many as its
\* shape and type have, lie in its file's data, whatever the directory says, if
\* a size_t can count them (safetensors.h:4-9, gguf.h:4-7).
WholeWeights == running = "weights" => \A k \in DOMAIN bound : Unwrapped(bound[k].weight) => Weights!Inside(bound[k])

THEOREM WholeCorrect == MCSpec => []WholeWeights
<1>1. PartsInv => WholeWeights
  BY WholeBound DEF PartsInv, WholeWeights
<1>. QED  BY <1>1, PartsInvariance, PTL

\* An embedding model that is loaded, of any files, pools as its modules say and
\* normalizes only if they do, takes no text that is longer than its positions or
\* its limit, and has each of its weights from the tensor of that name, no two of
\* the same one and all under one prefix (encoder.c:714-716, 799-801,
\* vitna_encoder_load).
EmbedderAsStated == running = "embedder" => Embedder!LoadedAsStated

THEOREM EmbedderCorrect == MCSpec => []EmbedderAsStated
<1>1. PartsInv => EmbedderAsStated
  BY AsStated DEF PartsInv, EmbedderAsStated
<1>. QED  BY <1>1, PartsInvariance, PTL

\* A reply, of any tokens, is cut where the first of its stop sequences begins,
\* however the tokens cut it, before any token more is taken; of two that begin
\* there the first asked is named (api.c:1256-1258,1441-1446).
THEOREM CutCorrect == MCSpec => []CutAtFirstStop
<1>1. PartsInv => CutAtFirstStop
  BY Reply!Restated DEF PartsInv, Reply!CutInv, CutAtFirstStop
<1>. QED  BY <1>1, PartsInvariance, PTL
=============================================================================
