------------------------------ MODULE MCParts -------------------------------
(* The parts that run on one thread, each with its own few inputs: a model's  *)
(* files and an embedding model's, serve from its options to its end, the     *)
(* installer, the paged cache, and a reply as it is read and streamed.  They   *)
(* share nothing, so one of them runs while the others have nothing to do.    *)
EXTENDS Integers, FiniteSetsExt, SequencesExt, TLC

CONSTANTS
  Directories, Checkpoints,  \* what is on the disk, of the weights and of an embedding model
  Releases, Machines, DISK_MARGIN, MaxRuns, MaxFaults,  \* of Install
  Asked, Kinds,              \* of Serve
  BLOCK, SPARE, CHUNK, MAX_PINNED, Geometries, Hashes, MaxPrompt, MaxChunks,  \* of PagedCache
  OpenThink, CloseThink, OpenCall, CloseCall, Newline, OtherSpace, Needs, Cont, Calls, Asks, Tokens(_), Faults  \* of ReplyStream

VARIABLES
  running,      \* the part that runs, and
  pc, bound,    \* where it is, and what it has bound of a model
  dir, shards, mapped, todo, heap,
  disk, cfg, at, path, owned, open, pool,
  asks, kind, gpu, held, took, rc, lost,
  machine, engine, part, files, script, release, wish, plan, nth, round, bad, fault, before, runs, faults,
  geometry, num_tokens, free_blocks, tables, pins, prefill,
  r_ask, r_taken, r_text, r_parser, r_emitted, r_gen, r_stop, r_finish

-----------------------------------------------------------------------------
(* The installer: two releases, of which the second's files are others' ends; *)
(* machines that hold both models, and one that holds the smaller.            *)
File(p, n, sha) == [path |-> p, size |-> n, sha |-> sha]
Big(sha) == [id |-> "big", cuda |-> FALSE, gpu |-> 0, memory |-> 2, files |-> <<File("b/w", 3, sha), File("b/t", 1, "bt")>>,
  ctx |-> <<[memory |-> 3, value |-> 8], [memory |-> 2, value |-> 4]>>, cache |-> <<>>]
Small(n) == [id |-> "small", cuda |-> FALSE, gpu |-> 0, memory |-> 1, files |-> <<File("s/w", n, "sw")>>, ctx |-> <<>>, cache |-> <<>>]
Gpu == [id |-> "gpu", cuda |-> TRUE, gpu |-> 2, memory |-> 1, files |-> <<File("g/w", 2, "gw")>>, ctx |-> <<>>, cache |-> <<[memory |-> 1, value |-> 7]>>]
MCReleases == {[engine |-> "e1", size |-> 1, models |-> <<Gpu, Big("bw"), Small(2)>>],
               [engine |-> "e2", size |-> 1, models |-> <<Big("bw2"), Small(1)>>]}
Machine(w, mem, gpus, built, drive) == [windows |-> w, memory |-> mem, gpus |-> gpus, cuda_built |-> built, drive |-> drive]
MCMachines == {Machine(FALSE, 2, <<>>, TRUE, 6), Machine(TRUE, 3, <<1, 2>>, TRUE, 7), Machine(FALSE, 1, <<2>>, FALSE, 4)}

Installer == INSTANCE Install WITH i <- nth

\* A prompt of two blocks in a cache of four tokens, for one layer and for two.
Paged == INSTANCE PagedCache
MCGeometries == {[layers |-> 1, tokens |-> 4], [layers |-> 2, tokens |-> 4]}

\* Up to four options at once, of every kind.
CommandShapes == INSTANCE Serve WITH Asked <- {}, Kinds <- {}
Command == INSTANCE Serve
MCAsked == {s \in SUBSET CommandShapes!Options : Cardinality(s) <= 4}

\* Checkpoints of each kind, whole and damaged in one place, where a size has eight bits.
WeightShapes == INSTANCE MCWeights WITH
  BITS <- 8, MAX_HEADER <- 100, MAX_ALIGNMENT <- 32, MAX_EXPERTS <- 20, USED_MAX <- 2, SIZE_BOUND <- 15, Directories <- {}
Weights == INSTANCE WeightFiles WITH
  BITS <- 8, MAX_HEADER <- 100, MAX_ALIGNMENT <- 32, MAX_EXPERTS <- 20, USED_MAX <- 2, SIZE_BOUND <- 15
MCDirectories == WeightShapes!MCDirectories

EncoderShapes == INSTANCE MCEncoderFiles WITH Checkpoints <- {}, Threads <- 0, CPUS <- 300, MAX_THREADS <- 256
MCCheckpoints == EncoderShapes!MCCheckpoints
Embedder == INSTANCE EncoderFiles WITH Threads <- 0, CPUS <- 300, MAX_THREADS <- 256

-----------------------------------------------------------------------------
(* Replies.  Bytes are one-letter strings: T and C end the tags of thinking and *)
(* of calls, J is a call's JSON, n a newline, L and k a character of two bytes. *)

MCOpenThink == <<"<", "T">>
MCCloseThink == <<"<", "/", "T">>
MCOpenCall == <<"<", "C">>
MCCloseCall == <<"<", "/", "C">>
MCNeeds == "L" :> 2 @@ "M" :> 3
MCCalls == {<<"J">>}

Ask(api, stream, parse, think, tools, stops, prefilled, max) ==
  [api |-> api, stream |-> stream, parse |-> parse, think |-> think, tools |-> tools,
   stops |-> stops, prefill |-> prefilled, max |-> max]

\* Stops that overlap, and that begin as a tag does.
Stops == <<<<"a", "b">>, <<"b", "a", "b">>>>
TagStop == <<<<"<", "/", "a">>>>

MCAsks ==
  {Ask("completions", TRUE, FALSE, FALSE, FALSE, Stops, <<>>, 5),
   Ask("messages", TRUE, TRUE, TRUE, TRUE, <<>>, <<>>, 4),
   Ask("responses", TRUE, TRUE, TRUE, FALSE, TagStop, <<>>, 5),
   Ask("responses", TRUE, TRUE, FALSE, TRUE, <<>>, MCOpenCall, 4),
   Ask("chat", TRUE, TRUE, FALSE, TRUE, <<<<"J", "<">>>>, MCOpenCall, 4),
   Ask("chat", FALSE, TRUE, TRUE, FALSE, TagStop, <<>>, 3)}

MCTokens(request) ==
  IF ~request.parse THEN {<<"a">>, <<"b">>, <<"a", "b", "a">>, <<"L">>, <<"M", "k">>, <<"k", "b">>}
  ELSE {<<"a">>, <<"n">>, <<"<">>}
         \cup (IF request.think THEN {<<"/">>, <<"T">>} ELSE {<<"/", "C">>})
         \cup (IF request.tools THEN {<<"C">>, <<"J">>} ELSE {})

Reply == INSTANCE ReplyProofs WITH
  ask <- r_ask, taken <- r_taken, text <- r_text, rp <- r_parser, emitted <- r_emitted, g <- r_gen,
  stop <- r_stop, finish <- r_finish

ASSUME Assumptions == Installer!InstallAssumption /\ Command!ServeAssumption /\ Paged!PagedAssumption /\ Embedder!EncoderFilesAssumption
                      /\ Weights!WeightFilesAssumption /\ Reply!ReplyAssumption

-----------------------------------------------------------------------------
weights_vars == <<dir, shards, mapped, todo, heap>>
embedder_vars == <<disk, cfg, at, path, owned, open, pool>>
command_vars == <<asks, kind, gpu, held, took, rc, lost>>
installer_vars == <<machine, engine, part, files, script, release, wish, plan, nth, round, bad, fault, before, runs, faults>>
paged_vars == <<geometry, num_tokens, free_blocks, tables, pins, prefill>>
reply_vars == <<r_ask, r_taken, r_text, r_parser, r_emitted, r_gen, r_stop, r_finish>>

NoWeights == dir = <<>> /\ shards = <<>> /\ mapped = <<>> /\ todo = <<>> /\ heap = {}
NoEmbedder == disk = <<>> /\ cfg = <<>> /\ at = 1 /\ path = "" /\ owned = {} /\ open = FALSE /\ pool = 0
NoCommand == asks = {} /\ kind = "none" /\ gpu = FALSE /\ held = {} /\ took = {} /\ rc = 0 /\ lost = FALSE
NoInstaller ==
  /\ machine = <<>> /\ engine = <<>> /\ part = <<>> /\ files = <<>> /\ script = <<>> /\ release = <<>> /\ wish = "" /\ plan = <<>>
  /\ nth = 0 /\ round = 0 /\ bad = {} /\ fault = FALSE /\ before = <<>> /\ runs = 0 /\ faults = 0
NoPaged == geometry = <<>> /\ num_tokens = <<>> /\ free_blocks = 0 /\ tables = <<>> /\ pins = <<>> /\ prefill = <<>>
NoReply ==
  /\ r_ask = <<>> /\ r_taken = <<>> /\ r_text = <<>> /\ r_parser = <<>> /\ r_emitted = 0 /\ r_gen = <<>>
  /\ r_stop = 0 /\ r_finish = ""

MCInit ==
  \/ running = "weights" /\ Weights!Init /\ NoEmbedder /\ NoCommand /\ NoInstaller /\ NoPaged /\ NoReply
  \/ running = "embedder" /\ Embedder!Init /\ NoWeights /\ NoCommand /\ NoInstaller /\ NoPaged /\ NoReply
  \/ running = "command" /\ Command!Init /\ bound = <<>> /\ NoWeights /\ NoEmbedder /\ NoInstaller /\ NoPaged /\ NoReply
  \/ running = "installer" /\ Installer!Init /\ bound = <<>> /\ NoWeights /\ NoEmbedder /\ NoCommand /\ NoPaged /\ NoReply
  \/ running = "paged" /\ Paged!Init /\ pc = "" /\ bound = <<>> /\ NoWeights /\ NoEmbedder /\ NoCommand /\ NoInstaller /\ NoReply
  \/ running = "reply" /\ Reply!Init /\ bound = <<>> /\ NoWeights /\ NoEmbedder /\ NoCommand /\ NoInstaller /\ NoPaged

Parts ==
  \/ running = "weights" /\ Weights!Next /\ UNCHANGED <<embedder_vars, command_vars, installer_vars, paged_vars, reply_vars>>
  \/ running = "embedder" /\ Embedder!Next /\ UNCHANGED <<weights_vars, command_vars, installer_vars, paged_vars, reply_vars>>
  \/ running = "command" /\ Command!Next /\ UNCHANGED <<bound, weights_vars, embedder_vars, installer_vars, paged_vars, reply_vars>>
  \/ running = "installer" /\ Installer!Next /\ UNCHANGED <<bound, weights_vars, embedder_vars, command_vars, paged_vars, reply_vars>>
  \/ running = "paged" /\ Paged!Next /\ UNCHANGED <<pc, bound, weights_vars, embedder_vars, command_vars, installer_vars, reply_vars>>
  \/ running = "reply" /\ Reply!Next /\ UNCHANGED <<bound, weights_vars, embedder_vars, command_vars, installer_vars, paged_vars>>

MCNext == Parts /\ UNCHANGED running

MCvars == <<running, pc, bound, weights_vars, embedder_vars, command_vars, installer_vars, paged_vars, reply_vars>>

MCSpec == MCInit /\ [][MCNext]_MCvars

\* The parts' properties, each where its part runs; those of one part together.
LoadedWholeOrNot ==
  /\ running = "weights" => Weights!BoundAsWritten /\ Weights!NothingKept
  /\ running = "embedder" => Embedder!LoadedAsStated
ServesAsAsked == running = "command" => Command!ServesAsAsked
ServesPinned == running = "installer" => Installer!ServesPinned
CleanRunInstalls == running = "installer" => Installer!CleanRunInstalls
PlansAgain == [][running = "installer" => Installer!PlansNoLess]_MCvars
BlocksAreOwn == running = "paged" => Paged!BlocksAreOwn
StreamedAsWhole == running = "reply" => Reply!StreamedAsWhole /\ Reply!CharactersWhole /\ Reply!EventsNest
CutAtFirstStop == running = "reply" => Reply!CutAtFirstStop
=============================================================================
