------------------------------- MODULE Serve --------------------------------
(***************************************************************************)
(* serve from its command line to its end (engine/src/main.c main,         *)
(* cmd_serve, serve_encoder, load_model): the options that are refused, the*)
(* parts that are opened one on another, the server's run, and what is     *)
(* freed on every way out.  How a model's files are read is WeightFiles'   *)
(* and EncoderFiles'; here they are sound or not.  Any step that needs     *)
(* memory, a file or the device may fail.                                  *)
(***************************************************************************)
EXTENDS Integers, FiniteSets

CONSTANTS
  Asked,  \* sets of options
  Kinds   \* what --model is

VARIABLES
  pc, asks, kind,
  gpu,    \* built with CUDA, on a machine with a device
  held,   \* what is open or allocated
  took,   \* the options that are in effect
  rc,     \* the status the process ends with
  lost    \* vitna_api_lost

vars == <<pc, asks, kind, gpu, held, took, rc, lost>>

EXIT_DEVICE_LOST == 75

GpuOnly == {"gpu_expert_cache", "cpu_experts", "gpu_kv_layers", "fast"}
OfExperts == GpuOnly \cup {"expert_cache"}
OfGeneration == {"cuda", "speculate", "parallel", "ctx", "expert_cache"}

Options == OfExperts \cup OfGeneration \cup {"threads", "threads 0", "parallel 0"}

ServeAssumption ==
  Asked \subseteq SUBSET Options /\ Kinds \subseteq {"none", "bert", "bert, no WordPiece", "dense", "moe"}

Bert == kind \in {"bert", "bert, no WordPiece"}

Init ==
  /\ pc = "main" /\ asks \in Asked /\ kind \in Kinds /\ gpu \in BOOLEAN
  /\ held = {} /\ took = {} /\ rc = 1 /\ lost = FALSE

\* main: refused before anything is loaded.
RefusedAtOnce == ("cuda" \notin asks /\ asks \cap GpuOnly # {}) \/ ("cuda" \in asks /\ ~gpu)

\* Mutant: serve_encoder checks the device and nothing else.
OnlyDeviceRefused == RefusedAtOnce \/ "parallel 0" \in asks \/ (Bert /\ asks \cap {"threads 0", "cuda"} # {})
                     \/ (~Bert /\ kind # "none" /\ asks \cap {"threads", "threads 0"} # {})

\* Those, and what cmd_serve and serve_encoder refuse.
Refused ==
  \/ RefusedAtOnce
  \/ "parallel 0" \in asks
  \/ Bert /\ asks \cap (OfGeneration \cup {"threads 0"}) # {}
  \/ ~Bert /\ kind # "none" /\ asks \cap {"threads", "threads 0"} # {}

Begin ==
  /\ pc = "main"
  /\ pc' = IF Refused THEN "ended" ELSE IF kind = "none" THEN "runs" ELSE "tokenizer"
  /\ UNCHANGED <<asks, kind, gpu, held, took, rc, lost>>

\* load_tokenizer, which an embedding model needs to be WordPiece.
Tokenizer ==
  /\ pc = "tokenizer"
  /\ \/ pc' = "ended" /\ UNCHANGED held
     \/ /\ held' = {"tokenizer"}
        /\ pc' = IF kind = "bert, no WordPiece" THEN "close" ELSE IF Bert THEN "encoder" ELSE "load"
  /\ UNCHANGED <<asks, kind, gpu, took, rc, lost>>

\* vitna_encoder_load, which frees what it has when it fails, and one pass to
\* read the weights, which the server does without if it fails.
Encoder ==
  /\ pc = "encoder"
  /\ \/ pc' = "close" /\ UNCHANGED <<held, took>>
     \/ held' = held \cup {"encoder"} /\ took' = asks \cap {"threads"} /\ pc' = "api"
  /\ UNCHANGED <<asks, kind, gpu, rc, lost>>

\* The steps of load_model and what follows it, in their order.
After == [load |-> "expert_cache", expert_cache |-> "gpu_expert_cache", gpu_expert_cache |-> "gpu_kv_layers",
          gpu_kv_layers |-> "fast", fast |-> "cuda", cuda |-> "cpu_experts", cpu_experts |-> "api"]

\* vitna_llama_load_ex, for as many sequences and as long a context as asked.
Load ==
  /\ pc = "load"
  /\ \/ pc' = "close" /\ UNCHANGED <<held, took>>
     \/ pc' = After[pc] /\ held' = held \cup {"files", "heap", "host_kv"} /\ took' = asks \cap {"ctx", "parallel"}
  /\ UNCHANGED <<asks, kind, gpu, rc, lost>>

\* What an option opens, and what it closes.
Opens(option) == CASE option = "expert_cache" -> {"stream"} [] option = "cuda" -> {"gpu"} [] option = "cpu_experts" -> {"threads"} [] OTHER -> {}
Closes(option) == IF option = "cuda" THEN {"host_kv"} ELSE {}

\* Mutant: the model is kept when what was asked of it cannot be had.
KeptOnFailure == held

\* vitna_llama_free: the device's part first, then the stream, then the files.
OfModel == {"gpu", "threads", "stream", "host_kv", "heap", "files"}
Unloaded == held \ OfModel

\* An option of load_model that is asked for: the model has a use for it and it
\* can be had, or the model is freed.
Option ==
  /\ pc \in DOMAIN After \ {"load"}
  /\ IF pc \notin asks THEN pc' = After[pc] /\ UNCHANGED <<held, took>>
     ELSE \/ /\ pc \in OfExperts => kind = "moe"
             /\ pc = "cuda" => gpu
             /\ held' = (held \cup Opens(pc)) \ Closes(pc)
             /\ took' = took \cup {pc}
             /\ pc' = After[pc]
          \/ /\ pc \in {"expert_cache", "cuda", "cpu_experts"} \/ kind = "dense"
             /\ pc' = "close" /\ held' = Unloaded
             /\ UNCHANGED took
  /\ UNCHANGED <<asks, kind, gpu, rc, lost>>

\* vitna_api_create, or vitna_api_create_encoder.
CreateApi ==
  /\ pc = "api"
  /\ \/ pc' = "close model" /\ UNCHANGED held
     \/ pc' = (IF Bert THEN "runs" ELSE "speculate") /\ held' = held \cup {"api"}
  /\ UNCHANGED <<asks, kind, gpu, took, rc, lost>>

\* vitna_api_set_speculate: serving without it if there is no memory.
Speculate ==
  /\ pc = "speculate"
  /\ took' \in {took \cup (asks \cap {"speculate"}), took}
  /\ pc' = "runs"
  /\ UNCHANGED <<asks, kind, gpu, held, rc, lost>>

\* vitna_server_run, until it returns.
Run ==
  /\ pc = "runs"
  /\ \/ lost' = FALSE /\ rc' \in {0, 1}
     \/ lost' = TRUE /\ "gpu" \in held /\ rc' = EXIT_DEVICE_LOST
  /\ pc' = IF "api" \in held THEN "free api" ELSE "ended"
  /\ UNCHANGED <<asks, kind, gpu, held, took>>

FreeApi ==
  /\ pc = "free api"
  /\ held' = held \ {"api"}
  /\ pc' = "close model"
  /\ UNCHANGED <<asks, kind, gpu, took, rc, lost>>

CloseModel ==
  /\ pc = "close model"
  /\ held' = Unloaded \ {"encoder"}
  /\ pc' = "close"
  /\ UNCHANGED <<asks, kind, gpu, took, rc, lost>>

Close ==
  /\ pc = "close"
  /\ held' = held \ {"tokenizer"}
  /\ pc' = "ended"
  /\ UNCHANGED <<asks, kind, gpu, took, rc, lost>>

Next ==
  \/ Begin \/ Tokenizer \/ Encoder \/ Load \/ Option \/ CreateApi \/ Speculate \/ Run \/ FreeApi \/ CloseModel \/ Close

Spec == Init /\ [][Next]_vars

-----------------------------------------------------------------------------
(* Properties *)

\* A model is served with all that was asked for it, and with the GPU only if
\* that was asked; nothing falls back to the CPU in its place, and only drafting
\* may be left out, said so.  The requests' scheduler is freed before what it
\* uses.  Nothing is held when the process ends, and its status says that the
\* device was lost exactly when it was (main.c main, cmd_serve, load_model).
ServesAsAsked ==
  /\ pc = "runs" /\ kind # "none" =>
       /\ asks \ {"speculate"} \subseteq took /\ took \subseteq asks
       /\ ("gpu" \in held) = ("cuda" \in asks)
       /\ ~Bert => ("host_kv" \in held) = ("cuda" \notin asks)
  /\ "api" \in held => {"tokenizer"} \subseteq held /\ (IF Bert THEN "encoder" ELSE "files") \in held
  /\ pc = "ended" => held = {} /\ (rc = EXIT_DEVICE_LOST) = lost
=============================================================================
