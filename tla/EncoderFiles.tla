---------------------------- MODULE EncoderFiles ----------------------------
(***************************************************************************)
(* How an embedding model is read from its directory                       *)
(* (engine/src/encoder.c:657-919): what config.json, modules.json, the     *)
(* pooling module's configuration and sentence_bert_config.json say, the   *)
(* tensors of model.safetensors under either of two names, and the pool of *)
(* threads.  A text that is left out is Nothing and a number LeftOut, as   *)
(* all are of a file that is missing or not JSON; a list is empty then.  A *)
(* number that is not a positive integer is 0.                             *)
(***************************************************************************)
EXTENDS Integers, FiniteSetsExt, SequencesExt

CONSTANTS
  Checkpoints,  \* what is on the disk: config, modules, poolings, limit, tensors
  Threads,      \* --threads, 0 where it is left out
  CPUS,         \* the machine's processors
  MAX_THREADS   \* 256

Nothing == "nothing"
LeftOut == -1
Sizes == {"n_layers", "hidden", "n_heads", "intermediate", "vocab", "max_positions"}

EncoderFilesAssumption ==
  /\ CPUS \in Nat \ {0} /\ MAX_THREADS \in Nat \ {0} /\ Threads \in Nat
  /\ \A d \in Checkpoints :
       /\ \A s \in Sizes : d.config[s] \in Int
       /\ d.limit \in Int /\ d.modules \in Seq(Range(d.modules))
       /\ \A p \in DOMAIN d.poolings : p # Nothing /\ d.poolings[p].cls \in BOOLEAN /\ d.poolings[p].mean \in BOOLEAN

VARIABLES
  pc, disk,
  cfg,    \* the configuration so far
  at,     \* the module that is read next
  path,   \* pooling_path
  bound,  \* the tensors bound, each [name, from], from as the file has it
  owned,  \* those of them that are copies, in memory of their own
  open,   \* st_open
  pool    \* the threads of the pool, 0 if there is none

vars == <<pc, disk, cfg, at, path, bound, owned, open, pool>>

Init ==
  /\ disk \in Checkpoints /\ pc = "config"
  /\ cfg = <<>> /\ at = 1 /\ path = Nothing /\ bound = <<>> /\ owned = {} /\ open = FALSE /\ pool = 0

\* vitna_encoder_wanted
Wanted(d) == d.config.model_type = "bert"

ConfigRight(c) ==
  /\ c.model_type = "bert" /\ c.act = "gelu" /\ c.position \in {Nothing, "absolute"}
  /\ \A s \in Sizes : c[s] > 0
  /\ c.type_vocab = LeftOut \/ c.type_vocab > 0
  /\ c.hidden % c.n_heads = 0

read_config ==
  /\ pc = "config"
  /\ IF Wanted(disk) /\ ConfigRight(disk.config)
     THEN LET c == disk.config
          IN  /\ cfg' = [n_layers |-> c.n_layers, hidden |-> c.hidden, n_heads |-> c.n_heads, intermediate |-> c.intermediate,
                         vocab |-> c.vocab, max_positions |-> c.max_positions,
                         type_vocab |-> IF c.type_vocab = LeftOut THEN 2 ELSE c.type_vocab,
                         max_tokens |-> c.max_positions, pooling |-> Nothing, normalize |-> FALSE]
              /\ pc' = "modules"
     ELSE pc' = "refused" /\ UNCHANGED cfg
  /\ UNCHANGED <<disk, at, path, bound, owned, open, pool>>

\* Mutant: Normalize is taken anywhere after the first.
AnyNormalize(m) == m.type = "Normalize" /\ ~cfg.normalize

IsNormalize(m) == m.type = "Normalize" /\ path # Nothing /\ ~cfg.normalize

\* One module of modules.json.
read_module ==
  /\ pc = "modules"
  /\ Len(disk.modules) >= 2 /\ at <= Len(disk.modules)
  /\ LET m == disk.modules[at]
     IN  \/ /\ at = 1 /\ m.type = "Transformer"
            /\ at' = at + 1 /\ UNCHANGED <<pc, cfg, path>>
         \/ /\ at > 1 /\ m.type = "Pooling" /\ path = Nothing /\ m.path # Nothing
            /\ at' = at + 1 /\ path' = m.path /\ UNCHANGED <<pc, cfg>>
         \/ /\ at > 1 /\ IsNormalize(m)
            /\ at' = at + 1 /\ cfg' = [cfg EXCEPT !.normalize = TRUE] /\ UNCHANGED <<pc, path>>
         \/ /\ IF at = 1 THEN m.type # "Transformer"
               ELSE ~(m.type = "Pooling" /\ path = Nothing /\ m.path # Nothing) /\ ~IsNormalize(m)
            /\ pc' = "refused" /\ UNCHANGED <<at, cfg, path>>
  /\ UNCHANGED <<disk, bound, owned, open, pool>>

PoolingRight(p) ==
  /\ p.others = {} /\ p.cls # p.mean
  /\ p.dim \in {LeftOut, cfg.hidden}

\* The modules are read: the pooling module's own configuration is next.
read_pooling ==
  /\ pc = "modules"
  /\ Len(disk.modules) < 2 \/ at > Len(disk.modules)
  /\ IF at > 1 /\ path \in DOMAIN disk.poolings /\ PoolingRight(disk.poolings[path])
     THEN /\ cfg' = [cfg EXCEPT !.pooling = IF disk.poolings[path].cls THEN "cls" ELSE "mean"]
          /\ pc' = "limit"
     ELSE pc' = "refused" /\ UNCHANGED cfg
  /\ UNCHANGED <<disk, at, path, bound, owned, open, pool>>

\* max_seq_length, in whole tokens.
read_limit ==
  /\ pc = "limit"
  /\ cfg' = IF disk.limit >= 2 /\ disk.limit < cfg.max_tokens
            THEN [cfg EXCEPT !.max_tokens = disk.limit] ELSE cfg
  /\ pc' = "open"
  /\ UNCHANGED <<disk, at, path, bound, owned, open, pool>>

Open ==
  /\ pc = "open"
  /\ IF DOMAIN disk.tensors # {} THEN open' = TRUE /\ pc' = "bind" ELSE pc' = "refused" /\ UNCHANGED open
  /\ UNCHANGED <<disk, cfg, at, path, bound, owned, pool>>

-----------------------------------------------------------------------------
(* The tensors, in the order they are bound, with the shapes they must have *)

Dense(l, part, out, in) == <<[name |-> <<l, part, "weight">>, shape |-> <<out, in>>], [name |-> <<l, part, "bias">>, shape |-> <<out>>]>>
Norm(l, part, n) == <<[name |-> <<l, part, "weight">>, shape |-> <<n>>], [name |-> <<l, part, "bias">>, shape |-> <<n>>]>>

Layer(l, h, i) ==
  Dense(l, "q", h, h) \o Dense(l, "k", h, h) \o Dense(l, "v", h, h) \o Dense(l, "o", h, h) \o Norm(l, "attn_ln", h)
  \o Dense(l, "up", i, h) \o Dense(l, "down", h, i) \o Norm(l, "out_ln", h)

Embeddings(c) ==
  <<[name |-> <<0, "word", "weight">>, shape |-> <<c.vocab, c.hidden>>],
    [name |-> <<0, "position", "weight">>, shape |-> <<c.max_positions, c.hidden>>],
    [name |-> <<0, "token_type", "weight">>, shape |-> <<c.type_vocab, c.hidden>>]>> \o Norm(0, "emb_ln", c.hidden)

Weights(c) == Embeddings(c) \o FlattenSeq([l \in 1 .. c.n_layers |-> Layer(l, c.hidden, c.intermediate)])

\* What the word embeddings are called decides what the others must be.
prefix == IF <<"", <<0, "word", "weight">>>> \in DOMAIN disk.tensors THEN "" ELSE "bert."

\* tensor(): bound where it lies if it is float32 and aligned, else widened to a
\* copy, for which there may be no memory.
bind(w) ==
  LET full == <<prefix, w.name>>
      t == disk.tensors[full]
      there == full \in DOMAIN disk.tensors /\ t.shape = w.shape /\ t.dtype \in {"F32", "F16", "BF16"}
      copied == t.dtype # "F32" \/ ~t.aligned
  IN  \/ /\ there
         /\ bound' = Append(bound, [name |-> w.name, from |-> full])
         /\ owned' = IF copied THEN owned \cup {full} ELSE owned
         /\ UNCHANGED pc
      \/ /\ there => copied
         /\ pc' = "free" /\ UNCHANGED <<bound, owned>>

Bind ==
  /\ pc = "bind"
  /\ LET weights == Weights(cfg)
     IN  IF Len(bound) < Len(weights) THEN bind(weights[Len(bound) + 1])
         ELSE pc' = "pool" /\ UNCHANGED <<bound, owned>>
  /\ UNCHANGED <<disk, cfg, at, path, open, pool>>

\* pool_create(e->threads), for which there may be no memory.
CreatePool ==
  /\ pc = "pool"
  /\ \/ pool' = Min({MAX_THREADS, IF Threads > 0 THEN Threads ELSE CPUS}) /\ pc' = "loaded"
     \/ pc' = "free" /\ UNCHANGED pool
  /\ UNCHANGED <<disk, cfg, at, path, bound, owned, open>>

\* Mutant: the copies are kept.
FreeButCopies(over) ==
  /\ pool' = 0 /\ open' = FALSE /\ bound' = <<>> /\ cfg' = <<>>
  /\ pc' = over
  /\ UNCHANGED <<disk, at, path, owned>>

vitna_encoder_free(over) ==
  /\ pool' = 0 /\ owned' = {} /\ open' = FALSE /\ bound' = <<>> /\ cfg' = <<>>
  /\ pc' = over
  /\ UNCHANGED <<disk, at, path>>

Fail == pc = "free" /\ vitna_encoder_free("failed")
Free == pc = "loaded" /\ vitna_encoder_free("freed")

Next == read_config \/ read_module \/ read_pooling \/ read_limit \/ Open \/ Bind \/ CreatePool \/ Fail \/ Free

Spec == Init /\ [][Next]_vars

-----------------------------------------------------------------------------
(* Properties *)

\* The modules as sentence-transformers runs them: the transformer, the pooling,
\* and then Normalize if it is there.
Types == [k \in DOMAIN disk.modules |-> disk.modules[k].type]
AsListed ==
  IF cfg.normalize THEN Types = <<"Transformer", "Pooling", "Normalize">> ELSE Types = <<"Transformer", "Pooling">>

\* A model that is loaded pools as its modules say and normalizes only if they
\* do, after the pooling; a text of as many tokens as it takes has a position
\* for each; every weight is the tensor of its name and of the shape the
\* configuration gives, all of them under one prefix.  When loading fails, or
\* the model is freed, no file is open and no copy or thread is left
\* (encoder.c:714-716, 799-801, vitna_encoder_load).
LoadedAsStated ==
  /\ pc = "loaded" =>
       /\ AsListed
       /\ LET p == disk.poolings[disk.modules[2].path]
          IN  p.others = {} /\ p.cls = (cfg.pooling = "cls") /\ p.mean = (cfg.pooling = "mean")
       /\ cfg.max_tokens <= disk.tensors[bound[2].from].shape[1]
       /\ disk.limit > 1 => cfg.max_tokens <= disk.limit
       /\ \A k \in DOMAIN bound : bound[k].from[1] = bound[1].from[1] /\ bound[k].from[2] = Weights(cfg)[k].name
       /\ Cardinality({bound[k].name : k \in DOMAIN bound}) = 5 + 16 * cfg.n_layers
       /\ pool \in 1 .. MAX_THREADS
  /\ pc \in {"refused", "failed", "freed"} => owned = {} /\ ~open /\ pool = 0
=============================================================================
