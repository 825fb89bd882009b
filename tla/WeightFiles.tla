---------------------------- MODULE WeightFiles -----------------------------
(***************************************************************************)
(* How a model's weights are found in its files (engine/src/model.c:50-420,*)
(* safetensors.c, gguf.c): config.json is read, the checkpoint is opened - *)
(* one SafeTensors file, the shards of an index, or a GGUF file - each     *)
(* file's directory is checked, and each weight the configuration calls    *)
(* for is bound to the bytes of the tensor of its name.                    *)
(*                                                                         *)
(* Lengths are numbers of BITS bits.  A file is its size and what its      *)
(* directory says; what each byte of its data is, is known to the writer   *)
(* of the file, and to nobody who reads it.                                *)
(***************************************************************************)
EXTENDS Integers, FiniteSetsExt, SequencesExt

CONSTANTS
  BITS,         \* a size_t and a uint64_t have BITS bits
  Directories,  \* what is on the disk: config, weights (--weights or Nothing),
                \* single, index, files; and as_written, if nobody damaged it
  MAX_HEADER,   \* the longest header of a SafeTensors file that is parsed
  MAX_ALIGNMENT, MAX_EXPERTS, USED_MAX, SIZE_BOUND  \* 1 MiB, 65536, VITNA_EXPERTS_USED_MAX, 1e9

Nothing == "nothing"

\* What bytes are read as: numbers, and lists of entries.
IsList(s) == Len(s) \in Nat /\ s \in [1 .. Len(s) -> Range(s)]
FileTypes(f) ==
  /\ f.kind \in {"safetensors", "gguf"} /\ f.size \in Nat
  /\ f.kind = "safetensors" =>
       /\ f.header \in Nat /\ IsList(f.entries)
       /\ \A e \in Range(f.entries) : e.begin \in Nat /\ e.end \in Nat /\ e.shape \in Seq(Nat)
  /\ f.kind = "gguf" =>
       /\ f.others \in Nat /\ IsFiniteSet(DOMAIN f.numbers) /\ f.alignment \in Nat /\ IsList(f.tensors)
       /\ \A t \in Range(f.tensors) : t.offset \in Nat /\ t.ne \in Seq(Nat)

WeightFilesAssumption == \A d \in Directories : \A path \in DOMAIN d.files : FileTypes(d.files[path])

VARIABLES
  pc, dir,
  shards,  \* the files opened: path, tensors
  mapped,  \* the paths that are mapped, each once for every mapping
  todo,    \* the weights still to be bound: name, rows, cols (0 for a norm's), copied
  bound,   \* those bound: name, rows, cols, shard, tensor
  heap     \* allocations of the model still to be given back

vars == <<pc, dir, shards, mapped, todo, bound, heap>>

-----------------------------------------------------------------------------
(* Sizes *)

MAX == 2 ^ BITS - 1
Wrapped(n) == n % 2 ^ BITS

\* Elements and bytes of a block: an element type has blocks of one.  The
\* sizes stand for those of DTYPES and BLOCKS: two that are read as they are,
\* one of blocks, and one the engine does not compute with.
Dtypes == {"F32", "BF16", "Q8_0", "I64"}
elems(t) == IF t = "Q8_0" THEN 2 ELSE 1
block_bytes(t) == CASE t = "F32" -> 2 [] t = "BF16" -> 1 [] t = "Q8_0" -> 3 [] t = "I64" -> 4
is_block(t) == elems(t) > 1

row_bytes(t, cols) == IF cols % elems(t) # 0 THEN 0 ELSE Wrapped((cols \div elems(t)) * block_bytes(t))

Product(shape) ==
  LET product[d \in 0 .. Len(shape)] == IF d = 0 THEN 1 ELSE product[d - 1] * shape[d]
  IN  product[Len(shape)]

\* The bytes of a tensor as its shape and type have it.
ByteSize(t) == (Product(t.shape) \div elems(t.dtype)) * block_bytes(t.dtype)

-----------------------------------------------------------------------------
(* A SafeTensors file: size, header, and entries as the header's JSON lists *)
(* them; a header that is not JSON has none to list.                        *)

\* The product as it is taken, dimension by dimension, is never more than MAX.
ShapeFits(shape) ==
  \A d \in DOMAIN shape : shape[d] # 0 => Product(SubSeq(shape, 1, d - 1)) <= MAX \div shape[d]

\* parse_directory on one entry.
EntryFits(e, data_size) ==
  /\ e.dtype \in Dtypes \ {"Q8_0"}
  /\ Len(e.shape) <= 8 /\ ShapeFits(e.shape)
  /\ e.begin <= e.end /\ e.end <= data_size
  /\ e.end - e.begin = Wrapped(Product(e.shape) * block_bytes(e.dtype))

parse_directory(f) ==
  [k \in DOMAIN f.entries |->
     [name |-> f.entries[k].name, dtype |-> f.entries[k].dtype, shape |-> f.entries[k].shape,
      begin |-> f.entries[k].begin, end |-> f.entries[k].end]]

\* The 8 bytes of the header's length count as one.
data_base(f) == 1 + f.header

SafeTensorsFits(f) ==
  /\ f.size >= 1 /\ f.header <= MAX_HEADER /\ data_base(f) <= f.size
  /\ f.json
  /\ \A k \in DOMAIN f.entries : EntryFits(f.entries[k], f.size - data_base(f))

vitna_safetensors_find(tensors, name) == SelectInSeq(tensors, LAMBDA t : t.name = name)

-----------------------------------------------------------------------------
(* A GGUF file: size, magic, version, sound (its types and lengths are      *)
(* GGUF's and end inside), others (metadata that is not compared), numbers  *)
(* (what is, with 0 for a value left out), arch, alignment and tensors.     *)
(* The file's own header and each entry take one byte here.                 *)

ModelParts == [token_embd |-> "embed_tokens", output_norm |-> "norm", output |-> "lm_head"]
LayerParts == [attn_norm |-> "input_layernorm", attn_q |-> "q_proj", attn_k |-> "k_proj", attn_v |-> "v_proj",
               attn_output |-> "o_proj", attn_q_norm |-> "q_norm", attn_k_norm |-> "k_norm",
               ffn_norm |-> "post_attention_layernorm", ffn_gate_inp |-> "router",
               ffn_gate |-> "gate_proj", ffn_up |-> "up_proj", ffn_down |-> "down_proj"]
StackParts == [ffn_gate_exps |-> "gate_proj", ffn_up_exps |-> "up_proj", ffn_down_exps |-> "down_proj"]

\* A name is a part of the model, or the digits of a layer and a part of it.
IsStack(name) == Len(name) = 2 /\ name[2] \in DOMAIN StackParts
NameKnown(name) == \/ Len(name) = 1 /\ name[1] \in DOMAIN ModelParts
                   \/ Len(name) = 2 /\ name[1] # <<>> /\ name[2] \in DOMAIN LayerParts \cup DOMAIN StackParts

Layer(name) == FoldLeft(LAMBDA n, d : 10 * n + d, 0, name[1])

\* Under the name of the stack's expert e, or of a tensor that is no stack.
hf_name(name, e) ==
  IF Len(name) = 1 THEN <<ModelParts[name[1]]>>
  ELSE IF IsStack(name) THEN <<Layer(name), e, StackParts[name[2]]>>
  ELSE <<Layer(name), LayerParts[name[2]]>>

dir_end(f) == 1 + f.others + Cardinality(DOMAIN f.numbers) + Len(f.tensors)

data_start(f) == ((dir_end(f) + f.alignment - 1) \div f.alignment) * f.alignment

rows(t) == IF Len(t.ne) >= 2 THEN t.ne[2] ELSE 1
count(t) == IF Len(t.ne) = 3 THEN t.ne[3] ELSE 1
slice(t) == rows(t) * row_bytes(t.type, t.ne[1])

StackFits(t, f) ==
  /\ NameKnown(t.name)
  /\ t.type \in Dtypes \ {"I64"}
  /\ IsStack(t.name) <=> Len(t.ne) = 3
  /\ row_bytes(t.type, t.ne[1]) # 0 /\ rows(t) # 0 /\ count(t) \in 1 .. MAX_EXPERTS
  /\ rows(t) <= MAX \div row_bytes(t.type, t.ne[1]) /\ slice(t) <= MAX \div count(t)
  /\ t.offset % f.alignment = 0
  /\ t.offset <= f.size - data_start(f)
  /\ Wrapped(slice(t) * count(t)) <= f.size - data_start(f) - t.offset

PowersOfTwo == {2 ^ k : k \in 0 .. BITS - 1}

GgufFits(f) ==
  /\ f.magic /\ f.version \in {2, 3}
  /\ f.sound /\ dir_end(f) <= f.size
  /\ f.arch \notin {Nothing, "llama"}
  /\ f.alignment \in PowersOfTwo /\ f.alignment <= MAX_ALIGNMENT
  /\ \A k \in DOMAIN f.tensors : Len(f.tensors[k].ne) \in 1 .. 3
  /\ \A j, k \in DOMAIN f.tensors : f.tensors[j].name = f.tensors[k].name => j = k
  /\ data_start(f) <= f.size
  /\ \A k \in DOMAIN f.tensors : StackFits(f.tensors[k], f)

\* Mutant: every expert of a stack is its first.
FirstSlice(t, e) == t.offset

SliceOf(t, e) == t.offset + e * slice(t)

\* A tensor of the file, as many as it is a stack of.
Listed(t) ==
  [k \in 1 .. count(t) |->
     [name |-> hf_name(t.name, k - 1), dtype |-> t.type,
      shape |-> IF Len(t.ne) = 1 THEN <<t.ne[1]>> ELSE <<rows(t), t.ne[1]>>,
      begin |-> SliceOf(t, k - 1), end |-> SliceOf(t, k - 1) + slice(t)]]

vitna_gguf_open(f) == FlattenSeq([k \in DOMAIN f.tensors |-> Listed(f.tensors[k])])

-----------------------------------------------------------------------------
(* config.json: what it asks for that is not supported, and its sizes,      *)
(* LeftOut where it has none and 0 where it has no positive integer.        *)

LeftOut == -1

Sized(n, required) == IF n = LeftOut THEN ~required ELSE n \in 1 .. SIZE_BOUND
Or(n, default) == IF n = LeftOut THEN default ELSE n

Moe(c) == c.model_type \in {"olmoe", "qwen3_moe"}

\* What stops each type of model.
Unsupported(c) ==
  {"act", "rope_scaling", "bias", "rope_interleaved", "pretraining_tp"}
  \cup (IF c.model_type = "olmoe" THEN {"clip_qkv"} ELSE {})
  \cup (IF c.model_type = "qwen3_moe" THEN {"sliding_window", "dense_layers"} ELSE {})

kv_heads(c) == Or(c.n_kv_heads, c.n_heads)
head_dim(c) == Or(c.head_dim, c.hidden \div c.n_heads)
q_dim(c) == Wrapped(c.n_heads * head_dim(c))
kv_dim(c) == Wrapped(kv_heads(c) * head_dim(c))
inter(c) == IF c.model_type = "qwen3_moe" THEN c.moe_intermediate ELSE c.intermediate
experts(c) == IF Moe(c) THEN c.n_experts ELSE 0
experts_used(c) == IF Moe(c) THEN c.n_experts_used ELSE 0

ConfigFits(c) ==
  /\ c.model_type = "llama" \/ Moe(c)
  /\ c.asks \cap Unsupported(c) = {}
  /\ \A n \in {c.n_layers, c.hidden, c.intermediate, c.n_heads, c.vocab, c.max_positions} : Sized(n, TRUE)
  /\ Sized(c.n_kv_heads, FALSE) /\ Sized(c.head_dim, FALSE)
  /\ c.n_heads % kv_heads(c) = 0 /\ head_dim(c) % 2 = 0
  /\ Moe(c) => /\ Sized(c.n_experts, TRUE) /\ Sized(c.n_experts_used, TRUE)
               /\ c.n_experts_used <= c.n_experts /\ c.n_experts_used <= USED_MAX
  /\ c.model_type = "qwen3_moe" => Sized(c.moe_intermediate, TRUE)

\* The file's numbers: one left out is 0.
Number(g, key) == IF key \in DOMAIN g THEN g[key] ELSE 0
ffn(g) == IF Number(g, "expert_feed_forward_length") # 0 THEN g.expert_feed_forward_length ELSE Number(g, "feed_forward_length")

gguf_disagrees(c, g) ==
  \/ \E p \in {<<Number(g, "block_count"), c.n_layers>>, <<Number(g, "embedding_length"), c.hidden>>, <<ffn(g), inter(c)>>,
               <<Number(g, "head_count"), c.n_heads>>, <<Number(g, "head_count_kv"), kv_heads(c)>>,
               <<Number(g, "key_length"), head_dim(c)>>, <<Number(g, "rms_eps"), c.rms_eps>>,
               <<Number(g, "rope_freq_base"), c.rope_theta>>} : p[1] # 0 /\ p[1] # p[2]
  \/ Number(g, "expert_count") # experts(c)
  \/ Number(g, "expert_used_count") # experts_used(c)

\* The weights of a layer, in the order they are bound.
Weight(name, r, cols) == [name |-> name, rows |-> r, cols |-> cols, copied |-> FALSE]
Mlp(c, prefix) == <<Weight(prefix \o <<"gate_proj">>, inter(c), c.hidden), Weight(prefix \o <<"up_proj">>, inter(c), c.hidden),
                    Weight(prefix \o <<"down_proj">>, c.hidden, inter(c))>>
Norm(name, n) == [Weight(name, n, 0) EXCEPT !.copied = TRUE]

LayerWeights(c, l) ==
  <<Weight(<<l, "q_proj">>, q_dim(c), c.hidden), Weight(<<l, "k_proj">>, kv_dim(c), c.hidden),
    Weight(<<l, "v_proj">>, kv_dim(c), c.hidden), Weight(<<l, "o_proj">>, c.hidden, q_dim(c))>>
  \o (IF Moe(c) THEN <<Weight(<<l, "router">>, experts(c), c.hidden)>>
                     \o FlattenSeq([e \in 1 .. experts(c) |-> Mlp(c, <<l, e - 1>>)])
      ELSE Mlp(c, <<l>>))
  \o <<Norm(<<l, "input_layernorm">>, c.hidden), Norm(<<l, "post_attention_layernorm">>, c.hidden)>>
  \o (IF ~Moe(c) THEN <<>>
      ELSE LET each == IF c.model_type = "qwen3_moe" THEN <<head_dim(c), head_dim(c)>> ELSE <<q_dim(c), kv_dim(c)>>
           IN  <<Norm(<<l, "q_norm">>, each[1]), Norm(<<l, "k_norm">>, each[2])>>)

Weights(c) ==
  <<Weight(<<"embed_tokens">>, c.vocab, c.hidden), Weight(<<"lm_head">>, c.vocab, c.hidden), Norm(<<"norm">>, c.hidden)>>
  \o FlattenSeq([l \in 1 .. c.n_layers |-> LayerWeights(c, l - 1)])

-----------------------------------------------------------------------------
(* Opening the checkpoint *)

Outside == {"", ".", "..", "up/shard"}  \* no name of a file in the directory

\* Files in order of first mention.
Mentioned(map) == FoldLeft(LAMBDA s, m : IF Contains(s, m.file) THEN s ELSE Append(s, m.file), <<>>, map)

Single == "model.safetensors"
Indexed == dir.weights = Nothing /\ Single \notin DOMAIN dir.files
Paths == IF dir.weights # Nothing THEN <<dir.weights>>
         ELSE IF ~Indexed THEN <<Single>>
         ELSE Mentioned(dir.index)

PathsFit ==
  /\ dir.weights # Nothing => dir.gguf_name
  /\ Indexed => dir.index # <<>> /\ \A k \in DOMAIN dir.index : dir.index[k].file \notin Outside

\* What opening the file lists, or that it does not open.
Fits(f) == CASE f.kind = "safetensors" -> dir.weights = Nothing /\ SafeTensorsFits(f)
             [] f.kind = "gguf" -> dir.weights # Nothing /\ GgufFits(f)
Tensors(f) == IF f.kind = "gguf" THEN vitna_gguf_open(f) ELSE parse_directory(f)

Found(opened, name) == {k \in DOMAIN opened : vitna_safetensors_find(opened[k].tensors, name) # 0}

\* The tensor of the first file that has one of the name: its file, its place.
find_tensor(opened, name) ==
  IF Found(opened, name) = {} THEN <<0, 0>>
  ELSE LET k == Min(Found(opened, name)) IN <<k, vitna_safetensors_find(opened[k].tensors, name)>>

IndexTrue == \A k \in DOMAIN dir.index :
  LET t == find_tensor(shards, dir.index[k].name)
  IN  t[1] # 0 /\ shards[t[1]].path = dir.index[k].file

Init ==
  /\ pc = "config" /\ dir \in Directories
  /\ shards = <<>> /\ mapped = {} /\ todo = <<>> /\ bound = <<>> /\ heap = {}

PathOf(k) == <<"shard_paths", 0, 0, k>>

\* vitna_llama_free: what the model holds, file by file and norm by norm.
Free(end) ==
  /\ pc' = end
  /\ shards' = <<>> /\ bound' = <<>> /\ todo' = <<>>
  /\ mapped' = mapped \ DOMAIN shards
  /\ heap' = heap \ ({PathOf(k) : k \in DOMAIN shards} \cup {bound[k].weight.name : k \in DOMAIN bound})

ReadConfig ==
  /\ pc = "config"
  /\ pc' = IF ConfigFits(dir.config) /\ PathsFit THEN "open" ELSE "failed"
  /\ UNCHANGED <<dir, shards, mapped, todo, bound, heap>>

\* Allocation fails: any of them, from here on.
NoMemory ==
  /\ pc \in {"open", "bind", "caches"}
  /\ Free("starved")
  /\ UNCHANGED dir

\* Mutant: what was mapped for a file that is refused stays.
RefusedKept(k) == mapped' = mapped \cup {k} /\ UNCHANGED heap

\* open_shard gives back the path, the reader the mapping.
Refused(k) == UNCHANGED <<mapped, heap>>

\* open_shard and open_gguf on the next file.
OpenShard ==
  /\ pc = "open" /\ Len(shards) < Len(Paths)
  /\ LET k == Len(shards) + 1
         path == Paths[k]
         fits == path \in DOMAIN dir.files /\ Fits(dir.files[path])
     IN  IF fits
         THEN /\ shards' = Append(shards, [path |-> path, tensors |-> Tensors(dir.files[path])])
              /\ mapped' = mapped \cup {k}
              /\ heap' = heap \cup {PathOf(k)}
              /\ UNCHANGED pc
         ELSE Refused(k) /\ pc' = "free" /\ UNCHANGED shards
  /\ UNCHANGED <<dir, todo, bound>>

Agrees == dir.weights # Nothing => ~gguf_disagrees(dir.config, dir.files[dir.weights].numbers)

CheckOpened ==
  /\ pc = "open" /\ Len(shards) = Len(Paths)
  /\ IF Agrees /\ (Indexed => IndexTrue)
     THEN pc' = "bind" /\ todo' = Weights(dir.config)
     ELSE pc' = "free" /\ UNCHANGED todo
  /\ UNCHANGED <<dir, shards, mapped, bound, heap>>

shape_ok(w, t) == t.shape = (IF w.cols = 0 THEN <<w.rows>> ELSE <<w.rows, w.cols>>)

DtypeRight(w, t) ==
  IF w.cols = 0 THEN t.dtype \in {"F32", "BF16"}
  ELSE t.dtype \in {"F32", "BF16"} \/ (is_block(t.dtype) /\ row_bytes(t.dtype, w.cols) # 0)

\* bind, and norm_weights where the weight is copied.
Bind ==
  /\ pc = "bind" /\ todo # <<>>
  /\ LET w == Head(todo)
         at == find_tensor(shards, w.name)
         t == shards[at[1]].tensors[at[2]]
     IN  IF at[1] # 0 /\ shape_ok(w, t) /\ DtypeRight(w, t)
         THEN /\ bound' = Append(bound, [weight |-> w, shard |-> at[1], tensor |-> t])
              /\ heap' = IF w.copied THEN heap \cup {w.name} ELSE heap
              /\ todo' = Tail(todo)
              /\ UNCHANGED pc
         ELSE IF at[1] = 0 /\ w.name = <<"lm_head">> /\ dir.config.tied
         THEN todo' = Tail(todo) /\ UNCHANGED <<bound, heap, pc>>
         ELSE pc' = "free" /\ UNCHANGED <<bound, heap, todo>>
  /\ UNCHANGED <<dir, shards, mapped>>

Bound ==
  /\ pc = "bind" /\ todo = <<>>
  /\ pc' = "caches"
  /\ UNCHANGED <<dir, shards, mapped, todo, bound, heap>>

Loaded ==
  /\ pc = "caches"
  /\ pc' = "loaded"
  /\ UNCHANGED <<dir, shards, mapped, todo, bound, heap>>

FreeFailed == pc = "free" /\ Free("failed") /\ UNCHANGED dir

vitna_llama_free == pc = "loaded" /\ Free("freed") /\ UNCHANGED dir

Next == ReadConfig \/ NoMemory \/ OpenShard \/ CheckOpened \/ Bind \/ Bound \/ Loaded \/ FreeFailed \/ vitna_llama_free

Spec == Init /\ [][Next]_vars

-----------------------------------------------------------------------------
(* Properties *)

\* Each weight bound is all there: its bytes, counted without wrapping, are in
\* its file's data (safetensors.h:4-9, gguf.h:4-7), though a directory may list
\* a tensor whose size wraps round to fit, where no size the configuration calls
\* for does.  In a checkpoint nobody damaged each
\* is the tensor of its name, an expert its slice of a stack, and such a
\* checkpoint is never refused, whichever way it is written.  What an index
\* lists comes from the file it is listed in (model.c:206-209).
DataSize(f) == f.size - (IF f.kind = "gguf" THEN data_start(f) ELSE data_base(f))

Inside(b) ==
  LET t == b.tensor
      f == dir.files[shards[b.shard].path]
  IN  t.end = t.begin + ByteSize(t) /\ t.end <= DataSize(f)

AsWritten(b) ==
  LET f == dir.files[shards[b.shard].path]
  IN  [name |-> b.weight.name, begin |-> b.tensor.begin, end |-> b.tensor.end] \in f.written

FromListedFile(b) ==
  Indexed => \A k \in DOMAIN dir.index : dir.index[k].name = b.weight.name => dir.index[k].file = shards[b.shard].path

BoundAsWritten ==
  /\ \A k \in DOMAIN bound :
       Inside(bound[k]) /\ FromListedFile(bound[k]) /\ (dir.as_written => AsWritten(bound[k]))
  /\ dir.as_written => pc \notin {"free", "failed"}

\* Whatever goes wrong while a model is loaded, and when it is freed, every
\* mapping is closed and every allocation given back.
NothingKept == pc \in {"failed", "freed", "starved"} => mapped = {} /\ heap = {}
=============================================================================
