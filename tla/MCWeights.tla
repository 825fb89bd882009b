----------------------------- MODULE MCWeights ------------------------------
EXTENDS WeightFiles

Cfg == [model_type |-> "olmoe", asks |-> {}, n_layers |-> 1, hidden |-> 2, intermediate |-> 1, n_heads |-> 1, vocab |-> 3,
        max_positions |-> 9, n_kv_heads |-> LeftOut, head_dim |-> LeftOut, n_experts |-> 2, n_experts_used |-> 1,
        moe_intermediate |-> 9, rms_eps |-> 2, rope_theta |-> 3, tied |-> FALSE]
Dense == [Cfg EXCEPT !.model_type = "llama", !.tied = TRUE, !.n_layers = 2, !.n_heads = 2, !.n_kv_heads = 1, !.head_dim = 2]
Qwen == [Cfg EXCEPT !.model_type = "qwen3_moe", !.moe_intermediate = 2, !.intermediate = 5]

Written(c) == SelectSeq(Weights(c), LAMBDA w : c.tied => w.name # <<"lm_head">>)
Shape(w) == IF w.cols = 0 THEN <<w.rows>> ELSE <<w.rows, w.cols>>
TypeOf(w) == IF w.cols = 0 THEN "F32" ELSE "BF16"

\* Tensors laid one after another.
Aligned(n, align) == ((n + align - 1) \div align) * align
After(s, align) == IF s = <<>> THEN 0 ELSE Aligned(s[Len(s)].end, align)
Laid(sizes, align) == FoldLeft(LAMBDA s, n : LET at == After(s, align) IN Append(s, [begin |-> at, end |-> at + n]), <<>>, sizes)
Size(w) == ByteSize([shape |-> Shape(w), dtype |-> TypeOf(w)])
StPlaced(ws, at) ==
  [kind |-> "safetensors", header |-> 2, json |-> TRUE, size |-> 3 + at[Len(at)].end,
   entries |-> [k \in DOMAIN ws |-> [name |-> ws[k].name, dtype |-> TypeOf(ws[k]), shape |-> Shape(ws[k]),
                                     begin |-> at[k].begin, end |-> at[k].end]],
   written |-> {[name |-> ws[k].name, begin |-> at[k].begin, end |-> at[k].end] : k \in DOMAIN ws}]
StFile(ws) == StPlaced(ws, Laid([k \in DOMAIN ws |-> Size(ws[k])], 1))

\* As llama.cpp writes it: the experts of a layer stacked, blocks where rows are whole ones.
Inv(parts, x) == CHOOSE p \in DOMAIN parts : parts[p] = x
GgType(w) == IF w.cols = 0 THEN "F32" ELSE IF w.cols % 2 = 0 THEN "Q8_0" ELSE "BF16"
Stacked(ws) == SelectSeq(ws, LAMBDA w : Len(w.name) = 3 => w.name[2] = 0)
GgTensor(w, n) ==
  [name |-> IF Len(w.name) = 1 THEN <<Inv(ModelParts, w.name[1])>>
            ELSE IF Len(w.name) = 3 THEN <<<<w.name[1]>>, Inv(StackParts, w.name[3])>> ELSE <<<<w.name[1]>>, Inv(LayerParts, w.name[2])>>,
   ne |-> IF w.cols = 0 THEN <<w.rows>> ELSE IF Len(w.name) = 3 THEN <<w.cols, w.rows, n>> ELSE <<w.cols, w.rows>>,
   type |-> GgType(w)]
GgSize(t) == count(t) * rows(t) * row_bytes(t.type, t.ne[1])
Numbers(c) == [block_count |-> c.n_layers, embedding_length |-> c.hidden, expert_feed_forward_length |-> inter(c), head_count |-> c.n_heads, rms_eps |-> c.rms_eps,
               expert_count |-> experts(c), expert_used_count |-> experts_used(c)]
GgWritten(t, at, size, n) == {[name |-> hf_name(t.name, e), begin |-> at + e * size, end |-> at + (e + 1) * size] : e \in 0 .. n - 1}
GgSized(f, end) == f @@ [size |-> data_start(f) + end]
GgPlaced(c, align, ts, at) ==
  GgSized([kind |-> "gguf", magic |-> TRUE, version |-> 3, sound |-> TRUE, others |-> 1, numbers |-> Numbers(c), arch |-> "arch",
           alignment |-> align, tensors |-> [k \in DOMAIN ts |-> ts[k] @@ [offset |-> at[k].begin]],
           written |-> UNION {GgWritten(ts[k], at[k].begin, GgSize(ts[k]) \div count(ts[k]), count(ts[k])) : k \in DOMAIN ts}],
          at[Len(at)].end)
GgLaid(c, align, ts) == GgPlaced(c, align, ts, Laid([k \in DOMAIN ts |-> GgSize(ts[k])], align))
GgOf(c, align, ws) == GgLaid(c, align, [k \in DOMAIN ws |-> GgTensor(ws[k], c.n_experts)])
GgFile(c, align) == GgOf(c, align, Stacked(Written(c)))

Base(c) == [config |-> c, weights |-> Nothing, gguf_name |-> TRUE, files |-> <<>>, index |-> <<>>, as_written |-> TRUE]
One(c) == [Base(c) EXCEPT !.files = (Single :> StFile(Written(c)))]
Gguf(c, align) == [Base(c) EXCEPT !.weights = "w.gguf", !.files = ("w.gguf" :> GgFile(c, align))]
Odd(ws, r) == SelectSeq(ws, LAMBDA w : Len(w.name) % 2 = r)
Split(c, ws) ==
  [Base(c) EXCEPT !.files = [f \in {"s0", "s1"} |-> StFile(Odd(ws, IF f = "s0" THEN 0 ELSE 1))],
                  !.index = [k \in DOMAIN ws |-> [name |-> ws[k].name, file |-> IF Len(ws[k].name) % 2 = 0 THEN "s0" ELSE "s1"]]]
Shards(c) == Split(c, Written(c))

Whole == {One(c) : c \in {Cfg, Dense, Qwen}} \cup {Shards(c) : c \in {Cfg, Dense}}
         \cup {Gguf(p[1], p[2]) : p \in {<<Cfg, 4>>, <<Cfg, 2>>, <<Qwen, 2>>, <<Qwen, 1>>}}
Bad(d) == [d EXCEPT !.as_written = FALSE]

\* Configurations that ask for what is not supported, or are not this model's.
BadConfigs == {[Cfg EXCEPT !.asks = {a}] : a \in {"clip_qkv", "sliding_window", "act"}}
              \cup {[Cfg EXCEPT !.model_type = t] : t \in {"llama", "qwen3_moe", "gpt"}}
              \cup {[Cfg EXCEPT !.hidden = n] : n \in {0, 3, LeftOut}} \cup {[Cfg EXCEPT !.head_dim = n] : n \in {3, 4}}
              \cup {[Cfg EXCEPT !.vocab = 4], [Cfg EXCEPT !.n_layers = 2], [Cfg EXCEPT !.n_experts = 1], [Cfg EXCEPT !.n_experts_used = 2],
                    [Cfg EXCEPT !.n_experts_used = 3], [Cfg EXCEPT !.n_kv_heads = 3], [Cfg EXCEPT !.intermediate = 2], [Dense EXCEPT !.tied = FALSE]}
BadConfigured(ds) == {[Bad(d) EXCEPT !.config = c] : d \in ds, c \in BadConfigs}

\* Directories of one file damaged in one place; 129 wraps round with two bytes each.
StDamaged(f) ==
  {[f EXCEPT !.size = n] : n \in {0, 2, f.size - 1, f.size + 1}} \cup {[f EXCEPT !.json = FALSE], [f EXCEPT !.header = 250], [f EXCEPT !.header = 99]}
  \cup UNION {{[f EXCEPT !.entries[k].dtype = t] : t \in {"F32", "BF16", "I64", "?"}}
              \cup {[f EXCEPT !.entries[k].shape = s] : s \in {<<>>, <<2, 3>>, <<129>>, <<16, 16>>, <<8, 16>>, <<0, 255>>}}
              \cup {[f EXCEPT !.entries[k].begin = n, !.entries[k].end = n + d] : n \in {0, f.entries[k].begin + 1, f.size}, d \in {0, 1, f.entries[k].end - f.entries[k].begin}}
              \cup {[f EXCEPT !.entries[k].shape = <<129, 1>>, !.entries[k].dtype = "F32", !.entries[k].end = f.entries[k].begin + 2]}
              : k \in {1, 2, 3, 4}}
GgDamaged(f) ==
  {[f EXCEPT !.size = n] : n \in {0, 5, dir_end(f), f.size - 1}}
  \cup {[f EXCEPT !.magic = FALSE], [f EXCEPT !.version = 1], [f EXCEPT !.sound = FALSE], [f EXCEPT !.arch = "llama"], [f EXCEPT !.arch = Nothing]}
  \cup {[f EXCEPT !.alignment = a] : a \in {0, 3, 4, 8, 64}}
  \cup {[f EXCEPT !.numbers = n] : n \in {<<>>, [f.numbers EXCEPT !.block_count = 2], [f.numbers EXCEPT !.head_count = 0],
                                          [expert_count |-> 2, expert_used_count |-> 1, feed_forward_length |-> 7]}}
  \cup UNION {{[f EXCEPT !.tensors[k].ne = s] : s \in {<<>>, <<1, 1, 1, 1>>, <<129>>, <<129, 1>>, <<2, 129>>, <<2, 43, 2>>, <<2, 2, 43>>, <<2, 0>>, <<3, 2>>,
                                                       <<2, 1, 3>>, <<2, 2, 22>>}}
              \cup {[f EXCEPT !.tensors[k].offset = o] : o \in {0, 1, 4, f.size, 255}}
              \cup {[f EXCEPT !.tensors[k].type = t] : t \in {"F32", "I64", "BF16"}}
              \cup {[f EXCEPT !.tensors[k].name = n] : n \in {<<"output">>, <<<<0>>, "attn_q">>, <<<<0, 0>>, "attn_q">>, <<<<7>>, "ffn_down_exps">>, <<<<>>, "attn_q">>, <<"other">>}}
              : k \in {1, 3, 4, 9}}
Damaged(one, split, gguf) ==
  {[one EXCEPT !.files[Single] = f] : f \in StDamaged(one.files[Single])}
  \cup {[split EXCEPT !.files["s1"] = f] : f \in StDamaged(split.files["s1"])}
  \cup {[gguf EXCEPT !.files["w.gguf"] = f] : f \in GgDamaged(gguf.files["w.gguf"])}

\* An index that is empty, wrong, or reaches outside; files that are not there or hold the same.
Disk(one, split, gguf) ==
  {[split EXCEPT !.index = <<>>], [split EXCEPT !.files = ("s0" :> @["s0"])], [split EXCEPT !.files = @ @@ (Single :> @["s0"])],
   [split EXCEPT !.files["s0"] = one.files[Single]], [split EXCEPT !.files["s1"] = one.files[Single]],
   [gguf EXCEPT !.gguf_name = FALSE], [one EXCEPT !.weights = Single], [one EXCEPT !.files = <<>>]}
  \cup {[split EXCEPT !.index[k].file = f] : k \in {1, 4, 7}, f \in {"s0", "s1", "s2", "up/shard", ".."}}

Spoiled(one, split, gguf) == Damaged(one, split, gguf) \cup Disk(one, split, gguf) \cup BadConfigured({one, split, gguf, Bad(Shards(Dense))})

MCDirectories == Whole \cup Spoiled(Bad(One(Cfg)), Bad(Shards(Cfg)), Bad(Gguf(Cfg, 2)))
=============================================================================
