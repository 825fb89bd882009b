---------------------------- MODULE MCEncoderFiles ----------------------------
EXTENDS EncoderFiles

Config == [model_type |-> "bert", act |-> "gelu", position |-> Nothing, n_layers |-> 1, hidden |-> 2, n_heads |-> 2, intermediate |-> 3,
           vocab |-> 5, max_positions |-> 4, type_vocab |-> LeftOut]
Read(c) == [s \in Sizes |-> c[s]] @@ ("type_vocab" :> 2)
File(c, pre) == [full \in {<<pre, Weights(Read(c))[k].name>> : k \in DOMAIN Weights(Read(c))} |->
                  [shape |-> (CHOOSE w \in Range(Weights(Read(c))) : w.name = full[2]).shape, dtype |-> "F32", aligned |-> TRUE]]
Module(type, p) == [type |-> type, path |-> p]
Mods == {Module("Transformer", ""), Module("Pooling", "1"), Module("Pooling", Nothing), Module("Normalize", "2"), Module("Dense", "2"), Module(Nothing, "3")}
Pool(cls, mean) == [cls |-> cls, mean |-> mean, others |-> {}, dim |-> 2]
Base == [config |-> Config, modules |-> <<Module("Transformer", ""), Module("Pooling", "1"), Module("Normalize", "2")>>,
         poolings |-> ("1" :> Pool(TRUE, FALSE)), limit |-> 3, tensors |-> File(Config, "")]

Configs == {[Config EXCEPT ![f] = v] : f \in Sizes \cup {"type_vocab"}, v \in {LeftOut, 0, 1, 3}}
           \cup {[Config EXCEPT !.model_type = "llama"], [Config EXCEPT !.model_type = Nothing], [Config EXCEPT !.act = "relu"], [Config EXCEPT !.position = "relative"]}
Damaged(t) == {[t EXCEPT !.dtype = d] : d \in {"F16", "BF16", "I64"}} \cup {[t EXCEPT !.aligned = FALSE], [t EXCEPT !.shape = <<1>> \o @], [t EXCEPT !.shape = <<9>>]}
MCCheckpoints ==
  {[Base EXCEPT !.config = c] : c \in Configs}
  \cup {[Base EXCEPT !.modules = m] : m \in UNION {[1 .. n -> Mods] : n \in 0 .. 3}}
  \cup {[Base EXCEPT !.modules = <<Module("Transformer", ""), Module("Pooling", "1"), m, n>>] : m, n \in Mods}
  \cup {[Base EXCEPT !.poolings = ("1" :> [cls |-> c, mean |-> m, others |-> o, dim |-> d])] :
          c, m \in BOOLEAN, o \in {{}, {"max"}}, d \in {LeftOut, 2, 3}}
  \cup {[Base EXCEPT !.poolings = <<>>], [Base EXCEPT !.tensors = <<>>], [Base EXCEPT !.tensors = File(Config, "bert.")]}
  \cup {[Base EXCEPT !.limit = n] : n \in {LeftOut, 1, 2, 4, 5}}
  \cup {[Base EXCEPT !.tensors[full] = t] : full \in DOMAIN Base.tensors, t \in UNION {Damaged(Base.tensors[f]) : f \in {<<"", <<1, "q", "bias">>>>, <<"", <<1, "up", "weight">>>>}}}
  \cup {[Base EXCEPT !.tensors = [f \in DOMAIN @ \ {full} |-> @[f]]] : full \in DOMAIN Base.tensors}
  \cup {[Base EXCEPT !.tensors = [f \in DOMAIN @ \ {full} |-> @[f]] @@ (<<"bert.", full[2]>> :> @[full])] : full \in DOMAIN Base.tensors}
=============================================================================
