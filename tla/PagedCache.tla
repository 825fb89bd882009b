----------------------------- MODULE PagedCache ------------------------------
(***************************************************************************)
(* The paged cache of keys and values (engine/src/kv_cache.c): blocks of   *)
(* tokens from one pool, a table per layer of the block each stretch of    *)
(* the sequence is in, prefixes that are pinned and matched again, and     *)
(* prompts taken in chunks.  A block is free when it has no tokens; when   *)
(* none is, an unpinned one is taken from wherever it is.                  *)
(*                                                                         *)
(* The caller gives positions an eviction looks through: those of the even *)
(* share of a layer, and SPARE blocks more.                                *)
(***************************************************************************)
EXTENDS Integers, FiniteSetsExt, SequencesExt

CONSTANTS
  BLOCK, SPARE, CHUNK,  \* VITNA_KV_BLOCK_SIZE, the 4 blocks more, VITNA_PREFILL_CHUNK_SIZE
  MAX_PINNED,           \* VITNA_MAX_PINNED_PREFIXES
  Geometries,           \* layers and max_total_tokens
  Hashes,
  MaxPrompt, MaxChunks  \* bounds of the model: tokens of a prompt, chunks in all

PagedAssumption ==
  /\ BLOCK \in Nat \ {0} /\ SPARE \in Nat \ {0} /\ CHUNK \in Nat \ {0}
  /\ \A g \in Geometries : g.layers \in Nat \ {0} /\ g.tokens \in Nat /\ g.tokens % BLOCK = 0

VARIABLES
  geometry,
  num_tokens, free_blocks,  \* of the pool
  tables,                   \* per layer; its layer_seq_lens nobody reads
  pins,                     \* hash, num_tokens, tables: the pinned prefixes
  prefill                   \* total, processed, chunk; and how often a chunk was taken

pool == <<num_tokens, free_blocks, tables>>
vars == <<geometry, pool, pins, prefill>>

Unbound == -1

BlocksFor(n) == (n + BLOCK - 1) \div BLOCK
Total(g) == BlocksFor(g.tokens)
Ids == DOMAIN num_tokens
Layers == 0 .. geometry.layers - 1

\* Entries of a layer's table, and how many of them an eviction looks at.
Entries(g) == 0 .. g.tokens \div BLOCK + SPARE - 1
LookedAt(g) == 0 .. Total(g) \div g.layers + SPARE - 1

Init ==
  /\ geometry \in Geometries
  /\ num_tokens = [i \in 0 .. Total(geometry) - 1 |-> 0]
  /\ free_blocks = Total(geometry)
  /\ tables = [l \in Layers |-> [b \in Entries(geometry) |-> Unbound]]
  /\ pins = <<>>
  /\ prefill = [total |-> 0, processed |-> 0, chunk |-> CHUNK, taken |-> 0]

-----------------------------------------------------------------------------
(* The pool as one value: num_tokens, free, tables.                         *)

Pool == [num_tokens |-> num_tokens, free |-> free_blocks, tables |-> tables]

Becomes(p) == num_tokens' = p.num_tokens /\ free_blocks' = p.free /\ tables' = p.tables

\* Mutant: of a pinned prefix, only the whole blocks are kept.
PinnedWhole == UNION {{pins[k].tables[l][b] : l \in Layers, b \in 0 .. (pins[k].num_tokens \div BLOCK) - 1} : k \in DOMAIN pins}

Pinned == UNION {{pins[k].tables[l][b] : l \in Layers, b \in 0 .. BlocksFor(pins[k].num_tokens) - 1} : k \in DOMAIN pins}

Unbind(t, i) == [l \in Layers |-> [b \in DOMAIN t[l] |-> IF b \in LookedAt(geometry) /\ t[l][b] = i THEN Unbound ELSE t[l][b]]]

\* evict_lru for one block: the first that is neither free nor pinned.
EvictOne(p) ==
  LET can == {i \in Ids : p.num_tokens[i] > 0} \ Pinned
      i == Min(can)
  IN  IF can = {} THEN p
      ELSE [num_tokens |-> [p.num_tokens EXCEPT ![i] = 0], free |-> p.free + 1, tables |-> Unbind(p.tables, i)]

vitna_kv_cache_evict_lru(p, needed) ==
  LET after[n \in 0 .. needed] == IF n = 0 THEN p ELSE EvictOne(after[n - 1]) IN after[needed]

Free(p) == {i \in Ids : p.num_tokens[i] = 0}

Bind(p, l, b) ==
  IF Free(p) = {} THEN p
  ELSE [num_tokens |-> p.num_tokens, free |-> p.free - 1, tables |-> [p.tables EXCEPT ![l][b] = Min(Free(p))]]

\* The block is there, or found free, or free once another is evicted, or none is.
Bound(p, l, b) ==
  IF p.tables[l][b] # Unbound THEN p
  ELSE IF Free(p) # {} THEN Bind(p, l, b) ELSE Bind(EvictOne(p), l, b)

Filled(p, i, n) == IF i = Unbound THEN p ELSE [p EXCEPT !.num_tokens[i] = IF @ > n THEN @ ELSE n]

GetOrAlloc(p, l, b, n) == Filled(p, p.tables[l][b], n)

vitna_kv_cache_get_or_alloc(p, l, pos) == GetOrAlloc(Bound(p, l, pos \div BLOCK), l, pos \div BLOCK, (pos % BLOCK) + 1)

-----------------------------------------------------------------------------
Positions == 0 .. Cardinality(LookedAt(geometry)) * BLOCK - 1

Append1(l, pos) ==
  /\ Becomes(vitna_kv_cache_get_or_alloc(Pool, l, pos))
  /\ UNCHANGED <<geometry, pins, prefill>>

Evict(needed) ==
  /\ Becomes(vitna_kv_cache_evict_lru(Pool, needed))
  /\ UNCHANGED <<geometry, pins, prefill>>

\* If memory runs out the prefix is not counted, and nothing is pinned.
vitna_kv_cache_pin_prefix(hash, n) ==
  /\ n > 0 /\ Len(pins) < MAX_PINNED
  /\ pins' = Append(pins, [hash |-> hash, num_tokens |-> n, tables |-> [l \in Layers |-> [b \in 0 .. BlocksFor(n) - 1 |-> tables[l][b]]]])
  /\ UNCHANGED <<geometry, pool, prefill>>

vitna_kv_cache_match_prefix(hash) ==
  LET at == SelectInSeq(pins, LAMBDA p : p.hash = hash)
      pin == pins[at]
  IN  /\ at # 0
      /\ tables' = [l \in Layers |-> [b \in DOMAIN tables[l] |-> IF b \in DOMAIN pin.tables[l] THEN pin.tables[l][b] ELSE tables[l][b]]]
      /\ UNCHANGED <<geometry, num_tokens, free_blocks, pins, prefill>>

vitna_chunked_prefill_init(n, chunk) ==
  /\ prefill' = [prefill EXCEPT !.total = n, !.processed = 0, !.chunk = IF chunk > 0 THEN chunk ELSE CHUNK]
  /\ prefill.processed = prefill.total
  /\ UNCHANGED <<geometry, pool, pins>>

\* Layer by layer, each token's block; that none is to be had goes unnoticed.
Prefilled(p, first, slice) ==
  LET after[k \in 0 .. geometry.layers * slice] ==
        IF k = 0 THEN p
        ELSE vitna_kv_cache_get_or_alloc(after[k - 1], (k - 1) \div slice, first + ((k - 1) % slice))
  IN  after[geometry.layers * slice]

vitna_chunked_prefill_step ==
  LET slice == Min({prefill.total - prefill.processed, prefill.chunk})
  IN  /\ prefill.processed < prefill.total /\ prefill.taken < MaxChunks
      /\ Becomes(Prefilled(Pool, prefill.processed, slice))
      /\ prefill' = [prefill EXCEPT !.processed = @ + slice, !.taken = @ + 1]
      /\ UNCHANGED <<geometry, pins>>

Next ==
  \/ \E l \in Layers, pos \in Positions : Append1(l, pos)
  \/ \E n \in 1 .. 2 : Evict(n)
  \/ \E h \in Hashes, n \in Positions \cap 1 .. MaxPrompt : vitna_kv_cache_pin_prefix(h, n)
  \/ \E h \in Hashes : vitna_kv_cache_match_prefix(h)
  \/ \E n \in Positions \cap 1 .. MaxPrompt, chunk \in 0 .. BLOCK + 1 : vitna_chunked_prefill_init(n, chunk)
  \/ vitna_chunked_prefill_step

Spec == Init /\ [][Next]_vars

-----------------------------------------------------------------------------
(* Properties *)

\* No two stretches of tokens share a block, of one layer or two, though
\* prefixes come and go and blocks are taken away; the free blocks are counted
\* right; and what is pinned is not free to be given to another (kv_cache.c:213-260).
Stretches == Layers \X Entries(geometry)

BlocksAreOwn ==
  /\ \A s, t \in Stretches : tables[s[1]][s[2]] = tables[t[1]][t[2]] => s = t \/ tables[s[1]][s[2]] = Unbound
  /\ free_blocks = Cardinality(Free(Pool))
  /\ \A i \in Pinned \cap Ids : num_tokens[i] > 0
=============================================================================
