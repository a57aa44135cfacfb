---------------------------- MODULE ForwardPass ----------------------------
(***************************************************************************)
(* One engine step through the layers of a model: the engine flattens the  *)
(* batch, the model slices it per request, and every layer writes the      *)
(* keys and values of its new tokens into the pool (or advances the row    *)
(* state it keeps) and then reads back what its queries attend to.  A key  *)
(* is abstracted to where it comes from: the layer, the request and the    *)
(* position it was computed for.  What each query was given is recorded in *)
(* `seen`, so that a read of someone else's slot, of a slot nobody wrote,  *)
(* of another layer or of the wrong window shows.                          *)
(***************************************************************************)
EXTENDS Integers, FiniteSets, SequencesExt

CONSTANTS
    Archs,           \* the architectures a run may load
    PrefillBackend, DecodeBackend,   \* "torch" or "sycl"
    Uids,            \* requests, positive integers
    Rows,            \* rows of the page table, 0..max_running_req-1
    MaxSeq,          \* max_seq_len
    NumSlots,        \* slots of the KV pool
    Shared,          \* tokens every prompt begins with
    Prompts,         \* prompt lengths
    MaxTokens,       \* tokens to generate
    Budget,          \* prefill tokens of a step
    PrefixCaching,   \* enable_prefix_cache
    Capturing        \* a decode step may be captured and replayed

Window == 2          \* sliding_window of the layers that have one
Kernel == 3          \* inputs a short convolution (or an n-gram) reads
TopK == 2            \* index_topk of a sparse layer
Ratio == 2           \* index_ratio
IndexBudget == 2     \* index_budget

\* What the constants have to satisfy.
Bounds ==
    /\ Uids \subseteq Nat \ {0}
    /\ Shared <= MaxSeq
    /\ \A n \in Prompts : n > 0 /\ n + MaxTokens <= MaxSeq
    /\ {PrefillBackend, DecodeBackend} \subseteq {"torch", "sycl"}

VARIABLES
    arch,     \* the architecture served
    req,      \* uid -> what the engine knows of a live request
    fresh,    \* uids that have not arrived yet
    free,     \* _free_slots of the pool
    page_table,
    kv,       \* layer -> slot -> the key it holds
    rowState, \* layer -> row -> the last Kernel - 1 inputs
    cached,   \* slots of the prefix the cache holds
    graph,    \* the decode step that was captured
    seen      \* what the queries of the last step attended to

vars == <<arch, req, fresh, free, page_table, kv, rowState, cached, graph, seen>>

-----------------------------------------------------------------------------
(* The layers of each architecture.  `write` is the address a layer gives   *)
(* write_kv, `mask` how the keys of a query are chosen, `reads` who reads   *)
(* the pool and `reset` whether a row state is zeroed for a new sequence.   *)

GroupedQuery == [op |-> "attention", write |-> "slots", mask |-> "causal", reads |-> "backend", sinks |-> FALSE]

qwen3_attention == GroupedQuery
qwen3_moe_attention == GroupedQuery
qwen3_5_moe_attention == GroupedQuery
qwen2_moe_attention == GroupedQuery
olmoe_attention == GroupedQuery
lfm2_attention == GroupedQuery
glm4_attention == [GroupedQuery EXCEPT !.write = "positions"]
mellum_attention(sliding) == [GroupedQuery EXCEPT !.mask = IF sliding THEN "window" ELSE "causal"]
gpt_oss_attention(sliding) ==
    [GroupedQuery EXCEPT !.mask = IF sliding THEN "window" ELSE "causal", !.write = "positions", !.sinks = TRUE]
mla_attention == [GroupedQuery EXCEPT !.reads = "layer"]
deepseek_v4_attention == [mla_attention EXCEPT !.mask = "topk"]
glm_moe_dsa_attention(skip_topk) ==
    [mla_attention EXCEPT !.mask = IF skip_topk THEN "reuse" ELSE "topk", !.write = "positions"]
qwen4_exp_attention == [mla_attention EXCEPT !.mask = "blocks", !.write = "positions"]
gated_delta_net == [op |-> "linear"]     \* its state is LinearState's
short_conv == [op |-> "state", reset |-> TRUE]
ple_ngram == [op |-> "state", reset |-> FALSE]

qwen3_layers == <<qwen3_attention, qwen3_attention>>
qwen3_moe_layers == <<qwen3_moe_attention, qwen3_moe_attention>>
qwen3_5_moe_layers == <<gated_delta_net, qwen3_5_moe_attention>>
qwen2_moe_layers == <<qwen2_moe_attention, qwen2_moe_attention>>
olmoe_layers == <<olmoe_attention, olmoe_attention>>
lfm2_layers == <<short_conv, lfm2_attention>>
glm4_layers == <<glm4_attention, glm4_attention>>
mellum_layers == <<mellum_attention(TRUE), mellum_attention(FALSE)>>
gpt_oss_layers == <<gpt_oss_attention(TRUE), gpt_oss_attention(FALSE)>>
deepseek_v2_lite_layers == <<mla_attention, mla_attention>>
deepseek_v4_layers == <<deepseek_v4_attention, deepseek_v4_attention>>
glm_moe_dsa_layers == <<glm_moe_dsa_attention(FALSE), glm_moe_dsa_attention(TRUE)>>
qwen4_exp_layers == <<ple_ngram, qwen4_exp_attention>>

Layers ==
    [qwen3 |-> qwen3_layers, qwen3_moe |-> qwen3_moe_layers, qwen3_5_moe |-> qwen3_5_moe_layers,
     qwen2_moe |-> qwen2_moe_layers, olmoe |-> olmoe_layers, lfm2_moe |-> lfm2_layers,
     glm4_moe |-> glm4_layers, mellum |-> mellum_layers, gpt_oss |-> gpt_oss_layers,
     deepseek_v2_lite |-> deepseek_v2_lite_layers, deepseek_v4 |-> deepseek_v4_layers,
     glm_moe_dsa |-> glm_moe_dsa_layers, qwen4_exp |-> qwen4_exp_layers]

KnownArchs == Archs \subseteq DOMAIN Layers

LayerIds == 1 .. 2
Positions == 0 .. MaxSeq - 1
PoolSlots == 0 .. NumSlots - 1

-----------------------------------------------------------------------------
(* Keys and the requests they belong to.                                    *)

Nothing == [layer |-> 0, from |-> 0, at |-> -1]   \* zeros

\* The token of u at position p as layer l sees it: prompts share a prefix.
Key(l, u, p) ==
    IF p < 0 THEN Nothing ELSE [layer |-> l, from |-> IF p < Shared THEN 0 ELSE u, at |-> p]

Live == DOMAIN req
Waiting == {u \in Live : req[u].phase = "prefill"}
Running == {u \in Live : req[u].phase = "decode"}
FreeRows == Rows \ {req[u].table_idx : u \in Live}
Without(f, u) == [v \in DOMAIN f \ {u} |-> f[v]]

Lowest(S, n) == [i \in 1 .. n |-> CHOOSE s \in S : Cardinality({t \in S : t < s}) = i - 1]

\* MHAKVCache hands out slots 1..NumSlots-1; slot 0 is the padding slot.
AllocatableSlots == PoolSlots \ {0}

-----------------------------------------------------------------------------
(* A batch: the requests in order with the positions of their new tokens.   *)

Member(u, ext, start, written) == [uid |-> u, row |-> req[u].table_idx, ext |-> ext, start |-> start, written |-> written]

\* A bug: the keys of this chunk are not counted as written.
PrefillMemberSlip(u, ext) == Member(u, ext, req[u].cached_len, req[u].cached_len + 1)

PrefillMember(u, ext) == Member(u, ext, req[u].cached_len, req[u].cached_len + ext)
DecodeMember(u) == Member(u, 1, req[u].device_len - 1, req[u].device_len)

flatten(batch) == FoldLeft(LAMBDA flat, m : flat \o [i \in 1 .. m.ext |-> m.start + i - 1], <<>>, batch)

Offset(batch, i) == FoldLeft(LAMBDA n, m : n + m.ext, 0, SubSeq(batch, 1, i - 1))

\* The rows of the flattened tensors that belong to the i-th request.
token_slice(batch, i) == SubSeq(flatten(batch), Offset(batch, i) + 1, Offset(batch, i) + batch[i].ext)

\* The positions the backend compares keys with.
request_positions(batch, row) ==
    LET i == CHOOSE j \in DOMAIN batch : batch[j].row = row
    IN  SubSeq(flatten(batch), Offset(batch, i) + 1, Offset(batch, i) + batch[i].ext)

-----------------------------------------------------------------------------
(* The pool.                                                                *)

\* A bug: positions are taken for slots.
out_locSlip(layer, row, p) == p

out_loc(layer, row, p) == IF layer.write = "slots" THEN page_table[row][p] ELSE p

write_kv(kvs, l, layer, m, pos) ==
    LET at == [i \in DOMAIN pos |-> out_loc(layer, m.row, pos[i])]
    IN  [kvs EXCEPT ![l] = [s \in PoolSlots |->
            IF \E i \in DOMAIN pos : at[i] = s
            THEN Key(l, m.uid, pos[CHOOSE i \in DOMAIN pos : at[i] = s]) ELSE kvs[l][s]]]

read_kv(kvs, l, row, p) == kvs[l][page_table[row][p]]

\* The SYCL kernel is handed the buffer of the whole pool and no layer.
sycl_read(kvs, l, row, p) == kvs[1][page_table[row][p]]

-----------------------------------------------------------------------------
(* Masks: the positions a query at q reads of [0, written).                 *)

causal(q, written) == {p \in 0 .. written - 1 : p <= q}

in_window(q, written) == {p \in causal(q, written) : q - p < Window}

\* The k best of a set, under one of two opposite rankings of what is old.
Best(S, k, newest) ==
    {p \in S : Cardinality({o \in S : IF newest THEN o > p ELSE o < p}) < k}

topk_indices(q, written, newest) ==
    LET allowed == Best(causal(q, written), TopK, newest)
        padding == Best((0 .. written - 1) \ causal(q, written), TopK - Cardinality(allowed), TRUE)
    IN  allowed \cup padding

qsa_compress_keys(written) == 0 .. (written \div Ratio) - 1

block_last(b) == (b + 1) * Ratio - 1

qsa_topk_blocks(q, written, newest) ==
    Best({b \in qsa_compress_keys(written) : block_last(b) <= q}, IndexBudget \div Ratio, newest)

qsa_expand_block_mask(blocks) == UNION {b * Ratio .. block_last(b) : b \in blocks}

qsa_attend_mask(q, written, newest) ==
    LET open_group == (q \div Ratio) * Ratio .. q
    IN  {p \in 0 .. written - 1 : p <= q} \cap (qsa_expand_block_mask(qsa_topk_blocks(q, written, newest)) \cup open_group)

-----------------------------------------------------------------------------
(* One layer over the new tokens of one request.  `pass` carries the pool,   *)
(* the row states, the selection of the last full indexer and what was seen. *)

TorchBackend(layer, q, written) == IF layer.mask = "window" THEN in_window(q, written) ELSE causal(q, written)

SyclBackend(layer, q, written) ==
    {p \in 0 .. written - 1 : p <= q /\ (layer.mask = "window" => q - p < Window)}

Note(m, l, q, keys, sinks) == [uid |-> m.uid, layer |-> l, q |-> q, keys |-> keys, sinks |-> sinks]

BackendAttends(backend, pass, l, layer, batch, m) ==
    {LET q == request_positions(batch, m.row)[i]
     IN  IF backend = "sycl"
         THEN Note(m, l, q, {[at |-> p, got |-> sycl_read(pass.kv, l, m.row, p)] : p \in SyclBackend(layer, q, m.written)}, FALSE)
         ELSE Note(m, l, q, {[at |-> p, got |-> read_kv(pass.kv, l, m.row, p)] : p \in TorchBackend(layer, q, m.written)}, layer.sinks)
     : i \in 1 .. m.ext}

\* The positions a layer that reads the pool itself keeps for a query.
Selected(layer, q, m, newest, previous) ==
    CASE layer.mask = "causal" -> causal(q, m.written)
      [] layer.mask = "topk"   -> causal(q, m.written) \cap topk_indices(q, m.written, newest)
      [] layer.mask = "reuse"  -> causal(q, m.written) \cap previous[q]
      [] layer.mask = "blocks" -> qsa_attend_mask(q, m.written, newest)

LayerAttends(pass, l, layer, m, pos, newest) ==
    {Note(m, l, pos[i], {[at |-> p, got |-> read_kv(pass.kv, l, m.row, p)]
                          : p \in Selected(layer, pos[i], m, newest, pass.indices)}, FALSE) : i \in DOMAIN pos}

run_attention(pass, l, layer, batch, m, pos, backend, newest) ==
    LET wrote == [pass EXCEPT !.kv = write_kv(pass.kv, l, layer, m, pos)]
        indices == IF layer.mask = "topk"
                   THEN [q \in {pos[i] : i \in DOMAIN pos} |-> topk_indices(q, m.written, newest)]
                   ELSE pass.indices
    IN  [wrote EXCEPT !.indices = indices,
                      !.seen = @ \cup IF layer.reads = "backend"
                                      THEN BackendAttends(backend, wrote, l, layer, batch, m)
                                      ELSE LayerAttends(wrote, l, layer, m, pos, newest)]

Zeros == [i \in 1 .. Kernel - 1 |-> Nothing]

\* A bug: the ring of a recycled row is not zeroed.
run_stateSlip(pass, l, layer, m, pos) ==
    LET full == pass.rows[l][m.row] \o [i \in 1 .. m.ext |-> Key(l, m.uid, pos[i])]
        window(i) == {[at |-> pos[i] - Kernel + k, got |-> full[i + k - 1]] : k \in 1 .. Kernel}
    IN  [pass EXCEPT !.rows[l][m.row] = SubSeq(full, Len(full) - Kernel + 2, Len(full)),
                     !.seen = @ \cup {Note(m, l, pos[i], window(i), FALSE) : i \in DOMAIN pos}]

\* forward_stateful of the short convolution, _ple_precompute of the n-grams.
run_state(pass, l, layer, m, pos) ==
    LET ring == IF layer.reset /\ pos[1] = 0 THEN Zeros ELSE pass.rows[l][m.row]
        full == ring \o [i \in 1 .. m.ext |-> Key(l, m.uid, pos[i])]
        window(i) == {[at |-> pos[i] - Kernel + k, got |-> full[i + k - 1]] : k \in 1 .. Kernel}
    IN  [pass EXCEPT !.rows[l][m.row] = SubSeq(full, Len(full) - Kernel + 2, Len(full)),
                     !.seen = @ \cup {Note(m, l, pos[i], window(i), FALSE) : i \in DOMAIN pos}]

run_layer(pass, l, layer, batch, m, pos, backend, newest) ==
    CASE layer.op = "state" -> run_state(pass, l, layer, m, pos)
      [] layer.op = "linear" -> pass
      [] layer.op = "attention" -> run_attention(pass, l, layer, batch, m, pos, backend, newest)

\* Every request runs through all layers before the next one does.
model_forward(batch, backend, newest) ==
    LET layers == Layers[arch]
        request(pass, i) ==
            FoldLeft(LAMBDA p, l : run_layer(p, l, layers[l], batch, batch[i], token_slice(batch, i), backend, newest),
                     [pass EXCEPT !.indices = <<>>], [l \in DOMAIN layers |-> l])
    IN  FoldLeft(request, [kv |-> kv, rows |-> rowState, indices |-> <<>>, seen |-> {}], [i \in DOMAIN batch |-> i])

Forward(batch, backend) ==
    \E newest \in BOOLEAN :
        LET pass == model_forward(batch, backend, newest)
        IN  kv' = pass.kv /\ rowState' = pass.rows /\ seen' = pass.seen

-----------------------------------------------------------------------------
(* The engine.                                                              *)

Init ==
    /\ arch \in Archs
    /\ req = <<>> /\ fresh = Uids
    /\ free = AllocatableSlots
    /\ page_table = [r \in Rows |-> [p \in Positions |-> 0]]
    /\ kv = [l \in LayerIds |-> [s \in PoolSlots |-> Nothing]]
    /\ rowState = [l \in LayerIds |-> [r \in Rows |-> Zeros]]
    /\ cached = <<>> /\ graph = <<>> /\ seen = {}

\* add_request: the matched prefix is aliased, the rest of the row allocated.
add_request(u, prompt, row) ==
    LET hit == IF PrefixCaching /\ prompt - 1 < Len(cached) THEN prompt - 1
               ELSE IF PrefixCaching THEN Len(cached) ELSE 0
        slots == Lowest(free, MaxSeq - hit)
    IN  /\ u \in fresh /\ row \in FreeRows
        /\ Cardinality(free) >= MaxSeq - hit
        /\ fresh' = fresh \ {u}
        /\ free' = free \ ToSet(slots)
        /\ page_table' = [page_table EXCEPT ![row] =
                             [p \in Positions |-> IF p < hit THEN cached[p + 1] ELSE slots[p - hit + 1]]]
        /\ req' = [v \in Live \cup {u} |->
                      IF v = u THEN [table_idx |-> row, prompt |-> prompt, cached_len |-> hit, device_len |-> prompt,
                                     own |-> ToSet(slots), phase |-> "prefill"]
                               ELSE req[v]]
        /\ seen' = {}
        /\ UNCHANGED <<arch, kv, rowState, cached, graph>>

\* What step() does with a request whose tokens were extended.
Extended(u, ext) ==
    LET r == req[u]
    IN  IF r.cached_len + ext < r.prompt
        THEN [r EXCEPT !.cached_len = @ + ext]
        ELSE [r EXCEPT !.phase = "decode", !.device_len = r.prompt + 1,
                       !.cached_len = IF r.cached_len > 0 THEN r.prompt ELSE 0]

prefill_step(order, ext) ==
    /\ ToSet(order) \subseteq Waiting /\ order # <<>>
    /\ \A u \in ToSet(order) : ext[u] <= req[u].prompt - req[u].cached_len
    /\ FoldLeft(LAMBDA n, u : n + ext[u], 0, order) <= Budget
    /\ Forward([i \in DOMAIN order |-> PrefillMember(order[i], ext[order[i]])], PrefillBackend)
    /\ req' = [u \in Live |-> IF u \in ToSet(order) THEN Extended(u, ext[u]) ELSE req[u]]
    /\ UNCHANGED <<arch, fresh, free, page_table, cached, graph>>

Done(u) == req[u].device_len >= req[u].prompt + MaxTokens

decode_batch == LET order == SetToSortSeq({u \in Running : ~Done(u)}, <)
                IN  [i \in DOMAIN order |-> DecodeMember(order[i])]

Decoded == [u \in Live |-> IF u \in Running /\ ~Done(u) THEN [req[u] EXCEPT !.device_len = @ + 1] ELSE req[u]]

decode_step ==
    /\ decode_batch # <<>> /\ Waiting = {}
    /\ Forward(decode_batch, DecodeBackend)
    /\ req' = Decoded
    /\ UNCHANGED <<arch, fresh, free, page_table, cached, graph>>

\* A finished request gives its prefix to the cache, its other slots to the
\* pool.  What it generated stays in the real tree; no later prompt repeats it.
finish(u) ==
    /\ u \in Running /\ Done(u)
    /\ LET keep == IF PrefixCaching /\ cached = <<>>
                   THEN [p \in 1 .. Shared |-> page_table[req[u].table_idx][p - 1]]
                   ELSE cached
       IN  cached' = keep /\ free' = free \cup (req[u].own \ ToSet(keep))
    /\ req' = Without(req, u)
    /\ seen' = {}
    /\ UNCHANGED <<arch, fresh, page_table, kv, rowState, graph>>

abort_request(u) ==
    /\ u \in Live
    /\ free' = free \cup req[u].own
    /\ req' = Without(req, u)
    /\ seen' = {}
    /\ UNCHANGED <<arch, fresh, page_table, kv, rowState, cached, graph>>

\* A decode step that is recorded.  The number of keys to read is a Python
\* number: the recorded launches keep the one of this step, while positions
\* and tokens are tensors that a replay sees anew.
capture ==
    /\ Capturing /\ graph = <<>>
    /\ decode_batch # <<>> /\ Waiting = {}
    /\ Forward(decode_batch, DecodeBackend)
    /\ graph' = decode_batch
    /\ req' = Decoded
    /\ UNCHANGED <<arch, fresh, free, page_table, cached>>

replay ==
    /\ graph # <<>> /\ Waiting = {}
    /\ [i \in DOMAIN graph |-> graph[i].row] = [i \in DOMAIN decode_batch |-> decode_batch[i].row]
    /\ Forward([i \in DOMAIN graph |-> [decode_batch[i] EXCEPT !.written = graph[i].written]], DecodeBackend)
    /\ req' = Decoded
    /\ UNCHANGED <<arch, fresh, free, page_table, cached, graph>>

Prefilling == \E S \in SUBSET Waiting \ {{}} : \E order \in SetToSeqs(S), ext \in [S -> 1 .. Budget] : prefill_step(order, ext)

Next ==
    \/ \E u \in Uids, n \in Prompts, row \in Rows : add_request(u, n, row)
    \/ Prefilling
    \/ decode_step
    \/ \E u \in Uids : finish(u) \/ abort_request(u)
    \/ capture
    \/ replay

Spec == Init /\ [][Next]_vars

-----------------------------------------------------------------------------
(* Properties.                                                              *)

Keys == [layer : 0 .. 2, from : {0} \cup Uids, at : -1 .. MaxSeq - 1]

TypeOK ==
    /\ arch \in Archs /\ fresh \subseteq Uids /\ Live \subseteq Uids \ fresh
    /\ free \subseteq AllocatableSlots
    /\ page_table \in [Rows -> [Positions -> PoolSlots]]
    /\ kv \in [LayerIds -> [PoolSlots -> Keys]]
    /\ rowState \in [LayerIds -> [Rows -> [1 .. Kernel - 1 -> Keys]]]
    /\ \A u \in Live : req[u].cached_len <= req[u].device_len /\ req[u].device_len <= MaxSeq

LayerOf(s) == Layers[arch][s.layer]

(* Every key a query of an attention layer reads is the key of its own      *)
(* request and position and of its own layer: rows and slots are reused,    *)
(* prefixes aliased, prompts chunked and batches flattened on the way.      *)
ReadsOwnHistory ==
    \A s \in seen : LayerOf(s).op = "attention" => \A k \in s.keys : k.got = Key(s.layer, s.uid, k.at)

(* The inputs a convolution (or an n-gram) layer reads are the last ones of *)
(* its own sequence, with zeros before the first token: a row that is       *)
(* recycled gives nothing of its last request away.                         *)
RowStateIsOwn ==
    \A s \in seen : LayerOf(s).op = "state" => \A k \in s.keys : k.got = Key(s.layer, s.uid, k.at)

At(s) == {k.at : k \in s.keys}

(* Every query attends to all it should: its whole history, the whole of    *)
(* its window, as many keys as the indexer may select and never none, or    *)
(* its open group and a full budget of blocks (the whole history while that *)
(* fits).                                                                   *)
AttendsItsWindow ==
    \A s \in seen :
        LET history == 0 .. s.q
            mask == LayerOf(s).mask
        IN  LayerOf(s).op = "attention" =>
            /\ At(s) \subseteq history
            /\ mask = "causal" => At(s) = history
            /\ mask = "window" => At(s) = {p \in history : p > s.q - Window}
            /\ mask \in {"topk", "reuse"} => Cardinality(At(s)) = (IF s.q + 1 < TopK THEN s.q + 1 ELSE TopK)
            /\ mask = "blocks" => /\ (s.q \div Ratio) * Ratio .. s.q \subseteq At(s)
                                  /\ s.q + 1 <= IndexBudget + Ratio - 1 => At(s) = history

(* A layer with attention sinks has them in every softmax.                  *)
SinksApplied == \A s \in seen : LayerOf(s).op = "attention" => s.sinks = LayerOf(s).sinks

Resident(u) == IF req[u].phase = "prefill" THEN req[u].cached_len ELSE req[u].device_len - 1

(* Between steps the pool holds the keys of everything a live request has   *)
(* computed or matched, whatever other requests wrote, ended or started.    *)
HistoryResident ==
    \A u \in Live, l \in DOMAIN Layers[arch] :
        Layers[arch][l].op = "attention" =>
            \A p \in 0 .. Resident(u) - 1 : kv[l][page_table[req[u].table_idx][p]] = Key(l, u, p)

(* The slots of the cached prefix hold that prefix until it is used.        *)
CachedPrefixIntact ==
    \A i \in DOMAIN cached, l \in DOMAIN Layers[arch] :
        Layers[arch][l].op = "attention" => kv[l][cached[i]] = Key(l, 0, i - 1)
=============================================================================
