------------------------------ MODULE MoeDispatch ------------------------------
(***************************************************************************)
(* Which way a MoE layer's routed experts are computed, and what they add  *)
(* up to (parse_moe_cpu_layers of moe/__init__.py, the backend flags of    *)
(* load_model, the forwards of the MoE blocks of qwen3_moe and             *)
(* qwen3_5_moe, moe/cpu_executor.py and moe_forward_core_fast of           *)
(* cpu_moe.cpp).                                                           *)
(*                                                                         *)
(* A row of the output is a floating-point sum, whose value depends on the *)
(* order it is added up in.  It is kept as a sequence of groups: the terms *)
(* of a group are summed first, the groups are then added one by one.  A   *)
(* term is an expert with the weight it was given.  Which slot an expert   *)
(* is read from is OffloadCache's; the threads are CpuMoeWorker's.         *)
(***************************************************************************)
EXTENDS Integers, Sequences, FiniteSets, FiniteSetsExt, SequencesExt

CONSTANTS
  Configs,       \* the serving configurations
  NumLayers,     \* num_moe_layers
  NumExperts,    \* num_experts
  TopK,          \* num_experts_per_tok
  NumTokens,     \* rows of one forward
  Hardware       \* std::thread::hardware_concurrency()

\* What the constants have to satisfy.
MoeDispatchAssumption ==
  /\ {NumLayers, NumExperts, TopK, NumTokens, Hardware} \subseteq Nat \ {0}
  /\ TopK <= NumExperts

VARIABLES
  config,     \* the configuration this server was started with
  pc,         \* "idle", "routed", "done" or "raised"
  call,       \* the layer, the phase, the routing, is a graph being captured
  cpuHalf,    \* cpu_experts of the hybrid split
  fetched,    \* experts handed to the slot cache
  sums        \* the rows of the output

vars == <<config, pc, call, cpuHalf, fetched, sums>>

Layers == 0..(NumLayers - 1)
Experts == 0..(NumExperts - 1)
Tokens == 1..NumTokens

NoCall == [layer |-> 0, prefill |-> FALSE, capturing |-> FALSE,
           routed |-> [t \in Tokens |-> {}]]

Init ==
  /\ config \in Configs
  /\ pc = "idle"
  /\ call = NoCall
  /\ cpuHalf = {}
  /\ fetched = {}
  /\ sums = [t \in Tokens |-> <<>>]

--------------------------------------------------------------------------------
\* parse_moe_cpu_layers.  A spec is unset, "auto", a whole number, a fraction
\* (in percent) or a list of ids; All stands for None, "all MoE layers".
All == [none |-> TRUE, layers |-> {}]
Listed(layers) == [none |-> FALSE, layers |-> layers]

First(n) == IF n >= NumLayers THEN All ELSE Listed(0..(n - 1))

CeilPercent(percent, n) == (percent * n + 99) \div 100

moe_cpu_moe_layers ==
  LET kind == config.spec[1]
      value == config.spec[2] IN
  CASE kind = "unset" -> Listed({})
    [] kind = "auto" -> Listed(Layers)
    [] kind = "count" -> IF value = 1 THEN All ELSE First(value)
    [] kind = "percent" -> First(CeilPercent(value, NumLayers))
    [] kind = "ids" -> Listed(value)

\* load_model: only some architectures build MoE blocks without experts; the
\* others keep them in VRAM whatever the backend is.
CpuMoeCapable == config.arch \in {"qwen3_moe", "qwen3_5_moe"}
use_offload == CpuMoeCapable /\ config.backend \in {"offload", "cpu", "hybrid"}
use_hybrid == CpuMoeCapable /\ config.backend = "hybrid"

\* _is_cpu_layer of the two blocks.  qwen3_moe asks first whether the block is
\* hybrid; under hybrid, qwen3_5_moe reads None as "no layer".
is_cpu_layer(layer) ==
  LET cpu_layers == moe_cpu_moe_layers IN
  /\ CpuMoeCapable
  /\ \/ config.backend = "cpu" /\ (cpu_layers.none \/ layer \in cpu_layers.layers)
     \/ /\ config.backend = "hybrid" /\ config.arch = "qwen3_5_moe"
        /\ ~cpu_layers.none /\ layer \in cpu_layers.layers

path(layer) ==
  IF is_cpu_layer(layer) THEN "cpu"
  ELSE IF use_hybrid THEN "hybrid"
  ELSE IF use_offload THEN "offload" ELSE "inram"

--------------------------------------------------------------------------------
\* Terms and sums.
Ascending(S) == SetToSortSeq(S, <)
Terms(S, weight) == [i \in 1..Cardinality(S) |-> [expert |-> Ascending(S)[i], weight |-> weight]]
OneByOne(terms) == [i \in 1..Len(terms) |-> <<terms[i]>>]

Routed == UNION {call.routed[t] : t \in Tokens}

\* The in-VRAM reference: for each expert ascending, for each top-k column.
forward_inram ==
  /\ pc = "routed" /\ path(call.layer) = "inram"
  /\ ~call.capturing
  /\ sums' = [t \in Tokens |-> OneByOne(Terms(call.routed[t], "router"))]
  /\ pc' = "done"
  /\ UNCHANGED <<config, call, cpuHalf, fetched>>

\* While a graph is captured every expert runs on every row: an expert that a
\* row was not routed to is added with weight zero.
capture_inram ==
  /\ pc = "routed" /\ path(call.layer) = "inram"
  /\ call.capturing
  /\ sums' = [t \in Tokens |->
                [e \in 1..NumExperts |->
                   <<[expert |-> e - 1,
                      weight |-> IF e - 1 \in call.routed[t] THEN "router" ELSE "zero"]>>]]
  /\ pc' = "done"
  /\ UNCHANGED <<config, call, cpuHalf, fetched>>

\* A bug: the experts of the other half are fetched as well.
fetch_idsSlip(exclude) == IF call.prefill THEN Experts ELSE Routed

\* _forward_offload: the experts it makes resident, and the rows it adds up.
fetch_ids(exclude) == IF call.prefill THEN Experts ELSE Routed \ exclude

offload_rows(exclude) ==
  [t \in Tokens |-> OneByOne(Terms(call.routed[t] \ exclude, "router"))]

forward_offload ==
  /\ pc = "routed" /\ path(call.layer) = "offload"
  /\ fetched' = fetch_ids({})
  /\ sums' = offload_rows({})
  /\ pc' = "done"
  /\ UNCHANGED <<config, call, cpuHalf>>

\* moe_forward_core_fast: contiguous ranges of experts, one to a thread; a
\* thread sums its range apart, and the partial sums are added in order.
ThreadCount ==
  LET asked == IF config.threads <= 0 THEN Hardware ELSE config.threads IN
  IF asked > NumExperts THEN NumExperts ELSE asked

RangeOf(p) ==
  LET base == NumExperts \div ThreadCount
      rem == NumExperts % ThreadCount
      begin == p * base + (IF p < rem THEN p ELSE rem) IN
  begin..(begin + base + (IF p < rem THEN 1 ELSE 0) - 1)

core_fast(t) ==
  IF ThreadCount <= 1 THEN OneByOne(Terms(call.routed[t], "router"))
  ELSE [p \in 1..ThreadCount |-> Terms(call.routed[t] \intersect RangeOf(p - 1), "router")]

\* _forward_cpu, CpuMoeExecutor.forward: banks of a packed format have no
\* "gate_up"; without a compiler the rows are added up in Python.
forward_cpu ==
  /\ pc = "routed" /\ path(call.layer) = "cpu"
  /\ IF config.packed
     THEN pc' = "raised" /\ UNCHANGED sums
     ELSE /\ sums' = [t \in Tokens |->
                        IF config.native THEN core_fast(t)
                        ELSE OneByOne(Terms(call.routed[t], "router"))]
          /\ pc' = "done"
  /\ UNCHANGED <<config, call, cpuHalf, fetched>>

--------------------------------------------------------------------------------
\* int(round(n * fetch_frac)), in hundredths: a half goes to the even neighbour.
Round(x) ==
  LET q == x \div 100
      r == x % 100 IN
  IF r > 50 \/ (r = 50 /\ q % 2 = 1) THEN q + 1 ELSE q

\* Engine.__init__ and the blocks both read the cap as "int(cap or -1)".
max_fetch == IF config.maxFetch = 0 THEN -1 ELSE config.maxFetch

Cap(n_fetch) == IF 0 <= max_fetch /\ max_fetch < n_fetch THEN max_fetch ELSE n_fetch

n_fetch(n) ==
  LET capped == Cap(Round(n * config.fetch))
      most == IF capped < n - 1 THEN capped ELSE n - 1 IN
  IF most < 1 THEN 1 ELSE most

\* The lowest ids go to the CPU.
cpu_experts ==
  LET n == Cardinality(Routed)
      low == Ascending(Routed) IN
  {low[i] : i \in 1..(n - n_fetch(n))}

\* hybrid_subset_submit: qwen3_5_moe passes no weights, which stands for ones.
cpu_weight == IF config.arch = "qwen3_5_moe" THEN "one" ELSE "router"

Splits == ~config.packed /\ config.fetch > 0 /\ config.fetch < 100

\* The CPU half sums its rows on one thread and is added to the XPU rows last.
forward_hybrid ==
  /\ pc = "routed" /\ path(call.layer) = "hybrid"
  /\ LET cpu == IF Splits THEN cpu_experts ELSE {} IN
       /\ cpuHalf' = cpu
       /\ fetched' = fetch_ids(cpu)
       /\ sums' = [t \in Tokens |->
                     IF Splits
                     THEN Append(offload_rows(cpu)[t], Terms(call.routed[t] \intersect cpu, cpu_weight))
                     ELSE offload_rows(cpu)[t]]
  /\ pc' = "done"
  /\ UNCHANGED <<config, call>>

--------------------------------------------------------------------------------
\* The router of the block picks top_k experts for every row.
route ==
  /\ pc = "idle"
  /\ \E layer \in Layers, prefill \in BOOLEAN, capturing \in BOOLEAN,
        routed \in [Tokens -> kSubset(TopK, Experts)] :
       /\ capturing => ~prefill /\ path(layer) = "inram"
       /\ call' = [layer |-> layer, prefill |-> prefill, capturing |-> capturing,
                   routed |-> routed]
  /\ pc' = "routed"
  /\ UNCHANGED <<config, cpuHalf, fetched, sums>>

\* The rows are handed on; the next layer starts.
next_layer ==
  /\ pc = "done"
  /\ pc' = "idle"
  /\ call' = NoCall
  /\ cpuHalf' = {} /\ fetched' = {}
  /\ sums' = [t \in Tokens |-> <<>>]
  /\ UNCHANGED config

Next ==
  \/ route \/ forward_inram \/ capture_inram \/ forward_offload \/ forward_cpu
  \/ forward_hybrid \/ next_layer

Spec == Init /\ [][Next]_vars

--------------------------------------------------------------------------------
Flat(row) == FlattenSeq(row)
Added(row) == SelectSeq(Flat(row), LAMBDA term : term.weight # "zero")

\* The shape of the state; what the gather reads from the pool was handed to it.
TypeOK ==
  /\ config \in Configs
  /\ pc \in {"idle", "routed", "done", "raised"}
  /\ cpuHalf \subseteq Experts /\ fetched \subseteq Experts
  /\ \A t \in Tokens : \A i \in 1..Len(Flat(sums[t])) :
       Flat(sums[t])[i].weight \in {"router", "one", "zero"}
  /\ pc = "done" /\ path(call.layer) \in {"offload", "hybrid"} =>
       Routed \ cpuHalf \subseteq fetched

\* "disjoint expert sets (never overlap, together cover exactly the routed
\* experts)": on every path a routed expert is added to a row once, no more.
EveryRoutedOnce ==
  pc = "done" => \A t \in Tokens :
    /\ {Added(sums[t])[i].expert : i \in 1..Len(Added(sums[t]))} = call.routed[t]
    /\ Len(Added(sums[t])) = TopK

\* The weight of every term is the router's.
RouterWeights ==
  pc = "done" => \A t \in Tokens : \A i \in 1..Len(Added(sums[t])) :
    Added(sums[t])[i].weight = "router"

\* It is, but for the CPU half of a qwen3_5_moe block, whose experts are added
\* unweighted, all of them, wherever the split falls.
WeightsButTheCpuHalf ==
  pc = "done" => \A t \in Tokens : \A i \in 1..Len(Added(sums[t])) :
    LET term == Added(sums[t])[i]
    IN  term.weight = IF config.arch = "qwen3_5_moe" /\ term.expert \in cpuHalf THEN "one" ELSE "router"

\* A row as additions in order: what leads the sum is added one by one, terms
\* of weight zero and empty groups add nothing.
Nonzero(group) == SelectSeq(group, LAMBDA term : term.weight # "zero")
Additions(row) ==
  LET groups == SelectSeq([i \in 1..Len(row) |-> Nonzero(row[i])], LAMBDA g : g # <<>>) IN
  IF groups = <<>> THEN <<>> ELSE OneByOne(Head(groups)) \o Tail(groups)

\* The float32 accumulation order is the one of the in-VRAM reference, whatever
\* path the layer takes.
SameSum ==
  pc = "done" => \A t \in Tokens :
    Additions(sums[t]) = OneByOne(Terms(call.routed[t], "router"))

\* "they must never be PCIe-fetched into the XPU LRU pool at all": no expert is
\* computed on the CPU and fetched in the same step.
CpuHalfNotFetched == pc = "done" => cpuHalf \intersect fetched = {}
CpuHalfNotFetchedInDecode == ~call.prefill => CpuHalfNotFetched

\* "a non-negative int caps the routed experts fetched to the XPU each decode step".
FetchIsCapped ==
  pc = "done" /\ path(call.layer) = "hybrid" /\ Splits /\ ~call.prefill
      /\ config.maxFetch >= 0 =>
    Cardinality(fetched) <= config.maxFetch

\* A positive int does; 0 is read as no cap.
PositiveCapIsKept == config.maxFetch # 0 => FetchIsCapped

\* "never empty a half unless f is 0 / 1".
NeitherHalfEmpty ==
  pc = "done" /\ path(call.layer) = "hybrid" /\ Splits =>
    cpuHalf # {} /\ Routed \ cpuHalf # {}

\* The layers --moe-cpu-layers documents: "an integer N -- the first N MoE
\* layers", a fraction the first ceil(F * n), a list those layers.
DocumentedLayers ==
  LET kind == config.spec[1]
      value == config.spec[2] IN
  CASE kind = "unset" -> {}
    [] kind = "auto" -> Layers
    [] kind = "count" -> {l \in Layers : l < value}
    [] kind = "percent" -> {l \in Layers : 100 * l < value * NumLayers}
    [] kind = "ids" -> value

\* The layers named compute on the CPU, and no others do.
CpuLayersHonoured ==
  pc # "idle" /\ CpuMoeCapable =>
    (path(call.layer) = "cpu" <=> call.layer \in DocumentedLayers)

\* They do where the list is read as it is documented: "1" is taken for all
\* layers, qwen3_moe does not read the list under hybrid, and qwen3_5_moe takes
\* a list of all layers for none there.
ListIsRead ==
  /\ config.spec # <<"count", 1>>
  /\ config.backend = "hybrid" => config.arch = "qwen3_5_moe" /\ ~moe_cpu_moe_layers.none
  /\ config.backend \in {"cpu", "hybrid"}
ReadListsHonoured == ListIsRead => CpuLayersHonoured

\* "Empty/omitted = all MoE layers when the backend is cpu/hybrid."
OmittedMeansAll ==
  pc # "idle" /\ CpuMoeCapable /\ config.spec[1] = "unset" /\ config.backend = "cpu" =>
    path(call.layer) = "cpu"
================================================================================
